CONSTANTS
    Names <- MCSpreadNames
    HashOf <- MCHashSpread
    NULL = NULL
    DELETED = DELETED
SPECIFICATION Spec
CONSTRAINT
    RotatingFiles
INVARIANT
    LookupsTerminate
