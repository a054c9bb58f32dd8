CONSTANTS
    Names = {"a", "b", "c", "d", "e"}
    HashOf <- MCHashCollide
    NULL = NULL
    DELETED = DELETED
SPECIFICATION Spec
INVARIANT TypeOK
INVARIANT FindAgrees
PROPERTY ImplementsZoneFileSet
