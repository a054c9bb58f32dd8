CONSTANTS
    LabelLen <- MCLabelLen
    Zone <- MCZone
    QNames <- MCQNames
    RNames <- MCRNames
    SoaNames <- MCSoaNames
    RdLens = {1, 16327}
    MaxResponse = 16384
    CompTargetsMax = 4
    MaxRRs = 3
SPECIFICATION Spec
CHECK_DEADLOCK FALSE
INVARIANT TypeOK
INVARIANT NamesDecode
INVARIANT SearchMatchesReference
