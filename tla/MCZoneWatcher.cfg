CONSTANTS
    Files <- MCFiles
    MaxWrites = 3
    SameSecondWrites = FALSE
    WritesDuringLoad = FALSE
    NoZone = NoZone
SPECIFICATION Spec
INVARIANT TypeOK
INVARIANT StatMatchImpliesContent
PROPERTY PublishesCurrent
PROPERTY EventuallyConverged
