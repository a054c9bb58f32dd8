CONSTANTS
    Files <- MCFiles
    MaxWrites = 1
    SameSecondWrites = FALSE
    WritesDuringLoad = TRUE
    NoZone = NoZone
SPECIFICATION Spec
PROPERTY InitialLoadCompletes
