CONSTANTS
    ZoneNodes <- MCZoneNodes
    ZRoots <- MCZRoots
    Delegs <- MCDelegs
    NodeRRsets <- MCNodeRRsets
    MaxResponse = 16384
    MaxCnameDepth = 4
    MaxAddtlRRsets = 16
    IncludeOptionalNS = TRUE
    EdnsClientSubnet = TRUE
    Requests <- MCRequestsEcsFlood
    InitBuf <- MCInitBuf
    DyncResults <- MCDyncResults
    DynaddrResults <- MCDynaddrResults
    MaxRotation = 1
    MaxRequests = 1
    IsUdp = TRUE
SPECIFICATION Spec
CHECK_DEADLOCK FALSE
INVARIANT ResponseFitsLimit
