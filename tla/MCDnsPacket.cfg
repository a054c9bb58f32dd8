CONSTANTS
    ZoneNodes <- MCZoneNodes
    ZRoots <- MCZRoots
    Delegs <- MCDelegs
    NodeRRsets <- MCNodeRRsets
    MaxResponse = 16384
    MaxCnameDepth = 4
    MaxAddtlRRsets = 16
    IncludeOptionalNS = TRUE
    EdnsClientSubnet = TRUE
    Requests <- MCRequests
    InitBuf <- MCInitBuf
    DyncResults <- MCDyncResults
    DynaddrResults <- MCDynaddrResults
    MaxRotation = 1
    MaxRequests = 2
    IsUdp = TRUE
SPECIFICATION Spec
CHECK_DEADLOCK FALSE
INVARIANT TypeOK
INVARIANT SearchMatchesReference
INVARIANT ResponseFitsLimit
INVARIANT HeaderCountsMatchBodyUntruncated
INVARIANT GlueKeptUnlessTruncated
INVARIANT DyncStoreBound
INVARIANT EveryRequestCounted
