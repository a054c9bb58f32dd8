CONSTANTS
    Conns <- MCConns
    MaxHttpClients = 1
    HdrLen = 2
    BodyLen = 3
    ChunkSizes <- MCChunkSizes
    MaxSend = 9
SPECIFICATION Spec
INVARIANT TypeOK
INVARIANT ConnLimit
PROPERTY ConnectionsClose
