CONSTANTS
    c1 = c1
    c2 = c2
    Conns <- MCConns
    Kinds <- KindsWellFormed
    NoConn = NoConn
    MaxClients = 2
    BufPieces = 3
    MaxReqs = 2
SPECIFICATION Spec
INVARIANT AckedWritesSaved
