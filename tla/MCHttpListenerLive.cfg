\* Liveness and refinement: three clients, every descriptor usable, no symmetry.
CONSTANTS
    c1 = c1
    c2 = c2
    c3 = c3
    h1 = h1
    h2 = h2
    None = None
    h3 = h3
    Conn = {c1, c2, c3}
    Handler = {h1, h2}
    Unusable = {}
    MaxPieces = 1
    MinThreads = 0
    MaxThreads = 1
    MaxCloses = 1
SPECIFICATION FairSpec
PROPERTIES
    PoolShrinks
    HandlersComeFree
    CloseReturns
    AdmissionSpec
\* The server may stop: every connection is over and nobody calls listen().
CHECK_DEADLOCK FALSE
