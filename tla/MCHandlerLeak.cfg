\* A refused descriptor leaves its handler busy.
CONSTANTS
    c1 = c1
    c2 = c2
    c3 = c3
    h1 = h1
    h2 = h2
    h3 = h3
    None = None
    Conn = {c1, c2, c3}
    Handler = {h1, h2, h3}
    Unusable = {c3}
    MaxPieces = 2
    MinThreads = 1
    MaxThreads = 2
    MaxCloses = 1
SPECIFICATION Spec
INVARIANT BusyMeansInUse
\* The server may stop: every connection is over and nobody calls listen().
CHECK_DEADLOCK FALSE
