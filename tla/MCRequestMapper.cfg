\* Two handler threads serve the requests of two clients.
SPECIFICATION Spec
CONSTANTS
    t1 = t1
    t2 = t2
    c1 = c1
    c2 = c2
    u1 = u1
    u2 = u2
    o1 = o1
    o2 = o2
    s1 = s1
    s2 = s2
    Thread = {t1, t2}
    Client = {c1, c2}
    User = {u1, u2}
    Object = {o1, o2}
    Shift = {s1, s2}
    None = None
    MaxRequests = 4
SYMMETRY Symmetry
INVARIANTS TypeOK  ShiftsOfCaller ReportOfCaller
\* A server that gets no more requests waits; a crashed one stops.
CHECK_DEADLOCK FALSE
