\* Safety: two workers, one client with two tabs, the timer.
CONSTANTS
    w1 = w1
    w2 = w2
    k1 = k1
    k2 = k2
    s1 = s1
    s2 = s2
    s3 = s3
    None = None
    Main = Main
    Session = {s1, s2}
    Worker = {w1, w2}
    Client = {k1}
    ExpirationTime = 1
    MaxClock = 2
    MaxCalls = 2
SPECIFICATION Spec
SYMMETRY Symmetry
INVARIANTS
    TypeOK
    RefCountIsExact
    NoUseAfterDelete
    NoLeak
    OneSessionPerRequest
PROPERTIES
    ExpiresWhenUnused
