\* A worker and the main thread log, two settings, two runs of the program.
CONSTANTS
    w1 = w1
    n1 = n1
    n2 = n2
    Main = Main
    NoOwner = NoOwner
    NoFile = NoFile
    Worker = {w1}
    Level <- Types
    MinLevel = 1
    Settings <- BothSettings
    MaxMessages = 3
    Name = {n1, n2}
    MaxSize = 1
    MaxBackups = 2
    MaxRuns = 2
SPECIFICATION FairSpec
INVARIANTS TypeOK BackupsWithinLimit MessagesInOrder ErrorsSurvive
\* A program that is not started again, or whose logger blocks itself, stops.
CHECK_DEADLOCK FALSE
PROPERTIES FileIsRotated
