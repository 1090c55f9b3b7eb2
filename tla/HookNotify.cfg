SPECIFICATION Spec
CONSTANTS
    t1 = t1
    t2 = t2
    w1 = w1
    w2 = w2
    Threads <- MCThreads
    Windows <- MCWindows
    NoWindow = NoWindow
    MaxNyamy = 2
    MaxMail = 1
SYMMETRY MCSymmetry
INVARIANTS
    PublishedIsReached
    LastReportWins
CHECK_DEADLOCK FALSE
