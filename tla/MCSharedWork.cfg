SPECIFICATION SharedSpec
CONSTANTS
    p1 = p1
    p2 = p2
    g1 = g1
    g2 = g2
    g3 = g3
    g4 = g4
    Nobody = Nobody
    Processes <- MCProcesses
    Goroutines <- MCGoroutines
    ProcessOf <- MCProcessOf
    Patient = {g1, g3}
    MaxCrashes = 1
    MaxUnlockErrors = 1
    Total = 3
    Workers = {w1, w2}
    Dispatcher = Dispatcher
    NoItem = NoItem
    PRs = {p}
    Handles = {h1}
    Immediates = {i1}
    Enrollment = Enrollment
    None = None
    NoGeneration = NoGeneration
    NoEnrollment = NoEnrollment
    NoSeal = NoSeal
    MaxHead = 1
    MaxBase = 2
    Issues = {}
    MergeRequests = {}
    MaxTime = 1
    MaxScans = 0
    MaxMoves = 0
CHECK_DEADLOCK FALSE
INVARIANTS
    CompletedIsComplete
PROPERTIES
    LockIsPassedOn
    IsWorktreeLock
    PassEnds
    QueueEnds
