SPECIFICATION MCSpec
CONSTANTS
    PRs = {p}
    Handles = {h1, h2}
    Immediates = {i1}
    Enrollment = Enrollment
    None = None
    NoGeneration = NoGeneration
    NoEnrollment = NoEnrollment
    NoSeal = NoSeal
    MaxHead = 2
    MaxBase = 1
    Issues = {}
    MergeRequests = {n1}
    MaxTime = 3
    MaxScans = 2
    MaxMoves = 1
SYMMETRY Symmetry
INVARIANTS
    GateCountsWork
    LiveWorkerIsPending
    MergedHeadIsReviewed
    AnnouncedMergeIsReal
    NoUpdateIsSkipped
PROPERTIES
    IsWriteBarrier
