SPECIFICATION Spec
CONSTANTS
    Prepares = {p1, p2}
    NoGeneration = NoGeneration
    NoEnrollment = NoEnrollment
    NoSeal = NoSeal
    MaxEnrollments = 1
    MaxWrites = 1
    MaxCrashes = 1
    MaxBusy = 3
INVARIANTS
    NothingLeftBehind
CHECK_DEADLOCK FALSE
