SPECIFICATION Spec
CONSTANTS
    Prepares = {p1, p2}
    NoGeneration = NoGeneration
    NoEnrollment = NoEnrollment
    NoSeal = NoSeal
    MaxEnrollments = 2
    MaxWrites = 1
    MaxCrashes = 1
    MaxBusy = 2
INVARIANTS
    SealIsTrue
    ActivationAgrees
PROPERTIES
    RevokedStaysRevoked
SYMMETRY PrepareSymmetry
CHECK_DEADLOCK FALSE
