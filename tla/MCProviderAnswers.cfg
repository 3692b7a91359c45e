SPECIFICATION MCSpec
CONSTANTS
    Requests = {q1, q2}
    Resources = {"rest"}
    Admissions = {a1}
    BudgetLimits = {1, 2}
    LiveFloor = 0
    MaxCost = 1
    MaxBudgetWindow = 1
    MaxReset = 2
    ProviderLimit = 3
    RateReserveBuffer = 1
    ArchiveReserveDenominator = 5
    EssentialReserveDenominator = 2
    NoResource = NoResource
    NoAdmission = NoAdmission
    NoRate = NoRate
    NoWindow = NoWindow
    Callers = {c1, c2}
    Lanes = {l1, l2}
    Repos = {r1, r2}
    Bare = Bare
    MaxDeferrals = 2
    MaxVersion = 3
    MaxQueued = 2
    MaxFaults = 1
SYMMETRY Symmetry
CHECK_DEADLOCK FALSE
INVARIANTS
    SpentIsExact
    CeilingHolds
    ReservationsExact
    ReservationIsHeld
    ReadIsPropagated
PROPERTIES
    ObservedStaySeen
    AnswersAreOwn
    RenewalStands
