SPECIFICATION CatchingSpec
CONSTANTS
    Streams = {s1}
    EventTypes = {"data_changed", "sync_status", "workspace", "unknown"}
    ProviderTypes = {"data_changed", "sync_status"}
    ForeignTypes = {"unknown"}
    CachedTypes = {"sync_status"}
    StatusType = "sync_status"
    RingCapacity = 1
    ChanCapacity = 1
    MaxEventID = 2
    MaxWire = 1
    MaxIncidents = 2
    Repos = {r1, r2}
    Runs = {g1, g2}
    Ticker = Ticker
    NoPending = NoPending
    Nobody = Nobody
    MaxTriggers = 2
INVARIANTS
    ConnectedMissesNothing
    StatusOnItsWay
    RevokedStreamEnds
    SingleFlight
    RequestsRetained
    StatusIsTrue
PROPERTIES
    EventuallyInStep
    AcceptedIsReached
    IsSyncSlot
CHECK_DEADLOCK FALSE
