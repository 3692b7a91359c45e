SPECIFICATION FairSpec
CONSTANTS
    Streams = {s1, s2}
    Clients = {c1}
    NoStream = NoStream
    EventTypes = {"sync_status", "data_changed"}
    CachedTypes = {"sync_status"}
    RingCapacity = 1
    ChanCapacity = 1
    MaxEventID = 3
    MaxDrops = 1
    MaxRestarts = 1
INVARIANTS
    CheckpointSound
    InOrderOnce
    StatusOnItsWay
PROPERTY EventuallyAccountedFor
CHECK_DEADLOCK FALSE
