SPECIFICATION FairSpec
CONSTANTS
    Launches = {l1}
    Workers = {w1, w2}
    Creator = w1
    Requests = {d1}
    MaxRestarts = 1
INVARIANTS
    TeardownIsAlone
    NoProcessOutlivesWorkspace
    ExitedIsForgotten
    QueuedRetryIsServed
PROPERTY Settles
CHECK_DEADLOCK FALSE
