SPECIFICATION FairSpec
CONSTANTS
    Total = 3
    Workers = {w1, w2}
    Dispatcher = Dispatcher
    NoItem = NoItem
CHECK_DEADLOCK FALSE
PROPERTY ProgressNeverRegresses
