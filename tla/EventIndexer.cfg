SPECIFICATION FairSpec
CONSTANTS
    api = api
    worker = worker
    Indexer = {worker}
    Notifier = {worker}
    memberCount = 2
    Defaulters = {{1}}
    policyCancels = FALSE
    FETCH_LIMIT = 3
    MaxTx = 4
    MaxFaults = 2
INVARIANTS
    TypeOK
    NotifiedOnce
    CursorCovers
    CaughtUpMatchesChain
PROPERTIES
    StatusFollowsChain
    EventuallyRecorded
CHECK_DEADLOCK FALSE
