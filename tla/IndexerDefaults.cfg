SPECIFICATION Spec
CONSTANTS
    api = api
    worker = worker
    Indexer = {worker}
    Notifier = {worker}
    memberCount = 2
    Defaulters = {{}, {1}, {1, 2}}
    policyCancels = TRUE
    FETCH_LIMIT = 50
    MaxTx = 4
    MaxFaults = 0
INVARIANTS
    DefaultersNotified
CHECK_DEADLOCK FALSE
