SPECIFICATION Spec
CONSTANTS
    api = api
    worker = worker
    Indexer = {api, worker}
    Notifier = {worker}
    memberCount = 2
    Defaulters = {{}, {1}}
    policyCancels = FALSE
    FETCH_LIMIT = 50
    MaxTx = 4
    MaxFaults = 0
INVARIANTS
    WinnersNotified
CHECK_DEADLOCK FALSE
