SPECIFICATION Spec
CONSTANTS
    api = api
    worker = worker
    Indexer = {api, worker}
    Notifier = {worker}
    memberCount = 2
    Defaulters = {{}, {1}}
    policyCancels = FALSE
    FETCH_LIMIT = 2
    MaxTx = 3
    MaxFaults = 1
INVARIANTS
    CreditedOnce
CHECK_DEADLOCK FALSE
