SPECIFICATION Spec
CONSTANTS
    a = a
    b = b
    c = c
    NoMember = NoMember
    Account <- Three
    organizer = a
    memberCount = 3
    contribution = 100
    roundIntervalSec = 2
    feeRateBps = 500
    timeAdjustmentMaxBps = 0
    defaultPolicy = 0
    SELF_KEEP = 5
    GAS_FORWARD_FEE = 1
    GRACE_WINDOW_SEC = 1
    InitialBalance = 15
    TxFee = 2
    GasValue = {2}
    PaymentValue = {100, 103}
    MaxBalance = 520
    MaxStart = 1
    Horizon = 5
INVARIANTS
    CapOnlyAfterDefault
CHECK_DEADLOCK FALSE
