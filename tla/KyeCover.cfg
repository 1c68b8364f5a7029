SPECIFICATION Spec
CONSTANTS
    a = a
    b = b
    c = c
    NoMember = NoMember
    Account <- Three
    organizer = a
    memberCount = 3
    contribution = 100
    roundIntervalSec = 2
    feeRateBps = 6000
    timeAdjustmentMaxBps = 3000
    defaultPolicy = 2
    SELF_KEEP = 5
    GAS_FORWARD_FEE = 1
    GRACE_WINDOW_SEC = 1
    InitialBalance = 15
    TxFee = 0
    GasValue <- GasFree
    PaymentValue = {100}
    MaxBalance = 450
    MaxStart = 1
    Horizon = 5
INVARIANTS
    FundedRoundPaysInFull
CHECK_DEADLOCK FALSE
SYMMETRY Symmetry
