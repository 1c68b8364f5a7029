SPECIFICATION Spec
CONSTANTS
    a = a
    b = b
    c = c
    NoMember = NoMember
    Account <- Three
    organizer = a
    memberCount = 3
    contribution = 100
    roundIntervalSec = 2
    feeRateBps = 500
    timeAdjustmentMaxBps = 3000
    defaultPolicy = 0
    SELF_KEEP = 5
    GAS_FORWARD_FEE = 1
    GRACE_WINDOW_SEC = 1
    InitialBalance = 15
    TxFee = 0
    GasValue <- GasFree
    PaymentValue = {100, 103}
    MaxBalance = 450
    MaxStart = 1
    Horizon = 5
INVARIANTS
    TypeOK
    SlotsInv
    RecordsInv
    SavingsCoverBonuses
    PreviewKept
PROPERTIES
    ImplementsCircle
CHECK_DEADLOCK FALSE
SYMMETRY Symmetry
