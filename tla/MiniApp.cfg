SPECIFICATION Spec
CONSTANTS
    MaxFaults = 1
    Attempts = 2
    phone = phone
    desktop = desktop
    Device = {phone, desktop}
    MaxKeys = 2
    MaxActivations = 1
    MaxOps = 2
    Savings = {1}
    DepositSent = 3
    GasLeft = {1}
    PageCall = {1, 2}
    memberCount = 2
    VaultBalance = 2
    PendingRow = {0}
    CreateCall = {1, 2}
    own = own
    other = other
    NoVault = NoVault
    Params <- MCParams
    Salt = {0, 1, 9}
    MaxNextSalt = 2
    JoinCall <- MCJoinCall
    User = {"alice", "bob"}
    NoUser = "none"
    s1 = s1
    s2 = s2
    Slot = {s1, s2}
    Wanted <- MCWanted
    NoSlot = NoSlot
    Starts <- MCStarts
    Person = {"ann", "ben", "cho"}
    Nobody = "nobody"
    Absent = "norow"
    k1 = k1
    k2 = k2
    Kye = {k1, k2}
    Organizer <- MCOrganizer
    Chat = {chat1, chat2}
    NoChat = NoChat
    Handler = {1, 2}
    MaxUpdates = 3
INVARIANTS
    TypeOK
    AgreedVault
    
    ContributionCharged
    SuccessIsSettled
    CircleOnRecord
    LockHolderGetsSlot
    NoGroupLeftBehind
PROPERTY
    PaysAtMostOnce
    ReferrerKept
SYMMETRY MCSymmetry
CHECK_DEADLOCK FALSE
