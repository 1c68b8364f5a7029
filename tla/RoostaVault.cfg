SPECIFICATION Spec
CONSTANTS
    v1 = v1
    v2 = v2
    kye = kye
    Vault <- BothVaults
    Target = {kye}
    Amount = {9}
    Deposit = {15}
    RelayerGas = {2, 5}
    MIN_RELAYER_GAS = 3
    SELF_KEEP = 5
    VAULT_MIN_GAS = 5
    TtlSec = 1
    TxFee = 1
    StorageTerm = 2
    MaxBalance = 23
    MaxTime = 3
    MaxSigned = 3
    MaxEvents = 3
INVARIANTS
    TypeOK
    IntentsExecuteOnce
    OneIntentPerSeqno
    FreshIntentAffordable
PROPERTIES
    ReserveKeepsAccount
CHECK_DEADLOCK FALSE
SYMMETRY Symmetry
