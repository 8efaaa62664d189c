SPECIFICATION Spec
CONSTANTS
    Confirmations = 1
    SettleTimeout = 2
    MinRevealTimeout = 1
    MaxPendingTransfers = 2
    UINT256_MAX = 100
    s1 = s1
    s2 = s2
    Secrets = {s1}
    PayerOf <- APays
    WaitingPayments = {}
    LockAmounts = {3}
    LockTimeouts <- NoTimeout
    Withdrawers = {}
    WithdrawTotals = {}
    CoopSettlers = {}
    Closers = {"A", "B"}
    RevealTimeouts = {}
    DepositTotals = {}
    InitialDeposit <- BothHaveFive
    InitialReveal = 1
    MaxHeight = 6
    MaxNonce = 3
    MaxLag = 1
INVARIANTS HandedInIsLatest
CHECK_DEADLOCK FALSE
