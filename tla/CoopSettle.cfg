SPECIFICATION Spec
CONSTANTS
    Confirmations = 1
    SettleTimeout = 4
    MinRevealTimeout = 1
    MaxPendingTransfers = 2
    UINT256_MAX = 100
    s1 = s1
    s2 = s2
    Secrets = {s1}
    PayerOf <- BPays
    WaitingPayments = {}
    LockAmounts = {3}
    LockTimeouts <- NoTimeout
    Withdrawers = {}
    WithdrawTotals = {}
    CoopSettlers = {"A", "B"}
    Closers = {}
    RevealTimeouts = {}
    DepositTotals = {}
    InitialDeposit <- BothHaveFive
    InitialReveal = 2
    MaxHeight = 5
    MaxNonce = 4
    MaxLag = 2
INVARIANTS CoopSettleIsFair NoCompetingCoopSettle
CHECK_DEADLOCK FALSE
