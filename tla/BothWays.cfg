SPECIFICATION Spec
CONSTANTS
    Confirmations = 1
    SettleTimeout = 2
    MinRevealTimeout = 1
    MaxPendingTransfers = 2
    UINT256_MAX = 100
    s1 = s1
    s2 = s2
    Secrets = {s1, s2}
    PayerOf <- OnePaysTheOther
    WaitingPayments = {}
    LockAmounts = {3}
    LockTimeouts <- NoTimeout
    Withdrawers = {}
    WithdrawTotals = {}
    CoopSettlers = {}
    Closers = {}
    RevealTimeouts = {}
    DepositTotals = {5}
    InitialDeposit <- OnlyAHasFive
    InitialReveal = 1
    MaxHeight = 4
    MaxNonce = 3
    MaxLag = 1
INVARIANTS SanityHolds NextMessageAcceptable
CHECK_DEADLOCK FALSE
