SPECIFICATION FairSpec
CONSTANTS
    Confirmations = 1
    SettleTimeout = 2
    MinRevealTimeout = 1
    MaxPendingTransfers = 2
    UINT256_MAX = 100
    s1 = s1
    s2 = s2
    Secrets = {s1}
    PayerOf <- APays
    WaitingPayments = {}
    LockAmounts = {3}
    LockTimeouts <- NoTimeout
    Withdrawers = {}
    WithdrawTotals = {}
    CoopSettlers = {}
    Closers = {}
    RevealTimeouts = {}
    DepositTotals = {}
    InitialDeposit <- BothHaveFive
    InitialReveal = 1
    MaxHeight = 5
    MaxNonce = 4
    MaxLag = 3
PROPERTIES EveryMessageAccepted
CHECK_DEADLOCK FALSE
