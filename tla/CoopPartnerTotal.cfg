SPECIFICATION Spec
CONSTANTS
    Confirmations = 1
    SettleTimeout = 4
    MinRevealTimeout = 1
    MaxPendingTransfers = 2
    UINT256_MAX = 100
    s1 = s1
    s2 = s2
    Secrets = {}
    PayerOf <- APays
    WaitingPayments = {}
    LockAmounts = {3}
    LockTimeouts <- NoTimeout
    Withdrawers = {}
    WithdrawTotals = {}
    CoopSettlers = {"A"}
    Closers = {}
    RevealTimeouts = {}
    DepositTotals = {6}
    InitialDeposit <- BothHaveFive
    InitialReveal = 2
    MaxHeight = 7
    MaxNonce = 4
    MaxLag = 10
INVARIANTS PartnerTotalAsExpected
CHECK_DEADLOCK FALSE
