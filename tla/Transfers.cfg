SPECIFICATION Spec
CONSTANTS
    Confirmations = 1
    SettleTimeout = 4
    MinRevealTimeout = 1
    MaxPendingTransfers = 2
    UINT256_MAX = 100
    s1 = s1
    s2 = s2
    Secrets = {s1}
    PayerOf <- APays
    WaitingPayments = {s1}
    LockAmounts = {3}
    LockTimeouts <- AnyTimeout
    Withdrawers = {}
    WithdrawTotals = {}
    CoopSettlers = {}
    Closers = {}
    RevealTimeouts = {2}
    DepositTotals = {}
    InitialDeposit <- BothHaveFive
    InitialReveal = 1
    MaxHeight = 6
    MaxNonce = 4
    MaxLag = 2
INVARIANTS TypeOK ViewsAgree PayerRespectsClaims SanityHolds NextMessageAcceptable
PROPERTIES ClaimEndsWithPayment
CHECK_DEADLOCK FALSE
