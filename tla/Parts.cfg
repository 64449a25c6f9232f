CONSTANTS
    c1 = c1
    c2 = c2
    proxy1 = proxy1
    proxy2 = proxy2
    Client = {c1, c2, proxy1, proxy2}
    Overflow = Overflow
    MaxBuckets = 2
    Burst = 4
    Cost = 2
    MaxTick = 5
    Conn = {r1}
    Trusted = {proxy1, proxy2}
    Garbled = Garbled
    NoHeader = NoHeader
    MaxHops = 3
    Wires <- MCWires
    Bodies <- MCBodies
    Bad = Bad
    Null = Null
    Wallet = "me"
    Coin = Coin
    Registry = {"usd"}
    WrappedSol = "wsol"
    Setups <- MCSetups
    Answers <- MCAnswers
    Asked <- MCAsked
    DefaultLimit = 2
    MaxLimit = 3
    MaxKept = 0
    Account = {"x", "y"}
    Token = {"t"}
    Native = "coin"
    MaxU64 = 20
    Worths = {0, 2}
    Slots = 1
    MaxMoves = 2
    Says <- MCSays
    Hash = "h"
    Replies <- MCReplies
    Taken <- MCTaken
    Refusals <- MCRefusals
    Costs = {1, 2}
    Funds = 3
    NotRead = NotRead
    MaxSent = 3
    MaxIncome = 2
    WalletId = {"w1", "w2", "w3"}
    NoWallet = NoWallet
    MaxWallets = 2
    ReqId = {"w1"}
    WalletOf <- MCWalletOf
    Callback = {s1, s2}
SPECIFICATION PartsSpec
INVARIANTS TableBound KeyIsSender EmptyPageIsProven PageShape NoMovementHidden StatusIsEvidence AmountIsTrue VerdictIsTrue SpendIsCovered
    SignedOnce WalletsAreWhole DeletedStaysDeleted
PROPERTY IdealBuckets
