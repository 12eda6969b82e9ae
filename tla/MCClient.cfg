\* Two users, one of them with the SDK, one token, one distributor, payments.
CONSTANTS
    u1 = u1
    u2 = u2
    p1 = p1
    m1 = m1
    id1 = id1
    tag = tag
    accepted = accepted
    foreign = foreign
    collector = collector
    None = None
    Users = {u1, u2}
    Pools = {p1}
    Mints = {m1}
    Entries <- OneEntry
    Records <- OneEntry
    Discounts = {d1}
    Tags = {tag}
    Verified <- NoTags
    Terms <- RecordedTerms
    FullFee = 2
    DiscountFee = 0
    InfoKeys = {accepted, foreign}
    PaymentKey = accepted
    Collectors = {collector}
    Payments <- PricedOnly
    InitialFunds = 1
    StartTime = 1
    MaxTime = 3
    U32 = 64
    Distributors <- OneDistributor
    RewardTerms <- PlainOnly
    Multipliers = {}
    InitialTokens = 1
    MaxIssued = 2
    Clients = {u1}
    Listed <- NoTags
    Standard <- AllPNFT
    Accounts = {"ata"}
SPECIFICATION ClientSpec
INVARIANTS
    ClientTypeOK
    RewardTypeOK
    StakedTokenRecoverable
    PendingExact
PROPERTIES
    UnstakePaysInFull
    PaidToStaker
    ChangesAreDeclared
    OnlyResetsForfeit
    ImplementsLedger
