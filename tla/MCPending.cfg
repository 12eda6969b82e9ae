\* The estimate of pending rewards against what a claim pays.
CONSTANTS
    u1 = u1
    u2 = u2
    p1 = p1
    m1 = m1
    id1 = id1
    tag = tag
    accepted = accepted
    foreign = foreign
    collector = collector
    None = None
    Users = {u1, u2}
    Pools = {p1}
    Mints = {m1}
    Entries <- OneEntry
    Records = {}
    Discounts = {d1}
    Tags = {tag}
    Verified <- NoTags
    Terms <- CoolingTerms
    FullFee = 2
    DiscountFee = 0
    InfoKeys = {accepted, foreign}
    PaymentKey = accepted
    Collectors = {collector}
    Payments <- FreeOnly
    InitialFunds = 0
    StartTime = 1
    MaxTime = 3
    U32 = 64
    Distributors <- OneDistributor
    RewardTerms <- PlainOnly
    Multipliers = {}
    InitialTokens = 1
    MaxIssued = 2
    Clients = {u1}
    Listed <- NoTags
    Standard <- AllPNFT
    Accounts = {"ata"}
SPECIFICATION ClientSpec
INVARIANTS
    PendingIsClaimable
