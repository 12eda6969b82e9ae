\* Unstaking through the SDK: payment infos, token accounts, cooldowns and claims.
CONSTANTS
    u1 = u1
    u2 = u2
    p1 = p1
    m1 = m1
    id1 = id1
    tag = tag
    accepted = accepted
    foreign = foreign
    collector = collector
    None = None
    Users = {u1}
    Pools = {p1}
    Mints = {m1}
    Entries <- OneEntry
    Records = {}
    Discounts = {d1}
    Tags = {tag}
    Verified <- NoTags
    Terms <- BothKeys
    FullFee = 3
    DiscountFee = 0
    InfoKeys = {accepted, foreign}
    PaymentKey = accepted
    Collectors = {collector}
    Payments <- FreeAndPriced
    InitialFunds = 2
    StartTime = 1
    MaxTime = 2
    U32 = 64
    Distributors <- OneDistributor
    RewardTerms <- PlainBothKeys
    Multipliers = {}
    InitialTokens = 0
    MaxIssued = 2
    Clients = {u1}
    Listed <- NoTags
    Standard <- AllPNFT
    Accounts = {"ata", "other"}
SPECIFICATION ClientFairSpec
PROPERTIES
    SdkUnstakeProceeds
