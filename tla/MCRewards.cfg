\* Two users, one token, one distributor: claims against stakes, updates, resets and treasuries.
CONSTANTS
    u1 = u1
    u2 = u2
    p1 = p1
    m1 = m1
    id1 = id1
    id2 = id2
    accepted = accepted
    collector = collector
    None = None
    Users = {u1, u2}
    Pools = {p1}
    Mints = {m1}
    Entries <- OneEntry
    Records = {}
    Discounts = {d1}
    Tags = {}
    Verified <- NoTags
    Terms <- OpenTerms
    FullFee = 0
    DiscountFee = 0
    InfoKeys = {accepted}
    PaymentKey = accepted
    Collectors = {collector}
    Payments <- FreeOnly
    InitialFunds = 0
    StartTime = 1
    MaxTime = 4
    U32 = 64
    Distributors <- OneDistributor
    RewardTerms <- WholeAndHalf
    Multipliers = {10}
    InitialTokens = 2
    MaxIssued = 3
SPECIFICATION CenterSpec
INVARIANTS
    RewardTypeOK
PROPERTIES
    TokensPaidForSeconds
    SecondsMarkedArePaidFor
    OnlyResetsForfeit
    IssuedTokensLeaveTreasury
