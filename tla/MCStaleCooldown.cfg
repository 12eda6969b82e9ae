\* One pool, one token: an unstake on an entry that is not staked leaves a cooldown behind.
CONSTANTS
    u1 = u1
    u2 = u2
    p1 = p1
    p2 = p2
    m1 = m1
    m2 = m2
    m3 = m3
    creator = creator
    accepted = accepted
    collector = collector
    None = None
    Users = {u1, u2}
    Pools = {p1}
    Mints = {m1}
    Entries <- OneEntry
    Records = {}
    Discounts = {d1}
    Tags = {creator}
    Verified <- CreatorOfM1
    Terms <- CoolingTerms
    FullFee = 0
    DiscountFee = 0
    InfoKeys = {accepted}
    PaymentKey = accepted
    Collectors = {collector}
    Payments <- FreeOnly
    InitialFunds = 0
    StartTime = 1
    MaxTime = 5
    U32 = 64
SPECIFICATION Spec
INVARIANTS
    CooldownBelongsToStake
