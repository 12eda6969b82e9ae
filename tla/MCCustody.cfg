\* Two users and two pools of three tokens: allowlist, end date, closing, reopening, transfers.
CONSTANTS
    u1 = u1
    u2 = u2
    p1 = p1
    p2 = p2
    m1 = m1
    m2 = m2
    m3 = m3
    creator = creator
    accepted = accepted
    collector = collector
    None = None
    Users = {u1, u2}
    Pools = {p1, p2}
    Mints = {m1, m2, m3}
    Entries <- TwoPools
    Records = {}
    Discounts = {d1}
    Tags = {creator}
    Verified <- CreatorOfM1
    Terms <- GuardedTerms
    FullFee = 0
    DiscountFee = 0
    InfoKeys = {accepted}
    PaymentKey = accepted
    Collectors = {collector}
    Payments <- FreeOnly
    InitialFunds = 0
    StartTime = 2
    MaxTime = 3
    U32 = 64
SPECIFICATION Spec
INVARIANTS
    StakedTokenRecoverable
    NothingLockedForNobody
    TotalStakedExact
