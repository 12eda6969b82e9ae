\* Shares whose sum wraps around.
CONSTANTS
    u1 = u1
    u2 = u2
    u3 = u3
    None = None
    Wallets = {u1, u2, u3}
    Settings <- WrappedInfos
    InitialFunds = 8
    Divisor = 10000
    U16 = 65536
    U64 = 1073741824
SPECIFICATION Spec
INVARIANTS
    SharesAddUp
