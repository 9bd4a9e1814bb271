SPECIFICATION Spec
CONSTANTS
    b1 = b1
    b2 = b2
    c1 = c1
    t1 = t1
    t2 = t2
    Connects = {c1}
    Tests = {t1}
    Bastions = {b1, b2}
    Proxy = Proxy
    Command = Command
    NoOne = NoOne
    Chains <- MixedChains
INVARIANT TunnelStands
CHECK_DEADLOCK FALSE
