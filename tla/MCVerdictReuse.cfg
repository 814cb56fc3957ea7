CONSTANTS
    Keys = {k1, k2, k3}
    Uids = {u1, u2}
    Policies <- MCPolicies
    Cap = 2
    MaxTick = 6
    NoUid = NoUid
    NoRule = NoRule
    Absent = Absent
SYMMETRY Symmetry
SPECIFICATION CacheSpec
INVARIANT AttributionCurrent
