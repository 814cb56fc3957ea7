CONSTANTS
    Keys <- MCKeys
    Dns <- MCDns
    Blocked = {}
    Resolvers = {"r1"}
    Proxies = {"socks5"}
    PendingCap = 1
    JobCap = 1
    Idle = 2
    HsTimeout = 1
    JobTimeout <- MCJobTimeout
    MaxData = 3
    MaxCopies = 1
    MaxChanges = 0
SPECIFICATION Spec
INVARIANTS AssociateTimely DeadAssociationGone
