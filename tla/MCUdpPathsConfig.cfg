CONSTANTS
    Keys <- MCKeys
    Dns <- MCDns
    Blocked = {}
    Resolvers = {"r1", "r2"}
    Proxies = {"none", "broken", "http", "socks5"}
    PendingCap = 1
    JobCap = 1
    Idle = 1
    HsTimeout = 0
    JobTimeout <- MCJobTimeout
    MaxData = 2
    MaxCopies = 1
    MaxChanges = 1
SPECIFICATION MCSpec
INVARIANT AsConfigured
PROPERTY AllEnd
