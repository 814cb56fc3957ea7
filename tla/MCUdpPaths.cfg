CONSTANTS
    Keys <- MCKeys
    Dns <- MCDns
    Blocked = {2}
    Resolvers = {"r1"}
    Proxies = {"none", "broken", "http", "socks5"}
    PendingCap = 2
    JobCap = 1
    Idle = 1
    HsTimeout = 0
    JobTimeout <- MCJobTimeout
    MaxData = 3
    MaxCopies = 2
    MaxChanges = 0
SPECIFICATION Spec
INVARIANTS TablesExact RelayedInOrder AnswersExact
