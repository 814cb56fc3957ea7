CONSTANTS
    Events = {"start", "stop", "net", "proxy", "settings", "rules"}
    MaxEvents = 3
SPECIFICATION Spec
INVARIANTS SessionsExclusive FdOwned
PROPERTIES V6Follows RulesReach
\* With no further event, the service rests.
CHECK_DEADLOCK FALSE
