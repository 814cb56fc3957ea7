CONSTANTS
    Events = {"start", "proxy", "net"}
    MaxEvents = 4
SPECIFICATION Spec
INVARIANTS OneSession
\* With no further event, the service rests.
CHECK_DEADLOCK FALSE
