CONSTANTS
    Events = {"start", "stop", "net"}
    MaxEvents = 3
SPECIFICATION Spec
INVARIANTS CoreGone
\* With no further event, the service rests.
CHECK_DEADLOCK FALSE
