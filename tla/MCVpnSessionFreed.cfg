CONSTANTS
    Events = {"start", "proxy"}
    MaxEvents = 3
SPECIFICATION Spec
INVARIANTS NoUseAfterStop
\* With no further event, the service rests.
CHECK_DEADLOCK FALSE
