CONSTANTS
    Events = {"start", "proxy", "rules"}
    MaxEvents = 3
SPECIFICATION Spec
PROPERTIES RulesPushed
\* With no further event, the service rests.
CHECK_DEADLOCK FALSE
