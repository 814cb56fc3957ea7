CONSTANTS
    Events = {"start", "proxy", "settings"}
    MaxEvents = 3
SPECIFICATION Spec
PROPERTIES SettingsPushed
\* With no further event, the service rests.
CHECK_DEADLOCK FALSE
