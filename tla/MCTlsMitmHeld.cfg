\* A page without the usual tags that the connection's close ends is never sent on.
SPECIFICATION Spec
CONSTANTS
    MAX_HEADER_BYTES = 8
    MAX_BODY_CAPTURE = 4
    MAX_ANCHOR_SCAN = 4
    MAX_STREAM_BYTES = 4
    MAX_FRAME = 1
    MAX_PENDING = 12
    Blocked = {"ads"}
    Questions <- MCQuestions
    NameOf <- MCNameOf
    RequestLines <- MCRequestLines
    Scripts <- HeldScripts
INVARIANT NeverDrops
CHECK_DEADLOCK FALSE
