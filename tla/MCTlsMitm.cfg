\* Splices with any segmentation: pages, uploads and answers through the tap and the
\* rewriter, questions through the DNS filter.
SPECIFICATION Spec
CONSTANTS
    MAX_HEADER_BYTES = 8
    MAX_BODY_CAPTURE = 4
    MAX_ANCHOR_SCAN = 4
    MAX_STREAM_BYTES = 4
    MAX_FRAME = 1
    MAX_PENDING = 12
    Blocked = {"ads"}
    Questions <- MCQuestions
    NameOf <- MCNameOf
    RequestLines <- MCRequestLines
    Scripts <- MCScripts
INVARIANTS PinMeansRefusal AskedExact ShownExact HarExact AnswersMatch
CHECK_DEADLOCK FALSE
