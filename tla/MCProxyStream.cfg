CONSTANTS
    HANDSHAKE_BUF_CAP = 32
    MAX_HEAD = 8
    Replies <- MCReplies
    Tokens <- MCTokens
    Requests <- MCRequests
SPECIFICATION Spec
INVARIANTS TunnelExact ConversationExact ForwardExact
PROPERTIES GrantOpens
\* A flow that has ended, or whose proxy does not answer, stays as it is.
CHECK_DEADLOCK FALSE
