CONSTANTS
    BUFFER_SIZE = 30
    MaxRequests = 3
    MaxInFlight = 2
    Args <- MCArgs
    Contexts <- MCContexts
    Replies <- MCReplies
    BuildRequest <- build_request
    ParseRequest <- parse_request
    BuildResponse <- build_response
    ParseResponse <- parse_response
    Wrap <- build_hnp_request_wrapper
    Unwrap <- parse_hnp_request_wrapper
SPECIFICATION FairSpec
INVARIANTS
    AlwaysReadable
PROPERTIES
    ImplementsRpc
    Answered
CHECK_DEADLOCK FALSE
