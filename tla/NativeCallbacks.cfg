CONSTANTS
    server = server
    discovery = discovery
    r1 = r1
    r2 = r2
    query = query
    Registrations = {server}
    Discoveries = {discovery}
    Resolutions = {r1, r2}
    Queries = {query}
    MaxFound = 2
SPECIFICATION Spec
INVARIANTS
    ReplyFindsItsFunction
    RepliesFree
    ThrowsOnlyAfterFailure
PROPERTIES
    StopReturns
    ListenersGo
CHECK_DEADLOCK FALSE
