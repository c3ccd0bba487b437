\* One caller sending anything in any mode to a bridge that stops and starts.
CONSTANTS
    MaxRecords = 2
    MaxPlans = 2
    MaxTargetsPerAction = 1
    w1 = w1
    a1 = a1
    c1 = c1
    Actors = {a1}
    Worlds = {w1}
    NoWorld = NoWorld
    NoRequest = NoRequest
    Nothing = Nothing
    Callers = {c1}
    Requests <- BridgeRequests
SPECIFICATION BridgeSpec
INVARIANT FinalAnswersStayTrue
PROPERTY
    RefusalChangesNothing
    ServiceSpec
