\* One call of any tool, asked in the session, in an editor where anything happens.
CONSTANTS
    MaxRecords = 3
    MaxPlans = 3
    MaxTargetsPerAction = 1
    MaxDrift = 2
    w1 = w1
    a1 = a1
    c1 = c1
    c2 = c2
    Actors = {a1}
    Worlds = {w1}
    NoWorld = NoWorld
    NoRequest = NoRequest
    Nothing = Nothing
    Callers = {c1}
    Elicitation = TRUE
    ToolCalls <- AllTools
    Requests <- CallRequests
SPECIFICATION MCPSpec
INVARIANT CleanFailureIsClean
