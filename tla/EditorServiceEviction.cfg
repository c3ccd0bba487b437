\* Does a plan that awaits the human stay where the click and the poll find it?
CONSTANTS
    MaxRecords = 2
    MaxPlans = 3
    MaxTargetsPerAction = 1
    w1 = w1
    a1 = a1
    a2 = a2
    Actors = {a1}
    Worlds = {w1}
    NoWorld = NoWorld
    Requests <- FloodRequests
SPECIFICATION Spec
INVARIANT PendingIsKept
