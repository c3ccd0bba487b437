\* Which plan runs, when and on whose word: one actor, one map and no map, both
\* settings, one request per risk tier and fingerprint, two plans for a list of one,
\* so that every plan may push the one before it out of sight.
CONSTANTS
    MaxRecords = 1
    MaxPlans = 2
    MaxTargetsPerAction = 1
    w1 = w1
    a1 = a1
    a2 = a2
    Actors = {a1}
    Worlds = {w1}
    NoWorld = NoWorld
    Requests <- GateRequests
SPECIFICATION Spec
INVARIANTS
    TypeOK
    StatusTellsWhetherItRan
    MutationsPassTheirGate
    PendingAwaitsItsGate
PROPERTIES
    MutationsRunFresh
    BridgeNeverDisplaces
    ConfirmedDestruction
    ServiceKeepsTheGate
