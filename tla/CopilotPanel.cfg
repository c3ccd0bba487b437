\* A person at the panel, the slot and the record list under more plans than the
\* list holds.
CONSTANTS
    MaxRecords = 2
    MaxPlans = 3
    MaxTargetsPerAction = 1
    w1 = w1
    a1 = a1
    Actors = {a1}
    Worlds = {w1}
    NoWorld = NoWorld
    Requests <- PanelPlans
SPECIFICATION PanelSpec
INVARIANTS
    OnePendingPlan
    RecordsAreTheNewest
    ConsumedFlagIsTruthful
    RowsAreThePendingPlan
PROPERTIES
    DecidedIsFinal
    ClickRunsWhatWasRead
