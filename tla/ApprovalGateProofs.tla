------------------------- MODULE ApprovalGateProofs -------------------------
(***************************************************************************)
(* The editor service implements ApprovalGate.  Each of the six shapes of  *)
(* step that EditorServiceProofs tells apart is a step of the gate, or     *)
(* leaves every plan its fate.                                             *)
(***************************************************************************)
EXTENDS EditorServiceProofs

\* The gate's two variables, as the service's state gives them.
RiskOf == [id \in PlanIds |-> Risk(plans[id].request.tool)]
FateOf == [id \in PlanIds |-> Fate(id)]

LEMMA FateSplits ==
    /\ \A id : plans[id].status = "PendingApproval" =>
            Fate(id) = IF FindRecord(id) THEN "waiting" ELSE "lost"
    /\ \A id : plans[id].status # "PendingApproval" => Fate(id) = Decided(plans[id])
    /\ \A id : plans'[id].status = "PendingApproval" =>
            Fate(id)' = IF FindRecord(id)' THEN "waiting" ELSE "lost"
    /\ \A id : plans'[id].status # "PendingApproval" => Fate(id)' = Decided(plans'[id])
  BY DEF Fate

LEMMA RiskOfTool ==
    ASSUME NEW r \in PlanRequest
    PROVE  /\ ~PlanHasMutations(r) => Risk(r.tool) = "ReadOnly"
           /\ PlanHasMutations(r) => Risk(r.tool) \in {"LowMutation", "Destructive"}
           /\ PlanHasMutations(r) /\ ~PlanHasDestructive(r) => Risk(r.tool) = "LowMutation"
  BY DEF Risk, PlanHasMutations, PlanHasDestructive

\* A plan that arrives answered has one of three fates.
LEMMA DecidedBorn ==
    ASSUME NEW record \in PlanRecord, Born(record), record.status # "PendingApproval"
    PROVE  \/ Decided(record) = "closed"
           \/ Decided(record) = "observed" /\ ~PlanHasMutations(record.request)
           \/ Decided(record) = "session" /\ PlanHasMutations(record.request)
  BY DEF Born, Decided, PlanRecord

LEMMA DecidedIsNotWaiting ==
    ASSUME NEW record \in PlanRecord
    PROVE  Decided(record) # "waiting"
  BY DEF Decided, PlanRecord, Gates

\* The newest record can be found when the step is done.
LEMMA NewestIsFound ==
    ASSUME TypeOK', RecordsAreTheNewest', NEW n \in Nat \ {0}, n = Len(plans')
    PROVE  FindRecord(n)'
  <1>1. /\ Len(Records') \in Nat /\ DOMAIN Records' = 1 .. Len(Records')
        /\ Len(Records') > 0
    BY MaxRecordsAssumption DEF TypeOK, RecordsAreTheNewest
  <1>2. Len(Records') \in DOMAIN Records'
    BY <1>1
  <1>3. Records'[Len(Records')] = (n - Len(Records')) + Len(Records')
    BY <1>2 DEF RecordsAreTheNewest
  <1> QED
    BY <1>1, <1>2, <1>3 DEF FindRecord

\* What waits, in the gate's words, is the slot's plan.
LEMMA WaitingIsPending ==
    ASSUME TypeOK, OnePendingPlan
    PROVE  /\ \A id \in PlanIds : FateOf[id] = "waiting" <=> HasPendingPlan /\ id = CurrentPlanId
           /\ Gate!Waiting = IF HasPendingPlan THEN {CurrentPlanId} ELSE {}
  <1>1. ASSUME NEW id \in PlanIds
        PROVE  FateOf[id] = "waiting" <=> HasPendingPlan /\ id = CurrentPlanId
    <2>1. plans[id] \in PlanRecord
      BY DEF TypeOK, PlanIds
    <2>2. FateOf[id] = "waiting" <=> plans[id].status = "PendingApproval" /\ FindRecord(id)
      <3>1. FateOf[id] = Fate(id)
        BY DEF FateOf
      <3>2. CASE plans[id].status = "PendingApproval"
        BY <3>1, <3>2, FateSplits
      <3>3. CASE plans[id].status # "PendingApproval"
        BY <2>1, <3>1, <3>3, FateSplits, DecidedIsNotWaiting
      <3> QED
        BY <3>2, <3>3
    <2>3. FindRecord(id) => (plans[id].status = "PendingApproval" <=> id = CurrentPlanId)
      BY DEF OnePendingPlan
    <2>4. id # NoPlan
      BY DEF PlanIds, TypeOK, NoPlan
    <2> QED
      BY <2>2, <2>3, <2>4 DEF HasPendingPlan, GetCurrentRecord
  <1>2. HasPendingPlan => CurrentPlanId \in PlanIds
    BY PendingIsCreated DEF PlanIds, TypeOK
  <1>3. Gate!Waiting = {id \in PlanIds : FateOf[id] = "waiting"}
    BY DEF Gate!Waiting, FateOf
  <1> QED
    BY <1>1, <1>2, <1>3

\* A new record is an arrival in the gate's words, once it is known what the
\* step leaves of the others.
LEMMA ArrivalOfRecord ==
    ASSUME TypeOK, TypeOK', RecordsAreTheNewest', NEW n, n = Len(plans) + 1,
           NEW base \in Seq(PlanRecord), Len(base) = Len(plans),
           \A id \in PlanIds : base[id].request = plans[id].request,
           NEW record \in PlanRecord, CreateRecord(base, record),
           NEW fates, \A id \in PlanIds : fates[id] = Fate(id)'
    PROVE  /\ n \in Gate!NewIds
           /\ FindRecord(n)'
           /\ plans'[n] = record
           /\ Gate!Arrive(n, Risk(record.request.tool), Fate(n)', fates)
  <1>1. /\ plans' = Append(base, record) /\ Len(plans) \in Nat
        /\ PlanIds = 1 .. Len(plans)
    BY DEF CreateRecord, TypeOK, PlanIds
  <1>2. /\ PlanIds' = PlanIds \cup {n} /\ n \notin PlanIds /\ Len(plans') = n
        /\ plans'[n] = record /\ n \in Nat \ {0}
        /\ \A id \in PlanIds : plans'[id] = base[id]
    BY <1>1 DEF PlanIds
  <1>3. n \in Gate!NewIds
    BY <1>2 DEF Gate!NewIds
  <1>4. FindRecord(n)'
    BY <1>2, NewestIsFound
  <1>5. RiskOf' = [p \in PlanIds \cup {n} |->
                      IF p = n THEN Risk(record.request.tool) ELSE RiskOf[p]]
    BY <1>2 DEF RiskOf
  <1>6. FateOf' = [p \in PlanIds \cup {n} |-> IF p = n THEN Fate(n)' ELSE fates[p]]
    BY <1>2, Zenon DEF FateOf
  <1>7. Gate!Arrive(n, Risk(record.request.tool), Fate(n)', fates)
    BY <1>5, <1>6 DEF Gate!Arrive, RiskOf, FateOf
  <1> QED
    BY <1>2, <1>3, <1>4, <1>7

\* A plan that does not wait keeps its fate unless its record object changes.
LEMMA OthersKeepTheirFate ==
    ASSUME TypeOK, OnePendingPlan, NEW id \in PlanIds, ~(HasPendingPlan /\ id = CurrentPlanId),
           plans'[id] = plans[id], FindRecord(id)' => FindRecord(id)
    PROVE  FateOf[id] = Fate(id)'
  <1>1. FateOf[id] = Fate(id)
    BY DEF FateOf
  <1>2. CASE plans[id].status # "PendingApproval"
    BY <1>1, <1>2, FateSplits
  <1>3. CASE plans[id].status = "PendingApproval"
    <2>1. FateOf[id] # "waiting"
      BY WaitingIsPending
    <2>2. ~FindRecord(id)
      BY <1>1, <1>3, <2>1, FateSplits
    <2> QED
      BY <1>1, <1>3, <2>2, FateSplits
  <1> QED
    BY <1>2, <1>3

\* An arrival leaves every other plan its fate, but may push out the one that waits.
LEMMA FatesAfterArrival ==
    ASSUME TypeOK, OnePendingPlan, NEW record \in PlanRecord, CreateRecord(plans, record)
    PROVE  /\ ~HasPendingPlan => \A id \in PlanIds : FateOf[id] = Fate(id)'
           /\ \E fates \in Gate!Pushed : \A id \in PlanIds : fates[id] = Fate(id)'
  <1>1. /\ PlanIds = 1 .. Len(plans) /\ Len(plans) + 1 \in Nat
        /\ \A id \in PlanIds : plans'[id] = plans[id]
        /\ Records' = Kept(Len(plans) + 1)
    BY DEF PlanIds, TypeOK, CreateRecord
  <1>2. ASSUME NEW id \in PlanIds, ~(HasPendingPlan /\ id = CurrentPlanId)
        PROVE  FateOf[id] = Fate(id)'
    <2>1. FindRecord(id)' => FindRecord(id)
      BY <1>1, KeptAreOldOrNew
    <2> QED
      BY <1>1, <1>2, <2>1, OthersKeepTheirFate
  <1>3. CASE ~HasPendingPlan
    <2>1. \A id \in PlanIds : FateOf[id] = Fate(id)'
      BY <1>2, <1>3
    <2>2. FateOf \in Gate!Pushed
      BY DEF Gate!Pushed, FateOf
    <2> QED
      BY <2>1, <2>2
  <1>4. CASE HasPendingPlan
    <2>1. CurrentPlanId \in PlanIds /\ plans[CurrentPlanId].status = "PendingApproval"
      BY <1>1, <1>4, PendingIsCreated
    <2>2. Gate!Waiting = {CurrentPlanId} /\ FateOf[CurrentPlanId] = "waiting"
      BY <1>4, <2>1, WaitingIsPending
    <2> PICK cur \in PlanIds : cur = CurrentPlanId
      BY <2>1
    <2>3. Fate(cur)' \in {"waiting", "lost"}
      BY <1>1, <2>1, FateSplits
    <2>4. CASE Fate(cur)' = "waiting"
      <3>1. \A id \in PlanIds : FateOf[id] = Fate(id)'
        BY <1>2, <2>2, <2>4
      <3>2. FateOf \in Gate!Pushed
        BY DEF Gate!Pushed, FateOf
      <3> QED
        BY <1>4, <3>1, <3>2
    <2>5. CASE Fate(cur)' = "lost"
      <3> DEFINE fates == [FateOf EXCEPT ![cur] = "lost"]
      <3>1. fates \in Gate!Pushed
        BY <2>2 DEF Gate!Pushed, Gate!Ended, FateOf
      <3>2. \A id \in PlanIds : fates[id] = Fate(id)'
        BY <1>2, <2>5 DEF FateOf
      <3> HIDE DEF fates
      <3> QED
        BY <1>4, <3>1, <3>2
    <2> QED
      BY <2>3, <2>4, <2>5
  <1> QED
    BY <1>3, <1>4

\* A plan that is answered at once, or that waits while none does, arrives.
LEMMA CreatesArrives ==
    ASSUME TypeOK, OnePendingPlan, TypeOK', RecordsAreTheNewest', Creates
    PROVE  Gate!GateNext
  <1> PICK record \in PlanRecord :
          /\ Born(record) /\ CreateRecord(plans, record)
          /\ record.status = "PendingApproval" => ~HasPendingPlan
    BY DEF Creates
  <1> PICK n : n = Len(plans) + 1
    OBVIOUS
  <1>1. plans \in Seq(PlanRecord) /\ record.request \in PlanRequest
    BY DEF TypeOK, PlanRecord
  <1>2. CASE record.status = "PendingApproval"
    <2>1. \A id \in PlanIds : FateOf[id] = Fate(id)'
      BY <1>2, FatesAfterArrival
    <2>2. /\ n \in Gate!NewIds /\ FindRecord(n)' /\ plans'[n] = record
          /\ Gate!Arrive(n, Risk(record.request.tool), Fate(n)', FateOf)
      BY <1>1, <2>1, ArrivalOfRecord
    <2>3. Fate(n)' = "waiting"
      BY <1>2, <2>2, FateSplits
    <2>4. Risk(record.request.tool) \in Gate!Mutations
      BY <1>1, <1>2, RiskOfTool DEF Born, Gate!Mutations
    <2>5. Gate!Waiting = {}
      BY <1>2, WaitingIsPending
    <2>6. Gate!Wait
      BY <2>2, <2>3, <2>4, <2>5 DEF Gate!Wait, FateOf
    <2> QED
      BY <2>6 DEF Gate!GateNext
  <1>3. CASE record.status # "PendingApproval"
    <2> PICK fates \in Gate!Pushed : \A id \in PlanIds : fates[id] = Fate(id)'
      BY FatesAfterArrival
    <2>1. /\ n \in Gate!NewIds /\ plans'[n] = record
          /\ Gate!Arrive(n, Risk(record.request.tool), Fate(n)', fates)
      BY <1>1, ArrivalOfRecord
    <2>2. Fate(n)' = Decided(record)
      BY <1>3, <2>1, FateSplits
    <2>3. CASE Decided(record) = "closed"
      <3>1. Risk(record.request.tool) \in Gate!Mutations \cup {"ReadOnly"}
        BY <1>1, RiskOfTool DEF Gate!Mutations
      <3>2. Gate!TurnDown
        BY <2>1, <2>2, <2>3, <3>1 DEF Gate!TurnDown
      <3> QED
        BY <3>2 DEF Gate!GateNext
    <2>4. CASE Decided(record) = "observed" /\ ~PlanHasMutations(record.request)
      <3>1. Gate!Observe
        BY <1>1, <2>1, <2>2, <2>4, RiskOfTool DEF Gate!Observe
      <3> QED
        BY <3>1 DEF Gate!GateNext
    <2>5. CASE Decided(record) = "session" /\ PlanHasMutations(record.request)
      <3>1. Gate!RunAsAsked
        BY <1>1, <2>1, <2>2, <2>5, RiskOfTool DEF Gate!RunAsAsked, Gate!Mutations
      <3> QED
        BY <3>1 DEF Gate!GateNext
    <2> QED
      BY <1>3, <2>3, <2>4, <2>5, DecidedBorn
  <1> QED
    BY <1>2, <1>3

\* Superseding ends the wait of the slot's plan and no other plan's fate.
LEMMA FatesAfterSuperseding ==
    ASSUME TypeOK, OnePendingPlan, RecordsOK, NEW id \in PlanIds
    PROVE  /\ HasPendingPlan /\ id = CurrentPlanId =>
                 /\ SupersededPlans[id].status # "PendingApproval"
                 /\ Decided(SupersededPlans[id]) = "closed"
           /\ ~(HasPendingPlan /\ id = CurrentPlanId) => SupersededPlans[id] = plans[id]
           /\ SupersededPlans[id].request = plans[id].request
  <1>1. id \in 1 .. Len(plans) /\ plans[id] \in PlanRecord
    BY DEF PlanIds, TypeOK
  <1>2. CASE HasPendingPlan /\ id = CurrentPlanId
    <2>1. plans[id].status = "PendingApproval" /\ plans[id].runs = 0
      BY <1>1, <1>2, PendingIsCreated DEF RecordsOK, RecordOK
    <2>2. SupersededPlans[id] = WithStatus(plans[id], "Superseded", "superseded")
      BY <1>1, <1>2 DEF SupersededPlans, TypeOK
    <2> QED
      BY <1>2, <2>1, <2>2 DEF WithStatus, Decided
  <1>3. CASE ~(HasPendingPlan /\ id = CurrentPlanId)
    BY <1>1, <1>3 DEF SupersededPlans, TypeOK
  <1> QED
    BY <1>2, <1>3

\* The panel's plan waits in place of the one it supersedes.
LEMMA ReplacesWaits ==
    ASSUME TypeOK, OnePendingPlan, RecordsOK, TypeOK', RecordsAreTheNewest', Replaces
    PROVE  Gate!GateNext
  <1> PICK record \in PlanRecord :
          /\ Born(record) /\ record.status = "PendingApproval"
          /\ ~PlanHasDestructive(record.request)
          /\ CreateRecord(SupersededPlans, record)
    BY DEF Replaces
  <1> PICK n : n = Len(plans) + 1
    OBVIOUS
  <1> DEFINE fates == [id \in PlanIds |-> Fate(id)']
  <1>1. /\ SupersededPlans \in Seq(PlanRecord) /\ Len(SupersededPlans) = Len(plans)
        /\ PlanIds = 1 .. Len(plans) /\ Len(plans) + 1 \in Nat
        /\ plans' = Append(SupersededPlans, record) /\ Records' = Kept(Len(plans) + 1)
        /\ record.request \in PlanRequest
    BY SupersededPlansType DEF CreateRecord, PlanRecord, PlanIds, TypeOK
  <1>2. \A id \in PlanIds : plans'[id] = SupersededPlans[id]
    BY <1>1
  <1>3. ASSUME NEW id \in PlanIds, ~(HasPendingPlan /\ id = CurrentPlanId)
        PROVE  FateOf[id] = Fate(id)'
    <2>1. FindRecord(id)' => FindRecord(id)
      BY <1>1, KeptAreOldOrNew
    <2>2. plans'[id] = plans[id]
      BY <1>2, <1>3, FatesAfterSuperseding
    <2> QED
      BY <1>3, <2>1, <2>2, OthersKeepTheirFate
  <1>4. \A id \in PlanIds : SupersededPlans[id].request = plans[id].request
    BY FatesAfterSuperseding
  <1>5. /\ n \in Gate!NewIds /\ FindRecord(n)' /\ plans'[n] = record
        /\ Gate!Arrive(n, Risk(record.request.tool), Fate(n)', fates)
    <2>1. \A id \in PlanIds : fates[id] = Fate(id)'
      OBVIOUS
    <2> HIDE DEF fates
    <2> QED
      BY <1>1, <1>4, <2>1, ArrivalOfRecord
  <1>6. Fate(n)' = "waiting"
    BY <1>5, FateSplits
  <1>7. Risk(record.request.tool) = "LowMutation"
    BY <1>1, RiskOfTool DEF Born
  <1>8. CASE ~HasPendingPlan
    <2>1. fates = FateOf
      BY <1>3, <1>8 DEF FateOf
    <2>2. Gate!Waiting = {}
      BY <1>8, WaitingIsPending
    <2>3. Gate!Wait
      BY <1>5, <1>6, <1>7, <2>1, <2>2 DEF Gate!Wait, Gate!Mutations, FateOf
    <2> QED
      BY <2>3 DEF Gate!GateNext
  <1>9. CASE HasPendingPlan
    <2> PICK cur \in PlanIds : cur = CurrentPlanId
      BY <1>1, <1>9, PendingIsCreated
    <2>1. Gate!Waiting = {cur}
      BY <1>9, WaitingIsPending
    <2>2. Fate(cur)' = "closed"
      BY <1>2, <1>9, FatesAfterSuperseding, FateSplits
    <2>3. fates = [FateOf EXCEPT ![cur] = "closed"]
      BY <1>3, <2>2 DEF FateOf
    <2> HIDE DEF fates
    <2>4. fates = Gate!Ended(cur, "closed")
      BY <2>3 DEF Gate!Ended, FateOf
    <2>5. Gate!WaitInstead
      BY <1>5, <1>6, <1>7, <2>1, <2>4 DEF Gate!WaitInstead
    <2> QED
      BY <2>5 DEF Gate!GateNext
  <1> QED
    BY <1>8, <1>9

\* The slot's plan is decided and nothing else happens.
LEMMA DecidedInTheSlot ==
    ASSUME TypeOK, OnePendingPlan, HasPendingPlan,
           NEW record \in PlanRecord, record.status # "PendingApproval",
           record.request = plans[CurrentPlanId].request,
           Decided(record) \in {"click", "closed"},
           plans' = [plans EXCEPT ![CurrentPlanId] = record], UNCHANGED Records
    PROVE  Gate!GateNext
  <1> PICK cur \in PlanIds : cur = CurrentPlanId
    BY PendingIsCreated DEF PlanIds, TypeOK
  <1>1. /\ PlanIds' = PlanIds /\ plans'[cur] = record
        /\ \A id \in PlanIds : id # cur => plans'[id] = plans[id]
    BY DEF PlanIds, TypeOK
  <1>2. \A id \in PlanIds : id # cur => FateOf[id] = Fate(id)'
    BY <1>1, OthersKeepTheirFate DEF FindRecord
  <1>3. Fate(cur)' = Decided(record)
    BY <1>1, FateSplits
  <1>4. FateOf' = [FateOf EXCEPT ![cur] = Decided(record)]
    BY <1>1, <1>2, <1>3, Zenon DEF FateOf
  <1>5. RiskOf' = RiskOf
    BY <1>1 DEF RiskOf
  <1>6. Gate!Waiting = {cur}
    BY WaitingIsPending
  <1>7. Gate!Decide
    BY <1>4, <1>5, <1>6 DEF Gate!Decide, Gate!Ended, FateOf, RiskOf
  <1> QED
    BY <1>7 DEF Gate!GateNext

\* Superseding without a replacement, a click on a drifted context and a click
\* that runs the plan decide the plan in the slot.
LEMMA SupersedesOrDecides ==
    ASSUME TypeOK, OnePendingPlan, RecordsOK, SupersedeCurrent
    PROVE  Gate!GateNext \/ (RiskOf' = RiskOf /\ FateOf' = FateOf)
  <1>1. CASE HasPendingPlan
    <2> PICK record : record = WithStatus(plans[CurrentPlanId], "Superseded", "superseded")
      OBVIOUS
    <2>1. /\ CurrentPlanId \in 1 .. Len(plans) /\ plans[CurrentPlanId] \in PlanRecord
          /\ plans[CurrentPlanId].runs = 0
      BY <1>1, PendingIsCreated DEF TypeOK, RecordsOK, RecordOK, PlanIds
    <2>2. record \in PlanRecord
      BY <2>1, WithStatusType DEF Statuses, RefusalCodes
    <2>3. /\ record.status # "PendingApproval" /\ Decided(record) = "closed"
          /\ record.request = plans[CurrentPlanId].request
      BY <2>1 DEF WithStatus, Decided
    <2>4. plans' = [plans EXCEPT ![CurrentPlanId] = record] /\ UNCHANGED Records
      BY <1>1 DEF SupersedeCurrent, SupersededPlans
    <2> QED
      BY <1>1, <2>2, <2>3, <2>4, DecidedInTheSlot
  <1>2. CASE ~HasPendingPlan
    <2>1. plans' = plans /\ Records' = Records
      BY <1>2 DEF SupersedeCurrent, SupersededPlans
    <2> QED
      BY <2>1 DEF RiskOf, FateOf, Fate, FindRecord, PlanIds
  <1> QED
    BY <1>1, <1>2

LEMMA StaleDecides ==
    ASSUME TypeOK, OnePendingPlan, RecordsOK, RefusesStale
    PROVE  Gate!GateNext
  <1> PICK record : record = WithStatus(plans[CurrentPlanId], "RefusedStale", "stale_context")
    OBVIOUS
  <1>1. /\ HasPendingPlan /\ CurrentPlanId \in 1 .. Len(plans)
        /\ plans[CurrentPlanId] \in PlanRecord /\ plans[CurrentPlanId].runs = 0
    BY PendingIsCreated DEF RefusesStale, TypeOK, RecordsOK, RecordOK, PlanIds
  <1>2. record \in PlanRecord
    BY <1>1, WithStatusType DEF Statuses, RefusalCodes
  <1>3. /\ record.status # "PendingApproval" /\ Decided(record) = "closed"
        /\ record.request = plans[CurrentPlanId].request
    BY <1>1 DEF WithStatus, Decided
  <1>4. plans' = [plans EXCEPT ![CurrentPlanId] = record] /\ UNCHANGED Records
    BY DEF RefusesStale, RefuseCurrentStale
  <1> QED
    BY <1>1, <1>2, <1>3, <1>4, DecidedInTheSlot

LEMMA ClickDecides ==
    ASSUME TypeOK, OnePendingPlan, RecordsOK, RunsOnClick
    PROVE  Gate!GateNext
  <1> PICK ok \in BOOLEAN : ConsumeCurrent(RanRecord(plans[CurrentPlanId], ok, "click"))
    BY DEF RunsOnClick
  <1> PICK record : record = RanRecord(plans[CurrentPlanId], ok, "click")
    OBVIOUS
  <1>1. /\ HasPendingPlan /\ CurrentPlanId \in 1 .. Len(plans)
        /\ plans[CurrentPlanId] \in PlanRecord /\ plans[CurrentPlanId].runs = 0
    BY PendingIsCreated DEF RunsOnClick, TypeOK, RecordsOK, RecordOK, PlanIds
  <1>2. record \in PlanRecord /\ record.status # "PendingApproval"
    BY <1>1, RanRecordType DEF Gates
  <1>3. /\ record.runs = 1 /\ record.gate = "click"
        /\ record.request = plans[CurrentPlanId].request
    BY <1>1 DEF RanRecord
  <1>4. Decided(record) = "click"
    BY <1>3 DEF Decided
  <1>5. plans' = [plans EXCEPT ![CurrentPlanId] = record] /\ UNCHANGED Records
    BY DEF ConsumeCurrent
  <1> QED
    BY <1>1, <1>2, <1>3, <1>4, <1>5, DecidedInTheSlot

-----------------------------------------------------------------------------
\* Every step of the service is a step of the gate or leaves every fate as it was.
LEMMA GateStep ==
    ASSUME IInv, IInv', [Next]_vars
    PROVE  [Gate!GateNext]_Gate!gateVars
  <1>1. TypeOK /\ OnePendingPlan /\ RecordsOK /\ TypeOK' /\ RecordsAreTheNewest'
    BY RecordsOKSplits DEF IInv
  <1>2. Shape
    BY <1>1, StepShape
  <1>3. CASE UNCHANGED approvalVars
    <2>1. plans' = plans /\ Records' = Records
      BY <1>3 DEF approvalVars
    <2>2. RiskOf' = RiskOf /\ FateOf' = FateOf
      BY <2>1 DEF RiskOf, FateOf, Fate, FindRecord, PlanIds
    <2> QED
      BY <2>2 DEF Gate!gateVars, RiskOf, FateOf
  <1>4. CASE Creates
    BY <1>1, <1>4, CreatesArrives
  <1>5. CASE Replaces
    BY <1>1, <1>5, ReplacesWaits
  <1>6. CASE SupersedeCurrent
    BY <1>1, <1>6, SupersedesOrDecides DEF Gate!gateVars, RiskOf, FateOf
  <1>7. CASE RefusesStale
    BY <1>1, <1>7, StaleDecides
  <1>8. CASE RunsOnClick
    BY <1>1, <1>8, ClickDecides
  <1> QED
    BY <1>2, <1>3, <1>4, <1>5, <1>6, <1>7, <1>8 DEF Shape

\* The editor service implements the gate: whatever clients, the panel and the
\* editor do, and however many records there are, a mutation runs only by a
\* human's word, one plan waits at a time, and what is closed, lost or has run
\* stays so.
THEOREM ServiceImplementsGate == Spec => ServiceKeepsTheGate
  <1>1. Init => Gate!GateInit
    <2> SUFFICES ASSUME Init
                 PROVE  Gate!GateInit
      OBVIOUS
    <2>1. PlanIds = {}
      BY DEF Init, ApprovalInit, PlanIds
    <2> QED
      BY <2>1 DEF Gate!GateInit
  <1>2. IInv /\ IInv' /\ [Next]_vars => [Gate!GateNext]_Gate!gateVars
    BY GateStep
  <1> QED
    BY <1>1, <1>2, Invariant, PTL DEF Spec, ServiceKeepsTheGate, Gate!GateSpec

=============================================================================
