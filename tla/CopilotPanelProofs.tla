------------------------- MODULE CopilotPanelProofs -------------------------
(***************************************************************************)
(* Theorems about CopilotPanel, for every value of its constants.          *)
(*                                                                         *)
(* The panel is one more client of the editor service, so the service's    *)
(* invariant holds under it.  Two facts about the handlers carry the rest: *)
(* one that broadcasts nothing changed nothing, and one called over the    *)
(* bridge never takes the slot from the plan that awaits a decision.       *)
(***************************************************************************)
EXTENDS CopilotPanel, EditorServiceProofs, ApprovalGateProofs

\* Adding the panel to the service takes nothing from the service.
LEMMA PanelStepIsService == [PanelNext]_wholeVars => [Next]_vars
  <1> SUFFICES ASSUME [PanelNext]_wholeVars
               PROVE  [Next]_vars
    OBVIOUS
  <1>1. CASE Construct \/ Destruct \/ ReadRows \/ UNCHANGED wholeVars
    BY <1>1 DEF Construct, Destruct, ReadRows, wholeVars
  <1>2. CASE OnGeneratePlanClicked
    BY <1>2 DEF OnGeneratePlanClicked, Next
  <1>3. CASE OnApproveClicked \/ OnClearClicked \/ ElsewhereInTheEditor
    BY <1>3 DEF OnApproveClicked, OnClearClicked, ElsewhereInTheEditor, Next
  <1>4. CASE BridgeCall
    BY <1>4 DEF BridgeCall, Next
  <1> QED
    BY <1>1, <1>2, <1>3, <1>4 DEF PanelNext

\* Every behaviour of the panel with the service is one of the service.
THEOREM PanelIsAClient == PanelSpec => Spec
  <1>1. PanelInit => Init
    BY DEF PanelInit
  <1> QED
    BY <1>1, PanelStepIsService, PTL DEF PanelSpec, Spec

-----------------------------------------------------------------------------
\* A handler that leaves a record says so.
LEMMA AnswerSpeaks ==
    ASSUME TypeOK, NEW record, Answer(record)
    PROVE  ~SaysNothing
  BY DEF Answer, Reply, SaysNothing, NoPlan, TypeOK

LEMMA SubmitSpeaks ==
    ASSUME TypeOK, NEW r, NEW source, SubmitPlanRequest(r, source), SaysNothing
    PROVE  UNCHANGED approvalVars
  <1>1. CASE SubmitInvalid(r, source) \/ SubmitReadOnly(r, source) \/ SubmitDestructive(r, source)
    BY <1>1, AnswerSpeaks DEF SubmitInvalid, SubmitReadOnly, SubmitDestructive, ExecuteReadOnly
  <1>2. CASE SubmitWhilePending(r)
    BY <1>2 DEF SubmitWhilePending, Refuse
  <1>3. CASE SubmitForApproval(r, source)
    BY <1>3 DEF SubmitForApproval, Reply, SaysNothing
  <1> QED
    BY <1>1, <1>2, <1>3 DEF SubmitPlanRequest

LEMMA ExternalSpeaks ==
    ASSUME TypeOK, NEW r, SubmitExternalPlan(r), SaysNothing
    PROVE  UNCHANGED approvalVars
  <1>1. CASE ExternalDisabled \/ ExternalConfirmWhilePending(r)
    BY <1>1 DEF ExternalDisabled, ExternalConfirmWhilePending, Refuse
  <1>2. CASE ExternalInvalid(r) \/ ExternalConfirm(r) \/ ExternalBlocked(r) \/ ExternalStale(r)
    BY <1>2, AnswerSpeaks DEF ExternalInvalid, ExternalConfirm, ExternalBlocked, ExternalStale
  <1>3. CASE ExternalReadOnly(r) \/ ExternalExecute(r)
    BY <1>3, AnswerSpeaks DEF ExternalReadOnly, ExternalExecute, ExecuteReadOnly
  <1> QED
    BY <1>1, <1>2, <1>3 DEF SubmitExternalPlan

LEMMA SlotSpeaks ==
    ASSUME TypeOK, SaysNothing,
           ApproveCurrentPlan \/ GenerateWithoutSelection \/ ClearCurrentPlan
    PROVE  UNCHANGED approvalVars
  <1>1. CASE ApproveNothing \/ ApproveBlocked
    BY <1>1 DEF ApproveNothing, ApproveBlocked, Refuse
  <1>2. CASE ApproveStale
    BY <1>2, PendingIsCreated DEF ApproveStale, Reply, SaysNothing, NoPlan, TypeOK
  <1>3. CASE ApproveExecute \/ GenerateWithoutSelection \/ ClearCurrentPlan
    BY <1>3 DEF ApproveExecute, GenerateWithoutSelection, ClearCurrentPlan, Reply, SaysNothing
  <1> QED
    BY <1>1, <1>2, <1>3 DEF ApproveCurrentPlan

\* What the panel is not told of did not touch the approval state.
LEMMA SilenceIsQuiet ==
    ASSUME TypeOK, SaysNothing,
           \/ GeneratePanelFolderPlan \/ ApproveCurrentPlan \/ ClearCurrentPlan
           \/ \E r \in Requests : \/ SubmitPlanRequest(r, "Bridge")
                                  \/ PreviewPlanRequest(r)
                                  \/ SubmitExternalPlan(r)
    PROVE  UNCHANGED approvalVars
  <1>1. CASE GenerateFromSelection
    BY <1>1, SubmitSpeaks DEF GenerateFromSelection
  <1>2. CASE ApproveCurrentPlan \/ GenerateWithoutSelection \/ ClearCurrentPlan
    BY <1>2, SlotSpeaks
  <1>3. CASE \E r \in Requests : SubmitPlanRequest(r, "Bridge") \/ SubmitExternalPlan(r)
    BY <1>3, SubmitSpeaks, ExternalSpeaks
  <1>4. ASSUME NEW r \in Requests, PreviewPlanRequest(r)
        PROVE  UNCHANGED approvalVars
    BY <1>4, AnswerSpeaks DEF PreviewPlanRequest
  <1> QED
    BY <1>1, <1>2, <1>3, <1>4 DEF GeneratePanelFolderPlan

-----------------------------------------------------------------------------
\* The rows stay those of the plan in the slot.
LEMMA RowsStep ==
    ASSUME TypeOK, RowsAreThePendingPlan, [PanelNext]_wholeVars
    PROVE  RowsAreThePendingPlan'
  <1>1. UNCHANGED approvalVars => PendingRows' = PendingRows
    BY DEF approvalVars, PendingRows, HasPendingPlan, GetCurrentRecord, FindRecord
  <1>2. ASSUME OnStateChanged, UNCHANGED open, SaysNothing => UNCHANGED approvalVars
        PROVE  RowsAreThePendingPlan'
    <2>1. CASE SaysNothing
      BY <1>1, <1>2, <2>1 DEF OnStateChanged, RowsAreThePendingPlan
    <2>2. CASE ~SaysNothing
      BY <1>2, <2>2 DEF OnStateChanged, RowsAreThePendingPlan
    <2> QED
      BY <2>1, <2>2
  <1>3. CASE Construct
    <2>1. UNCHANGED approvalVars /\ rows' = PendingRows
      BY <1>3 DEF Construct, vars
    <2> QED
      BY <1>1, <2>1 DEF RowsAreThePendingPlan
  <1>4. CASE Destruct
    BY <1>4 DEF Destruct, RowsAreThePendingPlan
  <1>5. CASE OnGeneratePlanClicked \/ OnApproveClicked \/ OnClearClicked \/ BridgeCall
    BY <1>2, <1>5, SilenceIsQuiet
       DEF OnGeneratePlanClicked, OnApproveClicked, OnClearClicked, BridgeCall
  <1>6. CASE ReadRows \/ ElsewhereInTheEditor \/ UNCHANGED wholeVars
    <2>1. UNCHANGED approvalVars /\ UNCHANGED <<open, rows>>
      BY <1>6 DEF ReadRows, ElsewhereInTheEditor, Environment, ChangeSelection, EditLevel,
                  OpenWorld, TogglePlay, ToggleSettings, wholeVars, panelVars, vars
    <2> QED
      BY <1>1, <2>1 DEF RowsAreThePendingPlan
  <1> QED
    BY <1>3, <1>4, <1>5, <1>6 DEF PanelNext

\* Whatever is submitted, decided, refused or pushed out, the open panel lists
\* the plan a click would approve, and lists nothing when it would approve none.
THEOREM RowsAreRight == PanelSpec => []RowsAreThePendingPlan
  <1>1. PanelInit => RowsAreThePendingPlan
    BY DEF PanelInit, RowsAreThePendingPlan
  <1>2. TypeOK /\ RowsAreThePendingPlan /\ [PanelNext]_wholeVars => RowsAreThePendingPlan'
    BY RowsStep
  <1> QED
    BY <1>1, <1>2, TypeCorrect, PanelIsAClient, PTL DEF PanelSpec

-----------------------------------------------------------------------------
\* A call over the bridge takes the slot only when no plan is pending.
LEMMA BridgeCreates ==
    ASSUME TypeOK, BridgeCall
    PROVE  UNCHANGED approvalVars \/ Creates
  <1> PICK r \in Requests : \/ SubmitPlanRequest(r, "Bridge")
                            \/ PreviewPlanRequest(r)
                            \/ SubmitExternalPlan(r)
    BY DEF BridgeCall
  <1>1. r \in PlanRequest
    BY ServiceAssumption
  <1>2. CASE PreviewPlanRequest(r)
    <2>1. \/ Answer(NewRecord(r, "Bridge", FALSE, "PreviewedOnly", "none"))
          \/ Answer(NewRecord(r, "Bridge", FALSE, "Invalid", "invalid_plan"))
      BY <1>2 DEF PreviewPlanRequest
    <2> QED
      BY <1>1, <2>1, AnswerCreates DEF Sources, Statuses, RefusalCodes
  <1> QED
    BY <1>1, <1>2, SubmitCreates, ExternalCreates

-----------------------------------------------------------------------------
\* What the person read, and means to approve, is in the slot or cannot be found.
AimInv ==
    /\ aim \in 0 .. Len(plans)
    /\ ~open => aim = NoPlan
    /\ aim # NoPlan /\ FindRecord(aim) => HasPendingPlan /\ aim = CurrentPlanId

LEMMA AimStep ==
    ASSUME TypeOK, TypeOK', RowsAreThePendingPlan, AimInv, [PanelNext]_wholeVars
    PROVE  AimInv'
  <1>1. Len(plans) \in Nat /\ Len(plans') \in Nat
    BY DEF TypeOK
  <1>2. UNCHANGED approvalVars => /\ Len(plans') = Len(plans)
                                  /\ HasPendingPlan' = HasPendingPlan
                                  /\ CurrentPlanId' = CurrentPlanId
                                  /\ \A id : FindRecord(id)' = FindRecord(id)
    BY DEF approvalVars, HasPendingPlan, GetCurrentRecord, FindRecord
  <1>3. CASE Destruct \/ OnGeneratePlanClicked \/ OnApproveClicked \/ OnClearClicked
    BY <1>1, <1>3 DEF Destruct, OnGeneratePlanClicked, OnApproveClicked, OnClearClicked,
                      AimInv, NoPlan
  <1>4. CASE Construct \/ ElsewhereInTheEditor \/ UNCHANGED wholeVars
    <2>1. UNCHANGED approvalVars /\ aim' = aim /\ (open' = open \/ aim = NoPlan)
      BY <1>4 DEF Construct, ElsewhereInTheEditor, Environment, ChangeSelection, EditLevel,
                  OpenWorld, TogglePlay, ToggleSettings, wholeVars, panelVars, vars, AimInv
    <2> QED
      BY <1>2, <2>1 DEF AimInv
  <1>5. CASE ReadRows
    <2>1. /\ UNCHANGED approvalVars /\ open' = open /\ open
          /\ aim' = PendingRows /\ HasPendingPlan
      BY <1>5 DEF ReadRows, IsApproveEnabled, RowsAreThePendingPlan, vars
    <2>2. aim' = CurrentPlanId /\ CurrentPlanId \in 1 .. Len(plans)
      BY <2>1, PendingIsCreated DEF PendingRows
    <2> QED
      BY <1>1, <1>2, <2>1, <2>2 DEF AimInv
  <1>6. CASE BridgeCall
    <2>1. aim' = aim /\ open' = open
      BY <1>6 DEF BridgeCall
    <2>2. CASE UNCHANGED approvalVars
      BY <1>2, <2>1, <2>2 DEF AimInv
    <2>3. CASE Creates
      <3> PICK record \in PlanRecord :
              /\ record.status = "PendingApproval" => ~HasPendingPlan
              /\ CreateRecord(plans, record)
        BY <2>3 DEF Creates
      <3>1. /\ plans' = Append(plans, record) /\ Records' = Kept(Len(plans) + 1)
            /\ Len(plans') = Len(plans) + 1
        BY DEF CreateRecord, TypeOK
      <3> PICK a : a = aim
        OBVIOUS
      <3>2. ASSUME a # NoPlan, FindRecord(a)'
            PROVE  HasPendingPlan' /\ a = CurrentPlanId'
        <4>1. FindRecord(a)
          BY <1>1, <3>1, <3>2, KeptAreOldOrNew DEF AimInv
        <4>2. HasPendingPlan /\ a = CurrentPlanId
          BY <3>2, <4>1 DEF AimInv
        <4>3. CurrentPlanId' = a
          BY <4>2 DEF CreateRecord
        <4>4. plans'[a].status = "PendingApproval"
          BY <3>1, <4>2, PendingIsCreated DEF TypeOK
        <4> QED
          BY <3>2, <4>3, <4>4 DEF HasPendingPlan, GetCurrentRecord, FindRecord
      <3>3. aim \in 0 .. Len(plans')
        BY <1>1, <3>1 DEF AimInv
      <3> QED
        BY <2>1, <3>2, <3>3 DEF AimInv
    <2> QED
      BY <1>6, <2>2, <2>3, BridgeCreates
  <1> QED
    BY <1>3, <1>4, <1>5, <1>6 DEF PanelNext

\* The only plan a step can let pass the click's gate is the one in the slot.
LEMMA ClickTakesTheSlot ==
    ASSUME TypeOK, RecordsOK, Shape, NEW id \in PlanIds,
           plans'[id].gate = "click", plans[id].runs = 0
    PROVE  HasPendingPlan /\ id = CurrentPlanId
  <1>1. id \in 1 .. Len(plans) /\ plans[id].gate = "none"
    BY DEF PlanIds, TypeOK, RecordsOK, RecordOK
  <1>2. SupersededPlans[id].gate = "none"
    BY <1>1, PendingIsCreated DEF SupersededPlans, WithStatus, TypeOK
  <1>3. CASE UNCHANGED approvalVars
    BY <1>1, <1>3 DEF approvalVars
  <1>4. CASE Creates
    BY <1>1, <1>4 DEF Creates, CreateRecord, TypeOK
  <1>5. CASE Replaces
    BY <1>1, <1>2, <1>5, SupersededPlansType DEF Replaces, CreateRecord
  <1>6. CASE SupersedeCurrent
    BY <1>2, <1>6 DEF SupersedeCurrent
  <1>7. CASE RefusesStale
    BY <1>1, <1>7, PendingIsCreated
       DEF RefusesStale, RefuseCurrentStale, WithStatus, TypeOK
  <1>8. CASE RunsOnClick
    BY <1>1, <1>8 DEF RunsOnClick, ConsumeCurrent, TypeOK
  <1> QED
    BY <1>3, <1>4, <1>5, <1>6, <1>7, <1>8 DEF Shape

\* While the tab is shut nobody clicks.
LEMMA ShutRunsNothing ==
    ASSUME TypeOK, [PanelNext]_wholeVars, ~open
    PROVE  UNCHANGED approvalVars \/ Creates
  <1>1. CASE Construct \/ ElsewhereInTheEditor \/ UNCHANGED wholeVars
    BY <1>1 DEF Construct, ElsewhereInTheEditor, Environment, ChangeSelection, EditLevel,
                OpenWorld, TogglePlay, ToggleSettings, wholeVars, vars
  <1>2. CASE BridgeCall
    BY <1>2, BridgeCreates
  <1> QED
    BY <1>1, <1>2 DEF PanelNext, Destruct, ReadRows, OnGeneratePlanClicked,
                      OnApproveClicked, OnClearClicked

\* A record that cannot be found has been pushed out by that many younger ones.
LEMMA PushedOutByYounger ==
    ASSUME TypeOK, RecordsAreTheNewest, NEW id \in PlanIds, ~FindRecord(id)
    PROVE  id + MaxRecords <= Len(plans)
  <1> DEFINE n == Len(plans)
             m == Len(Records)
  <1>1. n \in Nat /\ m \in Nat /\ MaxRecords \in Nat /\ id \in 1 .. n
        /\ DOMAIN Records = 1 .. m
    BY MaxRecordsAssumption DEF TypeOK, PlanIds
  <1>2. m = IF n < MaxRecords THEN n ELSE MaxRecords
    BY DEF RecordsAreTheNewest
  <1>3. \A k \in 1 .. m : (n - m) + k # id
    BY <1>1 DEF RecordsAreTheNewest, FindRecord
  <1> HIDE DEF n, m
  <1>4. SUFFICES ASSUME ~(id + MaxRecords <= n) PROVE FALSE
    BY DEF n
  <1>5. id - (n - m) \in 1 .. m /\ (n - m) + (id - (n - m)) = id
    BY <1>1, <1>2, <1>4
  <1> QED
    BY <1>3, <1>5

\* A click runs the plan on the screen, and that is the plan the person had read unless
\* the record list has turned over since: no submission, refusal or preview in between
\* can put another in its place.
THEOREM ClickIsForTheReadPlan == PanelSpec => ClickRunsWhatWasRead
  <1>1. PanelInit => AimInv
    BY DEF PanelInit, Init, ApprovalInit, AimInv, NoPlan
  <1>2. /\ IInv /\ IInv' /\ RowsAreThePendingPlan /\ AimInv /\ [PanelNext]_wholeVars
        => AimInv'
    BY AimStep DEF IInv
  <1>3. IInv /\ AimInv /\ RowsAreThePendingPlan /\ [PanelNext]_wholeVars =>
          [\A id \in PlanIds :
              plans'[id].gate = "click" /\ plans[id].runs = 0 =>
                  /\ id = rows
                  /\ aim \in {NoPlan, id} \/ aim + MaxRecords <= Len(plans)]_wholeVars
    <2> SUFFICES ASSUME IInv, AimInv, RowsAreThePendingPlan, [PanelNext]_wholeVars,
                        NEW id \in PlanIds,
                        plans'[id].gate = "click", plans[id].runs = 0
                 PROVE  /\ id = rows
                        /\ aim \in {NoPlan, id} \/ aim + MaxRecords <= Len(plans)
      OBVIOUS
    <2>1. TypeOK /\ RecordsOK /\ RecordsAreTheNewest
      BY RecordsOKSplits DEF IInv
    <2>2. Shape
      BY <2>1, StepShape, PanelStepIsService
    <2>3. HasPendingPlan /\ id = CurrentPlanId
      BY <2>1, <2>2, ClickTakesTheSlot
    <2>4. open
      <3>1. id \in 1 .. Len(plans) /\ plans[id].gate = "none"
        BY <2>1 DEF PlanIds, TypeOK, RecordsOK, RecordOK
      <3>2. CASE UNCHANGED approvalVars
        BY <3>1, <3>2 DEF approvalVars
      <3>3. CASE Creates
        BY <2>1, <3>1, <3>3 DEF Creates, CreateRecord, TypeOK
      <3> QED
        BY <2>1, <3>2, <3>3, ShutRunsNothing
    <2>5. id = rows
      BY <2>3, <2>4 DEF RowsAreThePendingPlan, PendingRows
    <2>6. CASE aim # NoPlan /\ ~FindRecord(aim)
      <3>1. aim \in PlanIds
        BY <2>1, <2>6 DEF AimInv, PlanIds, NoPlan, TypeOK
      <3> QED
        BY <2>1, <2>5, <2>6, <3>1, PushedOutByYounger
    <2>7. CASE aim = NoPlan \/ FindRecord(aim)
      BY <2>3, <2>5, <2>7 DEF AimInv
    <2> QED
      BY <2>6, <2>7
  <1> QED
    BY <1>1, <1>2, <1>3, Invariant, RowsAreRight, PanelIsAClient, PTL
       DEF PanelSpec, ClickRunsWhatWasRead

\* The person at the panel works the same gate as the clients around them: what
\* the buttons do to the plans are steps of ApprovalGate or none.
THEOREM PanelMeetsTheGate == PanelSpec => ServiceKeepsTheGate
  BY PanelIsAClient, ServiceImplementsGate, PTL

=============================================================================
