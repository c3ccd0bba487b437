------------------------ MODULE EditorServiceProofs ------------------------
(***************************************************************************)
(* Theorems about EditorService, for every value of its constants.         *)
(*                                                                         *)
(* Eighteen handlers and five environment actions change the approval      *)
(* state in only six ways.  StepShape proves that once; every invariant    *)
(* is then shown against the six shapes.                                   *)
(***************************************************************************)
EXTENDS EditorService, SequenceTheorems, TLAPS

\* What a record is when CreateRecord adds it.
Born(record) ==
    /\ record \in PlanRecord
    /\ record.runs \in {0, 1}
    /\ record.runs = 1 <=> \/ record.status = "Executed"
                           \/ record.status = "Failed" /\ record.refusal = "none"
    /\ record.gate # "click" /\ record.status # "Superseded"
    /\ record.runs = 0 => record.gate = "none"
    /\ record.runs > 0 /\ PlanHasMutations(record.request) =>
          record.gate = "session" /\ record.external
    /\ record.runs > 0 /\ ~PlanHasMutations(record.request) => record.gate = "observation"
    /\ record.status = "PendingApproval" =>
          /\ record.refusal = "none"
          /\ PlanHasMutations(record.request)
          /\ PlanHasDestructive(record.request) => record.external

\* The editor is the one the plan was built against, and may be changed.
Fresh(r) == IsContextStillValid(r) /\ ~IsEditorMutationBlocked

\* What a session may run at once: a fresh plan that needs no click besides.
MayRunAtOnce(r) == Fresh(r) /\ ~NeedsEditorConfirm(r)

\* A record is added, and takes the slot only when no plan is pending.
Creates ==
    \E record \in PlanRecord :
        /\ Born(record)
        /\ record.status = "PendingApproval" => ~HasPendingPlan
        /\ record.runs > 0 /\ PlanHasMutations(record.request) => MayRunAtOnce(record.request)
        /\ CreateRecord(plans, record)

\* The panel replaces the pending plan by a new one.
Replaces ==
    \E record \in PlanRecord :
        /\ Born(record)
        /\ record.status = "PendingApproval" /\ record.runs = 0
        /\ ~PlanHasDestructive(record.request)
        /\ record.source = "Bridge" => ~HasPendingPlan
        /\ CreateRecord(SupersededPlans, record)

RefusesStale == HasPendingPlan /\ RefuseCurrentStale

\* A click runs the pending plan in a fresh, unblocked editor.
RunsOnClick ==
    /\ HasPendingPlan
    /\ Fresh(plans[CurrentPlanId].request)
    /\ \E ok \in BOOLEAN : ConsumeCurrent(RanRecord(plans[CurrentPlanId], ok, "click"))

Shape ==
    \/ UNCHANGED approvalVars
    \/ Creates
    \/ Replaces
    \/ SupersedeCurrent
    \/ RefusesStale
    \/ RunsOnClick

-----------------------------------------------------------------------------
\* The records the service makes have the fields of a PlanRecord.
LEMMA NewRecordType ==
    ASSUME NEW r \in PlanRequest, NEW source \in Sources, NEW external \in BOOLEAN,
           NEW status \in Statuses, NEW refusal \in RefusalCodes
    PROVE  NewRecord(r, source, external, status, refusal) \in PlanRecord
  BY DEF NewRecord, PlanRecord, Gates

\* Running a record keeps all of it but its status, runs and gate.
LEMMA RanRecordType ==
    ASSUME NEW record \in PlanRecord, NEW ok \in BOOLEAN, NEW gate \in Gates
    PROVE  /\ RanRecord(record, ok, gate) \in PlanRecord
           /\ RanRecord(record, ok, gate).status \in {"Executed", "Failed"}
  <1>1. (IF ok THEN "Executed" ELSE "Failed") \in {"Executed", "Failed"}
    OBVIOUS
  <1> DEFINE status == IF ok THEN "Executed" ELSE "Failed"
  <1> HIDE DEF status
  <1>2. [source |-> record.source, external |-> record.external,
         status |-> status, refusal |-> record.refusal, request |-> record.request,
         runs |-> record.runs + 1, gate |-> gate] \in PlanRecord
    BY <1>1 DEF PlanRecord, Statuses, status
  <1> QED
    BY <1>1, <1>2 DEF RanRecord, status

\* Deciding a record without running it keeps all but its status and refusal.
LEMMA WithStatusType ==
    ASSUME NEW record \in PlanRecord, NEW status \in Statuses, NEW refusal \in RefusalCodes
    PROVE  WithStatus(record, status, refusal) \in PlanRecord
  BY DEF WithStatus, PlanRecord

\* The request the panel builds from a well-typed editor state is a request.
LEMMA PanelRequestType ==
    ASSUME TypeOK
    PROVE  PanelRequest \in PlanRequest
  BY DEF TypeOK, PanelRequest, PlanRequest, ContextSelected, Tools

\* What makes a record Born, for one that never ran and for one that just did.
LEMMA BornUnrun ==
    ASSUME NEW record \in PlanRecord,
           record.runs = 0, record.gate = "none",
           record.status \notin {"Executed", "Superseded"},
           record.status = "Failed" => record.refusal # "none",
           record.status = "PendingApproval" =>
              /\ record.refusal = "none"
              /\ PlanHasMutations(record.request)
              /\ PlanHasDestructive(record.request) => record.external
    PROVE  Born(record)
  BY DEF Born

LEMMA BornRun ==
    ASSUME NEW record \in PlanRecord,
           record.runs = 1, record.gate \in {"observation", "session"},
           record.status \in {"Executed", "Failed"}, record.refusal = "none",
           PlanHasMutations(record.request) =>
              record.gate = "session" /\ record.external,
           ~PlanHasMutations(record.request) => record.gate = "observation"
    PROVE  Born(record)
  BY DEF Born

\* An answered record that never ran is a creation.
LEMMA AnswerCreates ==
    ASSUME TypeOK,
           NEW r \in PlanRequest, NEW source \in Sources, NEW external \in BOOLEAN,
           NEW status \in Statuses \ {"Executed", "Superseded"}, NEW refusal \in RefusalCodes,
           status = "Failed" => refusal # "none",
           status = "PendingApproval" =>
              external /\ refusal = "none" /\ PlanHasMutations(r) /\ ~HasPendingPlan,
           Answer(NewRecord(r, source, external, status, refusal))
    PROVE  Creates
  <1> DEFINE record == NewRecord(r, source, external, status, refusal)
  <1>1. record \in PlanRecord
    BY NewRecordType
  <1>2. /\ record.runs = 0 /\ record.gate = "none"
        /\ record.status = status /\ record.refusal = refusal /\ record.request = r
    BY DEF NewRecord
  <1>3. record.status = "PendingApproval" => record.external /\ record.refusal = "none"
    BY Zenon DEF NewRecord
  <1>4. CreateRecord(plans, record)
    BY Zenon DEF Answer
  <1> HIDE DEF record
  <1>5. Born(record)
    BY <1>1, <1>2, <1>3, BornUnrun
  <1> QED
    BY <1>1, <1>2, <1>4, <1>5 DEF Creates

\* A read-only or externally approved run is a creation.
LEMMA RunCreates ==
    ASSUME TypeOK,
           NEW r \in PlanRequest, NEW source \in Sources, NEW external \in BOOLEAN,
           NEW ok \in BOOLEAN, NEW gate \in {"observation", "session"},
           PlanHasMutations(r) => external /\ gate = "session",
           ~PlanHasMutations(r) => gate = "observation",
           PlanHasMutations(r) => MayRunAtOnce(r),
           Answer(RanRecord(NewRecord(r, source, external, "Executed", "none"), ok, gate))
    PROVE  Creates
  <1> DEFINE born == NewRecord(r, source, external, "Executed", "none")
             record == RanRecord(born, ok, gate)
  <1>1. born \in PlanRecord
    BY NewRecordType DEF Statuses, RefusalCodes
  <1>2. /\ record \in PlanRecord
        /\ record.status \in {"Executed", "Failed"}
    BY <1>1, RanRecordType DEF Gates
  <1>3. /\ record.runs = 0 + 1 /\ record.gate = gate
        /\ record.refusal = "none" /\ record.request = r
    BY Zenon DEF RanRecord, NewRecord
  <1>4. PlanHasMutations(r) => record.external
    BY Zenon DEF RanRecord, NewRecord
  <1>5. CreateRecord(plans, record)
    BY Zenon DEF Answer
  <1> HIDE DEF record
  <1>6. Born(record)
    BY <1>2, <1>3, <1>4, BornRun
  <1>7. PlanHasMutations(record.request) => MayRunAtOnce(record.request)
    BY <1>3, Zenon
  <1>8. record.status # "PendingApproval"
    BY <1>2
  <1> QED
    BY <1>2, <1>5, <1>6, <1>7, <1>8 DEF Creates

\* A submission, from the bridge or from the panel, has one of the shapes.
LEMMA SubmitShape ==
    ASSUME TypeOK, NEW r \in PlanRequest, NEW source \in Sources,
           SubmitPlanRequest(r, source)
    PROVE  Shape
  <1>1. CASE SubmitInvalid(r, source)
    BY <1>1, AnswerCreates DEF SubmitInvalid, Shape, Statuses, RefusalCodes
  <1>2. CASE SubmitReadOnly(r, source)
    BY <1>2, RunCreates DEF SubmitReadOnly, ExecuteReadOnly, Shape
  <1>3. CASE SubmitDestructive(r, source)
    BY <1>3, AnswerCreates DEF SubmitDestructive, Shape, Statuses, RefusalCodes
  <1>4. CASE SubmitWhilePending(r)
    BY <1>4 DEF SubmitWhilePending, Refuse, Shape
  <1>5. CASE SubmitForApproval(r, source)
    <2> DEFINE record == NewRecord(r, source, FALSE, "PendingApproval", "none")
    <2>1. record \in PlanRecord
      BY NewRecordType DEF Statuses, RefusalCodes
    <2>2. /\ record.runs = 0 /\ record.gate = "none" /\ record.source = source
          /\ record.status = "PendingApproval" /\ record.request = r
          /\ record.refusal = "none"
      BY DEF NewRecord
    <2>3. /\ CreateRecord(SupersededPlans, record)
          /\ source = "Bridge" => ~HasPendingPlan
          /\ PlanHasMutations(r) /\ ~PlanHasDestructive(r)
      BY <1>5 DEF SubmitForApproval
    <2> HIDE DEF record
    <2>4. Born(record)
      BY <2>1, <2>2, <2>3, BornUnrun
    <2> QED
      BY <2>1, <2>2, <2>3, <2>4 DEF Shape, Replaces
  <1> QED
    BY <1>1, <1>2, <1>3, <1>4, <1>5 DEF SubmitPlanRequest

LEMMA ExternalShape ==
    ASSUME TypeOK, NEW r \in PlanRequest, SubmitExternalPlan(r)
    PROVE  Shape
  <1> USE DEF Sources
  <1>1. CASE ExternalDisabled
    BY <1>1 DEF ExternalDisabled, Refuse, Shape
  <1>2. CASE ExternalInvalid(r)
    BY <1>2, AnswerCreates DEF ExternalInvalid, Shape, Statuses, RefusalCodes
  <1>3. CASE ExternalReadOnly(r)
    BY <1>3, RunCreates DEF ExternalReadOnly, ExecuteReadOnly, Shape
  <1>4. CASE ExternalConfirmWhilePending(r)
    BY <1>4 DEF ExternalConfirmWhilePending, Refuse, Shape
  <1>5. CASE ExternalConfirm(r)
    <2>1. PlanHasMutations(r)
      BY <1>5 DEF ExternalConfirm, NeedsEditorConfirm, PlanHasDestructive, PlanHasMutations
    <2> QED
      BY <1>5, <2>1, AnswerCreates DEF ExternalConfirm, Shape, Statuses, RefusalCodes
  <1>6. CASE ExternalBlocked(r)
    BY <1>6, AnswerCreates DEF ExternalBlocked, BlockCode, Shape, Statuses, RefusalCodes
  <1>7. CASE ExternalStale(r)
    BY <1>7, AnswerCreates DEF ExternalStale, Shape, Statuses, RefusalCodes
  <1>8. CASE ExternalExecute(r)
    BY <1>8, RunCreates DEF ExternalExecute, Shape, Fresh, MayRunAtOnce
  <1> QED
    BY <1>1, <1>2, <1>3, <1>4, <1>5, <1>6, <1>7, <1>8 DEF SubmitExternalPlan

LEMMA PreviewShape ==
    ASSUME TypeOK, NEW r \in PlanRequest, PreviewPlanRequest(r)
    PROVE  Shape
  <1> USE DEF Sources, Statuses, RefusalCodes
  <1>1. CASE ValidateAndResolve(r)
    BY <1>1, AnswerCreates DEF PreviewPlanRequest, Shape
  <1>2. CASE ~ValidateAndResolve(r)
    BY <1>2, AnswerCreates DEF PreviewPlanRequest, Shape
  <1> QED
    BY <1>1, <1>2

LEMMA ApproveShape ==
    ASSUME TypeOK, ApproveCurrentPlan
    PROVE  Shape
  <1>1. CASE ApproveNothing
    BY <1>1 DEF ApproveNothing, Refuse, Shape
  <1>2. CASE ApproveBlocked
    BY <1>2 DEF ApproveBlocked, Refuse, Shape
  <1>3. CASE ApproveStale
    BY <1>3 DEF ApproveStale, RefusesStale, Shape
  <1>4. CASE ApproveExecute
    BY <1>4 DEF ApproveExecute, RunsOnClick, Shape, Fresh
  <1> QED
    BY <1>1, <1>2, <1>3, <1>4 DEF ApproveCurrentPlan

\* Every step changes the approval state in one of the six ways.
THEOREM StepShape == TypeOK /\ [Next]_vars => Shape
  <1> SUFFICES ASSUME TypeOK, [Next]_vars
               PROVE  Shape
    OBVIOUS
  <1>1. ASSUME NEW r \in Requests, SubmitPlanRequest(r, "Bridge")
        PROVE  Shape
    BY <1>1, SubmitShape, ServiceAssumption DEF Sources
  <1>2. ASSUME NEW r \in Requests, PreviewPlanRequest(r)
        PROVE  Shape
    BY <1>2, PreviewShape, ServiceAssumption
  <1>3. ASSUME NEW r \in Requests, SubmitExternalPlan(r)
        PROVE  Shape
    BY <1>3, ExternalShape, ServiceAssumption
  <1>4. CASE GeneratePanelFolderPlan
    <2>1. CASE GenerateWithoutSelection
      BY <2>1 DEF GenerateWithoutSelection, Shape
    <2>2. CASE GenerateFromSelection
      BY <2>2, SubmitShape, PanelRequestType DEF GenerateFromSelection, Sources
    <2> QED
      BY <1>4, <2>1, <2>2 DEF GeneratePanelFolderPlan
  <1>5. CASE ApproveCurrentPlan
    BY <1>5, ApproveShape
  <1>6. CASE ClearCurrentPlan
    BY <1>6 DEF ClearCurrentPlan, Shape
  <1>7. CASE Environment
    BY <1>7 DEF Environment, ChangeSelection, EditLevel, OpenWorld, TogglePlay,
                ToggleSettings, Shape
  <1>8. CASE UNCHANGED vars
    BY <1>8 DEF vars, Shape
  <1> QED
    BY <1>1, <1>2, <1>3, <1>4, <1>5, <1>6, <1>7, <1>8 DEF Next

-----------------------------------------------------------------------------
\* A plan submitted over the bridge takes the slot only when no plan is pending.
LEMMA SubmitCreates ==
    ASSUME TypeOK, NEW r \in PlanRequest, SubmitPlanRequest(r, "Bridge")
    PROVE  UNCHANGED approvalVars \/ Creates
  <1> USE DEF Sources
  <1>1. CASE SubmitInvalid(r, "Bridge")
    BY <1>1, AnswerCreates DEF SubmitInvalid, Statuses, RefusalCodes
  <1>2. CASE SubmitReadOnly(r, "Bridge")
    BY <1>2, RunCreates DEF SubmitReadOnly, ExecuteReadOnly
  <1>3. CASE SubmitDestructive(r, "Bridge")
    BY <1>3, AnswerCreates DEF SubmitDestructive, Statuses, RefusalCodes
  <1>4. CASE SubmitWhilePending(r)
    BY <1>4 DEF SubmitWhilePending, Refuse
  <1>5. CASE SubmitForApproval(r, "Bridge")
    <2>0. PICK record : record = NewRecord(r, "Bridge", FALSE, "PendingApproval", "none")
      OBVIOUS
    <2>1. record \in PlanRecord
      BY <2>0, NewRecordType DEF Statuses, RefusalCodes
    <2>2. /\ record.runs = 0 /\ record.gate = "none" /\ record.status = "PendingApproval"
          /\ record.request = r /\ record.refusal = "none"
      BY <2>0 DEF NewRecord
    <2>3. /\ CreateRecord(plans, record) /\ ~HasPendingPlan
          /\ PlanHasMutations(r) /\ ~PlanHasDestructive(r)
      BY <1>5, <2>0 DEF SubmitForApproval, SupersededPlans
    <2>4. Born(record)
      BY <2>1, <2>2, <2>3, BornUnrun
    <2>5. Creates
      BY <2>1, <2>2, <2>3, <2>4 DEF Creates
    <2> QED
      BY <2>5
  <1> QED
    BY <1>1, <1>2, <1>3, <1>4, <1>5 DEF SubmitPlanRequest

LEMMA ExternalCreates ==
    ASSUME TypeOK, NEW r \in PlanRequest, SubmitExternalPlan(r)
    PROVE  UNCHANGED approvalVars \/ Creates
  <1> USE DEF Sources, Statuses, RefusalCodes
  <1>1. CASE ExternalDisabled \/ ExternalConfirmWhilePending(r)
    BY <1>1 DEF ExternalDisabled, ExternalConfirmWhilePending, Refuse
  <1>2. CASE ExternalInvalid(r)
    BY <1>2, AnswerCreates DEF ExternalInvalid
  <1>3. CASE ExternalReadOnly(r)
    BY <1>3, RunCreates DEF ExternalReadOnly, ExecuteReadOnly
  <1>4. CASE ExternalConfirm(r)
    <2>1. PlanHasMutations(r)
      BY <1>4 DEF ExternalConfirm, NeedsEditorConfirm, PlanHasDestructive, PlanHasMutations
    <2> QED
      BY <1>4, <2>1, AnswerCreates DEF ExternalConfirm
  <1>5. CASE ExternalBlocked(r)
    BY <1>5, AnswerCreates DEF ExternalBlocked, BlockCode
  <1>6. CASE ExternalStale(r)
    BY <1>6, AnswerCreates DEF ExternalStale
  <1>7. CASE ExternalExecute(r)
    BY <1>7, RunCreates DEF ExternalExecute, Fresh, MayRunAtOnce
  <1> QED
    BY <1>1, <1>2, <1>3, <1>4, <1>5, <1>6, <1>7 DEF SubmitExternalPlan

-----------------------------------------------------------------------------
\* SupersedeCurrent's record objects: as many as before, all of them records.
LEMMA SupersededPlansType ==
    ASSUME TypeOK
    PROVE  SupersededPlans \in Seq(PlanRecord) /\ Len(SupersededPlans) = Len(plans)
  <1>1. CASE HasPendingPlan
    <2>1. CurrentPlanId \in 1 .. Len(plans)
      BY <1>1 DEF HasPendingPlan, GetCurrentRecord, NoPlan, TypeOK
    <2>2. WithStatus(plans[CurrentPlanId], "Superseded", "superseded") \in PlanRecord
      BY <2>1, WithStatusType DEF TypeOK, Statuses, RefusalCodes
    <2> QED
      BY <1>1, <2>1, <2>2 DEF SupersededPlans, TypeOK
  <1>2. CASE ~HasPendingPlan
    BY <1>2 DEF SupersededPlans, TypeOK
  <1> QED
    BY <1>1, <1>2

\* A pending plan in the slot is a created record.
LEMMA PendingIsCreated ==
    ASSUME TypeOK, HasPendingPlan
    PROVE  /\ CurrentPlanId \in 1 .. Len(plans)
           /\ plans[CurrentPlanId] \in PlanRecord
           /\ plans[CurrentPlanId].status = "PendingApproval"
  BY DEF HasPendingPlan, GetCurrentRecord, NoPlan, TypeOK

ApprovalTypeOK ==
    /\ plans \in Seq(PlanRecord)
    /\ Records \in Seq(Nat)
    /\ CurrentPlanId \in 0 .. Len(plans)
    /\ bLastPlanConsumed \in BOOLEAN

\* Creating a record keeps the approval state typed.
LEMMA CreateRecordType ==
    ASSUME TypeOK, NEW base \in Seq(PlanRecord), Len(base) = Len(plans),
           NEW record \in PlanRecord, CreateRecord(base, record)
    PROVE  ApprovalTypeOK' /\ Len(plans') = Len(plans) + 1
  <1>1. plans' \in Seq(PlanRecord) /\ Len(plans') = Len(plans) + 1
    BY DEF CreateRecord
  <1>2. Records' \in Seq(Nat)
    <2> DEFINE grown == Append(Records, Len(base) + 1)
    <2>1. grown \in Seq(Nat) /\ Len(grown) = Len(Records) + 1
      BY DEF TypeOK
    <2>2. Records' = IF Len(grown) > MaxRecords THEN Tail(grown) ELSE grown
      BY DEF CreateRecord, Kept
    <2> HIDE DEF grown
    <2>3. Len(grown) > MaxRecords => grown # <<>>
      BY <2>1, MaxRecordsAssumption
    <2>4. CASE Len(grown) > MaxRecords
      BY <2>1, <2>2, <2>3, <2>4, HeadTailProperties
    <2> QED
      BY <2>1, <2>2, <2>4
  <1>3. \/ CurrentPlanId' = Len(base) + 1 /\ bLastPlanConsumed' = FALSE
        \/ UNCHANGED <<CurrentPlanId, bLastPlanConsumed>>
    BY Zenon DEF CreateRecord
  <1>4. CurrentPlanId \in 0 .. Len(plans) /\ bLastPlanConsumed \in BOOLEAN
    BY DEF TypeOK
  <1>5. CurrentPlanId' \in 0 .. Len(plans')
    BY <1>1, <1>3, <1>4
  <1>6. bLastPlanConsumed' \in BOOLEAN
    BY <1>3, <1>4
  <1> QED
    BY <1>1, <1>2, <1>5, <1>6 DEF ApprovalTypeOK

\* Every shape of step does, and never forgets a record object.
LEMMA ApprovalTypeStep ==
    ASSUME TypeOK, Shape
    PROVE  ApprovalTypeOK' /\ Len(plans') >= Len(plans)
  <1>1. CASE UNCHANGED approvalVars
    BY <1>1 DEF approvalVars, ApprovalTypeOK, TypeOK
  <1>2. CASE Creates
    BY <1>2, CreateRecordType DEF Creates, TypeOK
  <1>3. CASE Replaces
    BY <1>3, CreateRecordType, SupersededPlansType DEF Replaces, TypeOK
  <1>4. CASE SupersedeCurrent
    BY <1>4, SupersededPlansType DEF SupersedeCurrent, ApprovalTypeOK, TypeOK, NoPlan
  <1>5. CASE RefusesStale
    <2>1. WithStatus(plans[CurrentPlanId], "RefusedStale", "stale_context") \in PlanRecord
      BY <1>5, PendingIsCreated, WithStatusType DEF RefusesStale, Statuses, RefusalCodes
    <2> QED
      BY <1>5, <2>1, PendingIsCreated DEF RefusesStale, RefuseCurrentStale, ApprovalTypeOK, TypeOK, NoPlan
  <1>6. CASE RunsOnClick
    <2> PICK ok \in BOOLEAN : ConsumeCurrent(RanRecord(plans[CurrentPlanId], ok, "click"))
      BY <1>6 DEF RunsOnClick
    <2>1. RanRecord(plans[CurrentPlanId], ok, "click") \in PlanRecord
      BY <1>6, PendingIsCreated, RanRecordType DEF RunsOnClick, Gates
    <2> QED
      BY <1>6, <2>1, PendingIsCreated DEF RunsOnClick, ConsumeCurrent, ApprovalTypeOK, TypeOK, NoPlan
  <1> QED
    BY <1>1, <1>2, <1>3, <1>4, <1>5, <1>6 DEF Shape

-----------------------------------------------------------------------------
EditorTypeOK ==
    /\ world \in Worlds \cup {NoWorld}
    /\ live \subseteq Actors
    /\ selected \subseteq live
    /\ playing \in BOOLEAN
    /\ bAllowExternalSessionApproval \in BOOLEAN
    /\ bRequireInEditorConfirmForDestructive \in BOOLEAN

\* No plan creates actors out of nothing or selects one that is gone.
LEMMA ExecuteType ==
    ASSUME TypeOK, NEW r \in PlanRequest, ExecuteApprovedPlan(r)
    PROVE  live' \subseteq Actors /\ selected' \subseteq live' /\ UNCHANGED <<world, playing>>
  BY DEF TypeOK, ExecuteApprovedPlan, Effect

\* A handler touches the level only by running a plan, and never a setting.
TouchesLevel ==
    /\ UNCHANGED editorVars \/ \E r \in PlanRequest : ExecuteApprovedPlan(r)
    /\ UNCHANGED settingVars

LEMMA TouchesLevelType ==
    ASSUME TypeOK, TouchesLevel
    PROVE  EditorTypeOK'
  <1>1. CASE UNCHANGED editorVars
    BY <1>1 DEF TouchesLevel, editorVars, settingVars, TypeOK, EditorTypeOK
  <1>2. CASE \E r \in PlanRequest : ExecuteApprovedPlan(r)
    BY <1>2, ExecuteType DEF TouchesLevel, settingVars, TypeOK, EditorTypeOK
  <1> QED
    BY <1>1, <1>2 DEF TouchesLevel

LEMMA SubmitTouches ==
    ASSUME TypeOK, NEW r \in PlanRequest, NEW source \in Sources,
           SubmitPlanRequest(r, source)
    PROVE  TouchesLevel
  BY DEF SubmitPlanRequest, SubmitInvalid, SubmitReadOnly, ExecuteReadOnly,
         SubmitDestructive, SubmitWhilePending, SubmitForApproval, Refuse, TouchesLevel

LEMMA ExternalTouches ==
    ASSUME TypeOK, NEW r \in PlanRequest, SubmitExternalPlan(r)
    PROVE  TouchesLevel
  BY DEF SubmitExternalPlan, ExternalDisabled, ExternalInvalid, ExternalReadOnly,
         ExecuteReadOnly, ExternalConfirmWhilePending, ExternalConfirm, ExternalBlocked,
         ExternalStale, ExternalExecute, Refuse, TouchesLevel

LEMMA ApproveTouches ==
    ASSUME TypeOK, ApproveCurrentPlan
    PROVE  TouchesLevel
  <1>1. CASE ApproveExecute
    <2>1. plans[CurrentPlanId].request \in PlanRequest
      BY <1>1, PendingIsCreated DEF ApproveExecute, PlanRecord
    <2> QED
      BY <1>1, <2>1 DEF ApproveCurrentPlan, ApproveExecute, TouchesLevel
  <1>2. CASE ApproveNothing \/ ApproveBlocked \/ ApproveStale
    BY <1>2 DEF ApproveCurrentPlan, ApproveNothing, ApproveBlocked, ApproveStale, Refuse,
                TouchesLevel
  <1> QED
    BY <1>1, <1>2 DEF ApproveCurrentPlan

LEMMA EditorTypeStep ==
    ASSUME TypeOK, [Next]_vars
    PROVE  EditorTypeOK'
  <1>1. ASSUME NEW r \in Requests, SubmitPlanRequest(r, "Bridge")
        PROVE  EditorTypeOK'
    BY <1>1, SubmitTouches, TouchesLevelType, ServiceAssumption DEF Sources
  <1>2. ASSUME NEW r \in Requests, PreviewPlanRequest(r)
        PROVE  EditorTypeOK'
    BY <1>2, TouchesLevelType DEF PreviewPlanRequest, TouchesLevel
  <1>3. ASSUME NEW r \in Requests, SubmitExternalPlan(r)
        PROVE  EditorTypeOK'
    BY <1>3, ExternalTouches, TouchesLevelType, ServiceAssumption
  <1>4. CASE GenerateWithoutSelection
    BY <1>4, TouchesLevelType DEF GenerateWithoutSelection, TouchesLevel
  <1>5. CASE GenerateFromSelection
    BY <1>5, SubmitTouches, TouchesLevelType, PanelRequestType
       DEF GenerateFromSelection, Sources
  <1>6. CASE ApproveCurrentPlan
    BY <1>6, ApproveTouches, TouchesLevelType
  <1>7. CASE ClearCurrentPlan
    BY <1>7, TouchesLevelType DEF ClearCurrentPlan, TouchesLevel
  <1>8. CASE Environment
    <2>1. CASE ChangeSelection
      BY <2>1 DEF ChangeSelection, settingVars, TypeOK, EditorTypeOK
    <2>2. CASE EditLevel
      BY <2>2 DEF EditLevel, settingVars, TypeOK, EditorTypeOK
    <2>3. CASE OpenWorld
      BY <2>3 DEF OpenWorld, settingVars, TypeOK, EditorTypeOK
    <2>4. CASE TogglePlay
      BY <2>4 DEF TogglePlay, settingVars, TypeOK, EditorTypeOK
    <2>5. CASE ToggleSettings
      BY <2>5 DEF ToggleSettings, editorVars, TypeOK, EditorTypeOK
    <2> QED
      BY <1>8, <2>1, <2>2, <2>3, <2>4, <2>5 DEF Environment
  <1>9. CASE UNCHANGED vars
    BY <1>9 DEF vars, editorVars, settingVars, TypeOK, EditorTypeOK
  <1> QED
    BY <1>1, <1>2, <1>3, <1>4, <1>5, <1>6, <1>7, <1>8, <1>9
       DEF Next, GeneratePanelFolderPlan

-----------------------------------------------------------------------------
ReplyTypeOK == reply \in [code : RefusalCodes, plan : 0 .. Len(plans)]

\* A reply names no plan, a plan that existed, or the one just created.
LEMMA ReplyType ==
    ASSUME TypeOK, NEW code \in RefusalCodes, NEW plan \in 0 .. Len(plans'),
           Reply(code, plan)
    PROVE  ReplyTypeOK'
  BY DEF Reply, ReplyTypeOK

LEMMA RefuseReply ==
    ASSUME TypeOK, NEW code \in RefusalCodes, Refuse(code)
    PROVE  ReplyTypeOK'
  BY ReplyType DEF Refuse, approvalVars, NoPlan, TypeOK

LEMMA AnswerReply ==
    ASSUME TypeOK, NEW record \in PlanRecord, Answer(record)
    PROVE  ReplyTypeOK'
  <1>1. CreateRecord(plans, record) /\ Reply(record.refusal, Len(plans) + 1)
    BY DEF Answer
  <1>2. Len(plans') = Len(plans) + 1
    BY <1>1, CreateRecordType DEF TypeOK
  <1>3. record.refusal \in RefusalCodes /\ Len(plans) \in Nat
    BY DEF PlanRecord, TypeOK
  <1> QED
    BY <1>1, <1>2, <1>3, ReplyType

\* What the branches that answer with a fresh record need to know of it.
LEMMA NewAnswerReply ==
    ASSUME TypeOK, NEW r \in PlanRequest, NEW source \in Sources, NEW external \in BOOLEAN,
           NEW status \in Statuses, NEW refusal \in RefusalCodes,
           Answer(NewRecord(r, source, external, status, refusal))
    PROVE  ReplyTypeOK'
  BY NewRecordType, AnswerReply

LEMMA RanAnswerReply ==
    ASSUME TypeOK, NEW r \in PlanRequest, NEW source \in Sources, NEW external \in BOOLEAN,
           NEW gate \in Gates,
           \E ok \in BOOLEAN :
              Answer(RanRecord(NewRecord(r, source, external, "Executed", "none"), ok, gate))
    PROVE  ReplyTypeOK'
  BY NewRecordType, RanRecordType, AnswerReply DEF Statuses, RefusalCodes

LEMMA SubmitReply ==
    ASSUME TypeOK, NEW r \in PlanRequest, NEW source \in Sources,
           SubmitPlanRequest(r, source)
    PROVE  ReplyTypeOK'
  <1> USE DEF Statuses, RefusalCodes, Gates
  <1>1. CASE SubmitInvalid(r, source)
    BY <1>1, NewAnswerReply DEF SubmitInvalid
  <1>2. CASE SubmitReadOnly(r, source)
    BY <1>2, RanAnswerReply DEF SubmitReadOnly, ExecuteReadOnly
  <1>3. CASE SubmitDestructive(r, source)
    BY <1>3, NewAnswerReply DEF SubmitDestructive
  <1>4. CASE SubmitWhilePending(r)
    BY <1>4, RefuseReply DEF SubmitWhilePending
  <1>5. CASE SubmitForApproval(r, source)
    <2>1. NewRecord(r, source, FALSE, "PendingApproval", "none") \in PlanRecord
      BY NewRecordType
    <2>2. Len(plans') = Len(plans) + 1
      BY <1>5, <2>1, SupersededPlansType, CreateRecordType DEF SubmitForApproval
    <2> QED
      BY <1>5, <2>2, ReplyType DEF SubmitForApproval, TypeOK
  <1> QED
    BY <1>1, <1>2, <1>3, <1>4, <1>5 DEF SubmitPlanRequest

LEMMA ExternalReply ==
    ASSUME TypeOK, NEW r \in PlanRequest, SubmitExternalPlan(r)
    PROVE  ReplyTypeOK'
  <1> USE DEF Statuses, RefusalCodes, Gates, Sources
  <1>1. CASE ExternalDisabled
    BY <1>1, RefuseReply DEF ExternalDisabled
  <1>2. CASE ExternalInvalid(r)
    BY <1>2, NewAnswerReply DEF ExternalInvalid
  <1>3. CASE ExternalReadOnly(r)
    BY <1>3, RanAnswerReply DEF ExternalReadOnly, ExecuteReadOnly
  <1>4. CASE ExternalConfirmWhilePending(r)
    BY <1>4, RefuseReply DEF ExternalConfirmWhilePending
  <1>5. CASE ExternalConfirm(r)
    BY <1>5, NewAnswerReply DEF ExternalConfirm
  <1>6. CASE ExternalBlocked(r)
    BY <1>6, NewAnswerReply DEF ExternalBlocked, BlockCode
  <1>7. CASE ExternalStale(r)
    BY <1>7, NewAnswerReply DEF ExternalStale
  <1>8. CASE ExternalExecute(r)
    BY <1>8, RanAnswerReply DEF ExternalExecute
  <1> QED
    BY <1>1, <1>2, <1>3, <1>4, <1>5, <1>6, <1>7, <1>8 DEF SubmitExternalPlan

\* The slot's own handlers reply with the plan they decided, or with none.
LEMMA SlotReply ==
    ASSUME TypeOK,
           ApproveCurrentPlan \/ GenerateWithoutSelection \/ ClearCurrentPlan
    PROVE  ReplyTypeOK'
  <1> USE DEF RefusalCodes
  <1>1. CASE ApproveNothing
    BY <1>1, RefuseReply DEF ApproveNothing
  <1>2. CASE ApproveBlocked
    BY <1>2, RefuseReply DEF ApproveBlocked, BlockCode
  <1>3. CASE ApproveStale
    <2>1. Len(plans') >= Len(plans) /\ Len(plans') \in Nat
      BY <1>3, ApprovalTypeStep DEF Shape, RefusesStale, ApproveStale, ApprovalTypeOK
    <2> QED
      BY <1>3, <2>1, PendingIsCreated, ReplyType DEF ApproveStale, TypeOK
  <1>4. CASE ApproveExecute
    <2>1. Len(plans') >= Len(plans) /\ Len(plans') \in Nat
      BY <1>4, ApprovalTypeStep DEF Shape, RunsOnClick, ApproveExecute, Fresh, ApprovalTypeOK
    <2> QED
      BY <1>4, <2>1, PendingIsCreated, ReplyType DEF ApproveExecute, TypeOK
  <1>5. CASE GenerateWithoutSelection \/ ClearCurrentPlan
    <2>1. Len(plans') \in Nat
      BY <1>5, ApprovalTypeStep DEF Shape, GenerateWithoutSelection, ClearCurrentPlan,
                                     ApprovalTypeOK
    <2> QED
      BY <1>5, <2>1, ReplyType DEF GenerateWithoutSelection, ClearCurrentPlan, NoPlan
  <1> QED
    BY <1>1, <1>2, <1>3, <1>4, <1>5 DEF ApproveCurrentPlan

LEMMA ReplyTypeStep ==
    ASSUME TypeOK, [Next]_vars
    PROVE  ReplyTypeOK'
  <1> USE ServiceAssumption DEF Sources
  <1>1. ASSUME NEW r \in Requests, SubmitPlanRequest(r, "Bridge")
        PROVE  ReplyTypeOK'
    BY <1>1, SubmitReply
  <1>2. ASSUME NEW r \in Requests, PreviewPlanRequest(r)
        PROVE  ReplyTypeOK'
    BY <1>2, NewAnswerReply DEF PreviewPlanRequest, Statuses, RefusalCodes
  <1>3. ASSUME NEW r \in Requests, SubmitExternalPlan(r)
        PROVE  ReplyTypeOK'
    BY <1>3, ExternalReply
  <1>4. CASE GenerateFromSelection
    BY <1>4, SubmitReply, PanelRequestType DEF GenerateFromSelection
  <1>5. CASE ApproveCurrentPlan \/ GenerateWithoutSelection \/ ClearCurrentPlan
    BY <1>5, SlotReply
  <1>6. CASE Environment
    <2>1. UNCHANGED approvalVars /\ reply' = NoReply
      BY <1>6 DEF Environment, ChangeSelection, EditLevel, OpenWorld, TogglePlay,
                  ToggleSettings
    <2> QED
      BY <2>1 DEF approvalVars, NoReply, NoPlan, ReplyTypeOK, TypeOK, RefusalCodes
  <1>7. CASE UNCHANGED vars
    BY <1>7 DEF vars, approvalVars, ReplyTypeOK, TypeOK
  <1> QED
    BY <1>1, <1>2, <1>3, <1>4, <1>5, <1>6, <1>7 DEF Next, GeneratePanelFolderPlan

LEMMA InitType == Init => TypeOK
  <1> SUFFICES ASSUME Init
               PROVE  TypeOK
    OBVIOUS
  <1>1. /\ plans \in Seq(PlanRecord) /\ Records \in Seq(Nat)
        /\ CurrentPlanId \in 0 .. Len(plans)
    BY DEF Init, ApprovalInit, NoPlan
  <1>2. reply \in [code : RefusalCodes, plan : 0 .. Len(plans)]
    BY DEF Init, ApprovalInit, NoReply, NoPlan, RefusalCodes
  <1>3. /\ bLastPlanConsumed \in BOOLEAN /\ playing \in BOOLEAN
        /\ bAllowExternalSessionApproval \in BOOLEAN
        /\ bRequireInEditorConfirmForDestructive \in BOOLEAN
    BY Zenon DEF Init, ApprovalInit
  <1>4. world \in Worlds \cup {NoWorld} /\ live \subseteq Actors /\ selected \subseteq live
    BY DEF Init
  <1> QED
    BY <1>1, <1>2, <1>3, <1>4 DEF TypeOK

LEMMA TypeStep == TypeOK /\ [Next]_vars => TypeOK'
  <1> SUFFICES ASSUME TypeOK, [Next]_vars
               PROVE  TypeOK'
    OBVIOUS
  <1>1. ApprovalTypeOK'
    BY StepShape, ApprovalTypeStep
  <1>2. EditorTypeOK'
    BY EditorTypeStep
  <1>3. ReplyTypeOK'
    BY ReplyTypeStep
  <1> QED
    BY <1>1, <1>2, <1>3 DEF ApprovalTypeOK, EditorTypeOK, ReplyTypeOK, TypeOK

\* TypeOK is an invariant: the records stay records, the slot always names one
\* of them or nothing, and no execution selects an actor that is gone.
THEOREM TypeCorrect == Spec => []TypeOK
  BY InitType, TypeStep, PTL DEF Spec

-----------------------------------------------------------------------------
\* What the invariants say of one record object, wherever it came from.
RecordOK(record) ==
    /\ record.runs \in {0, 1}
    /\ record.runs = 1 <=> \/ record.status = "Executed"
                           \/ record.status = "Failed" /\ record.refusal = "none"
    /\ record.runs > 0 /\ PlanHasMutations(record.request) =>
          /\ record.gate \in {"click", "session"}
          /\ record.gate = "session" => record.external
          /\ PlanHasDestructive(record.request) => record.external
    /\ record.runs = 0 => record.gate = "none"
    /\ record.status = "PendingApproval" =>
          /\ record.refusal = "none"
          /\ PlanHasDestructive(record.request) => record.external

RecordsOK == \A id \in PlanIds : RecordOK(plans[id])

\* The three invariants about single records are RecordsOK.
LEMMA RecordsOKSplits ==
    RecordsOK <=> /\ StatusTellsWhetherItRan
                  /\ MutationsPassTheirGate
                  /\ PendingAwaitsItsGate
  BY Zenon DEF RecordsOK, RecordOK, StatusTellsWhetherItRan, MutationsPassTheirGate,
               PendingAwaitsItsGate

LEMMA BornOK ==
    ASSUME NEW record \in PlanRecord, Born(record)
    PROVE  RecordOK(record)
  BY DEF Born, RecordOK, PlanRecord

\* Ending a pending plan without running it: it never ran and says so.
LEMMA WithStatusOK ==
    ASSUME NEW record \in PlanRecord, record.status = "PendingApproval", RecordOK(record),
           NEW status \in {"Superseded", "RefusedStale"}, NEW refusal
    PROVE  RecordOK(WithStatus(record, status, refusal))
  <1>1. record.runs = 0
    BY DEF RecordOK
  <1> QED
    BY <1>1 DEF WithStatus, RecordOK

\* Running a pending plan on a click: once, and external if destructive.
LEMMA ClickOK ==
    ASSUME NEW record \in PlanRecord, record.status = "PendingApproval", RecordOK(record),
           NEW ok \in BOOLEAN
    PROVE  RecordOK(RanRecord(record, ok, "click"))
  <1> DEFINE ran == RanRecord(record, ok, "click")
  <1>1. record.runs = 0 /\ record.refusal = "none"
    BY DEF RecordOK
  <1>2. PlanHasDestructive(record.request) => record.external
    BY DEF RecordOK
  <1>3. /\ ran.runs = record.runs + 1 /\ ran.gate = "click" /\ ran.refusal = record.refusal
        /\ ran.request = record.request
    BY DEF RanRecord
  <1>4. ran.status \in {"Executed", "Failed"}
    BY RanRecordType DEF Gates
  <1>5. PlanHasDestructive(ran.request) => ran.external
    BY <1>2, Zenon DEF RanRecord
  <1> HIDE DEF ran
  <1>6. ran.runs = 1 /\ ran.refusal = "none"
    BY <1>1, <1>3
  <1>7. /\ ran.runs \in {0, 1}
        /\ ran.runs = 1 <=> \/ ran.status = "Executed"
                            \/ ran.status = "Failed" /\ ran.refusal = "none"
        /\ ran.gate \in {"click", "session"} /\ ran.gate # "session"
        /\ ran.status # "PendingApproval" /\ ran.runs # 0
    BY <1>3, <1>4, <1>6
  <1>8. RecordOK(ran)
    BY <1>5, <1>7, Zenon DEF RecordOK
  <1> QED
    BY <1>8 DEF ran

\* Superseding leaves every other record as it was.
LEMMA SupersededOK ==
    ASSUME TypeOK, RecordsOK
    PROVE  \A id \in DOMAIN SupersededPlans : RecordOK(SupersededPlans[id])
  <1>1. CASE HasPendingPlan
    <2>1. RecordOK(WithStatus(plans[CurrentPlanId], "Superseded", "superseded"))
      BY <1>1, PendingIsCreated, WithStatusOK DEF RecordsOK, PlanIds, TypeOK
    <2> QED
      BY <1>1, <2>1, PendingIsCreated DEF SupersededPlans, RecordsOK, PlanIds, TypeOK
  <1>2. CASE ~HasPendingPlan
    BY <1>2 DEF SupersededPlans, RecordsOK, PlanIds
  <1> QED
    BY <1>1, <1>2

\* No shape of step makes a record that breaks them.
LEMMA RecordsOKStep ==
    ASSUME TypeOK, RecordsOK, Shape
    PROVE  RecordsOK'
  <1>1. CASE UNCHANGED approvalVars
    BY <1>1 DEF approvalVars, RecordsOK, PlanIds
  <1>2. CASE Creates
    <2> PICK record \in PlanRecord : Born(record) /\ CreateRecord(plans, record)
      BY <1>2 DEF Creates
    <2>1. RecordOK(record)
      BY BornOK
    <2>2. plans' = Append(plans, record)
      BY DEF CreateRecord
    <2> QED
      BY <2>1, <2>2 DEF RecordsOK, PlanIds, TypeOK
  <1>3. CASE Replaces
    <2> PICK record \in PlanRecord : Born(record) /\ CreateRecord(SupersededPlans, record)
      BY <1>3 DEF Replaces
    <2>1. RecordOK(record)
      BY BornOK
    <2>2. plans' = Append(SupersededPlans, record)
      BY DEF CreateRecord
    <2> QED
      BY <2>1, <2>2, SupersededOK, SupersededPlansType DEF RecordsOK, PlanIds
  <1>4. CASE SupersedeCurrent
    BY <1>4, SupersededOK DEF SupersedeCurrent, RecordsOK, PlanIds
  <1>5. CASE RefusesStale
    <2>1. RecordOK(WithStatus(plans[CurrentPlanId], "RefusedStale", "stale_context"))
      BY <1>5, PendingIsCreated, WithStatusOK DEF RefusesStale, RecordsOK, PlanIds, TypeOK
    <2> QED
      BY <1>5, <2>1, PendingIsCreated DEF RefusesStale, RefuseCurrentStale, RecordsOK, PlanIds, TypeOK
  <1>6. CASE RunsOnClick
    <2> PICK ok \in BOOLEAN : ConsumeCurrent(RanRecord(plans[CurrentPlanId], ok, "click"))
      BY <1>6 DEF RunsOnClick
    <2>1. RecordOK(RanRecord(plans[CurrentPlanId], ok, "click"))
      BY <1>6, PendingIsCreated, ClickOK DEF RunsOnClick, RecordsOK, PlanIds, TypeOK
    <2> QED
      BY <1>6, <2>1, PendingIsCreated DEF RunsOnClick, ConsumeCurrent, RecordsOK, PlanIds, TypeOK
  <1> QED
    BY <1>1, <1>2, <1>3, <1>4, <1>5, <1>6 DEF Shape

-----------------------------------------------------------------------------
\* The newest ids stay the newest: Records grows by the new id or slides.
LEMMA RecordsAreTheNewestStep ==
    ASSUME TypeOK, RecordsAreTheNewest, Shape
    PROVE  RecordsAreTheNewest'
  <1>1. CASE UNCHANGED Records /\ Len(plans') = Len(plans)
    BY <1>1 DEF RecordsAreTheNewest
  <1>2. ASSUME NEW base \in Seq(PlanRecord), Len(base) = Len(plans),
               NEW record \in PlanRecord, CreateRecord(base, record)
        PROVE  RecordsAreTheNewest'
    <2> DEFINE n == Len(plans)
               grown == Append(Records, n + 1)
    <2>1. Len(plans') = n + 1
      BY <1>2 DEF CreateRecord
    <2>2. Records' = IF Len(grown) > MaxRecords THEN Tail(grown) ELSE grown
      BY <1>2 DEF CreateRecord, Kept
    <2>3. /\ n \in Nat /\ Len(Records) \in Nat /\ MaxRecords \in Nat \ {0}
          /\ grown \in Seq(Nat) /\ Len(grown) = Len(Records) + 1
      BY MaxRecordsAssumption DEF TypeOK
    <2>4. \A k \in 1 .. Len(grown) : grown[k] = (n - Len(Records)) + k
      <3>1. Records \in Seq(Nat) /\ \A k \in 1 .. Len(Records) : Records[k] = (n - Len(Records)) + k
        BY DEF RecordsAreTheNewest, TypeOK
      <3> QED
        BY <2>3, <3>1
    <2>5. Len(Records) = IF n < MaxRecords THEN n ELSE MaxRecords
      BY DEF RecordsAreTheNewest
    <2> HIDE DEF grown, n
    <2>6. CASE Len(grown) > MaxRecords
      <3>1. grown # <<>>
        BY <2>3, <2>6
      <3>2. /\ Len(Records') = Len(Records)
            /\ \A k \in 1 .. Len(Records') : Records'[k] = grown[k + 1]
        BY <2>2, <2>3, <2>6, <3>1, HeadTailProperties
      <3>3. Records' \in Seq(Nat)
        BY <2>2, <2>3, <2>6, <3>1, HeadTailProperties
      <3>4. Len(Records') = MaxRecords /\ n >= MaxRecords
        BY <2>3, <2>5, <2>6, <3>2
      <3>5. \A k \in 1 .. Len(Records') : Records'[k] = ((n + 1) - Len(Records')) + k
        <4> TAKE k \in 1 .. Len(Records')
        <4>1. k + 1 \in 1 .. Len(grown)
          BY <2>3, <3>2
        <4> QED
          BY <2>3, <2>4, <3>2, <4>1
      <3>6. DOMAIN Records' = 1 .. Len(Records')
        BY <3>3
      <3> QED
        BY <2>1, <2>3, <3>4, <3>5, <3>6 DEF RecordsAreTheNewest
    <2>7. CASE ~(Len(grown) > MaxRecords)
      <3>1. Records' = grown /\ DOMAIN Records' = 1 .. Len(grown)
        BY <2>2, <2>3, <2>7
      <3>2. Len(Records) = n /\ n < MaxRecords
        BY <2>3, <2>5, <2>7
      <3>3. Len(Records') = n + 1 /\ (n + 1 < MaxRecords \/ n + 1 = MaxRecords)
        BY <2>3, <3>1, <3>2
      <3>4. \A k \in DOMAIN Records' : Records'[k] = ((n + 1) - Len(Records')) + k
        BY <2>3, <2>4, <3>1, <3>2
      <3> QED
        BY <2>1, <2>3, <3>3, <3>4 DEF RecordsAreTheNewest
    <2> QED
      BY <2>6, <2>7
  <1>3. CASE Creates
    BY <1>2, <1>3 DEF Creates, TypeOK
  <1>4. CASE Replaces
    BY <1>2, <1>4, SupersededPlansType DEF Replaces
  <1>5. CASE UNCHANGED approvalVars
    BY <1>1, <1>5 DEF approvalVars
  <1>6. CASE SupersedeCurrent
    BY <1>1, <1>6, SupersededPlansType DEF SupersedeCurrent
  <1>7. CASE RefusesStale
    BY <1>1, <1>7, PendingIsCreated DEF RefusesStale, RefuseCurrentStale, TypeOK
  <1>8. CASE RunsOnClick
    BY <1>1, <1>8, PendingIsCreated DEF RunsOnClick, ConsumeCurrent, TypeOK
  <1> QED
    BY <1>3, <1>4, <1>5, <1>6, <1>7, <1>8 DEF Shape

\* The records that can be found afterwards were there before or are new.
LEMMA KeptAreOldOrNew ==
    ASSUME TypeOK, NEW n \in Nat, Records' = Kept(n), NEW id, FindRecord(id)'
    PROVE  FindRecord(id) \/ id = n
  <1> DEFINE grown == Append(Records, n)
  <1>1. /\ grown \in Seq(Nat) /\ Len(grown) = Len(Records) + 1
        /\ \A k \in 1 .. Len(grown) :
              (k \in DOMAIN Records /\ grown[k] = Records[k]) \/ grown[k] = n
    BY DEF TypeOK
  <1>2. Records' = IF Len(grown) > MaxRecords THEN Tail(grown) ELSE grown
    BY DEF Kept
  <1> HIDE DEF grown
  <1>3. \E k \in 1 .. Len(grown) : grown[k] = id
    <2>1. CASE Len(grown) > MaxRecords
      <3>1. grown # <<>>
        BY <1>1, <2>1, MaxRecordsAssumption
      <3>2. /\ Records' \in Seq(Nat) /\ Len(Records') = Len(grown) - 1
            /\ \A k \in 1 .. Len(Records') : Records'[k] = grown[k + 1]
        BY <1>1, <1>2, <2>1, <3>1, HeadTailProperties
      <3>3. PICK k \in 1 .. Len(Records') : Records'[k] = id
        BY <3>2 DEF FindRecord
      <3>4. k + 1 \in 1 .. Len(grown) /\ grown[k + 1] = id
        BY <1>1, <3>2, <3>3
      <3> QED
        BY <3>4
    <2>2. CASE ~(Len(grown) > MaxRecords)
      BY <1>1, <1>2, <2>2 DEF FindRecord
    <2> QED
      BY <2>1, <2>2
  <1> QED
    BY <1>1, <1>3 DEF FindRecord

\* After SupersedeCurrent no record that can be found is pending.
LEMMA SupersededNonePending ==
    ASSUME TypeOK, OnePendingPlan
    PROVE  \A id \in 1 .. Len(plans) :
              FindRecord(id) => SupersededPlans[id].status # "PendingApproval"
  <1> SUFFICES ASSUME NEW id \in 1 .. Len(plans), FindRecord(id)
               PROVE  SupersededPlans[id].status # "PendingApproval"
    OBVIOUS
  <1>1. id \in PlanIds /\ (plans[id].status = "PendingApproval" <=> id = CurrentPlanId)
    BY DEF OnePendingPlan, PlanIds, TypeOK
  <1>2. CASE HasPendingPlan
    BY <1>1, <1>2, PendingIsCreated DEF SupersededPlans, WithStatus, TypeOK
  <1>3. CASE ~HasPendingPlan
    BY <1>1, <1>3 DEF SupersededPlans, HasPendingPlan, GetCurrentRecord, NoPlan
  <1> QED
    BY <1>2, <1>3

\* A plan that takes the slot when no findable plan is pending is the only one.
LEMMA CreateOnePending ==
    ASSUME TypeOK, OnePendingPlan,
           NEW base \in Seq(PlanRecord), Len(base) = Len(plans),
           NEW record \in PlanRecord, CreateRecord(base, record),
           record.status = "PendingApproval" =>
              \A id \in 1 .. Len(plans) :
                 FindRecord(id) => base[id].status # "PendingApproval",
           record.status # "PendingApproval" => base = plans
    PROVE  OnePendingPlan'
  <1> DEFINE n == Len(plans)
  <1>1. /\ n \in Nat /\ plans' = Append(base, record) /\ Records' = Kept(n + 1)
        /\ CurrentPlanId \in 0 .. n
    BY DEF CreateRecord, TypeOK
  <1>2. CurrentPlanId' = IF record.status = "PendingApproval" THEN n + 1 ELSE CurrentPlanId
    BY Zenon DEF CreateRecord
  <1>3. /\ DOMAIN plans' = 1 .. (n + 1) /\ plans'[n + 1] = record
        /\ \A id \in 1 .. n : plans'[id] = base[id]
    BY <1>1
  <1> SUFFICES ASSUME NEW id \in 1 .. (n + 1), FindRecord(id)'
               PROVE  plans'[id].status = "PendingApproval" <=> id = CurrentPlanId'
    BY <1>3 DEF OnePendingPlan, PlanIds
  <1>4. FindRecord(id) \/ id = n + 1
    BY <1>1, KeptAreOldOrNew
  <1> HIDE DEF n
  <1>5. CASE id = n + 1
    BY <1>1, <1>2, <1>3, <1>5
  <1>6. CASE id # n + 1
    <2>1. id \in 1 .. n /\ FindRecord(id)
      BY <1>1, <1>4, <1>6
    <2>2. plans[id].status = "PendingApproval" <=> id = CurrentPlanId
      BY <2>1 DEF OnePendingPlan, PlanIds, TypeOK, n
    <2>3. record.status = "PendingApproval" => base[id].status # "PendingApproval"
      BY <2>1 DEF n
    <2> QED
      BY <1>1, <1>2, <1>3, <1>6, <2>1, <2>2, <2>3
  <1> QED
    BY <1>5, <1>6

\* Deciding the plan in the slot empties the slot and leaves nothing pending.
LEMMA DecideOnePending ==
    ASSUME TypeOK, OnePendingPlan, HasPendingPlan,
           NEW record \in PlanRecord, record.status # "PendingApproval",
           plans' = [plans EXCEPT ![CurrentPlanId] = record],
           CurrentPlanId' = NoPlan, UNCHANGED Records
    PROVE  OnePendingPlan'
  <1>1. CurrentPlanId \in 1 .. Len(plans) /\ DOMAIN plans' = 1 .. Len(plans)
    BY PendingIsCreated DEF TypeOK
  <1> SUFFICES ASSUME NEW id \in 1 .. Len(plans), FindRecord(id)'
               PROVE  plans'[id].status # "PendingApproval" /\ id # CurrentPlanId'
    BY <1>1 DEF OnePendingPlan, PlanIds
  <1>2. FindRecord(id)
    BY DEF FindRecord
  <1>3. plans[id].status = "PendingApproval" <=> id = CurrentPlanId
    BY <1>2 DEF OnePendingPlan, PlanIds, TypeOK
  <1> QED
    BY <1>1, <1>3 DEF TypeOK, NoPlan

LEMMA OnePendingStep ==
    ASSUME TypeOK, OnePendingPlan, Shape
    PROVE  OnePendingPlan'
  <1>1. CASE UNCHANGED approvalVars
    BY <1>1 DEF approvalVars, OnePendingPlan, PlanIds, FindRecord
  <1>2. CASE Creates
    <2> PICK record \in PlanRecord :
            /\ record.status = "PendingApproval" => ~HasPendingPlan
            /\ CreateRecord(plans, record)
      BY <1>2 DEF Creates
    <2>1. ASSUME record.status = "PendingApproval", NEW id \in 1 .. Len(plans), FindRecord(id)
          PROVE  plans[id].status # "PendingApproval"
      <3>1. plans[id].status = "PendingApproval" <=> id = CurrentPlanId
        BY <2>1 DEF OnePendingPlan, PlanIds, TypeOK
      <3> QED
        BY <2>1, <3>1 DEF HasPendingPlan, GetCurrentRecord, NoPlan
    <2>2. plans \in Seq(PlanRecord)
      BY DEF TypeOK
    <2> QED
      BY <2>1, <2>2, CreateOnePending
  <1>3. CASE Replaces
    <2> PICK record \in PlanRecord :
            record.status = "PendingApproval" /\ CreateRecord(SupersededPlans, record)
      BY <1>3 DEF Replaces
    <2> QED
      BY SupersededNonePending, SupersededPlansType, CreateOnePending
  <1>4. CASE SupersedeCurrent
    <2>1. /\ plans' = SupersededPlans /\ CurrentPlanId' = 0 /\ Records' = Records
          /\ DOMAIN plans' = 1 .. Len(plans)
      BY <1>4, SupersededPlansType DEF SupersedeCurrent, NoPlan
    <2>2. \A id \in 1 .. Len(plans) : FindRecord(id)' => FindRecord(id)
      BY <2>1 DEF FindRecord
    <2>3. \A id \in 1 .. Len(plans) : FindRecord(id) => plans'[id].status # "PendingApproval"
      BY <2>1, SupersededNonePending
    <2> QED
      BY <2>1, <2>2, <2>3 DEF OnePendingPlan, PlanIds
  <1>5. CASE RefusesStale
    <2> DEFINE record == WithStatus(plans[CurrentPlanId], "RefusedStale", "stale_context")
    <2>1. record \in PlanRecord
      BY <1>5, PendingIsCreated, WithStatusType DEF RefusesStale, Statuses, RefusalCodes
    <2>2. record.status # "PendingApproval"
      BY DEF WithStatus
    <2>3. /\ plans' = [plans EXCEPT ![CurrentPlanId] = record]
          /\ CurrentPlanId' = NoPlan /\ UNCHANGED Records
      BY <1>5 DEF RefusesStale, RefuseCurrentStale
    <2> HIDE DEF record
    <2> QED
      BY <1>5, <2>1, <2>2, <2>3, DecideOnePending DEF RefusesStale
  <1>6. CASE RunsOnClick
    <2> PICK ok \in BOOLEAN : ConsumeCurrent(RanRecord(plans[CurrentPlanId], ok, "click"))
      BY <1>6 DEF RunsOnClick
    <2> DEFINE record == RanRecord(plans[CurrentPlanId], ok, "click")
    <2>1. record \in PlanRecord /\ record.status # "PendingApproval"
      BY <1>6, PendingIsCreated, RanRecordType DEF RunsOnClick, Gates
    <2>2. /\ plans' = [plans EXCEPT ![CurrentPlanId] = record]
          /\ CurrentPlanId' = NoPlan /\ UNCHANGED Records
      BY DEF ConsumeCurrent
    <2> HIDE DEF record
    <2> QED
      BY <1>6, <2>1, <2>2, DecideOnePending DEF RunsOnClick
  <1> QED
    BY <1>1, <1>2, <1>3, <1>4, <1>5, <1>6 DEF Shape

-----------------------------------------------------------------------------
\* The inductive invariant holds in every state.
THEOREM Invariant == Spec => []IInv
  <1>1. Init => IInv
    <2> SUFFICES ASSUME Init
                 PROVE  IInv
      OBVIOUS
    <2>1. TypeOK
      BY InitType
    <2>2. Len(plans) = 0 /\ Len(Records) = 0 /\ PlanIds = {} /\ DOMAIN Records = {}
      BY DEF Init, ApprovalInit, PlanIds
    <2>3. RecordsAreTheNewest
      BY <2>2, MaxRecordsAssumption DEF RecordsAreTheNewest
    <2>4. OnePendingPlan /\ RecordsOK
      BY <2>2 DEF OnePendingPlan, RecordsOK, PlanIds
    <2> QED
      BY <2>1, <2>3, <2>4, RecordsOKSplits DEF IInv
  <1>2. IInv /\ [Next]_vars => IInv'
    <2> SUFFICES ASSUME IInv, [Next]_vars
                 PROVE  IInv'
      OBVIOUS
    <2>1. TypeOK /\ RecordsAreTheNewest /\ OnePendingPlan /\ RecordsOK
      BY RecordsOKSplits DEF IInv
    <2>2. Shape
      BY <2>1, StepShape
    <2>3. TypeOK'
      BY <2>1, TypeStep
    <2>4. RecordsAreTheNewest' /\ OnePendingPlan' /\ RecordsOK'
      BY <2>1, <2>2, RecordsAreTheNewestStep, OnePendingStep, RecordsOKStep
    <2>5. /\ StatusTellsWhetherItRan'
          /\ MutationsPassTheirGate'
          /\ PendingAwaitsItsGate'
      BY <2>4, Zenon DEF RecordsOK, RecordOK, StatusTellsWhetherItRan,
                         MutationsPassTheirGate, PendingAwaitsItsGate, PlanIds
    <2> QED
      BY <2>3, <2>4, <2>5 DEF IInv
  <1> QED
    BY <1>1, <1>2, PTL DEF Spec

\* Among the records a client can find, exactly the one in the slot awaits
\* approval: no interleaving of submissions, clicks, refusals and evictions
\* leaves a second pending plan, or a pending one that no click can reach.
THEOREM OnePending == Spec => []OnePendingPlan
  BY Invariant, PTL DEF IInv

\* Records is the newest ids, at most MaxRecords of them.
THEOREM RecordsFifo == Spec => []RecordsAreTheNewest
  BY Invariant, PTL DEF IInv

\* A plan runs at most once and its status tells whether it did.
THEOREM RunsAtMostOnce == Spec => []StatusTellsWhetherItRan
  BY Invariant, PTL DEF IInv

\* No mutation ever ran without the human gate its risk tier requires.
THEOREM GatesHold == Spec => []MutationsPassTheirGate
  BY Invariant, PTL DEF IInv

\* No plan awaits a click that it should not get: none that was refused, and no
\* destructive one that did not come out of a session's approval.
THEOREM PendingIsGated == Spec => []PendingAwaitsItsGate
  BY Invariant, PTL DEF IInv

-----------------------------------------------------------------------------
\* The record objects a step leaves: old ones as they were or, if pending in
\* the slot, decided; and perhaps one new.
LEMMA DecidedStaysDecided ==
    ASSUME TypeOK, Shape, NEW id \in PlanIds, plans[id].status \in Terminal
    PROVE  plans'[id] = plans[id]
  <1>1. id \in 1 .. Len(plans) /\ plans[id].status # "PendingApproval"
    BY DEF PlanIds, Terminal, TypeOK
  <1>2. SupersededPlans[id] = plans[id]
    BY <1>1, PendingIsCreated DEF SupersededPlans, TypeOK
  <1>3. CASE UNCHANGED approvalVars
    BY <1>3 DEF approvalVars
  <1>4. CASE Creates
    BY <1>1, <1>4 DEF Creates, CreateRecord, TypeOK
  <1>5. CASE Replaces
    BY <1>1, <1>2, <1>5, SupersededPlansType DEF Replaces, CreateRecord
  <1>6. CASE SupersedeCurrent
    BY <1>2, <1>6 DEF SupersedeCurrent
  <1>7. CASE RefusesStale
    BY <1>1, <1>7, PendingIsCreated DEF RefusesStale, RefuseCurrentStale, TypeOK
  <1>8. CASE RunsOnClick
    BY <1>1, <1>8, PendingIsCreated DEF RunsOnClick, ConsumeCurrent, TypeOK
  <1> QED
    BY <1>3, <1>4, <1>5, <1>6, <1>7, <1>8 DEF Shape

\* Decided is final: no step of any actor changes a record that has left
\* PendingApproval, so a client that polls twice never reads two outcomes.
THEOREM DecidedRecordsAreFinal == Spec => DecidedIsFinal
  <1>1. TypeOK /\ [Next]_vars =>
          [\A id \in PlanIds : plans[id].status \in Terminal => plans'[id] = plans[id]]_vars
    BY StepShape, DecidedStaysDecided
  <1> QED
    BY <1>1, TypeCorrect, PTL DEF Spec, DecidedIsFinal

\* A bridge call leaves the plan that awaits the human, and its slot, alone.
LEMMA BridgeKeepsPending ==
    ASSUME TypeOK, Shape, HasPendingPlan, Len(plans') > Len(plans),
           plans'[Len(plans')].source = "Bridge"
    PROVE  CurrentPlanId' = CurrentPlanId /\ plans'[CurrentPlanId] = plans[CurrentPlanId]
  <1>1. CurrentPlanId \in 1 .. Len(plans) /\ plans \in Seq(PlanRecord)
    BY PendingIsCreated DEF TypeOK
  <1>2. CASE Creates
    <2> PICK record \in PlanRecord :
            record.status # "PendingApproval" /\ CreateRecord(plans, record)
      BY <1>2 DEF Creates
    <2>1. plans' = Append(plans, record) /\ CurrentPlanId' = CurrentPlanId
      BY Zenon DEF CreateRecord
    <2> QED
      BY <1>1, <2>1
  <1>3. CASE Replaces
    <2> PICK record \in PlanRecord :
            record.source # "Bridge" /\ CreateRecord(SupersededPlans, record)
      BY <1>3 DEF Replaces
    <2>1. plans' = Append(SupersededPlans, record)
      BY DEF CreateRecord
    <2>2. plans'[Len(plans')] = record
      BY <2>1, SupersededPlansType
    <2> QED
      BY <2>2
  <1>4. CASE UNCHANGED approvalVars \/ SupersedeCurrent
    BY <1>1, <1>4, SupersededPlansType DEF approvalVars, SupersedeCurrent
  <1>5. CASE RefusesStale \/ RunsOnClick
    BY <1>1, <1>5 DEF RefusesStale, RefuseCurrentStale, RunsOnClick, ConsumeCurrent
  <1> QED
    BY <1>2, <1>3, <1>4, <1>5 DEF Shape

\* No submission over the bridge displaces or alters the plan a human is asked
\* to decide.
THEOREM BridgeCannotDisplace == Spec => BridgeNeverDisplaces
  <1>1. TypeOK /\ [Next]_vars =>
          [HasPendingPlan /\ Len(plans') > Len(plans) /\ plans'[Len(plans')].source = "Bridge"
            => CurrentPlanId' = CurrentPlanId /\ plans'[CurrentPlanId] = plans[CurrentPlanId]]_vars
    BY StepShape, BridgeKeepsPending
  <1> QED
    BY <1>1, TypeCorrect, PTL DEF Spec, BridgeNeverDisplaces

\* Superseding a plan is not running it.
LEMMA SupersededKeepsRuns ==
    ASSUME TypeOK, NEW id \in 1 .. Len(plans)
    PROVE  SupersededPlans[id].runs = plans[id].runs
  BY PendingIsCreated DEF SupersededPlans, WithStatus, TypeOK

\* The only steps that raise a plan's number of runs found the context fresh, and
\* are clicks if a click is asked for.
LEMMA RunsAreFresh ==
    ASSUME TypeOK, Shape, NEW id \in DOMAIN plans',
           plans'[id].runs > (IF id \in PlanIds THEN plans[id].runs ELSE 0),
           PlanHasMutations(plans'[id].request)
    PROVE  /\ Fresh(plans'[id].request)
           /\ NeedsEditorConfirm(plans'[id].request) => plans'[id].gate = "click"
  <1> DEFINE n == Len(plans)
  <1>1. /\ n \in Nat /\ PlanIds = 1 .. n
        /\ \A k \in 1 .. n : plans[k].runs \in Nat
    <2>1. n \in Nat /\ PlanIds = 1 .. n /\ \A k \in 1 .. n : plans[k] \in PlanRecord
      BY DEF TypeOK, PlanIds
    <2>2. \A record \in PlanRecord : record.runs \in Nat
      BY DEF PlanRecord
    <2> HIDE DEF n
    <2> QED
      BY <2>1, <2>2
  <1> HIDE DEF n
  <1>2. CASE UNCHANGED approvalVars
    BY <1>1, <1>2 DEF approvalVars, PlanIds
  <1>3. CASE Creates
    <2> PICK record \in PlanRecord :
            /\ record.runs > 0 /\ PlanHasMutations(record.request) => MayRunAtOnce(record.request)
            /\ CreateRecord(plans, record)
      BY <1>3 DEF Creates
    <2>1. plans' = Append(plans, record)
      BY DEF CreateRecord
    <2>2. CASE id \in 1 .. n
      BY <1>1, <2>1, <2>2 DEF TypeOK, n
    <2>3. CASE id \notin 1 .. n
      BY <1>1, <2>1, <2>3 DEF TypeOK, n, MayRunAtOnce
    <2> QED
      BY <2>2, <2>3
  <1>4. CASE Replaces
    <2> PICK record \in PlanRecord :
            record.runs = 0 /\ CreateRecord(SupersededPlans, record)
      BY <1>4 DEF Replaces
    <2>1. plans' = Append(SupersededPlans, record)
      BY DEF CreateRecord
    <2>2. CASE id \in 1 .. n
      BY <1>1, <2>1, <2>2, SupersededPlansType, SupersededKeepsRuns DEF n
    <2>3. CASE id \notin 1 .. n
      BY <1>1, <2>1, <2>3, SupersededPlansType DEF n
    <2> QED
      BY <2>2, <2>3
  <1>5. CASE SupersedeCurrent
    <2>1. plans' = SupersededPlans /\ id \in 1 .. n
      BY <1>5, SupersededPlansType DEF SupersedeCurrent, n
    <2> QED
      BY <1>1, <2>1, SupersededKeepsRuns DEF n
  <1>6. CASE RefusesStale
    <2>1. id \in 1 .. n
      BY <1>6 DEF RefusesStale, RefuseCurrentStale, TypeOK, n
    <2>2. plans'[id].runs = plans[id].runs
      BY <1>6, <2>1, PendingIsCreated
         DEF RefusesStale, RefuseCurrentStale, WithStatus, TypeOK, n
    <2> QED
      BY <1>1, <2>1, <2>2
  <1>7. CASE RunsOnClick
    <2> PICK ok \in BOOLEAN : ConsumeCurrent(RanRecord(plans[CurrentPlanId], ok, "click"))
      BY <1>7 DEF RunsOnClick
    <2>1. CASE id = CurrentPlanId
      <3>1. plans'[id].request = plans[CurrentPlanId].request /\ plans'[id].gate = "click"
        BY <1>7, <2>1, PendingIsCreated DEF RunsOnClick, ConsumeCurrent, RanRecord, TypeOK
      <3> QED
        BY <1>7, <3>1 DEF RunsOnClick
    <2>2. CASE id # CurrentPlanId
      BY <1>1, <2>2 DEF ConsumeCurrent, PlanIds, TypeOK
    <2> QED
      BY <2>1, <2>2
  <1> QED
    BY <1>2, <1>3, <1>4, <1>5, <1>6, <1>7 DEF Shape

\* However the level, the selection or play mode changed since the preview, a
\* mutation runs only in the context its plan was built against.
THEOREM MutationsAreFresh == Spec => MutationsRunFresh
  <1>1. TypeOK /\ [Next]_vars =>
          [\A id \in DOMAIN plans' :
              LET before == IF id \in PlanIds THEN plans[id].runs ELSE 0 IN
              plans'[id].runs > before /\ PlanHasMutations(plans'[id].request) =>
                  /\ IsContextStillValid(plans'[id].request)
                  /\ ~IsEditorMutationBlocked]_vars
    BY StepShape, RunsAreFresh DEF Fresh
  <1> QED
    BY <1>1, TypeCorrect, PTL DEF Spec, MutationsRunFresh

\* While the setting asks for a click, a deletion runs by a click alone, whenever it was
\* submitted and however the setting changed since.
THEOREM DestructionIsConfirmed == Spec => ConfirmedDestruction
  <1>1. ASSUME TypeOK, [Next]_vars, NEW id \in DOMAIN plans',
               plans'[id].runs > (IF id \in PlanIds THEN plans[id].runs ELSE 0),
               PlanHasDestructive(plans'[id].request),
               bRequireInEditorConfirmForDestructive
        PROVE  plans'[id].gate = "click"
    <2>1. /\ PlanHasMutations(plans'[id].request)
          /\ NeedsEditorConfirm(plans'[id].request)
      BY <1>1 DEF PlanHasMutations, PlanHasDestructive, NeedsEditorConfirm
    <2> QED
      BY <1>1, <2>1, StepShape, RunsAreFresh
  <1>2. TypeOK /\ [Next]_vars =>
          [\A id \in DOMAIN plans' :
              LET before == IF id \in PlanIds THEN plans[id].runs ELSE 0 IN
              /\ plans'[id].runs > before
              /\ PlanHasDestructive(plans'[id].request)
              /\ bRequireInEditorConfirmForDestructive
              => plans'[id].gate = "click"]_vars
    BY <1>1
  <1> QED
    BY <1>2, TypeCorrect, PTL DEF Spec, ConfirmedDestruction

-----------------------------------------------------------------------------
(***************************************************************************)
(* The flag that remembers that the slot's last plan ran.                  *)
(***************************************************************************)
LeftUnrun(id) == plans[id].status \in {"PendingApproval", "Superseded", "RefusedStale"}

\* No plan younger than this one took the slot or ran on a click.
NoneSince(id) ==
    \A later \in PlanIds : later > id =>
        plans[later].status \notin {"PendingApproval", "Superseded"} /\ plans[later].gate # "click"

FlagInv ==
    /\ bLastPlanConsumed => CurrentPlanId = NoPlan
    /\ HasPendingPlan => NoneSince(CurrentPlanId)
    /\ bLastPlanConsumed => \E id \in PlanIds : plans[id].gate = "click" /\ NoneSince(id)
    /\ ~bLastPlanConsumed =>
          \A id \in PlanIds : plans[id].gate = "click" =>
              \E later \in PlanIds : later > id /\ LeftUnrun(later)

\* Ending a plan without running it gives it no gate, and it stays left unrun.
LEMMA SupersededLeftUnrun ==
    ASSUME TypeOK, NEW id \in 1 .. Len(plans)
    PROVE  /\ SupersededPlans[id].gate = plans[id].gate
           /\ LeftUnrun(id) => SupersededPlans[id].status \in
                                  {"PendingApproval", "Superseded", "RefusedStale"}
  BY PendingIsCreated DEF SupersededPlans, WithStatus, LeftUnrun, TypeOK

\* A record is appended to record objects that tell the flag the same.
LEMMA AppendedRecord ==
    ASSUME TypeOK, NEW base \in Seq(PlanRecord), Len(base) = Len(plans),
           NEW record \in PlanRecord, CreateRecord(base, record),
           NEW n, n = Len(plans) + 1
    PROVE  /\ n \in Nat /\ \A id \in PlanIds : id < n /\ id \in 1 .. Len(plans)
           /\ PlanIds' = PlanIds \cup {n} /\ plans'[n] = record
           /\ \A id \in PlanIds : plans'[id] = base[id]
           /\ Records' = Kept(n)
  BY DEF CreateRecord, PlanIds, TypeOK

\* A new plan takes the slot: it is left unrun after all that ran.
LEMMA FlagIsCleared ==
    ASSUME TypeOK, NEW base \in Seq(PlanRecord), Len(base) = Len(plans),
           \A id \in PlanIds : base[id].gate = plans[id].gate,
           NEW record \in PlanRecord, Born(record), record.status = "PendingApproval",
           CreateRecord(base, record)
    PROVE  FlagInv'
  <1> PICK n : n = Len(plans) + 1
    OBVIOUS
  <1>1. /\ n \in Nat /\ \A id \in PlanIds : id < n /\ id \in 1 .. Len(plans)
        /\ PlanIds' = PlanIds \cup {n} /\ plans'[n] = record
    BY AppendedRecord
  <1>2. CurrentPlanId' = n /\ ~bLastPlanConsumed'
    BY DEF CreateRecord, TypeOK
  <1>3. \A later \in PlanIds' : ~(later > n)
    BY <1>1
  <1>4. LeftUnrun(n)' /\ record.gate # "click"
    BY <1>1 DEF LeftUnrun, Born
  <1>5. ASSUME NEW id \in PlanIds', plans'[id].gate = "click"
        PROVE  \E later \in PlanIds' : later > id /\ LeftUnrun(later)'
    BY <1>1, <1>4, <1>5
  <1> QED
    BY <1>2, <1>3, <1>5, Zenon DEF FlagInv, NoneSince

\* A plan that was answered at once leaves the slot and the flag alone.
LEMMA FlagIsKept ==
    ASSUME TypeOK, FlagInv, NEW record \in PlanRecord, Born(record),
           record.status # "PendingApproval", CreateRecord(plans, record)
    PROVE  FlagInv'
  <1> PICK n : n = Len(plans) + 1
    OBVIOUS
  <1>1. /\ n \in Nat /\ \A id \in PlanIds : id < n /\ id \in 1 .. Len(plans)
        /\ PlanIds' = PlanIds \cup {n} /\ plans'[n] = record
        /\ \A id \in PlanIds : plans'[id] = plans[id]
        /\ Records' = Kept(n)
    BY AppendedRecord DEF TypeOK
  <1>2. CurrentPlanId' = CurrentPlanId /\ (bLastPlanConsumed' <=> bLastPlanConsumed)
    BY Zenon DEF CreateRecord
  <1>3. record.status \notin {"PendingApproval", "Superseded"} /\ record.gate # "click"
    BY DEF Born
  <1>4. ASSUME NEW id, NoneSince(id)
        PROVE  NoneSince(id)'
    BY <1>1, <1>3, <1>4 DEF NoneSince
  <1>5. HasPendingPlan' => HasPendingPlan
    <2> SUFFICES ASSUME HasPendingPlan'
                 PROVE  HasPendingPlan
      OBVIOUS
    <2> PICK cur : cur = CurrentPlanId
      OBVIOUS
    <2>1. cur \in PlanIds /\ cur # NoPlan /\ FindRecord(cur)'
      BY <1>2 DEF HasPendingPlan, GetCurrentRecord, NoPlan, TypeOK, PlanIds, FindRecord
    <2>2. FindRecord(cur)
      BY <1>1, <2>1, KeptAreOldOrNew
    <2>3. plans[cur].status = "PendingApproval"
      BY <1>1, <1>2, <2>1 DEF HasPendingPlan
    <2> QED
      BY <2>1, <2>2, <2>3 DEF HasPendingPlan, GetCurrentRecord
  <1>6. HasPendingPlan' => NoneSince(CurrentPlanId)'
    <2> SUFFICES ASSUME HasPendingPlan'
                 PROVE  NoneSince(CurrentPlanId)'
      OBVIOUS
    <2> PICK cur : cur = CurrentPlanId
      OBVIOUS
    <2>1. NoneSince(cur)'
      BY <1>4, <1>5 DEF FlagInv
    <2> QED
      BY <1>2, <2>1 DEF NoneSince
  <1>7. bLastPlanConsumed' => \E id \in PlanIds' : plans'[id].gate = "click" /\ NoneSince(id)'
    <2> SUFFICES ASSUME bLastPlanConsumed'
                 PROVE  \E id \in PlanIds' : plans'[id].gate = "click" /\ NoneSince(id)'
      OBVIOUS
    <2> PICK id \in PlanIds : plans[id].gate = "click" /\ NoneSince(id)
      BY <1>2 DEF FlagInv
    <2> QED
      BY <1>1, <1>4
  <1>8. ASSUME ~bLastPlanConsumed', NEW id \in PlanIds', plans'[id].gate = "click"
        PROVE  \E later \in PlanIds' : later > id /\ LeftUnrun(later)'
    <2>1. id \in PlanIds /\ plans[id].gate = "click"
      BY <1>1, <1>3, <1>8
    <2> PICK later \in PlanIds : later > id /\ LeftUnrun(later)
      BY <1>2, <1>8, <2>1 DEF FlagInv
    <2> QED
      BY <1>1 DEF LeftUnrun
  <1> QED
    BY <1>2, <1>6, <1>7, <1>8, Zenon DEF FlagInv

\* The slot's plan ends without running, or there was none.
LEMMA FlagAfterEnding ==
    ASSUME TypeOK, FlagInv, NEW base \in Seq(PlanRecord), Len(base) = Len(plans),
           \A id \in 1 .. Len(plans) :
               /\ base[id].gate = plans[id].gate
               /\ LeftUnrun(id) => base[id].status \in
                                      {"PendingApproval", "Superseded", "RefusedStale"},
           ~HasPendingPlan => base = plans,
           plans' = base, CurrentPlanId' = NoPlan, bLastPlanConsumed' = bLastPlanConsumed
    PROVE  FlagInv'
  <1>1. PlanIds' = PlanIds /\ \A id \in PlanIds : id \in 1 .. Len(plans)
    BY DEF PlanIds
  <1>2. ~HasPendingPlan'
    BY DEF HasPendingPlan, GetCurrentRecord
  <1>3. ASSUME bLastPlanConsumed'
        PROVE  \E id \in PlanIds' : plans'[id].gate = "click" /\ NoneSince(id)'
    <2>1. plans' = plans
      BY <1>3, PendingIsCreated DEF FlagInv, NoPlan
    <2> PICK id \in PlanIds : plans[id].gate = "click" /\ NoneSince(id)
      BY <1>3 DEF FlagInv
    <2> QED
      BY <1>1, <2>1 DEF NoneSince
  <1>4. ASSUME ~bLastPlanConsumed', NEW id \in PlanIds', plans'[id].gate = "click"
        PROVE  \E later \in PlanIds' : later > id /\ LeftUnrun(later)'
    <2> PICK later \in PlanIds : later > id /\ LeftUnrun(later)
      BY <1>1, <1>4 DEF FlagInv
    <2> QED
      BY <1>1 DEF LeftUnrun
  <1> QED
    BY <1>2, <1>3, <1>4, Zenon DEF FlagInv

\* The slot's plan runs: nothing younger took the slot or ran on a click.
LEMMA FlagIsSet ==
    ASSUME TypeOK, FlagInv, RunsOnClick
    PROVE  FlagInv'
  <1>0. PICK ok \in BOOLEAN : ConsumeCurrent(RanRecord(plans[CurrentPlanId], ok, "click"))
    BY DEF RunsOnClick
  <1> PICK cur : cur = CurrentPlanId
    OBVIOUS
  <1>1. /\ HasPendingPlan /\ cur \in 1 .. Len(plans) /\ NoneSince(cur)
    BY PendingIsCreated DEF RunsOnClick, FlagInv
  <1>2. PlanIds = 1 .. Len(plans) /\ PlanIds' = PlanIds
    BY <1>0 DEF ConsumeCurrent, PlanIds, TypeOK
  <1>3. plans'[cur].gate = "click" /\ \A id \in PlanIds : id # cur => plans'[id] = plans[id]
    BY <1>0, <1>1, <1>2 DEF ConsumeCurrent, RanRecord, TypeOK
  <1>4. NoneSince(cur)'
    BY <1>1, <1>2, <1>3 DEF NoneSince
  <1>5. CurrentPlanId' = NoPlan /\ ~HasPendingPlan' /\ bLastPlanConsumed'
    BY <1>0 DEF ConsumeCurrent, HasPendingPlan, GetCurrentRecord
  <1> QED
    BY <1>1, <1>2, <1>3, <1>4, <1>5, Zenon DEF FlagInv

LEMMA FlagStep ==
    ASSUME TypeOK, FlagInv, Shape
    PROVE  FlagInv'
  <1>1. CASE UNCHANGED approvalVars
    BY <1>1 DEF approvalVars, FlagInv, NoneSince, LeftUnrun, HasPendingPlan, GetCurrentRecord,
                FindRecord, PlanIds
  <1>2. CASE Creates
    <2> PICK record \in PlanRecord : Born(record) /\ CreateRecord(plans, record)
      BY <1>2 DEF Creates
    <2>1. CASE record.status = "PendingApproval"
      BY <2>1, FlagIsCleared DEF TypeOK
    <2>2. CASE record.status # "PendingApproval"
      BY <2>2, FlagIsKept
    <2> QED
      BY <2>1, <2>2
  <1>3. CASE Replaces
    <2> PICK record \in PlanRecord : /\ Born(record) /\ record.status = "PendingApproval"
                                     /\ CreateRecord(SupersededPlans, record)
      BY <1>3 DEF Replaces
    <2>1. \A id \in PlanIds : SupersededPlans[id].gate = plans[id].gate
      BY SupersededLeftUnrun DEF PlanIds, TypeOK
    <2> QED
      BY <2>1, SupersededPlansType, FlagIsCleared
  <1>4. CASE SupersedeCurrent
    <2>1. ~HasPendingPlan => SupersededPlans = plans
      BY DEF SupersededPlans
    <2> QED
      BY <1>4, <2>1, SupersededPlansType, SupersededLeftUnrun, FlagAfterEnding
         DEF SupersedeCurrent
  <1>5. CASE RefusesStale
    <2> PICK base : base = [plans EXCEPT ![CurrentPlanId] =
                               WithStatus(@, "RefusedStale", "stale_context")]
      OBVIOUS
    <2>1. /\ HasPendingPlan /\ CurrentPlanId \in 1 .. Len(plans)
          /\ WithStatus(plans[CurrentPlanId], "RefusedStale", "stale_context") \in PlanRecord
      BY <1>5, PendingIsCreated, WithStatusType DEF RefusesStale, Statuses, RefusalCodes
    <2>2. base \in Seq(PlanRecord) /\ Len(base) = Len(plans)
      BY <2>1 DEF TypeOK
    <2>3. ASSUME NEW id \in 1 .. Len(plans)
          PROVE  /\ base[id].gate = plans[id].gate
                 /\ LeftUnrun(id) => base[id].status \in
                                        {"PendingApproval", "Superseded", "RefusedStale"}
      BY <2>1 DEF WithStatus, LeftUnrun, TypeOK
    <2> QED
      BY <1>5, <2>1, <2>2, <2>3, FlagAfterEnding DEF RefusesStale, RefuseCurrentStale
  <1>6. CASE RunsOnClick
    BY <1>6, FlagIsSet
  <1> QED
    BY <1>1, <1>2, <1>3, <1>4, <1>5, <1>6 DEF Shape

\* While the flag is set the slot's last plan ran on a click and none took the
\* slot since; while it is clear, one did after every click.
THEOREM FlagIsTruthful == Spec => []ConsumedFlagIsTruthful
  <1>1. Init => FlagInv
    BY DEF Init, ApprovalInit, FlagInv, HasPendingPlan, GetCurrentRecord, PlanIds
  <1>2. TypeOK /\ FlagInv /\ [Next]_vars => FlagInv'
    BY StepShape, FlagStep
  <1>3. FlagInv => ConsumedFlagIsTruthful
    <2> SUFFICES ASSUME FlagInv
                 PROVE  ConsumedFlagIsTruthful
      OBVIOUS
    <2> DEFINE clicked == {id \in PlanIds : plans[id].gate = "click"}
    <2>1. ASSUME bLastPlanConsumed
          PROVE  \E id \in clicked : \A later \in PlanIds :
                    later > id => /\ plans[later].status \notin {"PendingApproval", "Superseded"}
                                  /\ plans[later].gate # "click"
      BY <2>1 DEF FlagInv, NoneSince
    <2>2. ASSUME ~bLastPlanConsumed
          PROVE  \A id \in clicked : \E later \in PlanIds :
                    later > id /\ plans[later].status \in
                        {"PendingApproval", "Superseded", "RefusedStale"}
      BY <2>2 DEF FlagInv, LeftUnrun
    <2> QED
      BY <2>1, <2>2, Zenon DEF ConsumedFlagIsTruthful
  <1> QED
    BY <1>1, <1>2, <1>3, TypeCorrect, PTL DEF Spec

=============================================================================
