--------------------------- MODULE EditorService ---------------------------
(***************************************************************************)
(* FUE5MCPEditorService: the only path by which a plan can mutate the      *)
(* editor.  Every entry point runs on the game thread without yielding, so *)
(* each is one action; what interleaves with them is everything else the   *)
(* game thread does: the user's edits of the level and of the selection,   *)
(* play mode, map loads and the two settings that decide which gate a plan *)
(* must pass.                                                              *)
(*                                                                         *)
(* A request is abstracted to what the gates look at: the kind of its      *)
(* tools, the targets, the fingerprint (scene, seen) taken when the client *)
(* built it, and whether the rules about the rest of the envelope hold.    *)
(***************************************************************************)
EXTENDS ApprovalState, PlanEffects, FiniteSets

CONSTANTS
    Worlds,               \* names of editor worlds
    NoWorld,              \* the empty name: no editor world is available
    Requests,             \* plan requests clients may send
    MaxTargetsPerAction,  \* rule R10 (200 in the code)
    MaxPlans              \* bound on the records created, for model checking

\* By what the strongest of its tools does: "edit" for the low-risk ones that take
\* targets (select and duplicate among them), "create" for those that take none.
Tools == {"observe", "edit", "create", "delete"}

\* FUE5MCPToolRegistry: the risk of a tool is the registry's, never the client's.
Risk(tool) ==
    CASE tool = "observe" -> "ReadOnly"
      [] tool = "delete"  -> "Destructive"
      [] OTHER            -> "LowMutation"

PlanRequest ==
    [tool : Tools, targets : SUBSET Actors, scene : Worlds \cup {NoWorld},
     seen : SUBSET Actors, wellFormed : BOOLEAN]

ASSUME ServiceAssumption ==
    /\ NoWorld \notin Worlds
    /\ Requests \subseteq PlanRequest
    /\ MaxTargetsPerAction \in Nat
    /\ MaxPlans \in Nat

VARIABLES
    world,      \* name of the editor world, or NoWorld
    playing,    \* GEditor->PlayWorld is set
    bAllowExternalSessionApproval,
    bRequireInEditorConfirmForDestructive,
    reply       \* what an entry point called in the last step returned: [code, plan]

editorVars == <<world, live, selected, playing>>
settingVars == <<bAllowExternalSessionApproval, bRequireInEditorConfirmForDestructive>>
vars == <<approvalVars, editorVars, settingVars, reply>>

\* "none" is the empty code.
RefusalCodes == {"none", "invalid_plan", "destructive_requires_external_gate",
    "plan_pending", "external_approval_disabled", "play_mode_active",
    "editor_unavailable", "stale_context", "superseded", "plan_consumed"}

\* How a plan came to run.
Gates == {"none", "observation", "click", "session"}

PlanRecord ==
    [source : Sources, external : BOOLEAN, status : Statuses,
     refusal : RefusalCodes, request : PlanRequest, runs : Nat, gate : Gates]

PlanHasMutations(r) == Risk(r.tool) # "ReadOnly"
PlanHasDestructive(r) == Risk(r.tool) = "Destructive"

NewRecord(r, source, external, status, refusal) ==
    [source |-> source, external |-> external, status |-> status,
     refusal |-> refusal, request |-> r, runs |-> 0, gate |-> "none"]

RanRecord(record, ok, gate) ==
    [source |-> record.source, external |-> record.external,
     status |-> IF ok THEN "Executed" ELSE "Failed",
     refusal |-> record.refusal, request |-> record.request,
     runs |-> record.runs + 1, gate |-> gate]

(***************************************************************************)
(* CollectContext.  While a play world exists, or there is no editor       *)
(* world, the editor reports no selection.                                 *)
(***************************************************************************)
ContextSelected == IF playing \/ world = NoWorld THEN {} ELSE selected

IsContextStillValid(r) == r.scene = world /\ r.seen = ContextSelected

IsEditorMutationBlocked == playing \/ world = NoWorld

\* As BlockCode would be if play mode were not told apart from no refusal.
BlockCodeForgotten == IF playing THEN "none" ELSE "editor_unavailable"

BlockCode == IF playing THEN "play_mode_active" ELSE "editor_unavailable"

(***************************************************************************)
(* ValidateAndResolve: a mutation has targets unless it spawns actors or   *)
(* checks out a package, when it has none (R6); they resolve to live       *)
(* actors and are at most MaxTargetsPerAction (R10); a mutation names the  *)
(* scene it was built against (R8); wellFormed stands for the other rules. *)
(***************************************************************************)
ValidateAndResolve(r) ==
    /\ r.wellFormed
    /\ PlanHasMutations(r) =>
          (r.targets # {} <=> r.tool # "create") /\ r.scene # NoWorld
    /\ r.targets \subseteq live
    /\ Cardinality(r.targets) <= MaxTargetsPerAction

\* As running a deletion would be if the destroyed actors stayed selected.
ExecuteKeepingSelection(r) ==
    /\ live' = IF r.tool = "delete" THEN live \ r.targets ELSE live
    /\ UNCHANGED <<world, playing, selected>>

\* What running a plan does to the level, its work done in full or in part.
ExecuteApprovedPlan(r) ==
    /\ Effect(IF r.tool = "delete" THEN r.targets ELSE {},
              IF r.tool \in {"edit", "delete"} THEN (SUBSET r.targets) \ {{}} ELSE {},
              r.tool # "observe")
    /\ UNCHANGED <<world, playing>>

NoReply == [code |-> "none", plan |-> NoPlan]

Reply(code, plan) == reply' = [code |-> code, plan |-> plan]

\* A record is created by this step, and the caller gets it.
Answer(record) ==
    /\ CreateRecord(plans, record)
    /\ Reply(record.refusal, Len(plans) + 1)

\* The caller gets no record.
Refuse(code) ==
    /\ Reply(code, NoPlan)
    /\ UNCHANGED <<approvalVars, editorVars>>

\* Observation runs at once on either path and never takes the slot.
ExecuteReadOnly(r, source, external) ==
    /\ ExecuteApprovedPlan(r)
    /\ \E ok \in BOOLEAN :
          Answer(RanRecord(NewRecord(r, source, external, "Executed", "none"), ok, "observation"))

-----------------------------------------------------------------------------
(***************************************************************************)
(* SubmitPlanRequest: low-risk mutations wait in the slot for a click.     *)
(***************************************************************************)
SubmitInvalid(r, source) ==
    /\ ~ValidateAndResolve(r)
    /\ Answer(NewRecord(r, source, FALSE, "Invalid", "invalid_plan"))
    /\ UNCHANGED editorVars

SubmitReadOnly(r, source) ==
    /\ ValidateAndResolve(r)
    /\ ~PlanHasMutations(r)
    /\ ExecuteReadOnly(r, source, FALSE)

SubmitDestructive(r, source) ==
    /\ ValidateAndResolve(r)
    /\ PlanHasDestructive(r)
    /\ Answer(NewRecord(r, source, FALSE, "Invalid", "destructive_requires_external_gate"))
    /\ UNCHANGED editorVars

SubmitWhilePending(r) ==
    /\ ValidateAndResolve(r)
    /\ PlanHasMutations(r) /\ ~PlanHasDestructive(r)
    /\ HasPendingPlan
    /\ Refuse("plan_pending")

\* As SubmitForApproval would be without the destructive tier's own branch.
SubmitAnyForApproval(r, source) ==
    /\ ValidateAndResolve(r)
    /\ PlanHasMutations(r)
    /\ source = "Bridge" => ~HasPendingPlan
    /\ CreateRecord(SupersededPlans, NewRecord(r, source, FALSE, "PendingApproval", "none"))
    /\ Reply("none", Len(plans) + 1)
    /\ UNCHANGED editorVars

\* As SubmitForApproval would be if a bridge plan, too, superseded what is pending.
SubmitOverPending(r, source) ==
    /\ ValidateAndResolve(r)
    /\ PlanHasMutations(r) /\ ~PlanHasDestructive(r)
    /\ CreateRecord(SupersededPlans, NewRecord(r, source, FALSE, "PendingApproval", "none"))
    /\ Reply("none", Len(plans) + 1)
    /\ UNCHANGED editorVars

\* A bridge plan gets here only when nothing is pending; a panel plan
\* supersedes what is.
SubmitForApproval(r, source) ==
    /\ ValidateAndResolve(r)
    /\ PlanHasMutations(r) /\ ~PlanHasDestructive(r)
    /\ source = "Bridge" => ~HasPendingPlan
    /\ CreateRecord(SupersededPlans, NewRecord(r, source, FALSE, "PendingApproval", "none"))
    /\ Reply("none", Len(plans) + 1)
    /\ UNCHANGED editorVars

SubmitPlanRequest(r, source) ==
    /\ \/ SubmitInvalid(r, source)
       \/ SubmitReadOnly(r, source)
       \/ SubmitDestructive(r, source)
       \/ source = "Bridge" /\ SubmitWhilePending(r)
       \/ SubmitForApproval(r, source)
    /\ UNCHANGED settingVars

(***************************************************************************)
(* PreviewPlanRequest: a record, never an execution, never the slot.       *)
(***************************************************************************)
PreviewPlanRequest(r) ==
    /\ Answer(IF ValidateAndResolve(r)
              THEN NewRecord(r, "Bridge", FALSE, "PreviewedOnly", "none")
              ELSE NewRecord(r, "Bridge", FALSE, "Invalid", "invalid_plan"))
    /\ UNCHANGED <<editorVars, settingVars>>

(***************************************************************************)
(* SubmitExternalPlan: the human answered in the agent's session, so the   *)
(* plan runs at once, unless a destructive one must also be confirmed in   *)
(* the editor.  Guards in the code's order.  The executor's own upfront    *)
(* refusal repeats guards already passed in the same handler.              *)
(***************************************************************************)
ExternalDisabled ==
    /\ ~bAllowExternalSessionApproval
    /\ Refuse("external_approval_disabled")

ExternalInvalid(r) ==
    /\ ~ValidateAndResolve(r)
    /\ Answer(NewRecord(r, "Bridge", TRUE, "Invalid", "invalid_plan"))
    /\ UNCHANGED editorVars

ExternalReadOnly(r) ==
    /\ ValidateAndResolve(r)
    /\ ~PlanHasMutations(r)
    /\ ExecuteReadOnly(r, "Bridge", TRUE)

\* As NeedsEditorConfirm would be with the setting read the wrong way round.
NeedsConfirmInverted(r) ==
    PlanHasDestructive(r) /\ ~bRequireInEditorConfirmForDestructive

NeedsEditorConfirm(r) ==
    PlanHasDestructive(r) /\ bRequireInEditorConfirmForDestructive

ExternalConfirmWhilePending(r) ==
    /\ ValidateAndResolve(r)
    /\ NeedsEditorConfirm(r)
    /\ HasPendingPlan
    /\ Refuse("plan_pending")

\* As ExternalConfirm would be without the test for a pending plan.
ExternalConfirmOverPending(r) ==
    /\ ValidateAndResolve(r)
    /\ NeedsEditorConfirm(r)
    /\ Answer(NewRecord(r, "Bridge", TRUE, "PendingApproval", "none"))
    /\ UNCHANGED editorVars

ExternalConfirm(r) ==
    /\ ValidateAndResolve(r)
    /\ NeedsEditorConfirm(r)
    /\ ~HasPendingPlan
    /\ Answer(NewRecord(r, "Bridge", TRUE, "PendingApproval", "none"))
    /\ UNCHANGED editorVars

ExternalBlocked(r) ==
    /\ ValidateAndResolve(r)
    /\ PlanHasMutations(r) /\ ~NeedsEditorConfirm(r)
    /\ IsEditorMutationBlocked
    /\ Answer(NewRecord(r, "Bridge", TRUE, "Failed", BlockCode))
    /\ UNCHANGED editorVars

ExternalStale(r) ==
    /\ ValidateAndResolve(r)
    /\ PlanHasMutations(r) /\ ~NeedsEditorConfirm(r)
    /\ ~IsEditorMutationBlocked
    /\ ~IsContextStillValid(r)
    /\ Answer(NewRecord(r, "Bridge", TRUE, "RefusedStale", "stale_context"))
    /\ UNCHANGED editorVars

ExternalExecute(r) ==
    /\ ValidateAndResolve(r)
    /\ PlanHasMutations(r) /\ ~NeedsEditorConfirm(r)
    /\ ~IsEditorMutationBlocked
    /\ IsContextStillValid(r)
    /\ ExecuteApprovedPlan(r)
    /\ \E ok \in BOOLEAN :
          Answer(RanRecord(NewRecord(r, "Bridge", TRUE, "Executed", "none"), ok, "session"))

SubmitExternalPlan(r) ==
    /\ \/ ExternalDisabled
       \/ /\ bAllowExternalSessionApproval
          /\ \/ ExternalInvalid(r)
             \/ ExternalReadOnly(r)
             \/ ExternalConfirmWhilePending(r)
             \/ ExternalConfirm(r)
             \/ ExternalBlocked(r)
             \/ ExternalStale(r)
             \/ ExternalExecute(r)
    /\ UNCHANGED settingVars

(***************************************************************************)
(* GeneratePanelFolderPlan: a folder plan for the current selection, or,   *)
(* with nothing selected, only the end of the plan in the slot.            *)
(***************************************************************************)
PanelRequest ==
    [tool |-> "edit", targets |-> ContextSelected, scene |-> world,
     seen |-> ContextSelected, wellFormed |-> TRUE]

GenerateWithoutSelection ==
    /\ ContextSelected = {}
    /\ SupersedeCurrent
    /\ Reply("none", NoPlan)
    /\ UNCHANGED <<editorVars, settingVars>>

GenerateFromSelection ==
    /\ ContextSelected # {}
    /\ SubmitPlanRequest(PanelRequest, "Panel")

GeneratePanelFolderPlan == GenerateWithoutSelection \/ GenerateFromSelection

(***************************************************************************)
(* ApproveCurrentPlan: the click.  A blocked editor leaves the plan in the *)
(* slot; a drifted context ends it.                                        *)
(***************************************************************************)
ApproveNothing ==
    /\ ~HasPendingPlan
    /\ Refuse(IF bLastPlanConsumed THEN "plan_consumed" ELSE "invalid_plan")

ApproveBlocked ==
    /\ HasPendingPlan
    /\ IsEditorMutationBlocked
    /\ Refuse(BlockCode)

ApproveStale ==
    /\ HasPendingPlan
    /\ ~IsEditorMutationBlocked
    /\ ~IsContextStillValid(plans[CurrentPlanId].request)
    /\ RefuseCurrentStale
    /\ Reply("stale_context", CurrentPlanId)
    /\ UNCHANGED editorVars

\* As ApproveExecute would be if the click did not check the context again.
ApproveUnchecked ==
    /\ HasPendingPlan
    /\ ~IsEditorMutationBlocked
    /\ ExecuteApprovedPlan(plans[CurrentPlanId].request)
    /\ \E ok \in BOOLEAN :
          ConsumeCurrent(RanRecord(plans[CurrentPlanId], ok, "click"))
    /\ Reply("none", CurrentPlanId)

ApproveExecute ==
    /\ HasPendingPlan
    /\ ~IsEditorMutationBlocked
    /\ IsContextStillValid(plans[CurrentPlanId].request)
    /\ ExecuteApprovedPlan(plans[CurrentPlanId].request)
    /\ \E ok \in BOOLEAN :
          ConsumeCurrent(RanRecord(plans[CurrentPlanId], ok, "click"))
    /\ Reply("none", CurrentPlanId)

ApproveCurrentPlan ==
    /\ ApproveNothing \/ ApproveBlocked \/ ApproveStale \/ ApproveExecute
    /\ UNCHANGED settingVars

ClearCurrentPlan ==
    /\ SupersedeCurrent
    /\ Reply("none", NoPlan)
    /\ UNCHANGED <<editorVars, settingVars>>

-----------------------------------------------------------------------------
(***************************************************************************)
(* The user and the editor, between two calls.                             *)
(***************************************************************************)
ChangeSelection ==
    /\ ~playing
    /\ selected' \in SUBSET live
    /\ UNCHANGED <<world, live, playing, approvalVars, settingVars>>

\* The user deletes actors, or brings some back with Undo.
EditLevel ==
    /\ ~playing /\ world # NoWorld
    /\ live' \in SUBSET Actors
    /\ selected' = selected \cap live'
    /\ UNCHANGED <<world, playing, approvalVars, settingVars>>

\* Another map, or the same map again: world identity is only its name.
OpenWorld ==
    /\ ~playing
    /\ world' \in Worlds \cup {NoWorld}
    /\ live' \in IF world' = NoWorld THEN {{}} ELSE SUBSET Actors
    /\ selected' = {}
    /\ UNCHANGED <<playing, approvalVars, settingVars>>

TogglePlay ==
    /\ world # NoWorld
    /\ playing' = ~playing
    /\ UNCHANGED <<world, live, selected, approvalVars, settingVars>>

ToggleSettings ==
    /\ bAllowExternalSessionApproval' \in BOOLEAN
    /\ bRequireInEditorConfirmForDestructive' \in BOOLEAN
    /\ UNCHANGED <<approvalVars, editorVars>>

Environment ==
    /\ ChangeSelection \/ EditLevel \/ OpenWorld \/ TogglePlay \/ ToggleSettings
    /\ reply' = NoReply

Init ==
    /\ ApprovalInit
    /\ world \in Worlds
    /\ live \in SUBSET Actors
    /\ selected = {}
    /\ playing = FALSE
    /\ bAllowExternalSessionApproval \in BOOLEAN
    /\ bRequireInEditorConfirmForDestructive \in BOOLEAN
    /\ reply = NoReply

Next ==
    \/ /\ Len(plans) < MaxPlans
       /\ \/ \E r \in Requests : \/ SubmitPlanRequest(r, "Bridge")
                                 \/ PreviewPlanRequest(r)
                                 \/ SubmitExternalPlan(r)
          \/ GeneratePanelFolderPlan
    \/ ApproveCurrentPlan
    \/ ClearCurrentPlan
    \/ Environment

Spec == Init /\ [][Next]_vars

-----------------------------------------------------------------------------
(***************************************************************************)
(* Properties.                                                             *)
(***************************************************************************)
Terminal == Statuses \ {"PendingApproval"}

\* Every variable holds a value of its type; the slot names a created record.
TypeOK ==
    /\ plans \in Seq(PlanRecord)
    /\ Records \in Seq(Nat)
    /\ CurrentPlanId \in 0 .. Len(plans)
    /\ bLastPlanConsumed \in BOOLEAN
    /\ world \in Worlds \cup {NoWorld}
    /\ live \subseteq Actors
    /\ selected \subseteq live
    /\ playing \in BOOLEAN
    /\ bAllowExternalSessionApproval \in BOOLEAN
    /\ bRequireInEditorConfirmForDestructive \in BOOLEAN
    /\ reply \in [code : RefusalCodes, plan : 0 .. Len(plans)]

\* Of the records a client can still find, the one in the slot is pending and
\* no other is: no sequence of submissions, clicks and refusals leaves a plan
\* that says it awaits approval and that no click can reach.
OnePendingPlan ==
    \A id \in PlanIds :
        FindRecord(id) =>
            (plans[id].status = "PendingApproval" <=> id = CurrentPlanId)

\* Records is exactly the newest ids, at most MaxRecords of them: a record is
\* dropped only by MaxRecords younger ones, whatever its status.
RecordsAreTheNewest ==
    /\ Len(Records) = IF Len(plans) < MaxRecords THEN Len(plans) ELSE MaxRecords
    /\ \A k \in DOMAIN Records : Records[k] = (Len(plans) - Len(Records)) + k

\* A plan runs at most once, and its status tells the client whether it ran:
\* Executed and unrefused Failed records ran, all others did not.
StatusTellsWhetherItRan ==
    \A id \in PlanIds :
        LET record == plans[id] IN
        /\ record.runs \in {0, 1}
        /\ record.runs = 1 <=> \/ record.status = "Executed"
                               \/ record.status = "Failed" /\ record.refusal = "none"

\* A mutation that ran passed a human gate of the right kind: low-risk plans a
\* click in the panel or the session's prompt, destructive ones never the
\* click alone.
MutationsPassTheirGate ==
    \A id \in PlanIds :
        LET record == plans[id] IN
        record.runs > 0 /\ PlanHasMutations(record.request) =>
            /\ record.gate \in {"click", "session"}
            /\ record.gate = "session" => record.external
            /\ PlanHasDestructive(record.request) => record.external

\* A plan that never ran passed no gate; it awaits a click only unrefused, and a
\* destructive one only as the second half of a session's approval: with the
\* invariants above, this is inductive.
PendingAwaitsItsGate ==
    \A id \in PlanIds :
        LET record == plans[id] IN
        /\ record.runs = 0 => record.gate = "none"
        /\ record.status = "PendingApproval" =>
              /\ record.refusal = "none"
              /\ PlanHasDestructive(record.request) => record.external

IInv ==
    /\ TypeOK
    /\ RecordsAreTheNewest
    /\ OnePendingPlan
    /\ StatusTellsWhetherItRan
    /\ MutationsPassTheirGate
    /\ PendingAwaitsItsGate

\* The flag that decides between "already executed" and "nothing to approve"
\* speaks of the last plan that held the slot: while it is set, a click ran a
\* plan and none took the slot after it; once it is clear, a plan did.
ConsumedFlagIsTruthful ==
    LET clicked == {id \in PlanIds : plans[id].gate = "click"}
    IN  /\ bLastPlanConsumed =>
              \E id \in clicked : \A later \in PlanIds :
                  later > id => /\ plans[later].status \notin {"PendingApproval", "Superseded"}
                                /\ plans[later].gate # "click"
        /\ ~bLastPlanConsumed =>
              \A id \in clicked : \E later \in PlanIds :
                  later > id /\ plans[later].status \in
                      {"PendingApproval", "Superseded", "RefusedStale"}

\* Decided is final: once a record has left PendingApproval no step changes
\* its status, refusal or number of runs, so a poll never reads two outcomes.
DecidedIsFinal ==
    [][\A id \in PlanIds : plans[id].status \in Terminal => plans'[id] = plans[id]]_vars

\* Whatever changes between preview and approval, a mutation runs only in the
\* world and with the selection it was built against, and never in play mode.
MutationsRunFresh ==
    [][\A id \in DOMAIN plans' :
          LET before == IF id \in PlanIds THEN plans[id].runs ELSE 0 IN
          plans'[id].runs > before /\ PlanHasMutations(plans'[id].request) =>
              /\ IsContextStillValid(plans'[id].request)
              /\ ~IsEditorMutationBlocked]_vars

\* Only the person at the editor ends a plan that awaits a decision: no bridge
\* call takes the slot from it, overwrites it or changes its record.
BridgeNeverDisplaces ==
    [][HasPendingPlan /\ Len(plans') > Len(plans) /\ plans'[Len(plans')].source = "Bridge"
        => CurrentPlanId' = CurrentPlanId /\ plans'[CurrentPlanId] = plans[CurrentPlanId]]_vars

\* While the belt-and-suspenders setting is on, a destructive plan runs only by
\* a click in the editor, whenever it was submitted.
ConfirmedDestruction ==
    [][\A id \in DOMAIN plans' :
          LET before == IF id \in PlanIds THEN plans[id].runs ELSE 0 IN
          /\ plans'[id].runs > before
          /\ PlanHasDestructive(plans'[id].request)
          /\ bRequireInEditorConfirmForDestructive
          => plans'[id].gate = "click"]_vars

\* What has become of a plan, as ApprovalGate tells it.
Decided(record) ==
    CASE record.runs = 0 -> "closed"
      [] record.runs > 0 /\ record.gate = "observation" -> "observed"
      [] OTHER -> record.gate

Fate(id) ==
    IF plans[id].status = "PendingApproval"
    THEN IF FindRecord(id) THEN "waiting" ELSE "lost"
    ELSE Decided(plans[id])

Gate == INSTANCE ApprovalGate WITH
    risk <- [id \in PlanIds |-> Risk(plans[id].request.tool)],
    fate <- [id \in PlanIds |-> Fate(id)]

\* The slot, the record list and the refusals give every plan the fate the gate
\* allows: no interleaving runs a plan that was closed or lost, lets a second
\* one wait, or decides for the human.
ServiceKeepsTheGate == Gate!GateSpec

\* What the record's comment promises ("Records are kept (FIFO-capped) so
\* external clients can poll terminal states after the human decides"): a plan
\* the human has not decided is still there to be decided and polled.
PendingIsKept ==
    \A id \in PlanIds : plans[id].status = "PendingApproval" => FindRecord(id)

=============================================================================
