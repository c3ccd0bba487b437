--------------------------- MODULE ApprovalState ---------------------------
(***************************************************************************)
(* FUE5MCPApprovalState: the plan records, the one slot that may await a   *)
(* human decision, and the flag that remembers whether the last plan in    *)
(* the slot was executed.                                                  *)
(*                                                                         *)
(* Records are heap objects the code shares by TSharedPtr.  `plans' holds  *)
(* every record object ever created, in creation order; a plan id (a fresh *)
(* GUID in the code) is the position of its record there.  `Records' is    *)
(* the code's array: the ids still kept, oldest first.  The methods that   *)
(* the service calls one after the other inside a single handler are       *)
(* written as functions of the record objects they start from, so that a   *)
(* handler can chain them within one step.                                 *)
(***************************************************************************)
EXTENDS Naturals, Sequences

CONSTANT MaxRecords     \* FIFO capacity of Records (16 in the code)

ASSUME MaxRecordsAssumption == MaxRecords \in Nat \ {0}

VARIABLES
    plans,              \* every record object created, indexed by plan id
    Records,            \* ids of the records kept, oldest first
    CurrentPlanId,      \* the id in the slot, or NoPlan
    bLastPlanConsumed   \* TRUE once the last plan in the slot was executed

approvalVars == <<plans, Records, CurrentPlanId, bLastPlanConsumed>>

NoPlan == 0
PlanIds == DOMAIN plans

(***************************************************************************)
(* EUE5MCPPlanStatus and EUE5MCPPlanSource.                                *)
(***************************************************************************)
Statuses == {"PendingApproval", "Invalid", "Executed", "Failed",
             "RefusedStale", "Superseded", "PreviewedOnly"}
Sources == {"Panel", "Bridge"}

(***************************************************************************)
(* A record (FUE5MCPPlanRecord) with another status and refusal code.      *)
(* `runs' and `gate', how often and by which gate the plan was executed,   *)
(* are history: the code has neither.                                      *)
(***************************************************************************)
WithStatus(record, status, refusal) ==
    [source |-> record.source, external |-> record.external, status |-> status,
     refusal |-> refusal, request |-> record.request,
     runs |-> record.runs, gate |-> record.gate]

(***************************************************************************)
(* FindRecord and GetCurrentRecord look the id up among the records kept.  *)
(***************************************************************************)
FindRecord(id) == \E k \in DOMAIN Records : Records[k] = id

\* As GetCurrentRecord would be if it kept the record itself and not its id.
GetCurrentUnlisted == CurrentPlanId # NoPlan

GetCurrentRecord == CurrentPlanId # NoPlan /\ FindRecord(CurrentPlanId)

HasPendingPlan ==
    GetCurrentRecord /\ plans[CurrentPlanId].status = "PendingApproval"

ApprovalInit ==
    /\ plans = <<>>
    /\ Records = <<>>
    /\ CurrentPlanId = NoPlan
    /\ bLastPlanConsumed = FALSE

\* As Kept would be if it trimmed when the array is full, not when it exceeds.
KeptTrimmedEarly(id) ==
    LET grown == Append(Records, id)
    IN  IF Len(grown) >= MaxRecords THEN Tail(grown) ELSE grown

(***************************************************************************)
(* Records.Add, then RemoveAt(0) when the cap is exceeded.                 *)
(***************************************************************************)
Kept(id) ==
    LET grown == Append(Records, id)
    IN  IF Len(grown) > MaxRecords THEN Tail(grown) ELSE grown

\* As CreateRecord would be if a new pending plan did not reset the flag.
CreateRecordKeepingFlag(base, record) ==
    LET id == Len(base) + 1
    IN  /\ plans' = Append(base, record)
        /\ Records' = Kept(id)
        /\ CurrentPlanId' = IF record.status = "PendingApproval" THEN id ELSE CurrentPlanId
        /\ UNCHANGED bLastPlanConsumed

(***************************************************************************)
(* CreateRecord, started from the record objects `base'.  Only a plan that *)
(* is born pending takes the slot, and it takes it whatever was there.     *)
(***************************************************************************)
CreateRecord(base, record) ==
    LET id == Len(base) + 1
    IN  /\ plans' = Append(base, record)
        /\ Records' = Kept(id)
        /\ IF record.status = "PendingApproval"
           THEN CurrentPlanId' = id /\ bLastPlanConsumed' = FALSE
           ELSE UNCHANGED <<CurrentPlanId, bLastPlanConsumed>>

\* As SupersedeCurrent would be if it only gave up the slot, or if it marked
\* the newest record instead of the one in the slot.
SupersededUnmarked == plans

SupersededNewest ==
    IF Records # <<>>
    THEN [plans EXCEPT ![Records[Len(Records)]] = WithStatus(@, "Superseded", "superseded")]
    ELSE plans

(***************************************************************************)
(* The record objects after SupersedeCurrent has marked the slot's plan.   *)
(***************************************************************************)
SupersededPlans ==
    IF HasPendingPlan
    THEN [plans EXCEPT ![CurrentPlanId] = WithStatus(@, "Superseded", "superseded")]
    ELSE plans

SupersedeCurrent ==
    /\ plans' = SupersededPlans
    /\ CurrentPlanId' = NoPlan
    /\ UNCHANGED <<Records, bLastPlanConsumed>>

(***************************************************************************)
(* ConsumeCurrent after the caller stored the execution result in the      *)
(* record: `ran' is the record object the caller leaves.                   *)
(***************************************************************************)
ConsumeCurrent(ran) ==
    /\ plans' = [plans EXCEPT ![CurrentPlanId] = ran]
    /\ CurrentPlanId' = NoPlan
    /\ bLastPlanConsumed' = TRUE
    /\ UNCHANGED Records

RefuseCurrentStale ==
    /\ plans' = [plans EXCEPT ![CurrentPlanId] =
                    WithStatus(@, "RefusedStale", "stale_context")]
    /\ CurrentPlanId' = NoPlan
    /\ UNCHANGED <<Records, bLastPlanConsumed>>

=============================================================================
