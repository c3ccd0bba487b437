---------------------------- MODULE BridgeServer ----------------------------
(***************************************************************************)
(* FUE5MCPBridgeServer: the localhost HTTP bridge in front of the editor   *)
(* service.                                                                *)
(*                                                                         *)
(* A caller posts a plan in one of three modes, polls a plan by its id, or *)
(* reads the context.  The engine's HTTP module runs each handler on the   *)
(* game thread some time after the request was sent, in any order among    *)
(* the callers, and the answer is a snapshot: by the time the caller reads *)
(* it the editor may have moved on.  A caller that gives up leaves its     *)
(* request behind, and the bridge still handles it.                        *)
(***************************************************************************)
EXTENDS EditorService

CONSTANTS
    Callers,        \* each has at most one request in flight
    NoRequest,      \* a body that is not a plan request
    Nothing         \* no message

ASSUME BridgeAssumption == NoRequest \notin PlanRequest

VARIABLES
    bRunning,       \* the routes are bound
    asked,          \* the request each caller has in flight
    answered        \* the answer the bridge has sent it

bridgeVars == <<bRunning, asked, answered>>
allVars == <<vars, bridgeVars>>

Modes == {"submit", "preview", "execute_external"}

\* The requests a caller can send.
GetContext == [path |-> "context", mode |-> "none", request |-> NoRequest, plan |-> NoPlan]

PostPlan(mode, r) == [path |-> "plan", mode |-> mode, request |-> r, plan |-> NoPlan]

GetPlan(id) == [path |-> "poll", mode |-> "none", request |-> NoRequest, plan |-> id]

\* An answer: the HTTP code, the error or refusal code, the record serialized
\* in the body (its id, status and whether it ran) and the context.
NoContext == [scene |-> NoWorld, seen |-> {}]

Error(code, error) ==
    [code |-> code, error |-> error, plan |-> NoPlan, status |-> "none", ran |-> FALSE,
     context |-> NoContext]

Serialized(code, id, record) ==
    [code |-> code, error |-> record.refusal, plan |-> id, status |-> record.status,
     ran |-> record.runs > 0, context |-> NoContext]

\* A request that never reached a handler, or whose answer never came back.
Broken == Error(0, "none")

(***************************************************************************)
(* HandlePostPlan's status codes.  Each is a function of what the service  *)
(* returned: no record and a refusal code, or a record.                    *)
(***************************************************************************)
SubmitAnswer(id, refusal, heap) ==
    CASE id = NoPlan -> Error(409, refusal)
      [] id # NoPlan /\ heap[id].status = "Invalid" -> Serialized(400, id, heap[id])
      [] OTHER -> Serialized(200, id, heap[id])

PreviewAnswer(id, heap) ==
    Serialized(IF heap[id].status = "Invalid" THEN 400 ELSE 200, id, heap[id])

\* As ExternalCode would be if every failure were reported as a refusal.
ExternalCodeOfStatus(record) ==
    CASE record.status = "Invalid" -> 400
      [] record.status = "PendingApproval" -> 202
      [] record.status \in {"RefusedStale", "Failed"} -> 409
      [] OTHER -> 200

\* A failure with action results ran; one without was refused up front.
ExternalCode(record) ==
    CASE record.status = "Invalid" -> 400
      [] record.status = "PendingApproval" -> 202
      [] record.status = "RefusedStale" -> 409
      [] record.status = "Failed" -> IF record.runs = 0 THEN 409 ELSE 200
      [] OTHER -> 200

ExternalAnswer(id, refusal, heap) ==
    CASE id # NoPlan -> Serialized(ExternalCode(heap[id]), id, heap[id])
      [] id = NoPlan /\ refusal = "external_approval_disabled" -> Error(403, refusal)
      [] OTHER -> Error(409, refusal)

AnswerWith(c, answer) == answered' = [answered EXCEPT ![c] = answer]

\* The mode and the body are checked before the service is called.
RejectPost(c) ==
    /\ \/ asked[c].mode \notin Modes /\ AnswerWith(c, Error(400, "unknown_mode"))
       \/ /\ asked[c].mode \in Modes
          /\ asked[c].request = NoRequest
          /\ AnswerWith(c, Error(400, "invalid_plan"))
    /\ reply' = NoReply
    /\ UNCHANGED <<approvalVars, editorVars, settingVars>>

ServePost(c) ==
    LET r == asked[c].request
        mode == asked[c].mode
    IN  /\ mode \in Modes /\ r # NoRequest
        /\ Len(plans) < MaxPlans
        /\ \/ /\ mode = "submit"
              /\ SubmitPlanRequest(r, "Bridge")
              /\ AnswerWith(c, SubmitAnswer(reply'.plan, reply'.code, plans'))
           \/ /\ mode = "preview"
              /\ PreviewPlanRequest(r)
              /\ AnswerWith(c, PreviewAnswer(reply'.plan, plans'))
           \/ /\ mode = "execute_external"
              /\ SubmitExternalPlan(r)
              /\ AnswerWith(c, ExternalAnswer(reply'.plan, reply'.code, plans'))

HandlePostPlan(c) ==
    /\ asked[c].path = "plan"
    /\ RejectPost(c) \/ ServePost(c)

\* As HandleGetPlan would be if it answered with the newest record.
HandleGetNewestPlan(c) ==
    /\ asked[c].path = "poll"
    /\ AnswerWith(c, IF Len(plans) > 0
                     THEN Serialized(200, Len(plans), plans[Len(plans)])
                     ELSE Error(404, "plan_not_found"))
    /\ reply' = NoReply
    /\ UNCHANGED <<approvalVars, editorVars, settingVars>>

HandleGetPlan(c) ==
    /\ asked[c].path = "poll"
    /\ AnswerWith(c, IF FindRecord(asked[c].plan)
                     THEN Serialized(200, asked[c].plan, plans[asked[c].plan])
                     ELSE Error(404, "plan_not_found"))
    /\ reply' = NoReply
    /\ UNCHANGED <<approvalVars, editorVars, settingVars>>

HandleGetContext(c) ==
    /\ asked[c].path = "context"
    /\ AnswerWith(c, [Error(200, "none") EXCEPT
                        !.context = [scene |-> world, seen |-> ContextSelected]])
    /\ reply' = NoReply
    /\ UNCHANGED <<approvalVars, editorVars, settingVars>>

\* A bound route's handler, on the game thread.
Handle(c) ==
    /\ bRunning
    /\ asked[c] # Nothing
    /\ HandlePostPlan(c) \/ HandleGetPlan(c) \/ HandleGetContext(c)
    /\ asked' = [asked EXCEPT ![c] = Nothing]
    /\ UNCHANGED bRunning

\* With the routes unbound the engine's listener answers 404 by itself; if it
\* never listened, or the connection drops, the caller gets no answer.
HandleUnbound(c) ==
    /\ asked[c] # Nothing
    /\ ~bRunning
    /\ asked' = [asked EXCEPT ![c] = Nothing]
    /\ \E answer \in {Error(404, "none"), Broken} : AnswerWith(c, answer)
    /\ reply' = NoReply
    /\ UNCHANGED <<approvalVars, editorVars, settingVars, bRunning>>

\* The connection breaks after the handler ran, before the answer arrived.
LoseAnswer(c) ==
    /\ answered[c] # Nothing
    /\ AnswerWith(c, Broken)
    /\ reply' = NoReply
    /\ UNCHANGED <<approvalVars, editorVars, settingVars, bRunning, asked>>

\* Start binds the routes, or refuses a non-loopback address or a taken port.
Start ==
    /\ bRunning' \in (IF bRunning THEN {TRUE} ELSE BOOLEAN)
    /\ reply' = NoReply
    /\ UNCHANGED <<approvalVars, editorVars, settingVars, asked, answered>>

\* As Stop would be if it also gave up the plan that awaits a click.
StopForgetting ==
    /\ bRunning' = FALSE
    /\ CurrentPlanId' = NoPlan
    /\ reply' = NoReply
    /\ UNCHANGED <<plans, Records, bLastPlanConsumed, editorVars, settingVars, asked, answered>>

Stop ==
    /\ bRunning' = FALSE
    /\ reply' = NoReply
    /\ UNCHANGED <<approvalVars, editorVars, settingVars, asked, answered>>

\* What the editor does by itself leaves the bridge alone.
EditorStep ==
    /\ \/ GeneratePanelFolderPlan /\ Len(plans) < MaxPlans
       \/ ApproveCurrentPlan
       \/ ClearCurrentPlan
       \/ Environment
    /\ UNCHANGED bridgeVars

(***************************************************************************)
(* Any HTTP client: it sends when it has nothing in flight, dropping the   *)
(* last answer, which it has read.                                         *)
(***************************************************************************)
Send(c, ask) ==
    /\ asked[c] = Nothing
    /\ asked' = [asked EXCEPT ![c] = ask]
    /\ AnswerWith(c, Nothing)
    /\ reply' = NoReply
    /\ UNCHANGED <<approvalVars, editorVars, settingVars, bRunning>>

Receive(c) ==
    /\ answered[c] # Nothing
    /\ AnswerWith(c, Nothing)
    /\ reply' = NoReply
    /\ UNCHANGED <<approvalVars, editorVars, settingVars, bRunning, asked>>

Messages ==
    {GetContext} \cup {GetPlan(id) : id \in 1 .. MaxPlans}
        \cup {PostPlan(mode, r) : mode \in Modes, r \in Requests}
        \cup {PostPlan("unknown", NoRequest), PostPlan("submit", NoRequest)}

BridgeInit ==
    /\ Init
    /\ bRunning \in BOOLEAN
    /\ asked = [c \in Callers |-> Nothing]
    /\ answered = [c \in Callers |-> Nothing]

BridgeNext ==
    \/ \E c \in Callers :
          \/ \E ask \in Messages : Send(c, ask)
          \/ Handle(c) \/ HandleUnbound(c) \/ LoseAnswer(c) \/ Receive(c)
    \/ Start \/ Stop
    \/ EditorStep

BridgeSpec == BridgeInit /\ [][BridgeNext]_allVars

-----------------------------------------------------------------------------
(***************************************************************************)
(* Properties.                                                             *)
(***************************************************************************)
\* A refusal over HTTP (400, 403, 404, 409) is a promise that the request did
\* nothing: no plan ran, and neither the slot nor the level changed.
RefusalChangesNothing ==
    [][\A c \in Callers :
          answered[c] # answered'[c] /\ answered'[c] # Nothing /\ answered'[c].code >= 400 =>
              /\ UNCHANGED <<CurrentPlanId, bLastPlanConsumed, live, selected>>
              /\ \A id \in DOMAIN plans' :
                    plans'[id].runs = IF id \in PlanIds THEN plans[id].runs ELSE 0]_allVars

\* An answer is read long after it was written; what it says of a decided plan,
\* its status and whether it ran, is still so.
FinalAnswersStayTrue ==
    \A c \in Callers :
        answered[c] # Nothing /\ answered[c].status \in Terminal =>
            /\ plans[answered[c].plan].status = answered[c].status
            /\ (plans[answered[c].plan].runs > 0) = answered[c].ran

\* The bridge, its callers and their lost or late messages do to the service
\* only what the service's own specification allows.
ServiceSpec == Spec

=============================================================================
