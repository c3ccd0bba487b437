-------------------------- MODULE MCPServerProofs --------------------------
(***************************************************************************)
(* Theorems about MCPServer, for every value of its constants.             *)
(*                                                                         *)
(* The Node process is one more client of the bridge, so the bridge's and  *)
(* the service's theorems hold under it.  What a call tells its agent is   *)
(* true by CallInv, which says of every place a call can be in which of    *)
(* its requests made a plan, who accepted it, and what the last answer was.*)
(***************************************************************************)
EXTENDS MCPServer, BridgeServerProofs, ApprovalGateProofs, FiniteSetTheorems

\* Every function of the calls is defined for every caller.
Domains ==
    /\ DOMAIN pc = Callers /\ DOMAIN call = Callers /\ DOMAIN fingerprint = Callers
    /\ DOMAIN polled = Callers /\ DOMAIN says = Callers /\ DOMAIN reported = Callers
    /\ DOMAIN shown = Callers /\ DOMAIN accepted = Callers /\ DOMAIN made = Callers
    /\ DOMAIN answered = Callers

\* What a call sends is a message of the bridge's clients.
SendsMessages(c) ==
    /\ pc[c] # "idle" => call[c] \in ToolCalls
    /\ answered[c] # Nothing => answered[c].context \in Contexts
                             /\ answered[c].plan \in 0 .. MaxPlans
                             /\ (answered[c].code = 202 => answered[c].plan # NoPlan)
    /\ pc[c] \in {"pause", "poll"} => polled[c] \in 1 .. MaxPlans

MCPType ==
    /\ BridgeInv /\ RecordsAreTheNewest
    /\ Len(plans) <= MaxPlans
    /\ Domains
    /\ \A c \in Callers : SendsMessages(c)

-----------------------------------------------------------------------------
\* No step of the service creates more records than the bound allows.
LEMMA BoundStep ==
    ASSUME TypeOK, Len(plans) <= MaxPlans, [Next]_vars
    PROVE  Len(plans') <= MaxPlans
  <1>1. Len(plans) \in Nat /\ MaxPlans \in Nat
    BY ServiceAssumption DEF TypeOK
  <1>2. CASE Len(plans) < MaxPlans
    <2>1. Len(plans') <= Len(plans) + 1
      <3>1. Len(SupersededPlans) = Len(plans)
        BY SupersededPlansType
      <3>2. Shape
        BY StepShape
      <3>3. plans \in Seq(PlanRecord) /\ SupersededPlans \in Seq(PlanRecord)
        BY SupersededPlansType DEF TypeOK
      <3>4. CASE Creates
        BY <3>3, <3>4 DEF Creates, CreateRecord
      <3>5. CASE Replaces
        BY <3>1, <3>3, <3>5 DEF Replaces, CreateRecord
      <3>6. CASE SupersedeCurrent
        BY <1>1, <3>1, <3>6 DEF SupersedeCurrent
      <3>7. CASE RefusesStale \/ RunsOnClick \/ UNCHANGED approvalVars
        BY <1>1, <3>3, <3>7 DEF RefusesStale, RefuseCurrentStale, RunsOnClick,
              ConsumeCurrent, approvalVars
      <3> QED
        BY <3>2, <3>4, <3>5, <3>6, <3>7 DEF Shape
    <2> QED
      BY <1>1, <1>2, <2>1
  <1>3. CASE ~(Len(plans) < MaxPlans)
    <2>1. ApproveCurrentPlan \/ ClearCurrentPlan \/ Environment \/ UNCHANGED vars
      BY <1>3 DEF Next
    <2>2. Len(plans') = Len(plans)
      <3>1. Len(SupersededPlans) = Len(plans) /\ plans \in Seq(PlanRecord)
        BY SupersededPlansType DEF TypeOK
      <3>2. CASE ApproveCurrentPlan
        BY <3>1, <3>2 DEF ApproveCurrentPlan, ApproveNothing, ApproveBlocked, Refuse,
              ApproveStale, RefuseCurrentStale, ApproveExecute, ConsumeCurrent, approvalVars
      <3>3. CASE ClearCurrentPlan
        BY <3>1, <3>3 DEF ClearCurrentPlan, SupersedeCurrent
      <3>4. CASE Environment \/ UNCHANGED vars
        BY <3>4 DEF Environment, ChangeSelection, EditLevel, OpenWorld, TogglePlay,
              ToggleSettings, approvalVars, vars
      <3> QED
        BY <2>1, <3>2, <3>3, <3>4
    <2> QED
      BY <1>1, <2>2
  <1> QED
    BY <1>2, <1>3

\* The plan a call posts with a context it read is one of the requests.
LEMMA PostedIsRequest ==
    ASSUME NEW t \in ToolCalls, NEW context \in Contexts
    PROVE  [tool |-> t.tool, targets |-> t.targets, scene |-> context.scene,
            seen |-> context.seen, wellFormed |-> TRUE] \in Requests
  <1>1. context.scene \in Worlds \cup {NoWorld} /\ context.seen \in SUBSET Actors
    BY DEF Contexts
  <1> QED
    BY <1>1, MCPAssumption

LEMMA PostIsMessage ==
    ASSUME NEW mode \in Modes, NEW r \in Requests
    PROVE  PostPlan(mode, r) \in Messages
  BY DEF Messages

\* A call's own step, which changes nothing in the editor.
LEMMA QuietIsBridge ==
    ASSUME TypeOK, Quiet, UNCHANGED <<asked, answered>>
    PROVE  BridgeNext
  <1>1. /\ bAllowExternalSessionApproval' \in BOOLEAN
        /\ bRequireInEditorConfirmForDestructive' \in BOOLEAN
    BY DEF Quiet, TypeOK, settingVars
  <1>2. ToggleSettings /\ reply' = NoReply
    BY <1>1 DEF Quiet, ToggleSettings
  <1>3. EditorStep
    BY <1>2 DEF EditorStep, Environment, Quiet, bridgeVars
  <1> QED
    BY <1>3 DEF BridgeNext

LEMMA SendIsBridge ==
    ASSUME NEW c \in Callers, NEW ask \in Messages, Send(c, ask)
    PROVE  BridgeNext
  BY DEF BridgeNext

\* Every step of the process and of what is around it is one the bridge's
\* specification allows.
LEMMA MCPIsBridgeStep ==
    ASSUME MCPType, [MCPNext]_everything
    PROVE  [BridgeNext]_allVars
  <1> USE DEF MCPType
  <1>1. ASSUME NEW c \in Callers, StartReadOnly(c)
        PROVE  BridgeNext
    <2>1. PICK t \in ToolCalls :
              Send(c, PostPlan("submit", [tool |-> t.tool, targets |-> t.targets,
                    scene |-> NoWorld, seen |-> {}, wellFormed |-> TRUE]))
      BY <1>1 DEF StartReadOnly
    <2>2. NoContext \in Contexts /\ NoContext.scene = NoWorld /\ NoContext.seen = {}
      BY DEF NoContext, Contexts
    <2>3. [tool |-> t.tool, targets |-> t.targets,
           scene |-> NoWorld, seen |-> {}, wellFormed |-> TRUE] \in Requests
      BY <2>2, PostedIsRequest, Zenon
    <2> QED
      BY <2>1, <2>3, PostIsMessage, SendIsBridge DEF Modes
  <1>2. ASSUME NEW c \in Callers, StartMutation(c) \/ Accept(c)
        PROVE  BridgeNext
    <2>1. Send(c, GetContext) /\ GetContext \in Messages
      BY <1>2 DEF StartMutation, Accept, Messages
    <2> QED
      BY <2>1, SendIsBridge
  <1>3. ASSUME NEW c \in Callers, GotContext(c) \/ GotRefresh(c)
        PROVE  BridgeNext
    <2>1. pc[c] # "idle" /\ answered[c] # Nothing /\ fingerprint'[c] = answered[c].context
      BY <1>3 DEF GotContext, GotRefresh, Heard, Domains
    <2>2. PlanOf(c) \in Requests
      BY <2>1, PostedIsRequest DEF SendsMessages, PlanOf
    <2>3. Send(c, PostPlan("preview", PlanOf(c))) \/ Send(c, PostPlan("execute_external", PlanOf(c)))
      BY <1>3 DEF GotContext, GotRefresh
    <2>4. \A r \in Requests : /\ PostPlan("preview", r) \in Messages
                              /\ PostPlan("execute_external", r) \in Messages
      BY PostIsMessage DEF Modes
    <2> QED
      BY <2>2, <2>3, <2>4, SendIsBridge
  <1>4. ASSUME NEW c \in Callers, Poll(c)
        PROVE  BridgeNext
    <2>1. Send(c, GetPlan(polled[c])) /\ GetPlan(polled[c]) \in Messages
      BY <1>4 DEF Poll, Messages, SendsMessages
    <2> QED
      BY <2>1, SendIsBridge
  <1>5. ASSUME NEW c \in Callers, Receive(c)
        PROVE  BridgeNext
    BY <1>5 DEF BridgeNext
  <1>6. ASSUME NEW c \in Callers, Unreachable(c) \/ BodyTimeout(c) \/ ReadDone(c)
            \/ ContextFailed(c) \/ GotPreview(c) \/ ExecuteDone(c) \/ ExecutePending(c)
            \/ PollUndecided(c) \/ PollDecided(c)
        PROVE  Receive(c)
    BY <1>6 DEF Unreachable, BodyTimeout, ReadDone, ContextFailed, GotPreview, ExecuteDone,
                ExecutePending, PollUndecided, PollDecided
  <1>7. ASSUME NEW c \in Callers, Timeout(c) \/ Decline(c) \/ Deadline(c)
        PROVE  BridgeNext
    <2>1. Quiet /\ UNCHANGED <<asked, answered>>
      BY <1>7 DEF Timeout, Decline, Deadline
    <2> QED
      BY <2>1, QuietIsBridge DEF BridgeInv
  <1>8. ASSUME NEW c \in Callers, BridgeStep(c)
        PROVE  BridgeNext
    BY <1>8 DEF BridgeStep, BridgeNext
  <1>9. CASE Exit
    <2>1. Quiet /\ UNCHANGED <<asked, answered>>
      BY <1>9 DEF Exit
    <2> QED
      BY <2>1, QuietIsBridge DEF BridgeInv
  <1>10. CASE World \/ Panel
    BY <1>10 DEF World, Panel, EditorStep, BridgeNext
  <1>11. CASE UNCHANGED everything
    BY <1>11 DEF everything
  <1>12. ASSUME NEW c \in Callers, Continue(c)
         PROVE  BridgeNext
    BY <1>3, <1>4, <1>5, <1>6, <1>7, <1>12 DEF Continue
  <1> QED
    BY <1>1, <1>2, <1>8, <1>9, <1>10, <1>11, <1>12 DEF MCPNext

-----------------------------------------------------------------------------
\* What one call and its request in flight look like.
Same(d) ==
    /\ pc'[d] = pc[d] /\ call'[d] = call[d] /\ fingerprint'[d] = fingerprint[d]
    /\ polled'[d] = polled[d] /\ says'[d] = says[d] /\ reported'[d] = reported[d]
    /\ accepted'[d] = accepted[d] /\ made'[d] = made[d]
    /\ asked'[d] = asked[d] /\ answered'[d] = answered[d]

Only(c) == Domains' /\ \A d \in Callers \ {c} : Same(d)

\* What a call does, or the bridge does for it, touches no other call.
LEMMA OwnStep ==
    ASSUME Domains, InFlight, NEW c \in Callers,
           \/ StartReadOnly(c) \/ StartMutation(c) \/ Accept(c) \/ Continue(c)
           \/ BridgeStep(c)
    PROVE  Only(c)
  <1> USE DEF Only, Domains, Same, historyVars, Await, Stay, Finish, InFlight
  <1>1. CASE StartReadOnly(c)
    BY <1>1 DEF StartReadOnly, Send, AnswerWith
  <1>2. CASE StartMutation(c)
    BY <1>2 DEF StartMutation, Send, AnswerWith
  <1>3. CASE Accept(c)
    BY <1>3 DEF Accept, Send, AnswerWith
  <1>4. CASE Unreachable(c)
    BY <1>4 DEF Unreachable, Receive, AnswerWith
  <1>5. CASE Timeout(c)
    BY <1>5 DEF Timeout, Quiet
  <1>6. CASE BodyTimeout(c)
    BY <1>6 DEF BodyTimeout, Receive, AnswerWith
  <1>7. CASE ReadDone(c)
    BY <1>7 DEF ReadDone, Receive, AnswerWith
  <1>8. CASE ContextFailed(c)
    BY <1>8 DEF ContextFailed, Receive, AnswerWith
  <1>9. CASE GotContext(c)
    BY <1>9 DEF GotContext, Send, AnswerWith
  <1>10. CASE GotPreview(c)
    BY <1>10 DEF GotPreview, Receive, AnswerWith
  <1>11. CASE Decline(c)
    BY <1>11 DEF Decline, Quiet
  <1>12. CASE GotRefresh(c)
    BY <1>12 DEF GotRefresh, Send, AnswerWith
  <1>13. CASE ExecuteDone(c)
    BY <1>13 DEF ExecuteDone, Receive, AnswerWith
  <1>14. CASE ExecutePending(c)
    BY <1>14 DEF ExecutePending, Receive, AnswerWith
  <1>15. CASE Poll(c)
    BY <1>15 DEF Poll, Send, AnswerWith
  <1>16. CASE PollUndecided(c)
    BY <1>16 DEF PollUndecided, Receive, AnswerWith
  <1>17. CASE PollDecided(c)
    BY <1>17 DEF PollDecided, Receive, AnswerWith
  <1>18. CASE Deadline(c)
    BY <1>18 DEF Deadline, Quiet
  <1>19. CASE BridgeStep(c)
    <2>1. \E a : answered' = [answered EXCEPT ![c] = a]
      BY <1>19 DEF BridgeStep, Handle, HandlePostPlan, RejectPost, ServePost, HandleGetPlan,
            HandleGetContext, HandleUnbound, LoseAnswer, AnswerWith
    <2>2. asked' = asked \/ asked' = [asked EXCEPT ![c] = Nothing]
      BY <1>19 DEF BridgeStep, Handle, HandleUnbound, LoseAnswer
    <2> QED
      BY <1>19, <2>1, <2>2 DEF BridgeStep, callVars
  <1> QED
    BY <1>1, <1>2, <1>3, <1>4, <1>5, <1>6, <1>7, <1>8, <1>9, <1>10, <1>11, <1>12, <1>13,
       <1>14, <1>15, <1>16, <1>17, <1>18, <1>19 DEF Continue

\* A step of the editor alone touches no call.
LEMMA OutsideStep ==
    ASSUME Domains, World \/ Panel \/ UNCHANGED everything
    PROVE  Domains' /\ \A d \in Callers : Same(d)
  <1>1. UNCHANGED <<callVars, historyVars, asked, answered>>
    BY DEF World, Start, Stop, Panel, bridgeVars, mcpVars, everything, allVars
  <1> QED
    BY <1>1 DEF Domains, Same, callVars, historyVars

\* The answers of the bridge, while they wait to be read.
LEMMA AnswerTyped ==
    ASSUME TypeOK, TypeOK', RecordsAreTheNewest, Domains, NEW c \in Callers, BridgeStep(c)
    PROVE  answered'[c] # Nothing => AnswerAt(answered'[c], plans')
  <1>1. CASE Handle(c)
    BY <1>1, HandledAnswer DEF Domains
  <1>2. CASE HandleUnbound(c) \/ LoseAnswer(c)
    <2>1. PICK answer \in {Error(404, "none"), Error(0, "none")} : AnswerWith(c, answer)
      BY <1>2 DEF HandleUnbound, LoseAnswer, Broken
    <2>2. answered'[c] = answer
      BY <2>1 DEF AnswerWith, Domains
    <2>3. AnswerAt(Error(404, "none"), plans') /\ AnswerAt(Error(0, "none"), plans')
      BY ErrorSaysNothing
    <2> QED
      BY <2>1, <2>2, <2>3
  <1> QED
    BY <1>1, <1>2 DEF BridgeStep

LEMMA SendsStep ==
    ASSUME MCPType, TypeOK', Len(plans') <= MaxPlans, NEW c \in Callers,
           \/ StartReadOnly(c) \/ StartMutation(c) \/ Accept(c) \/ Continue(c)
           \/ BridgeStep(c)
    PROVE  SendsMessages(c)'
  <1> USE DEF SendsMessages, Await, Stay, Finish, Heard
  <1>1. SendsMessages(c) /\ Domains
    BY DEF MCPType
  <1>2. CASE StartReadOnly(c) \/ StartMutation(c) \/ Accept(c)
    <2>1. answered'[c] = Nothing /\ call'[c] \in ToolCalls /\ pc'[c] \notin {"pause", "poll"}
      BY <1>1, <1>2 DEF StartReadOnly, StartMutation, Accept, Send, AnswerWith, Domains
    <2> QED
      BY <2>1
  <1>3. CASE GotContext(c) \/ GotRefresh(c)
    <2>1. answered'[c] = Nothing /\ pc[c] # "idle" /\ call'[c] = call[c]
          /\ pc'[c] \notin {"pause", "poll"}
      BY <1>1, <1>3 DEF GotContext, GotRefresh, Send, AnswerWith, Domains
    <2> QED
      BY <1>1, <2>1
  <1>4. CASE Poll(c)
    <2>1. answered'[c] = Nothing /\ pc[c] = "pause" /\ call'[c] = call[c] /\ polled'[c] = polled[c]
      BY <1>1, <1>4 DEF Poll, Send, AnswerWith, Domains
    <2> QED
      BY <1>1, <2>1
  <1>5. CASE Unreachable(c) \/ BodyTimeout(c) \/ ReadDone(c) \/ ContextFailed(c)
             \/ GotPreview(c) \/ ExecuteDone(c) \/ PollDecided(c)
    <2>1. answered'[c] = Nothing /\ pc[c] # "idle" /\ call'[c] = call[c]
          /\ pc'[c] \in {"done", "confirm"}
      BY <1>1, <1>5 DEF Unreachable, BodyTimeout, ReadDone, ContextFailed, GotPreview,
            ExecuteDone, PollDecided, Receive, AnswerWith, Domains, Awaiting
    <2> QED
      BY <1>1, <2>1
  <1>6. CASE Timeout(c) \/ Decline(c) \/ Deadline(c)
    <2>1. answered'[c] = answered[c] /\ pc[c] # "idle" /\ call'[c] = call[c] /\ pc'[c] = "done"
      BY <1>1, <1>6 DEF Timeout, Decline, Deadline, Domains, Awaiting
    <2> QED
      BY <1>1, <2>1
  <1>7. CASE ExecutePending(c)
    <2>1. /\ answered'[c] = Nothing /\ pc[c] # "idle" /\ call'[c] = call[c]
          /\ polled'[c] = answered[c].plan /\ answered[c].code = 202 /\ answered[c] # Nothing
      BY <1>1, <1>7 DEF ExecutePending, Receive, AnswerWith, Domains
    <2> QED
      BY <1>1, <2>1, ServiceAssumption DEF NoPlan
  <1>8. CASE PollUndecided(c)
    <2>1. answered'[c] = Nothing /\ pc[c] = "poll" /\ call'[c] = call[c] /\ polled'[c] = polled[c]
      BY <1>1, <1>8 DEF PollUndecided, Receive, AnswerWith, Domains
    <2> QED
      BY <1>1, <2>1
  <1>9. CASE BridgeStep(c)
    <2>1. answered'[c] # Nothing => AnswerAt(answered'[c], plans')
      BY <1>1, <1>9, AnswerTyped DEF MCPType, BridgeInv
    <2>2. UNCHANGED <<pc, call, polled>>
      BY <1>9 DEF BridgeStep, callVars
    <2>3. ASSUME answered'[c] # Nothing
          PROVE  /\ answered'[c].context \in Contexts
                 /\ answered'[c].plan \in 0 .. MaxPlans
                 /\ answered'[c].code = 202 => answered'[c].plan # NoPlan
      <3>1. CASE answered'[c].plan = NoPlan
        BY <2>1, <2>3, <3>1, ServiceAssumption, SMT DEF AnswerAt, NoPlan, Serialized
      <3>2. CASE answered'[c].plan # NoPlan
        <4>1. answered'[c].plan \in DOMAIN plans' /\ answered'[c].context \in Contexts
          BY <2>1, <2>3, <3>2 DEF AnswerAt
        <4> QED
          BY <3>2, <4>1, ServiceAssumption DEF TypeOK
      <3> QED
        BY <3>1, <3>2
    <2> QED
      BY <1>1, <2>2, <2>3
  <1> QED
    BY <1>2, <1>3, <1>4, <1>5, <1>6, <1>7, <1>8, <1>9 DEF Continue

LEMMA MCPTypeStep ==
    ASSUME MCPType, RecordsAreTheNewest', [MCPNext]_everything
    PROVE  MCPType'
  <1>1. BridgeInv' /\ Len(plans') <= MaxPlans
    <2>1. [BridgeNext]_allVars
      BY MCPIsBridgeStep
    <2>2. [Next]_vars
      BY <2>1, BridgeTakesServiceSteps DEF MCPType
    <2> QED
      BY <2>1, <2>2, BoundStep, TypeStep, InFlightStep DEF MCPType, BridgeInv
  <1>2. ASSUME NEW c \in Callers, Only(c), SendsMessages(c)'
        PROVE  MCPType'
    <2>1. \A d \in Callers : SendsMessages(d)'
      BY <1>2 DEF Only, Same, SendsMessages, MCPType
    <2> QED
      BY <1>1, <1>2, <2>1 DEF MCPType, Only
  <1>3. ASSUME Domains', \A d \in Callers : Same(d)
        PROVE  MCPType'
    <2>1. \A d \in Callers : SendsMessages(d)'
      BY <1>3 DEF Same, SendsMessages, MCPType
    <2> QED
      BY <1>1, <1>3, <2>1 DEF MCPType
  <1>4. ASSUME NEW c \in Callers,
               \/ StartReadOnly(c) \/ StartMutation(c) \/ Accept(c) \/ Continue(c)
               \/ BridgeStep(c)
        PROVE  MCPType'
    <2>1. Only(c) /\ SendsMessages(c)'
      BY <1>1, <1>4, OwnStep, SendsStep DEF MCPType, BridgeInv
    <2> QED
      BY <1>2, <2>1
  <1>5. CASE World \/ Panel \/ UNCHANGED everything
    BY <1>3, <1>5, OutsideStep DEF MCPType
  <1>6. CASE Exit
    <2>1. Domains'
      BY <1>6 DEF Exit, Quiet, Domains, historyVars, MCPType
    <2>2. ASSUME NEW d \in Callers
          PROVE  SendsMessages(d)'
      <3>1. /\ pc'[d] = IF pc[d] = "idle" THEN "idle" ELSE "done"
            /\ call' = call /\ answered' = answered
        BY <1>6, <2>2 DEF Exit
      <3>2. SendsMessages(d)
        BY <2>2 DEF MCPType
      <3> QED
        BY <3>1, <3>2 DEF SendsMessages
    <2> QED
      BY <1>1, <2>1, <2>2 DEF MCPType
  <1> QED
    BY <1>4, <1>5, <1>6 DEF MCPNext

-----------------------------------------------------------------------------
(***************************************************************************)
(* What keeps a call honest: of the plans it made at most one can still    *)
(* matter, and only while the request that makes it is on its way, or the  *)
(* call knows it by its id.                                                *)
(***************************************************************************)
\* A plan that is decided and changed nothing stays so.
Inert(id) ==
    /\ plans[id].status \in Terminal
    /\ PlanHasMutations(plans[id].request) => plans[id].runs = 0

Live(c) == {id \in made[c] : ~Inert(id)}

Executing(c) == asked[c] # Nothing /\ asked[c].mode = "execute_external"

Has(c) == answered[c] \notin {Nothing, Broken}

\* Before the plan is posted for execution, and when the agent is told no.
Early == {"idle", "read", "context", "preview", "confirm", "refresh"}
Denials == {"declined", "declinedInEditor", "refused"}

MadeOK(c) ==
    /\ made[c] \subseteq PlanIds
    /\ \A x, y \in Live(c) : x = y
    /\ Elicitation /\ accepted[c] # TRUE => Live(c) = {}

AskedOK(c) ==
    asked[c] # Nothing =>
        /\ asked[c].mode = "execute_external" =>
              Live(c) = {} /\ (Elicitation => accepted[c] = TRUE)
        /\ asked[c].mode = "submit" => ~PlanHasMutations(asked[c].request)
        /\ asked[c].path = "poll" => asked[c].plan \in made[c]

AnsweredOK(c) ==
    answered[c] # Nothing =>
        /\ asked[c] = Nothing
        /\ answered[c].plan # NoPlan => answered[c].plan \in made[c]

PointOK(c) ==
    /\ pc[c] # "done" => says[c] = "none"
    /\ pc[c] \in Early \/ says[c] \in Denials => Live(c) = {} /\ ~Executing(c)
    /\ pc[c] = "refresh" => accepted[c] = TRUE
    /\ pc[c] = "execute" =>
          /\ asked[c] # Nothing => Executing(c)
          /\ Has(c) => IF answered[c].code \in {200, 202}
                       THEN Live(c) \subseteq {answered[c].plan} ELSE Live(c) = {}
    /\ pc[c] \in {"pause", "poll"} =>
          /\ polled[c] \in made[c] /\ Live(c) \subseteq {polled[c]}
          /\ asked[c] # Nothing => asked[c] = GetPlan(polled[c])
    /\ pc[c] = "poll" /\ Has(c) /\ answered[c].code = 200 => answered[c].plan = polled[c]

ReportOK(c) ==
    says[c] = "record" /\ reported[c].plan # NoPlan =>
        /\ reported[c].plan \in made[c]
        /\ reported[c].status \in Terminal =>
              plans[reported[c].plan].status = reported[c].status

CallOK(c) == MadeOK(c) /\ AskedOK(c) /\ AnsweredOK(c) /\ PointOK(c) /\ ReportOK(c)

CallInv == \A c \in Callers : CallOK(c)

(***************************************************************************)
(* What makes the call's answer a full account: its plans do what it was   *)
(* called for, and a plan that failed at a click, or at once under an      *)
(* answer that does not refuse it, failed while it ran.                    *)
(***************************************************************************)
Mutates(c) == Risk(call[c].tool) # "ReadOnly"

FailedRunning(id) == plans[id].status = "Failed" => plans[id].runs = 1

KindOK(c) ==
    /\ \A id \in made[c] : plans[id].request.tool = call[c].tool
    /\ asked[c] # Nothing /\ asked[c].path = "plan" => asked[c].request.tool = call[c].tool
    /\ pc[c] = "idle" => made[c] = {} /\ asked[c] = Nothing
    /\ pc[c] = "read" => ~Mutates(c)

OutcomeOK(c) ==
    /\ pc[c] = "execute" /\ Has(c) /\ answered[c].code \in {200, 202} =>
          /\ answered[c].plan \in made[c] /\ FailedRunning(answered[c].plan)
          /\ answered[c].code = 200 => answered[c].status \in Terminal
    /\ pc[c] \in {"pause", "poll"} => FailedRunning(polled[c])
    /\ pc[c] = "poll" /\ Has(c) /\ answered[c].code = 200 => answered[c].status \in Statuses

ToldOK(c) ==
    says[c] = "record" /\ Mutates(c) =>
        /\ ~Executing(c)
        /\ IF reported[c].status \in {"Executed", "Failed"} THEN Ran(c) # {} ELSE Live(c) = {}

PromiseOK(c) == KindOK(c) /\ OutcomeOK(c) /\ ToldOK(c)

\* No plan belongs to two calls.
PlansApart == \A c, d \in Callers : c # d => made[c] \cap made[d] = {}

PromiseInv == PlansApart /\ \A c \in Callers : PromiseOK(c)

\* What the steps of others leave of a call's plans.
LEMMA LiveShrinks ==
    ASSUME TypeOK, Shape, NEW c, made[c] \subseteq PlanIds, made'[c] = made[c]
    PROVE  /\ made'[c] \subseteq PlanIds'
           /\ Live(c)' \subseteq Live(c)
           /\ \A id \in made[c] : plans[id].status \in Terminal => plans'[id] = plans[id]
  <1>1. \A id \in made[c] : plans[id].status \in Terminal => plans'[id] = plans[id]
    BY DecidedStaysDecided
  <1>2. \A id \in made[c] : Inert(id) => Inert(id)'
    BY <1>1 DEF Inert
  <1>3. ApprovalTypeOK' /\ Len(plans') >= Len(plans)
    BY ApprovalTypeStep
  <1>4. PlanIds \subseteq PlanIds'
    BY <1>3 DEF PlanIds, TypeOK, ApprovalTypeOK
  <1> QED
    BY <1>1, <1>2, <1>4 DEF Live

LEMMA LiveUnchanged ==
    ASSUME UNCHANGED approvalVars, NEW c, made'[c] = made[c]
    PROVE  Live(c)' = Live(c) /\ PlanIds' = PlanIds /\ plans' = plans
  BY DEF approvalVars, Live, Inert, PlanIds

\* A call that takes no part in a step keeps all this.
LEMMA BystanderStep ==
    ASSUME TypeOK, Shape, NEW c, CallOK(c), Same(c)
    PROVE  CallOK(c)'
  <1>1. /\ made'[c] \subseteq PlanIds' /\ Live(c)' \subseteq Live(c)
        /\ \A id \in made[c] : plans[id].status \in Terminal => plans'[id] = plans[id]
    BY LiveShrinks DEF CallOK, MadeOK, Same
  <1>2. Executing(c)' = Executing(c) /\ Has(c)' = Has(c)
    BY DEF Same, Executing, Has
  <1>3. MadeOK(c)' /\ AskedOK(c)' /\ AnsweredOK(c)'
    BY <1>1 DEF Same, CallOK, MadeOK, AskedOK, AnsweredOK
  <1>4. PointOK(c)'
    BY <1>1, <1>2 DEF Same, CallOK, PointOK
  <1>5. ReportOK(c)'
    BY <1>1 DEF Same, CallOK, ReportOK
  <1> QED
    BY <1>3, <1>4, <1>5 DEF CallOK

-----------------------------------------------------------------------------
\* A request is sent: the last answer is gone, and nothing else changes.
LEMMA SendStep ==
    ASSUME MCPType, CallInv, NEW c \in Callers,
           StartReadOnly(c) \/ StartMutation(c) \/ Accept(c) \/ GotContext(c)
               \/ GotRefresh(c) \/ Poll(c)
    PROVE  CallOK(c)'
  <1>1. Domains /\ InFlight /\ CallOK(c)
    BY DEF MCPType, BridgeInv, CallInv
  <1>2. UNCHANGED approvalVars /\ answered'[c] = Nothing /\ made'[c] = made[c]
    BY <1>1 DEF StartReadOnly, StartMutation, Accept, GotContext, GotRefresh, Poll, Send,
                AnswerWith, historyVars, Domains
  <1>3. Live(c)' = Live(c) /\ PlanIds' = PlanIds /\ plans' = plans
    BY <1>2, LiveUnchanged
  <1>4. AnsweredOK(c)' /\ ~Has(c)'
    BY <1>2 DEF AnsweredOK, Has
  <1>5. says'[c] = says[c] /\ reported'[c] = reported[c] /\ ReportOK(c)'
    <2>1. says'[c] = says[c] /\ reported'[c] = reported[c]
      BY DEF StartReadOnly, StartMutation, Accept, GotContext, GotRefresh, Poll, Stay
    <2> QED
      BY <1>1, <1>2, <1>3, <2>1 DEF CallOK, ReportOK
  <1> USE DEF Await, Domains, Early, Denials
  <1>6. CASE StartReadOnly(c)
    <2>1. PICK t \in ToolCalls :
              /\ Risk(t.tool) = "ReadOnly"
              /\ Send(c, PostPlan("submit", [tool |-> t.tool, targets |-> t.targets,
                    scene |-> NoWorld, seen |-> {}, wellFormed |-> TRUE]))
      BY <1>6 DEF StartReadOnly
    <2>2. /\ asked'[c].mode = "submit" /\ asked'[c].path = "plan"
          /\ ~PlanHasMutations(asked'[c].request)
      BY <1>1, <2>1 DEF Send, PostPlan, PlanHasMutations, InFlight
    <2>3. pc[c] = "idle" /\ pc'[c] = "read" /\ accepted'[c] = accepted[c]
      BY <1>1, <1>6 DEF StartReadOnly, historyVars
    <2>4. MadeOK(c)' /\ AskedOK(c)'
      BY <1>1, <1>2, <1>3, <2>2, <2>3 DEF CallOK, MadeOK, AskedOK
    <2>5. PointOK(c)'
      BY <1>1, <1>3, <1>4, <1>5, <2>2, <2>3 DEF CallOK, PointOK, Executing
    <2> QED
      BY <1>4, <1>5, <2>4, <2>5 DEF CallOK
  <1>7. CASE StartMutation(c) \/ Accept(c)
    <2>1. asked'[c].mode = "none" /\ asked'[c].path = "context"
      BY <1>1, <1>7 DEF StartMutation, Accept, Send, GetContext, InFlight
    <2>2. \/ pc[c] = "idle" /\ pc'[c] = "context" /\ accepted'[c] = accepted[c]
          \/ pc[c] = "confirm" /\ pc'[c] = "refresh" /\ accepted'[c] = TRUE
      BY <1>1, <1>7 DEF StartMutation, Accept, historyVars
    <2>3. MadeOK(c)' /\ AskedOK(c)'
      BY <1>1, <1>2, <1>3, <2>1, <2>2 DEF CallOK, MadeOK, AskedOK
    <2>4. PointOK(c)'
      BY <1>1, <1>3, <1>4, <1>5, <2>1, <2>2 DEF CallOK, PointOK, Executing
    <2> QED
      BY <1>4, <1>5, <2>3, <2>4 DEF CallOK
  <1>8. CASE GotContext(c) \/ GotRefresh(c)
    <2>1. accepted'[c] = accepted[c] /\ pc[c] \in Early
      BY <1>1, <1>8 DEF GotContext, GotRefresh, Heard, historyVars
    <2>2. \/ /\ Elicitation /\ pc'[c] = "preview" /\ asked'[c].path = "plan"
             /\ asked'[c].mode = "preview"
          \/ /\ ~Elicitation \/ pc[c] = "refresh"
             /\ pc'[c] = "execute" /\ asked'[c].path = "plan"
             /\ asked'[c].mode = "execute_external"
      BY <1>1, <1>8 DEF GotContext, GotRefresh, Heard, Send, PostPlan, InFlight
    <2>3. MadeOK(c)' /\ AskedOK(c)'
      <3>1. Live(c) = {} /\ (pc[c] = "refresh" => accepted[c] = TRUE)
        BY <1>1, <2>1 DEF CallOK, PointOK
      <3>2. MadeOK(c)'
        BY <1>1, <1>2, <1>3, <2>1 DEF CallOK, MadeOK
      <3>3. AskedOK(c)'
        BY <1>3, <2>1, <2>2, <3>1 DEF AskedOK
      <3> QED
        BY <3>2, <3>3
    <2>4. PointOK(c)'
      <3>1. Live(c) = {} /\ says[c] = "none"
        BY <1>1, <2>1 DEF CallOK, PointOK
      <3>2. /\ Executing(c)' => pc'[c] = "execute"
            /\ pc'[c] = "execute" /\ asked'[c] # Nothing => Executing(c)'
        BY <2>2 DEF Executing
      <3> QED
        BY <1>2, <1>3, <1>4, <1>5, <2>2, <3>1, <3>2 DEF PointOK
    <2> QED
      BY <1>4, <1>5, <2>3, <2>4 DEF CallOK
  <1>9. CASE Poll(c)
    <2>1. /\ pc[c] = "pause" /\ pc'[c] = "poll" /\ asked'[c] = GetPlan(polled[c])
          /\ polled'[c] = polled[c] /\ accepted'[c] = accepted[c]
      BY <1>1, <1>9 DEF Poll, Send, historyVars, InFlight
    <2>2. polled[c] \in made[c] /\ asked'[c].mode = "none" /\ asked'[c].plan = polled[c]
      BY <1>1, <2>1 DEF CallOK, PointOK, GetPlan
    <2>3. MadeOK(c)' /\ AskedOK(c)'
      BY <1>1, <1>2, <1>3, <2>1, <2>2 DEF CallOK, MadeOK, AskedOK
    <2>4. PointOK(c)'
      BY <1>1, <1>2, <1>3, <1>4, <1>5, <2>1 DEF CallOK, PointOK, Executing, GetPlan
    <2> QED
      BY <1>4, <1>5, <2>3, <2>4 DEF CallOK
  <1> QED
    BY <1>6, <1>7, <1>8, <1>9

\* The call gives up, whatever is in flight: it claims nothing.
LEMMA GiveUpStep ==
    ASSUME MCPType, CallInv, NEW c \in Callers,
           \/ Timeout(c) \/ Decline(c) \/ Deadline(c) \/ Unreachable(c) \/ BodyTimeout(c)
           \/ ContextFailed(c)
    PROVE  CallOK(c)'
  <1>1. Domains /\ CallOK(c)
    BY DEF MCPType, CallInv
  <1>2. /\ UNCHANGED approvalVars /\ made'[c] = made[c] /\ accepted'[c] = accepted[c]
        /\ asked'[c] = asked[c] /\ (answered'[c] = answered[c] \/ answered'[c] = Nothing)
        /\ pc'[c] = "done"
    BY <1>1 DEF Timeout, Decline, Deadline, Unreachable, BodyTimeout, ContextFailed, Quiet,
                Receive, AnswerWith, historyVars, Domains, Finish, Await
  <1>3. \/ says'[c] \notin Denials \cup {"record"}
        \/ says'[c] = "declined" /\ pc[c] = "confirm"
    BY <1>1 DEF Timeout, Decline, Deadline, Unreachable, BodyTimeout, ContextFailed,
                Domains, Finish, Denials
  <1>4. Live(c)' = Live(c) /\ PlanIds' = PlanIds /\ plans' = plans
    BY <1>2, LiveUnchanged
  <1>5. MadeOK(c)' /\ AskedOK(c)' /\ AnsweredOK(c)'
    BY <1>1, <1>2, <1>4 DEF CallOK, MadeOK, AskedOK, AnsweredOK
  <1>6. PointOK(c)'
    BY <1>1, <1>2, <1>3, <1>4 DEF CallOK, PointOK, Executing, Early
  <1>7. ReportOK(c)'
    BY <1>3 DEF ReportOK
  <1> QED
    BY <1>5, <1>6, <1>7 DEF CallOK

\* An answer was read in time, and the call goes on.
LEMMA GoOnStep ==
    ASSUME MCPType, CallInv, NEW c \in Callers,
           GotPreview(c) \/ ExecutePending(c) \/ PollUndecided(c)
    PROVE  CallOK(c)'
  <1>1. Domains /\ CallOK(c) /\ SendsMessages(c)
    BY DEF MCPType, CallInv
  <1>2. /\ UNCHANGED approvalVars /\ made'[c] = made[c] /\ accepted'[c] = accepted[c]
        /\ asked'[c] = asked[c] /\ answered'[c] = Nothing /\ answered[c] # Nothing /\ Has(c)
        /\ says'[c] = says[c] /\ reported'[c] = reported[c]
    BY <1>1 DEF GotPreview, ExecutePending, PollUndecided, Receive, AnswerWith, historyVars,
                Domains, Stay, Heard, Has
  <1>3. \/ pc[c] = "preview" /\ pc'[c] = "confirm"
        \/ /\ pc[c] = "execute" /\ pc'[c] = "pause"
           /\ answered[c].code = 202 /\ polled'[c] = answered[c].plan
        \/ /\ pc[c] = "poll" /\ pc'[c] = "pause" /\ polled'[c] = polled[c]
    BY <1>1 DEF GotPreview, ExecutePending, PollUndecided, Domains, Await, Heard
  <1>4. Live(c)' = Live(c) /\ PlanIds' = PlanIds /\ plans' = plans
    BY <1>2, LiveUnchanged
  <1>5. asked[c] = Nothing
    BY <1>1, <1>2 DEF CallOK, AnsweredOK
  <1>6. MadeOK(c)' /\ AskedOK(c)' /\ AnsweredOK(c)' /\ ReportOK(c)'
    BY <1>1, <1>2, <1>4, <1>5 DEF CallOK, MadeOK, AskedOK, AnsweredOK, ReportOK
  <1>7. ~Has(c)' /\ ~Executing(c)' /\ asked'[c] = Nothing
    BY <1>2, <1>5 DEF Has, Executing
  <1>8. PointOK(c)'
    <2>1. pc[c] # "done" /\ says'[c] = "none"
      BY <1>1, <1>2, <1>3 DEF CallOK, PointOK
    <2>2. pc[c] = "preview" => Live(c) = {}
      BY <1>1 DEF CallOK, PointOK, Early
    <2>3. pc[c] = "execute" => polled'[c] \in made[c] /\ Live(c) \subseteq {polled'[c]}
      BY <1>1, <1>2, <1>3 DEF CallOK, PointOK, AnsweredOK, SendsMessages
    <2>4. pc[c] = "poll" => polled'[c] \in made[c] /\ Live(c) \subseteq {polled'[c]}
      BY <1>1, <1>3 DEF CallOK, PointOK
    <2> QED
      BY <1>2, <1>3, <1>4, <1>7, <2>1, <2>2, <2>3, <2>4 DEF PointOK, Denials, Early
  <1> QED
    BY <1>6, <1>8 DEF CallOK

\* The call ends with what the record says: at that moment the record is one of
\* its own, and if it says the plan is decided, it is.
LEMMA ConcludeStep ==
    ASSUME MCPType, CallInv, FinalAnswersStayTrue, StatusTellsWhetherItRan,
           NEW c \in Callers, ReadDone(c) \/ ExecuteDone(c) \/ PollDecided(c)
    PROVE  CallOK(c)'
  <1>1. Domains /\ CallOK(c) /\ SendsMessages(c)
    BY DEF MCPType, CallInv
  <1>2. /\ UNCHANGED approvalVars /\ made'[c] = made[c] /\ accepted'[c] = accepted[c]
        /\ asked'[c] = asked[c] /\ answered'[c] = Nothing /\ answered[c] # Nothing /\ Has(c)
        /\ reported'[c] = [plan |-> answered[c].plan, status |-> answered[c].status]
        /\ pc'[c] = "done"
    BY <1>1 DEF ReadDone, ExecuteDone, PollDecided, Receive, AnswerWith, historyVars,
                Domains, Finish, Await, Heard, Has
  <1>3. \/ says'[c] = "record"
        \/ /\ pc[c] = "execute" /\ says'[c] = "refused"
           /\ answered[c].code \notin {200, 202}
        \/ /\ pc[c] = "poll" /\ says'[c] = "declinedInEditor"
           /\ answered[c].code = 200 /\ answered[c].status = "Superseded"
    BY <1>1 DEF ReadDone, ExecuteDone, PollDecided, Domains, Finish, Heard
  <1>4. Live(c)' = Live(c) /\ PlanIds' = PlanIds /\ plans' = plans
    BY <1>2, LiveUnchanged
  <1>5. asked[c] = Nothing /\ (answered[c].plan # NoPlan => answered[c].plan \in made[c])
    BY <1>1, <1>2 DEF CallOK, AnsweredOK
  <1>6. MadeOK(c)' /\ AskedOK(c)' /\ AnsweredOK(c)'
    BY <1>1, <1>2, <1>4, <1>5 DEF CallOK, MadeOK, AskedOK, AnsweredOK
  <1>7. ~Has(c)' /\ ~Executing(c)' /\ asked'[c] = Nothing
    BY <1>2, <1>5 DEF Has, Executing
  <1>8. says'[c] \in Denials => Live(c) = {}
    <2>1. CASE says'[c] = "refused"
      BY <1>1, <1>2, <1>3, <2>1 DEF CallOK, PointOK
    <2>2. CASE says'[c] = "declinedInEditor"
      <3>1. /\ pc[c] = "poll" /\ answered[c].code = 200 /\ answered[c].status = "Superseded"
        BY <1>3, <2>2
      <3>2. answered[c].plan = polled[c] /\ polled[c] \in made[c] /\ Live(c) \subseteq {polled[c]}
        BY <1>1, <1>2, <3>1 DEF CallOK, PointOK
      <3>3. "Superseded" \in Terminal
        BY DEF Terminal, Statuses
      <3>4. plans[polled[c]].status = "Superseded"
        BY <1>2, <3>1, <3>2, <3>3 DEF FinalAnswersStayTrue
      <3>5. polled[c] \in PlanIds
        BY <1>1, <3>2 DEF CallOK, MadeOK
      <3>6. plans[polled[c]].runs = 0
        BY <3>4, <3>5 DEF StatusTellsWhetherItRan
      <3>7. Inert(polled[c])
        BY <3>3, <3>4, <3>6 DEF Inert
      <3> QED
        BY <3>2, <3>7 DEF Live
    <2> QED
      BY <1>3, <2>1, <2>2 DEF Denials
  <1>9. PointOK(c)'
    BY <1>2, <1>4, <1>7, <1>8 DEF PointOK, Early
  <1>10. ReportOK(c)'
    BY <1>2, <1>4, <1>5 DEF ReportOK, FinalAnswersStayTrue
  <1> QED
    BY <1>6, <1>9, <1>10 DEF CallOK

\* The process exits under the call.
LEMMA ExitStep ==
    ASSUME MCPType, CallInv, NEW c \in Callers, Exit
    PROVE  CallOK(c)'
  <1>1. CallOK(c)
    BY DEF CallInv
  <1>2. /\ UNCHANGED approvalVars /\ made' = made /\ accepted' = accepted
        /\ asked' = asked /\ answered' = answered /\ reported' = reported
        /\ says'[c] = (IF pc[c] \in {"idle", "done"} THEN says[c] ELSE "exited")
        /\ pc'[c] = (IF pc[c] = "idle" THEN "idle" ELSE "done")
    BY DEF Exit, Quiet, historyVars
  <1>3. Live(c)' = Live(c) /\ PlanIds' = PlanIds /\ plans' = plans
    BY <1>2, LiveUnchanged
  <1>4. MadeOK(c)' /\ AskedOK(c)' /\ AnsweredOK(c)' /\ ReportOK(c)'
    BY <1>1, <1>2, <1>3 DEF CallOK, MadeOK, AskedOK, AnsweredOK, ReportOK
  <1>5. PointOK(c)'
    BY <1>1, <1>2, <1>3 DEF CallOK, PointOK, Executing, Early, Denials
  <1> QED
    BY <1>4, <1>5 DEF CallOK

-----------------------------------------------------------------------------
(***************************************************************************)
(* The bridge handles the request a call has in flight.                    *)
(***************************************************************************)
NewPlan(c, r, record) ==
    /\ Answer(record)
    /\ record.request = r
    /\ asked[c].mode = "submit" => record.status # "PendingApproval"
    /\ asked[c].mode = "preview" => record.status \in {"PreviewedOnly", "Invalid"}

\* A record that ran keeps its request.
LEMMA RanRequest ==
    ASSUME NEW record, NEW ok, NEW gate
    PROVE  RanRecord(record, ok, gate).request = record.request
  BY DEF RanRecord

LEMMA ReadOnlyAnswers ==
    ASSUME NEW r \in PlanRequest, NEW source \in Sources, NEW external \in BOOLEAN,
           ExecuteReadOnly(r, source, external)
    PROVE  \E record \in PlanRecord :
               Answer(record) /\ record.request = r /\ record.status \in {"Executed", "Failed"}
  <1>1. PICK ok \in BOOLEAN :
            Answer(RanRecord(NewRecord(r, source, external, "Executed", "none"), ok, "observation"))
    BY DEF ExecuteReadOnly
  <1> DEFINE born == NewRecord(r, source, external, "Executed", "none")
             record == RanRecord(born, ok, "observation")
  <1>2. born \in PlanRecord
    BY NewRecordType DEF Statuses, RefusalCodes
  <1>3. record \in PlanRecord /\ record.request = r /\ record.status \in {"Executed", "Failed"}
    <2>1. born.request = r
      BY DEF NewRecord
    <2> HIDE DEF born
    <2>2. record \in PlanRecord /\ record.status \in {"Executed", "Failed"}
      BY <1>2, RanRecordType DEF Gates
    <2>3. record.request = born.request
      BY RanRequest
    <2> QED
      BY <2>1, <2>2, <2>3
  <1>4. Answer(record)
    BY <1>1
  <1> HIDE DEF record
  <1> QED
    BY <1>3, <1>4

\* A post makes one plan, of the request it carries, or is refused.
LEMMA PostMakes ==
    ASSUME NEW c \in Callers, NEW r \in PlanRequest, r = asked[c].request, ServePost(c),
           asked[c].mode = "submit" => ~PlanHasMutations(r)
    PROVE  \/ UNCHANGED approvalVars /\ reply'.plan = NoPlan
           \/ \E record \in PlanRecord : NewPlan(c, r, record)
  <1> DEFINE Done == \/ UNCHANGED approvalVars /\ reply'.plan = NoPlan
                     \/ \E record \in PlanRecord : NewPlan(c, r, record)
  <1>1. ASSUME NEW external \in BOOLEAN,
               NEW status \in Statuses, NEW refusal \in RefusalCodes,
               Answer(NewRecord(r, "Bridge", external, status, refusal)),
               asked[c].mode = "submit" => status # "PendingApproval",
               asked[c].mode = "preview" => status \in {"PreviewedOnly", "Invalid"}
        PROVE  Done
    <2> DEFINE record == NewRecord(r, "Bridge", external, status, refusal)
    <2>1. record \in PlanRecord
      BY NewRecordType DEF Sources
    <2>2. record.request = r /\ record.status = status
      BY DEF NewRecord
    <2>3. Answer(record)
      BY <1>1
    <2> HIDE DEF record
    <2> QED
      BY <1>1, <2>1, <2>2, <2>3 DEF NewPlan
  <1>2. ASSUME \E record \in PlanRecord :
                   Answer(record) /\ record.request = r /\ record.status \in {"Executed", "Failed"},
               asked[c].mode # "preview"
        PROVE  Done
    BY <1>2 DEF NewPlan
  <1>3. ASSUME NEW code, Refuse(code)
        PROVE  Done
    BY <1>3 DEF Refuse, Reply
  <1> SUFFICES Done
    OBVIOUS
  <1> HIDE DEF Done
  <1>4. CASE asked[c].mode = "submit" /\ SubmitPlanRequest(r, "Bridge")
    <2>1. CASE SubmitInvalid(r, "Bridge")
      BY <1>1, <1>4, <2>1 DEF SubmitInvalid, Statuses, RefusalCodes
    <2>2. CASE SubmitReadOnly(r, "Bridge")
      BY <1>2, <1>4, <2>2, ReadOnlyAnswers DEF SubmitReadOnly, Sources
    <2>3. CASE SubmitDestructive(r, "Bridge") \/ SubmitWhilePending(r)
               \/ SubmitForApproval(r, "Bridge")
      BY <1>4, <2>3 DEF SubmitDestructive, SubmitWhilePending, SubmitForApproval,
                        PlanHasDestructive, PlanHasMutations
    <2> QED
      BY <1>4, <2>1, <2>2, <2>3 DEF SubmitPlanRequest
  <1>5. CASE asked[c].mode = "preview" /\ PreviewPlanRequest(r)
    <2>1. \/ Answer(NewRecord(r, "Bridge", FALSE, "PreviewedOnly", "none"))
          \/ Answer(NewRecord(r, "Bridge", FALSE, "Invalid", "invalid_plan"))
      BY <1>5 DEF PreviewPlanRequest
    <2> QED
      BY <1>1, <1>5, <2>1 DEF Statuses, RefusalCodes
  <1>6. CASE asked[c].mode = "execute_external" /\ SubmitExternalPlan(r)
    <2>1. CASE ExternalDisabled \/ ExternalConfirmWhilePending(r)
      BY <1>3, <2>1 DEF ExternalDisabled, ExternalConfirmWhilePending
    <2>2. CASE ExternalInvalid(r) \/ ExternalConfirm(r) \/ ExternalStale(r)
      BY <1>1, <1>6, <2>2 DEF ExternalInvalid, ExternalConfirm, ExternalStale, Statuses, RefusalCodes
    <2>3. CASE ExternalBlocked(r)
      <3>1. BlockCode \in RefusalCodes
        BY DEF BlockCode, RefusalCodes
      <3> QED
        BY <1>1, <1>6, <2>3, <3>1 DEF ExternalBlocked, Statuses
    <2>4. CASE ExternalReadOnly(r)
      BY <1>2, <1>6, <2>4, ReadOnlyAnswers DEF ExternalReadOnly, Sources
    <2>5. CASE ExternalExecute(r)
      <3>1. PICK ok \in BOOLEAN :
                Answer(RanRecord(NewRecord(r, "Bridge", TRUE, "Executed", "none"), ok, "session"))
        BY <2>5 DEF ExternalExecute
      <3> DEFINE born == NewRecord(r, "Bridge", TRUE, "Executed", "none")
                 record == RanRecord(born, ok, "session")
      <3>2. born \in PlanRecord
        BY NewRecordType DEF Sources, Statuses, RefusalCodes
      <3>3. born.request = r
        BY DEF NewRecord
      <3>4. Answer(record)
        BY <3>1
      <3> HIDE DEF born
      <3>5. /\ record \in PlanRecord /\ record.request = r
            /\ record.status \in {"Executed", "Failed"}
        BY <3>2, <3>3, RanRecordType, RanRequest DEF Gates
      <3> HIDE DEF record
      <3> QED
        BY <1>2, <1>6, <3>4, <3>5
    <2> QED
      BY <1>6, <2>1, <2>2, <2>3, <2>4, <2>5 DEF SubmitExternalPlan
  <1> QED
    BY <1>4, <1>5, <1>6 DEF ServePost

\* A plan its answer calls neither done nor pending changed nothing.
LEMMA RefusedIsInert ==
    ASSUME NEW record \in PlanRecord,
           record.runs = 1 <=> \/ record.status = "Executed"
                               \/ record.status = "Failed" /\ record.refusal = "none",
           record.runs \in {0, 1},
           ExternalCode(record) \notin {200, 202}
    PROVE  record.status \in Terminal /\ record.runs = 0
  <1>1. record.status \in Statuses
    BY DEF PlanRecord
  <1> QED
    BY <1>1 DEF ExternalCode, Terminal, Statuses

\* What handling a post does to the plans of the call that sent it.
LEMMA PostHandled ==
    ASSUME TypeOK, TypeOK', StatusTellsWhetherItRan', InFlight, NEW c \in Callers,
           asked[c] # Nothing, asked[c].path = "plan", ServePost(c),
           DOMAIN answered = Callers, MadeOK(c), AskedOK(c),
           made'[c] = made[c] \cup (DOMAIN plans' \ PlanIds)
    PROVE  /\ made'[c] \subseteq PlanIds'
           /\ IF Executing(c)
              THEN IF answered'[c].code \in {200, 202}
                   THEN Live(c)' \subseteq {answered'[c].plan} ELSE Live(c)' = {}
              ELSE Live(c)' \subseteq Live(c)
           /\ answered'[c].plan # NoPlan => answered'[c].plan \in made'[c]
           /\ \A id \in made[c] : plans'[id] = plans[id]
  <1>1. PICK r : r = asked[c].request
    OBVIOUS
  <1>2. r \in Requests
    BY <1>1, ServedRequest DEF ServePost
  <1>3. r \in PlanRequest
    BY <1>2, ServiceAssumption
  <1>4. asked[c].mode = "submit" => ~PlanHasMutations(r)
    BY <1>1 DEF AskedOK
  <1>5. Executing(c) => Live(c) = {}
    BY DEF AskedOK, Executing
  <1>6. asked[c].mode \in Modes
    BY DEF ServePost
  <1>7. /\ Executing(c) => answered'[c] = ExternalAnswer(reply'.plan, reply'.code, plans')
        /\ asked[c].mode = "submit" => answered'[c] = SubmitAnswer(reply'.plan, reply'.code, plans')
        /\ asked[c].mode = "preview" => answered'[c] = PreviewAnswer(reply'.plan, plans')
    BY DEF ServePost, AnswerWith, Executing
  <1>8. Executing(c) \/ asked[c].mode = "submit" \/ asked[c].mode = "preview"
    BY <1>6 DEF Modes, Executing
  <1>9. answered'[c].plan = reply'.plan
    BY <1>7, <1>8 DEF ExternalAnswer, SubmitAnswer, PreviewAnswer, Serialized, Error
  <1>10. CASE UNCHANGED approvalVars /\ reply'.plan = NoPlan
    <2>1. made'[c] = made[c]
      BY <1>10 DEF approvalVars, PlanIds
    <2>2. Live(c)' = Live(c) /\ PlanIds' = PlanIds /\ plans' = plans
      BY <1>10, <2>1, LiveUnchanged
    <2> QED
      BY <1>5, <1>9, <1>10, <2>1, <2>2 DEF MadeOK
  <1>11. ASSUME NEW record \in PlanRecord, NewPlan(c, r, record)
         PROVE  /\ made'[c] \subseteq PlanIds'
                /\ IF Executing(c)
                   THEN IF answered'[c].code \in {200, 202}
                        THEN Live(c)' \subseteq {answered'[c].plan} ELSE Live(c)' = {}
                   ELSE Live(c)' \subseteq Live(c)
                /\ answered'[c].plan # NoPlan => answered'[c].plan \in made'[c]
                /\ \A id \in made[c] : plans'[id] = plans[id]
    <2> PICK n : n = Len(plans) + 1
      OBVIOUS
    <2>1. /\ plans' = Append(plans, record) /\ reply'.plan = n
          /\ record.request = r
          /\ asked[c].mode = "submit" => record.status # "PendingApproval"
          /\ asked[c].mode = "preview" => record.status \in {"PreviewedOnly", "Invalid"}
      BY <1>11 DEF NewPlan, Answer, CreateRecord, Reply
    <2>2. /\ n \in Nat /\ n # NoPlan /\ PlanIds = 1 .. Len(plans) /\ Len(plans) \in Nat
          /\ PlanIds' = 1 .. n /\ n \notin PlanIds /\ plans'[n] = record
          /\ \A id \in PlanIds : plans'[id] = plans[id]
      BY <2>1 DEF PlanIds, TypeOK, NoPlan
    <2>3. made'[c] = made[c] \cup {n} /\ made[c] \subseteq PlanIds
      BY <2>2 DEF PlanIds, MadeOK
    <2>4. \A id \in made[c] : plans'[id] = plans[id]
      BY <2>2, <2>3
    <2>5. \A id \in made[c] : Inert(id)' <=> Inert(id)
      BY <2>4 DEF Inert
    <2>6. Live(c)' \subseteq Live(c) \cup {n} /\ (Inert(n)' => Live(c)' \subseteq Live(c))
      BY <2>3, <2>5 DEF Live
    <2>7. /\ record.runs \in {0, 1}
          /\ record.runs = 1 <=> \/ record.status = "Executed"
                                 \/ record.status = "Failed" /\ record.refusal = "none"
      <3>1. n \in PlanIds'
        BY <2>2
      <3> QED
        BY <2>2, <3>1 DEF StatusTellsWhetherItRan
    <2>8. record.status \in Statuses
      BY <1>11 DEF PlanRecord
    <2>9. asked[c].mode \in {"submit", "preview"} => Inert(n)'
      BY <1>4, <2>1, <2>2, <2>7, <2>8 DEF Inert, Terminal, Statuses
    <2>10. Executing(c) /\ answered'[c].code \notin {200, 202} => Inert(n)'
      <3> SUFFICES ASSUME Executing(c), answered'[c].code \notin {200, 202}
                   PROVE  Inert(n)'
        OBVIOUS
      <3>1. answered'[c].code = ExternalCode(record)
        BY <1>7, <2>1, <2>2 DEF ExternalAnswer, Serialized
      <3>2. record.status \in Terminal /\ record.runs = 0
        BY <2>7, <3>1, RefusedIsInert
      <3> QED
        BY <2>2, <3>2 DEF Inert
    <2> QED
      BY <1>5, <1>8, <1>9, <2>1, <2>2, <2>3, <2>4, <2>6, <2>9, <2>10
  <1> QED
    BY <1>1, <1>3, <1>4, <1>10, <1>11, PostMakes

\* The request is answered, or the answer lost, without any plan being posted.
LEMMA OtherHandled ==
    ASSUME Domains, InFlight, NEW c \in Callers, AnsweredOK(c),
           \/ Handle(c) /\ ~(asked[c].path = "plan" /\ ServePost(c))
           \/ HandleUnbound(c) \/ LoseAnswer(c)
    PROVE  /\ UNCHANGED approvalVars /\ asked'[c] = Nothing
           /\ \/ answered'[c].plan = NoPlan
              \/ asked[c] # Nothing /\ asked[c].path = "poll" /\ answered'[c].plan = asked[c].plan
           /\ asked[c] = Nothing => answered'[c] = Broken
           /\ \/ asked[c].path = "poll" => answered'[c].code = 404
              \/ asked[c].path = "poll" => answered'[c].plan = asked[c].plan
              \/ answered'[c] = Broken
  <1> USE DEF Domains, AnswerWith, InFlight
  <1>1. CASE LoseAnswer(c)
    BY <1>1 DEF LoseAnswer, AnsweredOK, Broken, Error
  <1>2. CASE HandleUnbound(c)
    <2>1. answered'[c] = Error(404, "none") \/ answered'[c] = Broken
      BY <1>2 DEF HandleUnbound
    <2>2. UNCHANGED approvalVars /\ asked'[c] = Nothing /\ asked[c] # Nothing
      BY <1>2 DEF HandleUnbound
    <2> QED
      BY <2>1, <2>2 DEF Error, Broken
  <1>3. CASE Handle(c) /\ ~(asked[c].path = "plan" /\ ServePost(c))
    <2>1. asked[c] # Nothing /\ asked'[c] = Nothing
      BY <1>3 DEF Handle
    <2>2. CASE HandlePostPlan(c)
      <3>1. /\ asked[c].path = "plan" /\ UNCHANGED approvalVars
            /\ answered'[c] \in {Error(400, "unknown_mode"), Error(400, "invalid_plan")}
        BY <1>3, <2>2 DEF HandlePostPlan, RejectPost
      <3> QED
        BY <2>1, <3>1 DEF Error
    <2>3. CASE HandleGetPlan(c)
      <3>1. /\ asked[c].path = "poll" /\ UNCHANGED approvalVars
            /\ \/ answered'[c] = Serialized(200, asked[c].plan, plans[asked[c].plan])
               \/ answered'[c] = Error(404, "plan_not_found")
        BY <2>3 DEF HandleGetPlan
      <3> QED
        BY <2>1, <3>1 DEF Error, Serialized
    <2>4. CASE HandleGetContext(c)
      <3>1. /\ asked[c].path = "context" /\ UNCHANGED approvalVars
            /\ answered'[c] = [Error(200, "none") EXCEPT
                                  !.context = [scene |-> world, seen |-> ContextSelected]]
        BY <2>4 DEF HandleGetContext
      <3>2. answered'[c].plan = NoPlan
        BY <3>1 DEF Error
      <3> QED
        BY <2>1, <3>1, <3>2
    <2> QED
      BY <1>3, <2>2, <2>3, <2>4 DEF Handle
  <1> QED
    BY <1>1, <1>2, <1>3

\* What handling a request, in any way, leaves of the call that sent it.
LEMMA BridgeHandled ==
    ASSUME MCPType, TypeOK', StatusTellsWhetherItRan', CallInv,
           NEW c \in Callers, BridgeStep(c)
    PROVE  /\ asked'[c] = Nothing
           /\ made'[c] \subseteq PlanIds' /\ made[c] \subseteq made'[c]
           /\ IF Executing(c)
              THEN IF answered'[c].code \in {200, 202}
                   THEN Live(c)' \subseteq {answered'[c].plan} ELSE Live(c)' = {}
              ELSE Live(c)' \subseteq Live(c)
           /\ answered'[c].plan # NoPlan => answered'[c].plan \in made'[c]
           /\ \A id \in made[c] : plans'[id] = plans[id]
           /\ asked[c] = Nothing => answered'[c] = Broken
           /\ pc[c] = "poll" /\ Has(c)' /\ answered'[c].code = 200
                 => answered'[c].plan = polled[c]
  <1>1. Domains /\ InFlight /\ TypeOK /\ CallOK(c)
    BY DEF MCPType, BridgeInv, CallInv
  <1>2. made'[c] = made[c] \cup (DOMAIN plans' \ PlanIds)
    BY <1>1 DEF BridgeStep, Domains
  <1>3. pc[c] = "poll" /\ asked[c] # Nothing => asked[c].path = "poll" /\ asked[c].plan = polled[c]
    BY <1>1 DEF CallOK, PointOK, GetPlan
  <1>4. CASE Handle(c) /\ asked[c].path = "plan" /\ ServePost(c)
    <2>1. asked[c] # Nothing /\ asked'[c] = Nothing
      BY <1>1, <1>4 DEF Handle, InFlight
    <2>2. pc[c] # "poll"
      BY <1>3, <1>4, <2>1
    <2> QED
      BY <1>1, <1>2, <1>4, <2>1, <2>2, PostHandled DEF Domains, CallOK
  <1>5. CASE \/ Handle(c) /\ ~(asked[c].path = "plan" /\ ServePost(c))
             \/ HandleUnbound(c) \/ LoseAnswer(c)
    <2>1. /\ UNCHANGED approvalVars /\ asked'[c] = Nothing
          /\ \/ answered'[c].plan = NoPlan
             \/ asked[c] # Nothing /\ asked[c].path = "poll" /\ answered'[c].plan = asked[c].plan
          /\ asked[c] = Nothing => answered'[c] = Broken
          /\ \/ asked[c].path = "poll" => answered'[c].code = 404
             \/ asked[c].path = "poll" => answered'[c].plan = asked[c].plan
             \/ answered'[c] = Broken
      BY <1>1, <1>5, OtherHandled DEF CallOK
    <2>2. made'[c] = made[c]
      BY <1>2, <2>1 DEF approvalVars, PlanIds
    <2>3. Live(c)' = Live(c) /\ PlanIds' = PlanIds /\ plans' = plans
      BY <2>1, <2>2, LiveUnchanged
    <2>4. made[c] \subseteq PlanIds /\ (Executing(c) => Live(c) = {})
      BY <1>1 DEF CallOK, MadeOK, AskedOK, Executing
    <2>5. answered'[c].plan # NoPlan => answered'[c].plan \in made'[c]
      BY <1>1, <2>1, <2>2 DEF CallOK, AskedOK
    <2>6. pc[c] = "poll" /\ Has(c)' /\ answered'[c].code = 200 => answered'[c].plan = polled[c]
      BY <1>3, <2>1 DEF Has
    <2> QED
      BY <2>1, <2>2, <2>3, <2>4, <2>5, <2>6
  <1> QED
    BY <1>4, <1>5 DEF BridgeStep

LEMMA BridgeStepOK ==
    ASSUME MCPType, TypeOK', StatusTellsWhetherItRan', CallInv,
           NEW c \in Callers, BridgeStep(c)
    PROVE  CallOK(c)'
  <1>1. Domains /\ CallOK(c)
    BY DEF MCPType, CallInv
  <1>2. /\ pc'[c] = pc[c] /\ says'[c] = says[c] /\ polled'[c] = polled[c]
        /\ reported'[c] = reported[c] /\ accepted'[c] = accepted[c]
    BY <1>1 DEF BridgeStep, callVars, Domains
  <1>3. /\ asked'[c] = Nothing
        /\ made'[c] \subseteq PlanIds' /\ made[c] \subseteq made'[c]
        /\ IF Executing(c)
           THEN IF answered'[c].code \in {200, 202}
                THEN Live(c)' \subseteq {answered'[c].plan} ELSE Live(c)' = {}
           ELSE Live(c)' \subseteq Live(c)
        /\ answered'[c].plan # NoPlan => answered'[c].plan \in made'[c]
        /\ \A id \in made[c] : plans'[id] = plans[id]
        /\ asked[c] = Nothing => answered'[c] = Broken
        /\ pc[c] = "poll" /\ Has(c)' /\ answered'[c].code = 200
              => answered'[c].plan = polled[c]
    BY BridgeHandled
  <1>4. pc[c] \in {"pause", "poll"} => ~Executing(c)
    BY <1>1 DEF CallOK, PointOK, GetPlan, Executing
  <1>5. ~Executing(c)' /\ AskedOK(c)' /\ AnsweredOK(c)'
    BY <1>3 DEF Executing, AskedOK, AnsweredOK
  <1>6. MadeOK(c)'
    <2>1. \A x, y \in Live(c)' : x = y
      BY <1>1, <1>3 DEF CallOK, MadeOK
    <2>2. Elicitation /\ accepted[c] # TRUE => Live(c) = {} /\ ~Executing(c)
      BY <1>1 DEF CallOK, MadeOK, AskedOK, Executing
    <2> QED
      BY <1>2, <1>3, <2>1, <2>2 DEF MadeOK
  <1>7. ReportOK(c)'
    BY <1>1, <1>2, <1>3 DEF CallOK, ReportOK
  <1>8. PointOK(c)'
    <2>1. pc[c] = "execute" /\ Has(c)' => Executing(c)
      BY <1>1, <1>3 DEF CallOK, PointOK, Has
    <2>2. pc[c] \in Early \/ says[c] \in Denials => Live(c)' = {}
      BY <1>1, <1>3 DEF CallOK, PointOK
    <2>3. pc[c] \in {"pause", "poll"} =>
             polled[c] \in made'[c] /\ Live(c)' \subseteq {polled[c]}
      BY <1>1, <1>3, <1>4 DEF CallOK, PointOK
    <2> QED
      BY <1>1, <1>2, <1>3, <1>5, <2>1, <2>2, <2>3 DEF CallOK, PointOK
  <1> QED
    BY <1>5, <1>6, <1>7, <1>8 DEF CallOK

\* Every step keeps every call honest.
LEMMA CallInvStep ==
    ASSUME MCPType, IInv, IInv', FinalAnswersStayTrue, CallInv, [MCPNext]_everything
    PROVE  CallInv'
  <1>1. TypeOK /\ Shape /\ Domains /\ InFlight /\ TypeOK'
        /\ StatusTellsWhetherItRan /\ StatusTellsWhetherItRan'
    BY MCPIsBridgeStep, BridgeTakesServiceSteps, StepShape DEF MCPType, BridgeInv, IInv
  <1>2. ASSUME NEW c \in Callers, Only(c), CallOK(c)'
        PROVE  CallInv'
    BY <1>1, <1>2, BystanderStep DEF CallInv, Only
  <1>3. ASSUME NEW c \in Callers,
               \/ StartReadOnly(c) \/ StartMutation(c) \/ Accept(c) \/ Continue(c)
               \/ BridgeStep(c)
        PROVE  CallInv'
    <2>1. Only(c)
      BY <1>1, <1>3, OwnStep
    <2>2. CallOK(c)'
      BY <1>1, <1>3, SendStep, GiveUpStep, GoOnStep, ConcludeStep, BridgeStepOK DEF Continue
    <2> QED
      BY <1>2, <2>1, <2>2
  <1>4. CASE World \/ Panel \/ UNCHANGED everything
    BY <1>1, <1>4, OutsideStep, BystanderStep DEF CallInv
  <1>5. CASE Exit
    BY <1>5, ExitStep DEF CallInv
  <1> QED
    BY <1>3, <1>4, <1>5 DEF MCPNext

-----------------------------------------------------------------------------
(***************************************************************************)
(* What the agent is told.                                                 *)
(***************************************************************************)
LEMMA MCPInitType == MCPInit => MCPType /\ CallInv
  <1> SUFFICES ASSUME MCPInit
               PROVE  MCPType /\ CallInv
    OBVIOUS
  <1>1. Init /\ TypeOK /\ InFlight /\ BridgeInit
    BY InitType DEF MCPInit, BridgeInit, InFlight
  <1>2. Domains /\ \A c \in Callers :
            /\ pc[c] = "idle" /\ says[c] = "none" /\ made[c] = {}
            /\ asked[c] = Nothing /\ answered[c] = Nothing
    BY DEF MCPInit, BridgeInit, Domains
  <1>3. RecordsAreTheNewest /\ Len(plans) <= MaxPlans
    BY <1>1, ServiceAssumption, MaxRecordsAssumption
       DEF Init, ApprovalInit, RecordsAreTheNewest
  <1>4. MCPType
    BY <1>1, <1>2, <1>3 DEF MCPType, BridgeInv, SendsMessages
  <1>5. CallInv
    BY <1>2 DEF CallInv, CallOK, MadeOK, AskedOK, AnsweredOK, PointOK, ReportOK, Live,
                Executing, Has, Denials
  <1> QED
    BY <1>4, <1>5

LEMMA ClientStep == MCPType /\ [MCPNext]_everything => MCPType' /\ [BridgeNext]_allVars
  <1>1. MCPType /\ [MCPNext]_everything => RecordsAreTheNewest'
    BY MCPIsBridgeStep, BridgeTakesServiceSteps, StepShape, RecordsAreTheNewestStep
       DEF MCPType, BridgeInv
  <1> QED
    BY <1>1, MCPTypeStep, MCPIsBridgeStep

\* Whatever the calls send, abandon or never read, the bridge sees a client its
\* own specification allows.
THEOREM ServerIsAClient == MCPSpec => BridgeSpec
  <1>1. MCPInit => BridgeInit
    BY DEF MCPInit
  <1> QED
    BY <1>1, MCPInitType, ClientStep, PTL DEF MCPSpec, BridgeSpec

\* Every call is honest in every state.
LEMMA CallsAreHonest == MCPSpec => []CallInv
  <1>1. MCPType /\ IInv /\ IInv' /\ FinalAnswersStayTrue /\ CallInv /\ [MCPNext]_everything
        => CallInv'
    BY CallInvStep
  <1>2. MCPSpec => [](IInv /\ FinalAnswersStayTrue)
    BY ServerIsAClient, BridgeImplementsService, Invariant, AnswersStayTrue, PTL DEF ServiceSpec
  <1> QED
    BY <1>1, <1>2, MCPInitType, ClientStep, PTL DEF MCPSpec

\* A plan that ran and changed something is live.
LEMMA RanIsLive == ASSUME NEW c PROVE Ran(c) \subseteq Live(c)
  BY DEF Ran, Live, Inert

\* An agent that is told its plan was declined or refused is told the truth, and
\* no request the call left behind makes a liar of it later.
THEOREM DenialsAreTrue == MCPSpec => []NothingDoneIsTrue
  <1>1. CallInv => NothingDoneIsTrue
    BY RanIsLive DEF CallInv, CallOK, PointOK, Denials, NothingDoneIsTrue
  <1> QED
    BY <1>1, CallsAreHonest, PTL

\* However its timers and the bridge interleave, a call's mutation is applied at
\* most once.
THEOREM AppliedOnce == MCPSpec => []AppliedAtMostOnce
  <1>1. ASSUME CallInv, NEW c \in Callers
        PROVE  Cardinality(Ran(c)) <= 1
    <2>1. \A x, y \in Ran(c) : x = y
      BY <1>1, RanIsLive DEF CallInv, CallOK, MadeOK
    <2>2. CASE Ran(c) = {}
      BY <2>2, FS_EmptySet
    <2>3. CASE Ran(c) # {}
      <3>1. PICK x \in Ran(c) : TRUE
        BY <2>3
      <3>2. Ran(c) = {x}
        BY <2>1, <3>1
      <3> QED
        BY <3>2, FS_Singleton
    <2> QED
      BY <2>2, <2>3
  <1>2. CallInv => AppliedAtMostOnce
    BY <1>1 DEF AppliedAtMostOnce
  <1> QED
    BY <1>2, CallsAreHonest, PTL

\* Where the session asks the human, no mutation a call posts runs before the
\* human accepted it.
THEOREM AskedBeforeRun == MCPSpec => []NothingRunsUnasked
  <1>1. CallInv => NothingRunsUnasked
    <2> SUFFICES ASSUME CallInv, Elicitation, NEW c \in Callers, Ran(c) # {}
                 PROVE  accepted[c]
      BY DEF NothingRunsUnasked
    <2>1. accepted[c] = TRUE
      BY RanIsLive DEF CallInv, CallOK, MadeOK
    <2> QED
      BY <2>1
  <1> QED
    BY <1>1, CallsAreHonest, PTL

\* The record a call reports is one it made, and what it said of a decided one
\* stays so.
THEOREM ReportsAreTrue == MCPSpec => []ReportIsTrue
  <1>1. CallInv => ReportIsTrue
    BY DEF CallInv, CallOK, ReportOK, ReportIsTrue
  <1> QED
    BY <1>1, CallsAreHonest, PTL

-----------------------------------------------------------------------------
(***************************************************************************)
(* What a call is for, and what becomes of its plan, up to its answer and  *)
(* after it: the refinement of CallPromise.                                *)
(***************************************************************************)
\* What a step does to a plan that was there: nothing, an end without a run,
\* or the one run of the plan in the slot.
LEMMA OldPlanStep ==
    ASSUME TypeOK, StatusTellsWhetherItRan, Shape, NEW id \in PlanIds
    PROVE  /\ id \in PlanIds' /\ plans'[id].request = plans[id].request
           /\ \/ plans'[id] = plans[id]
              \/ /\ plans'[id].runs = plans[id].runs
                 /\ plans'[id].status \in {"Superseded", "RefusedStale"}
              \/ /\ RunsOnClick /\ id = CurrentPlanId
                 /\ plans[id].status = "PendingApproval"
                 /\ plans[id].runs = 0 /\ plans'[id].runs = 1
  <1> USE DEF PlanIds
  <1>1. id \in 1 .. Len(plans) /\ DOMAIN plans = 1 .. Len(plans) /\ plans \in Seq(PlanRecord)
    BY DEF TypeOK
  <1>2. /\ DOMAIN SupersededPlans = 1 .. Len(plans) /\ SupersededPlans \in Seq(PlanRecord)
        /\ SupersededPlans[id].request = plans[id].request
        /\ \/ SupersededPlans[id] = plans[id]
           \/ /\ SupersededPlans[id].runs = plans[id].runs
              /\ SupersededPlans[id].status \in {"Superseded", "RefusedStale"}
    <2>1. DOMAIN SupersededPlans = 1 .. Len(plans) /\ SupersededPlans \in Seq(PlanRecord)
      BY SupersededPlansType
    <2>2. \/ SupersededPlans[id] = plans[id]
          \/ SupersededPlans[id] = WithStatus(plans[id], "Superseded", "superseded")
      BY <1>1, PendingIsCreated DEF SupersededPlans
    <2> QED
      BY <2>1, <2>2 DEF WithStatus
  <1>3. CASE UNCHANGED approvalVars
    BY <1>3 DEF approvalVars
  <1>4. CASE Creates
    <2> PICK record \in PlanRecord : plans' = Append(plans, record)
      BY <1>4 DEF Creates, CreateRecord
    <2> QED
      BY <1>1
  <1>5. CASE Replaces
    <2> PICK record \in PlanRecord : plans' = Append(SupersededPlans, record)
      BY <1>5 DEF Replaces, CreateRecord
    <2>1. plans'[id] = SupersededPlans[id] /\ id \in DOMAIN plans'
      BY <1>1, <1>2
    <2> QED
      BY <1>2, <2>1
  <1>6. CASE SupersedeCurrent
    <2>1. plans' = SupersededPlans
      BY <1>6 DEF SupersedeCurrent
    <2> QED
      BY <1>1, <1>2, <2>1
  <1>7. CASE RefusesStale
    <2>1. /\ DOMAIN plans' = DOMAIN plans
          /\ \/ plans'[id] = plans[id]
             \/ plans'[id] = WithStatus(plans[id], "RefusedStale", "stale_context")
      BY <1>1, <1>7, PendingIsCreated DEF RefusesStale, RefuseCurrentStale
    <2> QED
      BY <1>1, <2>1 DEF WithStatus
  <1>8. CASE RunsOnClick
    <2> PICK ok : ConsumeCurrent(RanRecord(plans[CurrentPlanId], ok, "click"))
      BY <1>8 DEF RunsOnClick
    <2>1. plans' = [plans EXCEPT ![CurrentPlanId] = RanRecord(plans[CurrentPlanId], ok, "click")]
      BY DEF ConsumeCurrent
    <2>2. CASE id # CurrentPlanId
      BY <1>1, <2>1, <2>2
    <2>3. CASE id = CurrentPlanId
      <3>1. plans'[id] = RanRecord(plans[id], ok, "click") /\ id \in DOMAIN plans'
        BY <1>1, <2>1, <2>3
      <3>2. plans[id].status = "PendingApproval" /\ plans[id].runs = 0
        <4>1. plans[id].status = "PendingApproval"
          BY <1>8, <2>3, PendingIsCreated DEF RunsOnClick
        <4> QED
          BY <4>1 DEF StatusTellsWhetherItRan
      <3> QED
        BY <1>8, <2>3, <3>1, <3>2 DEF RanRecord
    <2> QED
      BY <2>2, <2>3
  <1> QED
    BY <1>3, <1>4, <1>5, <1>6, <1>7, <1>8 DEF Shape

\* A plan that can only fail by running still can only fail by running.
LEMMA FailedRunningStays ==
    ASSUME TypeOK, StatusTellsWhetherItRan, Shape, NEW id \in PlanIds, FailedRunning(id)
    PROVE  FailedRunning(id)'
  BY OldPlanStep DEF FailedRunning

\* What a step that makes no plan for a call does to those it has: nothing, or
\* the one that could still matter runs by a click.
LEMMA RanOfOldPlans ==
    ASSUME TypeOK, StatusTellsWhetherItRan, Shape, NEW c, MadeOK(c), made'[c] = made[c]
    PROVE  /\ Ran(c) \subseteq Ran(c)'
           /\ \/ Ran(c)' = Ran(c)
              \/ /\ RunsOnClick /\ CurrentPlanId \in Live(c)
                 /\ Ran(c) = {} /\ Ran(c)' = {CurrentPlanId}
  <1> USE DEF MadeOK
  <1>1. \A id \in made[c] :
            /\ plans'[id].request = plans[id].request
            /\ \/ plans'[id].runs = plans[id].runs
               \/ /\ RunsOnClick /\ id = CurrentPlanId
                  /\ plans[id].status = "PendingApproval"
                  /\ plans[id].runs = 0 /\ plans'[id].runs = 1
    BY OldPlanStep
  <1>2. Ran(c) \subseteq Ran(c)' /\ \A id \in Ran(c)' \ Ran(c) : id = CurrentPlanId
    <2>1. \A id \in made[c] :
              PlanHasMutations(plans'[id].request) <=> PlanHasMutations(plans[id].request)
      BY <1>1 DEF PlanHasMutations
    <2>2. \A id \in made[c] :
              /\ plans[id].runs > 0 => plans'[id].runs > 0
              /\ plans'[id].runs > 0 => plans[id].runs > 0 \/ id = CurrentPlanId
      BY <1>1
    <2> QED
      BY <2>1, <2>2, Zenon DEF Ran
  <1>3. ASSUME Ran(c)' # Ran(c)
        PROVE  /\ RunsOnClick /\ CurrentPlanId \in Live(c)
               /\ Ran(c) = {} /\ Ran(c)' = {CurrentPlanId}
    <2>1. PICK id \in Ran(c)' : id \notin Ran(c)
      BY <1>2, <1>3
    <2>2. id \in made[c] /\ plans'[id].runs > 0 /\ PlanHasMutations(plans'[id].request)
      BY <2>1 DEF Ran
    <2>3. plans'[id].runs # plans[id].runs
      BY <1>1, <2>1, <2>2 DEF Ran, PlanHasMutations
    <2>4. /\ RunsOnClick /\ id = CurrentPlanId
          /\ plans[id].status = "PendingApproval" /\ plans[id].runs = 0
      BY <1>1, <2>2, <2>3
    <2>5. id \in Live(c)
      BY <2>2, <2>4 DEF Live, Inert, Terminal
    <2>6. Ran(c) = {}
      <3>1. \A x \in Ran(c) : x = id
        BY <2>5, RanIsLive
      <3> QED
        BY <2>1, <3>1
    <2> QED
      BY <1>2, <2>1, <2>4, <2>5, <2>6
  <1> QED
    BY <1>2, <1>3

\* A call that takes no part in a step keeps its account.
LEMMA PromiseBystander ==
    ASSUME TypeOK, StatusTellsWhetherItRan, Shape, NEW c, CallOK(c), PromiseOK(c), Same(c)
    PROVE  PromiseOK(c)'
  <1>1. /\ made[c] \subseteq PlanIds /\ made'[c] = made[c] /\ MadeOK(c)
        /\ Mutates(c)' = Mutates(c) /\ Executing(c)' = Executing(c) /\ Has(c)' = Has(c)
    BY DEF CallOK, MadeOK, Same, Mutates, Executing, Has
  <1>2. Ran(c) \subseteq Ran(c)' /\ Live(c)' \subseteq Live(c)
    BY <1>1, RanOfOldPlans, LiveShrinks
  <1>3. \A id \in made[c] : /\ plans'[id].request = plans[id].request
                            /\ FailedRunning(id) => FailedRunning(id)'
    BY <1>1, OldPlanStep, FailedRunningStays
  <1>4. KindOK(c)'
    BY <1>1, <1>3 DEF Same, PromiseOK, KindOK
  <1>5. OutcomeOK(c)'
    <2>1. pc[c] \in {"pause", "poll"} => polled[c] \in made[c]
      BY DEF CallOK, PointOK
    <2> QED
      BY <1>1, <1>3, <2>1 DEF Same, PromiseOK, OutcomeOK
  <1>6. ToldOK(c)'
    BY <1>1, <1>2 DEF Same, PromiseOK, ToldOK
  <1> QED
    BY <1>4, <1>5, <1>6 DEF PromiseOK

-----------------------------------------------------------------------------
\* The decided plan of a mutating call ran, or nothing of the call matters.
LEMMA OutcomeOfPlan ==
    ASSUME StatusTellsWhetherItRan, NEW c, MadeOK(c), NEW id \in made[c],
           plans[id].status \in Terminal, FailedRunning(id), Live(c) \subseteq {id},
           plans[id].request.tool = call[c].tool, Mutates(c)
    PROVE  IF plans[id].status \in {"Executed", "Failed"} THEN Ran(c) # {} ELSE Live(c) = {}
  <1>1. /\ plans[id].runs \in {0, 1}
        /\ plans[id].runs = 1 <=> \/ plans[id].status = "Executed"
                                  \/ plans[id].status = "Failed" /\ plans[id].refusal = "none"
    BY DEF StatusTellsWhetherItRan, MadeOK
  <1>2. CASE plans[id].status \in {"Executed", "Failed"}
    <2>1. plans[id].runs = 1
      BY <1>1, <1>2 DEF FailedRunning
    <2>2. PlanHasMutations(plans[id].request)
      BY DEF PlanHasMutations, Mutates
    <2>3. id \in Ran(c)
      BY <2>1, <2>2 DEF Ran
    <2> QED
      BY <1>2, <2>3
  <1>3. CASE plans[id].status \notin {"Executed", "Failed"}
    <2>1. plans[id].runs = 0
      BY <1>1, <1>3
    <2>2. Inert(id)
      BY <2>1 DEF Inert
    <2> QED
      BY <1>3, <2>2 DEF Live
  <1> QED
    BY <1>2, <1>3

\* A request is sent.
LEMMA PromiseSend ==
    ASSUME MCPType, CallInv, NEW c \in Callers, PromiseOK(c),
           StartReadOnly(c) \/ StartMutation(c) \/ Accept(c) \/ GotContext(c)
               \/ GotRefresh(c) \/ Poll(c)
    PROVE  PromiseOK(c)'
  <1>1. Domains /\ InFlight /\ CallOK(c)
    BY DEF MCPType, BridgeInv, CallInv
  <1>2. /\ UNCHANGED approvalVars /\ answered'[c] = Nothing /\ made'[c] = made[c]
        /\ says'[c] = says[c]
    BY <1>1 DEF StartReadOnly, StartMutation, Accept, GotContext, GotRefresh, Poll, Send,
                AnswerWith, historyVars, Domains, Stay
  <1>3. plans' = plans
    BY <1>2 DEF approvalVars
  <1>4. /\ pc[c] # "done" /\ says'[c] = "none" /\ ~Has(c)'
    <2>1. pc[c] # "done"
      BY DEF StartReadOnly, StartMutation, Accept, GotContext, GotRefresh, Poll, Heard
    <2> QED
      BY <1>1, <1>2, <2>1 DEF CallOK, PointOK, Has
  <1>5. ToldOK(c)'
    BY <1>4 DEF ToldOK
  <1> USE DEF Await, Domains
  <1>6. CASE StartReadOnly(c)
    <2>1. PICK t \in ToolCalls :
              /\ Risk(t.tool) = "ReadOnly"
              /\ call' = [call EXCEPT ![c] = t]
              /\ Send(c, PostPlan("submit", [tool |-> t.tool, targets |-> t.targets,
                    scene |-> NoWorld, seen |-> {}, wellFormed |-> TRUE]))
      BY <1>6 DEF StartReadOnly
    <2>2. asked'[c].request.tool = t.tool /\ call'[c].tool = t.tool
      BY <1>1, <2>1 DEF Send, PostPlan, InFlight
    <2>3. pc[c] = "idle" /\ pc'[c] = "read" /\ made[c] = {}
      BY <1>1, <1>6 DEF StartReadOnly, PromiseOK, KindOK
    <2> QED
      BY <1>2, <1>4, <1>5, <2>1, <2>2, <2>3 DEF PromiseOK, KindOK, OutcomeOK, Mutates
  <1>7. CASE StartMutation(c)
    <2>1. asked'[c].path = "context" /\ pc[c] = "idle" /\ pc'[c] = "context" /\ made[c] = {}
      BY <1>1, <1>7 DEF StartMutation, Send, GetContext, InFlight, PromiseOK, KindOK
    <2> QED
      BY <1>2, <1>4, <1>5, <2>1 DEF PromiseOK, KindOK, OutcomeOK
  <1>8. CASE Accept(c)
    <2>1. asked'[c].path = "context" /\ pc'[c] = "refresh" /\ call'[c] = call[c]
      BY <1>1, <1>8 DEF Accept, Send, GetContext, InFlight
    <2> QED
      BY <1>2, <1>3, <1>4, <1>5, <2>1 DEF PromiseOK, KindOK, OutcomeOK
  <1>9. CASE GotContext(c) \/ GotRefresh(c)
    <2>1. asked'[c].request.tool = call[c].tool /\ call'[c] = call[c]
          /\ pc'[c] \in {"preview", "execute"}
      BY <1>1, <1>9 DEF GotContext, GotRefresh, Send, PostPlan, PlanOf, InFlight
    <2> QED
      BY <1>2, <1>3, <1>4, <1>5, <2>1 DEF PromiseOK, KindOK, OutcomeOK
  <1>10. CASE Poll(c)
    <2>1. /\ asked'[c].path = "poll" /\ pc[c] = "pause" /\ pc'[c] = "poll"
          /\ call'[c] = call[c] /\ polled'[c] = polled[c]
      BY <1>1, <1>10 DEF Poll, Send, GetPlan, InFlight
    <2> QED
      BY <1>2, <1>3, <1>4, <1>5, <2>1 DEF PromiseOK, KindOK, OutcomeOK, FailedRunning
  <1> QED
    BY <1>6, <1>7, <1>8, <1>9, <1>10

\* The call gives up, or goes on without asking anything.
LEMMA PromiseGoOn ==
    ASSUME MCPType, CallInv, NEW c \in Callers, PromiseOK(c),
           \/ Timeout(c) \/ Decline(c) \/ Deadline(c) \/ Unreachable(c) \/ BodyTimeout(c)
           \/ ContextFailed(c) \/ GotPreview(c) \/ ExecutePending(c) \/ PollUndecided(c)
    PROVE  PromiseOK(c)'
  <1>1. Domains /\ CallOK(c)
    BY DEF MCPType, CallInv
  <1>2. /\ UNCHANGED approvalVars /\ made'[c] = made[c] /\ call'[c] = call[c]
        /\ asked'[c] = asked[c]
    BY <1>1 DEF Timeout, Decline, Deadline, Unreachable, BodyTimeout, ContextFailed, GotPreview,
                ExecutePending, PollUndecided, Quiet, Receive, AnswerWith, historyVars, Domains
  <1>3. plans' = plans
    BY <1>2 DEF approvalVars
  <1>4. /\ says'[c] # "record"
        /\ \/ pc'[c] \in {"done", "confirm"}
           \/ /\ pc[c] = "execute" /\ Has(c) /\ answered[c].code = 202
              /\ pc'[c] = "pause" /\ polled'[c] = answered[c].plan
           \/ pc[c] = "poll" /\ pc'[c] = "pause" /\ polled'[c] = polled[c]
    <2>1. pc[c] # "done" => says[c] = "none"
      BY <1>1 DEF CallOK, PointOK
    <2> QED
      BY <1>1, <2>1 DEF Timeout, Decline, Deadline, Unreachable, BodyTimeout, ContextFailed,
            GotPreview, ExecutePending, PollUndecided, Domains, Finish, Await, Stay, Heard, Has
  <1>5. KindOK(c)'
    BY <1>2, <1>3, <1>4 DEF PromiseOK, KindOK
  <1>6. OutcomeOK(c)'
    BY <1>3, <1>4 DEF PromiseOK, OutcomeOK, FailedRunning
  <1>7. ToldOK(c)'
    BY <1>4 DEF ToldOK
  <1> QED
    BY <1>5, <1>6, <1>7 DEF PromiseOK

\* The call ends with a record: what it says of the plan is so.
LEMMA PromiseConclude ==
    ASSUME MCPType, CallInv, FinalAnswersStayTrue, StatusTellsWhetherItRan,
           NEW c \in Callers, PromiseOK(c), ReadDone(c) \/ ExecuteDone(c) \/ PollDecided(c)
    PROVE  PromiseOK(c)'
  <1>1. Domains /\ CallOK(c)
    BY DEF MCPType, CallInv
  <1>2. /\ UNCHANGED approvalVars /\ made'[c] = made[c] /\ call'[c] = call[c]
        /\ asked'[c] = asked[c] /\ Has(c) /\ answered[c] # Nothing
        /\ reported'[c].status = answered[c].status /\ pc'[c] = "done"
    BY <1>1 DEF ReadDone, ExecuteDone, PollDecided, Receive, AnswerWith, historyVars, Domains,
                Finish, Await, Heard, Has
  <1>3. \/ pc[c] = "read"
        \/ says'[c] # "record"
        \/ pc[c] = "execute" /\ answered[c].code = 200
        \/ pc[c] = "poll" /\ answered[c].code = 200 /\ answered[c].status # "PendingApproval"
    BY <1>1 DEF ReadDone, ExecuteDone, PollDecided, Finish, Heard, Domains
  <1>4. /\ Live(c)' = Live(c) /\ plans' = plans /\ Ran(c)' = Ran(c)
        /\ Mutates(c)' = Mutates(c) /\ asked[c] = Nothing /\ ~Executing(c)'
    <2>1. Live(c)' = Live(c) /\ plans' = plans
      BY <1>2, LiveUnchanged
    <2>2. asked[c] = Nothing
      BY <1>1, <1>2 DEF CallOK, AnsweredOK
    <2> QED
      BY <1>2, <2>1, <2>2 DEF Ran, Mutates, Executing
  <1>5. KindOK(c)' /\ OutcomeOK(c)'
    BY <1>2, <1>4 DEF PromiseOK, KindOK, OutcomeOK
  <1>6. ASSUME says'[c] = "record", Mutates(c)
        PROVE  IF answered[c].status \in {"Executed", "Failed"} THEN Ran(c) # {} ELSE Live(c) = {}
    <2> DEFINE id == answered[c].plan
    <2>1. pc[c] # "read"
      BY <1>6 DEF PromiseOK, KindOK
    <2>2. /\ id \in made[c] /\ FailedRunning(id) /\ Live(c) \subseteq {id}
          /\ answered[c].status \in Terminal
      <3>1. CASE pc[c] = "execute"
        BY <1>1, <1>2, <1>3, <1>6, <3>1 DEF PromiseOK, OutcomeOK, CallOK, PointOK
      <3>2. CASE pc[c] = "poll"
        BY <1>1, <1>2, <1>3, <1>6, <3>2 DEF PromiseOK, OutcomeOK, CallOK, PointOK, Terminal
      <3> QED
        BY <1>3, <1>6, <2>1, <3>1, <3>2
    <2>3. plans[id].status = answered[c].status
      BY <1>2, <2>2 DEF FinalAnswersStayTrue
    <2>4. plans[id].request.tool = call[c].tool /\ MadeOK(c)
      BY <1>1, <2>2 DEF PromiseOK, KindOK, CallOK
    <2> HIDE DEF id
    <2> QED
      BY <1>6, <2>2, <2>3, <2>4, OutcomeOfPlan
  <1>7. ToldOK(c)'
    BY <1>2, <1>4, <1>6 DEF ToldOK
  <1> QED
    BY <1>5, <1>7 DEF PromiseOK

-----------------------------------------------------------------------------
\* A plan for execution is in the body of a post.
LEMMA ExecutingIsPosted ==
    ASSUME InFlight, NEW c \in Callers, Executing(c)
    PROVE  asked[c].path = "plan" /\ asked[c] # Nothing
  <1>1. asked[c] \in Messages /\ asked[c].mode = "execute_external"
    BY DEF InFlight, Executing
  <1>2. PICK mode, request : asked[c] = PostPlan(mode, request)
    BY <1>1 DEF Messages, GetContext, GetPlan
  <1> QED
    BY <1>1, <1>2 DEF PostPlan, Executing

\* The plan a post makes is the one it carries, and its answer tells how it went.
LEMMA PostOutcome ==
    ASSUME TypeOK, TypeOK', StatusTellsWhetherItRan', InFlight, NEW c \in Callers,
           asked[c] # Nothing, asked[c].path = "plan", ServePost(c),
           DOMAIN answered = Callers, AskedOK(c)
    PROVE  /\ \A id \in PlanIds' \ PlanIds : plans'[id].request = asked[c].request
           /\ Executing(c) /\ answered'[c].code \in {200, 202} =>
                 /\ answered'[c].plan \in PlanIds' \ PlanIds
                 /\ FailedRunning(answered[c].plan)'
                 /\ answered'[c].code = 200 => answered'[c].status \in Terminal
  <1>1. PICK r : r = asked[c].request
    OBVIOUS
  <1>2. r \in PlanRequest
    BY <1>1, ServedRequest, ServiceAssumption DEF ServePost
  <1>3. asked[c].mode = "submit" => ~PlanHasMutations(r)
    BY <1>1 DEF AskedOK
  <1>4. Executing(c) => answered'[c] = ExternalAnswer(reply'.plan, reply'.code, plans')
    BY DEF ServePost, AnswerWith, Executing
  <1>5. CASE UNCHANGED approvalVars /\ reply'.plan = NoPlan
    <2>1. PlanIds' = PlanIds
      BY <1>5 DEF approvalVars, PlanIds
    <2>2. Executing(c) => answered'[c].code \in {403, 409}
      BY <1>4, <1>5 DEF ExternalAnswer, Error
    <2> QED
      BY <2>1, <2>2
  <1>6. ASSUME NEW record \in PlanRecord, NewPlan(c, r, record)
        PROVE  /\ \A id \in PlanIds' \ PlanIds : plans'[id].request = asked[c].request
               /\ Executing(c) /\ answered'[c].code \in {200, 202} =>
                     /\ answered'[c].plan \in PlanIds' \ PlanIds
                     /\ FailedRunning(answered[c].plan)'
                     /\ answered'[c].code = 200 => answered'[c].status \in Terminal
    <2> PICK n : n = Len(plans) + 1
      OBVIOUS
    <2>1. plans' = Append(plans, record) /\ reply'.plan = n /\ record.request = r
      BY <1>6 DEF NewPlan, Answer, CreateRecord, Reply
    <2>2. /\ n # NoPlan /\ PlanIds' \ PlanIds = {n} /\ plans'[n] = record /\ n \in PlanIds'
      BY <2>1 DEF PlanIds, TypeOK, NoPlan
    <2>3. record.runs \in {0, 1} /\ record.status \in Statuses
      BY <1>6, <2>2 DEF StatusTellsWhetherItRan, PlanRecord
    <2>4. ASSUME Executing(c), answered'[c].code \in {200, 202}
          PROVE  /\ answered'[c].plan = n /\ FailedRunning(n)'
                 /\ answered'[c].code = 200 => answered'[c].status \in Terminal
      <3>1. /\ answered'[c].code = ExternalCode(record) /\ answered'[c].plan = n
            /\ answered'[c].status = record.status
        BY <1>4, <2>1, <2>2, <2>4 DEF ExternalAnswer, Serialized
      <3>2. record.status = "Failed" => record.runs = 1
        BY <2>3, <2>4, <3>1 DEF ExternalCode
      <3>3. ExternalCode(record) = 200 => record.status \in Terminal
        BY <2>3 DEF ExternalCode, Terminal
      <3> QED
        BY <2>2, <3>1, <3>2, <3>3 DEF FailedRunning
    <2> QED
      BY <1>1, <2>1, <2>2, <2>4
  <1> QED
    BY <1>1, <1>2, <1>3, <1>5, <1>6, PostMakes

\* Any other way to answer a request is no answer to a plan, and makes none.
LEMMA OtherOutcome ==
    ASSUME Domains, InFlight, NEW c \in Callers, AnsweredOK(c),
           \/ Handle(c) /\ ~(asked[c].path = "plan" /\ ServePost(c))
           \/ HandleUnbound(c) \/ LoseAnswer(c)
    PROVE  UNCHANGED approvalVars /\ (Executing(c) => answered'[c].code \notin {200, 202})
  <1>1. UNCHANGED approvalVars
    BY OtherHandled
  <1> SUFFICES ASSUME Executing(c)
               PROVE  answered'[c].code \notin {200, 202}
    BY <1>1
  <1>2. asked[c].path = "plan" /\ asked[c] # Nothing
    BY ExecutingIsPosted
  <1>3. ~LoseAnswer(c)
    BY <1>2 DEF LoseAnswer, AnsweredOK
  <1>4. CASE HandleUnbound(c)
    BY <1>4 DEF HandleUnbound, AnswerWith, Domains, Broken, Error
  <1>5. CASE Handle(c) /\ ~(asked[c].path = "plan" /\ ServePost(c))
    <2>1. RejectPost(c)
      BY <1>2, <1>5 DEF Handle, HandlePostPlan, HandleGetPlan, HandleGetContext
    <2> QED
      BY <2>1 DEF RejectPost, AnswerWith, Domains, Error
  <1> QED
    BY <1>3, <1>4, <1>5

LEMMA PromiseBridge ==
    ASSUME MCPType, TypeOK', StatusTellsWhetherItRan', CallInv, NEW c \in Callers,
           CallOK(c)', PromiseOK(c), BridgeStep(c)
    PROVE  PromiseOK(c)'
  <1>1. Domains /\ InFlight /\ TypeOK /\ CallOK(c) /\ SendsMessages(c)
    BY DEF MCPType, BridgeInv, CallInv
  <1>2. /\ pc'[c] = pc[c] /\ says'[c] = says[c] /\ polled'[c] = polled[c]
        /\ reported'[c] = reported[c] /\ call'[c] = call[c]
        /\ made'[c] = made[c] \cup (PlanIds' \ PlanIds)
    BY <1>1 DEF BridgeStep, callVars, Domains, PlanIds
  <1>3. /\ asked'[c] = Nothing /\ made[c] \subseteq made'[c]
        /\ ~Executing(c) => Live(c)' \subseteq Live(c)
        /\ \A id \in made[c] : plans'[id] = plans[id]
        /\ asked[c] = Nothing => answered'[c] = Broken
    BY BridgeHandled
  <1>4. \/ /\ asked[c] # Nothing /\ asked[c].path = "plan"
           /\ \A id \in PlanIds' \ PlanIds : plans'[id].request = asked[c].request
           /\ Executing(c) /\ answered'[c].code \in {200, 202} =>
                 /\ answered'[c].plan \in PlanIds' \ PlanIds
                 /\ FailedRunning(answered[c].plan)'
                 /\ answered'[c].code = 200 => answered'[c].status \in Terminal
        \/ UNCHANGED approvalVars /\ (Executing(c) => answered'[c].code \notin {200, 202})
    <2>1. CASE Handle(c) /\ asked[c].path = "plan" /\ ServePost(c)
      <3>1. asked[c] # Nothing
        BY <2>1 DEF Handle
      <3> QED
        BY <1>1, <2>1, <3>1, PostOutcome DEF Domains, CallOK
    <2>2. CASE \/ Handle(c) /\ ~(asked[c].path = "plan" /\ ServePost(c))
               \/ HandleUnbound(c) \/ LoseAnswer(c)
      BY <1>1, <2>2, OtherOutcome DEF CallOK
    <2> QED
      BY <2>1, <2>2 DEF BridgeStep
  <1>5. UNCHANGED approvalVars => PlanIds' = PlanIds
    BY DEF approvalVars, PlanIds
  <1>6. KindOK(c)'
    <2>1. \A id \in made'[c] : plans'[id].request.tool = call[c].tool
      BY <1>2, <1>3, <1>4, <1>5 DEF PromiseOK, KindOK
    <2>2. pc[c] = "idle" => made'[c] = {}
      BY <1>2, <1>4, <1>5 DEF PromiseOK, KindOK
    <2> QED
      BY <1>2, <1>3, <2>1, <2>2 DEF PromiseOK, KindOK, Mutates
  <1>7. OutcomeOK(c)'
    <2>1. pc[c] = "execute" /\ Has(c)' => Executing(c)
      BY <1>1, <1>3 DEF CallOK, PointOK, Has
    <2>2. pc[c] = "execute" /\ Has(c)' /\ answered'[c].code \in {200, 202} =>
             /\ answered'[c].plan \in made'[c] /\ FailedRunning(answered[c].plan)'
             /\ answered'[c].code = 200 => answered'[c].status \in Terminal
      BY <1>2, <1>4, <2>1
    <2>3. pc[c] \in {"pause", "poll"} => FailedRunning(polled[c]) /\ polled[c] \in made[c]
      BY <1>1 DEF PromiseOK, OutcomeOK, CallOK, PointOK
    <2>4. pc[c] \in {"pause", "poll"} => FailedRunning(polled[c])'
      BY <1>3, <2>3, <1>2 DEF FailedRunning
    <2>5. pc[c] = "poll" /\ Has(c)' /\ answered'[c].code = 200 => answered'[c].status \in Statuses
      <3> SUFFICES ASSUME pc[c] = "poll", Has(c)', answered'[c].code = 200
                   PROVE  answered'[c].status \in Statuses
        OBVIOUS
      <3>1. answered'[c].plan = polled[c] /\ polled[c] # NoPlan
        BY <1>1, <1>2, ServiceAssumption DEF CallOK, PointOK, SendsMessages, NoPlan
      <3>2. AnswerAt(answered'[c], plans')
        BY <1>1, AnswerTyped DEF Has, MCPType
      <3> PICK answer : answer = answered'[c]
        OBVIOUS
      <3>3. /\ answer.plan \in DOMAIN plans'
            /\ \E code : answer = Serialized(code, answer.plan, plans'[answer.plan])
        BY <3>1, <3>2 DEF AnswerAt
      <3>4. answer.status = plans'[answer.plan].status
        BY <3>3 DEF Serialized
      <3>5. plans'[answer.plan] \in PlanRecord
        BY <3>3 DEF TypeOK
      <3> QED
        BY <3>4, <3>5 DEF PlanRecord
    <2> QED
      BY <1>2, <2>2, <2>4, <2>5 DEF OutcomeOK
  <1>8. ToldOK(c)'
    <2>1. Mutates(c)' = Mutates(c) /\ ~Executing(c)'
      BY <1>2, <1>3 DEF Mutates, Executing
    <2>2. Ran(c) \subseteq Ran(c)'
      BY <1>3 DEF Ran
    <2> QED
      BY <1>2, <1>3, <2>1, <2>2 DEF PromiseOK, ToldOK
  <1> QED
    BY <1>6, <1>7, <1>8 DEF PromiseOK

LEMMA PromiseExit ==
    ASSUME MCPType, CallInv, NEW c \in Callers, PromiseOK(c), Exit
    PROVE  PromiseOK(c)'
  <1>1. Domains
    BY DEF MCPType
  <1>2. /\ UNCHANGED approvalVars /\ made'[c] = made[c] /\ call'[c] = call[c]
        /\ asked'[c] = asked[c] /\ reported'[c] = reported[c]
        /\ pc'[c] = (IF pc[c] = "idle" THEN "idle" ELSE "done")
        /\ says'[c] = says[c] \/ says'[c] = "exited"
    BY <1>1 DEF Exit, Quiet, historyVars, Domains
  <1>3. Live(c)' = Live(c) /\ plans' = plans
    BY <1>2, LiveUnchanged
  <1>4. KindOK(c)' /\ OutcomeOK(c)' /\ ToldOK(c)'
    BY <1>2, <1>3 DEF PromiseOK, KindOK, OutcomeOK, ToldOK, Ran, Executing, Mutates
  <1> QED
    BY <1>4 DEF PromiseOK

-----------------------------------------------------------------------------
\* A call's own steps.
LEMMA PromiseOwnStep ==
    ASSUME MCPType, CallInv, FinalAnswersStayTrue, StatusTellsWhetherItRan,
           NEW c \in Callers, PromiseOK(c),
           StartReadOnly(c) \/ StartMutation(c) \/ Accept(c) \/ Continue(c)
    PROVE  PromiseOK(c)'
  BY PromiseSend, PromiseGoOn, PromiseConclude DEF Continue

\* The plans that appear in a step are made for one call.
LEMMA PlansStayApart ==
    ASSUME MCPType, Shape, CallInv, PlansApart, [MCPNext]_everything
    PROVE  PlansApart'
  <1>1. Domains /\ InFlight /\ TypeOK /\ \A c \in Callers : made[c] \subseteq PlanIds
    BY DEF MCPType, BridgeInv, CallInv, CallOK, MadeOK
  <1>2. CASE \A c \in Callers : made'[c] = made[c]
    BY <1>2 DEF PlansApart
  <1>3. ASSUME NEW c \in Callers, BridgeStep(c)
        PROVE  PlansApart'
    <2>1. \A d \in Callers : made'[d] = IF d = c THEN made[c] \cup (DOMAIN plans' \ PlanIds)
                                             ELSE made[d]
      BY <1>1, <1>3 DEF BridgeStep, Domains
    <2>2. SUFFICES ASSUME NEW d \in Callers, NEW e \in Callers, d # e
                   PROVE  made'[d] \cap made'[e] = {}
      BY DEF PlansApart
    <2>3. made[d] \cap made[e] = {} /\ made[d] \subseteq PlanIds /\ made[e] \subseteq PlanIds
      BY <1>1, <2>2 DEF PlansApart
    <2> QED
      BY <2>1, <2>2, <2>3
  <1>4. ASSUME NEW c \in Callers,
               StartReadOnly(c) \/ StartMutation(c) \/ Accept(c) \/ Continue(c)
        PROVE  UNCHANGED made
    BY <1>4 DEF StartReadOnly, StartMutation, Accept, Continue, Unreachable, Timeout, BodyTimeout,
          ReadDone, ContextFailed, GotContext, GotPreview, Decline, GotRefresh, ExecuteDone,
          ExecutePending, Poll, PollUndecided, PollDecided, Deadline, historyVars
  <1>5. CASE Exit
    BY <1>2, <1>5 DEF Exit, historyVars
  <1>6. CASE World \/ Panel \/ UNCHANGED everything
    BY <1>1, <1>2, <1>6, OutsideStep DEF Same
  <1> QED
    BY <1>2, <1>3, <1>4, <1>5, <1>6 DEF MCPNext

\* Every step keeps every call's account.
LEMMA PromiseInvStep ==
    ASSUME MCPType, IInv, IInv', FinalAnswersStayTrue, CallInv, CallInv', PromiseInv,
           [MCPNext]_everything
    PROVE  PromiseInv'
  <1>1. /\ TypeOK /\ Shape /\ Domains /\ InFlight /\ TypeOK'
        /\ StatusTellsWhetherItRan /\ StatusTellsWhetherItRan'
    BY MCPIsBridgeStep, BridgeTakesServiceSteps, StepShape DEF MCPType, BridgeInv, IInv
  <1>2. PlansApart'
    BY <1>1, PlansStayApart DEF PromiseInv
  <1>3. ASSUME NEW c \in Callers, CallOK(c), PromiseOK(c), Same(c)
        PROVE  PromiseOK(c)'
    BY <1>1, <1>3, PromiseBystander
  <1>4. ASSUME NEW c \in Callers, Only(c), PromiseOK(c)'
        PROVE  PromiseInv'
    BY <1>2, <1>3, <1>4 DEF PromiseInv, CallInv, Only
  <1>5. ASSUME NEW c \in Callers,
               \/ StartReadOnly(c) \/ StartMutation(c) \/ Accept(c) \/ Continue(c)
               \/ BridgeStep(c)
        PROVE  PromiseInv'
    <2>1. Only(c)
      BY <1>1, <1>5, OwnStep
    <2>2. PromiseOK(c) /\ CallOK(c)'
      BY DEF PromiseInv, CallInv
    <2>3. PromiseOK(c)'
      BY <1>1, <1>5, <2>2, PromiseOwnStep, PromiseBridge
    <2> QED
      BY <1>4, <2>1, <2>3
  <1>6. CASE World \/ Panel \/ UNCHANGED everything
    <2>1. \A c \in Callers : Same(c)
      BY <1>1, <1>6, OutsideStep
    <2> QED
      BY <1>2, <1>3, <2>1 DEF PromiseInv, CallInv
  <1>7. CASE Exit
    BY <1>2, <1>7, PromiseExit DEF PromiseInv
  <1> QED
    BY <1>5, <1>6, <1>7 DEF MCPNext

LEMMA CallsKeepAccount == MCPSpec => []PromiseInv
  <1>1. MCPInit => PromiseInv
    <2> SUFFICES ASSUME MCPInit
                 PROVE  PromiseInv
      OBVIOUS
    <2>1. \A c \in Callers :
              /\ pc[c] = "idle" /\ says[c] = "none" /\ made[c] = {} /\ asked[c] = Nothing
      BY DEF MCPInit, BridgeInit
    <2> QED
      BY <2>1 DEF PromiseInv, PlansApart, PromiseOK, KindOK, OutcomeOK, ToldOK
  <1>2. MCPType /\ IInv /\ IInv' /\ FinalAnswersStayTrue /\ CallInv /\ CallInv' /\ PromiseInv
        /\ [MCPNext]_everything => PromiseInv'
    BY PromiseInvStep
  <1>3. MCPSpec => [](IInv /\ FinalAnswersStayTrue)
    BY ServerIsAClient, BridgeImplementsService, Invariant, AnswersStayTrue, PTL DEF ServiceSpec
  <1> QED
    BY <1>1, <1>2, <1>3, MCPInitType, ClientStep, CallsAreHonest, PTL DEF MCPSpec

-----------------------------------------------------------------------------
(***************************************************************************)
(* Each step of the process and of what is around it is one CallPromise    *)
(* allows, or changes nothing it speaks of.                                *)
(***************************************************************************)
\* What a caller was told, as a case for each kind of answer.
LEMMA ToldSplits ==
    ASSUME NEW c
    PROVE  /\ says[c] = "none" => Told(c) = "nothing yet"
           /\ says[c] \in Denials => Told(c) = "nothing done"
           /\ says[c] = "record" /\ Mutates(c) =>
                 Told(c) = IF reported[c].status \in {"Executed", "Failed"}
                           THEN "done" ELSE "nothing done"
           /\ says[c] \notin Denials \cup {"none", "record"} => Told(c) = "no claim"
           /\ says[c] = "record" /\ ~Mutates(c) => Told(c) = "no claim"
  BY DEF Told, Denials, Mutates

\* A call that told its agent what became of its plan told the truth.
LEMMA ToldTrue ==
    ASSUME NEW c, CallOK(c), PromiseOK(c)
    PROVE  /\ Told(c) = "done" => Ran(c) # {}
           /\ Told(c) = "nothing done" => Live(c) = {}
           /\ Executing(c) => Told(c) \in {"nothing yet", "no claim"}
           /\ Told(c) \in {"nothing yet", "done", "nothing done", "no claim"}
  <1>1. CASE says[c] = "record" /\ Mutates(c)
    BY <1>1, ToldSplits DEF PromiseOK, ToldOK
  <1>2. CASE says[c] \in Denials
    BY <1>2, ToldSplits DEF CallOK, PointOK
  <1>3. CASE says[c] \notin Denials /\ ~(says[c] = "record" /\ Mutates(c))
    BY <1>3, ToldSplits
  <1> QED
    BY <1>1, <1>2, <1>3

\* A plan of this call runs.
LEMMA ApplyMaps ==
    ASSUME NEW c \in Callers, NEW plan, CallOK(c),
           Told(c) \in {"nothing yet", "no claim"},
           Elicitation => accepted[c] = TRUE,
           Ran(c) = {}, Ran(c)' = {plan},
           \A d \in Callers \ {c} : Ran(d)' = Ran(d),
           \A d \in Callers : Told(d)' = Told(d), UNCHANGED accepted
    PROVE  Promise!Apply(c)
  <1> DEFINE applied == [d \in Callers |-> Ran(d)]
             told == [d \in Callers |-> Told(d)]
  <1>1. applied' = [applied EXCEPT ![c] = {plan}] /\ applied'[c] = {plan} /\ applied[c] = {}
    OBVIOUS
  <1>2. told' = told /\ told[c] = Told(c)
    OBVIOUS
  <1> HIDE DEF applied, told
  <1>3. /\ told[c] \in {"nothing yet", "no claim"}
        /\ Elicitation => accepted[c] = TRUE
        /\ applied[c] = {}
        /\ \E p \in applied'[c] : applied' = [applied EXCEPT ![c] = {p}]
        /\ UNCHANGED <<accepted, told>>
    BY <1>1, <1>2
  <1> QED
    BY <1>3 DEF Promise!Apply, applied, told

\* The agent is told something of this call.
LEMMA TellMaps ==
    ASSUME NEW c \in Callers, NEW what \in {"done", "nothing done", "no claim"},
           Told(c) = "nothing yet", Told(c)' = what,
           what = "done" => Ran(c) # {},
           what = "nothing done" => Ran(c) = {},
           \A d \in Callers \ {c} : Told(d)' = Told(d),
           \A d \in Callers : Ran(d)' = Ran(d), UNCHANGED accepted
    PROVE  Promise!Tell(c, what)
  <1> DEFINE applied == [d \in Callers |-> Ran(d)]
             told == [d \in Callers |-> Told(d)]
  <1>1. /\ told[c] = "nothing yet" /\ told' = [told EXCEPT ![c] = what]
        /\ what = "done" => applied[c] # {}
        /\ what = "nothing done" => applied[c] = {}
        /\ UNCHANGED <<accepted, applied>>
    OBVIOUS
  <1> HIDE DEF applied, told
  <1> QED
    BY <1>1 DEF Promise!Tell, applied, told

\* Nothing the promise speaks of changes.
LEMMA StutterMaps ==
    ASSUME \A d \in Callers : Ran(d)' = Ran(d) /\ Told(d)' = Told(d), UNCHANGED accepted
    PROVE  UNCHANGED Promise!promiseVars
  BY DEF Promise!promiseVars

\* The answer a call ends with says no more than is so.
LEMMA AnswerTrue ==
    ASSUME NEW c, CallOK(c)', PromiseOK(c)', says'[c] # "none"
    PROVE  /\ Told(c)' \in {"done", "nothing done", "no claim"}
           /\ Told(c)' = "done" => Ran(c)' # {}
           /\ Told(c)' = "nothing done" => Ran(c)' = {}
  <1>1. Ran(c)' \subseteq Live(c)'
    BY DEF Ran, Live, Inert
  <1>2. CASE says'[c] = "record" /\ Mutates(c)'
    <2>1. Told(c)' = IF reported'[c].status \in {"Executed", "Failed"}
                     THEN "done" ELSE "nothing done"
      BY <1>2 DEF Told, Mutates
    <2>2. IF reported'[c].status \in {"Executed", "Failed"} THEN Ran(c)' # {} ELSE Live(c)' = {}
      BY <1>2 DEF PromiseOK, ToldOK
    <2> QED
      BY <1>1, <2>1, <2>2
  <1>3. CASE says'[c] \in Denials
    <2>1. Told(c)' = "nothing done"
      BY <1>3 DEF Told, Denials
    <2>2. Live(c)' = {}
      BY <1>3 DEF CallOK, PointOK
    <2> QED
      BY <1>1, <2>1, <2>2
  <1>4. CASE says'[c] \notin Denials /\ ~(says'[c] = "record" /\ Mutates(c)')
    <2>1. Told(c)' = "no claim"
      BY <1>4 DEF Told, Denials, Mutates
    <2> QED
      BY <2>1
  <1> QED
    BY <1>2, <1>3, <1>4

\* What a call does itself: nothing its agent knows of, the human's yes, or the
\* answer.
LEMMA OwnStepMaps ==
    ASSUME MCPType, CallInv, CallInv', PromiseInv', NEW c \in Callers,
           StartReadOnly(c) \/ StartMutation(c) \/ Accept(c) \/ Continue(c)
    PROVE  [Promise!PromiseNext]_(Promise!promiseVars)
  <1>1. Domains /\ InFlight /\ CallOK(c) /\ CallOK(c)' /\ PromiseOK(c)'
    BY DEF MCPType, BridgeInv, CallInv, PromiseInv
  <1>2. Only(c)
    BY <1>1, OwnStep
  <1>3. UNCHANGED approvalVars /\ UNCHANGED made
    BY DEF StartReadOnly, StartMutation, Accept, Continue, Unreachable, Timeout, BodyTimeout,
           ReadDone, ContextFailed, GotContext, GotPreview, Decline, GotRefresh, ExecuteDone,
           ExecutePending, Poll, PollUndecided, PollDecided, Deadline, Send, Receive, Quiet,
           historyVars
  <1>4. \A d \in Callers : Ran(d)' = Ran(d)
    BY <1>3 DEF approvalVars, Ran
  <1>5. \A d \in Callers \ {c} : Told(d)' = Told(d)
    BY <1>2 DEF Only, Same, Told
  <1>6. pc[c] # "done" /\ Told(c) = "nothing yet"
    <2>1. pc[c] # "done"
      BY DEF StartReadOnly, StartMutation, Accept, Continue, Unreachable, Timeout, BodyTimeout,
             ReadDone, ContextFailed, GotContext, GotPreview, Decline, GotRefresh, ExecuteDone,
             ExecutePending, Poll, PollUndecided, PollDecided, Deadline, Heard, Awaiting
    <2> QED
      BY <1>1, <2>1, ToldSplits DEF CallOK, PointOK
  <1>7. CASE Accept(c)
    <2> DEFINE applied == [d \in Callers |-> Ran(d)]
               told == [d \in Callers |-> Told(d)]
    <2>1. accepted' = [accepted EXCEPT ![c] = TRUE] /\ says' = says
      BY <1>7 DEF Accept, Stay
    <2>2. Told(c)' = "nothing yet"
      BY <1>1, <1>6, <2>1 DEF CallOK, PointOK, Told
    <2>3. applied' = applied /\ told' = told /\ told[c] = "nothing yet"
      BY <1>4, <1>5, <1>6, <2>2
    <2> HIDE DEF applied, told
    <2>4. Promise!Agree(c)
      BY <2>1, <2>3 DEF Promise!Agree, applied, told
    <2> QED
      BY <2>4 DEF Promise!PromiseNext
  <1>8. CASE StartReadOnly(c) \/ StartMutation(c) \/ GotContext(c) \/ GotPreview(c)
             \/ GotRefresh(c) \/ ExecutePending(c) \/ Poll(c) \/ PollUndecided(c)
    <2>1. UNCHANGED <<accepted, says>>
      BY <1>8 DEF StartReadOnly, StartMutation, GotContext, GotPreview, GotRefresh,
            ExecutePending, Poll, PollUndecided, historyVars, Stay
    <2>2. Told(c)' = "nothing yet"
      BY <1>1, <1>6, <2>1 DEF CallOK, PointOK, Told
    <2> QED
      BY <1>4, <1>5, <1>6, <2>1, <2>2, StutterMaps
  <1>9. CASE Unreachable(c) \/ Timeout(c) \/ BodyTimeout(c) \/ ReadDone(c) \/ ContextFailed(c)
             \/ Decline(c) \/ ExecuteDone(c) \/ PollDecided(c) \/ Deadline(c)
    <2>1. UNCHANGED accepted /\ says'[c] # "none"
      BY <1>1, <1>9 DEF Unreachable, Timeout, BodyTimeout, ReadDone, ContextFailed, Decline,
            ExecuteDone, PollDecided, Deadline, historyVars, Finish, Domains
    <2>2. /\ Told(c)' \in {"done", "nothing done", "no claim"}
          /\ Told(c)' = "done" => Ran(c)' # {}
          /\ Told(c)' = "nothing done" => Ran(c)' = {}
      BY <1>1, <2>1, AnswerTrue
    <2>3. PICK what \in {"done", "nothing done", "no claim"} : Told(c)' = what
      BY <2>2
    <2>4. Promise!Tell(c, what)
      BY <1>4, <1>5, <1>6, <2>1, <2>2, <2>3, TellMaps
    <2> QED
      BY <2>4 DEF Promise!PromiseNext
  <1> QED
    BY <1>7, <1>8, <1>9 DEF Continue

\* A click, in whatever step, runs the plan of at most one call.
LEMMA ClickMaps ==
    ASSUME TypeOK, StatusTellsWhetherItRan, Shape, CallInv, PromiseInv, RunsOnClick,
           \A d \in Callers : Told(d)' = Told(d) /\ made'[d] = made[d], UNCHANGED accepted
    PROVE  [Promise!PromiseNext]_(Promise!promiseVars)
  <1>1. \A d \in Callers :
            \/ Ran(d)' = Ran(d)
            \/ CurrentPlanId \in Live(d) /\ Ran(d) = {} /\ Ran(d)' = {CurrentPlanId}
    BY RanOfOldPlans DEF CallInv, CallOK
  <1>2. CASE \A d \in Callers : Ran(d)' = Ran(d)
    BY <1>2, StutterMaps
  <1>3. ASSUME NEW c \in Callers, Ran(c)' # Ran(c)
        PROVE  Promise!Apply(c)
    <2>1. CurrentPlanId \in Live(c) /\ Ran(c) = {} /\ Ran(c)' = {CurrentPlanId}
      BY <1>1, <1>3
    <2>2. \A d \in Callers \ {c} : Ran(d)' = Ran(d)
      BY <1>1, <2>1 DEF PromiseInv, PlansApart, Live
    <2>3. CallOK(c) /\ PromiseOK(c)
      BY DEF CallInv, PromiseInv
    <2>4. Elicitation => accepted[c] = TRUE
      BY <2>1, <2>3 DEF CallOK, MadeOK
    <2>5. Told(c) \in {"nothing yet", "no claim"}
      BY <2>1, <2>3, ToldTrue
    <2> QED
      BY <2>1, <2>2, <2>3, <2>4, <2>5, ApplyMaps
  <1> QED
    BY <1>2, <1>3 DEF Promise!PromiseNext

\* The bridge's step runs the plan a call asked it to run, or no plan of a call.
LEMMA BridgeStepMaps ==
    ASSUME MCPType, TypeOK', StatusTellsWhetherItRan, StatusTellsWhetherItRan', Shape,
           CallInv, PromiseInv, NEW c \in Callers, BridgeStep(c), ~RunsOnClick
    PROVE  [Promise!PromiseNext]_(Promise!promiseVars)
  <1>1. Domains /\ InFlight /\ TypeOK /\ CallOK(c) /\ PromiseOK(c)
    BY DEF MCPType, BridgeInv, CallInv, PromiseInv
  <1>2. Only(c)
    BY <1>1, OwnStep
  <1>3. UNCHANGED accepted /\ \A d \in Callers : Told(d)' = Told(d)
    BY DEF BridgeStep, callVars, Told
  <1>4. \A d \in Callers \ {c} : Ran(d)' = Ran(d)
    BY <1>1, <1>2, RanOfOldPlans DEF Only, Same, CallInv, CallOK
  <1>5. /\ made[c] \subseteq made'[c]
        /\ IF Executing(c)
           THEN IF answered'[c].code \in {200, 202}
                THEN Live(c)' \subseteq {answered'[c].plan} ELSE Live(c)' = {}
           ELSE Live(c)' \subseteq Live(c)
        /\ \A id \in made[c] : plans'[id] = plans[id]
    BY BridgeHandled
  <1>6. Ran(c)' \subseteq Live(c)' /\ Ran(c) \subseteq Live(c) /\ Live(c) \subseteq made[c]
    BY RanIsLive DEF Ran, Live, Inert
  <1>7. CASE ~Executing(c)
    <2>1. Ran(c)' = Ran(c)
      BY <1>5, <1>6, <1>7 DEF Ran
    <2> QED
      BY <1>3, <1>4, <2>1, StutterMaps
  <1>8. CASE Executing(c)
    <2>1. /\ Ran(c) = {} /\ (Elicitation => accepted[c] = TRUE)
          /\ Told(c) \in {"nothing yet", "no claim"}
      BY <1>1, <1>6, <1>8, ToldTrue DEF CallOK, AskedOK, Executing
    <2>2. Ran(c)' = {} \/ \E plan : Ran(c)' = {plan}
      BY <1>5, <1>6, <1>8
    <2>3. CASE Ran(c)' = {}
      BY <1>3, <1>4, <2>1, <2>3, StutterMaps
    <2>4. CASE \E plan : Ran(c)' = {plan}
      <3>1. Promise!Apply(c)
        BY <1>1, <1>3, <1>4, <2>1, <2>4, ApplyMaps
      <3> QED
        BY <3>1 DEF Promise!PromiseNext
    <2> QED
      BY <2>2, <2>3, <2>4
  <1> QED
    BY <1>7, <1>8

\* The process exits: the calls under way are silenced.
LEMMA ExitMaps ==
    ASSUME CallInv, Exit
    PROVE  Promise!Silence
  <1> DEFINE applied == [d \in Callers |-> Ran(d)]
             told == [d \in Callers |-> Told(d)]
             silenced == {d \in Callers : pc[d] \notin {"idle", "done"}}
  <1>1. /\ UNCHANGED <<approvalVars, made, accepted, call, reported>>
        /\ says' = [d \in Callers |-> IF d \in silenced THEN "exited" ELSE says[d]]
    BY DEF Exit, Quiet, historyVars
  <1>2. UNCHANGED <<accepted, applied>>
    BY <1>1 DEF Ran, approvalVars
  <1>3. \A d \in Callers : Told(d)' = IF d \in silenced THEN "no claim" ELSE Told(d)
    BY <1>1 DEF Told
  <1>4. \A d \in silenced : Told(d) = "nothing yet"
    BY ToldSplits DEF CallInv, CallOK, PointOK
  <1>5. told' = [d \in Callers |-> IF d \in silenced THEN "no claim" ELSE told[d]]
    BY <1>3
  <1>6. silenced \in SUBSET {d \in Callers : told[d] = "nothing yet"}
    BY <1>4
  <1> HIDE DEF applied, told, silenced
  <1>7. \E s \in SUBSET {d \in Callers : told[d] = "nothing yet"} :
            told' = [d \in Callers |-> IF d \in s THEN "no claim" ELSE told[d]]
    BY <1>5, <1>6
  <1> QED
    BY <1>2, <1>7 DEF Promise!Silence, applied, told

LEMMA PromiseStep ==
    ASSUME MCPType, IInv, IInv', CallInv, CallInv', PromiseInv, PromiseInv',
           [MCPNext]_everything
    PROVE  [Promise!PromiseNext]_(Promise!promiseVars)
  <1>1. /\ TypeOK /\ Shape /\ Domains /\ TypeOK'
        /\ StatusTellsWhetherItRan /\ StatusTellsWhetherItRan'
    BY MCPIsBridgeStep, BridgeTakesServiceSteps, StepShape DEF MCPType, BridgeInv, IInv
  <1>2. ASSUME NEW c \in Callers,
               StartReadOnly(c) \/ StartMutation(c) \/ Accept(c) \/ Continue(c)
        PROVE  [Promise!PromiseNext]_(Promise!promiseVars)
    BY <1>2, OwnStepMaps
  <1>3. ASSUME RunsOnClick, UNCHANGED <<callVars, accepted>>,
               \/ UNCHANGED made
               \/ \E c \in Callers : made' = [made EXCEPT ![c] = @ \cup (DOMAIN plans' \ PlanIds)]
        PROVE  [Promise!PromiseNext]_(Promise!promiseVars)
    <2>1. DOMAIN plans' = PlanIds
      BY <1>3 DEF RunsOnClick, ConsumeCurrent, PlanIds
    <2>2. \A d \in Callers : Told(d)' = Told(d) /\ made'[d] = made[d]
      BY <1>1, <1>3, <2>1 DEF Told, callVars, Domains
    <2> QED
      BY <1>1, <1>3, <2>2, ClickMaps
  <1>4. ASSUME NEW c \in Callers, BridgeStep(c)
        PROVE  [Promise!PromiseNext]_(Promise!promiseVars)
    <2>1. CASE RunsOnClick
      BY <1>3, <1>4, <2>1 DEF BridgeStep
    <2>2. CASE ~RunsOnClick
      BY <1>1, <1>4, <2>2, BridgeStepMaps
    <2> QED
      BY <2>1, <2>2
  <1>5. CASE World \/ Panel \/ UNCHANGED everything
    <2>1. UNCHANGED <<callVars, accepted, made>>
      BY <1>5 DEF World, Panel, everything, mcpVars, historyVars
    <2>2. CASE RunsOnClick
      BY <1>3, <2>1, <2>2
    <2>3. CASE ~RunsOnClick
      <3>1. \A d \in Callers : made'[d] = made[d] /\ Told(d)' = Told(d)
        BY <2>1 DEF Told, callVars
      <3>2. \A d \in Callers : Ran(d)' = Ran(d)
        BY <1>1, <2>3, <3>1, RanOfOldPlans DEF CallInv, CallOK
      <3> QED
        BY <2>1, <3>1, <3>2, StutterMaps
    <2> QED
      BY <2>2, <2>3
  <1>6. CASE Exit
    BY <1>6, ExitMaps DEF Promise!PromiseNext
  <1> QED
    BY <1>2, <1>4, <1>5, <1>6 DEF MCPNext

\* What a call is to its agent and its human, with all its requests, timers,
\* polls and lost answers hidden, is a behaviour of CallPromise: a plan is applied
\* after the yes, once, before the call says so, and never after it has said what
\* became of it.
THEOREM PromisesAreKept == MCPSpec => CallsKeepTheirPromise
  <1>1. MCPInit => Promise!PromiseInit
    <2> SUFFICES ASSUME MCPInit
                 PROVE  Promise!PromiseInit
      OBVIOUS
    <2>1. accepted = [c \in Callers |-> FALSE]
      BY DEF MCPInit
    <2>2. \A c \in Callers : Ran(c) = {} /\ Told(c) = "nothing yet"
      BY DEF MCPInit, Ran, Told
    <2> QED
      BY <2>1, <2>2 DEF Promise!PromiseInit
  <1>2. MCPType /\ IInv /\ IInv' /\ CallInv /\ CallInv' /\ PromiseInv /\ PromiseInv'
        /\ [MCPNext]_everything => [Promise!PromiseNext]_(Promise!promiseVars)
    BY PromiseStep
  <1>3. MCPSpec => []IInv
    BY ServerIsAClient, BridgeImplementsService, Invariant, PTL DEF ServiceSpec
  <1> QED
    BY <1>1, <1>2, <1>3, MCPInitType, ClientStep, CallsAreHonest, CallsKeepAccount, PTL
       DEF MCPSpec, CallsKeepTheirPromise, Promise!PromiseSpec

\* Seen from the far end of the chain, too, the service is the gate: no tool call,
\* however its requests are lost, late or repeated, gets a mutation past the human
\* word its tier asks for, or brings back a plan that was decided or lost.
THEOREM AgentsMeetTheGate == MCPSpec => ServiceKeepsTheGate
  BY ServerIsAClient, BridgeImplementsService, ServiceImplementsGate, PTL DEF ServiceSpec

=============================================================================
