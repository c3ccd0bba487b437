----------------------------- MODULE MCPServer -----------------------------
(***************************************************************************)
(* ue5mcp-server.mjs: the Node process between the agent and the bridge.   *)
(*                                                                         *)
(* Tool calls are async functions that run concurrently: each action below *)
(* is what one call does between two awaits.  A mutating call reads the    *)
(* context, posts a preview, asks the human (when the agent's client can   *)
(* be asked), reads the context again, posts the plan for execution and,   *)
(* when the editor wants a click as well, polls until the plan is decided. *)
(* Every await has a timer, and a call that gives up on a request cannot   *)
(* take it back.                                                           *)
(***************************************************************************)
EXTENDS BridgeServer

CONSTANTS
    Elicitation,    \* elicitationEnabled(): the human is asked in the session
    ToolCalls,      \* the calls the agent may make: [tool, targets]
    MaxDrift        \* bound on what else happens in the editor, for model checking

ASSUME MCPAssumption ==
    /\ Elicitation \in BOOLEAN /\ MaxDrift \in Nat
    /\ \A t \in ToolCalls, scene \in Worlds \cup {NoWorld}, seen \in SUBSET Actors :
          [tool |-> t.tool, targets |-> t.targets, wellFormed |-> TRUE,
           scene |-> scene, seen |-> seen] \in Requests

VARIABLES
    pc,             \* the await each call is at
    call,           \* what it was asked to do
    fingerprint,    \* the context it read last
    polled,         \* the plan it polls
    says,           \* what it answered the agent
    reported,       \* the record in that answer: [plan, status]
    shown,          \* history: the context of the preview the human was shown
    accepted,       \* history: the human accepted it
    made,           \* history: the plans its requests created
    drift

callVars == <<pc, call, fingerprint, polled, says, reported>>
historyVars == <<shown, accepted, made>>
mcpVars == <<callVars, historyVars, drift>>
everything == <<allVars, mcpVars>>

Awaiting == {"read", "context", "preview", "refresh", "execute", "poll"}

\* "record": a plan record; "refused": it says why nothing was done;
\* "declined", "declinedInEditor": the human said no; "waiting": still to be
\* clicked; "timeout": it may have been done; "unreachable", "failed": plain errors.
Answers == {"none", "record", "refused", "declined", "declinedInEditor", "waiting",
            "timeout", "unreachable", "failed", "exited"}

NoRecord == [plan |-> NoPlan, status |-> "none"]

\* The plan a call posts, with the fingerprint it read last.
PlanOf(c) ==
    [tool |-> call[c].tool, targets |-> call[c].targets, wellFormed |-> TRUE,
     scene |-> fingerprint'[c].scene, seen |-> fingerprint'[c].seen]

\* A call's step that leaves the editor and the bridge's own state alone.
Quiet ==
    /\ reply' = NoReply
    /\ UNCHANGED <<approvalVars, editorVars, settingVars, bRunning, drift>>

Await(c, point) == pc' = [pc EXCEPT ![c] = point]

\* The promise resolves or rejects: the answer, if any, is dropped.
Finish(c, answer, record) ==
    /\ Await(c, "done")
    /\ says' = [says EXCEPT ![c] = answer]
    /\ reported' = [reported EXCEPT ![c] = record]

Stay == UNCHANGED <<says, reported>>

\* As Unreachable would be if the plan were posted once more.
UnreachableRetried(c) ==
    /\ pc[c] = "execute"
    /\ answered[c] = Broken
    /\ UNCHANGED fingerprint
    /\ Send(c, PostPlan("execute_external", PlanOf(c)))
    /\ UNCHANGED <<pc, call, polled, says, reported, historyVars, drift>>

\* bridgeFetch rejects: not reachable, or not answered within its timeout.
Unreachable(c) ==
    /\ pc[c] \in Awaiting
    /\ answered[c] = Broken
    /\ Receive(c)
    /\ Finish(c, "unreachable", NoRecord)
    /\ UNCHANGED <<call, fingerprint, polled, historyVars, drift>>

Timeout(c) ==
    /\ pc[c] \in Awaiting
    /\ answered[c] = Nothing
    /\ Quiet
    /\ Finish(c, "timeout", NoRecord)
    /\ UNCHANGED <<asked, answered, call, fingerprint, polled, historyVars>>

\* The same timer also covers reading the body, outside bridgeFetch's try.
BodyTimeout(c) ==
    /\ pc[c] \in Awaiting
    /\ answered[c] \notin {Nothing, Broken}
    /\ Receive(c)
    /\ Finish(c, "failed", NoRecord)
    /\ UNCHANGED <<call, fingerprint, polled, historyVars, drift>>

\* An answer arrived in time.
Heard(c, point) == pc[c] = point /\ answered[c] \notin {Nothing, Broken}

-----------------------------------------------------------------------------
StartReadOnly(c) ==
    /\ pc[c] = "idle"
    /\ \E t \in ToolCalls :
          /\ Risk(t.tool) = "ReadOnly"
          /\ call' = [call EXCEPT ![c] = t]
          /\ Send(c, PostPlan("submit", [tool |-> t.tool, targets |-> t.targets,
                        scene |-> NoWorld, seen |-> {}, wellFormed |-> TRUE]))
    /\ Await(c, "read")
    /\ UNCHANGED <<fingerprint, polled, says, reported, historyVars, drift>>

ReadDone(c) ==
    /\ Heard(c, "read")
    /\ Receive(c)
    /\ Finish(c, "record", [plan |-> answered[c].plan, status |-> answered[c].status])
    /\ UNCHANGED <<call, fingerprint, polled, historyVars, drift>>

\* runMutatingPlan, up to its first await.
StartMutation(c) ==
    /\ pc[c] = "idle"
    /\ \E t \in ToolCalls :
          /\ Risk(t.tool) # "ReadOnly"
          /\ call' = [call EXCEPT ![c] = t]
    /\ Send(c, GetContext)
    /\ Await(c, "context")
    /\ UNCHANGED <<fingerprint, polled, says, reported, historyVars, drift>>

\* getContext and confirmWithPreview throw on anything but 200.
ContextFailed(c) ==
    /\ \E point \in {"context", "preview", "refresh"} : Heard(c, point)
    /\ answered[c].code # 200
    /\ Receive(c)
    /\ Finish(c, "failed", NoRecord)
    /\ UNCHANGED <<call, fingerprint, polled, historyVars, drift>>

\* As GotContext would be if the plan were posted for execution at once.
GotContextUnasked(c) ==
    /\ Heard(c, "context") /\ answered[c].code = 200
    /\ fingerprint' = [fingerprint EXCEPT ![c] = answered[c].context]
    /\ Send(c, PostPlan("execute_external", PlanOf(c)))
    /\ Await(c, "execute")
    /\ Stay
    /\ UNCHANGED <<call, polled, historyVars, drift>>

\* Without elicitation the client's permission prompt was the only question.
GotContext(c) ==
    /\ Heard(c, "context") /\ answered[c].code = 200
    /\ fingerprint' = [fingerprint EXCEPT ![c] = answered[c].context]
    /\ LET mode == IF Elicitation THEN "preview" ELSE "execute_external"
       IN  /\ Send(c, PostPlan(mode, PlanOf(c)))
           /\ Await(c, IF Elicitation THEN "preview" ELSE "execute")
    /\ shown' = [shown EXCEPT ![c] = answered[c].context]
    /\ Stay
    /\ UNCHANGED <<call, polled, accepted, made, drift>>

\* elicitation/create shows the human the plugin's own preview.
GotPreview(c) ==
    /\ Heard(c, "preview") /\ answered[c].code = 200
    /\ Receive(c)
    /\ Await(c, "confirm")
    /\ Stay
    /\ UNCHANGED <<call, fingerprint, polled, historyVars, drift>>

\* As Accept would be if an answer that comes after the timeout still counted.
AcceptLate(c) ==
    /\ pc[c] = "confirm" \/ (pc[c] = "done" /\ says[c] = "declined")
    /\ accepted' = [accepted EXCEPT ![c] = TRUE]
    /\ Send(c, GetContext)
    /\ Await(c, "refresh")
    /\ Stay
    /\ UNCHANGED <<call, fingerprint, polled, shown, made, drift>>

Accept(c) ==
    /\ pc[c] = "confirm"
    /\ accepted' = [accepted EXCEPT ![c] = TRUE]
    /\ Send(c, GetContext)
    /\ Await(c, "refresh")
    /\ Stay
    /\ UNCHANGED <<call, fingerprint, polled, shown, made, drift>>

\* The human declines or cancels, or the ten minutes are over.
Decline(c) ==
    /\ pc[c] = "confirm"
    /\ Quiet
    /\ Finish(c, "declined", NoRecord)
    /\ UNCHANGED <<asked, answered, call, fingerprint, polled, historyVars>>

\* The context is read again, so that the plan is posted with what is true now.
GotRefresh(c) ==
    /\ Heard(c, "refresh") /\ answered[c].code = 200
    /\ fingerprint' = [fingerprint EXCEPT ![c] = answered[c].context]
    /\ Send(c, PostPlan("execute_external", PlanOf(c)))
    /\ Await(c, "execute")
    /\ Stay
    /\ UNCHANGED <<call, polled, historyVars, drift>>

\* As ExecuteDone would be if it did not look at the code of the answer.
ExecuteDoneAnyCode(c) ==
    /\ Heard(c, "execute") /\ answered[c].code # 202
    /\ Receive(c)
    /\ Finish(c, "record", [plan |-> answered[c].plan, status |-> answered[c].status])
    /\ UNCHANGED <<call, fingerprint, polled, historyVars, drift>>

ExecuteDone(c) ==
    /\ Heard(c, "execute") /\ answered[c].code # 202
    /\ Receive(c)
    /\ Finish(c, IF answered[c].code = 200 THEN "record" ELSE "refused",
              [plan |-> answered[c].plan, status |-> answered[c].status])
    /\ UNCHANGED <<call, fingerprint, polled, historyVars, drift>>

\* The editor wants a click as well: pollPendingPlan begins.
ExecutePending(c) ==
    /\ Heard(c, "execute") /\ answered[c].code = 202
    /\ Receive(c)
    /\ polled' = [polled EXCEPT ![c] = answered[c].plan]
    /\ Await(c, "pause")
    /\ Stay
    /\ UNCHANGED <<call, fingerprint, historyVars, drift>>

Poll(c) ==
    /\ pc[c] = "pause"
    /\ Send(c, GetPlan(polled[c]))
    /\ Await(c, "poll")
    /\ Stay
    /\ UNCHANGED <<call, fingerprint, polled, historyVars, drift>>

\* Anything but a decided record, a 404 included, is polled again.
PollUndecided(c) ==
    /\ Heard(c, "poll")
    /\ answered[c].code # 200 \/ answered[c].status = "PendingApproval"
    /\ Receive(c)
    /\ Await(c, "pause")
    /\ Stay
    /\ UNCHANGED <<call, fingerprint, polled, historyVars, drift>>

PollDecided(c) ==
    /\ Heard(c, "poll")
    /\ answered[c].code = 200 /\ answered[c].status # "PendingApproval"
    /\ Receive(c)
    /\ Finish(c, IF answered[c].status = "Superseded" THEN "declinedInEditor" ELSE "record",
              [plan |-> answered[c].plan, status |-> answered[c].status])
    /\ UNCHANGED <<call, fingerprint, polled, historyVars, drift>>

\* As Deadline would be in a loop that polls until the plan is decided.
NoDeadline(c) == FALSE /\ UNCHANGED everything

Deadline(c) ==
    /\ pc[c] = "pause"
    /\ Quiet
    /\ Finish(c, "waiting", [plan |-> polled[c], status |-> "PendingApproval"])
    /\ UNCHANGED <<asked, answered, call, fingerprint, polled, historyVars>>

\* The client closes stdin: the process exits under all its calls.
Exit ==
    /\ \E c \in Callers : pc[c] \notin {"idle", "done"}
    /\ Quiet
    /\ says' = [c \in Callers |-> IF pc[c] \in {"idle", "done"} THEN says[c] ELSE "exited"]
    /\ pc' = [c \in Callers |-> IF pc[c] = "idle" THEN "idle" ELSE "done"]
    /\ UNCHANGED <<asked, answered, call, fingerprint, polled, reported, historyVars>>

\* What a call does once it has begun.
Continue(c) ==
    \/ Unreachable(c) \/ Timeout(c) \/ BodyTimeout(c)
    \/ ReadDone(c) \/ ContextFailed(c) \/ GotContext(c) \/ GotPreview(c)
    \/ Decline(c) \/ GotRefresh(c) \/ ExecuteDone(c) \/ ExecutePending(c)
    \/ Poll(c) \/ PollUndecided(c) \/ PollDecided(c) \/ Deadline(c)

-----------------------------------------------------------------------------
\* The bridge, which answers on the game thread whoever is still listening.
BridgeStep(c) ==
    /\ Handle(c) \/ HandleUnbound(c)
       \/ (pc[c] \in Awaiting /\ LoseAnswer(c))
    /\ made' = [made EXCEPT ![c] = @ \cup (DOMAIN plans' \ PlanIds)]
    /\ UNCHANGED <<callVars, shown, accepted, drift>>

World ==
    /\ drift < MaxDrift
    /\ drift' = drift + 1
    /\ Start \/ Stop \/ (Environment /\ UNCHANGED bridgeVars)
    /\ UNCHANGED <<callVars, historyVars>>

Panel ==
    /\ \/ GeneratePanelFolderPlan /\ Len(plans) < MaxPlans
       \/ ApproveCurrentPlan
       \/ ClearCurrentPlan
    /\ UNCHANGED <<bridgeVars, mcpVars>>

MCPInit ==
    /\ BridgeInit
    /\ pc = [c \in Callers |-> "idle"]
    /\ call \in [Callers -> {[tool |-> "observe", targets |-> {}]}]
    /\ fingerprint = [c \in Callers |-> NoContext]
    /\ polled = [c \in Callers |-> NoPlan]
    /\ says = [c \in Callers |-> "none"]
    /\ reported = [c \in Callers |-> NoRecord]
    /\ shown = [c \in Callers |-> NoContext]
    /\ accepted = [c \in Callers |-> FALSE]
    /\ made = [c \in Callers |-> {}]
    /\ drift = 0

MCPNext ==
    \/ \E c \in Callers :
          \/ StartReadOnly(c) \/ StartMutation(c) \/ Accept(c) \/ Continue(c)
          \/ BridgeStep(c)
    \/ Exit
    \/ World
    \/ Panel

\* Only the process's own timers and continuations are fair: neither the
\* bridge, nor the human, nor the agent need ever act.  The polling deadline is
\* wall-clock time, so it comes up at the head of the loop sooner or later.
MCPSpec ==
    /\ MCPInit
    /\ [][MCPNext]_everything
    /\ \A c \in Callers : WF_everything(Continue(c)) /\ SF_everything(Deadline(c))

-----------------------------------------------------------------------------
(***************************************************************************)
(* Properties.                                                             *)
(***************************************************************************)
\* The mutating plans of a call that have run.
Ran(c) == {id \in made[c] : PlanHasMutations(plans[id].request) /\ plans[id].runs > 0}

\* A call that told the agent nothing was done told the truth, then and ever
\* after: no request it left behind runs later.
NothingDoneIsTrue ==
    \A c \in Callers :
        says[c] \in {"declined", "declinedInEditor", "refused"} => Ran(c) = {}

\* However its timers, abandoned requests and polls interleave, a call applies
\* its mutation at most once.
AppliedAtMostOnce == \A c \in Callers : Cardinality(Ran(c)) <= 1

\* When the session asks the human, nothing runs before the human accepted.
NothingRunsUnasked ==
    Elicitation => \A c \in Callers : Ran(c) # {} => accepted[c]

\* The record a call reports is one its own request created, and what it says
\* of it is still so.
ReportIsTrue ==
    \A c \in Callers :
        says[c] = "record" /\ reported[c].plan # NoPlan =>
            /\ reported[c].plan \in made[c]
            /\ reported[c].status \in Terminal =>
                  plans[reported[c].plan].status = reported[c].status

\* What the agent learns of its mutation from the answer of a call.
Told(c) ==
    CASE says[c] = "none" -> "nothing yet"
      [] says[c] \in {"declined", "declinedInEditor", "refused"} -> "nothing done"
      [] says[c] = "record" /\ Risk(call[c].tool) # "ReadOnly" ->
            IF reported[c].status \in {"Executed", "Failed"} THEN "done" ELSE "nothing done"
      [] OTHER -> "no claim"

Promise == INSTANCE CallPromise WITH
    MustAsk <- Elicitation,
    consent <- accepted,
    applied <- [c \in Callers |-> Ran(c)],
    told <- [c \in Callers |-> Told(c)]

\* Behind its requests, timers and polls a call does what its agent and its
\* human think it does: a plan is applied after the yes, once, before the call
\* says so, and never after the call has said what became of it.
CallsKeepTheirPromise == Promise!PromiseSpec

\* Every tool call is answered, whatever the bridge and the humans do.
EveryCallIsAnswered == \A c \in Callers : pc[c] \notin {"idle", "done"} ~> pc[c] = "done"

\* README: "approval is refused if the world/selection changed after the preview".
PreviewedContextHolds ==
    \A c \in Callers :
        accepted[c] => \A id \in Ran(c) :
            /\ plans[id].request.scene = shown[c].scene
            /\ plans[id].request.seen = shown[c].seen

\* The server's comment: "Do NOT present a timeout as a clean failure: a write
\* may have applied."
CleanFailureIsClean == \A c \in Callers : says[c] = "failed" => Ran(c) = {}
=============================================================================
