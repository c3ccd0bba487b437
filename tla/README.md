# UE5MCP in TLA+

UE5MCP lets an AI agent work in a live Unreal Editor. The agent calls MCP tools; a
Node process turns each call into a typed *plan* and posts it to an HTTP bridge inside
the editor plugin; the plugin validates the plan, makes sure a human approved it, and
runs it on the editor's game thread. This directory holds TLA+ modules translated from
that code, the TLC configurations that check them on small instances, and theorems
checked by TLAPS. Paths below are relative to `src/Source/UE5MCP/Private/` unless they
say otherwise.

## The system

| component | state it keeps | operations | talks to |
| --- | --- | --- | --- |
| Approval state (`UE5MCPApprovalState.cpp`) | `Records` (FIFO, 16), `CurrentPlanId`, `bLastPlanConsumed`; records shared by pointer | create, look up, supersede, consume, refuse as stale, compare a fingerprint | owned by the service |
| Editor service (`UE5MCPEditorService.cpp`) | the approval state; reads two settings, the world, the selection, play mode | submit, preview, external submit, panel generate, approve, clear | bridge and panel call it; it calls the validator and the executor |
| Plan validator, target resolver, tool registry | none (settings are read) | rules R1 to R12, resolve targets | service |
| Action executor (`UE5MCPActionExecutor.cpp`) | none; mutates the level inside one transaction | one handler per tool, package write policy | service |
| Preview model (`UE5MCPPreviewModel.cpp`) | none | one row per effect, with the current value of a property | service |
| Bridge server (`UE5MCPBridgeServer.cpp`) | `bRunning`, the bound routes | start, stop, four routes | HTTP clients; calls the service on the game thread |
| MCP server (`src/MCPServer/ue5mcp-server.mjs`) | pending elicitations, one async call per tool call | schemas and handlers of 19 tools; preview, elicit, re-fingerprint, execute, poll | agent over stdio, bridge over HTTP |
| Copilot panel (`SUE5MCPCopilotPanel.cpp`) | the listed rows | generate, approve, clear, refresh | calls the service, listens to its event |
| Log (`UE5MCPLog.cpp`) | a ring of 512 lines | append | everything; `read_logs` reads it |
| Settings (`UE5MCPSettings.cpp`) | allowlists, switches | defaults | read everywhere |
| JSON (`UE5MCPJson.cpp`) | none | parse a request, serialize records | bridge |
| Offline validator (`src/scripts/validate_plan.py`) | none | R1 to R11 on a file | agents, tests |
| Module, commands | none | start-up and shut-down, menu | service, bridge, editor |

Everything inside the plugin runs on the game thread and every handler runs to
completion, so a handler is one action. What is concurrent is everything around it:
the user edits the level and the selection, starts and stops play mode, loads maps,
reads and clicks in the panel and changes settings between any two handlers; several
tool calls of the MCP server are in flight at once, each with its own context, preview,
prompt, execution and polls; HTTP requests time out on the client while the game thread
still holds them.

The hard behaviours, each listed with its line in `PROJECT.json` under `hazards`: a
fingerprint taken before a prompt and used after it; a plan approved long after its
preview; a button that names no plan; a bridge call racing a click; a record evicted
while someone waits for it; a timeout racing the request it gave up on; a plan that runs
half of its actions; one allowlist walked in four different ways.

What makes each part correct:

- *Approval state and service*: one plan at a time awaits the human and can be found;
  a plan runs at most once, only through the gate its risk asks for, only in the world
  and with the selection it names; a decided plan never changes again.
- *Panel*: what it lists is what a click approves, and a click runs what was read.
- *Bridge*: a refusal means that nothing was done; a final answer stays final.
- *MCP server*: what the agent is told about "nothing done", "applied" and "declined" is
  true, a mutation is sent once and only after it was asked for, every call ends; its
  plans are never refused for what the server itself puts into them.
- *Executor*: one undo reverts a plan however its actions failed; results tell what
  happened; no edit and no deletion reaches a package that cannot be saved.
- *Property writes*: the object that is written is the one the preview showed and the
  agent inspected.
- *Validators*: the two implementations of the plan format agree, and a property is
  never written outside its allowed range.

## Modules

| module | models | composed from |
| --- | --- | --- |
| `ApprovalGate` | what the service promises about a plan's fate; `GateSpec` | |
| `ApprovalState` | `FUE5MCPApprovalState`, method by method | |
| `PlanEffects` | what a plan may do to the level, whichever of its actions fail; `Effect` | |
| `EditorService` | `FUE5MCPEditorService` with the editor around it; `Spec` | extends `ApprovalState` and `PlanEffects`, refines `ApprovalGate` |
| `CopilotPanel` | the tab and the person at it; `PanelSpec` | extends `EditorService` |
| `BridgeServer` | the HTTP routes, the game-thread queue, answers in flight; `BridgeSpec` | extends `EditorService` |
| `CallPromise` | what a tool call promises its agent; `PromiseSpec` | |
| `MCPServer` | tool calls of the Node process, the agent's human, time limits; `MCPSpec` | extends `BridgeServer`, refines `CallPromise` |
| `PlanTransaction` | what the executor promises of a plan as a whole; `TransactionSpec` | extends `PlanEffects` |
| `ActionExecutor` | the loop over a plan's actions and its handlers; `ExecutorSpec` | refines `PlanTransaction` |
| `PropertyAccess` | the walks over the property allowlist: inspect, validate, preview, write; `AccessSpec` | |
| `PlanValidator` | `ParsePlanRequest`, R1 to R12, `validate_plan.py`; `ValidatorSpec` | |
| `ToolCalls` | the schemas and handlers of the Node process, and the plans they make | extends `PlanValidator` |
| `EditorServiceProofs`, `ApprovalGateProofs`, `CopilotPanelProofs`, `BridgeServerProofs`, `MCPServerProofs`, `ActionExecutorProofs`, `PropertyAccessProofs`, `PlanValidatorProofs` | theorems | extend the module they name, or the service's proofs, and TLAPS |
| `MC*` | the small instances TLC checks | extend the module they instantiate |

**ApprovalGate.** Two variables: the risk of every plan ever asked for, and its fate. It
knows nothing of the record list, the slot, the settings or the editor. A plan is
observed, runs in the session, waits, or is turned down; a waiting plan ends by a click,
by the person's refusal, or is lost when younger plans push it out of sight.
`EditorService` instantiates it with `fate` computed from a record's status, its gate and
whether it can still be found (`ServiceKeepsTheGate`).

**ApprovalState, EditorService.** `plans` is every record ever created, by id; `Records`
is the list the code keeps, so a record that was evicted still has a history. `runs` and
`gate` of a record are history variables: how often it was executed and on whose word.
Each public method of the service is one action that makes every call the method makes,
and leaves in `reply` the refusal code and plan id it returns. The user is the action
`Environment`: selection, deletion of actors, play mode, another map or none, both
settings. Validation is modelled up to what these properties tell apart (the risk tier,
whether targets exist, whether the request is well formed); three modules below hold the
detail. A plan observes, edits, creates or deletes; running it has the `Effect` of
`PlanEffects` on the level and ends with or without errors.

**PlanEffects, PlanTransaction.** Where the service and the executor meet. `Effect` says
what any plan may do: some of the actors it deletes are gone, if it creates any some new
ones have come, and the selection is what is left of the old one or of one the plan made.
The service runs plans by it in one step. `PlanTransaction` adds the attributes a plan
writes and clears, and undo; `ActionExecutor`, whose loop takes one action at a time and
lets each fail, implements it (`PlanRunsAsOne`), with the level held back at what it was
at the approval until the loop is over. So a plan of several actions that fails halfway
is, from outside, one of the service's steps, and one undo takes it back.

**CopilotPanel.** The service broadcasts at the end of every handler but those that refuse
without leaving a record; the panel then copies the pending plan's rows. `aim` is a
history variable: the plan the person read before reaching for the button. Approve runs
whatever is in the slot when it is pressed, as in the code: the rows on the screen, which
are those of the plan that was read unless `MaxRecords` younger ones have pushed it out.

**BridgeServer.** A caller's request waits in `asked` until the engine's HTTP module
runs its handler on the game thread; the answer then waits in `answered` until the
caller reads it, has given up, or loses the connection (`LoseAnswer`). `Stop` and
`Start` may come at any time. Stopping keeps the service's records: only the routes go.

**MCPServer.** A call is a program counter per caller: context, preview, prompt, second
context, execution, polls, answer. `Continue` is the process reacting to an answer,
`Deadline` a time limit. The human may accept, decline or never react.

**CallPromise.** Three variables for each call: whether its human agreed, which plans were
applied for it, and what its agent was told (done, nothing done, or no claim). One plan at
most is applied, after the yes where the session asks, before the agent is told so, and
none after it was told what became of it; a call that ended without a claim, by a time
limit or with the process, may still be followed by its plan. `MCPServer` instantiates it
with `told` read off the answer of the call (`CallsKeepTheirPromise`).

**ActionExecutor.** Works at the level of attributes: `edited` holds the (actor,
attribute) pairs that carry the value the plans write. `recorded` is what the
transaction can restore. Where the editor puts a new actor (`Home`) is left open:
spawning and duplicating name no level, so it goes into the current one, perhaps a
sublevel with a package of its own, or into files of its own. The steps of one plan are
not interleaved with anything, since the loop runs on the game thread; between
validation and execution, however, actors are destroyed, files change hands and settings
change.

**PropertyAccess.** The owner of a property is found four times, by four pieces of code:
`get_actor_properties` looks for an object and then for an entry that allows each of its
fields; R12 stops at the first entry of the right kind; the preview stops at the first
entry that finds exactly one object; the executor asks every entry and refuses when two
disagree. An object is an actor or a named component, classes have ancestors, and
components and allowlist change between any two of the four.

**PlanValidator, ToolCalls.** A plan is given by the kind of JSON value in each field, so
that the conversions of the parser (numbers to text, "true" to a Boolean, an object where
text is expected passed over) are modelled by what they do. `ToolCalls` adds the third
copy of the tool registry, the one in the Node process: what its schemas admit, and the
plan each handler makes of a call.

## Runs

| run | instance | properties |
| --- | --- | --- |
| `gate` | 2 plans, 1 record, every tier and fingerprint | types; status tells whether it ran; gates; freshness; no displacement by the bridge; the confirmation setting; refinement of `ApprovalGate` |
| `panel` | 3 plans, 2 records, the tab opening and closing | one pending plan; FIFO; the consumed flag; decided is final; the rows; what a click runs |
| `bridge` | 1 client, 2 plans | refusals change nothing; final answers stay true; refinement of the service's `Spec` |
| `tool_call` | 1 call of any tool, elicitation on, 3 plans | `NothingDoneIsTrue`, `AppliedAtMostOnce`, `NothingRunsUnasked`, `ReportIsTrue`, `EveryCallIsAnswered`; refinement of `CallPromise` |
| `executor` | 2 actors and room for a third, 2 packages, plans of 1 to 3 actions | one undo; true results; write policy for edits and deletions; refinement of `PlanTransaction` |
| `property` | 1 light with up to 2 components, 4 classes, up to 2 allowlist entries | written as shown; told is written |
| `formats` | 1 or 2 actions, every param, 2 allowlist entries; every plan of the Node process with up to 2 optional arguments | agreement of the two validators and the server; ranges |
| `eviction`, `drifted`, `body_timeout`, `deletes`, `range` | as small as the case | one property each, violated |

Bounds. `MaxPlans` bounds how many plans a session creates and `MaxRecords` (16 in the
code) how many are kept. Two plans for a list of one let every plan push out the one
before it (`gate`); two records and three plans are enough for a plan to be superseded,
consumed and evicted in every order, and for a plan that was read to be pushed out
before the click (`panel`); the proofs hold for any numbers. One actor is enough where
only "selected or not, alive or not" matters; the executor needs two for partial
failures and a third to spawn, two packages for a plan that is blocked for one of them
only. A property write needs two components for ambiguity and for an ancestor class that
finds both, and two entries for entries that disagree in class, kind or range.
`MaxDrift` bounds how often the editor changes during a tool call: one change before and
one after each of its two contexts. `MaxRounds` bounds the plans given to the executor;
one is enough since nothing of an execution but the level survives it. Deadlock checking
is off where the instance ends: the executor after its last round, a plan once it is
judged. No run uses symmetry: each has a single actor or actors in different places.

Fairness. Only `MCPSpec` states any: `WF(Continue(c))`, since the process handles an
answer that arrived, and `SF(Deadline(c))`, since `AbortSignal.timeout`, the poll
interval and the poll deadline are timers of the process itself that fire by the clock.
Nothing is assumed of the bridge, the game thread, the user or the client: a call ends
even when none of them ever reacts. The elicitation has a timer too (ten minutes, in
`sendServerRequest`), which `Decline` stands for. Nothing else in the system promises to
make progress: a plan may wait for its click for ever.

## What disagrees

Each of these is a run that TLC ends with a counterexample:

- `eviction`: sixteen cheap reads evict a plan that awaits the human.
- `drifted`: the context is read again after the human accepted, so a selection changed
  meanwhile is accepted silently.
- `body_timeout`: a timeout while the body is read is reported as a plain failure.
- `deletes`: `delete_actor` counts targets that were gone before it ran, and compares the
  count with the targets that were not.
- `range`: the intensities of point and directional lights in the default allowlist have
  different ranges. `get_actor_properties` reports the one of the inspected light, R12 is
  content with the first, and the executor refuses a value that any of them excludes: a
  value that was listed, validated, previewed and approved is refused.

Seen while modelling and not given a run:

- `docs/specs/preview-approval-flow.md:121` says that execution halts at the first failed
  action; the loop (`UE5MCPActionExecutor.cpp:65`) goes on.
- The destructive submission that the same document answers with 409 is answered 400.
- `UE5MCPPreviewModel.cpp:27-29` says the preview resolves the owner "the same way the
  executor does"; with entries of different kinds for one property it may stop at another
  (the exception in `WrittenAsShown`). A current value that is the empty string is shown
  as unresolved.
- A property write that names a component and meets an entry for an actor class writes
  the actor itself (`EntryOwners`).
- `duplicate_actor_with_offset` succeeds with fewer copies than targets; a property write
  refused for an asset leaves earlier targets written.
- `docs/capabilities/README.md:201` says the executor refuses "any mutation that would
  dirty a package the editor cannot save" (and so does
  `docs/specs/preview-approval-flow.md:142`). A spawn (`UE5MCPActionExecutor.cpp:962`,
  without `OverrideLevel`) and a copy (line 876, with no target world) go into the current
  level, perhaps a sublevel, while `DescribeActionPackages` (lines 1319-1335) looks at the
  package of the world and at those of the sources. So `WritePolicyHolds` is stated of
  edits and deletions, and says nothing of the package of a new actor.
- `docs/specs/action-plan-format.md:56` says that `get_actor_properties` returns "exactly
  the `set_actor_property`-writable surface". It iterates over top-level properties
  (`UE5MCPActionExecutor.cpp:1504-1513`), so it never lists a dotted one, such as the
  default entry `PostProcessSettings.BloomIntensity` of `CameraComponent`
  (`UE5MCPSettings.cpp:86`), which the executor writes; and by default it leaves out what
  the editor does not let a user change, which the executor does not ask about (line 687).
  `range` refutes the same sentence the other way: what is listed may not be writable.
- A write refused at a later target reports that nothing changed, although earlier targets
  were written.
- Once `MaxRecords` younger plans have pushed the read plan out, a click runs another one,
  the one whose rows have replaced it on the screen (`ClickRunsWhatWasRead`).
- R8 is not enforced for `selected_object_paths`; ids that differ only in case and a
  folder named `None` pass the script and not the plugin (`PlaysOnNames`).
- The validator and the executor read an allowlist whose entries disagree about a value
  differently (`RefusedOnlyInDisagreement`).
- The server's schemas admit blank strings and tags and a transform that sets nothing,
  which the plugin refuses (the exceptions in `Usable`), and `max_objects` of
  `get_selection_context` is in the plugin's registry and not in the server's schema.

## Proofs

The theorems hold for every number of plans and records, every set of actors, worlds,
packages, classes, allowlists and requests. They assume what the modules name: the record
cap is positive and the other bounds are natural numbers (`MaxRecordsAssumption`,
`ServiceAssumption`); no world is called `NoWorld` and requests are typed
(`ServiceAssumption`); no plan is `NoRequest` (`BridgeAssumption`); the plans of tool
calls are among the requests (`MCPAssumption`); every actor has a package and the files
start in a state of their type (`ExecutorAssumption`); an allowlist entry is for an actor
class or a component class, never for an ancestor of both (`AccessAssumption`); class
paths are not among the words that stand for other kinds of JSON value
(`ValidatorAssumption`), params hold such kinds (`BodiesAssumption`), and what the Node
process sends is what its handlers make of calls that keep to the schemas, with one or two
entries in a preview (`CallsAssumption`). TLC evaluates each on every run of the module.

| theorem | states |
| --- | --- |
| `TypeCorrect` | `[]TypeOK` of the service |
| `OnePending` | the slot names the only pending record that can be found |
| `RecordsFifo` | `Records` holds the newest ids |
| `RunsAtMostOnce` | a plan runs at most once and its status tells whether it did |
| `GatesHold` | a mutation that ran passed the gate of its tier |
| `PendingIsGated` | a plan that waits is one a click may run |
| `DestructionIsConfirmed` | while the setting asks for a click, a deletion runs by a click |
| `MutationsAreFresh` | a mutation runs only in the world and selection it names |
| `FlagIsTruthful` | the consumed flag tells how the last plan left the slot |
| `DecidedRecordsAreFinal` | no step changes a decided record |
| `BridgeCannotDisplace` | no bridge call changes the pending plan |
| `StepShape` | every step changes the approval state in one of six ways |
| `ServiceImplementsGate` | the service implements `ApprovalGate` |
| `PanelIsAClient` | `PanelSpec => Spec` |
| `PanelMeetsTheGate` | and so implements `ApprovalGate` |
| `RowsAreRight` | the open tab lists the plan that awaits a decision, or nothing |
| `ClickIsForTheReadPlan` | a click runs the plan on the screen: the one that was read, unless a full list of younger plans has pushed it out |
| `BridgeImplementsService` | `BridgeSpec => Spec`, with the service's variables unchanged |
| `BridgeKeepsTheGates` | so the gates hold behind the bridge |
| `AnswersStayTrue` | an answer about a decided plan is true when it is read |
| `RefusalsAreHarmless` | a request answered 400, 403, 404 or 409 did nothing |
| `ServerIsAClient` | tool calls implement `BridgeSpec`, and so `Spec` |
| `AgentsMeetTheGate` | and so `ApprovalGate`, at the far end of the chain |
| `DenialsAreTrue` | an agent told that nothing was done is told the truth |
| `AppliedOnce` | a call applies its mutation at most once |
| `AskedBeforeRun` | with elicitation on, nothing runs before the human accepted |
| `ReportsAreTrue` | a reported record is the one the service holds |
| `PromisesAreKept` | every tool call is a behaviour of `CallPromise` |
| `OneUndo` | one undo reverts a plan, however its actions fail |
| `WritePolicy` | with the policy on, no edit or deletion dirties a package that cannot be saved |
| `SuccessIsComplete` | an edit that reports success reached every target |
| `TagCounts` | a tag edit counts exactly the actors it changed |
| `PlansAreAccountedFor` | at every action the level differs from the one at the approval by what the plan names |
| `PlanIsOneStep` | the executor implements `PlanTransaction` |
| `AccessTypes` | `[]AccessTypeOK`; a refused write has written nothing |
| `ShownIsWritten` | a write reaches an object whose value the preview showed |
| `AnswersNameTheObject` | a write made from an answer reaches the inspected object |
| `RangesHold` | no write is outside the range of an entry for its class |
| `RefusalsAreDisagreements` | the executor refuses an accepted write only where entries disagree |
| `TakenAsSent` | what both validators accept is taken as it was sent |
| `ScriptKeepsItsPromise` | what passes the script is refused for the property policy alone |
| `ServerIsHonest` | no plan of the server is refused for what the server puts into it |
| `UsableIsTaken` | a usable call is refused for the property policy alone, and passes the script |

**The service.** The service's handlers and the user change the approval state in only six
ways (`Shape`: nothing, a record is added, the pending one is replaced, superseded,
refused as stale, or run by a click). `StepShape` proves this once, handler by handler;
every invariant is then shown against six shapes. The inductive invariant is

    IInv == TypeOK /\ RecordsAreTheNewest /\ OnePendingPlan /\ StatusTellsWhetherItRan
            /\ MutationsPassTheirGate /\ PendingAwaitsItsGate

None of the safety invariants is inductive alone. `MutationsPassTheirGate` needs to know
that a destructive plan that is *pending* came through the external call, since a click
will run it (`PendingAwaitsItsGate`); that a click runs a plan that has not run needs
`StatusTellsWhetherItRan` for pending plans; `OnePendingPlan` needs `RecordsAreTheNewest`,
since whether a record can be found changes when another is added. `ConsumedFlagIsTruthful`
adds an invariant of its own about the last plan to leave the slot (`FlagInv`). The action
properties follow from the shapes and `TypeOK`: what runs at once is fresh and needs no
click (`MayRunAtOnce`), what runs later runs by the shape of a click. All of these are
checked by TLC in `gate` and `panel` as well.

**The gate.** The refinement computes each plan's fate from its record. Each of the six
shapes is one step of the gate: adding a record may at the same time push the waiting one
out of the list, and `FatesAfterArrival` shows that it pushes out at most that one, since
`OnePendingPlan` leaves no other waiting.

**The panel.** `PanelSpec` implements `Spec`, so the service's invariants hold under it.
Two facts carry the rest: a handler that does not broadcast changed nothing
(`SilenceIsQuiet`), and a call over the bridge never takes the slot from a plan that waits.
`AimInv` says that the plan the person read is in the slot or cannot be found any more; in
the latter case `PushedOutByYounger` counts the younger plans from `RecordsAreTheNewest`.
Nothing but a click runs a waiting plan (`ShutRunsNothing` for the tab that is shut).

**The bridge.** Each of its steps is one call of the service or, when it only moves a
message, the service's `ToggleSettings` with nothing toggled (a step that clears `reply`).
That a handler passes on a plan of `Requests` needs an invariant, `InFlight`: what is in
flight was sent by a caller. `AnswersInv` says of each answer in flight that it was true
when it was given; `DecidedIsFinal` keeps it true. `RefusalsAreHarmless` goes through what
each handler of the service answers: a code of a refusal leaves no record, or one that was
born decided and never ran.

**The MCP server.** Tool calls are clients of the bridge (`ServerIsAClient`). `CallInv`
says of every place a call can be in which of its requests made a plan, whether one of
them may still run (`Live`), and what the last answer told. A call has at most one live
plan; until it posts for execution it has none; once it polls, that plan is the one it
polls. What it reports, denies and applied follows from this.

For `PromisesAreKept` the calls must also be told apart: a plan was made for one call at
most (`PlansApart`), so that a click or an answer is a step of one call. The rest of
`PromiseInv` says of which kind a call's plans are (`KindOK`), what the answer on its way
says of them (`OutcomeOK`), and that what the agent was told is so (`ToldOK`). The plans
on record can run by a click alone (`OldPlanStep`), and a click runs one; a bridge handler
runs none but the one it creates. So every step is an agreement, an application or an
answer of one call, the end of the process, or none of these. A variant that reads every
answer to the execution as a record, a retry after an unreachable bridge, or a code of
the answer taken from the wrong status makes the proof fail at that step.

**The executor.** What a handler does is stated once, as `Shape`: it records every actor
it changes (`RecordsWhatItChanges`), it dirties only packages the policy has evaluated
and those of the actors it creates (`DirtiesOnly`), and its result tells what happened
(`ReportsTruly`). Twelve lemmas show it of the twelve handlers. `OneUndoRevertsThePlan`
is inductive given the first, since what is recorded stays recorded until the next plan
begins; `WritePolicy` follows from the second and from `WritableIsSavable`, which
compares the policy's test with what saving needs; the other two follow from the third.

The plan as one step needs an invariant about all the actions that have run so far:
`Accounted` compares the level with the one at the approval, and holds it to what the plan
names (`PlanNames`). Each handler has one of five effects on the level (`ActionEffects`),
each named by the plan, so the account goes on from action to action (`TurnIsAccounted`)
whichever of them fail; the step that ends the loop is then `Run`.

**Property writes.** `AccessInv` joins the types with what is remembered as long as
nothing has changed: the answer, the rows and the written objects are those the walks give
in the present state. The walks themselves are compared in lemmas about one state:
`LastIsFirst` (where the entries of the right kind agree and no other finds anything, the
first that finds an object finds theirs) and `OneObjectForBoth` (a plan for a listed field
reaches the inspected object). That a nonempty set of places in an allowlist has a first
one is the library's well-foundedness of the naturals.

**The validators.** `ValInv` says only that the verdicts are those of the two validators on
the body as it was sent. What they agree on is shown rule by rule and tool by tool in
lemmas about a single action. For the server, `RunIsHonest` and `PreviewIsHonest` say what
its handlers put into a plan, `SameRisk`, `SameTargets` and `SameArguments` that its copy
of the registry is the plugin's; a usable call then passes the script, and what passes the
script is taken (`ScriptKeepsItsPromise`).

`CallsKeepTheirPromise` and `PlanRunsAsOne` state safety alone: that a call ends is the
liveness property below, and that a loop ends is plain from its length.

Only model-checked: `EveryCallIsAnswered` (liveness under fairness is beyond the prover)
and, of course, the five properties that are violated. No recursion over data is proved
about: the modules use none.

## Not modelled

The Origin and Host checks and the size limit of the bridge, stateless filters before
the handlers; the text of previews (other than whose value a property row shows),
records and logs; the stdio framing; the bounds, filters and truncation of the read
tools (`find_actors`, `read_logs` and the log's ring, `get_package_status`,
`get_actor_components`, `list_capabilities`), which are functions of the moment that no
decision depends on; the formats of object paths; registration of menus and commands;
the repository's publication check. Nothing is persisted, so a restart of the editor is
the initial state. The service treats a plan as one action of its highest tier, with the
effect `ActionExecutor` is shown to have for a plan of several; that one mutation or
deletion among its actions makes the plan one is in `PlanValidator` (`Mutates`,
`Destroys`). The executor's own refusal of play mode repeats guards that the service has
passed in the same handler, so it cannot happen and is left out. Three hazards have no
property, for the reasons noted with them: the copies that `duplicate_actor_with_offset`
counts, the package that a new actor goes into, and the properties that are never listed.
What the executor knows of a file's state at the provider is the provider's cache; that
the cache may be out of date is outside this code, and `WritePolicyHolds` is about the
state the executor sees.

## Plan

Done: all modules above with their proofs; the refinement of `ApprovalGate` by the service
and, through it, by the panel and the tool calls; of `CallPromise` by the tool calls; of
`PlanTransaction`, whose effect the service runs plans by, by the executor. Left:

1. The read tools: the log ring, bounds and truncation of results.
2. What a property write and a rejected value do within `ActionExecutor`'s loop, taken from
   `PropertyAccess` rather than from a kind of value chosen with the plan.
