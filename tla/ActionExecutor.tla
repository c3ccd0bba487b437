--------------------------- MODULE ActionExecutor ---------------------------
(***************************************************************************)
(* FUE5MCPActionExecutor: running the actions of an approved plan.         *)
(*                                                                         *)
(* A plan is validated when it is proposed and runs when it is approved.   *)
(* It holds weak pointers to its targets, so what the user destroys in     *)
(* between is skipped, and the allowlists, the package files and the       *)
(* settings are read again.  The whole loop runs inside one editor         *)
(* transaction on the game thread: each action of the plan is one step     *)
(* here and nothing else moves between two of them.                        *)
(*                                                                         *)
(* An edit writes one attribute of an actor.  `edited' holds the (actor,   *)
(* attribute) pairs whose value is the one the plans write.                *)
(***************************************************************************)
EXTENDS Naturals, Sequences, FiniteSets

CONSTANTS
    Actors,         \* actor objects, those not spawned yet included
    Packages,
    Home,           \* the package that holds each actor
    LevelPackage,   \* the package of the editor world
    Rootless,       \* actors without a root component
    Levels,         \* the actors that may exist at the start
    Plans,          \* the plans that may be proposed
    Fits,           \* how a property write may fit the actors
    FileStates,     \* the [disk, scm] pairs a package's file may be in
    MaxRounds       \* bound on the plans proposed, for model checking

Attributes == {"folder", "label", "tags", "transform", "property"}

Edits == {"set_actor_folder", "set_actor_label", "add_actor_tags",
          "remove_actor_tags", "set_actor_property", "set_actor_transform"}
Tools == Edits \cup {"observe", "select_actors", "duplicate_actor_with_offset",
          "spawn_actor_from_class", "delete_actor", "check_out_package"}

\* A resolved action; `count' is the number of spawn instances, `package' the
\* one to check out.
Action == [tool : Tools, targets : Seq(Actors), count : Nat, package : Packages]

\* How the property and the live actor agree: its owner is found or not, and,
\* once found, the asset (missing, or of a class its owner's entry does not
\* allow), the value or the override flag is wrong.
Fit == {"fits", "missed", "asset_class_not_allowed", "property_type_mismatch",
        "override_flag_not_found"}

FileState == [disk : {"absent", "writable", "read_only"},
              scm : {"unknown", "checked_out_other", "checked_out", "added",
                     "deleted", "not_controlled", "not_current", "up_to_date"}]

ASSUME ExecutorAssumption ==
    /\ Home \in [Actors -> Packages] /\ LevelPackage \in Packages
    /\ Rootless \subseteq Actors /\ Levels \subseteq SUBSET Actors
    /\ Plans \subseteq Seq(Action)
    /\ Fits \subseteq [Actors -> Fit]
    /\ FileStates \subseteq FileState
    /\ MaxRounds \in Nat

VARIABLES
    live,           \* the actors that exist
    edited,
    selected,
    fit,            \* how property writes fit each actor; fixed by its class
    dirty,          \* packages with unsaved changes
    files,          \* the state of each package's file, as the provider has it cached
    sourceControl,  \* "disabled", "unavailable" or "available"
    allowlisted,    \* the class, mesh and property the plans name are allowlisted
    bBlockMutationsToUnwritablePackages,
    bAllowSourceControlCheckout,
    pc,             \* "idle", "pending", "running" or "done"
    plan,
    results,        \* ActionResults
    recorded,       \* the transaction: actors it can restore
    before,         \* the level when the transaction began
    rounds

levelVars == <<live, edited, selected, dirty>>
policyVars == <<files, sourceControl, allowlisted,
                bBlockMutationsToUnwritablePackages, bAllowSourceControlCheckout>>
planVars == <<plan, before, rounds>>
execVars == <<levelVars, policyVars, planVars, fit, pc, results, recorded>>

\* The places in the target list whose weak pointers still resolve, and the
\* actors there; a list may name an actor twice.
Valid(action) == {k \in DOMAIN action.targets : action.targets[k] \in live}

At(action, places) == {action.targets[k] : k \in places}

Targets(action) == At(action, DOMAIN action.targets)

ValidTargets(action) == At(action, Valid(action))

\* Every target was reached, and there was one.
AllOf(action, places) == places # {} /\ places = DOMAIN action.targets

-----------------------------------------------------------------------------
(***************************************************************************)
(* The package write policy.                                               *)
(***************************************************************************)
\* The state DescribeActionPackages hands on.
SourceControlState(p) ==
    IF sourceControl = "available" /\ files[p].disk # "absent"
    THEN files[p].scm ELSE "source_control_disabled"

EvaluatePackageWritability(p) ==
    \/ files[p].disk = "absent"
    \/ /\ SourceControlState(p) # "checked_out_other"
       /\ \/ SourceControlState(p) \in {"checked_out", "added"}
          \/ files[p].disk # "read_only"

\* As ActionPackages would be if the first target spoke for all.
FirstPackage(action) ==
    {Home[action.targets[k]] :
        k \in {j \in Valid(action) : \A i \in Valid(action) : j <= i}}

\* The packages the policy looks at: the targets' and, for a spawn, the world's.
ActionPackages(action) ==
    {Home[a] : a \in ValidTargets(action)} \cup
    (IF action.tool = "spawn_actor_from_class" THEN {LevelPackage} ELSE {})

IsBlockedByPackageWritePolicy(action) ==
    /\ action.tool \notin {"observe", "select_actors", "check_out_package"}
    /\ bBlockMutationsToUnwritablePackages
    /\ \E p \in ActionPackages(action) : ~EvaluatePackageWritability(p)

-----------------------------------------------------------------------------
(***************************************************************************)
(* The handlers.  Each leaves one result: whether it succeeded, the count  *)
(* it reports, the refusal code and, as history, the actors it changed.    *)
(***************************************************************************)
Changed(a) ==
    \/ (a \in live) # (a \in live')
    \/ \E x \in Attributes : (<<a, x>> \in edited) # (<<a, x>> \in edited')

Report(action, success, count, refusal) ==
    results' = Append(results,
        [action |-> action, success |-> success, changed |-> count, refusal |-> refusal,
         touched |-> {a \in Actors : Changed(a)}])

Refuse(action, refusal) ==
    /\ UNCHANGED <<levelVars, recorded, files>>
    /\ Report(action, FALSE, 0, refusal)

\* Modify, write and MarkPackageDirty on each actor of a set.
Write(actors, attribute) ==
    /\ edited' = edited \cup (actors \X {attribute})
    /\ recorded' = recorded \cup actors
    /\ dirty' = dirty \cup {Home[a] : a \in actors}
    /\ UNCHANGED <<live, selected, files>>

\* The read tools.  Those that read an actor refuse when it is gone or lacks
\* what they read.
ExecuteReadOnly(action) ==
    /\ action.tool = "observe"
    /\ \/ /\ UNCHANGED <<levelVars, recorded, files>>
          /\ Report(action, TRUE, 0, "none")
       \/ /\ action.targets # <<>>
          /\ Refuse(action, IF Valid(action) = {} THEN "no_valid_targets"
                                                   ELSE "property_owner_not_found")

\* As ExecuteSetActorFolder would be if one changed target were enough.
ExecuteSetSomeFolder(action) ==
    /\ action.tool = "set_actor_folder"
    /\ Write(ValidTargets(action), "folder")
    /\ Report(action, Valid(action) # {}, Cardinality(Valid(action)), "none")

\* As it would be if the body had been copied from ExecuteSetActorLabel.
ExecuteSetFolderAsLabel(action) ==
    /\ action.tool = "set_actor_folder"
    /\ Write(ValidTargets(action), "label")
    /\ Report(action, AllOf(action, Valid(action)),
              Cardinality(Valid(action)), "none")

ExecuteSetActorFolder(action) ==
    /\ action.tool = "set_actor_folder"
    /\ Write(ValidTargets(action), "folder")
    /\ Report(action, AllOf(action, Valid(action)),
              Cardinality(Valid(action)), "none")

ExecuteSetActorLabel(action) ==
    /\ action.tool = "set_actor_label"
    /\ Write(ValidTargets(action), "label")
    /\ Report(action, AllOf(action, Valid(action)),
              Cardinality(Valid(action)), "none")

\* As ExecuteAddActorTags would be if the actors were not put in the transaction,
\* or if every valid target counted.
ExecuteAddTagsUnrecorded(action) ==
    LET lacking == {a \in ValidTargets(action) : <<a, "tags">> \notin edited}
    IN  /\ action.tool = "add_actor_tags"
        /\ edited' = edited \cup (lacking \X {"tags"})
        /\ dirty' = dirty \cup {Home[a] : a \in lacking}
        /\ UNCHANGED <<live, selected, files, recorded>>
        /\ Report(action, AllOf(action, Valid(action)),
                  Cardinality(lacking), "none")

ExecuteAddTagsCountingAll(action) ==
    LET lacking == {a \in ValidTargets(action) : <<a, "tags">> \notin edited}
    IN  /\ action.tool = "add_actor_tags"
        /\ Write(lacking, "tags")
        /\ Report(action, AllOf(action, Valid(action)),
                  Cardinality(Valid(action)), "none")

\* Idempotent: only actors that lack a tag are modified and counted.
ExecuteAddActorTags(action) ==
    LET lacking == {a \in ValidTargets(action) : <<a, "tags">> \notin edited}
    IN  /\ action.tool = "add_actor_tags"
        /\ Write(lacking, "tags")
        /\ Report(action, AllOf(action, Valid(action)),
                  Cardinality(lacking), "none")

ExecuteRemoveActorTags(action) ==
    LET carrying == {a \in ValidTargets(action) : <<a, "tags">> \in edited}
    IN  /\ action.tool = "remove_actor_tags"
        /\ edited' = edited \ (carrying \X {"tags"})
        /\ recorded' = recorded \cup carrying
        /\ dirty' = dirty \cup {Home[a] : a \in carrying}
        /\ UNCHANGED <<live, selected, files>>
        /\ Report(action, AllOf(action, Valid(action)),
                  Cardinality(carrying), "none")

ExecuteSetActorTransform(action) ==
    LET placed == {k \in Valid(action) : action.targets[k] \notin Rootless}
    IN  /\ action.tool = "set_actor_transform"
        /\ Write(At(action, placed), "transform")
        /\ Report(action, AllOf(action, placed), Cardinality(placed), "none")

(***************************************************************************)
(* ExecuteSetActorProperty goes through the targets in order.  A missing   *)
(* owner is skipped; a wrong asset, value or flag ends the action at that  *)
(* target, with what came before it written.  A missing override flag is   *)
(* found out after the value has been written.                             *)
(***************************************************************************)
Fatal == Fit \ {"fits", "missed"}

ExecuteSetActorProperty(action) ==
    LET fits(k) == fit[action.targets[k]]
        fatal == {k \in Valid(action) : fits(k) \in Fatal}
        visited == {k \in Valid(action) : \A j \in fatal : k <= j}
        written == {k \in visited : fits(k) \in {"fits", "override_flag_not_found"}}
        modified == written \cup {k \in visited : fits(k) = "property_type_mismatch"}
        resolved == {k \in visited : fits(k) = "fits"}
        new == {a \in At(action, resolved) : <<a, "property">> \notin edited}
    IN  /\ action.tool = "set_actor_property"
        /\ \/ ~allowlisted /\ Refuse(action, "property_not_allowlisted")
           \/ /\ allowlisted
              /\ edited' = edited \cup (At(action, written) \X {"property"})
              /\ recorded' = recorded \cup At(action, modified)
              /\ dirty' = dirty \cup {Home[a] : a \in At(action, modified)}
              /\ UNCHANGED <<live, selected, files>>
              /\ \/ /\ fatal = {}
                    /\ Report(action, AllOf(action, resolved), Cardinality(new), "none")
                 \/ \E k \in fatal \cap visited : Report(action, FALSE, 0, fits(k))

\* The selection may be locked.
ExecuteSelectActors(action) ==
    LET wanted == ValidTargets(action)
    IN  /\ action.tool = "select_actors"
        /\ selected' \in IF wanted = {} THEN {selected} ELSE {selected, wanted}
        /\ UNCHANGED <<live, edited, dirty, recorded, files>>
        /\ LET done == {k \in Valid(action) : action.targets[k] \in selected'}
           IN  Report(action, wanted # {} /\ done = Valid(action), Cardinality(done), "none")

\* New actors come into being: objects that no target of the plan points to.  No
\* level is asked for, so the editor puts them into the current one, whose package
\* may be another than the policy has looked at, or into files of their own.
Create(new) ==
    /\ new \subseteq Actors \ (live \cup recorded)
    /\ \A k \in DOMAIN plan : new \cap Targets(plan[k]) = {}
    /\ live' = live \cup new
    /\ recorded' = recorded \cup new
    /\ dirty' = dirty \cup {Home[a] : a \in new}
    /\ UNCHANGED <<selected, edited, files>>

ExecuteDuplicateActorWithOffset(action) ==
    /\ action.tool = "duplicate_actor_with_offset"
    /\ \E new \in SUBSET Actors :
          /\ Cardinality(new) <= Cardinality(Valid(action))
          /\ Create(new)
          /\ Report(action, new # {} /\ Cardinality(new) = Cardinality(Valid(action)),
                    Cardinality(new), "none")

ExecuteSpawnActorFromClass(action) ==
    /\ action.tool = "spawn_actor_from_class"
    /\ \/ ~allowlisted /\ Refuse(action, "class_not_allowlisted")
       \/ /\ allowlisted
          /\ \E new \in SUBSET Actors :
                /\ Cardinality(new) <= action.count
                /\ Create(new)
                /\ Report(action, new # {} /\ Cardinality(new) = action.count,
                          Cardinality(new), "none")

\* DestroyActors may fail for some.  The count is of the targets that are gone
\* afterwards, whoever destroyed them; what it is compared with is not.
ExecuteDeleteActor(action) ==
    /\ action.tool = "delete_actor"
    /\ \E gone \in SUBSET ValidTargets(action) :
          LET count == IF Valid(action) = {} THEN 0
                       ELSE Cardinality({k \in DOMAIN action.targets :
                                           action.targets[k] \notin live \ gone})
          IN  /\ live' = live \ gone
              /\ selected' = selected \ gone
              /\ recorded' = recorded \cup gone
              /\ dirty' = dirty \cup {Home[a] : a \in gone}
              /\ UNCHANGED <<edited, files>>
              /\ Report(action, count > 0 /\ count = Cardinality(Valid(action)), count, "none")

\* The guards in the code's order; the checkout itself may fail.
ExecuteCheckOutPackage(action) ==
    LET p == action.package
    IN  /\ action.tool = "check_out_package"
        /\ CASE ~bAllowSourceControlCheckout -> Refuse(action, "source_control_checkout_disabled")
             [] bAllowSourceControlCheckout /\ sourceControl # "available" ->
                    Refuse(action, "source_control_unavailable")
             [] bAllowSourceControlCheckout /\ sourceControl = "available"
                /\ files[p].disk = "absent" -> Refuse(action, "package_not_found")
             [] OTHER ->
                \/ /\ files[p].scm = "not_controlled"
                   /\ Refuse(action, "package_not_source_controlled")
                \/ /\ files[p].scm = "checked_out_other"
                   /\ Refuse(action, "checked_out_by_other")
                \/ /\ files[p].scm = "checked_out"
                   /\ UNCHANGED <<levelVars, recorded, files>>
                   /\ Report(action, TRUE, 0, "none")
                \/ /\ files[p].scm \notin {"not_controlled", "checked_out_other", "checked_out"}
                   /\ \/ Refuse(action, "checkout_failed")
                      \/ /\ files' = [files EXCEPT ![p] = [disk |-> "writable",
                                                           scm |-> "checked_out"]]
                         /\ UNCHANGED <<levelVars, recorded>>
                         /\ Report(action, TRUE, 1, "none")

-----------------------------------------------------------------------------
(***************************************************************************)
(* ExecuteApprovedPlan.  The transaction exists when the plan mutates; the *)
(* service has refused plans that must not run now.                        *)
(***************************************************************************)
Begin ==
    /\ pc = "pending"
    /\ pc' = "running"
    /\ results' = <<>>
    /\ recorded' = {}
    /\ before' = [live |-> live, edited |-> edited, selected |-> selected]
    /\ UNCHANGED <<levelVars, policyVars, fit, plan, rounds>>

HasMutations ==
    \E k \in DOMAIN plan : plan[k].tool \notin {"observe", "check_out_package"}

\* One turn of the loop: a blocked or failed action does not end it.
ExecuteAction(action) ==
    /\ \/ /\ IsBlockedByPackageWritePolicy(action)
          /\ Refuse(action, "package_not_writable")
       \/ /\ ~IsBlockedByPackageWritePolicy(action)
          /\ \/ ExecuteReadOnly(action)
             \/ ExecuteSetActorFolder(action) \/ ExecuteSetActorLabel(action)
             \/ ExecuteAddActorTags(action) \/ ExecuteRemoveActorTags(action)
             \/ ExecuteSetActorProperty(action) \/ ExecuteSetActorTransform(action)
             \/ ExecuteSelectActors(action) \/ ExecuteDuplicateActorWithOffset(action)
             \/ ExecuteSpawnActorFromClass(action) \/ ExecuteDeleteActor(action)
             \/ ExecuteCheckOutPackage(action)
    /\ UNCHANGED <<planVars, fit, sourceControl, allowlisted,
                   bBlockMutationsToUnwritablePackages, bAllowSourceControlCheckout>>

ExecuteApprovedPlan ==
    /\ pc = "running"
    /\ \/ /\ Len(results) < Len(plan)
          /\ ExecuteAction(plan[Len(results) + 1])
          /\ UNCHANGED pc
       \/ /\ Len(results) = Len(plan)
          /\ pc' = "done"
          /\ UNCHANGED <<levelVars, policyVars, planVars, fit, results, recorded>>

\* The plan's transaction is undone as one step: what it recorded is restored.
Undo ==
    /\ pc = "done" /\ HasMutations
    /\ live' = (live \ recorded) \cup (before.live \cap recorded)
    /\ edited' = {e \in edited : e[1] \notin recorded}
                     \cup {e \in before.edited : e[1] \in recorded}
    /\ selected' = selected \cap live'
    /\ pc' = "idle"
    /\ UNCHANGED <<dirty, policyVars, planVars, fit, results, recorded>>

-----------------------------------------------------------------------------
(***************************************************************************)
(* Between two executions: validation resolves the targets of the next     *)
(* plan, and the user, the team and the settings move on.                  *)
(***************************************************************************)
Propose ==
    /\ pc \in {"idle", "done"} /\ rounds < MaxRounds
    /\ rounds' = rounds + 1
    /\ plan' \in {p \in Plans : \A k \in DOMAIN p : Targets(p[k]) \subseteq live}
    /\ pc' = "pending"
    /\ UNCHANGED <<levelVars, policyVars, before, fit, results, recorded>>

Environment ==
    /\ pc = "pending"
    /\ \/ /\ \E a \in live : live' = live \ {a}
          /\ selected' = selected \cap live'
          /\ UNCHANGED policyVars
       \/ /\ \E p \in Packages, s \in FileStates : files' = [files EXCEPT ![p] = s]
          /\ UNCHANGED <<live, selected, sourceControl, allowlisted,
                bBlockMutationsToUnwritablePackages, bAllowSourceControlCheckout>>
       \/ /\ sourceControl' \in {"disabled", "unavailable", "available"}
          /\ allowlisted' \in BOOLEAN
          /\ bBlockMutationsToUnwritablePackages' \in BOOLEAN
          /\ bAllowSourceControlCheckout' \in BOOLEAN
          /\ UNCHANGED <<live, selected, files>>
    /\ UNCHANGED <<edited, dirty, planVars, fit, pc, results, recorded>>

ExecutorInit ==
    /\ live \in Levels
    /\ edited \in {{}, live \X {"tags"}}
    /\ selected = {} /\ dirty = {} /\ rounds = 0
    /\ fit \in Fits
    /\ files \in [Packages -> FileStates]
    /\ sourceControl = "available"
    /\ allowlisted = TRUE
    /\ bBlockMutationsToUnwritablePackages = TRUE
    /\ bAllowSourceControlCheckout = FALSE
    /\ pc = "idle" /\ plan = <<>> /\ results = <<>> /\ recorded = {}
    /\ before = [live |-> {}, edited |-> {}, selected |-> {}]

ExecutorNext == Propose \/ Environment \/ Begin \/ ExecuteApprovedPlan \/ Undo

ExecutorSpec == ExecutorInit /\ [][ExecutorNext]_execVars

-----------------------------------------------------------------------------
(***************************************************************************)
(* Properties.                                                             *)
(***************************************************************************)
\* One Ctrl+Z: however its actions fail half-way, every actor that an execution
\* changed is in its transaction, so that undoing it restores the level.
OneUndoRevertsThePlan ==
    pc \in {"running", "done"} =>
        \A a \in Actors \ recorded :
            /\ (a \in live) = (a \in before.live)
            /\ \A x \in Attributes : (<<a, x>> \in edited) = (<<a, x>> \in before.edited)

Attribute(tool) ==
    CASE tool = "set_actor_folder" -> "folder" [] tool = "set_actor_label" -> "label"
      [] tool \in {"add_actor_tags", "remove_actor_tags"} -> "tags"
      [] tool = "set_actor_transform" -> "transform"
      [] OTHER -> "property"

\* An edit that says it succeeded left every target it was asked for edited: one
\* that went stale while the plan awaited approval is never passed over.
SuccessReachesEveryTarget ==
    [][\A k \in DOMAIN results' \ DOMAIN results :
          LET action == results'[k].action
              asked == Targets(action) IN
          results'[k].success =>
              /\ action.tool \in Edits \ {"remove_actor_tags"} =>
                    asked \subseteq live' /\ asked \X {Attribute(action.tool)} \subseteq edited'
              /\ action.tool = "remove_actor_tags" =>
                    asked \subseteq live' /\ asked \X {"tags"} \cap edited' = {}]_execVars

\* A tag edit reports as changed exactly the actors it changed.
TagCountsAreTrue ==
    \A k \in DOMAIN results :
        results[k].action.tool \in {"add_actor_tags", "remove_actor_tags"} =>
            results[k].changed = Cardinality(results[k].touched)

\* A file is saved only if nobody else holds it and, when read-only, we do.
Savable(p) ==
    LET held == sourceControl = "available" /\ files[p].scm \in {"checked_out", "added"}
        elsewhere == sourceControl = "available" /\ files[p].scm = "checked_out_other"
    IN  files[p].disk = "absent" \/ (~elsewhere /\ (held \/ files[p].disk = "writable"))

\* The packages of some actors.
Homes(actors) == {Home[a] : a \in actors}

\* While the write policy is on, no action edits or deletes an actor, of however many
\* it names, in a package that could not be saved, as far as the cached source-control
\* state tells: only the package a new actor is put into may be one.
WritePolicyHolds ==
    [][bBlockMutationsToUnwritablePackages =>
          \A p \in dirty' \ (dirty \cup Homes(live' \ live)) : Savable(p)]_execVars

\* What the plan names: the targets of each of its tools, the attributes they edit.
TargetsOf(tool) == {Targets(plan[k]) : k \in {j \in DOMAIN plan : plan[j].tool = tool}}

EditsOf(tools) == UNION {(UNION TargetsOf(tool)) \X {Attribute(tool)} : tool \in tools}

PlanNames ==
    [doomed |-> UNION TargetsOf("delete_actor"),
     choices |-> TargetsOf("select_actors"),
     creates |-> \E k \in DOMAIN plan :
        plan[k].tool \in {"duplicate_actor_with_offset", "spawn_actor_from_class"},
     writes |-> EditsOf(Edits \ {"remove_actor_tags"}),
     clears |-> EditsOf({"remove_actor_tags"})]

\* The loop as one step: nothing has happened until the transaction ends.
Transaction == INSTANCE PlanTransaction WITH
    live <- IF pc = "running" THEN before.live ELSE live,
    selected <- IF pc = "running" THEN before.selected ELSE selected,
    edited <- IF pc = "running" THEN before.edited ELSE edited,
    phase <- IF pc = "running" THEN "pending" ELSE pc,
    named <- PlanNames,
    undoable <- IF pc = "done" THEN [live |-> before.live, edited |-> before.edited]
                               ELSE [live |-> {}, edited |-> {}]

\* However its actions mix, fail half-way or pass stale targets over, the plan is
\* one step that destroys, selects, creates and edits only what it names, and one
\* undo is one step back to the level it found.
PlanRunsAsOne == Transaction!TransactionSpec

\* The executor's comment: "we derive the true count from the targets themselves".
DeletedCountIsTrue ==
    \A k \in DOMAIN results :
        results[k].action.tool = "delete_actor" =>
            results[k].changed = Cardinality(results[k].touched)

=============================================================================
