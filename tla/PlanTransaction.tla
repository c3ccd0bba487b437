-------------------------- MODULE PlanTransaction --------------------------
(***************************************************************************)
(* What the executor promises of an approved plan as a whole: however its  *)
(* actions interleave success and failure, the plan takes the level from   *)
(* what it was at the approval to one the plan accounts for, in one step,  *)
(* and one undo takes it back.  Only a plan's run adds anything to the     *)
(* level; while it awaits approval, actors it names may go.                *)
(***************************************************************************)
EXTENDS PlanEffects

VARIABLES
    edited,     \* pairs of an actor and an attribute the plans have written
    phase,      \* "idle", "pending" or "done"
    named,      \* what the plan names: see Run
    undoable    \* the level before the plan that ran last, while it can be undone

transactionVars == <<live, selected, edited, phase, named, undoable>>

NotUndoable == [live |-> {}, edited |-> {}]

TransactionInit ==
    /\ live \subseteq Actors /\ selected \subseteq live
    /\ phase = "idle" /\ undoable = NotUndoable

\* The next plan; what it names is the client's choice.
Propose ==
    /\ phase \in {"idle", "done"} /\ phase' = "pending"
    /\ undoable' = NotUndoable
    /\ UNCHANGED <<live, selected, edited>>

\* Actors are destroyed between validation and approval.
Drift ==
    /\ phase = "pending"
    /\ live' \subseteq live /\ selected' = selected \cap live'
    /\ UNCHANGED <<edited, phase, named, undoable>>

\* The plan writes no attribute but those it names, and clears none but those.
Run ==
    /\ phase = "pending" /\ phase' = "done"
    /\ Effect(named.doomed, named.choices, named.creates)
    /\ edited \ named.clears \subseteq edited' /\ edited' \subseteq edited \cup named.writes
    /\ undoable' = [live |-> live, edited |-> edited]
    /\ UNCHANGED named

Undo ==
    /\ phase = "done" /\ phase' = "idle"
    /\ live' = undoable.live /\ edited' = undoable.edited
    /\ selected' = selected \cap live'
    /\ undoable' = NotUndoable
    /\ UNCHANGED named

TransactionNext == Propose \/ Drift \/ Run \/ Undo

TransactionSpec == TransactionInit /\ [][TransactionNext]_transactionVars

=============================================================================
