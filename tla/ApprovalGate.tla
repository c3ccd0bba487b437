---------------------------- MODULE ApprovalGate ----------------------------
(***************************************************************************)
(* What the editor service promises about a plan's fate, without the       *)
(* record list, the slot, the settings or the editor.                      *)
(*                                                                         *)
(* Observation is answered at once and never waits.  A mutation runs only  *)
(* because a human said so: in the session, at once, or by a click, after  *)
(* it waited.  One plan waits at a time; only the person at the editor     *)
(* ends its wait, apart from one thing: younger plans can push it out of   *)
(* sight, and then it is lost for good.  Every other fate is final too.    *)
(***************************************************************************)
VARIABLES
    risk,       \* the risk tier of every plan ever asked for, by its id
    fate        \* what has become of it

gateVars == <<risk, fate>>

Mutations == {"LowMutation", "Destructive"}

Waiting == {id \in DOMAIN fate : fate[id] = "waiting"}

\* The ids that appear in a step.
NewIds == DOMAIN fate' \ DOMAIN fate

\* A plan arrives; `fates' is what has become of the others by then.
Arrive(id, itsRisk, itsFate, fates) ==
    /\ risk' = [p \in DOMAIN risk \cup {id} |-> IF p = id THEN itsRisk ELSE risk[p]]
    /\ fate' = [p \in DOMAIN fate \cup {id} |-> IF p = id THEN itsFate ELSE fates[p]]

Ended(id, how) == [fate EXCEPT ![id] = how]

\* An arrival may push the waiting plan out of sight.
Pushed == {fate} \cup {Ended(id, "lost") : id \in Waiting}

Observe ==
    \E id \in NewIds, fates \in Pushed : Arrive(id, "ReadOnly", "observed", fates)

RunAsAsked ==
    \E id \in NewIds, tier \in Mutations, fates \in Pushed : Arrive(id, tier, "session", fates)

TurnDown ==
    \E id \in NewIds, tier \in Mutations \cup {"ReadOnly"}, fates \in Pushed :
        Arrive(id, tier, "closed", fates)

\* A mutation waits only while none does, or in place of the one the person withdraws.
Wait ==
    \E id \in NewIds, tier \in Mutations : Waiting = {} /\ Arrive(id, tier, "waiting", fate)

WaitInstead ==
    \E id \in NewIds, old \in Waiting :
        Arrive(id, "LowMutation", "waiting", Ended(old, "closed"))

Decide ==
    /\ \E id \in Waiting, how \in {"click", "closed"} : fate' = Ended(id, how)
    /\ UNCHANGED risk

GateInit == DOMAIN risk = {} /\ DOMAIN fate = {}

GateNext == Observe \/ RunAsAsked \/ TurnDown \/ Wait \/ WaitInstead \/ Decide

GateSpec == GateInit /\ [][GateNext]_gateVars

=============================================================================
