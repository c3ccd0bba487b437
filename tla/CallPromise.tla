---------------------------- MODULE CallPromise ----------------------------
(***************************************************************************)
(* What a tool call promises its agent, without the requests, the timers,  *)
(* the record list or the slot behind it: one plan at most is applied for  *)
(* it, after its human agreed where the session asks; what it says of that *)
(* plan is so when it is said, and after a call has said what became of    *)
(* its plan nothing more becomes of it.  A call that was silenced promises *)
(* nothing: its plan may still be applied.                                 *)
(***************************************************************************)
CONSTANTS
    Callers,    \* the calls
    MustAsk     \* the session asks the human before a plan is applied

VARIABLES
    consent,    \* whether each call's human has agreed
    applied,    \* the plans applied for it
    told        \* what its agent was told

promiseVars == <<consent, applied, told>>

PromiseInit ==
    /\ consent = [c \in Callers |-> FALSE]
    /\ applied = [c \in Callers |-> {}]
    /\ told = [c \in Callers |-> "nothing yet"]

Agree(c) ==
    /\ told[c] = "nothing yet"
    /\ consent' = [consent EXCEPT ![c] = TRUE]
    /\ UNCHANGED <<applied, told>>

Apply(c) ==
    /\ told[c] \in {"nothing yet", "no claim"}
    /\ MustAsk => consent[c] = TRUE
    /\ applied[c] = {}
    /\ \E plan \in applied'[c] : applied' = [applied EXCEPT ![c] = {plan}]
    /\ UNCHANGED <<consent, told>>

Tell(c, what) ==
    /\ told[c] = "nothing yet"
    /\ what = "done" => applied[c] # {}
    /\ what = "nothing done" => applied[c] = {}
    /\ told' = [told EXCEPT ![c] = what]
    /\ UNCHANGED <<consent, applied>>

\* The process ends under its calls.
Silence ==
    /\ \E silenced \in SUBSET {c \in Callers : told[c] = "nothing yet"} :
          told' = [c \in Callers |-> IF c \in silenced THEN "no claim" ELSE told[c]]
    /\ UNCHANGED <<consent, applied>>

PromiseNext ==
    \/ \E c \in Callers :
          \/ Agree(c) \/ Apply(c)
          \/ \E what \in {"done", "nothing done", "no claim"} : Tell(c, what)
    \/ Silence

PromiseSpec == PromiseInit /\ [][PromiseNext]_promiseVars

=============================================================================
