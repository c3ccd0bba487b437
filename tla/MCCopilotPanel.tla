--------------------------- MODULE MCCopilotPanel ---------------------------
(***************************************************************************)
(* A small instance of CopilotPanel for TLC.                               *)
(***************************************************************************)
EXTENDS CopilotPanel

CONSTANTS w1, a1

PanelPlan(tool, seen) ==
    [tool |-> tool, targets |-> {a1}, scene |-> w1, seen |-> seen, wellFormed |-> TRUE]

\* Enough to fill the slot, to decide it and to flood the records behind it.
PanelPlans == {PanelPlan("edit", {a1}), PanelPlan("delete", {})}

=============================================================================
