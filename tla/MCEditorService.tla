-------------------------- MODULE MCEditorService --------------------------
(***************************************************************************)
(* Small instances of EditorService for TLC.                               *)
(***************************************************************************)
EXTENDS EditorService

CONSTANTS w1, a1, a2

\* One request per risk tier for every fingerprint a client may have taken,
\* and one the validator refuses.
Request(tool, targets, seen) ==
    [tool |-> tool, targets |-> targets, scene |-> w1, seen |-> seen,
     wellFormed |-> TRUE]

GateRequests ==
    {Request("observe", {}, {})} \cup
    {Request(tool, {a1}, seen) : tool \in {"edit", "delete"}, seen \in {{}, {a1}}} \cup
    {[Request("edit", {a1}, {}) EXCEPT !.wellFormed = FALSE],
     Request("create", {}, {})}

\* Enough to fill the slot, to decide it and to flood the records behind it.
FloodRequests ==
    {Request("edit", {a1}, {a1}), Request("delete", {a1}, {})}

=============================================================================
