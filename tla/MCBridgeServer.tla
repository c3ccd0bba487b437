--------------------------- MODULE MCBridgeServer ---------------------------
(***************************************************************************)
(* Small instances of BridgeServer for TLC.                                *)
(***************************************************************************)
EXTENDS BridgeServer

CONSTANTS w1, a1, c1

BridgeRequest(tool, seen) ==
    [tool |-> tool, targets |-> {a1}, scene |-> w1, seen |-> seen, wellFormed |-> TRUE]

\* The edit was built with the actor selected, the deletion with nothing selected.
BridgeRequests == {BridgeRequest("edit", {a1}), BridgeRequest("delete", {})}

=============================================================================
