---------------------------- MODULE MCMCPServer ----------------------------
(***************************************************************************)
(* Small instances of MCPServer for TLC.                                   *)
(***************************************************************************)
EXTENDS MCPServer

CONSTANTS w1, a1, c1, c2

Tool(tool) == [tool |-> tool, targets |-> IF tool \in {"observe", "create"} THEN {} ELSE {a1}]

AllTools == {Tool(tool) : tool \in Tools}

\* Every plan these calls can post.
CallRequests ==
    {[tool |-> t.tool, targets |-> t.targets, scene |-> scene, seen |-> seen,
      wellFormed |-> TRUE] :
        t \in AllTools, scene \in Worlds \cup {NoWorld}, seen \in SUBSET Actors}

=============================================================================
