------------------------------ MODULE ToolCalls ------------------------------
(***************************************************************************)
(* The plans the MCP server makes of its tool calls (ue5mcp-server.mjs:    *)
(* the inputSchema of each tool and its handler).  The server holds a      *)
(* third copy of the registry of tools, their risks and their params,      *)
(* beside the plugin's and the script's.                                   *)
(*                                                                         *)
(* A call is what a client may send that keeps to the schema: a tool,      *)
(* actor paths and arguments.  The two tools that answer under another     *)
(* name go by the plugin's; preview_actions takes several entries.         *)
(***************************************************************************)
EXTENDS PlanValidator

\* As PLUGIN_TOOL_RISK would be if the destructive tool were forgotten.
ForgetfulRisk(tool) ==
    CASE tool \in {"get_selection_context", "find_actors", "read_logs", "get_package_status",
                   "get_actor_properties", "get_actor_components", "list_capabilities"}
             -> "read_only"
      [] OTHER -> "low_risk"

\* A name that is not in the table is taken for a low risk.
PLUGIN_TOOL_RISK(tool) ==
    CASE tool \in {"get_selection_context", "find_actors", "read_logs", "get_package_status",
                   "get_actor_properties", "get_actor_components", "list_capabilities"}
             -> "read_only"
      [] tool = "delete_actor" -> "destructive"
      [] OTHER -> "low_risk"

\* The arguments of each tool beside actor_paths.
Arguments(tool) ==
    CASE tool = "find_actors" -> {"class_path", "label_contains", "tag", "folder_path",
                                  "selected_only", "max_results"}
      [] tool = "read_logs" -> {"max_lines", "contains"}
      [] tool = "get_package_status" -> {"max_packages", "dirty_only"}
      [] tool = "get_actor_properties" -> {"component", "component_name", "editable_only",
                                           "allowlisted_only", "max_properties"}
      [] tool = "get_actor_components" -> {"max_components"}
      [] tool = "set_actor_folder" -> {"folder_path"}
      [] tool = "set_actor_label" -> {"label"}
      [] tool \in {"add_actor_tags", "remove_actor_tags"} -> {"tags"}
      [] tool = "set_actor_property" -> {"property", "value", "component", "component_name"}
      [] tool = "set_actor_transform" -> {"location", "rotation", "scale"}
      [] tool = "duplicate_actor_with_offset" -> {"offset"}
      [] tool = "spawn_actor_from_class" -> {"class_path", "transforms", "static_mesh",
                                             "label_base"}
      [] tool = "check_out_package" -> {"package_name"}
      [] OTHER -> {}

RequiredArguments(tool) ==
    CASE tool \in {"set_actor_folder", "set_actor_label", "add_actor_tags", "remove_actor_tags",
                   "duplicate_actor_with_offset", "check_out_package"} -> Arguments(tool)
      [] tool = "set_actor_property" -> {"property", "value"}
      [] tool = "spawn_actor_from_class" -> {"class_path", "transforms"}
      [] OTHER -> {}

TakesActorPaths(tool) ==
    tool \in {"get_actor_properties", "get_actor_components", "select_actors",
              "set_actor_folder", "set_actor_label", "add_actor_tags", "remove_actor_tags",
              "set_actor_property", "set_actor_transform", "duplicate_actor_with_offset",
              "delete_actor"}

\* As the schema would be without maxItems on transforms.
FitsWithoutMaximum(key, shape) ==
    CASE key \in VectorKeys -> shape = "vector"
      [] key \in FlagKeys -> shape = "flag"
      [] key \in NumberKeys -> shape = "number"
      [] key = "tags" -> shape \in {"names", "partial"}
      [] key = "transforms" -> shape \in {"placed", "many"}
      [] key = "value" -> shape # "object"
      [] OTHER -> shape \notin {"number", "object"}

\* The values a schema admits.  A string of spaces has a length, so that a tag may
\* still be blank; the elements of `value' are of any type.
Fits(key, shape) ==
    CASE key \in VectorKeys -> shape = "vector"
      [] key \in FlagKeys -> shape = "flag"
      [] key \in NumberKeys -> shape = "number"
      [] key = "tags" -> shape \in {"names", "partial"}
      [] key = "transforms" -> shape = "placed"
      [] key = "value" -> shape # "object"
      [] OTHER -> shape \notin {"number", "object"}

\* The arguments a call of the tool may have, at most n of them optional.
ArgumentsOf(tool, n) ==
    UNION {{f \in [ks -> UNION {Shapes(key) : key \in ks}] :
              \A key \in ks : f[key] \in Shapes(key) /\ Fits(key, f[key])} :
           ks \in {s \in SUBSET Arguments(tool) :
                     /\ RequiredArguments(tool) \subseteq s
                     /\ Cardinality(s \ RequiredArguments(tool)) <= n}}

\* A path may be the empty string.
ActorPaths(tool) == IF TakesActorPaths(tool) THEN {"live", "gone", "many", "bad_element"}
                                             ELSE {"empty"}

-----------------------------------------------------------------------------
\* The counter in an action's id is never reset.
makeAction(count, tool, risk, targets, params) ==
    [id |-> IF count = 1 THEN "a" ELSE "b", tool |-> tool, risk |-> risk,
     targets |-> targets, params |-> params]

\* `by' is for the properties: the handler that made the plan.
buildPlan(by, actions, secondConfirmation, fingerprint) ==
    [by |-> by, schema_version |-> "one",
     requires_approval |->
        IF \E k \in DOMAIN actions : actions[k].risk # "read_only" THEN "true" ELSE "false",
     requires_second_confirmation |-> IF secondConfirmation THEN "true" ELSE "false",
     context_fingerprint |-> fingerprint, actions |-> actions]

\* The editor may have no world; the selection is always listed.
fingerprintFromContext == {"full", "no_scene"}

\* The plans of the handlers that run one action.
HANDLERS(tool, targets, params) ==
    CASE tool \in ReadTools ->
           {buildPlan("runs", <<makeAction(1, tool, "read_only", targets, params)>>, FALSE, "absent")}
      [] tool = "delete_actor" ->
           {buildPlan("runs", <<makeAction(1, tool, "destructive", targets, params)>>, TRUE, f) :
               f \in fingerprintFromContext}
      [] OTHER ->
           {buildPlan("runs", <<makeAction(1, tool, "low_risk", targets, params)>>, FALSE, f) :
               f \in fingerprintFromContext}

\* Of each entry the schema asks for the tool only.
preview_actions(entries) ==
    LET actions == [k \in DOMAIN entries |->
            makeAction(k, entries[k].tool, PLUGIN_TOOL_RISK(entries[k].tool),
                       entries[k].targets, entries[k].params)]
    IN  {buildPlan("previews", actions, \E k \in DOMAIN actions : actions[k].risk = "destructive", f) :
            f \in fingerprintFromContext}

\* What the server sends is what its handlers make of calls that keep to the schemas;
\* a preview is made of the actions it lists.
ASSUME CallsAssumption ==
    /\ \A b \in Bodies : b.by = "runs" =>
          LET a == b.actions[1] IN
          /\ a.tool \in Tools /\ a.targets \in ActorPaths(a.tool)
          /\ RequiredArguments(a.tool) \subseteq DOMAIN a.params
          /\ DOMAIN a.params \subseteq Arguments(a.tool)
          /\ \A key \in DOMAIN a.params : Fits(key, a.params[key])
          /\ b \in HANDLERS(a.tool, a.targets, a.params)
    /\ \A b \in Bodies : b.by = "previews" =>
          DOMAIN b.actions \in {{1}, {1, 2}} /\ b \in preview_actions(b.actions)

-----------------------------------------------------------------------------
(***************************************************************************)
(* Properties.                                                             *)
(***************************************************************************)
\* ue5mcp-server.mjs:443: the server mirrors the risks "so the plan declares it
\* honestly".  Whatever entries an agent puts together, no plan of the server is refused
\* for what the server itself puts into it: version, ids, risks and the two flags.
DeclaredHonestly ==
    phase # "sent" /\ body.by \in {"runs", "previews"} =>
        plugin \cap {"R1", "R2", "R4", "R5", "R7"} = {}

\* A call is usable when its actors live, its strings are printable and no name is
\* None, its tags and value are of the types that are documented and listed in the
\* allowlists, a transform changes something, and the editor has a world.
Usable(b) ==
    \A k \in DOMAIN b.actions :
        LET a == b.actions[k] IN
        /\ a.targets \in {"live", "empty"}
        /\ \A key \in DOMAIN a.params :
              /\ a.params[key] \notin {"blank", "none", "partial"}
              /\ key = "value" => a.params[key] # "empty"
        /\ a.tool = "set_actor_transform" => DOMAIN a.params # {}
        /\ ~SpawnsUnlisted(a)
        /\ Mutates(b) => b.context_fingerprint = "full"

\* The schema lets an agent make no usable call that the plugin refuses for anything
\* but the property policy, or that the script, on the same plan, finds wrong.
UsableCallsAreTaken ==
    phase # "sent" /\ body.by = "runs" /\ Usable(body) =>
        plugin \subseteq {"R12"} /\ script = {}

=============================================================================
