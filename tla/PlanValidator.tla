--------------------------- MODULE PlanValidator ---------------------------
(***************************************************************************)
(* The two validators of the plan format: the plugin (ParsePlanRequest,    *)
(* FUE5MCPPlanValidator and, for properties, the executor's second look)   *)
(* and scripts/validate_plan.py, which agents and the repository's tests   *)
(* run on the same JSON.                                                   *)
(*                                                                         *)
(* A plan is what its author sent: for each field the kind of JSON value   *)
(* that stands there, never its text.  The verdicts are the sets of rules  *)
(* R1 to R12 that each validator finds broken.                             *)
(***************************************************************************)
EXTENDS Naturals, Sequences, FiniteSets

CONSTANTS
    Bodies,         \* the plans that may be sent
    Allowlists,     \* the property allowlists a project may configure
    Owners          \* the classes that own the property the plans write

AllowEntries == [class : Owners, type : {"float", "int", "bool", "vector", "color", "name",
                                         "enum", "asset"},
                 admits : SUBSET {"low", "high"}]

\* A class path is a string of its own.
ASSUME ValidatorAssumption ==
    /\ \A l \in Allowlists : l \in Seq(AllowEntries)
    /\ Owners \cap {"none", "blank", "number", "flag", "vector", "color", "names", "placed",
                     "many", "empty", "partial", "object", "low", "high"} = {}

-----------------------------------------------------------------------------
(***************************************************************************)
(* The registry.  A tool accepts targets exactly when it requires them.    *)
(***************************************************************************)
ReadTools == {"get_selection_context", "find_actors", "read_logs", "get_package_status",
              "get_actor_properties", "get_actor_components", "list_capabilities"}
TargetTools == {"get_actor_properties", "get_actor_components", "select_actors",
                "set_actor_folder", "set_actor_label", "add_actor_tags",
                "remove_actor_tags", "set_actor_property", "set_actor_transform",
                "duplicate_actor_with_offset", "delete_actor"}
Tools == ReadTools \cup TargetTools \cup {"check_out_package", "spawn_actor_from_class"}

Risk(tool) == IF tool \in ReadTools THEN "read_only"
              ELSE IF tool = "delete_actor" THEN "destructive" ELSE "low_risk"

AllowedParams(tool) ==
    CASE tool = "get_selection_context" -> {"max_objects"}
      [] tool = "find_actors" -> {"class_path", "label_contains", "tag", "folder_path",
                                  "selected_only", "max_results"}
      [] tool = "read_logs" -> {"max_lines", "contains"}
      [] tool = "get_package_status" -> {"max_packages", "dirty_only"}
      [] tool = "get_actor_properties" -> {"component", "component_name", "editable_only",
                                           "allowlisted_only", "max_properties"}
      [] tool = "get_actor_components" -> {"max_components"}
      [] tool = "check_out_package" -> {"package_name"}
      [] tool = "set_actor_folder" -> {"folder_path"}
      [] tool = "set_actor_label" -> {"label"}
      [] tool \in {"add_actor_tags", "remove_actor_tags"} -> {"tags"}
      [] tool = "set_actor_property" -> {"property", "value", "component", "component_name"}
      [] tool = "set_actor_transform" -> {"location", "rotation", "scale"}
      [] tool = "duplicate_actor_with_offset" -> {"offset"}
      [] tool = "spawn_actor_from_class" -> {"class_path", "transforms", "static_mesh",
                                             "label_base"}
      [] OTHER -> {}

-----------------------------------------------------------------------------
(***************************************************************************)
(* The JSON values.  "none" is the string "None", "partial" an array with  *)
(* an element of the wrong kind, "many" one above the spawn limit, "low"   *)
(* and "high" are numbers for `value'; "text" is a numeric or Boolean      *)
(* string where a number or a Boolean is asked for.                        *)
(***************************************************************************)
VectorKeys == {"location", "rotation", "scale", "offset"}
FlagKeys == {"selected_only", "dirty_only", "editable_only", "allowlisted_only"}
NumberKeys == {"max_objects", "max_results", "max_lines", "max_packages",
               "max_properties", "max_components"}
ArrayKeys == VectorKeys \cup {"tags", "transforms", "value"}
StringKeys == (UNION {AllowedParams(t) : t \in Tools})
                  \ (ArrayKeys \cup FlagKeys \cup NumberKeys)

\* Strings with a printable character.
Text == {"text", "none", "mesh_actor_class", "light_class", "listed_mesh"} \cup Owners

Shapes(key) ==
    CASE key \in VectorKeys -> {"vector", "partial", "object"}
      [] key \in FlagKeys -> {"flag", "text", "object"}
      [] key \in NumberKeys -> {"number", "text", "object"}
      [] key = "tags" -> {"names", "empty", "partial", "object"}
      [] key = "transforms" -> {"placed", "many", "empty", "partial", "object"}
      [] key = "value" -> {"low", "high", "flag", "text", "vector", "color", "empty",
                           "partial", "object"}
      [] key = "class_path" -> {"mesh_actor_class", "light_class", "text", "blank", "object"}
      [] key = "static_mesh" -> {"listed_mesh", "text", "blank", "object"}
      [] key = "component" -> Owners \cup {"text", "blank", "number", "object"}
      [] OTHER -> {"text", "none", "blank", "number", "object"}

ASSUME BodiesAssumption ==
    \A b \in Bodies : \A k \in DOMAIN b.actions :
        /\ b.actions[k].targets \in {"absent", "empty", "live", "gone", "many", "bad_element",
                                     "not_a_list"}
        /\ \A key \in DOMAIN b.actions[k].params : b.actions[k].params[key] \in Shapes(key)

Has(a, key, shapes) == key \in DOMAIN a.params /\ a.params[key] \in shapes

\* What TryGetString takes: numbers and booleans become text.
GetsText(a, key) == Has(a, key, Text \cup {"number", "flag"})

-----------------------------------------------------------------------------
(***************************************************************************)
(* The plugin.  A parse error refuses the plan before the rules see it.    *)
(***************************************************************************)
ParseErrors(a) ==
    \/ a.targets = "bad_element"
    \/ \E key \in VectorKeys : key \in DOMAIN a.params /\ ~Has(a, key, {"vector"})
    \/ Has(a, "tags", {"partial", "object"})
    \/ Has(a, "transforms", {"partial", "object"})
    \/ Has(a, "value", {"empty", "partial", "object"})

\* The params the parser passes over: the action is read as if they were absent.
Ignored(a) ==
    {key \in DOMAIN a.params \cap StringKeys : a.params[key] = "object"}
        \cup {key \in DOMAIN a.params \cap (FlagKeys \cup NumberKeys) : a.params[key] = "object"}

KindMatches(type, value) ==
    \/ type \in {"float", "int"} /\ value \in {"low", "high"}
    \/ type = "bool" /\ value = "flag"
    \/ type \in {"vector", "color"} /\ value = type
    \/ type \in {"name", "enum", "asset"} /\ value = "text"

\* The allowlist entries that speak of the action's property, and of these the
\* ones whose type its value has.
Named(a, allowlist) ==
    {i \in DOMAIN allowlist :
        /\ Has(a, "property", {"text"})
        /\ GetsText(a, "component") => allowlist[i].class = a.params["component"]}

Matching(a, allowlist) ==
    {i \in Named(a, allowlist) : KindMatches(allowlist[i].type, a.params["value"])}

Admits(entry, value) == value \in {"low", "high"} => value \in entry.admits

\* As R12 would be without the range check.
KnowsPropertyOfAnyValue(a, allowlist) == Matching(a, allowlist) # {}

\* R12 looks no further than the first entry of the right type: once a value was
\* out of range, bRangeOk stays false.
KnowsProperty(a, allowlist) ==
    LET matching == Matching(a, allowlist)
    IN  /\ matching # {}
        /\ LET first == CHOOSE i \in matching : \A j \in matching : i <= j
           IN  Admits(allowlist[first], a.params["value"])

\* Required params, no-op actions and spawn limits.
PluginMisses(a) ==
    CASE a.tool = "set_actor_folder" -> ~GetsText(a, "folder_path") \/ Has(a, "folder_path", {"none"})
      [] a.tool = "set_actor_label" -> ~GetsText(a, "label")
      [] a.tool \in {"add_actor_tags", "remove_actor_tags"} -> ~Has(a, "tags", {"names"})
      [] a.tool = "set_actor_property" -> ~GetsText(a, "property") \/ "value" \notin DOMAIN a.params
      [] a.tool = "check_out_package" -> ~GetsText(a, "package_name")
      [] a.tool = "set_actor_transform" -> DOMAIN a.params \cap VectorKeys \subseteq {"offset"}
      [] a.tool = "duplicate_actor_with_offset" -> "offset" \notin DOMAIN a.params
      [] a.tool = "spawn_actor_from_class" ->
             ~GetsText(a, "class_path") \/ ~Has(a, "transforms", {"placed", "many"})
      [] OTHER -> FALSE

\* R11, the same in both validators.
SpawnsUnlisted(a) ==
    /\ a.tool = "spawn_actor_from_class"
    /\ \/ Has(a, "class_path", {"text"})
       \/ Has(a, "static_mesh", {"text"})
       \/ Has(a, "static_mesh", Text) /\ ~Has(a, "class_path", {"mesh_actor_class"})

PluginBreaks(rule, a, allowlist) ==
    CASE rule = "R4" -> a.risk # Risk(a.tool)
      [] rule = "R6" -> \/ a.tool \in TargetTools /\ a.targets \in {"absent", "empty", "not_a_list"}
                        \/ a.tool \notin TargetTools /\ a.targets \in {"live", "gone", "many"}
                        \/ a.targets = "gone"
      [] rule = "R9" -> ~(DOMAIN a.params \subseteq AllowedParams(a.tool)) \/ PluginMisses(a)
      [] rule = "R10" -> a.targets = "many" \/ (a.tool = "spawn_actor_from_class"
                                                 /\ Has(a, "transforms", {"many"}))
      [] rule = "R11" -> SpawnsUnlisted(a)
      [] rule = "R12" -> /\ a.tool = "set_actor_property"
                         /\ GetsText(a, "property") /\ "value" \in DOMAIN a.params
                         /\ ~KnowsProperty(a, allowlist)

ActionRules == {"R4", "R6", "R9", "R10", "R11", "R12"}

\* FString compares without case.
Fold(id) == IF id = "A" THEN "a" ELSE id

Known(body) == {k \in DOMAIN body.actions : body.actions[k].tool \in Tools}
Mutates(body) == \E k \in Known(body) : Risk(body.actions[k].tool) # "read_only"
Destroys(body) == \E k \in Known(body) : Risk(body.actions[k].tool) = "destructive"

Ids(body) == [k \in DOMAIN body.actions |-> body.actions[k].id]
FoldedIds(body) == [k \in DOMAIN body.actions |-> Fold(body.actions[k].id)]

\* R2: there are actions, each with an id of its own.
BadIds(ids) ==
    ids = <<>> \/ \E j, k \in DOMAIN ids : ids[j] = "no_id" \/ (j # k /\ ids[j] = ids[k])

HeaderRules == {"R1", "R2", "R3", "R5", "R7", "R8"}

PluginRefuses(rule, body) ==
    CASE rule = "R1" -> body.schema_version \notin {"one", "text_one"}
      [] rule = "R2" -> BadIds(FoldedIds(body))
      [] rule = "R3" -> Known(body) # DOMAIN body.actions
      [] rule = "R5" -> Mutates(body) /\ body.requires_approval = "false"
      [] rule = "R7" -> Destroys(body) /\ body.requires_second_confirmation = "false"
      [] rule = "R8" -> Mutates(body) /\ body.context_fingerprint \in {"absent", "no_scene"}

ValidateAndResolve(body, allowlist) ==
    IF \E k \in DOMAIN body.actions : ParseErrors(body.actions[k]) THEN {"parse"} ELSE
    (UNION {{rule \in ActionRules : PluginBreaks(rule, body.actions[k], allowlist)} :
                k \in Known(body)})
    \cup {rule \in HeaderRules : PluginRefuses(rule, body)}

-----------------------------------------------------------------------------
(***************************************************************************)
(* The script.                                                             *)
(***************************************************************************)
\* The params a tool cannot do without; a transform needs one of its three.
Required(tool) ==
    IF tool \in {"set_actor_folder", "set_actor_label", "add_actor_tags", "remove_actor_tags",
                 "check_out_package", "duplicate_actor_with_offset"}
    THEN AllowedParams(tool)
    ELSE IF tool = "set_actor_property" THEN {"property", "value"}
    ELSE IF tool = "spawn_actor_from_class" THEN {"class_path", "transforms"} ELSE {}

\* As the type check would be if it passed over optional strings, or were
\* content with one usable tag.
WellTypedIfRequired(key, shape) ==
    CASE key \in StringKeys -> key \in UNION {Required(t) : t \in Tools} => shape \in Text
      [] key \in VectorKeys -> shape = "vector"
      [] key \in FlagKeys -> shape = "flag"
      [] key \in NumberKeys -> shape = "number"
      [] key = "tags" -> shape = "names"
      [] key = "value" -> shape \notin {"empty", "partial", "object"}
      [] OTHER -> TRUE

WellTypedSomeTag(key, shape) ==
    CASE key \in StringKeys -> shape \in Text
      [] key \in VectorKeys -> shape = "vector"
      [] key \in FlagKeys -> shape = "flag"
      [] key \in NumberKeys -> shape = "number"
      [] key = "tags" -> shape \in {"names", "partial"}
      [] key = "value" -> shape \notin {"empty", "partial", "object"}
      [] OTHER -> TRUE

WellTyped(key, shape) ==
    CASE key \in StringKeys -> shape \in Text
      [] key \in VectorKeys -> shape = "vector"
      [] key \in FlagKeys -> shape = "flag"
      [] key \in NumberKeys -> shape = "number"
      [] key = "tags" -> shape = "names"
      [] key = "value" -> shape \notin {"empty", "partial", "object"}
      [] OTHER -> TRUE

ScriptBreaks(rule, a) ==
    CASE rule = "R4" -> a.risk # Risk(a.tool)
      [] rule = "R6" -> \/ a.targets \in {"not_a_list", "bad_element"}
                        \/ a.tool \in TargetTools /\ a.targets \in {"absent", "empty"}
                        \/ a.tool \notin TargetTools /\ a.targets \in {"live", "gone", "many"}
      [] rule = "R9" -> \/ ~(DOMAIN a.params \subseteq AllowedParams(a.tool))
                        \/ \E key \in DOMAIN a.params \cap AllowedParams(a.tool) :
                              ~WellTyped(key, a.params[key])
                        \/ ~(Required(a.tool) \subseteq DOMAIN a.params)
                        \/ a.tool = "set_actor_transform" /\ DOMAIN a.params \cap VectorKeys = {}
                        \/ a.tool = "spawn_actor_from_class"
                              /\ Has(a, "transforms", {"empty", "partial", "object"})
      [] rule = "R10" -> a.targets = "many" \/ (a.tool = "spawn_actor_from_class"
                                                 /\ Has(a, "transforms", {"many"}))
      [] rule = "R11" -> SpawnsUnlisted(a)
      [] rule = "R12" -> FALSE

ScriptRefuses(rule, body) ==
    CASE rule = "R1" -> body.schema_version # "one"
      [] rule = "R2" -> BadIds(Ids(body))
      [] rule = "R3" -> Known(body) # DOMAIN body.actions
      [] rule = "R5" -> Mutates(body) /\ body.requires_approval # "true"
      [] rule = "R7" -> Destroys(body) /\ body.requires_second_confirmation # "true"
      [] rule = "R8" -> Mutates(body) /\ body.context_fingerprint # "full"

validate_plan(body) ==
    (UNION {{rule \in ActionRules : ScriptBreaks(rule, body.actions[k])} : k \in Known(body)})
    \cup {rule \in HeaderRules : ScriptRefuses(rule, body)}

-----------------------------------------------------------------------------
(***************************************************************************)
(* A plan is sent, judged, and executed if the plugin took it; meanwhile   *)
(* the project's settings may change.                                      *)
(***************************************************************************)
VARIABLES
    phase,          \* "sent", "judged" or "executed"
    body,
    PropertyAllowlist,
    judgedBy,       \* the allowlist the plugin judged by
    plugin, script, \* the rules each finds broken
    written         \* history: the class and value of each property write

valVars == <<phase, body, PropertyAllowlist, judgedBy, plugin, script, written>>

WritesProperty(b) == \E k \in DOMAIN b.actions : b.actions[k].tool = "set_actor_property"

ValidatorInit ==
    /\ phase = "sent"
    /\ body \in Bodies
    \* No other tool reads this allowlist.
    /\ PropertyAllowlist \in IF WritesProperty(body) THEN Allowlists ELSE {<<>>}
    /\ judgedBy = <<>> /\ plugin = {} /\ script = {} /\ written = {}

Judge ==
    /\ phase = "sent"
    /\ phase' = "judged"
    /\ judgedBy' = PropertyAllowlist
    /\ plugin' = ValidateAndResolve(body, PropertyAllowlist)
    /\ script' = validate_plan(body)
    /\ UNCHANGED <<body, PropertyAllowlist, written>>

\* As the executor's second look would be if the first entry decided there too.
CandidatesOfTheFirst(a, allowlist) ==
    IF KnowsProperty(a, allowlist) THEN Matching(a, allowlist) ELSE {}

\* The executor refuses a value that any entry of its type excludes; otherwise the
\* owner found on each target decides which entry is used.
Candidates(a, allowlist) ==
    LET matching == Matching(a, allowlist)
    IN  IF \A i \in matching : Admits(allowlist[i], a.params["value"]) THEN matching ELSE {}

Execute ==
    /\ phase = "judged" /\ plugin = {}
    /\ phase' = "executed"
    /\ written' \in SUBSET UNION {
          {[class |-> PropertyAllowlist[i].class, value |-> body.actions[k].params["value"]] :
              i \in Candidates(body.actions[k], PropertyAllowlist)} :
          k \in {j \in DOMAIN body.actions : body.actions[j].tool = "set_actor_property"}}
    /\ UNCHANGED <<body, PropertyAllowlist, judgedBy, plugin, script>>

Reconfigure ==
    /\ phase = "judged" /\ plugin = {} /\ WritesProperty(body)
    /\ PropertyAllowlist = judgedBy
    /\ PropertyAllowlist' \in Allowlists
    /\ UNCHANGED <<phase, body, judgedBy, plugin, script, written>>

ValidatorNext == Judge \/ Reconfigure \/ Execute

ValidatorSpec == ValidatorInit /\ [][ValidatorNext]_valVars

-----------------------------------------------------------------------------
(***************************************************************************)
(* Properties.                                                             *)
(***************************************************************************)
TargetsLive == \A k \in DOMAIN body.actions : body.actions[k].targets # "gone"

\* FName has no name "None" and FString compares without case; the script knows
\* neither.
PlaysOnNames ==
    \/ BadIds(FoldedIds(body)) /\ ~BadIds(Ids(body))
    \/ \E k \in DOMAIN body.actions : body.actions[k].tool = "set_actor_folder"
                                      /\ Has(body.actions[k], "folder_path", {"none"})

\* A plan that passes the script before it is sent, names live actors and plays no
\* tricks on names is refused by the plugin for nothing but the property policy,
\* which the script leaves to the project's settings.
ScriptPromisesAcceptance ==
    phase # "sent" /\ script = {} /\ TargetsLive /\ ~PlaysOnNames => plugin \subseteq {"R12"}

\* A plan that both accept is taken as it was sent: the parser passes over nothing
\* in it, so that no write reaches further than its author asked.
AcceptedAsSent ==
    phase # "sent" /\ script = {} /\ plugin = {} =>
        \A k \in DOMAIN body.actions : Ignored(body.actions[k]) = {}

\* Under the settings a plan was accepted by, the executor refuses a property write
\* only where two entries of the allowlist disagree about the value.
RefusedOnlyInDisagreement ==
    phase # "sent" /\ plugin = {} =>
        \A k \in DOMAIN body.actions :
            LET a == body.actions[k] IN
            a.tool = "set_actor_property" /\ Candidates(a, judgedBy) = {} =>
                \E i, j \in Matching(a, judgedBy) :
                    Admits(judgedBy[i], a.params["value"]) # Admits(judgedBy[j], a.params["value"])

\* Whatever the allowlist has become since the plan was accepted, and whichever
\* entry the targets turn out to match, a write respects every entry for its class.
WritesStayInRange ==
    phase = "executed" =>
        \A w \in written : \A i \in DOMAIN PropertyAllowlist :
            LET entry == PropertyAllowlist[i] IN
            entry.class = w.class /\ KindMatches(entry.type, w.value) => Admits(entry, w.value)

=============================================================================
