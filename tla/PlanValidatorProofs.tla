------------------------ MODULE PlanValidatorProofs ------------------------
(***************************************************************************)
(* Theorems about PlanValidator and ToolCalls, for all plans, allowlists   *)
(* and tool calls.                                                         *)
(*                                                                         *)
(* The invariant says that the verdicts are those of the two validators on *)
(* the plan as it was sent; what they agree on is then a matter of lemmas  *)
(* about a single action.                                                  *)
(***************************************************************************)
EXTENDS ToolCalls, WellFoundedInduction, TLAPS

ValInv ==
    /\ phase \in {"sent", "judged", "executed"} /\ body \in Bodies
    /\ PropertyAllowlist \in Allowlists \cup {<<>>}
    /\ judgedBy \in Allowlists \cup {<<>>}
    /\ phase # "sent" => /\ plugin = ValidateAndResolve(body, judgedBy)
                         /\ script = validate_plan(body)

LEMMA ValInvHolds == ValidatorSpec => []ValInv
<1>1. ValidatorInit => ValInv BY DEF ValidatorInit, ValInv
<1>2. ValInv /\ [ValidatorNext]_valVars => ValInv'
  <2> SUFFICES ASSUME ValInv, [ValidatorNext]_valVars PROVE ValInv' OBVIOUS
  <2>1. CASE Judge BY <2>1 DEF ValInv, Judge
  <2>2. CASE Reconfigure BY <2>2 DEF ValInv, Reconfigure
  <2>3. CASE Execute BY <2>3 DEF ValInv, Execute
  <2>4. CASE UNCHANGED valVars BY <2>4 DEF ValInv, valVars
  <2> QED BY <2>1, <2>2, <2>3, <2>4 DEF ValidatorNext
<1> QED BY <1>1, <1>2, PTL DEF ValidatorSpec

-----------------------------------------------------------------------------
\* Whatever the executor may choose from, every entry for the class it chose admits the
\* value.
LEMMA CandidatesAdmit ==
    ASSUME NEW a, NEW allowlist, NEW i \in Candidates(a, allowlist),
           NEW j \in DOMAIN allowlist, allowlist[j].class = allowlist[i].class,
           KindMatches(allowlist[j].type, a.params["value"])
    PROVE  Admits(allowlist[j], a.params["value"])
<1>1. /\ i \in Matching(a, allowlist)
      /\ \A k \in Matching(a, allowlist) : Admits(allowlist[k], a.params["value"])
  BY DEF Candidates
<1>2. j \in Matching(a, allowlist) BY <1>1 DEF Matching, Named
<1> QED BY <1>1, <1>2

\* ExecuteSetActorProperty: a write respects every entry for its class, whatever the
\* allowlist has become.
THEOREM RangesHold == ValidatorSpec => []WritesStayInRange
<1>1. ValidatorInit => WritesStayInRange BY DEF ValidatorInit, WritesStayInRange
<1>2. WritesStayInRange /\ [ValidatorNext]_valVars => WritesStayInRange'
  <2> SUFFICES ASSUME WritesStayInRange, [ValidatorNext]_valVars PROVE WritesStayInRange'
    OBVIOUS
  <2>1. CASE Judge BY <2>1 DEF Judge, WritesStayInRange
  <2>2. CASE Reconfigure BY <2>2 DEF Reconfigure, WritesStayInRange
  <2>3. CASE Execute
    <3>1. PropertyAllowlist' = PropertyAllowlist BY <2>3 DEF Execute
    <3> SUFFICES ASSUME NEW w \in written', NEW j \in DOMAIN PropertyAllowlist,
                        PropertyAllowlist[j].class = w.class,
                        KindMatches(PropertyAllowlist[j].type, w.value)
                 PROVE  Admits(PropertyAllowlist[j], w.value)
      BY <3>1 DEF WritesStayInRange
    <3>2. PICK k \in DOMAIN body.actions :
             \E i \in Candidates(body.actions[k], PropertyAllowlist) :
                w = [class |-> PropertyAllowlist[i].class,
                     value |-> body.actions[k].params["value"]]
      BY <2>3 DEF Execute
    <3>3. PICK i \in Candidates(body.actions[k], PropertyAllowlist) :
             w = [class |-> PropertyAllowlist[i].class,
                  value |-> body.actions[k].params["value"]]
      BY <3>2
    <3>4. w.class = PropertyAllowlist[i].class /\ w.value = body.actions[k].params["value"]
      BY <3>3
    <3> QED BY <3>4, CandidatesAdmit
  <2>4. CASE UNCHANGED valVars BY <2>4 DEF valVars, WritesStayInRange
  <2> QED BY <2>1, <2>2, <2>3, <2>4 DEF ValidatorNext
<1> QED BY <1>1, <1>2, PTL DEF ValidatorSpec

-----------------------------------------------------------------------------
\* A nonempty set of places in an allowlist has a first one.
LEMMA HasFirstEntry ==
    ASSUME NEW allowlist \in Allowlists \cup {<<>>}, NEW S, S \subseteq DOMAIN allowlist, S # {}
    PROVE  \E k \in S : \A j \in S : k <= j
<1>1. allowlist \in Seq(AllowEntries) BY ValidatorAssumption
<1>2. S \in SUBSET Nat BY <1>1
<1>3. S # {} OBVIOUS
<1> DEFINE R == OpToRel(<, Nat)
<1>4. \A x, y \in Nat : <<x, y>> \in R <=> x < y BY DEF OpToRel
<1>5. IsWellFoundedOn(R, Nat) BY NatLessThanWellFounded
<1> HIDE DEF R
<1>6. PICK x \in S : \A y \in S : ~(<<y, x>> \in R) BY <1>2, <1>3, <1>5, WFMin
<1>7. ASSUME NEW y \in S PROVE x <= y
  <2>1. x \in Nat /\ y \in Nat BY <1>2
  <2>2. ~(y < x) BY <1>4, <1>6, <2>1
  <2> QED BY <2>1, <2>2
<1> QED BY <1>7

\* R12 is content when some entry of the right type admits the value.
LEMMA KnownHasEntry ==
    ASSUME NEW allowlist \in Allowlists \cup {<<>>}, NEW a, KnowsProperty(a, allowlist)
    PROVE  \E i \in Matching(a, allowlist) : Admits(allowlist[i], a.params["value"])
<1> DEFINE matching == Matching(a, allowlist)
           first == CHOOSE i \in matching : \A j \in matching : i <= j
<1>1. matching # {} /\ Admits(allowlist[first], a.params["value"]) BY DEF KnowsProperty
<1>2. matching \subseteq DOMAIN allowlist BY DEF Matching, Named
<1>3. \E i \in matching : \A j \in matching : i <= j BY <1>1, <1>2, HasFirstEntry
<1>4. first \in matching BY <1>3
<1> QED BY <1>1, <1>4

\* Where the plugin breaks no rule, all tools are known and no rule is broken by an
\* action.
LEMMA PluginAccepts ==
    ASSUME NEW b, NEW allowlist, ValidateAndResolve(b, allowlist) = {},
           NEW k \in DOMAIN b.actions
    PROVE  /\ b.actions[k].tool \in Tools
           /\ ~ParseErrors(b.actions[k])
           /\ \A rule \in ActionRules : ~PluginBreaks(rule, b.actions[k], allowlist)
<1> DEFINE parse == \E j \in DOMAIN b.actions : ParseErrors(b.actions[j])
           broken == UNION {{rule \in ActionRules : PluginBreaks(rule, b.actions[j], allowlist)} :
                              j \in Known(b)}
           header == {rule \in HeaderRules : PluginRefuses(rule, b)}
<1>1. ValidateAndResolve(b, allowlist) = IF parse THEN {"parse"} ELSE broken \cup header
  BY DEF ValidateAndResolve
<1> HIDE DEF parse, broken, header
<1>2. ~parse /\ broken = {} /\ header = {} BY <1>1
<1>3. Known(b) = DOMAIN b.actions BY <1>2 DEF header, HeaderRules, PluginRefuses
<1>4. b.actions[k].tool \in Tools BY <1>3 DEF Known
<1>5. ~ParseErrors(b.actions[k]) BY <1>2 DEF parse
<1>6. \A rule \in ActionRules : ~PluginBreaks(rule, b.actions[k], allowlist)
  BY <1>2, <1>3 DEF broken
<1> QED BY <1>4, <1>5, <1>6

\* The executor refuses an accepted property write only where entries disagree.
THEOREM RefusalsAreDisagreements == ValidatorSpec => []RefusedOnlyInDisagreement
<1>1. ValInv => RefusedOnlyInDisagreement
  <2> SUFFICES ASSUME ValInv, phase # "sent", plugin = {}, NEW k \in DOMAIN body.actions,
                      body.actions[k].tool = "set_actor_property",
                      Candidates(body.actions[k], judgedBy) = {}
               PROVE  LET a == body.actions[k] IN
                      \E i, j \in Matching(a, judgedBy) :
                        Admits(judgedBy[i], a.params["value"])
                            # Admits(judgedBy[j], a.params["value"])
    BY DEF RefusedOnlyInDisagreement
  <2> DEFINE a == body.actions[k]
             v == a.params["value"]
  <2>1. ValidateAndResolve(body, judgedBy) = {} /\ judgedBy \in Allowlists \cup {<<>>}
    BY DEF ValInv
  <2>2. ~PluginBreaks("R9", a, judgedBy) /\ ~PluginBreaks("R12", a, judgedBy)
    BY <2>1, PluginAccepts DEF ActionRules
  <2>3. KnowsProperty(a, judgedBy) BY <2>2 DEF PluginBreaks, PluginMisses
  <2>4. PICK i \in Matching(a, judgedBy) : Admits(judgedBy[i], v)
    BY <2>1, <2>3, KnownHasEntry
  <2>5. PICK j \in Matching(a, judgedBy) : ~Admits(judgedBy[j], v) BY <2>4 DEF Candidates
  <2> QED BY <2>4, <2>5
<1> QED BY <1>1, ValInvHolds, PTL

-----------------------------------------------------------------------------
(***************************************************************************)
(* What the script's consent says of a single action.                      *)
(***************************************************************************)
LEMMA ScriptAccepts ==
    ASSUME NEW b, validate_plan(b) = {}
    PROVE  /\ Known(b) = DOMAIN b.actions
           /\ \A k \in DOMAIN b.actions :
                 /\ b.actions[k].tool \in Tools
                 /\ \A rule \in ActionRules : ~ScriptBreaks(rule, b.actions[k])
           /\ b.schema_version = "one" /\ ~BadIds(Ids(b))
           /\ Mutates(b) => b.requires_approval = "true" /\ b.context_fingerprint = "full"
           /\ Destroys(b) => b.requires_second_confirmation = "true"
<1> DEFINE broken == UNION {{rule \in ActionRules : ScriptBreaks(rule, b.actions[j])} :
                              j \in Known(b)}
           header == {rule \in HeaderRules : ScriptRefuses(rule, b)}
<1>1. validate_plan(b) = broken \cup header BY DEF validate_plan
<1> HIDE DEF broken, header
<1>2. broken = {} /\ header = {} BY <1>1
<1>3. Known(b) = DOMAIN b.actions BY <1>2 DEF header, HeaderRules, ScriptRefuses
<1>4. \A k \in DOMAIN b.actions : b.actions[k].tool \in Tools BY <1>3 DEF Known
<1>5. \A k \in DOMAIN b.actions, rule \in ActionRules : ~ScriptBreaks(rule, b.actions[k])
  BY <1>2, <1>3 DEF broken
<1>6. /\ b.schema_version = "one" /\ ~BadIds(Ids(b))
      /\ Mutates(b) => b.requires_approval = "true" /\ b.context_fingerprint = "full"
      /\ Destroys(b) => b.requires_second_confirmation = "true"
  BY <1>2 DEF header, HeaderRules, ScriptRefuses
<1> QED BY <1>3, <1>4, <1>5, <1>6

\* The params are of the tool and of their types.
LEMMA ScriptTypes ==
    ASSUME NEW a, a.tool \in Tools, ~ScriptBreaks("R9", a)
    PROVE  /\ DOMAIN a.params \subseteq AllowedParams(a.tool)
           /\ \A key \in DOMAIN a.params : WellTyped(key, a.params[key])
           /\ Required(a.tool) \subseteq DOMAIN a.params
           /\ a.tool = "set_actor_transform" => DOMAIN a.params \cap VectorKeys # {}
           /\ a.tool = "spawn_actor_from_class" =>
                 ~Has(a, "transforms", {"empty", "partial", "object"})
BY DEF ScriptBreaks

\* A well-typed param is one the parser reads.
LEMMA WellTypedIsRead ==
    ASSUME NEW a, \A key \in DOMAIN a.params : WellTyped(key, a.params[key])
    PROVE  Ignored(a) = {}
<1> SUFFICES ASSUME NEW key \in DOMAIN a.params, a.params[key] = "object",
                    key \in StringKeys \cup FlagKeys \cup NumberKeys
             PROVE  FALSE
  BY DEF Ignored
<1>1. WellTyped(key, "object") OBVIOUS
<1>2. "object" \notin Text BY ValidatorAssumption DEF Text
<1>3. CASE key \in StringKeys
  <2> QED BY <1>1, <1>2, <1>3 DEF WellTyped, StringKeys, ArrayKeys, VectorKeys
<1>4. CASE key \in FlagKeys
  BY <1>1, <1>4 DEF WellTyped, StringKeys, FlagKeys, NumberKeys, VectorKeys
<1>5. CASE key \in NumberKeys
  BY <1>1, <1>5 DEF WellTyped, StringKeys, FlagKeys, NumberKeys, VectorKeys
<1> QED BY <1>3, <1>4, <1>5

\* ParsePlanRequest and validate_plan: a plan both accept is taken as it was sent.
THEOREM TakenAsSent == ValidatorSpec => []AcceptedAsSent
<1>1. ValInv => AcceptedAsSent
  <2> SUFFICES ASSUME ValInv, phase # "sent", script = {}, NEW k \in DOMAIN body.actions
               PROVE  Ignored(body.actions[k]) = {}
    BY DEF AcceptedAsSent
  <2>1. validate_plan(body) = {} BY DEF ValInv
  <2>2. body.actions[k].tool \in Tools /\ ~ScriptBreaks("R9", body.actions[k])
    BY <2>1, ScriptAccepts DEF ActionRules
  <2> QED BY <2>2, ScriptTypes, WellTypedIsRead
<1> QED BY <1>1, ValInvHolds, PTL

-----------------------------------------------------------------------------
(***************************************************************************)
(* What the plugin finds in an action that the script lets pass.           *)
(***************************************************************************)
ShapesOK(a) ==
    /\ a.targets \in {"absent", "empty", "live", "gone", "many", "bad_element", "not_a_list"}
    /\ \A key \in DOMAIN a.params : a.params[key] \in Shapes(key)

LEMMA PassesParser ==
    ASSUME NEW a, ShapesOK(a), a.tool \in Tools, ~ScriptBreaks("R6", a),
           ~ScriptBreaks("R9", a)
    PROVE  ~ParseErrors(a)
<1>1. \A key \in DOMAIN a.params : key \in AllowedParams(a.tool) /\ WellTyped(key, a.params[key])
  BY ScriptTypes
<1>2. a.targets # "bad_element" BY DEF ScriptBreaks
<1>3. \A key \in VectorKeys : key \in DOMAIN a.params => a.params[key] = "vector"
  BY <1>1 DEF WellTyped, StringKeys, ArrayKeys, VectorKeys, FlagKeys, NumberKeys
<1>4. "tags" \in DOMAIN a.params => a.params["tags"] = "names"
  BY <1>1 DEF WellTyped, StringKeys, ArrayKeys, VectorKeys, FlagKeys, NumberKeys
<1>5. "value" \in DOMAIN a.params => a.params["value"] \notin {"empty", "partial", "object"}
  BY <1>1 DEF WellTyped, StringKeys, ArrayKeys, VectorKeys, FlagKeys, NumberKeys
<1>6. "transforms" \in DOMAIN a.params => a.params["transforms"] \notin {"partial", "object"}
  <2> SUFFICES ASSUME "transforms" \in DOMAIN a.params
               PROVE  a.params["transforms"] \notin {"partial", "object"}
    OBVIOUS
  <2>1. "transforms" \in AllowedParams(a.tool) BY <1>1
  <2>2. a.tool = "spawn_actor_from_class"
    BY <2>1 DEF AllowedParams, Tools, ReadTools, TargetTools
  <2> QED BY <2>2, ScriptTypes DEF Has
<1> QED BY <1>2, <1>3, <1>4, <1>5, <1>6 DEF ParseErrors, Has

\* A string the script asks for is one TryGetString takes.
LEMMA RequiredIsText ==
    ASSUME NEW a, a.tool \in Tools, ~ScriptBreaks("R9", a), NEW key \in Required(a.tool),
           key \in StringKeys
    PROVE  GetsText(a, key)
<1>1. key \in DOMAIN a.params /\ WellTyped(key, a.params[key]) BY ScriptTypes
<1>2. a.params[key] \in Text BY <1>1 DEF WellTyped, StringKeys, ArrayKeys, VectorKeys
<1> QED BY <1>1, <1>2 DEF GetsText, Has

LEMMA NothingMisses ==
    ASSUME NEW a, ShapesOK(a), a.tool \in Tools, ~ScriptBreaks("R9", a),
           ~(a.tool = "set_actor_folder" /\ Has(a, "folder_path", {"none"}))
    PROVE  ~PluginMisses(a)
<1>1. Required(a.tool) \subseteq DOMAIN a.params
      /\ \A key \in DOMAIN a.params : WellTyped(key, a.params[key])
  BY ScriptTypes
<1>2. {"folder_path", "label", "property", "package_name", "class_path"} \subseteq StringKeys
  <2>1. /\ "folder_path" \in AllowedParams("set_actor_folder")
        /\ "label" \in AllowedParams("set_actor_label")
        /\ "property" \in AllowedParams("set_actor_property")
        /\ "package_name" \in AllowedParams("check_out_package")
        /\ "class_path" \in AllowedParams("spawn_actor_from_class")
    BY DEF AllowedParams
  <2>2. {"set_actor_folder", "set_actor_label", "set_actor_property", "check_out_package",
         "spawn_actor_from_class"} \subseteq Tools
    BY DEF Tools, TargetTools
  <2> QED BY <2>1, <2>2 DEF StringKeys, ArrayKeys, VectorKeys, FlagKeys, NumberKeys
<1>3. CASE a.tool = "set_actor_folder"
  <2>1. "folder_path" \in Required(a.tool) BY <1>3 DEF Required, AllowedParams
  <2> QED BY <1>2, <1>3, <2>1, RequiredIsText DEF PluginMisses
<1>4. CASE a.tool = "set_actor_label"
  <2>1. "label" \in Required(a.tool) BY <1>4 DEF Required, AllowedParams
  <2> QED BY <1>2, <1>4, <2>1, RequiredIsText DEF PluginMisses
<1>5. CASE a.tool \in {"add_actor_tags", "remove_actor_tags"}
  <2>1. "tags" \in DOMAIN a.params BY <1>1, <1>5 DEF Required, AllowedParams
  <2>2. a.params["tags"] = "names"
    BY <1>1, <2>1 DEF WellTyped, StringKeys, ArrayKeys, VectorKeys, FlagKeys, NumberKeys
  <2> QED BY <1>5, <2>1, <2>2 DEF PluginMisses, Has
<1>6. CASE a.tool = "set_actor_property"
  <2>1. "property" \in Required(a.tool) /\ "value" \in Required(a.tool)
    BY <1>6 DEF Required
  <2> QED BY <1>1, <1>2, <1>6, <2>1, RequiredIsText DEF PluginMisses
<1>7. CASE a.tool = "check_out_package"
  <2>1. "package_name" \in Required(a.tool) BY <1>7 DEF Required, AllowedParams
  <2> QED BY <1>2, <1>7, <2>1, RequiredIsText DEF PluginMisses
<1>8. CASE a.tool = "set_actor_transform"
  <2>1. DOMAIN a.params \subseteq {"location", "rotation", "scale"}
    BY <1>8, ScriptTypes DEF AllowedParams
  <2> QED BY <1>8, <2>1, ScriptTypes DEF PluginMisses
<1>9. CASE a.tool = "duplicate_actor_with_offset"
  <2>1. "offset" \in DOMAIN a.params BY <1>1, <1>9 DEF Required, AllowedParams
  <2> QED BY <1>9, <2>1 DEF PluginMisses
<1>10. CASE a.tool = "spawn_actor_from_class"
  <2>1. "class_path" \in Required(a.tool) /\ "transforms" \in DOMAIN a.params
    BY <1>1, <1>10 DEF Required
  <2>2. a.params["transforms"] \in {"placed", "many", "empty", "partial", "object"}
    BY <2>1 DEF ShapesOK, Shapes, VectorKeys, FlagKeys, NumberKeys
  <2>3. Has(a, "transforms", {"placed", "many"}) BY <1>10, <2>1, <2>2, ScriptTypes DEF Has
  <2>4. GetsText(a, "class_path") BY <1>2, <2>1, RequiredIsText
  <2> QED BY <1>10, <2>3, <2>4 DEF PluginMisses
<1>11. CASE a.tool \notin {"set_actor_folder", "set_actor_label", "add_actor_tags",
                          "remove_actor_tags", "set_actor_property", "check_out_package",
                          "set_actor_transform", "duplicate_actor_with_offset",
                          "spawn_actor_from_class"}
  BY <1>11 DEF PluginMisses
<1> QED BY <1>3, <1>4, <1>5, <1>6, <1>7, <1>8, <1>9, <1>10, <1>11

LEMMA PassesRules ==
    ASSUME NEW a, NEW allowlist, ShapesOK(a), a.tool \in Tools,
           \A rule \in ActionRules : ~ScriptBreaks(rule, a), a.targets # "gone",
           ~(a.tool = "set_actor_folder" /\ Has(a, "folder_path", {"none"})),
           NEW rule \in ActionRules, PluginBreaks(rule, a, allowlist)
    PROVE  rule = "R12"
<1>1. /\ ~ScriptBreaks("R4", a) /\ ~ScriptBreaks("R6", a) /\ ~ScriptBreaks("R9", a)
      /\ ~ScriptBreaks("R10", a) /\ ~ScriptBreaks("R11", a)
  BY DEF ActionRules
<1>2. ~PluginBreaks("R4", a, allowlist) BY <1>1 DEF ScriptBreaks, PluginBreaks
<1>3. ~PluginBreaks("R6", a, allowlist) BY <1>1 DEF ScriptBreaks, PluginBreaks
<1>4. ~PluginBreaks("R9", a, allowlist)
  BY <1>1, ScriptTypes, NothingMisses DEF PluginBreaks
<1>5. ~PluginBreaks("R10", a, allowlist) BY <1>1 DEF ScriptBreaks, PluginBreaks
<1>6. ~PluginBreaks("R11", a, allowlist) BY <1>1 DEF ScriptBreaks, PluginBreaks
<1> QED BY <1>2, <1>3, <1>4, <1>5, <1>6 DEF ActionRules

\* validate_plan.py promises that a plan it passes is refused by the plugin for nothing
\* but the property policy.
THEOREM ScriptKeepsItsPromise == ValidatorSpec => []ScriptPromisesAcceptance
<1>1. ValInv => ScriptPromisesAcceptance
  <2> SUFFICES ASSUME ValInv, phase # "sent", script = {}, TargetsLive, ~PlaysOnNames
               PROVE  plugin \subseteq {"R12"}
    BY DEF ScriptPromisesAcceptance
  <2>1. plugin = ValidateAndResolve(body, judgedBy) /\ validate_plan(body) = {}
        /\ body \in Bodies
    BY DEF ValInv
  <2>2. /\ Known(body) = DOMAIN body.actions
        /\ \A k \in DOMAIN body.actions :
              /\ body.actions[k].tool \in Tools
              /\ \A rule \in ActionRules : ~ScriptBreaks(rule, body.actions[k])
        /\ body.schema_version = "one" /\ ~BadIds(Ids(body))
        /\ Mutates(body) => body.requires_approval = "true" /\ body.context_fingerprint = "full"
        /\ Destroys(body) => body.requires_second_confirmation = "true"
    BY <2>1, ScriptAccepts
  <2>3. ~BadIds(FoldedIds(body)) BY <2>2 DEF PlaysOnNames
  <2>4. ASSUME NEW k \in DOMAIN body.actions
        PROVE  /\ ~ParseErrors(body.actions[k])
               /\ \A rule \in ActionRules :
                     PluginBreaks(rule, body.actions[k], judgedBy) => rule = "R12"
    <3>1. ShapesOK(body.actions[k]) BY <2>1, BodiesAssumption DEF ShapesOK
    <3>2. body.actions[k].targets # "gone" BY DEF TargetsLive
    <3>3. ~(body.actions[k].tool = "set_actor_folder"
              /\ Has(body.actions[k], "folder_path", {"none"}))
      BY DEF PlaysOnNames
    <3>4. ~ScriptBreaks("R6", body.actions[k]) /\ ~ScriptBreaks("R9", body.actions[k])
      BY <2>2 DEF ActionRules
    <3> QED BY <2>2, <3>1, <3>2, <3>3, <3>4, PassesParser, PassesRules
  <2> DEFINE broken == UNION {{rule \in ActionRules :
                                 PluginBreaks(rule, body.actions[k], judgedBy)} :
                                k \in Known(body)}
             header == {rule \in HeaderRules : PluginRefuses(rule, body)}
  <2>5. ~(\E k \in DOMAIN body.actions : ParseErrors(body.actions[k])) BY <2>4
  <2>6. plugin = broken \cup header BY <2>1, <2>5 DEF ValidateAndResolve
  <2>7. broken \subseteq {"R12"} BY <2>2, <2>4
  <2>8. header = {} BY <2>2, <2>3 DEF HeaderRules, PluginRefuses
  <2> HIDE DEF broken, header
  <2> QED BY <2>6, <2>7, <2>8
<1> QED BY <1>1, ValInvHolds, PTL

-----------------------------------------------------------------------------
(***************************************************************************)
(* The plans of the MCP server.                                            *)
(***************************************************************************)
\* What buildPlan makes of its arguments.
LEMMA BuiltPlan ==
    ASSUME NEW by, NEW actions, NEW second \in BOOLEAN, NEW f,
           NEW b, b = buildPlan(by, actions, second, f)
    PROVE  /\ b.schema_version = "one" /\ b.context_fingerprint = f /\ b.actions = actions
           /\ b.requires_approval = "true" <=> \E k \in DOMAIN actions : actions[k].risk # "read_only"
           /\ b.requires_second_confirmation = "true" <=> second
           /\ b.requires_approval \in {"true", "false"}
           /\ b.requires_second_confirmation \in {"true", "false"}
  BY DEF buildPlan

LEMMA MadeAction ==
    ASSUME NEW count, NEW tool, NEW risk, NEW targets, NEW params,
           NEW a, a = makeAction(count, tool, risk, targets, params)
    PROVE  /\ a.id = IF count = 1 THEN "a" ELSE "b"
           /\ a.tool = tool /\ a.risk = risk /\ a.targets = targets /\ a.params = params
  BY DEF makeAction

\* The flags of a plan that runs.
RunsHonestly(b) ==
    /\ DOMAIN b.actions = {1} /\ b.schema_version = "one" /\ b.actions[1].id = "a"
    /\ b.actions[1].tool \in Tools /\ b.actions[1].risk = Risk(b.actions[1].tool)
    /\ Risk(b.actions[1].tool) # "read_only" => b.requires_approval = "true"
    /\ Risk(b.actions[1].tool) = "destructive" => b.requires_second_confirmation = "true"

LEMMA RunIsHonest ==
    ASSUME NEW b \in Bodies, b.by = "runs"
    PROVE  RunsHonestly(b)
<1> DEFINE t == b.actions[1].tool  ts == b.actions[1].targets  ps == b.actions[1].params
<1>1. t \in Tools /\ b \in HANDLERS(t, ts, ps) BY CallsAssumption
<1>2. ASSUME NEW x, NEW second \in BOOLEAN, NEW f, x = makeAction(1, t, Risk(t), ts, ps),
             b = buildPlan("runs", <<x>>, second, f), Risk(t) = "destructive" => second
      PROVE  RunsHonestly(b)
  <2> HIDE DEF t, ts, ps
  <2>1. /\ b.schema_version = "one" /\ b.actions = <<x>>
        /\ b.requires_approval = "true" <=> \E k \in DOMAIN <<x>> : <<x>>[k].risk # "read_only"
        /\ b.requires_second_confirmation = "true" <=> second
    BY <1>2, BuiltPlan
  <2>2. DOMAIN <<x>> = {1} /\ <<x>>[1] = x OBVIOUS
  <2>3. x.id = "a" /\ x.risk = Risk(t)
    <3>1. x = makeAction(1, t, Risk(t), ts, ps) BY <1>2
    <3>2. x.id = (IF 1 = 1 THEN "a" ELSE "b") /\ x.risk = Risk(t) BY <3>1, MadeAction
    <3> QED BY <3>2
  <2>4. b.actions[1] = x /\ DOMAIN b.actions = {1} BY <2>1, <2>2
  <2>5. Risk(t) # "read_only" => b.requires_approval = "true"
    <3>1. 1 \in DOMAIN <<x>> /\ (Risk(t) # "read_only" => <<x>>[1].risk # "read_only") BY <2>2, <2>3
    <3> QED BY <2>1, <3>1, Zenon
  <2>6. Risk(t) = "destructive" => b.requires_second_confirmation = "true" BY <1>2, <2>1
  <2> QED BY <1>1, <2>1, <2>3, <2>4, <2>5, <2>6 DEF RunsHonestly, t
<1>3. CASE t \in ReadTools
  <2>1. Risk(t) = "read_only" /\ t # "delete_actor" BY <1>3 DEF Risk, ReadTools
  <2>2. b \in {buildPlan("runs", <<makeAction(1, t, "read_only", ts, ps)>>, FALSE, "absent")}
    BY <1>1, <1>3, <2>1 DEF HANDLERS
  <2>3. b = buildPlan("runs", <<makeAction(1, t, Risk(t), ts, ps)>>, FALSE, "absent")
    BY <2>1, <2>2
  <2> QED BY <1>2, <2>1, <2>3
<1>4. CASE t = "delete_actor"
  <2>1. Risk(t) = "destructive" /\ t \notin ReadTools BY <1>4 DEF Risk, ReadTools
  <2>2. \E f \in fingerprintFromContext :
           b = buildPlan("runs", <<makeAction(1, t, Risk(t), ts, ps)>>, TRUE, f)
    BY <1>1, <1>4, <2>1 DEF HANDLERS
  <2> QED BY <1>2, <2>1, <2>2
<1>5. CASE t \notin ReadTools /\ t # "delete_actor"
  <2>1. Risk(t) = "low_risk" BY <1>5 DEF Risk
  <2>2. \E f \in fingerprintFromContext :
           b = buildPlan("runs", <<makeAction(1, t, Risk(t), ts, ps)>>, FALSE, f)
    BY <1>1, <1>5, <2>1 DEF HANDLERS
  <2> QED BY <1>2, <2>1, <2>2
<1> QED BY <1>3, <1>4, <1>5

\* The table the server keeps is the plugin's registry.
LEMMA SameRisk == ASSUME NEW tool \in Tools PROVE PLUGIN_TOOL_RISK(tool) = Risk(tool)
  BY DEF PLUGIN_TOOL_RISK, Risk, ReadTools

LEMMA PreviewIsHonest ==
    ASSUME NEW b \in Bodies, b.by = "previews"
    PROVE  /\ DOMAIN b.actions \in {{1}, {1, 2}} /\ b.schema_version = "one"
           /\ \A k \in DOMAIN b.actions :
                 /\ b.actions[k].id = IF k = 1 THEN "a" ELSE "b"
                 /\ b.actions[k].tool \in Tools => b.actions[k].risk = Risk(b.actions[k].tool)
           /\ Mutates(b) => b.requires_approval = "true"
           /\ Destroys(b) => b.requires_second_confirmation = "true"
<1>1. DOMAIN b.actions \in {{1}, {1, 2}} /\ b \in preview_actions(b.actions) BY CallsAssumption
<1> DEFINE made == [k \in DOMAIN b.actions |->
                      makeAction(k, b.actions[k].tool, PLUGIN_TOOL_RISK(b.actions[k].tool),
                                 b.actions[k].targets, b.actions[k].params)]
           second == \E k \in DOMAIN made : made[k].risk = "destructive"
<1>2. PICK f : b = buildPlan("previews", made, second, f) BY <1>1 DEF preview_actions
<1>3. PICK actions : actions = made OBVIOUS
<1>4. /\ b.schema_version = "one" /\ b.actions = actions
      /\ b.requires_approval = "true" <=> \E k \in DOMAIN actions : actions[k].risk # "read_only"
      /\ b.requires_second_confirmation = "true"
            <=> \E k \in DOMAIN actions : actions[k].risk = "destructive"
  <2>1. second \in BOOLEAN OBVIOUS
  <2> HIDE DEF second, made
  <2>2. /\ b.schema_version = "one" /\ b.actions = made
        /\ b.requires_approval = "true" <=> \E k \in DOMAIN made : made[k].risk # "read_only"
        /\ b.requires_second_confirmation = "true" <=> second
    BY <1>2, <2>1, BuiltPlan
  <2> QED BY <1>3, <2>2 DEF second
<1>5. ASSUME NEW k \in DOMAIN b.actions
      PROVE  /\ b.actions[k].id = IF k = 1 THEN "a" ELSE "b"
             /\ b.actions[k].risk = PLUGIN_TOOL_RISK(b.actions[k].tool)
  <2>1. b.actions[k] = makeAction(k, b.actions[k].tool, PLUGIN_TOOL_RISK(b.actions[k].tool),
                                  b.actions[k].targets, b.actions[k].params)
    BY <1>3, <1>4
  <2> QED BY <2>1, MadeAction
<1>6. ASSUME NEW k \in DOMAIN b.actions, b.actions[k].tool \in Tools
      PROVE  b.actions[k].risk = Risk(b.actions[k].tool)
  BY <1>5, <1>6, SameRisk
<1>7. Mutates(b) => b.requires_approval = "true" BY <1>4, <1>6 DEF Mutates, Known
<1>8. Destroys(b) => b.requires_second_confirmation = "true" BY <1>4, <1>6 DEF Destroys, Known
<1> QED BY <1>1, <1>4, <1>5, <1>6, <1>7, <1>8

\* Whatever an agent asks for, no plan of the server is refused for the version, the
\* ids, the risks or the flags that the server puts into it.
THEOREM ServerIsHonest == ValidatorSpec => []DeclaredHonestly
<1> DEFINE Own == {"R1", "R2", "R4", "R5", "R7"}
<1>1. ASSUME NEW b \in Bodies, b.by \in {"runs", "previews"}, NEW allowlist
      PROVE  ValidateAndResolve(b, allowlist) \cap Own = {}
  <2>1. /\ b.schema_version = "one"
        /\ DOMAIN b.actions \in {{1}, {1, 2}}
        /\ \A k \in DOMAIN b.actions :
              /\ b.actions[k].id = IF k = 1 THEN "a" ELSE "b"
              /\ b.actions[k].tool \in Tools => b.actions[k].risk = Risk(b.actions[k].tool)
        /\ Mutates(b) => b.requires_approval = "true"
        /\ Destroys(b) => b.requires_second_confirmation = "true"
    <3>1. CASE b.by = "runs"
      BY <3>1, RunIsHonest DEF RunsHonestly, Mutates, Destroys, Known
    <3>2. CASE b.by = "previews" BY <3>2, PreviewIsHonest
    <3> QED BY <1>1, <3>1, <3>2
  <2>2. ~BadIds(FoldedIds(b))
    <3> DEFINE ids == FoldedIds(b)
    <3>1. DOMAIN ids = DOMAIN b.actions /\ \A k \in DOMAIN ids : ids[k] = IF k = 1 THEN "a" ELSE "b"
      BY <2>1 DEF FoldedIds, Fold
    <3>2. DOMAIN ids # {} BY <2>1, <3>1
    <3> HIDE DEF ids
    <3>3. ids # <<>> BY <3>2
    <3>4. \A j, k \in DOMAIN ids : j # k => ids[j] # ids[k] BY <2>1, <3>1
    <3>5. \A j \in DOMAIN ids : ids[j] # "no_id" BY <3>1
    <3> QED BY <3>3, <3>4, <3>5 DEF BadIds, ids
  <2>3. \A rule \in Own : rule \in HeaderRules => ~PluginRefuses(rule, b)
    BY <2>1, <2>2 DEF HeaderRules, PluginRefuses
  <2>4. \A rule \in Own : rule \in ActionRules =>
           \A k \in Known(b) : ~PluginBreaks(rule, b.actions[k], allowlist)
    BY <2>1 DEF ActionRules, PluginBreaks, Known
  <2> DEFINE broken == UNION {{rule \in ActionRules : PluginBreaks(rule, b.actions[k], allowlist)} :
                                k \in Known(b)}
             header == {rule \in HeaderRules : PluginRefuses(rule, b)}
  <2>5. ValidateAndResolve(b, allowlist) \in {{"parse"}, broken \cup header}
    BY DEF ValidateAndResolve
  <2>6. broken \cap Own = {} BY <2>4
  <2>7. header \cap Own = {} BY <2>3
  <2> HIDE DEF broken, header
  <2> QED BY <2>5, <2>6, <2>7
<1>2. ValInv => DeclaredHonestly BY <1>1 DEF ValInv, DeclaredHonestly
<1> QED BY <1>2, ValInvHolds, PTL

LEMMA SameTargets == ASSUME NEW tool PROVE TakesActorPaths(tool) <=> tool \in TargetTools
  BY DEF TakesActorPaths, TargetTools

\* The schemas name no param the plugin does not know, and ask for those it asks for.
LEMMA SameArguments ==
    ASSUME NEW tool \in Tools
    PROVE  /\ Arguments(tool) \subseteq AllowedParams(tool)
           /\ Required(tool) = RequiredArguments(tool)
<1>1. Arguments(tool) \subseteq AllowedParams(tool) BY DEF Arguments, AllowedParams
<1>2. tool \in {"set_actor_folder", "set_actor_label", "add_actor_tags", "remove_actor_tags",
                "check_out_package", "duplicate_actor_with_offset"} =>
          Arguments(tool) = AllowedParams(tool)
  BY DEF Arguments, AllowedParams
<1>3. Required(tool) = RequiredArguments(tool) BY <1>2 DEF Required, RequiredArguments
<1> QED BY <1>1, <1>3

\* A value that a schema admits and a usable call gives is of the type that is documented.
LEMMA UsableIsWellTyped ==
    ASSUME NEW key, NEW shape \in Shapes(key), Fits(key, shape),
           shape \notin {"blank", "none", "partial"}, key = "value" => shape # "empty"
    PROVE  WellTyped(key, shape)
<1>1. CASE key \in StringKeys
  <2>1. key \notin VectorKeys \cup FlagKeys \cup NumberKeys \cup {"tags", "transforms", "value"}
    BY <1>1 DEF StringKeys, ArrayKeys
  <2>2. shape \notin {"number", "object"} BY <2>1 DEF Fits
  <2>3. shape \in Text BY <2>1, <2>2 DEF Shapes, Text
  <2> QED BY <1>1, <2>1, <2>3 DEF WellTyped
<1>2. CASE key \notin StringKeys
  BY <1>2 DEF WellTyped, Fits, VectorKeys, FlagKeys, NumberKeys
<1> QED BY <1>1, <1>2

\* The script finds nothing wrong in the action of a usable call.
LEMMA UsablePassesScript ==
    ASSUME NEW b \in Bodies, b.by = "runs", Usable(b), NEW rule \in ActionRules
    PROVE  ~ScriptBreaks(rule, b.actions[1])
<1> DEFINE a == b.actions[1]
<1>1. RunsHonestly(b) BY RunIsHonest
<1>2. /\ a.tool \in Tools /\ a.targets \in ActorPaths(a.tool)
      /\ RequiredArguments(a.tool) \subseteq DOMAIN a.params
      /\ DOMAIN a.params \subseteq Arguments(a.tool)
      /\ \A key \in DOMAIN a.params : Fits(key, a.params[key])
  BY CallsAssumption
<1>3. 1 \in DOMAIN b.actions BY <1>1 DEF RunsHonestly
<1>4. \A key \in DOMAIN a.params : a.params[key] \in Shapes(key) BY <1>3, BodiesAssumption
<1>5. /\ a.targets \in {"live", "empty"}
      /\ \A key \in DOMAIN a.params : /\ a.params[key] \notin {"blank", "none", "partial"}
                                      /\ key = "value" => a.params[key] # "empty"
      /\ a.tool = "set_actor_transform" => DOMAIN a.params # {}
      /\ ~SpawnsUnlisted(a)
  BY <1>3 DEF Usable
<1> HIDE DEF a
<1>6. \A key \in DOMAIN a.params : WellTyped(key, a.params[key])
  BY <1>2, <1>4, <1>5, UsableIsWellTyped
<1>7. DOMAIN a.params \subseteq AllowedParams(a.tool) /\ Required(a.tool) \subseteq DOMAIN a.params
  BY <1>2, SameArguments
<1>8. "transforms" \in DOMAIN a.params => a.params["transforms"] = "placed"
  BY <1>2 DEF Fits, VectorKeys, FlagKeys, NumberKeys
<1>9. ~ScriptBreaks("R4", a) BY <1>1 DEF RunsHonestly, ScriptBreaks, a
<1>10. ~ScriptBreaks("R6", a) BY <1>2, <1>5, SameTargets DEF ScriptBreaks, ActorPaths
<1>11. ~ScriptBreaks("R9", a)
  <2>1. a.tool = "set_actor_transform" => DOMAIN a.params \cap VectorKeys # {}
    BY <1>2, <1>5 DEF Arguments, VectorKeys
  <2>2. ~Has(a, "transforms", {"empty", "partial", "object"}) BY <1>8 DEF Has
  <2> QED BY <1>6, <1>7, <2>1, <2>2 DEF ScriptBreaks
<1>12. ~ScriptBreaks("R10", a) BY <1>5, <1>8 DEF ScriptBreaks, Has
<1>13. ~ScriptBreaks("R11", a) /\ ~ScriptBreaks("R12", a) BY <1>5 DEF ScriptBreaks
<1> QED BY <1>9, <1>10, <1>11, <1>12, <1>13 DEF ActionRules, a

\* A usable call is refused for nothing but the property policy, and the script finds
\* nothing wrong with its plan.
THEOREM UsableIsTaken == ValidatorSpec => []UsableCallsAreTaken
<1>1. ValInv /\ ScriptPromisesAcceptance => UsableCallsAreTaken
  <2> SUFFICES ASSUME ValInv, ScriptPromisesAcceptance, phase # "sent", body.by = "runs",
                      Usable(body)
               PROVE  plugin \subseteq {"R12"} /\ script = {}
    BY DEF UsableCallsAreTaken
  <2>1. body \in Bodies /\ script = validate_plan(body) BY DEF ValInv
  <2>2. RunsHonestly(body) BY <2>1, RunIsHonest
  <2>3. DOMAIN body.actions = {1} /\ Known(body) = {1}
    BY <2>2 DEF RunsHonestly, Known
  <2>4. /\ Mutates(body) <=> Risk(body.actions[1].tool) # "read_only"
        /\ Destroys(body) <=> Risk(body.actions[1].tool) = "destructive"
    BY <2>3 DEF Mutates, Destroys
  <2>5. ~BadIds(Ids(body)) /\ ~BadIds(FoldedIds(body))
    <3>1. ASSUME NEW ids, DOMAIN ids = {1}, ids[1] = "a" PROVE ~BadIds(ids)
      <4>1. ids # <<>> BY <3>1
      <4> QED BY <3>1, <4>1 DEF BadIds
    <3>2. /\ DOMAIN Ids(body) = {1} /\ Ids(body)[1] = "a"
          /\ DOMAIN FoldedIds(body) = {1} /\ FoldedIds(body)[1] = "a"
      BY <2>2, <2>3 DEF RunsHonestly, Ids, FoldedIds, Fold
    <3> QED BY <3>1, <3>2
  <2>6. Mutates(body) => body.context_fingerprint = "full" BY <2>3 DEF Usable
  <2>7. {rule \in HeaderRules : ScriptRefuses(rule, body)} = {}
    BY <2>2, <2>3, <2>4, <2>5, <2>6 DEF RunsHonestly, HeaderRules, ScriptRefuses
  <2>8. \A k \in Known(body) : {rule \in ActionRules : ScriptBreaks(rule, body.actions[k])} = {}
    BY <2>1, <2>3, UsablePassesScript
  <2>9. script = {} BY <2>1, <2>7, <2>8 DEF validate_plan
  <2>10. TargetsLive BY <2>3 DEF TargetsLive, Usable
  <2>11. ~PlaysOnNames BY <2>3, <2>5 DEF PlaysOnNames, Usable, Has
  <2> QED BY <2>9, <2>10, <2>11 DEF ScriptPromisesAcceptance
<1> QED BY <1>1, ValInvHolds, ScriptKeepsItsPromise, PTL

=============================================================================
