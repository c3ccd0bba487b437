-------------------------- MODULE MCPlanValidator --------------------------
(***************************************************************************)
(* A small instance of PlanValidator and ToolCalls for TLC.                *)
(***************************************************************************)
EXTENDS ToolCalls

CONSTANT MaxParams      \* params a plan may give beside the required ones

Header(version, approval, second, fingerprint) ==
    [schema_version |-> version, requires_approval |-> approval,
     requires_second_confirmation |-> second, context_fingerprint |-> fingerprint]

Body(h, actions) ==
    [by |-> "agent", schema_version |-> h.schema_version, requires_approval |-> h.requires_approval,
     requires_second_confirmation |-> h.requires_second_confirmation,
     context_fingerprint |-> h.context_fingerprint, actions |-> actions]

Headers == {Header(v, a, s, f) : v \in {"one", "text_one", "two"},
                a \in {"true", "text", "false"}, s \in {"true", "text", "false"},
                f \in {"full", "no_paths", "no_scene", "absent"}}
GoodHeader == Header("one", "true", "true", "full")

An(id, tool, risk, targets, params) ==
    [id |-> id, tool |-> tool, risk |-> risk, targets |-> targets, params |-> params]

TargetsOf(tool) == IF tool \in TargetTools THEN "live" ELSE "absent"

\* Every assignment of values to few of a tool's params, and to a stray one.
ParamsOf(tool) ==
    UNION {{f \in [ks -> UNION {Shapes(key) : key \in ks}] :
              \A key \in ks : f[key] \in Shapes(key)} :
           ks \in {s \in SUBSET (AllowedParams(tool) \cup {"stray"}) :
                     Cardinality(s \ Required(tool)) <= MaxParams}}

\* One usable assignment.
GoodParams(tool) ==
    CHOOSE f \in ParamsOf(tool) :
        /\ Required(tool) \subseteq DOMAIN f /\ "stray" \notin DOMAIN f
        /\ tool = "set_actor_transform" => "location" \in DOMAIN f
        /\ \A key \in DOMAIN f : WellTyped(key, f[key]) /\ f[key] \notin {"none", "many"}
        /\ "class_path" \in DOMAIN f => f["class_path"] = "light_class"
        /\ "value" \in DOMAIN f => f["value"] = "low"
        /\ "static_mesh" \notin DOMAIN f /\ "component" \notin DOMAIN f

Good(id, tool) == An(id, tool, Risk(tool), TargetsOf(tool), GoodParams(tool))

MCBodies ==
    {Body(h, <<Good("a", tool)>>) : h \in Headers, tool \in Tools}
    \cup {Body(GoodHeader, <<An("a", tool, Risk(tool), TargetsOf(tool), f)>>) :
            <<tool, f>> \in UNION {{t} \X ParamsOf(t) : t \in Tools}}
    \cup {Body(GoodHeader, <<An("a", tool, risk, targets, GoodParams(tool))>>) :
            tool \in Tools, risk \in {"read_only", "low_risk", "destructive", "unknown"},
            targets \in {"absent", "empty", "live", "gone", "many", "bad_element", "not_a_list"}}
    \cup {Body(h, <<Good(i, s), Good(j, t)>>) :
            h \in {GoodHeader, Header("one", "true", "false", "full")},
            i \in {"a", "A", "b", "no_id"}, j \in {"a", "b"},
            s \in {"read_logs", "delete_actor"}, t \in {"set_actor_folder", "find_actors"}}
    \cup {Body(GoodHeader, <<>>),
          Body(GoodHeader, <<An("a", "unknown", "low_risk", "absent", <<>>)>>)}

\* Calls with wrong targets, and with up to two optional arguments.
MCHandled ==
    UNION {HANDLERS(tool, targets, params) :
             <<tool, targets, params>> \in
                UNION {{t} \X ActorPaths(t) \X ArgumentsOf(t, 0) : t \in Tools}
                \cup UNION {{t} \X (ActorPaths(t) \cap {"live", "empty"})
                               \X ArgumentsOf(t, IF t = "set_actor_property" THEN 1 ELSE 2) :
                             t \in Tools}}

\* One or two entries: a tool, or a name that is none, with any targets or a stray param.
PreviewEntries ==
    {[tool |-> t, targets |-> "live", params |-> GoodParams(t)] : t \in Tools}
    \cup {[tool |-> t, targets |-> "empty", params |-> p] :
             t \in {"unknown", "delete_actor", "spawn_actor_from_class"},
             p \in {<<>>, [stray |-> "text"]}}

MCPreviewed == UNION {preview_actions(<<e>>) : e \in PreviewEntries}
               \cup UNION {preview_actions(<<e, f>>) : e, f \in PreviewEntries}

AllBodies == MCBodies \cup MCHandled \cup MCPreviewed

Entries == {[class |-> c, type |-> t, admits |-> s] :
              c \in Owners, t \in {"float", "bool", "asset"}, s \in {{"low"}, {"low", "high"}}}

MCAllowlists == {<<>>} \cup {<<e>> : e \in Entries} \cup (Entries \X Entries)

=============================================================================
