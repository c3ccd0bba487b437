--------------------------- MODULE PropertyAccess ---------------------------
(***************************************************************************)
(* Which object a property is read from, shown for and written to.         *)
(*                                                                         *)
(* An agent asks get_actor_properties what it may write, sends a           *)
(* set_actor_property plan, a human reads the preview, and the executor    *)
(* writes.  Each of these walks the property allowlist in its own way to   *)
(* find the owner: the actor itself, or one of its components.  Between    *)
(* them the user adds, removes and renames components and edits the        *)
(* allowlist.                                                              *)
(*                                                                         *)
(* A class that is not loaded has no instances, so it matters to none of   *)
(* the walks whether FindObject or LoadObject looks for it.                *)
(***************************************************************************)
EXTENDS Naturals, Sequences, FiniteSets

CONSTANTS
    Actors,
    Names,          \* component names
    Classes,        \* the classes that can be resolved
    ActorClasses,   \* those of actors; the others are of components
    IsA,            \* for each class, itself and the classes it descends from
    ClassOf,        \* the class of each actor
    Exposes,        \* the property paths reflection finds on an instance of a class
    Dotted,         \* those that lead into a struct
    Editable,       \* those the editor lets a user change
    Values,         \* the values a plan may write
    KindOf,         \* the kind of each
    Queries,        \* the component and component_name params that may be given
    Allowlists,     \* the property allowlists a project may configure
    Layouts,        \* the components actors may have
    Any,            \* a param that is not given
    Itself          \* in place of a component's name: the actor

Properties == UNION {Exposes[c] : c \in Classes}

Entry == [class : Classes, property : Properties, kind : {KindOf[v] : v \in Values},
          admits : SUBSET Values]

\* An entry is for an actor class or for a component class, never for a common
\* ancestor of both.
ASSUME AccessAssumption ==
    /\ ActorClasses \subseteq Classes
    /\ IsA \in [Classes -> SUBSET Classes]
    /\ \A c \in ActorClasses : IsA[c] \subseteq ActorClasses
    /\ \A c \in Classes \ ActorClasses : IsA[c] \cap ActorClasses = {}
    /\ ClassOf \in [Actors -> ActorClasses]
    /\ DOMAIN Exposes = Classes
    /\ DOMAIN KindOf = Values
    /\ \A l \in Allowlists : l \in Seq(Entry)
    /\ \A q \in Queries : DOMAIN q = {"component", "name"} /\ q.name \in Names \cup {Any}
    /\ Any \notin Names \cup Classes /\ Itself \notin Names
    /\ \A l \in Layouts : /\ DOMAIN l = Actors
                          /\ \A a \in Actors : /\ DOMAIN l[a] \subseteq Names
                                               /\ \A n \in DOMAIN l[a] :
                                                     l[a][n] \in Classes \ ActorClasses

VARIABLES
    components,         \* for each actor, the classes of its components by name
    PropertyAllowlist,
    pc,                 \* "asking", "pending" or "done"
    told,               \* history: the answer the plan is made from, if nothing has
                        \* changed since; a set of at most one
    action,             \* the set_actor_property action, likewise
    shown,              \* the objects whose value stands in a row of the preview
    refusal,            \* of the execution
    written,            \* the objects it wrote
    settled             \* history: nothing has changed since the preview

accessVars == <<components, PropertyAllowlist, pc, told, action, shown, refusal, written, settled>>

-----------------------------------------------------------------------------
(***************************************************************************)
(* Objects: an actor, or a component of it.                                *)
(***************************************************************************)
ComponentsOf(a) == {<<a, n>> : n \in DOMAIN components[a]}

Class(object) == IF object[2] = Itself THEN ClassOf[object[1]]
                                       ELSE components[object[1]][object[2]]

IsInstance(object, class) == class \in IsA[Class(object)]

\* ResolvePropertyPath.
HasProperty(object, property) == property \in Exposes[Class(object)]

\* The objects of an actor an allowlist entry speaks of, when the plan names a
\* component or none.  An entry for an actor class does not ask for the name.
EntryOwners(entry, a, q) ==
    IF entry.class \in ActorClasses
    THEN {object \in {<<a, Itself>>} : IsInstance(object, entry.class)}
    ELSE {object \in ComponentsOf(a) :
            IsInstance(object, entry.class) /\ q.name \in {Any, object[2]}}

\* The only member of a set, in a set; nothing if there is not exactly one.
Only(objects) == {x \in objects : objects = {x}}

-----------------------------------------------------------------------------
(***************************************************************************)
(* The allowlist as the write reads it.                                    *)
(***************************************************************************)
Named(r) ==
    {k \in DOMAIN PropertyAllowlist :
        /\ PropertyAllowlist[k].property = r.property
        /\ r.query.component \in {Any, PropertyAllowlist[k].class}}

Matching(r) == {k \in Named(r) : PropertyAllowlist[k].kind = KindOf[r.value]}

InRange(k, r) == r.value \in PropertyAllowlist[k].admits

\* R12 looks no further than the first entry of the right kind.
PlanIsValid(r) ==
    \E k \in Matching(r) : InRange(k, r) /\ \A j \in Matching(r) : k <= j

\* What refuses the action before any target is looked at.
RefusalCode(r) ==
    CASE \E k \in Matching(r) : ~InRange(k, r) -> "property_value_out_of_range"
      [] Named(r) = {} -> "property_not_allowlisted"
      [] Named(r) # {} /\ Matching(r) = {} -> "property_type_mismatch"
      [] OTHER -> "none"

\* As Owner would be if entries that disagree were not ambiguous: the last one wins.
LastOwner(a, r) ==
    LET Finds(k) == Only(EntryOwners(PropertyAllowlist[k], a, r.query))
    IN  {object \in UNION {Finds(k) : k \in Matching(r)} :
            \E k \in Matching(r) : /\ object \in Finds(k)
                                   /\ \A j \in Matching(r) : j > k => Finds(j) = {}}

\* Two owners, of one entry or of two, are ambiguous: the target is missed.
Owner(a, r) ==
    Only(UNION {EntryOwners(PropertyAllowlist[k], a, r.query) : k \in Matching(r)})

\* The objects a write reaches.
Writable(r) ==
    {object \in UNION {Owner(a, r) : a \in r.targets} : HasProperty(object, r.property)}

-----------------------------------------------------------------------------
(***************************************************************************)
(* The allowlist as the preview and the inspection read it.                *)
(***************************************************************************)
\* ReadCurrentPropertyText stops at the first entry that finds one owner, of
\* whatever kind its values are.
CurrentOwner(a, r) ==
    LET Finds(k) == Only(EntryOwners(PropertyAllowlist[k], a, r.query))
    IN  {object \in UNION {Finds(k) : k \in Named(r)} :
            \E k \in Named(r) : /\ object \in Finds(k)
                                /\ \A j \in Named(r) : j < k => Finds(j) = {}}

Readable(r) ==
    {object \in UNION {CurrentOwner(a, r) : a \in r.targets} : HasProperty(object, r.property)}

\* The object get_actor_properties inspects.  With a name, a class that cannot be
\* resolved is not asked for.
InspectedOwner(a, q) ==
    IF q.name # Any
    THEN {object \in ComponentsOf(a) :
            object[2] = q.name /\ (q.component \in Classes => IsInstance(object, q.component))}
    ELSE IF q.component = Any THEN {<<a, Itself>>}
    ELSE Only({object \in ComponentsOf(a) : IsInstance(object, q.component)})

\* The entry that allows a property of an object: the first for a class it is of.
AllowEntry(object, property) ==
    LET speaks == {k \in DOMAIN PropertyAllowlist :
                      /\ PropertyAllowlist[k].property = property
                      /\ IsInstance(object, PropertyAllowlist[k].class)}
    IN  {k \in speaks : \A j \in speaks : k <= j}

\* The fields that are reported unless the cap cuts them off: those of the owner's
\* class, never a path into a struct, though a write takes it.
Reported(object, allowlistedOnly, editableOnly) ==
    {p \in Exposes[Class(object)] \ Dotted :
        /\ allowlistedOnly => AllowEntry(object, p) # {}
        /\ editableOnly => p \in Editable}

-----------------------------------------------------------------------------
(***************************************************************************)
(* A plan's way, from the question to the write.                           *)
(***************************************************************************)
\* An agent that reads again while its plan awaits the human is left out: nothing
\* it learns then bears on that plan.
ExecuteGetActorProperties ==
    /\ pc \in {"asking", "done"}
    /\ \E a \in Actors, q \in Queries, allowlistedOnly, editableOnly \in BOOLEAN :
          \E object \in InspectedOwner(a, q) :
             LET found == Reported(object, allowlistedOnly, editableOnly)
             IN  \E listed \in SUBSET found :
                    /\ listed = {} => found = {}
                    /\ told' = {[actor |-> a, query |-> q, object |-> object,
                                 listed |-> listed]}
    /\ pc' = "asking"
    /\ action' = {} /\ shown' = {} /\ refusal' = "none" /\ written' = {}
    /\ settled' = TRUE
    /\ UNCHANGED <<components, PropertyAllowlist>>

\* A plan for what was asked about, or for anything else.
Propose ==
    /\ pc \in {"asking", "done"}
    /\ \E q \in Queries, targets \in (SUBSET Actors) \ {{}}, p \in Properties, v \in Values :
          LET r == [query |-> q, targets |-> targets, property |-> p, value |-> v]
          IN  /\ PlanIsValid(r)
              /\ action' = {r}
              /\ shown' = Readable(r)
              /\ told' = {t \in told : pc = "asking" /\ r.query = t.query
                                      /\ r.targets = {t.actor}}
    /\ settled' = TRUE
    /\ pc' = "pending"
    /\ refusal' = "none" /\ written' = {}
    /\ UNCHANGED <<components, PropertyAllowlist>>

\* As ExecuteSetActorProperty would be if the targets were visited first.
WriteAndRefuse ==
    /\ pc = "pending"
    /\ \E r \in action : refusal' = RefusalCode(r) /\ written' \in SUBSET Writable(r)
    /\ pc' = "done"
    /\ UNCHANGED <<components, PropertyAllowlist, told, action, shown, settled>>

\* A target whose asset, value or override flag is wrong ends the action; those
\* before it in the list are written.
ExecuteSetActorProperty ==
    /\ pc = "pending"
    /\ \E r \in action :
          /\ refusal' = RefusalCode(r)
          /\ IF RefusalCode(r) = "none" THEN written' \in SUBSET Writable(r)
                                        ELSE written' = {}
    /\ pc' = "done"
    /\ UNCHANGED <<components, PropertyAllowlist, told, action, shown, settled>>

\* The level and the settings change, in the user's hands.
Environment ==
    /\ \/ components' \in Layouts /\ UNCHANGED PropertyAllowlist
       \/ PropertyAllowlist' \in Allowlists /\ UNCHANGED components
    /\ told' = {} /\ settled' = (pc = "asking")
    /\ UNCHANGED <<pc, action, shown, refusal, written>>

AccessInit ==
    /\ components \in Layouts
    /\ PropertyAllowlist \in Allowlists
    /\ pc = "asking"
    /\ told = {} /\ action = {} /\ shown = {} /\ refusal = "none" /\ written = {}
    /\ settled = TRUE

AccessNext ==
    ExecuteGetActorProperties \/ Propose \/ ExecuteSetActorProperty \/ Environment

AccessSpec == AccessInit /\ [][AccessNext]_accessVars

-----------------------------------------------------------------------------
(***************************************************************************)
(* Properties.                                                             *)
(***************************************************************************)
\* The variables are of their types, and a refused action has written nothing.
AccessTypeOK ==
    /\ components \in Layouts /\ PropertyAllowlist \in Allowlists
    /\ pc \in {"asking", "pending", "done"} /\ settled \in BOOLEAN
    /\ \A t \in told : /\ t.actor \in Actors /\ t.query \in Queries
                       /\ t.listed \subseteq Properties
    /\ \A r \in action : /\ r.query \in Queries /\ r.targets \subseteq Actors
                         /\ r.property \in Properties /\ r.value \in Values
    /\ (pc = "asking") = (action = {})
    /\ written # {} => pc = "done" /\ refusal = "none"

\* What the human approved is what is written: the executor, which takes the last
\* entry that all others agree with, writes the very object whose value the preview,
\* which takes the first, showed, unless an entry for values of another kind finds
\* an object of that actor too.
WrittenAsShown ==
    settled /\ pc = "done" =>
        \A r \in action : \A object \in written :
            \/ object \in shown
            \/ \E k \in Named(r) \ Matching(r) :
                  Only(EntryOwners(PropertyAllowlist[k], object[1], r.query)) # {}

\* The entry whose kind and range get_actor_properties reports makes the value one
\* that may be written.
TellsOf(t, r) ==
    /\ r.property \in t.listed
    /\ \E k \in AllowEntry(t.object, r.property) :
          PropertyAllowlist[k].kind = KindOf[r.value] /\ InRange(k, r)

\* What the agent read is what it writes: a plan for a property it was told of, with
\* the params it asked with, writes the object it inspected or nothing.
ToldIsWritten ==
    settled /\ pc = "done" =>
        \A t \in told, r \in action : TellsOf(t, r) => written \subseteq {t.object}

\* docs/specs/action-plan-format.md: the defaults "return exactly the
\* set_actor_property-writable surface", so that a plan made from the answer is not
\* refused once it was approved.
ToldIsAccepted ==
    settled /\ pc = "done" =>
        \A t \in told, r \in action : TellsOf(t, r) => refusal = "none"

=============================================================================
