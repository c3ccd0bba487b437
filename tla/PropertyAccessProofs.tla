------------------------ MODULE PropertyAccessProofs ------------------------
(***************************************************************************)
(* Theorems about PropertyAccess, for every allowlist, class hierarchy and *)
(* set of components.                                                      *)
(*                                                                         *)
(* The three walks over the allowlist are compared in lemmas about one     *)
(* state; the invariant carries what the agent was told, what the human    *)
(* was shown and what was written as values of these walks in the present  *)
(* state.                                                                  *)
(***************************************************************************)
EXTENDS PropertyAccess, WellFoundedInduction, TLAPS

-----------------------------------------------------------------------------
\* A nonempty set of places in the allowlist has a first one.
LEMMA HasFirst ==
    ASSUME PropertyAllowlist \in Allowlists, NEW S, S \subseteq DOMAIN PropertyAllowlist, S # {}
    PROVE  \E k \in S : \A j \in S : k <= j
<1>1. PropertyAllowlist \in Seq(Entry) BY AccessAssumption
<1>2. S \in SUBSET Nat BY <1>1
<1>3. S # {} OBVIOUS
<1> DEFINE R == OpToRel(<, Nat)
<1>4. \A x, y \in Nat : <<x, y>> \in R <=> x < y BY DEF OpToRel
<1>5. IsWellFoundedOn(R, Nat) BY NatLessThanWellFounded
<1> HIDE DEF R
<1>6. PICK x \in S : \A y \in S : ~(<<y, x>> \in R) BY <1>2, <1>3, <1>5, WFMin
<1>7. ASSUME NEW y \in S PROVE x <= y
  <2>1. x \in Nat /\ y \in Nat BY <1>2
  <2>2. ~(y < x) BY <1>4, <1>6, <2>1
  <2> QED BY <2>1, <2>2
<1> QED BY <1>7

\* The objects of an entry are objects of the actor and of the entry's class.
LEMMA EntryOwnersFit ==
    ASSUME NEW entry, NEW a, NEW q, NEW object \in EntryOwners(entry, a, q)
    PROVE  object[1] = a /\ IsInstance(object, entry.class)
BY DEF EntryOwners, ComponentsOf

\* Where no entry for values of another kind finds an object, the first entry that
\* finds one finds the one all others agree on.
LEMMA LastIsFirst ==
    ASSUME PropertyAllowlist \in Allowlists,
           NEW r, NEW a, NEW object \in Owner(a, r),
           \A k \in Named(r) \ Matching(r) :
              Only(EntryOwners(PropertyAllowlist[k], a, r.query)) = {}
    PROVE  object \in CurrentOwner(a, r)
<1> DEFINE Of(k) == EntryOwners(PropertyAllowlist[k], a, r.query)
           Finders == {k \in Named(r) : Only(Of(k)) # {}}
<1>1. UNION {Of(k) : k \in Matching(r)} = {object} BY DEF Owner, Only
<1>2. \A k \in Matching(r) : Of(k) \subseteq {object} BY <1>1
<1>3. PICK m \in Matching(r) : object \in Of(m) BY <1>1
<1>4. Matching(r) \subseteq Named(r) /\ Named(r) \subseteq DOMAIN PropertyAllowlist
  BY DEF Matching, Named
<1>5. Of(m) = {object} BY <1>2, <1>3
<1>6. Only(Of(m)) = {object} BY <1>5 DEF Only
<1>7. Finders # {} /\ Finders \subseteq DOMAIN PropertyAllowlist BY <1>3, <1>4, <1>6
<1>8. PICK k \in Finders : \A j \in Finders : k <= j BY <1>7, HasFirst
<1>9. k \in Matching(r) BY <1>8
<1>10. Only(Of(k)) = {object} BY <1>2, <1>8, <1>9 DEF Only
<1>11. \A j \in Named(r) : j < k => Only(Of(j)) = {}
  <2> PropertyAllowlist \in Seq(Entry) BY AccessAssumption
  <2> DOMAIN PropertyAllowlist \subseteq Nat OBVIOUS
  <2> Finders \subseteq Nat BY <1>7
  <2> SUFFICES ASSUME NEW j \in Named(r), j < k, j \in Finders PROVE FALSE OBVIOUS
  <2>1. j \in Nat /\ k \in Nat OBVIOUS
  <2>2. k <= j BY <1>8
  <2> HIDE DEF Finders
  <2> QED BY <2>1, <2>2
<1> QED BY <1>9, <1>10, <1>11, <1>4 DEF CurrentOwner

-----------------------------------------------------------------------------
(***************************************************************************)
(* What was inspected and what is written.                                 *)
(***************************************************************************)
\* An answer is about the object its params name in the present state.
ToldOK(t) ==
    /\ t.actor \in Actors /\ t.query \in Queries
    /\ t.object \in InspectedOwner(t.actor, t.query)
    /\ t.listed \subseteq Properties

\* A write with the params of the answer reaches the inspected object or none.
LEMMA OneObjectForBoth ==
    ASSUME components \in Layouts, PropertyAllowlist \in Allowlists,
           NEW t, ToldOK(t), NEW r, r.query = t.query, r.targets = {t.actor}, TellsOf(t, r)
    PROVE  Writable(r) \subseteq {t.object}
<1> DEFINE a == t.actor
           q == t.query
           Of(k) == EntryOwners(PropertyAllowlist[k], a, q)
<1> SUFFICES ASSUME NEW object \in Owner(a, r) PROVE object = t.object BY DEF Writable
<1>1. UNION {Of(k) : k \in Matching(r)} = {object} BY DEF Owner, Only
<1>2. PICK m \in Matching(r) : object \in Of(m) BY <1>1
<1>3. SUFFICES ASSUME \A k \in Matching(r) : t.object \notin Of(k) PROVE object = t.object
  BY <1>1
<1>4. PICK k \in AllowEntry(t.object, r.property) : PropertyAllowlist[k].kind = KindOf[r.value]
  BY DEF TellsOf
<1>5. /\ k \in DOMAIN PropertyAllowlist /\ PropertyAllowlist[k].property = r.property
      /\ IsInstance(t.object, PropertyAllowlist[k].class)
  BY <1>4 DEF AllowEntry
<1>6. /\ a \in Actors /\ q \in Queries /\ t.object \in InspectedOwner(a, q) BY DEF ToldOK
<1>7. /\ q.component \in {Any, PropertyAllowlist[k].class} => k \in Matching(r)
      /\ q.component \in {Any, PropertyAllowlist[m].class}
  BY <1>2, <1>4, <1>5 DEF Matching, Named
<1>8. PropertyAllowlist[m].class \in Classes /\ PropertyAllowlist[k].class \in Classes
  <2>1. PropertyAllowlist \in Seq(Entry) BY AccessAssumption
  <2>2. PropertyAllowlist[m] \in Entry /\ PropertyAllowlist[k] \in Entry
    BY <2>1, <1>2, <1>5 DEF Matching, Named
  <2> QED BY <2>2 DEF Entry
<1>9. \A o \in ComponentsOf(a) : /\ o[2] # Itself /\ Class(o) \in Classes \ ActorClasses
                                 /\ \A c \in ActorClasses : ~IsInstance(o, c)
  BY <1>6, AccessAssumption DEF ComponentsOf, Class, IsInstance
<1>10. CASE q.name # Any
  <2>1. /\ t.object \in ComponentsOf(a) /\ t.object[2] = q.name
        /\ q.component \in Classes => IsInstance(t.object, q.component)
    BY <1>6, <1>10 DEF InspectedOwner
  <2>2. CASE q.component \in {Any, PropertyAllowlist[k].class}
    BY <2>1, <2>2, <1>3, <1>5, <1>7, <1>9 DEF EntryOwners
  <2>3. CASE q.component \notin {Any, PropertyAllowlist[k].class}
    <3>1. q.component = PropertyAllowlist[m].class BY <2>3, <1>7
    <3>2. IsInstance(t.object, PropertyAllowlist[m].class) BY <3>1, <2>1, <1>8
    <3> QED BY <3>2, <2>1, <1>2, <1>3, <1>9 DEF EntryOwners
  <2> QED BY <2>2, <2>3
<1>11. CASE q.name = Any /\ q.component = Any
  <2>1. t.object = <<a, Itself>> BY <1>6, <1>11 DEF InspectedOwner
  <2>2. PropertyAllowlist[k].class \in ActorClasses
    BY <2>1, <1>5, <1>6, AccessAssumption DEF IsInstance, Class
  <2> QED BY <2>1, <2>2, <1>3, <1>5, <1>7, <1>11 DEF EntryOwners
<1>12. CASE q.name = Any /\ q.component # Any
  <2> DEFINE S == {o \in ComponentsOf(a) : IsInstance(o, q.component)}
  <2>1. q.component = PropertyAllowlist[m].class BY <1>7, <1>12
  <2>2. t.object \in Only(S) BY <1>6, <1>12 DEF InspectedOwner
  <2>3. S = {t.object} BY <2>2 DEF Only
  <2>4. PropertyAllowlist[m].class \notin ActorClasses BY <2>1, <2>3, <1>9
  <2>5. object \in S BY <2>1, <2>4, <1>2 DEF EntryOwners
  <2> QED BY <2>3, <2>5
<1> QED BY <1>10, <1>11, <1>12

-----------------------------------------------------------------------------
(***************************************************************************)
(* What every reachable state keeps: the answer and the preview are those  *)
(* of the present components and allowlist, as long as nothing changes.    *)
(***************************************************************************)
ActionOK ==
    /\ \A r \in action : /\ r.query \in Queries /\ r.targets \subseteq Actors
                         /\ r.property \in Properties /\ r.value \in Values
    /\ \A r, s \in action : r = s
    /\ pc = "asking" <=> action = {}

ToldInv ==
    \A t \in told : /\ ToldOK(t)
                    /\ \A r \in action : r.query = t.query /\ r.targets = {t.actor}

ShownInv == settled = TRUE => \A r \in action : shown = Readable(r)

WrittenInv == /\ settled = TRUE => \A r \in action : written \subseteq Writable(r)
              /\ written # {} => pc = "done" /\ refusal = "none"

AccessInv ==
    /\ components \in Layouts /\ PropertyAllowlist \in Allowlists
    /\ pc \in {"asking", "pending", "done"} /\ settled \in BOOLEAN
    /\ ActionOK /\ ToldInv /\ ShownInv /\ WrittenInv

-----------------------------------------------------------------------------
(***************************************************************************)
(* Where the components and the allowlist stay, the walks find the same.   *)
(***************************************************************************)
LEMMA SameWalks ==
    ASSUME UNCHANGED <<components, PropertyAllowlist>>, NEW r
    PROVE  Readable(r)' = Readable(r) /\ Writable(r)' = Writable(r)
BY DEF Readable, Writable, CurrentOwner, Owner, Only, EntryOwners, ComponentsOf,
       IsInstance, Class, HasProperty, Matching, Named

LEMMA SameAnswer ==
    ASSUME UNCHANGED <<components, PropertyAllowlist>>, NEW t, ToldOK(t)
    PROVE  ToldOK(t)'
BY DEF ToldOK, InspectedOwner, Only, ComponentsOf, IsInstance, Class

\* An inspected object is of a class, and what is reported of it is a property.
LEMMA InspectedHasClass ==
    ASSUME components \in Layouts, NEW a \in Actors, NEW q \in Queries,
           NEW object \in InspectedOwner(a, q)
    PROVE  Class(object) \in Classes
<1>1. CASE object = <<a, Itself>>
  BY <1>1, AccessAssumption DEF Class
<1>2. CASE object \in ComponentsOf(a)
  BY <1>2, AccessAssumption DEF ComponentsOf, Class
<1> QED BY <1>1, <1>2 DEF InspectedOwner, Only

\* What a question answers is right.
LEMMA AnswerIsRight ==
    ASSUME components \in Layouts, NEW a \in Actors, NEW q \in Queries,
           NEW allowlistedOnly \in BOOLEAN, NEW editableOnly \in BOOLEAN,
           NEW object \in InspectedOwner(a, q),
           NEW listed, listed \subseteq Reported(object, allowlistedOnly, editableOnly)
    PROVE  ToldOK([actor |-> a, query |-> q, object |-> object, listed |-> listed])
<1> DEFINE t == [actor |-> a, query |-> q, object |-> object, listed |-> listed]
<1>1. t.actor = a /\ t.query = q /\ t.object = object /\ t.listed = listed
  OBVIOUS
<1> HIDE DEF t
<1>2. Class(object) \in Classes BY InspectedHasClass
<1>3. listed \subseteq Properties BY <1>2 DEF Reported, Properties
<1>4. ToldOK(t) BY <1>1, <1>3 DEF ToldOK
<1> QED BY <1>4 DEF t

-----------------------------------------------------------------------------
LEMMA AccessInvInit == AccessInit => AccessInv
BY DEF AccessInit, AccessInv, ActionOK, ToldInv, ShownInv, WrittenInv

LEMMA AskKeeps == AccessInv /\ ExecuteGetActorProperties => AccessInv'
<1> SUFFICES ASSUME AccessInv, ExecuteGetActorProperties PROVE AccessInv' OBVIOUS
<1>1. /\ pc' = "asking" /\ action' = {} /\ written' = {} /\ settled' = TRUE
      /\ components' = components /\ PropertyAllowlist' = PropertyAllowlist
  BY DEF ExecuteGetActorProperties
<1>2. ASSUME NEW t \in told' PROVE ToldOK(t)'
  <2>1. PICK a \in Actors, q \in Queries, allowlistedOnly, editableOnly \in BOOLEAN :
           \E object \in InspectedOwner(a, q) :
             LET found == Reported(object, allowlistedOnly, editableOnly)
             IN  \E listed \in SUBSET found :
                    /\ listed = {} => found = {}
                    /\ told' = {[actor |-> a, query |-> q, object |-> object,
                                 listed |-> listed]}
    BY DEF ExecuteGetActorProperties
  <2> DEFINE found(o) == Reported(o, allowlistedOnly, editableOnly)
  <2>2. PICK object \in InspectedOwner(a, q) : \E listed \in SUBSET found(object) :
           told' = {[actor |-> a, query |-> q, object |-> object, listed |-> listed]}
    BY <2>1
  <2>3. PICK listed \in SUBSET found(object) :
           told' = {[actor |-> a, query |-> q, object |-> object, listed |-> listed]}
    BY <2>2
  <2>4. ToldOK([actor |-> a, query |-> q, object |-> object, listed |-> listed])
    <3>1. components \in Layouts BY DEF AccessInv
    <3> QED BY <3>1, AnswerIsRight
  <2>5. ToldOK(t) BY <2>3, <2>4
  <2> QED BY <2>5, <1>1, SameAnswer
<1>3. ToldInv' BY <1>1, <1>2 DEF ToldInv
<1> QED BY <1>1, <1>3 DEF AccessInv, ActionOK, ShownInv, WrittenInv

LEMMA ProposeKeeps == AccessInv /\ Propose => AccessInv'
<1> SUFFICES ASSUME AccessInv, Propose PROVE AccessInv' OBVIOUS
<1>1. /\ pc' = "pending" /\ written' = {} /\ settled' = TRUE /\ refusal' = "none"
      /\ components' = components /\ PropertyAllowlist' = PropertyAllowlist
  BY DEF Propose
<1>2. PICK q \in Queries, targets \in (SUBSET Actors) \ {{}}, p \in Properties, v \in Values :
         LET r == [query |-> q, targets |-> targets, property |-> p, value |-> v]
         IN  /\ action' = {r}
             /\ shown' = Readable(r)
             /\ told' = {t \in told : pc = "asking" /\ r.query = t.query
                                      /\ r.targets = {t.actor}}
  BY DEF Propose
<1> DEFINE r == [query |-> q, targets |-> targets, property |-> p, value |-> v]
<1>3. /\ r.query \in Queries /\ r.targets \subseteq Actors
      /\ r.property \in Properties /\ r.value \in Values
  OBVIOUS
<1>4. /\ action' = {r} /\ shown' = Readable(r)
      /\ told' = {t \in told : pc = "asking" /\ r.query = t.query /\ r.targets = {t.actor}}
  BY <1>2
<1> HIDE DEF r
<1>5. ToldInv'
  <2>1. ASSUME NEW t \in told' PROVE ToldOK(t)'
    BY <2>1, <1>1, <1>4, SameAnswer DEF AccessInv, ToldInv
  <2> QED BY <2>1, <1>4 DEF ToldInv
<1>6. ShownInv' BY <1>1, <1>4, SameWalks DEF ShownInv
<1>7. WrittenInv' /\ ActionOK' BY <1>1, <1>3, <1>4 DEF WrittenInv, ActionOK
<1> QED BY <1>1, <1>5, <1>6, <1>7 DEF AccessInv

LEMMA WriteKeeps == AccessInv /\ ExecuteSetActorProperty => AccessInv'
<1> SUFFICES ASSUME AccessInv, ExecuteSetActorProperty PROVE AccessInv' OBVIOUS
<1>1. /\ pc = "pending" /\ pc' = "done"
      /\ UNCHANGED <<components, PropertyAllowlist, told, action, shown, settled>>
  BY DEF ExecuteSetActorProperty
<1>2. ToldInv'
  <2>1. ASSUME NEW t \in told' PROVE ToldOK(t)'
    BY <2>1, <1>1, SameAnswer DEF AccessInv, ToldInv
  <2> QED BY <2>1, <1>1 DEF AccessInv, ToldInv
<1>3. ShownInv' BY <1>1, SameWalks DEF ShownInv, AccessInv
<1>4. PICK r \in action :
         /\ refusal' = RefusalCode(r)
         /\ IF RefusalCode(r) = "none" THEN written' \in SUBSET Writable(r)
                                       ELSE written' = {}
  BY DEF ExecuteSetActorProperty
<1>5. WrittenInv'
  <2>1. written' \subseteq Writable(r) /\ (written' # {} => refusal' = "none") BY <1>4
  <2>2. \A s \in action : written' \subseteq Writable(s)
    BY <1>4, <2>1 DEF AccessInv, ActionOK
  <2> QED BY <2>1, <2>2, <1>1, SameWalks DEF WrittenInv
<1>6. ActionOK' BY <1>1 DEF ActionOK, AccessInv
<1> QED BY <1>1, <1>2, <1>3, <1>5, <1>6 DEF AccessInv

\* The answer is forgotten, and a preview or a write that was is no longer vouched for.
LEMMA EnvironmentKeeps == AccessInv /\ Environment => AccessInv'
<1> SUFFICES ASSUME AccessInv, Environment PROVE AccessInv' OBVIOUS
<1>1. /\ components' \in Layouts /\ PropertyAllowlist' \in Allowlists
      /\ told' = {} /\ UNCHANGED <<pc, action, shown, refusal, written>>
  BY DEF Environment, AccessInv
<1>2. /\ settled' \in BOOLEAN
      /\ settled' = TRUE => action' = {}
  <2>1. settled' = (pc = "asking") /\ action' = action BY <1>1 DEF Environment
  <2>2. pc = "asking" <=> action = {} BY DEF AccessInv, ActionOK
  <2> QED BY <2>1, <2>2
<1>3. ActionOK' BY <1>1 DEF AccessInv, ActionOK
<1>4. ToldInv' BY <1>1 DEF ToldInv
<1>5. ShownInv' BY <1>2 DEF ShownInv
<1>6. WrittenInv' BY <1>1, <1>2 DEF WrittenInv, AccessInv
<1> QED BY <1>1, <1>2, <1>3, <1>4, <1>5, <1>6 DEF AccessInv

LEMMA StutterKeeps == AccessInv /\ UNCHANGED accessVars => AccessInv'
<1> SUFFICES ASSUME AccessInv, UNCHANGED accessVars PROVE AccessInv' OBVIOUS
<1>1. UNCHANGED <<components, PropertyAllowlist, pc, told, action, shown, refusal, written,
                  settled>>
  BY DEF accessVars
<1>2. ToldInv'
  <2>1. ASSUME NEW t \in told' PROVE ToldOK(t)'
    BY <2>1, <1>1, SameAnswer DEF AccessInv, ToldInv
  <2> QED BY <2>1, <1>1 DEF AccessInv, ToldInv
<1>3. ShownInv' /\ WrittenInv' BY <1>1, SameWalks DEF AccessInv, ShownInv, WrittenInv
<1>4. ActionOK' BY <1>1 DEF AccessInv, ActionOK
<1> QED BY <1>1, <1>2, <1>3, <1>4 DEF AccessInv

LEMMA AccessInvHolds == AccessSpec => []AccessInv
<1>1. AccessInv /\ [AccessNext]_accessVars => AccessInv'
  BY AskKeeps, ProposeKeeps, WriteKeeps, EnvironmentKeeps, StutterKeeps DEF AccessNext
<1> QED BY AccessInvInit, <1>1, PTL DEF AccessSpec

-----------------------------------------------------------------------------
\* The variables keep their types, and a refused set_actor_property writes nothing.
THEOREM AccessTypes == AccessSpec => []AccessTypeOK
<1>1. AccessInv => AccessTypeOK
  <2> SUFFICES ASSUME AccessInv PROVE AccessTypeOK OBVIOUS
  <2>1. (pc = "asking") = (action = {}) BY DEF AccessInv, ActionOK
  <2>2. \A t \in told : /\ t.actor \in Actors /\ t.query \in Queries
                        /\ t.listed \subseteq Properties
    BY DEF AccessInv, ToldInv, ToldOK
  <2> QED BY <2>1, <2>2 DEF AccessInv, ActionOK, WrittenInv, AccessTypeOK
<1> QED BY <1>1, AccessInvHolds, PTL

\* BuildPropertyRow and ExecuteSetActorProperty: the approved preview showed the very
\* objects that are written, where no entry of another kind comes between.
THEOREM ShownIsWritten == AccessSpec => []WrittenAsShown
<1>1. AccessInv => WrittenAsShown
  <2> SUFFICES ASSUME AccessInv, settled = TRUE, NEW r \in action, NEW object \in written,
                      \A k \in Named(r) \ Matching(r) :
                         Only(EntryOwners(PropertyAllowlist[k], object[1], r.query)) = {}
               PROVE  object \in shown
    BY DEF WrittenAsShown
  <2>1. object \in Writable(r) BY DEF AccessInv, WrittenInv
  <2>2. PICK a \in r.targets : object \in Owner(a, r) BY <2>1 DEF Writable
  <2>3. object[1] = a BY <2>2, EntryOwnersFit DEF Owner, Only
  <2>4. object \in CurrentOwner(a, r) BY <2>2, <2>3, LastIsFirst DEF AccessInv
  <2>5. object \in Readable(r) BY <2>1, <2>2, <2>4 DEF Readable, Writable
  <2> QED BY <2>5 DEF AccessInv, ShownInv
<1> QED BY <1>1, AccessInvHolds, PTL

\* ExecuteGetActorProperties and ExecuteSetActorProperty resolve the same params to the
\* same object, whatever entries, names and classes there are.
THEOREM AnswersNameTheObject == AccessSpec => []ToldIsWritten
<1>1. AccessInv => ToldIsWritten
  <2> SUFFICES ASSUME AccessInv, settled = TRUE, NEW t \in told, NEW r \in action,
                      TellsOf(t, r)
               PROVE  written \subseteq {t.object}
    BY DEF ToldIsWritten
  <2>1. written \subseteq Writable(r) BY DEF AccessInv, WrittenInv
  <2>2. ToldOK(t) /\ r.query = t.query /\ r.targets = {t.actor} BY DEF AccessInv, ToldInv
  <2>3. Writable(r) \subseteq {t.object} BY <2>2, OneObjectForBoth DEF AccessInv
  <2> QED BY <2>1, <2>3
<1> QED BY <1>1, AccessInvHolds, PTL

=============================================================================
