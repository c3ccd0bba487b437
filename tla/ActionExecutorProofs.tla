------------------------ MODULE ActionExecutorProofs ------------------------
(***************************************************************************)
(* Theorems about ActionExecutor, for any plans over any actors and        *)
(* packages.                                                               *)
(*                                                                         *)
(* What a handler does to the level is stated once, handler by handler,    *)
(* in three facts: it records what it changes (RecordsWhatItChanges), it   *)
(* dirties only packages the write policy looked at and those of the       *)
(* actors it creates (DirtiesOnly), and its one result tells what happened *)
(* (ReportsTruly).  The theorems follow from these and from what the other *)
(* steps leave alone.                                                      *)
(***************************************************************************)
EXTENDS ActionExecutor, SequenceTheorems, FiniteSetTheorems, TLAPS

IsSequence(s) == s \in Seq(Range(s))

\* The types the proofs need.
ExecutorTypeOK ==
    /\ live \subseteq Actors
    /\ before.live \subseteq Actors
    /\ files \in [Packages -> FileState]
    /\ IsSequence(results)

\* What changes is in the transaction, and what is in it stays in it.
RecordsWhatItChanges ==
    /\ recorded \subseteq recorded'
    /\ \A a \in Actors \ recorded' :
          /\ (a \in live) = (a \in live')
          /\ \A x \in Attributes : (<<a, x>> \in edited) = (<<a, x>> \in edited')

\* Only some packages become dirty, and those that new actors are put into.
DirtiesOnly(packages) == dirty' \subseteq (dirty \cup Homes(live' \ live)) \cup packages

\* An edit that succeeded: every target exists and is edited.
Reached(action) ==
    /\ action.tool \in Edits \ {"remove_actor_tags"} =>
          /\ Targets(action) \subseteq live'
          /\ Targets(action) \X {Attribute(action.tool)} \subseteq edited'
    /\ action.tool = "remove_actor_tags" =>
          /\ Targets(action) \subseteq live'
          /\ Targets(action) \X {"tags"} \cap edited' = {}

\* One result is added, and its success and its count are true.
ReportsTruly(action) ==
    \E r : /\ results' = Append(results, r)
           /\ r.action = action
           /\ r.success => Reached(action)
           /\ action.tool \in {"add_actor_tags", "remove_actor_tags"} =>
                 r.changed = Cardinality(r.touched)

-----------------------------------------------------------------------------
\* A refused action changes nothing.
LEMMA RefuseShape ==
    ASSUME NEW action, NEW refusal, Refuse(action, refusal)
    PROVE  RecordsWhatItChanges /\ DirtiesOnly({}) /\ ReportsTruly(action)
  <1> DEFINE none == {a \in Actors : Changed(a)}
             r == [action |-> action, success |-> FALSE, changed |-> 0,
                   refusal |-> refusal, touched |-> none]
  <1>1. UNCHANGED <<live, edited, recorded, dirty>>
    BY DEF Refuse, levelVars
  <1>2. none = {}
    BY <1>1 DEF Changed
  <1>3. Cardinality(none) = 0
    BY <1>2, FS_EmptySet
  <1>4. results' = Append(results, r)
    BY DEF Refuse, Report
  <1>5. r.action = action /\ r.success = FALSE /\ r.changed = Cardinality(r.touched)
    BY <1>3
  <1> HIDE DEF r
  <1>6. ReportsTruly(action)
    BY <1>4, <1>5 DEF ReportsTruly
  <1> QED
    BY <1>1, <1>6 DEF RecordsWhatItChanges, DirtiesOnly

\* The two handlers that write one attribute.
LEMMA WriteShape ==
    ASSUME NEW actors, NEW attribute, Write(actors, attribute)
    PROVE  RecordsWhatItChanges /\ DirtiesOnly({Home[a] : a \in actors})
  BY DEF Write, RecordsWhatItChanges, DirtiesOnly

\* A tag edit changes exactly the actors it counts.
LEMMA TagsChanged ==
    ASSUME NEW some \in SUBSET Actors, UNCHANGED live,
           \/ /\ edited' = edited \cup (some \X {"tags"})
              /\ \A a \in some : <<a, "tags">> \notin edited
           \/ /\ edited' = edited \ (some \X {"tags"})
              /\ \A a \in some : <<a, "tags">> \in edited
    PROVE  {a \in Actors : Changed(a)} = some
  <1>1. "tags" \in Attributes
    BY DEF Attributes
  <1>2. ASSUME NEW a \in some
        PROVE  Changed(a)
    BY <1>1, <1>2 DEF Changed
  <1>3. ASSUME NEW a \in Actors \ some
        PROVE  ~Changed(a)
    <2>1. \A x \in Attributes : (<<a, x>> \in edited) = (<<a, x>> \in edited')
      <3>1. CASE edited' = edited \cup (some \X {"tags"})
        BY <1>3, <3>1
      <3>2. CASE edited' = edited \ (some \X {"tags"})
        BY <1>3, <3>2
      <3> QED
        BY <3>1, <3>2
    <2> QED
      BY <2>1 DEF Changed
  <1> QED
    BY <1>2, <1>3

\* Whatever a report says of a tool that edits nothing, it claims no edit.
LEMMA OtherReport ==
    ASSUME NEW action, NEW success, NEW count, NEW refusal,
           Report(action, success, count, refusal),
           action.tool \notin Edits
    PROVE  ReportsTruly(action)
  <1> DEFINE r == [action |-> action, success |-> success, changed |-> count,
                   refusal |-> refusal, touched |-> {a \in Actors : Changed(a)}]
  <1>1. results' = Append(results, r) /\ r.action = action
    BY DEF Report
  <1>2. Reached(action)
    BY DEF Reached, Edits
  <1>3. action.tool \notin {"add_actor_tags", "remove_actor_tags"}
    BY DEF Edits
  <1> HIDE DEF r
  <1> QED
    BY <1>1, <1>2, <1>3 DEF ReportsTruly

\* A report of an edit is true if its success means that the targets were
\* reached and, of tags, its count is the number of actors changed.
LEMMA EditReport ==
    ASSUME NEW action, NEW success \in BOOLEAN, NEW count, NEW refusal,
           Report(action, success, count, refusal),
           success => Reached(action),
           action.tool \in {"add_actor_tags", "remove_actor_tags"} =>
               count = Cardinality({a \in Actors : Changed(a)})
    PROVE  ReportsTruly(action)
  <1> DEFINE touched == {a \in Actors : Changed(a)}
             r == [action |-> action, success |-> success, changed |-> count,
                   refusal |-> refusal, touched |-> touched]
  <1>1. results' = Append(results, r)
    BY DEF Report
  <1>2. r.action = action /\ r.success = success /\ r.changed = count /\ r.touched = touched
    OBVIOUS
  <1> HIDE DEF r
  <1>3. r.success => Reached(action)
    BY <1>2
  <1> HIDE DEF touched
  <1>4. action.tool \in {"add_actor_tags", "remove_actor_tags"} =>
            r.changed = Cardinality(r.touched)
    BY <1>2 DEF touched
  <1> QED
    BY <1>1, <1>2, <1>3, <1>4 DEF ReportsTruly

\* Reaching every place in the target list is reaching every target.
LEMMA AllOfReaches ==
    ASSUME NEW action, NEW places \in SUBSET Valid(action), AllOf(action, places)
    PROVE  Targets(action) = At(action, places) /\ Targets(action) \subseteq live
  BY DEF AllOf, Valid, At, Targets

-----------------------------------------------------------------------------
\* The packages an action may dirty: none for the tools the policy lets pass.
MayDirty(action) ==
    IF action.tool \in {"observe", "select_actors", "check_out_package"}
    THEN {} ELSE ActionPackages(action)

Shape(action) ==
    RecordsWhatItChanges /\ DirtiesOnly(MayDirty(action)) /\ ReportsTruly(action)

\* Writing valid targets dirties only packages the policy looked at.
LEMMA EditDirties ==
    ASSUME NEW action, action.tool \in Edits \cup {"duplicate_actor_with_offset",
               "spawn_actor_from_class", "delete_actor"},
           NEW actors \in SUBSET ValidTargets(action), DirtiesOnly({Home[a] : a \in actors})
    PROVE  DirtiesOnly(MayDirty(action))
  <1>1. MayDirty(action) = ActionPackages(action)
    BY DEF MayDirty, Edits
  <1>2. {Home[a] : a \in actors} \subseteq ActionPackages(action)
    BY DEF ActionPackages
  <1> QED
    BY <1>1, <1>2 DEF DirtiesOnly

LEMMA RefusedShape ==
    ASSUME NEW action, NEW refusal, Refuse(action, refusal)
    PROVE  Shape(action)
  BY RefuseShape DEF Shape, DirtiesOnly

LEMMA ReadOnlyShape ==
    ASSUME NEW action, ExecuteReadOnly(action)
    PROVE  Shape(action)
  <1>1. CASE \E refusal : Refuse(action, refusal)
    BY <1>1, RefusedShape
  <1>2. CASE UNCHANGED <<levelVars, recorded, files>> /\ Report(action, TRUE, 0, "none")
    <2>1. action.tool \notin Edits
      BY DEF ExecuteReadOnly, Edits
    <2>2. ReportsTruly(action)
      BY <1>2, <2>1, OtherReport
    <2>3. RecordsWhatItChanges /\ DirtiesOnly(MayDirty(action))
      BY <1>2 DEF RecordsWhatItChanges, DirtiesOnly, levelVars
    <2> QED
      BY <2>2, <2>3 DEF Shape
  <1> QED
    BY <1>1, <1>2 DEF ExecuteReadOnly

\* The four handlers that write an attribute on the targets they reach.
LEMMA WriteReaches ==
    ASSUME NEW action, action.tool \in Edits \ {"remove_actor_tags"},
           NEW places \in SUBSET Valid(action), AllOf(action, places),
           UNCHANGED live,
           At(action, places) \X {Attribute(action.tool)} \subseteq edited'
    PROVE  Reached(action)
  BY AllOfReaches DEF Reached

LEMMA SetActorFolderShape ==
    ASSUME NEW action, ExecuteSetActorFolder(action)
    PROVE  Shape(action)
  <1> DEFINE done == AllOf(action, Valid(action))
  <1>1. /\ action.tool = "set_actor_folder"
        /\ action.tool \in Edits \ {"remove_actor_tags"}
        /\ Attribute(action.tool) = "folder"
    BY DEF ExecuteSetActorFolder, Edits, Attribute
  <1>2. /\ Write(ValidTargets(action), "folder")
        /\ Report(action, done, Cardinality(Valid(action)), "none")
    BY DEF ExecuteSetActorFolder
  <1>3. RecordsWhatItChanges /\ DirtiesOnly(MayDirty(action))
    BY <1>1, <1>2, WriteShape, EditDirties
  <1>4. done => Reached(action)
    BY <1>1, <1>2, WriteReaches DEF Write, ValidTargets
  <1>5. done \in BOOLEAN
    BY DEF AllOf
  <1>6. ReportsTruly(action)
    BY <1>1, <1>2, <1>4, <1>5, EditReport
  <1> QED
    BY <1>3, <1>6 DEF Shape

LEMMA SetActorLabelShape ==
    ASSUME NEW action, ExecuteSetActorLabel(action)
    PROVE  Shape(action)
  <1> DEFINE done == AllOf(action, Valid(action))
  <1>1. /\ action.tool = "set_actor_label"
        /\ action.tool \in Edits \ {"remove_actor_tags"}
        /\ Attribute(action.tool) = "label"
    BY DEF ExecuteSetActorLabel, Edits, Attribute
  <1>2. /\ Write(ValidTargets(action), "label")
        /\ Report(action, done, Cardinality(Valid(action)), "none")
    BY DEF ExecuteSetActorLabel
  <1>3. RecordsWhatItChanges /\ DirtiesOnly(MayDirty(action))
    BY <1>1, <1>2, WriteShape, EditDirties
  <1>4. done => Reached(action)
    BY <1>1, <1>2, WriteReaches DEF Write, ValidTargets
  <1>5. done \in BOOLEAN
    BY DEF AllOf
  <1>6. ReportsTruly(action)
    BY <1>1, <1>2, <1>4, <1>5, EditReport
  <1> QED
    BY <1>3, <1>6 DEF Shape

LEMMA SetActorTransformShape ==
    ASSUME NEW action, ExecuteSetActorTransform(action)
    PROVE  Shape(action)
  <1> DEFINE placed == {k \in Valid(action) : action.targets[k] \notin Rootless}
             done == AllOf(action, placed)
  <1>1. /\ action.tool = "set_actor_transform"
        /\ action.tool \in Edits \ {"remove_actor_tags"}
        /\ Attribute(action.tool) = "transform"
    BY DEF ExecuteSetActorTransform, Edits, Attribute
  <1>2. /\ Write(At(action, placed), "transform")
        /\ Report(action, done, Cardinality(placed), "none")
    BY DEF ExecuteSetActorTransform
  <1>3. placed \in SUBSET Valid(action) /\ At(action, placed) \in SUBSET ValidTargets(action)
    BY DEF At, ValidTargets
  <1> HIDE DEF placed
  <1>4. RecordsWhatItChanges /\ DirtiesOnly(MayDirty(action))
    BY <1>1, <1>2, <1>3, WriteShape, EditDirties
  <1>5. done => Reached(action)
    BY <1>1, <1>2, <1>3, WriteReaches DEF Write
  <1>6. done \in BOOLEAN
    BY DEF AllOf
  <1>7. ReportsTruly(action)
    BY <1>1, <1>2, <1>5, <1>6, EditReport
  <1> QED
    BY <1>4, <1>7 DEF Shape

LEMMA AddActorTagsShape ==
    ASSUME ExecutorTypeOK, NEW action, ExecuteAddActorTags(action)
    PROVE  Shape(action)
  <1> DEFINE lacking == {a \in ValidTargets(action) : <<a, "tags">> \notin edited}
             done == AllOf(action, Valid(action))
  <1>1. /\ action.tool = "add_actor_tags"
        /\ action.tool \in Edits \ {"remove_actor_tags"}
        /\ Attribute(action.tool) = "tags"
    BY DEF ExecuteAddActorTags, Edits, Attribute
  <1>2. /\ Write(lacking, "tags")
        /\ Report(action, done, Cardinality(lacking), "none")
    BY DEF ExecuteAddActorTags
  <1>3. lacking \in SUBSET ValidTargets(action) /\ lacking \in SUBSET Actors
    BY DEF ValidTargets, At, Valid, ExecutorTypeOK
  <1>4. {a \in Actors : Changed(a)} = lacking
    BY <1>2, <1>3, TagsChanged DEF Write
  <1>5. ValidTargets(action) \X {"tags"} \subseteq edited'
    BY <1>2 DEF Write
  <1> HIDE DEF lacking
  <1>6. RecordsWhatItChanges /\ DirtiesOnly(MayDirty(action))
    BY <1>1, <1>2, <1>3, WriteShape, EditDirties
  <1>7. done => Reached(action)
    BY <1>1, <1>2, <1>5, WriteReaches DEF Write, ValidTargets
  <1>8. done \in BOOLEAN
    BY DEF AllOf
  <1>9. ReportsTruly(action)
    BY <1>2, <1>4, <1>7, <1>8, EditReport
  <1> QED
    BY <1>6, <1>9 DEF Shape

LEMMA RemoveActorTagsShape ==
    ASSUME ExecutorTypeOK, NEW action, ExecuteRemoveActorTags(action)
    PROVE  Shape(action)
  <1> DEFINE carrying == {a \in ValidTargets(action) : <<a, "tags">> \in edited}
             done == AllOf(action, Valid(action))
  <1>1. action.tool = "remove_actor_tags" /\ action.tool \in Edits
    BY DEF ExecuteRemoveActorTags, Edits
  <1>2. /\ edited' = edited \ (carrying \X {"tags"})
        /\ recorded' = recorded \cup carrying
        /\ dirty' = dirty \cup {Home[a] : a \in carrying}
        /\ UNCHANGED live
        /\ Report(action, done, Cardinality(carrying), "none")
    BY DEF ExecuteRemoveActorTags
  <1>3. carrying \in SUBSET ValidTargets(action) /\ carrying \in SUBSET Actors
    BY DEF ValidTargets, At, Valid, ExecutorTypeOK
  <1>4. {a \in Actors : Changed(a)} = carrying
    BY <1>2, <1>3, TagsChanged
  <1>5. ValidTargets(action) \X {"tags"} \cap edited' = {}
    BY <1>2
  <1> HIDE DEF carrying
  <1>6. RecordsWhatItChanges /\ DirtiesOnly(MayDirty(action))
    <2>1. RecordsWhatItChanges
      BY <1>2 DEF RecordsWhatItChanges
    <2>2. DirtiesOnly({Home[a] : a \in carrying})
      BY <1>2 DEF DirtiesOnly
    <2> QED
      BY <1>1, <1>3, <2>1, <2>2, EditDirties
  <1>7. done => Reached(action)
    BY <1>1, <1>2, <1>5, AllOfReaches DEF Reached, ValidTargets
  <1>8. done \in BOOLEAN
    BY DEF AllOf
  <1>9. ReportsTruly(action)
    BY <1>2, <1>4, <1>7, <1>8, EditReport
  <1> QED
    BY <1>6, <1>9 DEF Shape

\* A property write that ends at a wrong target has recorded what it wrote
\* before; one that succeeds resolved every target.
LEMMA SetActorPropertyShape ==
    ASSUME NEW action, ExecuteSetActorProperty(action)
    PROVE  Shape(action)
  <1> DEFINE fits(k) == fit[action.targets[k]]
             fatal == {k \in Valid(action) : fits(k) \in Fatal}
             visited == {k \in Valid(action) : \A j \in fatal : k <= j}
             written == {k \in visited : fits(k) \in {"fits", "override_flag_not_found"}}
             modified == written \cup {k \in visited : fits(k) = "property_type_mismatch"}
             resolved == {k \in visited : fits(k) = "fits"}
             new == {a \in At(action, resolved) : <<a, "property">> \notin edited}
             done == AllOf(action, resolved)
  <1>1. /\ action.tool = "set_actor_property"
        /\ action.tool \in Edits \ {"remove_actor_tags"}
        /\ action.tool \notin {"add_actor_tags", "remove_actor_tags"}
        /\ Attribute(action.tool) = "property"
    BY DEF ExecuteSetActorProperty, Edits, Attribute
  <1>2. CASE Refuse(action, "property_not_allowlisted")
    BY <1>2, RefusedShape
  <1>3. ASSUME edited' = edited \cup (At(action, written) \X {"property"}),
               recorded' = recorded \cup At(action, modified),
               dirty' = dirty \cup {Home[a] : a \in At(action, modified)},
               UNCHANGED live,
               \/ Report(action, done, Cardinality(new), "none")
               \/ \E k : Report(action, FALSE, 0, fits(k))
        PROVE  Shape(action)
    <2>1. /\ At(action, written) \subseteq At(action, modified)
          /\ At(action, modified) \in SUBSET ValidTargets(action)
          /\ At(action, resolved) \subseteq At(action, written)
          /\ resolved \in SUBSET Valid(action)
      BY DEF At, ValidTargets
    <2> HIDE DEF written, modified, resolved
    <2>2. RecordsWhatItChanges
      BY <1>3, <2>1 DEF RecordsWhatItChanges
    <2>3. DirtiesOnly(MayDirty(action))
      <3>1. DirtiesOnly({Home[a] : a \in At(action, modified)})
        BY <1>3 DEF DirtiesOnly
      <3> QED
        BY <1>1, <2>1, <3>1, EditDirties
    <2>4. done => Reached(action)
      <3>1. At(action, resolved) \X {"property"} \subseteq edited'
        BY <1>3, <2>1
      <3> QED
        BY <1>1, <1>3, <2>1, <3>1, WriteReaches
    <2>5. done \in BOOLEAN
      BY DEF AllOf
    <2>6. ReportsTruly(action)
      <3> HIDE DEF fits, new, done
      <3>1. CASE Report(action, done, Cardinality(new), "none")
        BY <1>1, <2>4, <2>5, <3>1, EditReport
      <3>2. ASSUME NEW k, Report(action, FALSE, 0, fits(k))
            PROVE  ReportsTruly(action)
        BY <1>1, <3>2, EditReport
      <3> QED
        BY <1>3, <3>1, <3>2
    <2> QED
      BY <2>2, <2>3, <2>6 DEF Shape
  <1> QED
    BY <1>2, <1>3 DEF ExecuteSetActorProperty

LEMMA SelectActorsShape ==
    ASSUME NEW action, ExecuteSelectActors(action)
    PROVE  Shape(action)
  <1>1. action.tool = "select_actors" /\ action.tool \notin Edits
    BY DEF ExecuteSelectActors, Edits
  <1>2. UNCHANGED <<live, edited, dirty, recorded>>
    BY DEF ExecuteSelectActors
  <1>3. ReportsTruly(action)
    BY <1>1, OtherReport DEF ExecuteSelectActors
  <1> QED
    BY <1>2, <1>3 DEF Shape, RecordsWhatItChanges, DirtiesOnly

\* What comes into being is in the transaction, and dirties the packages it is put into.
LEMMA CreateShape ==
    ASSUME NEW new, Create(new)
    PROVE  RecordsWhatItChanges /\ DirtiesOnly({})
  <1>1. live' \ live = new
    BY DEF Create
  <1> QED
    BY <1>1 DEF Create, RecordsWhatItChanges, DirtiesOnly, Homes

LEMMA DuplicateShape ==
    ASSUME NEW action, ExecuteDuplicateActorWithOffset(action)
    PROVE  Shape(action)
  <1>1. action.tool = "duplicate_actor_with_offset" /\ action.tool \notin Edits
    BY DEF ExecuteDuplicateActorWithOffset, Edits
  <1>2. PICK new \in SUBSET Actors :
            /\ Create(new)
            /\ Report(action, new # {} /\ Cardinality(new) = Cardinality(Valid(action)),
                      Cardinality(new), "none")
    BY DEF ExecuteDuplicateActorWithOffset
  <1>3. RecordsWhatItChanges /\ DirtiesOnly({})
    BY <1>2, CreateShape
  <1>4. ReportsTruly(action)
    BY <1>1, <1>2, OtherReport
  <1> QED
    BY <1>3, <1>4 DEF Shape, DirtiesOnly

LEMMA SpawnShape ==
    ASSUME NEW action, ExecuteSpawnActorFromClass(action)
    PROVE  Shape(action)
  <1>1. action.tool = "spawn_actor_from_class" /\ action.tool \notin Edits
    BY DEF ExecuteSpawnActorFromClass, Edits
  <1>2. CASE Refuse(action, "class_not_allowlisted")
    BY <1>2, RefusedShape
  <1>3. ASSUME NEW new, Create(new),
               Report(action, new # {} /\ Cardinality(new) = action.count,
                      Cardinality(new), "none")
        PROVE  Shape(action)
    <2>1. RecordsWhatItChanges /\ DirtiesOnly({})
      BY <1>3, CreateShape
    <2>2. ReportsTruly(action)
      BY <1>1, <1>3, OtherReport
    <2> QED
      BY <2>1, <2>2 DEF Shape, DirtiesOnly
  <1> QED
    BY <1>2, <1>3 DEF ExecuteSpawnActorFromClass

LEMMA DeleteShape ==
    ASSUME NEW action, ExecuteDeleteActor(action)
    PROVE  Shape(action)
  <1>1. action.tool = "delete_actor" /\ action.tool \notin Edits
    BY DEF ExecuteDeleteActor, Edits
  <1>2. \E gone \in SUBSET ValidTargets(action) :
            /\ live' = live \ gone
            /\ recorded' = recorded \cup gone
            /\ dirty' = dirty \cup {Home[a] : a \in gone}
            /\ UNCHANGED edited
    BY DEF ExecuteDeleteActor
  <1>3. RecordsWhatItChanges
    BY <1>2 DEF RecordsWhatItChanges
  <1>4. DirtiesOnly(MayDirty(action))
    <2>1. \E gone \in SUBSET ValidTargets(action) : DirtiesOnly({Home[a] : a \in gone})
      BY <1>2 DEF DirtiesOnly
    <2> QED
      BY <1>1, <2>1, EditDirties
  <1>5. \E success, count : Report(action, success, count, "none")
    BY DEF ExecuteDeleteActor
  <1>6. ReportsTruly(action)
    BY <1>1, <1>5, OtherReport
  <1> QED
    BY <1>3, <1>4, <1>6 DEF Shape

LEMMA CheckOutShape ==
    ASSUME NEW action, ExecuteCheckOutPackage(action)
    PROVE  Shape(action)
  <1>1. action.tool \notin Edits
    BY DEF ExecuteCheckOutPackage, Edits
  <1>2. \/ \E refusal : Refuse(action, refusal)
        \/ /\ UNCHANGED <<levelVars, recorded>>
           /\ \E count : Report(action, TRUE, count, "none")
    BY DEF ExecuteCheckOutPackage
  <1>3. CASE \E refusal : Refuse(action, refusal)
    BY <1>3, RefusedShape
  <1>4. ASSUME UNCHANGED <<levelVars, recorded>>, NEW count, Report(action, TRUE, count, "none")
        PROVE  Shape(action)
    <2>1. ReportsTruly(action)
      BY <1>1, <1>4, OtherReport
    <2> QED
      BY <1>4, <2>1 DEF Shape, RecordsWhatItChanges, DirtiesOnly, levelVars
  <1> QED
    BY <1>2, <1>3, <1>4

-----------------------------------------------------------------------------
\* One turn of the loop: a mutation that was not blocked, or no new dirty package.
LEMMA ActionShape ==
    ASSUME ExecutorTypeOK, NEW action, ExecuteAction(action)
    PROVE  /\ Shape(action)
           /\ dirty' \subseteq dirty \/ ~IsBlockedByPackageWritePolicy(action)
  <1>1. CASE Refuse(action, "package_not_writable")
    <2>1. dirty' = dirty
      BY <1>1 DEF Refuse, levelVars
    <2> QED
      BY <1>1, <2>1, RefusedShape
  <1>2. CASE ~IsBlockedByPackageWritePolicy(action)
    <2>1. \/ Refuse(action, "package_not_writable")
          \/ ExecuteReadOnly(action)
          \/ ExecuteSetActorFolder(action) \/ ExecuteSetActorLabel(action)
          \/ ExecuteAddActorTags(action) \/ ExecuteRemoveActorTags(action)
          \/ ExecuteSetActorProperty(action) \/ ExecuteSetActorTransform(action)
          \/ ExecuteSelectActors(action) \/ ExecuteDuplicateActorWithOffset(action)
          \/ ExecuteSpawnActorFromClass(action) \/ ExecuteDeleteActor(action)
          \/ ExecuteCheckOutPackage(action)
      BY DEF ExecuteAction
    <2>2. Shape(action)
      BY <2>1, RefusedShape, ReadOnlyShape, SetActorFolderShape, SetActorLabelShape,
         AddActorTagsShape, RemoveActorTagsShape, SetActorPropertyShape,
         SetActorTransformShape, SelectActorsShape, DuplicateShape, SpawnShape,
         DeleteShape, CheckOutShape
    <2> QED
      BY <1>2, <2>2
  <1> QED
    BY <1>1, <1>2 DEF ExecuteAction

\* Every handler keeps the level among the actors and the files' states typed.
LEMMA ActionTypes ==
    ASSUME ExecutorTypeOK, NEW action, ExecuteAction(action)
    PROVE  live' \subseteq Actors /\ files' \in [Packages -> FileState]
  <1> DEFINE Goal == live' \subseteq Actors /\ files' \in [Packages -> FileState]
  <1>1. ASSUME UNCHANGED <<live, files>>
        PROVE  Goal
    BY <1>1 DEF ExecutorTypeOK
  <1>2. CASE ExecuteSetActorFolder(action) \/ ExecuteSetActorLabel(action)
             \/ ExecuteAddActorTags(action) \/ ExecuteRemoveActorTags(action)
             \/ ExecuteSetActorTransform(action)
    BY <1>1, <1>2 DEF ExecuteSetActorFolder, ExecuteSetActorLabel, ExecuteAddActorTags,
       ExecuteRemoveActorTags, ExecuteSetActorTransform, Write
  <1>3. ASSUME NEW refusal, Refuse(action, refusal)
        PROVE  Goal
    BY <1>1, <1>3 DEF Refuse, levelVars
  <1>4. CASE ExecuteReadOnly(action) \/ ExecuteSelectActors(action)
    BY <1>1, <1>3, <1>4 DEF ExecuteReadOnly, ExecuteSelectActors, levelVars
  <1>5. CASE ExecuteSetActorProperty(action)
    BY <1>1, <1>3, <1>5 DEF ExecuteSetActorProperty
  <1>6. ASSUME NEW new, Create(new)
        PROVE  Goal
    BY <1>6 DEF Create, ExecutorTypeOK
  <1>7. CASE ExecuteDuplicateActorWithOffset(action) \/ ExecuteSpawnActorFromClass(action)
    BY <1>3, <1>6, <1>7 DEF ExecuteDuplicateActorWithOffset, ExecuteSpawnActorFromClass
  <1>8. CASE ExecuteDeleteActor(action)
    BY <1>8 DEF ExecuteDeleteActor, ExecutorTypeOK
  <1>9. CASE ExecuteCheckOutPackage(action)
    <2> DEFINE checkedOut == [disk |-> "writable", scm |-> "checked_out"]
    <2>1. checkedOut \in FileState
      BY DEF FileState
    <2> HIDE DEF checkedOut
    <2>2. ASSUME files' = [files EXCEPT ![action.package] = checkedOut], UNCHANGED live
          PROVE  Goal
      BY <2>1, <2>2 DEF ExecutorTypeOK
    <2>3. \/ \E refusal : Refuse(action, refusal)
          \/ UNCHANGED <<live, files>>
          \/ files' = [files EXCEPT ![action.package] = checkedOut] /\ UNCHANGED live
      BY <1>9 DEF ExecuteCheckOutPackage, levelVars, checkedOut
    <2> QED
      BY <1>1, <1>3, <2>2, <2>3
  <1> QED
    BY <1>2, <1>3, <1>4, <1>5, <1>7, <1>8, <1>9 DEF ExecuteAction

\* A result is added at the end of the list.
LEMMA AppendedResult ==
    ASSUME IsSequence(results), NEW r, results' = Append(results, r)
    PROVE  /\ IsSequence(results')
           /\ DOMAIN results' = DOMAIN results \cup {Len(results) + 1}
           /\ Len(results) + 1 \notin DOMAIN results
           /\ results'[Len(results) + 1] = r
           /\ \A k \in DOMAIN results : results'[k] = results[k]
  <1> DEFINE S == Range(results) \cup {r}
  <1>1. results \in Seq(S)
    BY SeqMonotonic DEF IsSequence
  <1>2. r \in S
    OBVIOUS
  <1>3. \A x \in S : x = r \/ \E k \in DOMAIN results : results[k] = x
    BY DEF Range
  <1> HIDE DEF S
  <1>4. /\ results' \in Seq(S)
        /\ Len(results') = Len(results) + 1
        /\ \A k \in 1 .. Len(results) : results'[k] = results[k]
        /\ results'[Len(results) + 1] = r
    BY <1>1, <1>2, AppendProperties
  <1>5. DOMAIN results = 1 .. Len(results) /\ DOMAIN results' = 1 .. Len(results')
        /\ Len(results) \in Nat
    BY <1>1, <1>4
  <1>6. S \subseteq Range(results')
    BY <1>3, <1>4, <1>5 DEF Range
  <1>7. IsSequence(results')
    BY <1>4, <1>6, SeqMonotonic DEF IsSequence
  <1> QED
    BY <1>4, <1>5, <1>7

\* What the loop does with one action.
LEMMA LoopCases ==
    ASSUME ExecuteApprovedPlan
    PROVE  \/ \E action : ExecuteAction(action) /\ UNCHANGED pc
           \/ /\ pc' = "done"
              /\ UNCHANGED <<levelVars, policyVars, planVars, fit, results, recorded>>
  BY DEF ExecuteApprovedPlan

LEMMA ExecutorTypeInit == ExecutorInit => ExecutorTypeOK
  <1> SUFFICES ASSUME ExecutorInit
               PROVE  ExecutorTypeOK
    OBVIOUS
  <1>1. live \subseteq Actors /\ files \in [Packages -> FileState]
    BY ExecutorAssumption DEF ExecutorInit
  <1>2. before.live \subseteq Actors
    BY DEF ExecutorInit
  <1>3. IsSequence(results)
    BY DEF ExecutorInit, IsSequence
  <1> QED
    BY <1>1, <1>2, <1>3 DEF ExecutorTypeOK

LEMMA ExecutorTypeStep ==
    ASSUME ExecutorTypeOK, [ExecutorNext]_execVars
    PROVE  ExecutorTypeOK'
  <1>1. ASSUME UNCHANGED <<live, before, files, results>>
        PROVE  ExecutorTypeOK'
    BY <1>1 DEF ExecutorTypeOK, IsSequence
  <1>2. CASE Propose \/ UNCHANGED execVars
    BY <1>1, <1>2 DEF Propose, execVars, levelVars, policyVars, planVars
  <1>3. CASE Environment
    <2>1. before' = before /\ results' = results
      BY <1>3 DEF Environment, planVars
    <2>2. live' \subseteq Actors
      BY <1>3 DEF Environment, ExecutorTypeOK
    <2>3. files' \in [Packages -> FileState]
      BY <1>3, ExecutorAssumption DEF Environment, ExecutorTypeOK, policyVars
    <2> QED
      BY <2>1, <2>2, <2>3 DEF ExecutorTypeOK, IsSequence
  <1>4. CASE Begin
    <2>1. live' = live /\ files' = files /\ before'.live = live
      BY <1>4 DEF Begin, levelVars, policyVars
    <2>2. IsSequence(results')
      BY <1>4 DEF Begin, IsSequence
    <2> QED
      BY <2>1, <2>2 DEF ExecutorTypeOK, IsSequence
  <1>5. ASSUME NEW action, ExecuteAction(action)
        PROVE  ExecutorTypeOK'
    <2>1. live' \subseteq Actors /\ files' \in [Packages -> FileState]
      BY <1>5, ActionTypes
    <2>2. before' = before
      BY <1>5 DEF ExecuteAction, planVars
    <2>3. IsSequence(results')
      BY <1>5, ActionShape, AppendedResult DEF Shape, ReportsTruly, ExecutorTypeOK
    <2> QED
      BY <2>1, <2>2, <2>3 DEF ExecutorTypeOK, IsSequence
  <1>6. CASE ExecuteApprovedPlan
    <2>1. CASE UNCHANGED <<levelVars, policyVars, planVars, fit, results, recorded>>
      BY <1>1, <2>1 DEF levelVars, policyVars, planVars
    <2> QED
      BY <1>5, <1>6, <2>1, LoopCases
  <1>7. CASE Undo
    <2>1. live' \subseteq Actors
      BY <1>7 DEF Undo, ExecutorTypeOK
    <2>2. UNCHANGED <<before, files, results>>
      BY <1>7 DEF Undo, policyVars, planVars
    <2> QED
      BY <2>1, <2>2 DEF ExecutorTypeOK, IsSequence
  <1> QED
    BY <1>2, <1>3, <1>4, <1>6, <1>7 DEF ExecutorNext

\* Actors, files and results keep their types.
THEOREM ExecutorTypeCorrect == ExecutorSpec => []ExecutorTypeOK
  BY ExecutorTypeInit, ExecutorTypeStep, PTL DEF ExecutorSpec

-----------------------------------------------------------------------------
\* One undo: whatever its actions did and failed to do, every actor that an
\* execution changed is in its transaction.
LEMMA OneUndoStep ==
    ASSUME ExecutorTypeOK, OneUndoRevertsThePlan, [ExecutorNext]_execVars
    PROVE  OneUndoRevertsThePlan'
  <1>1. CASE Propose \/ Environment \/ Undo
    <2>1. pc' \notin {"running", "done"}
      BY <1>1 DEF Propose, Environment, Undo
    <2> QED
      BY <2>1 DEF OneUndoRevertsThePlan
  <1>2. CASE Begin
    <2>1. before'.live = live' /\ before'.edited = edited'
      BY <1>2 DEF Begin, levelVars
    <2> QED
      BY <2>1 DEF OneUndoRevertsThePlan
  <1>3. ASSUME pc \in {"running", "done"},
               UNCHANGED <<live, edited, before, recorded>>
        PROVE  OneUndoRevertsThePlan'
    BY <1>3 DEF OneUndoRevertsThePlan
  <1>4. CASE ExecuteApprovedPlan
    <2>1. pc = "running"
      BY <1>4 DEF ExecuteApprovedPlan
    <2>2. ASSUME NEW action, ExecuteAction(action)
          PROVE  OneUndoRevertsThePlan'
      <3>1. RecordsWhatItChanges
        BY <2>2, ActionShape DEF Shape
      <3>2. before' = before
        BY <2>2 DEF ExecuteAction, planVars
      <3> SUFFICES ASSUME NEW a \in Actors \ recorded'
                   PROVE  /\ (a \in live') = (a \in before'.live)
                          /\ \A x \in Attributes :
                                (<<a, x>> \in edited') = (<<a, x>> \in before'.edited)
        BY DEF OneUndoRevertsThePlan
      <3>3. a \in Actors \ recorded
        BY <3>1 DEF RecordsWhatItChanges
      <3>4. /\ (a \in live) = (a \in before.live)
            /\ \A x \in Attributes : (<<a, x>> \in edited) = (<<a, x>> \in before.edited)
        BY <2>1, <3>3 DEF OneUndoRevertsThePlan
      <3>5. /\ (a \in live) = (a \in live')
            /\ \A x \in Attributes : (<<a, x>> \in edited) = (<<a, x>> \in edited')
        BY <3>1 DEF RecordsWhatItChanges
      <3> QED
        BY <3>2, <3>4, <3>5
    <2>3. CASE UNCHANGED <<levelVars, policyVars, planVars, fit, results, recorded>>
      BY <1>3, <2>1, <2>3 DEF levelVars, planVars
    <2> QED
      BY <1>4, <2>2, <2>3, LoopCases
  <1>5. CASE UNCHANGED execVars
    BY <1>5 DEF execVars, levelVars, planVars, OneUndoRevertsThePlan
  <1> QED
    BY <1>1, <1>2, <1>4, <1>5 DEF ExecutorNext

\* A failing plan leaves nothing behind that one Ctrl+Z does not revert, for any
\* plan, any level and any way its actions fail.
THEOREM OneUndo == ExecutorSpec => []OneUndoRevertsThePlan
  <1>1. ExecutorInit => OneUndoRevertsThePlan
    BY DEF ExecutorInit, OneUndoRevertsThePlan
  <1>2. ExecutorTypeOK /\ OneUndoRevertsThePlan /\ [ExecutorNext]_execVars
            => OneUndoRevertsThePlan'
    BY OneUndoStep
  <1> QED
    BY <1>1, <1>2, ExecutorTypeCorrect, PTL DEF ExecutorSpec

-----------------------------------------------------------------------------
\* Results are added one at a time, and truly, or dropped when a plan begins.
LEMMA ResultsStep ==
    ASSUME ExecutorTypeOK, [ExecutorNext]_execVars
    PROVE  \/ results' = results
           \/ results' = <<>>
           \/ \E action : ReportsTruly(action)
  <1>1. CASE Propose \/ Environment \/ Undo \/ UNCHANGED execVars
    BY <1>1 DEF Propose, Environment, Undo, execVars
  <1>2. CASE Begin
    BY <1>2 DEF Begin
  <1>3. CASE ExecuteApprovedPlan
    BY <1>3, LoopCases, ActionShape DEF Shape
  <1> QED
    BY <1>1, <1>2, <1>3 DEF ExecutorNext

\* Tag counts are of the actors changed, targets named twice or already tagged
\* notwithstanding.
THEOREM TagCounts == ExecutorSpec => []TagCountsAreTrue
  <1>1. ExecutorInit => TagCountsAreTrue
    BY DEF ExecutorInit, TagCountsAreTrue
  <1>2. ExecutorTypeOK /\ TagCountsAreTrue /\ [ExecutorNext]_execVars => TagCountsAreTrue'
    <2> SUFFICES ASSUME ExecutorTypeOK, TagCountsAreTrue, [ExecutorNext]_execVars
                 PROVE  TagCountsAreTrue'
      OBVIOUS
    <2>1. CASE results' = results
      BY <2>1 DEF TagCountsAreTrue
    <2>2. CASE results' = <<>>
      BY <2>2 DEF TagCountsAreTrue
    <2>3. ASSUME NEW action, ReportsTruly(action)
          PROVE  TagCountsAreTrue'
      <3>1. PICK r : /\ results' = Append(results, r)
                     /\ r.action = action
                     /\ action.tool \in {"add_actor_tags", "remove_actor_tags"} =>
                           r.changed = Cardinality(r.touched)
        BY <2>3 DEF ReportsTruly
      <3>2. /\ DOMAIN results' = DOMAIN results \cup {Len(results) + 1}
            /\ results'[Len(results) + 1] = r
            /\ \A k \in DOMAIN results : results'[k] = results[k]
        BY <3>1, AppendedResult DEF ExecutorTypeOK
      <3> QED
        BY <3>1, <3>2 DEF TagCountsAreTrue
    <2> QED
      BY <2>1, <2>2, <2>3, ResultsStep
  <1> QED
    BY <1>1, <1>2, ExecutorTypeCorrect, PTL DEF ExecutorSpec

\* No edit that went past a stale target says it succeeded.
THEOREM SuccessIsComplete == ExecutorSpec => SuccessReachesEveryTarget
  <1> DEFINE A == \A k \in DOMAIN results' \ DOMAIN results :
                     results'[k].success => Reached(results'[k].action)
  <1>1. ExecutorTypeOK /\ [ExecutorNext]_execVars => A
    <2> SUFFICES ASSUME ExecutorTypeOK, [ExecutorNext]_execVars,
                        NEW k \in DOMAIN results' \ DOMAIN results, results'[k].success
                 PROVE  Reached(results'[k].action)
      OBVIOUS
    <2>1. PICK action : ReportsTruly(action)
      BY ResultsStep
    <2>2. PICK r : /\ results' = Append(results, r)
                   /\ r.action = action
                   /\ r.success => Reached(action)
      BY <2>1 DEF ReportsTruly
    <2>3. results'[k] = r
      BY <2>2, AppendedResult DEF ExecutorTypeOK
    <2> QED
      BY <2>2, <2>3
  <1>2. [ExecutorNext]_execVars /\ ExecutorTypeOK =>
            [\A k \in DOMAIN results' \ DOMAIN results :
                LET action == results'[k].action
                    asked == Targets(action) IN
                results'[k].success =>
                    /\ action.tool \in Edits \ {"remove_actor_tags"} =>
                          asked \subseteq live' /\ asked \X {Attribute(action.tool)} \subseteq edited'
                    /\ action.tool = "remove_actor_tags" =>
                          asked \subseteq live' /\ asked \X {"tags"} \cap edited' = {}]_execVars
    BY <1>1 DEF Reached
  <1> QED
    BY <1>2, ExecutorTypeCorrect, PTL DEF ExecutorSpec, SuccessReachesEveryTarget

-----------------------------------------------------------------------------
\* The package the policy lets pass is one that can be saved.
LEMMA WritableIsSavable ==
    ASSUME ExecutorTypeOK, NEW p \in Packages, EvaluatePackageWritability(p)
    PROVE  Savable(p)
  <1>1. files[p].disk \in {"absent", "writable", "read_only"}
    BY DEF ExecutorTypeOK, FileState
  <1> QED
    BY <1>1 DEF EvaluatePackageWritability, SourceControlState, Savable

\* The packages the policy looks at are packages.
LEMMA PackagesOfAnAction ==
    ASSUME ExecutorTypeOK, NEW action
    PROVE  ActionPackages(action) \subseteq Packages
  <1>1. \A a \in ValidTargets(action) : a \in Actors
    BY DEF ValidTargets, At, Valid, ExecutorTypeOK
  <1> QED
    BY <1>1, ExecutorAssumption DEF ActionPackages

\* IsBlockedByPackageWritePolicy: for every package layout and source-control state, what
\* an action edits or deletes is in packages that can be saved; where the editor puts a
\* new actor is not the policy's to say.
THEOREM WritePolicy == ExecutorSpec => WritePolicyHolds
  <1>1. ExecutorTypeOK /\ [ExecutorNext]_execVars =>
            [bBlockMutationsToUnwritablePackages =>
                \A p \in dirty' \ (dirty \cup Homes(live' \ live)) : Savable(p)]_execVars
    <2> SUFFICES ASSUME ExecutorTypeOK, [ExecutorNext]_execVars,
                        bBlockMutationsToUnwritablePackages,
                        NEW p \in dirty' \ (dirty \cup Homes(live' \ live))
                 PROVE  Savable(p)
      OBVIOUS
    <2>1. \E action : ExecuteAction(action)
      <3>1. CASE Propose \/ Environment \/ Undo \/ Begin \/ UNCHANGED execVars
        BY <3>1 DEF Propose, Environment, Undo, Begin, execVars, levelVars
      <3>2. CASE ExecuteApprovedPlan
        BY <3>2, LoopCases DEF levelVars
      <3> QED
        BY <3>1, <3>2 DEF ExecutorNext
    <2>2. PICK action : ExecuteAction(action)
      BY <2>1
    <2>3. Shape(action) /\ ~IsBlockedByPackageWritePolicy(action)
      BY <2>2, ActionShape
    <2>4. p \in MayDirty(action)
      BY <2>3 DEF Shape, DirtiesOnly
    <2>5. /\ action.tool \notin {"observe", "select_actors", "check_out_package"}
          /\ p \in ActionPackages(action)
      BY <2>4 DEF MayDirty
    <2>6. EvaluatePackageWritability(p)
      BY <2>3, <2>5 DEF IsBlockedByPackageWritePolicy
    <2> QED
      BY <2>5, <2>6, PackagesOfAnAction, WritableIsSavable
  <1> QED
    BY <1>1, ExecutorTypeCorrect, PTL DEF ExecutorSpec, WritePolicyHolds

-----------------------------------------------------------------------------
(***************************************************************************)
(* The plan as one step.  What one action does to the level is one of five *)
(* things it names (ActionEffects); what they add up to since the plan     *)
(* began (Accounted) is what PlanTransaction lets a plan do in its step.   *)
(***************************************************************************)
Writes(action) ==
    /\ action.tool \in Edits \ {"remove_actor_tags"}
    /\ UNCHANGED <<live, selected>>
    /\ \E pairs \in SUBSET ((Targets(action) \cap live) \X {Attribute(action.tool)}) :
          edited' = edited \cup pairs

Clears(action) ==
    /\ action.tool = "remove_actor_tags"
    /\ UNCHANGED <<live, selected>>
    /\ \E pairs \in SUBSET (Targets(action) \X {Attribute(action.tool)}) :
          edited' = edited \ pairs

Selects(action) ==
    /\ action.tool = "select_actors"
    /\ UNCHANGED <<live, edited>>
    /\ selected' = Targets(action) \cap live

Destroys(action) ==
    /\ action.tool = "delete_actor"
    /\ UNCHANGED edited
    /\ \E gone \in SUBSET Targets(action) :
          live' = live \ gone /\ selected' = selected \ gone

Creates(action) ==
    /\ action.tool \in {"duplicate_actor_with_offset", "spawn_actor_from_class"}
    /\ UNCHANGED <<selected, edited>>
    /\ \E new \in SUBSET (Actors \ (live \cup recorded)) :
          /\ \A k \in DOMAIN plan : new \cap Targets(plan[k]) = {}
          /\ live' = live \cup new

ActionEffects(action) ==
    \/ UNCHANGED <<live, selected, edited>>
    \/ Writes(action) \/ Clears(action) \/ Selects(action)
    \/ Destroys(action) \/ Creates(action)

\* Valid targets are targets that exist.
LEMMA ValidAreLive ==
    ASSUME NEW action
    PROVE  ValidTargets(action) = Targets(action) \cap live
  BY DEF ValidTargets, Targets, Valid, At

LEMMA WriteEffect ==
    ASSUME NEW action, action.tool \in Edits \ {"remove_actor_tags"},
           NEW actors \in SUBSET ValidTargets(action), UNCHANGED <<live, selected>>,
           edited' = edited \cup (actors \X {Attribute(action.tool)})
    PROVE  ActionEffects(action)
  <1>1. actors \X {Attribute(action.tool)}
            \in SUBSET ((Targets(action) \cap live) \X {Attribute(action.tool)})
    BY ValidAreLive
  <1> QED
    BY <1>1 DEF Writes, ActionEffects

LEMMA ActionHasEffect ==
    ASSUME NEW action, ExecuteAction(action)
    PROVE  ActionEffects(action)
  <1>1. ASSUME NEW refusal, Refuse(action, refusal)
        PROVE  ActionEffects(action)
    BY <1>1 DEF Refuse, levelVars, ActionEffects
  <1>2. CASE ExecuteReadOnly(action) \/ ExecuteCheckOutPackage(action)
    <2>1. UNCHANGED levelVars \/ \E refusal : Refuse(action, refusal)
      BY <1>2 DEF ExecuteReadOnly, ExecuteCheckOutPackage
    <2> QED
      BY <1>1, <2>1 DEF levelVars, ActionEffects
  <1>3. CASE ExecuteSetActorFolder(action)
    <2>1. Attribute(action.tool) = "folder" /\ action.tool \in Edits \ {"remove_actor_tags"}
      BY <1>3 DEF ExecuteSetActorFolder, Attribute, Edits
    <2> QED
      BY <1>3, <2>1, WriteEffect DEF ExecuteSetActorFolder, Write
  <1>4. CASE ExecuteSetActorLabel(action)
    <2>1. Attribute(action.tool) = "label" /\ action.tool \in Edits \ {"remove_actor_tags"}
      BY <1>4 DEF ExecuteSetActorLabel, Attribute, Edits
    <2> QED
      BY <1>4, <2>1, WriteEffect DEF ExecuteSetActorLabel, Write
  <1>5. CASE ExecuteAddActorTags(action)
    <2>1. Attribute(action.tool) = "tags" /\ action.tool \in Edits \ {"remove_actor_tags"}
      BY <1>5 DEF ExecuteAddActorTags, Attribute, Edits
    <2> DEFINE lacking == {a \in ValidTargets(action) : <<a, "tags">> \notin edited}
    <2>2. lacking \in SUBSET ValidTargets(action) /\ Write(lacking, "tags")
      BY <1>5 DEF ExecuteAddActorTags
    <2> QED
      BY <2>1, <2>2, WriteEffect DEF Write
  <1>6. CASE ExecuteSetActorTransform(action)
    <2>1. /\ Attribute(action.tool) = "transform"
          /\ action.tool \in Edits \ {"remove_actor_tags"}
      BY <1>6 DEF ExecuteSetActorTransform, Attribute, Edits
    <2> DEFINE placed == {k \in Valid(action) : action.targets[k] \notin Rootless}
    <2>2. At(action, placed) \in SUBSET ValidTargets(action) /\ Write(At(action, placed), "transform")
      BY <1>6 DEF ExecuteSetActorTransform, At, ValidTargets
    <2> QED
      BY <2>1, <2>2, WriteEffect DEF Write
  <1>7. CASE ExecuteSetActorProperty(action)
    <2>1. /\ Attribute(action.tool) = "property"
          /\ action.tool \in Edits \ {"remove_actor_tags"}
      BY <1>7 DEF ExecuteSetActorProperty, Attribute, Edits
    <2>2. \/ \E refusal : Refuse(action, refusal)
          \/ /\ UNCHANGED <<live, selected>>
             /\ \E places \in SUBSET Valid(action) :
                   edited' = edited \cup (At(action, places) \X {"property"})
      BY <1>7 DEF ExecuteSetActorProperty
    <2>3. \A places \in SUBSET Valid(action) : At(action, places) \in SUBSET ValidTargets(action)
      BY DEF At, ValidTargets
    <2> QED
      BY <1>1, <2>1, <2>2, <2>3, WriteEffect
  <1>8. CASE ExecuteRemoveActorTags(action)
    <2> DEFINE carrying == {a \in ValidTargets(action) : <<a, "tags">> \in edited}
    <2>1. /\ action.tool = "remove_actor_tags" /\ Attribute(action.tool) = "tags"
          /\ UNCHANGED <<live, selected>>
          /\ edited' = edited \ (carrying \X {"tags"})
      BY <1>8 DEF ExecuteRemoveActorTags, Attribute
    <2>2. carrying \X {"tags"} \in SUBSET (Targets(action) \X {"tags"})
      BY ValidAreLive
    <2> QED
      BY <2>1, <2>2 DEF Clears, ActionEffects
  <1>9. CASE ExecuteSelectActors(action)
    BY <1>9, ValidAreLive DEF ExecuteSelectActors, Selects, ActionEffects
  <1>10. CASE ExecuteDuplicateActorWithOffset(action) \/ ExecuteSpawnActorFromClass(action)
    <2>1. \/ \E refusal : Refuse(action, refusal)
          \/ \E new : Create(new)
      BY <1>10 DEF ExecuteDuplicateActorWithOffset, ExecuteSpawnActorFromClass
    <2>2. action.tool \in {"duplicate_actor_with_offset", "spawn_actor_from_class"}
      BY <1>10 DEF ExecuteDuplicateActorWithOffset, ExecuteSpawnActorFromClass
    <2> QED
      BY <1>1, <2>1, <2>2 DEF Create, Creates, ActionEffects
  <1>11. CASE ExecuteDeleteActor(action)
    BY <1>11, ValidAreLive DEF ExecuteDeleteActor, Destroys, ActionEffects
  <1> QED
    BY <1>1, <1>2, <1>3, <1>4, <1>5, <1>6, <1>7, <1>8, <1>9, <1>10, <1>11 DEF ExecuteAction

-----------------------------------------------------------------------------
\* The types the refinement needs.
LevelTypeOK ==
    /\ plan \in Seq(Action)
    /\ selected \subseteq live /\ edited \subseteq Actors \X Attributes
    /\ before.selected \subseteq before.live
    /\ before.edited \subseteq Actors \X Attributes

\* The level now, against the level when the plan began.
Accounted ==
    pc \in {"running", "done"} =>
        /\ before.live \ live \subseteq PlanNames.doomed
        /\ live \ before.live # {} => PlanNames.creates
        /\ \E chosen \in {before.selected} \cup PlanNames.choices : selected = chosen \cap live
        /\ before.edited \ PlanNames.clears \subseteq edited
        /\ edited \subseteq before.edited \cup PlanNames.writes

\* A plan names what each of its actions may do.
LEMMA ActionIsNamed ==
    ASSUME NEW k \in DOMAIN plan
    PROVE  /\ plan[k].tool = "delete_actor" => Targets(plan[k]) \subseteq PlanNames.doomed
           /\ plan[k].tool = "select_actors" => Targets(plan[k]) \in PlanNames.choices
           /\ plan[k].tool \in {"duplicate_actor_with_offset", "spawn_actor_from_class"} =>
                 PlanNames.creates
           /\ plan[k].tool \in Edits \ {"remove_actor_tags"} =>
                 Targets(plan[k]) \X {Attribute(plan[k].tool)} \subseteq PlanNames.writes
           /\ plan[k].tool = "remove_actor_tags" =>
                 Targets(plan[k]) \X {Attribute(plan[k].tool)} \subseteq PlanNames.clears
  <1>1. Targets(plan[k]) \in TargetsOf(plan[k].tool)
    BY DEF TargetsOf
  <1>2. ASSUME NEW tools, plan[k].tool \in tools
        PROVE  Targets(plan[k]) \X {Attribute(plan[k].tool)} \subseteq EditsOf(tools)
    BY <1>1, <1>2 DEF EditsOf
  <1> QED
    BY <1>1, <1>2 DEF PlanNames

\* What a plan selects, it names as targets, and what it creates it does not.
LEMMA ChoicesAreTargets ==
    ASSUME NEW chosen \in PlanNames.choices
    PROVE  \E k \in DOMAIN plan : chosen = Targets(plan[k])
  BY DEF PlanNames, TargetsOf

LEMMA NamesUnchanged ==
    ASSUME plan' = plan
    PROVE  PlanNames' = PlanNames
  BY DEF PlanNames, TargetsOf, EditsOf, Targets, At

\* One turn of the loop takes the next action of the plan.
LEMMA TurnOfTheLoop ==
    ASSUME ExecutorTypeOK, LevelTypeOK, ExecuteApprovedPlan
    PROVE  /\ pc = "running"
           /\ \/ /\ UNCHANGED <<pc, before, plan>>
                 /\ \E k \in DOMAIN plan : ExecuteAction(plan[k])
              \/ /\ pc' = "done"
                 /\ UNCHANGED <<levelVars, policyVars, planVars, fit, results, recorded>>
  <1>1. CASE Len(results) < Len(plan) /\ ExecuteAction(plan[Len(results) + 1]) /\ UNCHANGED pc
    <2>1. Len(results) \in Nat /\ Len(plan) \in Nat /\ DOMAIN plan = 1 .. Len(plan)
      BY DEF ExecutorTypeOK, LevelTypeOK, IsSequence
    <2>2. Len(results) + 1 \in DOMAIN plan
      BY <1>1, <2>1
    <2> QED
      BY <1>1, <2>2 DEF ExecuteApprovedPlan, ExecuteAction, planVars
  <1> QED
    BY <1>1 DEF ExecuteApprovedPlan

\* Each action keeps the types, whatever it does.
LEMMA EffectKeepsTypes ==
    ASSUME ExecutorTypeOK, LevelTypeOK, NEW action, ActionEffects(action),
           UNCHANGED <<plan, before>>
    PROVE  LevelTypeOK'
  <1>1. plan' \in Seq(Action) /\ before'.selected \subseteq before'.live
        /\ before'.edited \subseteq Actors \X Attributes
    BY DEF LevelTypeOK
  <1>2. CASE Writes(action)
    <2>1. Attribute(action.tool) \in Attributes
      BY <1>2 DEF Writes, Attribute, Attributes, Edits
    <2> QED
      BY <1>1, <1>2, <2>1 DEF Writes, LevelTypeOK, ExecutorTypeOK
  <1>3. CASE Clears(action) \/ Selects(action) \/ Destroys(action) \/ Creates(action)
             \/ UNCHANGED <<live, selected, edited>>
    BY <1>1, <1>3 DEF Clears, Selects, Destroys, Creates, LevelTypeOK
  <1> QED
    BY <1>2, <1>3 DEF ActionEffects

THEOREM LevelTypeCorrect == ExecutorSpec => []LevelTypeOK
  <1>1. ExecutorInit => LevelTypeOK
    BY ExecutorAssumption DEF ExecutorInit, LevelTypeOK, Attributes
  <1>2. ExecutorTypeOK /\ LevelTypeOK /\ [ExecutorNext]_execVars => LevelTypeOK'
    <2> SUFFICES ASSUME ExecutorTypeOK, LevelTypeOK, [ExecutorNext]_execVars
                 PROVE  LevelTypeOK'
      OBVIOUS
    <2>1. CASE Propose
      BY <2>1, ExecutorAssumption DEF Propose, LevelTypeOK, levelVars
    <2>2. CASE Environment
      BY <2>2 DEF Environment, LevelTypeOK, planVars
    <2>3. CASE Begin
      BY <2>3 DEF Begin, LevelTypeOK, levelVars
    <2>4. CASE UNCHANGED <<levelVars, planVars>>
      BY <2>4 DEF LevelTypeOK, levelVars, planVars
    <2>5. CASE ExecuteApprovedPlan
      BY <2>4, <2>5, TurnOfTheLoop, ActionHasEffect, EffectKeepsTypes
    <2>6. CASE Undo
      BY <2>6 DEF Undo, LevelTypeOK, planVars
    <2> QED
      BY <2>1, <2>2, <2>3, <2>4, <2>5, <2>6 DEF ExecutorNext, execVars
  <1> QED
    BY <1>1, <1>2, ExecutorTypeCorrect, PTL DEF ExecutorSpec

\* An action moves the account on by what it names, so by what the plan names.
LEMMA TurnIsAccounted ==
    ASSUME ExecutorTypeOK, LevelTypeOK, OneUndoRevertsThePlan, Accounted, pc = "running",
           UNCHANGED <<plan, before>>,
           NEW k \in DOMAIN plan, ActionEffects(plan[k])
    PROVE  Accounted'
  <1>1. PlanNames' = PlanNames
    BY NamesUnchanged
  <1>2. PICK chosen \in {before.selected} \cup PlanNames.choices : selected = chosen \cap live
    BY DEF Accounted
  <1>3. /\ before.live \ live \subseteq PlanNames.doomed
        /\ live \ before.live # {} => PlanNames.creates
        /\ before.edited \ PlanNames.clears \subseteq edited
        /\ edited \subseteq before.edited \cup PlanNames.writes
    BY DEF Accounted
  <1>4. SUFFICES /\ before.live \ live' \subseteq PlanNames.doomed
                 /\ live' \ before.live # {} => PlanNames.creates
                 /\ \E other \in {before.selected} \cup PlanNames.choices :
                        selected' = other \cap live'
                 /\ before.edited \ PlanNames.clears \subseteq edited'
                 /\ edited' \subseteq before.edited \cup PlanNames.writes
    BY <1>1 DEF Accounted
  <1>5. CASE UNCHANGED <<live, selected, edited>>
    BY <1>2, <1>3, <1>5
  <1>6. CASE Writes(plan[k])
    <2>1. Targets(plan[k]) \X {Attribute(plan[k].tool)} \subseteq PlanNames.writes
      BY <1>6, ActionIsNamed DEF Writes
    <2> QED
      BY <1>2, <1>3, <1>6, <2>1 DEF Writes
  <1>7. CASE Clears(plan[k])
    <2>1. Targets(plan[k]) \X {Attribute(plan[k].tool)} \subseteq PlanNames.clears
      BY <1>7, ActionIsNamed DEF Clears
    <2> QED
      BY <1>2, <1>3, <1>7, <2>1 DEF Clears
  <1>8. CASE Selects(plan[k])
    <2>1. Targets(plan[k]) \in PlanNames.choices
      BY <1>8, ActionIsNamed DEF Selects
    <2> QED
      BY <1>3, <1>8, <2>1 DEF Selects
  <1>9. CASE Destroys(plan[k])
    <2>1. Targets(plan[k]) \subseteq PlanNames.doomed
      BY <1>9, ActionIsNamed DEF Destroys
    <2> QED
      BY <1>2, <1>3, <1>9, <2>1 DEF Destroys
  <1>10. CASE Creates(plan[k])
    <2>1. PICK new \in SUBSET (Actors \ (live \cup recorded)) :
              /\ \A j \in DOMAIN plan : new \cap Targets(plan[j]) = {}
              /\ live' = live \cup new
      BY <1>10 DEF Creates
    <2>2. PlanNames.creates
      BY <1>10, ActionIsNamed DEF Creates
    <2>3. before.selected \subseteq live \cup recorded
      BY DEF OneUndoRevertsThePlan, ExecutorTypeOK, LevelTypeOK
    <2>4. chosen \cap new = {}
      <3>1. CASE chosen = before.selected
        BY <2>1, <2>3, <3>1
      <3>2. CASE chosen \in PlanNames.choices
        BY <2>1, <3>2, ChoicesAreTargets
      <3> QED
        BY <3>1, <3>2
    <2>5. selected' = chosen \cap live'
      BY <1>2, <1>10, <2>1, <2>4 DEF Creates
    <2>6. before.live \ live' \subseteq PlanNames.doomed /\ edited' = edited
      BY <1>3, <1>10, <2>1 DEF Creates
    <2> QED
      BY <1>3, <2>2, <2>5, <2>6
  <1> QED
    BY <1>5, <1>6, <1>7, <1>8, <1>9, <1>10 DEF ActionEffects

\* However far a plan has got, whatever it did so far is what it names.
THEOREM PlansAreAccountedFor == ExecutorSpec => []Accounted
  <1>1. ExecutorInit => Accounted
    BY DEF ExecutorInit, Accounted
  <1>2. ExecutorTypeOK /\ LevelTypeOK /\ OneUndoRevertsThePlan /\ Accounted
            /\ [ExecutorNext]_execVars => Accounted'
    <2> SUFFICES ASSUME ExecutorTypeOK, LevelTypeOK, OneUndoRevertsThePlan, Accounted,
                        [ExecutorNext]_execVars
                 PROVE  Accounted'
      OBVIOUS
    <2>1. CASE Propose \/ Environment \/ Undo
      <3>1. pc' \notin {"running", "done"}
        BY <2>1 DEF Propose, Environment, Undo
      <3> QED
        BY <3>1 DEF Accounted
    <2>2. CASE Begin
      <3>1. /\ before'.live = live' /\ before'.edited = edited'
            /\ before'.selected = selected' /\ selected' = selected' \cap live'
        BY <2>2 DEF Begin, levelVars, LevelTypeOK
      <3> QED
        BY <3>1 DEF Accounted
    <2>3. ASSUME pc \in {"running", "done"}, UNCHANGED <<live, selected, edited, plan, before>>
          PROVE  Accounted'
      BY <2>3, NamesUnchanged DEF Accounted
    <2>4. CASE ExecuteApprovedPlan
      BY <2>3, <2>4, TurnOfTheLoop, ActionHasEffect, TurnIsAccounted DEF levelVars, planVars
    <2>5. CASE UNCHANGED execVars
      BY <2>5, NamesUnchanged DEF Accounted, execVars, levelVars, planVars
    <2> QED
      BY <2>1, <2>2, <2>4, <2>5 DEF ExecutorNext
  <1> QED
    BY <1>1, <1>2, ExecutorTypeCorrect, LevelTypeCorrect, OneUndo, PTL DEF ExecutorSpec

-----------------------------------------------------------------------------
\* What a finished plan adds up to is one step of the abstract plan.
LEMMA EndIsRun ==
    ASSUME ExecutorTypeOK, LevelTypeOK, Accounted, pc = "running", pc' = "done",
           UNCHANGED <<levelVars, planVars>>
    PROVE  Transaction!Run
  <1>1. PlanNames' = PlanNames
    BY NamesUnchanged DEF planVars
  <1>2. /\ live' = live /\ selected' = selected /\ edited' = edited /\ before' = before
    BY DEF levelVars, planVars
  <1>3. before.edited \ PlanNames.clears \subseteq edited'
        /\ edited' \subseteq before.edited \cup PlanNames.writes
    BY <1>2 DEF Accounted
  <1>4. \E gone \in SUBSET (PlanNames.doomed \cap before.live),
           new \in SUBSET (IF PlanNames.creates THEN Actors \ before.live ELSE {}),
           chosen \in {before.selected} \cup PlanNames.choices :
              /\ live' = (before.live \ gone) \cup new
              /\ selected' = chosen \cap live'
    <2> DEFINE gone == before.live \ live
               new == live \ before.live
    <2>1. PICK chosen \in {before.selected} \cup PlanNames.choices : selected = chosen \cap live
      BY DEF Accounted
    <2>2. gone \in SUBSET (PlanNames.doomed \cap before.live)
      BY DEF Accounted
    <2>3. new \in SUBSET (IF PlanNames.creates THEN Actors \ before.live ELSE {})
      BY DEF Accounted, ExecutorTypeOK
    <2>4. live = (before.live \ gone) \cup new
      OBVIOUS
    <2> HIDE DEF gone, new
    <2> QED
      BY <1>2, <2>1, <2>2, <2>3, <2>4
  <1> QED
    BY <1>1, <1>2, <1>3, <1>4 DEF Transaction!Run, Transaction!Effect

\* The undo takes the level back to where the plan found it, whole.
LEMMA UndoIsUndo ==
    ASSUME ExecutorTypeOK, LevelTypeOK, OneUndoRevertsThePlan, Undo
    PROVE  Transaction!Undo
  <1>1. /\ pc = "done" /\ pc' = "idle" /\ before' = before
        /\ live' = (live \ recorded) \cup (before.live \cap recorded)
        /\ edited' = {e \in edited : e[1] \notin recorded}
                         \cup {e \in before.edited : e[1] \in recorded}
        /\ selected' = selected \cap live'
    BY DEF Undo, planVars
  <1>2. PlanNames' = PlanNames
    BY NamesUnchanged DEF Undo, planVars
  <1>3. \A a \in Actors \ recorded :
            /\ (a \in live) = (a \in before.live)
            /\ \A x \in Attributes : (<<a, x>> \in edited) = (<<a, x>> \in before.edited)
    BY <1>1 DEF OneUndoRevertsThePlan
  <1>4. live' = before.live
    BY <1>1, <1>3 DEF ExecutorTypeOK
  <1>5. edited' = before.edited
    <2>1. ASSUME NEW e \in Actors \X Attributes
          PROVE  e \in edited' <=> e \in before.edited
      <3>1. PICK a \in Actors, x \in Attributes : e = <<a, x>>
        BY <2>1
      <3>2. e[1] = a
        BY <3>1
      <3>3. CASE a \in recorded
        BY <1>1, <3>2, <3>3
      <3>4. CASE a \notin recorded
        BY <1>1, <1>3, <3>1, <3>2, <3>4
      <3> QED
        BY <3>3, <3>4
    <2>2. edited' \subseteq Actors \X Attributes
      BY <1>1 DEF LevelTypeOK
    <2> QED
      BY <2>1, <2>2 DEF LevelTypeOK
  <1> QED
    BY <1>1, <1>2, <1>4, <1>5 DEF Transaction!Undo, Transaction!NotUndoable

LEMMA TransactionStep ==
    ASSUME ExecutorTypeOK, LevelTypeOK, OneUndoRevertsThePlan, Accounted,
           [ExecutorNext]_execVars
    PROVE  [Transaction!TransactionNext]_Transaction!transactionVars
  <1>1. CASE Propose
    <2>1. /\ pc \in {"idle", "done"} /\ pc' = "pending"
          /\ UNCHANGED <<live, selected, edited>>
      BY <1>1 DEF Propose, levelVars
    <2>2. Transaction!Propose
      BY <2>1 DEF Transaction!Propose, Transaction!NotUndoable
    <2> QED
      BY <2>2 DEF Transaction!TransactionNext
  <1>2. CASE Environment
    <2>1. /\ pc = "pending" /\ pc' = "pending" /\ UNCHANGED edited
          /\ live' \subseteq live /\ selected' = selected \cap live'
      BY <1>2 DEF Environment, LevelTypeOK
    <2>2. PlanNames' = PlanNames
      BY <1>2, NamesUnchanged DEF Environment, planVars
    <2>3. Transaction!Drift
      BY <2>1, <2>2 DEF Transaction!Drift
    <2> QED
      BY <2>3 DEF Transaction!TransactionNext
  <1>3. CASE Begin
    <2>1. /\ pc = "pending" /\ pc' = "running"
          /\ before'.live = live /\ before'.selected = selected /\ before'.edited = edited
      BY <1>3 DEF Begin
    <2>2. PlanNames' = PlanNames
      BY <1>3, NamesUnchanged DEF Begin
    <2> QED
      BY <2>1, <2>2 DEF Transaction!transactionVars
  <1>4. CASE ExecuteApprovedPlan
    <2>1. CASE pc = "running" /\ UNCHANGED <<pc, before, plan>>
      <3>1. PlanNames' = PlanNames
        BY <2>1, NamesUnchanged
      <3> QED
        BY <2>1, <3>1 DEF Transaction!transactionVars
    <2>2. CASE pc = "running" /\ pc' = "done" /\ UNCHANGED <<levelVars, planVars>>
      BY <2>2, EndIsRun DEF Transaction!TransactionNext
    <2> QED
      BY <1>4, <2>1, <2>2, TurnOfTheLoop
  <1>5. CASE Undo
    BY <1>5, UndoIsUndo DEF Transaction!TransactionNext
  <1>6. CASE UNCHANGED execVars
    <2>1. UNCHANGED <<live, selected, edited, pc, before, plan>>
      BY <1>6 DEF execVars, levelVars, planVars
    <2>2. PlanNames' = PlanNames
      BY <2>1, NamesUnchanged
    <2> QED
      BY <2>1, <2>2 DEF Transaction!transactionVars
  <1> QED
    BY <1>1, <1>2, <1>3, <1>4, <1>5, <1>6 DEF ExecutorNext

\* The executor's loop implements the plan of one step, for any plan, level and
\* failures: what the service assumes when it runs a plan in one step is true.
THEOREM PlanIsOneStep == ExecutorSpec => PlanRunsAsOne
  <1>1. ExecutorInit => Transaction!TransactionInit
    BY ExecutorAssumption DEF ExecutorInit, Transaction!TransactionInit, Transaction!NotUndoable
  <1>2. ExecutorTypeOK /\ LevelTypeOK /\ OneUndoRevertsThePlan /\ Accounted
            /\ [ExecutorNext]_execVars
            => [Transaction!TransactionNext]_Transaction!transactionVars
    BY TransactionStep
  <1> QED
    BY <1>1, <1>2, ExecutorTypeCorrect, LevelTypeCorrect, OneUndo, PlansAreAccountedFor, PTL
       DEF ExecutorSpec, PlanRunsAsOne, Transaction!TransactionSpec

=============================================================================
