-------------------------- MODULE MCActionExecutor --------------------------
(***************************************************************************)
(* Small instances of ActionExecutor for TLC.                              *)
(***************************************************************************)
EXTENDS ActionExecutor

CONSTANTS a1, a2, a3, level, other

\* A new actor goes into the other package: the current level is a sublevel.
MCHome == [a \in Actors |-> IF a = a1 THEN level ELSE other]

On(tool, targets) == [tool |-> tool, targets |-> targets, count |-> 0, package |-> level]
Spawn == [tool |-> "spawn_actor_from_class", targets |-> <<>>, count |-> 1, package |-> level]

\* Every tool that edits the two actors, alone and after a deletion of one.
EditPlans ==
    LET edits == {On(tool, <<a1, a2>>) :
                    tool \in Edits \cup {"duplicate_actor_with_offset", "delete_actor"}}
    IN  {<<e>> : e \in edits} \cup {<<On("delete_actor", <<a1>>), e>> : e \in edits}
        \cup {<<On("add_actor_tags", <<a1>>), On("add_actor_tags", <<a1, a2, a2>>)>>,
              <<Spawn, On("remove_actor_tags", <<a1, a2>>)>>}

\* Mutations of both packages around a checkout of one.
PolicyPlans ==
    {<<On("check_out_package", <<>>), Spawn>>,
     <<On("observe", <<a2>>), On("select_actors", <<a1, a2>>), On("set_actor_folder", <<a1, a2>>)>>,
     <<On("delete_actor", <<a2>>), On("check_out_package", <<>>),
       On("duplicate_actor_with_offset", <<a1>>)>>}

MCPlans == EditPlans \cup PolicyPlans

AllFit == {[a \in Actors |-> "fits"]}
SecondMisfits == {[a \in Actors |-> IF a = a2 THEN x ELSE "fits"] : x \in Fit}

Saved(disk, scm) == [disk |-> disk, scm |-> scm]
NewFiles == {Saved("absent", "not_controlled")}
AnyFiles == NewFiles \cup
    {Saved("writable", "not_controlled"), Saved("writable", "checked_out_other"),
     Saved("read_only", "up_to_date"), Saved("read_only", "checked_out")}

=============================================================================
