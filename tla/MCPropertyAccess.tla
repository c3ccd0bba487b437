-------------------------- MODULE MCPropertyAccess --------------------------
(***************************************************************************)
(* Small instances of PropertyAccess for TLC: a light actor with up to two *)
(* components, of a class, of another, or of a descendant.                 *)
(***************************************************************************)
EXTENDS PropertyAccess

CONSTANTS lamp, c1, c2

MCClasses == {"LightActor", "Light", "Point", "Directional"}
MCIsA == [c \in MCClasses |-> IF c \in {"Point", "Directional"} THEN {c, "Light"} ELSE {c}]
MCClassOf == [a \in {lamp} |-> "LightActor"]
MCExposes == [c \in MCClasses |-> IF c = "LightActor" THEN {"intensity", "bloom.scale"}
                                                       ELSE {"intensity", "units"}]
MCValues == {"low", "high", "word"}
MCKindOf == [v \in MCValues |-> IF v = "word" THEN "name" ELSE "number"]

MCQueries == [component : {Any, "Light", "Point", "Directional", "LightActor"},
              name : {Any, c1, c2}]

Allowed(class, property, kind, admits) ==
    [class |-> class, property |-> property, kind |-> kind, admits |-> admits]

MCEntries ==
    {Allowed(c, "intensity", "number", {"low", "high"}) : c \in {"LightActor", "Light", "Point"}}
    \cup {Allowed("Light", "intensity", "number", {"low"})} \cup
    {Allowed(c, "intensity", "name", {"word"}) : c \in {"LightActor", "Directional"}} \cup
    {Allowed("Light", "units", "name", {"word"}),
     Allowed("LightActor", "bloom.scale", "number", {"low"})}

MCAllowlists == {<<>>} \cup {<<e>> : e \in MCEntries} \cup (MCEntries \X MCEntries)

MCLayouts == {[a \in {lamp} |-> l] :
                 l \in UNION {[ns -> {"Point", "Directional"}] : ns \in SUBSET {c1, c2}}}

\* The lights of the default allowlist: one property, two classes, two ranges.
DefaultAllowlists ==
    {<<Allowed("Point", "intensity", "number", {"low", "high"}),
       Allowed("Directional", "intensity", "number", {"low"})>>}

=============================================================================
