\* A light of the default allowlist, inspected by name.
CONSTANTS
    lamp = lamp
    c1 = c1
    c2 = c2
    Any = Any
    Itself = Itself
    Actors = {lamp}
    Names = {c1, c2}
    Classes <- MCClasses
    ActorClasses = {"LightActor"}
    IsA <- MCIsA
    ClassOf <- MCClassOf
    Exposes <- MCExposes
    Dotted = {"bloom.scale"}
    Editable = {"intensity", "units"}
    Values <- MCValues
    KindOf <- MCKindOf
    Queries <- MCQueries
    Allowlists <- DefaultAllowlists
    Layouts <- MCLayouts
SPECIFICATION AccessSpec
INVARIANT ToldIsAccepted
