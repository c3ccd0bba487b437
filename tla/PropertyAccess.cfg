\* From the question to the write, under every allowlist of up to two entries; the
\* component names are interchangeable.
CONSTANTS
    lamp = lamp
    c1 = c1
    c2 = c2
    Any = Any
    Itself = Itself
    Actors = {lamp}
    Names = {c1, c2}
    Classes <- MCClasses
    ActorClasses = {"LightActor"}
    IsA <- MCIsA
    ClassOf <- MCClassOf
    Exposes <- MCExposes
    Dotted = {"bloom.scale"}
    Editable = {"intensity", "units"}
    Values <- MCValues
    KindOf <- MCKindOf
    Queries <- MCQueries
    Allowlists <- MCAllowlists
    Layouts <- MCLayouts
SPECIFICATION AccessSpec
INVARIANTS
    AccessTypeOK
    WrittenAsShown
    ToldIsWritten
