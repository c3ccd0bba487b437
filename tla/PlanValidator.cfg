\* Plans that go wrong in one place of the header, the targets or the ids, and in any
\* of their params; and the plans the MCP server makes of calls that keep to its schemas
\* with up to two optional arguments, and of previews of up to two entries.  A plan that
\* was refused, or has run, is done.
CONSTANTS
    MaxParams = 1
    Owners = {"c1", "c2"}
    Bodies <- AllBodies
    Allowlists <- MCAllowlists
SPECIFICATION ValidatorSpec
CHECK_DEADLOCK FALSE
INVARIANTS
    ScriptPromisesAcceptance
    AcceptedAsSent
    RefusedOnlyInDisagreement
    WritesStayInRange
    DeclaredHonestly
    UsableCallsAreTaken
