\* Every editing tool on two actors, alone or after another action, and mutations
\* around a checkout, approved late in a project whose settings and files change, and
\* undone.  After the last round the editor rests.
CONSTANTS
    MaxRounds = 1
    a1 = a1
    a2 = a2
    a3 = a3
    level = level
    other = other
    Actors = {a1, a2, a3}
    Levels = {{a1, a2}}
    Packages = {level, other}
    LevelPackage = level
    Rootless = {a1}
    Home <- MCHome
    Plans <- MCPlans
    Fits <- SecondMisfits
    FileStates <- AnyFiles
SPECIFICATION ExecutorSpec
CHECK_DEADLOCK FALSE
INVARIANTS
    OneUndoRevertsThePlan
    TagCountsAreTrue
PROPERTIES
    SuccessReachesEveryTarget
    WritePolicyHolds
    PlanRunsAsOne
