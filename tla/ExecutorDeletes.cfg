\* Does the executor keep what its documents say: DeletedCountIsTrue?
CONSTANTS
    MaxRounds = 1
    a1 = a1
    a2 = a2
    a3 = a3
    level = level
    other = other
    Actors = {a1, a2, a3}
    Levels = {{a1, a2}, {a1, a2, a3}}
    Packages = {level, other}
    LevelPackage = level
    Rootless = {a1}
    Home <- MCHome
    Plans <- EditPlans
    Fits <- AllFit
    FileStates <- NewFiles
SPECIFICATION ExecutorSpec
CHECK_DEADLOCK FALSE
INVARIANT DeletedCountIsTrue
