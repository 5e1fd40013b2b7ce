SPECIFICATION FairSpec
CONSTANTS
    Mods <- MCMods
    Installed <- MCInstalled
    Declared <- MCDeclared
    Roots <- MCRoots
    Host <- MCHost
    MaxLoads = 2
\* the server ends
CHECK_DEADLOCK FALSE
INVARIANT NoRecursion
INVARIANT DependenciesUp
INVARIANT UnloadAllLeavesNothing
PROPERTY DependentsFirst
PROPERTY UnloadAllEnds
