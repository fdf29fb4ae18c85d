CONSTANTS
    Invocations <- MCInvocations
    UserDirs <- MCUserDirs
    UserMods <- MCUserMods
    MaxRuns = 3
SPECIFICATION Spec
INVARIANTS
    Declared
    DeclaredOnce
    PanicsOnlyTorn
    UserModsKept
\* An invocation may be the last.
CHECK_DEADLOCK FALSE
