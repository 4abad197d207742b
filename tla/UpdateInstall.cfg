SPECIFICATION FairSpec
CONSTANTS
    Platforms = {"MacosAarch64", "WindowsX86_64"}
    MaxVersion = 3
    MaxAttempts = 3
    MaxStarts = 4
    MaxFaults = 2
    MaxForeign = 1
INVARIANTS
    NothingIsForgotten
    EveryStartSettles
    FailureRestores
    HelpersAreEndorsed
    InstallableIsStaged
PROPERTIES
    AppliedIsFinal
    OthersAreKept
    RelaunchFollows
CHECK_DEADLOCK FALSE
