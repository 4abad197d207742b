SPECIFICATION Spec
CONSTANTS
    Platforms = {"MacosAarch64"}
    MaxVersion = 2
    MaxAttempts = 2
    MaxStarts = 3
    MaxFaults = 1
    MaxForeign = 0
INVARIANTS
    InterruptedIsReported
CHECK_DEADLOCK FALSE
