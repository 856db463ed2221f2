SPECIFICATION Spec
CONSTANTS
    MaxLength = 5
    MaxPadding = 2
    MaxWindowSamples = 5
    Horizon = 9
    Policies <- SmallPolicies
CHECK_DEADLOCK FALSE
INVARIANTS BufferIsTheTail
PROPERTIES NothingLeftUncut PauseCutIsQuiet ForcedOnlyWithoutPause WorkerAccepts
