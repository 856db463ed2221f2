SPECIFICATION Spec
CONSTANTS
    Policies <- MCPolicies
    Horizon = 9
    MaxWindowSamples = 3
    ChunkSamples = 2
    VadSamples = 2
    Tolerance = 1
    MaxHeld = 1
    FrameSizes = {0, 1, 3}
    Jumps <- MCJumps
    MaxFrames = 3
    Promised = {0, 2}
CHECK_DEADLOCK FALSE
INVARIANTS WindowOnOneTimeline EverySampleHeard
