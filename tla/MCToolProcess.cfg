SPECIFICATION FairSpec
CONSTANTS
    Modes = {"probe", "audio", "keyframes"}
    Scripts <- MCScripts
    PipeSize = 2
    MaxRead = 2
    OutputCap = 2
    Queries = 2
INVARIANTS ReapedOnce FramingLosesNothing OkMeansWhole
PROPERTIES StopEndsCall HungChildEnds NoReadIsStuck
