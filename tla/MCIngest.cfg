SPECIFICATION FairSpec
CONSTANTS
    c1 = c1
    rival = rival
    None = None
    Calls = {c1}
    Rivals = {rival}
    Tasks = {1, 2}
    TasksBesideRivals = 1
    Streams <- MCStreams
    MaxStreams = 2
    MaxHeld = 1
    MaxTracks = 2
    MaxChunks = 1
    MaxWindows = 1
INVARIANTS OneTerminalEvent OkMeansWhole SlotsComeBack WatchdogOnlyReads
PROPERTIES CancelledCallEnds SilentStreamIsReleased
