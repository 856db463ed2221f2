SPECIFICATION Spec
CONSTANTS
    Rate = 2
    WindowMs = 3
    MaxSamples = 11
    MinSamples = 2
    Diarize = TRUE
    MaxDecoded = 3
INVARIANT PartialsAreReplaced
