SPECIFICATION Spec
CONSTANTS
    Speeches <- MCSpeeches
    Horizon = 200
    Lengths = {100, 120}
    Overlap = 60
    Tolerance = 35
    Slack = 50
    Near = 3
    Languages = {"en", "de"}
    MaxMisheard = 1
    MaxTranscripts = 2
INVARIANTS TranscriptIsWhole RevisionsAreAccepted
