SPECIFICATION Spec
CONSTANTS
    MaxMedia = 2
    Prefix = 2
    MaxReads = 2
    MaxSegments = 2
    MaxKeyframes = 2
INVARIANT OriginCarriesHash
