SPECIFICATION Spec
CONSTANTS
    Gop <- InfiniteGop
    CtuCount = 2
    PocModulus = 4
    NoFrame = NoFrame
    NoPayload = NoPayload
    MaxSample = 4
    Options <- MixedOnly
    SkipDelta = 1
    PreskipLimit = 2
    SlicedSupported = TRUE
    MaxFrames = 2
INVARIANTS
    InterTreeInPSlices
CHECK_DEADLOCK FALSE
