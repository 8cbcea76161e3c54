SPECIFICATION ApiSpec
CONSTANTS
    f1 = f1
    f2 = f2
    blank = blank
    Frames = {f1, f2}
    Blank = blank
    Chain <- MCChain
    Encodes = TRUE
    MaxInput = 3
    p1 = p1
    p2 = p2
    p3 = p3
    p4 = p4
    hd = hd
    sd = sd
    PictureId = {p1, p2, p3, p4}
    Info = {hd, sd}
    BufferInfo = hd
    capacity = 3
    MaxClock = 5
    Requests <- MCRequests
    SessionFrames = {f1, f2}
    FrameLimit = 3
    NoLimit = NoLimit
    ReconstructionMode = "frames"
    MaxCollected = 4
    Gop = 3
    CtuCount = 2
    PocModulus = 3
    NoFrame = NoFrame
    NoPayload = NoPayload
    MaxSample = 2
    Options <- MCOptions
    SkipDelta = 1
    PreskipLimit = 2
    SlicedSupported = TRUE
    MaxFrames = 5
INVARIANTS
    DpbOK
    OkIsComplete
    DeliveredOnce
    ClosedLoop
    ErrorDoesNotAccumulate
    CachedSlicesAreCurrent
PROPERTIES
    ImplementsStore
    PipelineReturns
    KeepsContractUntilFailure
    FlushReturns
    FramesKeepTheirSamples
CHECK_DEADLOCK FALSE
