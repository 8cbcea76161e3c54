SPECIFICATION ReadingSpec
CONSTANTS
    Frames <- MCFrames
    Blank <- MCBlank
    Chain <- MCChain
    MaxInput = 3
    FrameLen = 2
    Jobs <- MCJobs
    Limits = {2, 9}
    ReadSizes = {1, 2, 3}
    b1 = b1
    b2 = b2
    t1 = t1
    t2 = t2
    Block = {b1, b2}
    Tile = {t1, t2}
    TileOf <- MCTileOf
    MaxSample = 1
    Tolerance = 0
    Coding = "mvp444"
    Gop = 0
    InterLayoutOk = TRUE
    HintModulus = 2
    NoFrame = NoFrame
    NoMatch = NoMatch
    MaxFrames = 4
    FrameLimits = {Unlimited, 0, 2}
    Unlimited = Unlimited
INVARIANT LimitIsUpperBound
CHECK_DEADLOCK FALSE
