SPECIFICATION Spec
CONSTANTS
    t1 = t1
    t2 = t2
    Rows = 1
    Cols = 4
    HashOf <- MCHashOf
    SearchSteps <- MCSteps
    BucketLimit = 2
    Block <- MCBlock
    Tile = {t1, t2}
    TileOf <- MCTileOf
    TileOrder <- MCTileOrder
    Inputs <- MCInputs
    MaxSample = 2
    Tolerance = 0
    Coding = "lossless"
    Gop = 3
    InterLayoutOk = TRUE
    HintModulus = 4
    NoFrame = NoFrame
    NoMatch = NoMatch
    MaxFrames = 5
PROPERTIES
    GroupBoundary
    ImplementsStream
    CallReturns
