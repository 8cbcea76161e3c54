SPECIFICATION CodecSpec
CONSTANTS
    blockA = blockA
    blockB = blockB
    t1 = t1
    t2 = t2
    Block = {blockA, blockB}
    Tile = {t1, t2}
    TileOf <- MCTileOf
    MaxSample = 2
    Tolerance = 1
    Coding = "lossy"
    Gop <- InfiniteGop
    InterLayoutOk = TRUE
    HintModulus = 4
    NoFrame = NoFrame
    NoMatch = NoMatch
    MaxFrames = 6
    FrameLimit = 5
    NoLimit = NoLimit
    MaxCalls = 4
    LiteralChunk = 4
    FlushThreshold = 2
    PendingLimit = 32
    NameAt <- MCNameAt
    NameSlot <- MCNameSlot
    CdfSlot <- MCCdfSlot
    Calls <- MCCalls
    BitDepth = 8
    Tiles <- MCTiles
    ResidualTiles <- MCResidualTiles
    Pictures <- MCPictures
INVARIANTS
    ClosedLoop
    ShownIsSource
    KeyframesAreEntryPoints
    DisplayOrder
    PayloadIsReadBack
PROPERTIES
    KeepsContract
    ReaderReadsEachBlock
    SymbolsTellTheBlock
    TxbsAreReadBack
    ReaderFindsTilesAndCopies
CHECK_DEADLOCK FALSE
