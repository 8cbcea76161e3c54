SPECIFICATION Spec
CONSTANTS
    Fields <- MCFields
    Bins <- MCBins
    MaxCalls = 3
    MaxUnits = 2
    SliceQp = 32
    SliceTypes = {"I", "P"}
    InitValue <- MCInit
    Window <- MCWindow
    Codings <- MCCodings
    MaxPictures = 3
    Setups <- MCSetups
    ResidualBlocks <- MCResidualBlocks
    Scenes <- MCScenes
    Reconstructed <- MCReconstructed
INVARIANTS
    ReaderFindsWhatWasWritten
    PlanIsFollowed
    HeadersAreRead
    ResidualsAreReadBack
    PredictionFollowsTheFormat
PROPERTIES
    ReaderReadsEachNode
CHECK_DEADLOCK FALSE
