SPECIFICATION Spec
CONSTANTS
    Fields <- MCFields
    Bins <- MCBins
    MaxCalls = 1
    MaxUnits = 1
    SliceQp = 32
    SliceTypes = {"I", "P"}
    InitValue <- MCInit
    Window <- MCWindow
    Codings <- MCCodings
    MaxPictures = 3
    Setups <- MixedSlice
    ResidualBlocks <- MCResidualBlocks
    Scenes <- MCScenes
    Reconstructed <- MCReconstructed
PROPERTY MrlModesAreMostProbable
CHECK_DEADLOCK FALSE
