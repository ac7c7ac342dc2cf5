\* Streams of twenty frames, more than any of the filters delays it, in blocks
\* of up to three.
CONSTANTS
    Kinds = {"hold", "linear", "speex_float", "speex_double"}
    Channels = {0, 1}
    Rates <- MCRates
    Align = 2
    BaseLength = 8
    PadsChunks = FALSE
    Interpolates = FALSE
    MaxBlock = 3
    MaxFrames = 20
    Responses <- MCResponses
    OutChannels = {0, 1, 2}
    OutSizes = {2, 5}
    Levels = {0, 1}
    Silence = 1
    LeavesOld = FALSE
SPECIFICATION ConvolverSpec
INVARIANTS
    NothingLeft
    
    LinearLags
    EstimatesHold
PROPERTY
    ConvolvesWhole
