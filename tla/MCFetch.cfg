SPECIFICATION FairSpec
CONSTANTS
    NWord = 5
    Half <- MCHalf
    WideHalf <- MCWideHalf
    ZeroHalf <- MCZeroHalf
    LoadStore <- MCLoadStore
    MultDiv <- MCMultDiv
    Images <- MCImages
    Stores <- MCStores
    Targets <- MCTargets
    NoInst = NoInst
INVARIANT TypeOK
INVARIANT NoOverrun
INVARIANT FetchInv
PROPERTY FetchesStream
PROPERTY FetchProgress
