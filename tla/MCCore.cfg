SPECIFICATION FairSpec
CONSTANTS
    NWord = 4
    W = 3
    NReg = 3
    SentMax = 4
    Half <- MCHalf
    Decode <- MCDecode
    WideHalf <- MCWideHalf
    ZeroHalf <- Nop
    LoadStore <- MCLoadStore
    MultDiv <- MCMultDiv
    Programs <- MCPrograms
    Resettable <- MCResettable
    RegFiles <- MCRegFiles
INVARIANT TypeOK
INVARIANT OneInFlight
PROPERTY ExecutesProgram
PROPERTY Progress
