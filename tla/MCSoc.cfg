SPECIFICATION FairSpec
CONSTANTS
    NByte = 4
    NNibble = 2
    NRam = 2
    DefaultCfg = 2
    Depth = 4
    LineMax = 2
    Ahead = 1
    Workloads <- MCWorkloads
INVARIANTS TypeOK PutNeverWaits
PROPERTIES ServesMemory SendsInOrder Answered Drains PutsFinish
