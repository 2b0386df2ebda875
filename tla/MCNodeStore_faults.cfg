SPECIFICATION FairSpec
CONSTANTS
    Peers = {p, q}
    Turn = {1}
    MaxHeight = 3
    MaxDeaths = 1
    MaxLost = 1
    MaxStrays = 1
    MaxLosses = 1
    MaxFaults = 2
INVARIANTS
    TypeOK
    ServedOnce
    BlocksComeWithTransactions
    HolesAreFaults
PROPERTIES
    CatchUp
