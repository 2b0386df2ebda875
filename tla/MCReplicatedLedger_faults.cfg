SPECIFICATION LedgersSpec
CONSTANTS
    alice = alice
    bob = bob
    nobody = nobody
    WordSize = 65536
    Nodes = {2, 3}
    Bodies <- Lists
    EmptyBody <- NoTxs
    NoBlock = NoBlock
    Txs <- Dependent
    Accounts <- Pair
    InitialBalance = 1
    MaxHeight = 2
    ChanCap = 1
    MaxSubmits = 2
    MaxMixups = 1
    MaxCrashes = 1
    MaxCuts = 1
    MaxHangups = 1
    MaxLosses = 0
INVARIANTS
    LedgersTypeOK
    LedgerIsChain
    ListedAreExecutedEverywhere
