SPECIFICATION LedgersSpec
CONSTANTS
    alice = alice
    bob = bob
    nobody = nobody
    WordSize = 65536
    Nodes = {2, 3}
    Bodies <- Lists
    EmptyBody <- NoTxs
    NoBlock = NoBlock
    Txs <- Abandoned
    Accounts <- Pair
    InitialBalance = 1
    MaxHeight = 1
    ChanCap = 1
    MaxSubmits = 2
    MaxMixups = 0
    MaxCrashes = 0
    MaxCuts = 0
    MaxHangups = 0
    MaxLosses = 0
INVARIANTS
    SameChainSameLedger
