SPECIFICATION FairSpec
CONSTANTS
    alice = alice
    bob = bob
    nobody = nobody
    NoAccount = NoAccount
    TestAccounts <- Pair
    Txs <- Payments
    InitialBalance = 3
    MaxSubmits = 3
    MaxCrashes = 1
    MaxCuts = 0
    MaxMixups = 0
PROPERTIES
    ImplementsAtomicLedger
    Decided
