SPECIFICATION Spec
CONSTANTS
    alice = alice
    bob = bob
    nobody = nobody
    NoAccount = NoAccount
    TestAccounts <- Pair
    Txs <- Odd
    InitialBalance = 2
    MaxSubmits = 1
    MaxCrashes = 0
    MaxCuts = 0
    MaxMixups = 0
INVARIANT
    NonceCountsExecuted
