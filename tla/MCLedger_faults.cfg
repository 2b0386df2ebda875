SPECIFICATION Spec
CONSTANTS
    alice = alice
    bob = bob
    nobody = nobody
    NoAccount = NoAccount
    TestAccounts <- Pair
    Txs <- Odd
    InitialBalance = 2
    MaxSubmits = 2
    MaxCrashes = 1
    MaxCuts = 2
    MaxMixups = 1
INVARIANTS
    TypeOK
    AccountsAddUp
    ListedOnce
    ListedAreExecuted
    OnceMorePerFault
