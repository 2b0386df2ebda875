SPECIFICATION Spec
CONSTANTS
    t1 = t1
    t2 = t2
    NoTx = NoTx
    Nobody = Nobody
    WordSize = 65536
    Nodes = {1, 2}
    Dialled <- Everybody
    Txs <- One
    Pooled <- AtOne
    ReadTimeout = 3
    TotalTimeout = 5
    MaxHeight = 1
    MaxEvents = 1
    ChanCap = 1
    MaxFaults = 0
INVARIANTS
    FetchErrorStopsNothing
