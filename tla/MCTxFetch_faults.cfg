SPECIFICATION FairSpec
CONSTANTS
    t1 = t1
    t2 = t2
    NoTx = NoTx
    Nobody = Nobody
    WordSize = 65536
    Nodes = {1, 2, 3}
    Dialled <- Star
    Txs <- Two
    Pooled <- Shared
    ReadTimeout = 1
    TotalTimeout = 2
    MaxHeight = 1
    MaxEvents = 2
    ChanCap = 1
    MaxFaults = 1
INVARIANTS
    TypeOK
    
    
    MixupsAreLate
    OneMessagePerFetch
PROPERTIES
    HandlersEnd
