SPECIFICATION FairSpec
CONSTANTS
    WordSize = 65536
    Nodes = {2, 3}
    Bodies = {x}
    EmptyBody = x
    NoBlock = NoBlock
    MaxHeight = 2
    ChanCap = 2
    MaxCrashes = 0
    MaxCuts = 1
    MaxHangups = 0
    MaxLosses = 0
PROPERTIES
    MissingBlocksArrive
