SPECIFICATION FairSpec
CONSTANTS
    WordSize = 65536
    Nodes = {2, 3}
    Bodies = {x}
    EmptyBody = x
    NoBlock = NoBlock
    MaxHeight = 3
    ChanCap = 2
    MaxCrashes = 1
    MaxCuts = 0
    MaxHangups = 0
    MaxLosses = 1
PROPERTIES
    CatchUp
    Progress
