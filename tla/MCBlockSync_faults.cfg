SPECIFICATION Spec
CONSTANTS
    WordSize = 65536
    Nodes = {2, 3}
    Bodies = {x, y}
    EmptyBody = x
    NoBlock = NoBlock
    MaxHeight = 3
    ChanCap = 2
    MaxCrashes = 1
    MaxCuts = 1
    MaxHangups = 1
    MaxLosses = 0
INVARIANTS
    TypeOK
    OneBlockPerTurn
    HolesAreCuts
    LostBlocksAreCuts
    Agreement
PROPERTIES
    ForwardOnly
    ImplementsAgreedLog
