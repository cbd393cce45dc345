SPECIFICATION PromptSpec
CONSTANTS
    None = None
    ny = ny
    utc = utc
    p1 = p1
    p2 = p2
    g1 = g1
    g2 = g2
    Frequencies <- MCFrequencies
    Times <- MCTimes
    Zones <- MCZones
    Procs <- TwoProcesses
    Generations <- MCGenerations
    Plans <- ThreePlans
    Horizon <- AllInstants
    Wall <- WallAllInstants
SYMMETRY Symmetric
PROPERTIES
    NoneMissed
CHECK_DEADLOCK TRUE
