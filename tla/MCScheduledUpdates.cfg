SPECIFICATION Spec
CONSTANTS
    None = None
    ny = ny
    utc = utc
    p1 = p1
    p2 = p2
    g1 = g1
    g2 = g2
    Frequencies <- MCFrequencies
    Times <- MCTimes
    Zones <- MCZones
    Procs <- TwoProcesses
    Generations <- MCGenerations
    Plans <- TwoPlans
    Horizon <- ToRepeatedHour
    Wall <- WallToRepeatedHour
SYMMETRY Symmetric
INVARIANTS
    TypeOK
    AtMostOnce
    OnlyPrescribed
PROPERTIES
    StaleCallbacksEnd
    ImplementsDeliveries
CHECK_DEADLOCK TRUE
