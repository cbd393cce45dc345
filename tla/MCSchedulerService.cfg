SPECIFICATION Spec
CONSTANTS
    None = None
    ny = ny
    g1 = g1
    g2 = g2
    g3 = g3
    Frequencies <- MCFrequencies
    Times <- MCTimes
    Zones <- MCZones
    Generations <- MCGenerations
INVARIANTS
    TypeOK
    QueueMatchesPublished
    OneGenerationQueued
PROPERTIES
    LossIsReported
    ImplementsReplaceSchedule
CHECK_DEADLOCK TRUE
