SPECIFICATION FairSpec
CONSTANTS
    None = None
    Corrupt = Corrupt
    ny = ny
    utc = utc
    g1 = g1
    g2 = g2
    g3 = g3
    c1 = c1
    c2 = c2
    Frequencies <- MCFrequencies
    Times <- MCTimes
    Zones <- MCZones
    Generations <- FewGenerations
    Callers <- MCCallers
    Requests <- FewRequests
    Env <- MCEnv
    InitialRaw <- OnlyEmptyRedis
PROPERTIES
    EveryChangeIsAnswered
CHECK_DEADLOCK TRUE
