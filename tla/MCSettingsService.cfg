SPECIFICATION Spec
CONSTANTS
    None = None
    Corrupt = Corrupt
    ny = ny
    utc = utc
    g1 = g1
    g2 = g2
    g3 = g3
    c1 = c1
    c2 = c2
    Frequencies <- MCFrequencies
    Times <- MCTimes
    Zones <- MCZones
    Generations <- MCGenerations
    Callers <- MCCallers
    Requests <- MCRequests
    Env <- MCEnv
    InitialRaw <- MCInitialRaw
SYMMETRY Symmetric
INVARIANTS
    TypeOK
    EffectiveIsActive
    SilenceIsReported
    StoredUnlessIncomplete
PROPERTIES
    ImplementsAtomicSchedule
    SettingsDriveUpdates
    SettingsWriteOneByOne
CHECK_DEADLOCK TRUE
