SPECIFICATION Spec
CONSTANTS
    None = None
    Corrupt = Corrupt
    ny = ny
    utc = utc
    hk = hk
    Frequencies <- MCFrequencies
    Times <- MCTimes
    Zones <- MCZones
    Env <- MCEnv
    Candidates <- MCCandidates
    InitialRaw <- MCInitialRaw
INVARIANTS
    TypeOK
    ChangesSurviveMigration
    FrequencyWasInEffect
PROPERTIES
    QuietLoadIsAtomic
CHECK_DEADLOCK TRUE
