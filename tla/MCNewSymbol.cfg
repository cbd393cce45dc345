SPECIFICATION Spec
CONSTANTS
    None = None
    aapl = aapl
    msft = msft
    j1 = j1
    j2 = j2
    Symbols <- MCSymbols
    EnvSymbol = aapl
    Jobs <- MCJobs
    Handler = Handler
    Ttl = 2
    Latency = 1
    Horizon = 5
SYMMETRY Symmetric
INVARIANTS
    SubsequentUpdatesUseSymbol
CHECK_DEADLOCK TRUE
