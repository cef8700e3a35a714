CONSTANTS
    None = None
    Suites = {s1, s2}
    Clients = {c1, c2}
    Quiet = 1
    HoldMax = 2
    CommitMargin = 1
    PhaseAMax = 2
    TokenWaitMax = 1
    AnchorTimeout = 3
    MaxWaiters = 1
SPECIFICATION Spec
SYMMETRY Symmetry
INVARIANTS TypeOK ExpiryOnlyDuringCommit TokenNotLost NoOversleep UsedEntryKept
PROPERTY NoStraddle
