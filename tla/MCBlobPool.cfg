CONSTANTS
    Fetchers = {f1}
    Adopters = {a1, a2}
    ScanInterval = 1
SPECIFICATION LiveSpec
INVARIANTS TypeOK OrphanHasCause VerifiedReuse
PROPERTY Heals
