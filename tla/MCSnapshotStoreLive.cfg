CONSTANTS
    None = None
    Suites = {s1}
    Pkgs = {}
    Forms = {"detached", "unsigned"}
    Blobs = {b1, b2}
    Sigs = {b2}
    MaxId = 2
    MaxReleased = 1
SPECIFICATION LiveSpec
INVARIANT ReferencesResolve
PROPERTIES UnreachableCollected RetiredDrained
CHECK_DEADLOCK FALSE
