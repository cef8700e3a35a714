CONSTANTS
    None = None
    Suites = {s1, s2}
    Pkgs = {}
    Forms = {"inline"}
    Blobs = {b1, b2}
    Sigs = {}
    MaxId = 2
    MaxReleased = 1
SPECIFICATION Spec
SYMMETRY Symmetry
INVARIANTS TypeOK RefcountExact ClockMatches CurrentIsLive
PROPERTIES ServedMembersNeverShrink NeverRepromoted
CHECK_DEADLOCK FALSE
