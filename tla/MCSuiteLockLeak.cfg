CONSTANTS
    Procs = {p1, p2, p3}
    Mutexes = {m1, m2, m3, m4}
    None = None
    MaxSnap = 1
SPECIFICATION Spec
SYMMETRY Symmetry
INVARIANT EntryOutlivesRowOnlyOnReadError
