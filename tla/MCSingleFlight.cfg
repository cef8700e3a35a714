CONSTANTS
    None = None
    Panicked = Panicked
    Procs = {p1, p2, p3}
    Calls = {c1, c2, c3}
    Results = {r1}
SPECIFICATION LiveSpec
INVARIANT OneUnfinished
PROPERTIES SharedResultStable JoinersReturn
