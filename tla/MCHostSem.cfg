CONSTANTS
    None = None
    Procs = {p1, p2, p3, p4}
    Slots = {x1, x2, x3}
    Limit = 2
SPECIFICATION LiveSpec
INVARIANTS HostLimit EntryIffReferenced
PROPERTIES ImplementsSemaphore WaiterServed
