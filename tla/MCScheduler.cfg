CONSTANTS
    Suites = {1, 2, 3}
    Hosts = {"a", "b"}
    HostOf <- TheHostOf
    Global = 2
    Workers = 2
    MaxSuites = 2
    Unsigned = {1, 3}
    Adopted = {1}
    Events <- Reconcile3
    MaxEvents = 1
SPECIFICATION Spec
INVARIANTS TypeOK OldestFirst QueuesConsistent OfferFits WorkConserving
