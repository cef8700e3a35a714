CONSTANTS
    Suites = {1, 2}
    Hosts = {"a", "b"}
    HostOf <- TheHostOf
    Global = 2
    Workers = 2
    MaxSuites = 1
    Unsigned = {2}
    Adopted = {}
    Events <- MixedEvents
    MaxEvents = 2
SPECIFICATION LiveSpec
INVARIANTS QueueBound SlotsMatchLeases SignedNotStarved
PROPERTIES NoOfferLoop PendingAdmitted
