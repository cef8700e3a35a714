CONSTANTS
    Suites = {1, 2}
    Hosts = {"a", "b"}
    HostOf <- TheHostOf
    Global = 1
    Workers = 1
    MaxSuites = 2
    Unsigned = {}
    Adopted = {}
    Events <- ClientChecks
    MaxEvents = 1
SPECIFICATION Spec
PROPERTY QueuedPendingMarked
