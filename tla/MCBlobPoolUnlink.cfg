CONSTANTS
    Fetchers = {}
    Adopters = {a1}
    ScanInterval = 1
SPECIFICATION Spec
PROPERTY GCKeepsNamedFile
