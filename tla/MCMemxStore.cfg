SPECIFICATION Spec
CONSTANTS
    f1 = f1
    f2 = f2
    v1 = v1
    v2 = v2
    noTag = noTag
    topic = topic
    Facts = {f1, f2}
    Profile = profile
    Values = {v1, v2}
    Tags = {noTag, topic}
    TagOf <- MCTagOf
    Workers = {w1, w2}
    MaxEntries = 1
    MaxVersion = 2
    Clocks = {0, 1, 2}
    Requests <- SomeRequests
    NoValue = NoValue
    NoEntry = NoEntry
INVARIANTS CatalogAgrees
PROPERTIES NoLostUpdate VersionsNeverReused ImplementsAtomicCatalog
SYMMETRY Symmetry
