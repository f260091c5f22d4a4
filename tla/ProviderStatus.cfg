CONSTANTS
    Invoices = {i1, i2}
    Workers = {w1, w2}
    Handlers = {h1, h2}
    Syncers = {s1}
    Legacy = {i2}
    LeaseSeconds = 1
    RetryBase = 1
    MaxAttempts = 1
    MaxTime = 1
    MaxCrashes = 0
    MaxRevision = 2
    Skew = 1
    NoLease = NoLease
    NoClaim = NoClaim
    Null = Null
SPECIFICATION StatusSpec
SYMMETRY Symmetry
INVARIANT SucceededShowsStatus
INVARIANT LaterUpdatesShown
