CONSTANTS
    Invoices = {i1}
    Workers = {w1}
    Handlers = {h1}
    Syncers = {}
    Legacy = {}
    LeaseSeconds = 1
    RetryBase = 1
    MaxAttempts = 1
    MaxTime = 2
    MaxCrashes = 0
    MaxRevision = 2
    Skew = 0
    NoLease = NoLease
    NoClaim = NoClaim
    Null = Null
SPECIFICATION StatusSpec
INVARIANT ShowsLatestReceived
