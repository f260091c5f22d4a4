CONSTANTS
    Invoices = {i1}
    Workers = {w1, w2}
    LeaseSeconds = 2
    RetryBase = 1
    MaxAttempts = 3
    MaxTime = 5
    MaxCrashes = 2
    NoLease = NoLease
    NoClaim = NoClaim
SPECIFICATION Spec
SYMMETRY Symmetry
INVARIANT TypeOK
INVARIANT AtMostOneTransfer
PROPERTY NoStaleOutcome
PROPERTY ImplementsLedger
