CONSTANTS
    Invoices = {i1, i2}
    Workers = {w1, w2}
    LeaseSeconds = 2
    RetryBase = 1
    MaxAttempts = 2
    MaxTime = 6
    MaxCrashes = 1
    LastCredit = 0
    NoLease = NoLease
    NoClaim = NoClaim
SPECIFICATION TimelySpec
INVARIANT AttemptsBounded
PROPERTY EverySettled
PROPERTY SettledAsksNothing
