CONSTANTS
    TargetCount = 2
    Ticks = {t1, t2}
    Reconcilers = {r1}
    Requests = {w1}
    Paid = {1}
    Slow = {1}
    LeaseSeconds = 1
    RetryBase = 1
    MaxAttempts = 2
    MaxRechecks = 1
    BatchMaxAttempts = 2
    MaxTime = 4
    MaxCrashes = 1
    MaxLate = 1
    Null = Null
CHECK_DEADLOCK FALSE
SPECIFICATION TimelyHistorySpec
PROPERTY BatchIsSettled
INVARIANT IssuingTypeOK
INVARIANT CreatedIsOwned
INVARIANT CompletedMeansIssued
INVARIANT OneInvoiceUndisturbed
