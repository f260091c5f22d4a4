CONSTANTS
    TargetCount = 2
    Ticks = {t1, t2}
    Reconcilers = {r1}
    Requests = {w1}
    Paid = {1}
    Slow = {}
    LeaseSeconds = 9
    RetryBase = 1
    MaxAttempts = 2
    MaxRechecks = 1
    BatchMaxAttempts = 3
    MaxTime = 2
    MaxCrashes = 0
    MaxLate = 0
    Null = Null
CHECK_DEADLOCK FALSE
SPECIFICATION Spec
INVARIANT AtMostOneInvoice
