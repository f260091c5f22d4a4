CONSTANTS
    Operators = {o1}
    Workers = {w1}
    OldWebhooks = 2
    MaxId = 9
    MaxFaults = 2
    MaxKills = 1
    MaxSwitches = 1
SPECIFICATION FairSpec
INVARIANT WebhookTypeOK
INVARIANT OutputIsTrue
INVARIANT BareIsExplained
INVARIANT DisabledStops
INVARIANT CreatesOnce
PROPERTY CompleteIsKept
PROPERTY WebhookIsSetUp
