CONSTANTS
    Requests = {r1}
    Issuers = {p1, p2}
    TrialTags = {}
    SmokeTags = {"smoke"}
    InvoicesWith <- Invoices
    Deliveries <- Credits
    Batch <- OneTag
    MaxWrites = 0
    MaxFailures = 1
    MaxFaults = 1
    MaxKills = 1
    Null = Null
SPECIFICATION FairSmokeSpec
INVARIANT RetryReuses
 
PROPERTY BindingIsKept
PROPERTY BatchCompletes
PROPERTY BookedCreditsQueued
