CONSTANTS
    Requests = {r1, r2}
    Issuers = {s1}
    TrialTags = {"trial"}
    SmokeTags = {"smoke"}
    InvoicesWith <- TrialInvoices
    Deliveries <- MixedDeliveries
    MaxWrites = 1
    MaxFailures = 1
    Null = Null
SPECIFICATION Spec
SYMMETRY Symmetry
INVARIANT CreditTypeOK
INVARIANT AcceptedHasJob
INVARIANT JobsAreOurs
PROPERTY ImplementsInbox
