----------------------------- MODULE SmokeBatch -----------------------------
(***************************************************************************)
(* The commands `provider smoke-invoice` and `provider smoke-batch`, which *)
(* create invoices with stable tags for a reference, one after the other,  *)
(* beside the web server and an issuer of CreditEvents.  The operator runs *)
(* them again with the same reference when they fail; whether an invoice   *)
(* is there already, they ask the provider by its tag, and the provider id *)
(* is bound to the tag in a transaction of its own.                        *)
(***************************************************************************)
EXTENDS CreditEvents, Sequences

CONSTANTS Batch,      \* the tags of the reference, in the order of their ordinals
          MaxFaults,  \* bound of the calls to the provider that fail
          MaxKills    \* bound of the commands that die

\* --count is at least one.
ASSUME BatchAssumption ==
    /\ Batch \in Seq(SmokeTags) /\ Batch # <<>>
    /\ \A i, j \in DOMAIN Batch : Batch[i] = Batch[j] => i = j

\* An invoice is created with one tag, and the events about it carry that tag.
ASSUME OneTagAssumption ==
    /\ \A t, u \in Tags : t # u => InvoicesWith[t] \cap InvoicesWith[u] = {}
    /\ \A d \in Deliveries : \A t \in d.tags \cap SmokeTags : d.invoice \in InvoicesWith[t]

\* Runs of the commands; two of them may overlap.
Commands == Issuers

VARIABLES booked,    \* the invoices that the provider has
          late,      \* create requests under way that nobody waits for, of each tag
          command,   \* where each command is
          returned,  \* the invoices of the command so far, of each ordinal
          faults, kills,
          disturbed, \* history: two commands at once, or a late request
          contested  \* history: the tags of which a command has returned an invoice
                     \* while another was in the middle of binding one

smokeVars == <<booked, late, command, returned, faults, kills, disturbed, contested>>
allVars == <<vars, smokeVars>>

NoCommand == [at |-> "idle", n |-> 1, invoice |-> Null]
TagOf(p) == Batch[command[p].n]
BookedOf(t) == InvoicesWith[t] \cap booked
Running(p) == command[p].at \notin {"idle", "done"}

\* The command has read that the tag has no invoice, and not yet committed its own.
Binding(p, t) == command[p].at = "bind" /\ TagOf(p) = t

SmokeInit == /\ Init
             /\ booked = UNION {InvoicesWith[t] : t \in TrialTags}
             /\ late = [t \in SmokeTags |-> 0]
             /\ command = [p \in Commands |-> NoCommand]
             /\ returned = [p \in Commands |-> <<>>]
             /\ faults = 0 /\ kills = 0
             /\ disturbed = FALSE /\ contested = {}

Returns(p) == Len(returned'[p]) > Len(returned[p])

Remember ==
    /\ disturbed' = (\/ disturbed
                     \/ \E t \in SmokeTags : late'[t] > 0
                     \/ \E p, q \in Commands : p # q /\ Running(p)' /\ Running(q)')
    /\ contested' = contested \cup {t \in SmokeTags : \E p, q \in Commands :
                        p # q /\ Returns(p) /\ TagOf(p) = t /\ Binding(q, t)}

Become(p, next) == command' = [command EXCEPT ![p] = next]
Goto(p, label) == Become(p, [command[p] EXCEPT !.at = label])
Exit(p) == Become(p, NoCommand)
Provider == <<booked, late>>
Calm == UNCHANGED <<faults, kills>>

\* The next ordinal, or the output of the command.
Return(p) == /\ returned' = [returned EXCEPT ![p] = Append(@, command[p].invoice)]
             /\ Become(p, IF command[p].n = Len(Batch) THEN [NoCommand EXCEPT !.at = "done"]
                          ELSE [at |-> "register", n |-> command[p].n + 1, invoice |-> Null])

-----------------------------------------------------------------------------
\* SmokeBatchService.run.

StartCommand(p) == /\ ~Running(p)
                   /\ Become(p, [NoCommand EXCEPT !.at = "register"])
                   /\ returned' = [returned EXCEPT ![p] = <<>>]
                   /\ UNCHANGED <<vars, Provider>> /\ Calm

\* register_smoke: INSERT ... ON CONFLICT DO NOTHING.
RegisterSmoke(p) ==
    /\ command[p].at = "register"
    /\ Goto(p, "lookup")
    /\ \/ Register(TagOf(p))
       \/ owner[TagOf(p)] # NotOwned /\ UNCHANGED vars
    /\ UNCHANGED <<Provider, returned>> /\ Calm

\* Operators named Wrong... are slips that the properties must notice, each before
\* the definition it replaces: nobody asks what is there already.
WrongLookUp(p) == /\ command[p].at \in {"lookup", "recheck"}
                  /\ Goto(p, "create")
                  /\ UNCHANGED <<vars, Provider, returned>> /\ Calm

\* find_invoice takes any one of the invoices with the tag.  Without one, the first
\* lookup leads to a create request, and the second ends the command.
LookUp(p) ==
    /\ command[p].at \in {"lookup", "recheck"}
    /\ \/ \E i \in BookedOf(TagOf(p)) :
             Become(p, [command[p] EXCEPT !.at = "record", !.invoice = i])
       \/ /\ BookedOf(TagOf(p)) = {}
          /\ IF command[p].at = "lookup" THEN Goto(p, "create") ELSE Exit(p)
    /\ UNCHANGED <<vars, Provider, returned>> /\ Calm

Book(t) == \E i \in InvoicesWith[t] \ booked : booked' = booked \cup {i}

CreateInvoice(p) ==
    /\ command[p].at = "create"
    /\ \E i \in InvoicesWith[TagOf(p)] \ booked :
          /\ booked' = booked \cup {i}
          /\ Become(p, [command[p] EXCEPT !.at = "record", !.invoice = i])
    /\ UNCHANGED <<vars, late, returned>> /\ Calm

\* What becomes of a create request whose answer nobody reads.
UnderWay(t) == \/ Book(t) /\ UNCHANGED late
               \/ late' = [late EXCEPT ![t] = @ + 1] /\ UNCHANGED booked
               \/ UNCHANGED Provider

\* ProviderUnknownOutcomeError.
CreateUnknown(p) ==
    /\ command[p].at = "create"
    /\ faults < MaxFaults /\ faults' = faults + 1
    /\ UnderWay(TagOf(p))
    /\ Goto(p, "recheck")
    /\ UNCHANGED <<vars, returned, kills>>

\* Any other error of the provider ends the command.
CallFails(p) == /\ command[p].at \in {"lookup", "create", "recheck"}
                /\ faults < MaxFaults /\ faults' = faults + 1
                /\ Exit(p)
                /\ UNCHANGED <<vars, Provider, returned, kills>>

\* An owner with another invoice does not end the command.
WrongAnyOwner(p) ==
    LET t == TagOf(p)
    IN  /\ command[p].at = "record"
        /\ \/ /\ owner[t] = Null
              /\ Goto(p, "bind")
              /\ IssuerStep(p, [at |-> "owner", tag |-> t, invoice |-> command[p].invoice])
              /\ UNCHANGED <<writes, returned>>
           \/ owner[t] # Null /\ Return(p) /\ UNCHANGED vars
        /\ UNCHANGED Provider /\ Calm

\* An owner that has this invoice is a conflict, too.
WrongReadOwner(p) ==
    /\ command[p].at = "record"
    /\ \/ /\ owner[TagOf(p)] = Null
          /\ Goto(p, "bind")
          /\ IssuerStep(p, [at |-> "owner", tag |-> TagOf(p), invoice |-> command[p].invoice])
          /\ UNCHANGED <<writes, returned>>
       \/ owner[TagOf(p)] # Null /\ Exit(p) /\ UNCHANGED <<vars, returned>>
    /\ UNCHANGED Provider /\ Calm

\* bind_provider_invoice reads the owner, without a lock: it is bound if it has no
\* invoice, touched if it has this one, and else InvoiceOwnershipConflictError ends the
\* command.  (record_smoke registers it before, which does nothing any more.)
ReadOwner(p) ==
    LET t == TagOf(p)
        i == command[p].invoice
    IN  /\ command[p].at = "record"
        /\ \/ /\ owner[t] = Null
              /\ Goto(p, "bind")
              /\ IssuerStep(p, [at |-> "owner", tag |-> t, invoice |-> i])
              /\ UNCHANGED <<writes, returned>>
           \/ owner[t] = i /\ ~OwnerHeld(t, p) /\ Return(p) /\ UNCHANGED vars
           \/ owner[t] \notin {Null, i} /\ Exit(p) /\ UNCHANGED <<vars, returned>>
        /\ UNCHANGED Provider /\ Calm

\* The UPDATE names the tag only, not the NULL that was read; another tag may hold the
\* invoice, and then the command ends.
BindOwner(p) ==
    /\ command[p].at = "bind"
    /\ \/ WriteOwner(p) /\ UNCHANGED <<command, returned>>
       \/ WriteOwnerConflict(p) /\ Exit(p) /\ UNCHANGED returned
       \/ CommitOwner(p) /\ Return(p)
    /\ UNCHANGED Provider /\ Calm

\* The command dies, and the database ends its transaction.
Kill(p) == /\ Running(p)
           /\ kills < MaxKills /\ kills' = kills + 1
           /\ Exit(p)
           /\ IF command[p].at = "create" THEN UnderWay(TagOf(p)) ELSE UNCHANGED Provider
           /\ IssuerStep(p, NoIssue) /\ UNCHANGED <<writes, returned, faults>>

Arrive(t) == /\ late[t] > 0 /\ late' = [late EXCEPT ![t] = @ - 1]
             /\ Book(t)
             /\ UNCHANGED <<vars, command, returned>> /\ Calm

RunCommand(p) == \/ RegisterSmoke(p) \/ LookUp(p) \/ CreateInvoice(p) \/ ReadOwner(p)
                 \/ BindOwner(p)

\* A delivery can be made only of an invoice that exists.
Deliver(d) == /\ d.invoice \in booked
              /\ \E r \in Requests : Receive(r, d)

\* CreditEvents, with the commands in place of the issuers of smoke invoices.
Others == \/ \E r \in Requests : Handle(r) \/ Fail(r)
          \/ \E d \in Deliveries : Deliver(d)

SmokeNext == /\ \/ \E p \in Commands : \/ StartCommand(p) \/ RunCommand(p)
                                       \/ CreateUnknown(p) \/ CallFails(p) \/ Kill(p)
                \/ \E t \in SmokeTags : Arrive(t)
                \/ Others /\ UNCHANGED <<booked, late, command, returned, faults, kills>>
             /\ Remember

SmokeSpec == SmokeInit /\ [][SmokeNext]_allVars

-----------------------------------------------------------------------------
\* Properties.

Duplicated(t) == \E i, j \in BookedOf(t) : i # j

\* docs/SANDBOX.md: retrying the command reuses the invoice found by its tag instead of
\* creating another one.  Commands that fail or die anywhere and are run again never
\* book a second invoice for a tag, unless two of them overlap or a request is late.
RetryReuses == disturbed \/ \A t \in SmokeTags : ~Duplicated(t)

\* What a command returns is booked, and bound to its tag, so that its credit is ours:
\* also when a request that nobody waited for books a second invoice, which the webhook
\* or a later command binds first (bind_provider_invoice ends the command then).  The
\* exception is a command that had read the owner as NULL and was still in its
\* transaction when this one returned: its UPDATE may replace what it has not seen.
ReturnedIsBound ==
    \A p \in Commands : \A n \in DOMAIN returned[p] :
        /\ returned[p][n] \in BookedOf(Batch[n])
        /\ Batch[n] \in contested \/ owner[Batch[n]] = returned[p][n]

\* Nobody is in the middle of binding the tag, and it has an invoice.
Final(t) == /\ owner[t] \notin {Null, NotOwned}
            /\ \A p \in Commands : ~Binding(p, t)

\* The UPDATE of bind_provider_invoice names the tag only, and so one command can replace
\* what the webhook or another command has bound since it read NULL; but the binding
\* that is there when no command is in between the two is the last one, however many
\* invoices the provider books for the tag, and whoever is credited, run again or late.
KeepsBinding == \A t \in SmokeTags : Final(t) => owner'[t] = owner[t] /\ Final(t)'

BindingIsKept == [][KeepsBinding]_allVars

-----------------------------------------------------------------------------
\* CreditEvents!Fairness for these steps; and the operator of one of the commands
\* runs it again until it is done.
StepOf(A) == A /\ UNCHANGED <<booked, late, command, returned, faults, kills>> /\ Remember

SmokeFairness ==
    /\ \A r \in Requests : SF_allVars(StepOf(Handle(r)))
    /\ \A d \in Deliveries : SF_allVars(StepOf(events[d.event] = Null /\ Deliver(d)))
    /\ \A p \in Commands : SF_allVars(RunCommand(p) /\ Remember)
    /\ \E p \in Commands : WF_allVars(StartCommand(p) /\ Remember)

FairSmokeSpec == SmokeSpec /\ SmokeFairness

\* A command that is run again and again with the same reference is done in the end,
\* whatever failed, unless others have interfered.
BatchCompletes == <>disturbed \/ <>(\E p \in Commands : command[p].at = "done")

\* CreditEvents!OwnCreditsQueued for invoices that come about while the events are
\* handled: a payable credit of an invoice leads to a job, although the command
\* that made it has not bound it yet, or never does; unless its tag was booked twice.
BookedCreditsQueued ==
    \A d \in Deliveries :
        /\ d.kind = "credited" /\ d.payable
        /\ d.invoice \in booked
        /\ d.tags # {} /\ d.tags \subseteq Registered
        /\ events[d.event] = Null /\ \A r \in Requests : req[r].d # d
        ~> \/ \E j \in jobs : j.invoice = d.invoice
           \/ \E t \in d.tags : t \in SmokeTags /\ Duplicated(t)

=============================================================================
