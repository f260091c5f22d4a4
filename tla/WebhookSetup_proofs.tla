------------------------ MODULE WebhookSetup_proofs -------------------------
(***************************************************************************)
(* For any number of operators, workers, faults, deaths and runs of        *)
(* live-mode.sh: what WebhookSetup promises of the webhooks.  At the       *)
(* bottom is what the provider does to them (Evolves): a step takes away   *)
(* webhooks that are not complete, or adds a complete one when no other    *)
(* kind is left.                                                           *)
(***************************************************************************)
EXTENDS WebhookSetup, FiniteSetTheorems, TLAPS

Labels == {"idle", "inspect", "ensure", "delete", "create", "confirm", "polling"}
Commands == {"none", "setup", "cleanup", "preflight"}
Locals == [cmd : Commands, at : Labels, live : BOOLEAN, stale : SUBSET Ids, todo : SUBSET Ids,
           created : 0 .. MaxId]
Outputs == [cmd : Commands, id : 0 .. MaxId, replaced : SUBSET Ids]

TablesOK == /\ webhooks \subseteq Webhooks
            /\ lastId \in 0 .. MaxId /\ OldWebhooks <= lastId
            /\ creating \in Nat /\ deleting \subseteq Ids
            /\ mode \in BOOLEAN /\ outdated \subseteq Workers
            /\ script \in [at : {"idle", "recreate", "restore"}, previous : BOOLEAN]
            /\ proc \in [Processes -> Locals]
            /\ shown \in [Operators -> Outputs]
            /\ explained \in BOOLEAN /\ disturbed \in BOOLEAN

Incomplete == {w \in webhooks : ~w.complete}

\* A webhook that is not complete, or is gone, and will never come back.
Lost(id) == id <= lastId /\ id \notin IdsOf(Complete)

\* The complete webhooks are from this session.
NewSession == \A w \in Complete : w.id > OldWebhooks

\* A webhook is created only after all that were incomplete are gone.
WebhooksOK == /\ \A w \in webhooks : w.id <= lastId
              /\ \A v, w \in webhooks : v.id = w.id => v = w
              /\ \A w \in webhooks : w.id > OldWebhooks => w.complete /\ Incomplete = {}
              /\ creating > 0 => Incomplete = {}
              /\ \A id \in deleting : Lost(id)

\* What a process q in the middle of ensure_webhook knows.
LocalOK(q) ==
    /\ q.at = "delete" => q.todo # {} /\ \A w \in Incomplete : w.id \in q.todo
    /\ q.at \in {"delete", "create"} => q.live
    /\ \A id \in q.todo : Lost(id)
    /\ q.at \in {"create", "confirm"} => Incomplete = {}
    /\ q.cmd = "cleanup" /\ q.at \in {"ensure", "delete", "create", "confirm"}
       => NewSession /\ \A id \in q.stale : Lost(id)

ShownOK(o) == /\ o.id # 0 => o.id \in IdsOf(Complete)
              /\ o.cmd = "cleanup" => \A id \in o.replaced : id <= lastId /\ id \notin IdsOf(webhooks)

\* A worker that was started since the switch has the present mode.
ModeOK == \A p \in Workers \ outdated : proc[p].live = mode

WebhookInv == /\ TablesOK /\ WebhooksOK /\ ModeOK
              /\ \A p \in Processes : LocalOK(proc[p])
              /\ \A p \in Operators : ShownOK(shown[p])

\* A delete request that arrives late has cut a replacement short.
ExplainedInv == BareIsExplained /\ (deleting # {} => explained)

OnceInv == \/ disturbed
           \/ /\ creating = 0
              /\ \A p, q \in Processes : Replacing(p) /\ Replacing(q) => p = q
              /\ \A p \in Processes : Replacing(p) => Complete = {}
              /\ \A v, w \in Complete : v = w

-----------------------------------------------------------------------------
\* What a step does to the webhooks.

Shrinks == \E id : /\ Lost(id) /\ lastId' = lastId
                   /\ webhooks' = {w \in webhooks : w.id # id}
Adds == Incomplete = {} /\ Register
Evolves == UNCHANGED <<webhooks, lastId>> \/ Shrinks \/ Adds

\* No complete webhook goes, none that is not complete comes, and ids are not used
\* again.
LEMMA EvolvesKeeps ==
    ASSUME TablesOK, WebhooksOK, Evolves
    PROVE  /\ webhooks' \subseteq Webhooks /\ lastId' \in 0 .. MaxId /\ lastId <= lastId'
           /\ Complete \subseteq Complete' /\ Incomplete' \subseteq Incomplete
           /\ \A w \in webhooks' : w \in webhooks \/ (w.id > lastId /\ w.complete)
           /\ \A w \in webhooks' : w.id <= lastId'
           /\ \A v, w \in webhooks' : v.id = w.id => v = w
           /\ \A w \in webhooks' : w.id > OldWebhooks => w.complete /\ Incomplete' = {}
           /\ NewSession => NewSession'
<1> USE OldAssumption
<1>0. webhooks \subseteq [id : Nat, complete : BOOLEAN] /\ lastId \in Nat /\ OldWebhooks \in Nat
      /\ MaxId \in Nat
  BY DEF TablesOK, Webhooks, Ids
<1>1. CASE UNCHANGED <<webhooks, lastId>>
  BY <1>0, <1>1 DEF TablesOK, WebhooksOK, Complete, Incomplete, NewSession
<1>2. CASE Shrinks
  <2>1. PICK id : /\ Lost(id) /\ lastId' = lastId
                  /\ webhooks' = {w \in webhooks : w.id # id}
    BY <1>2 DEF Shrinks
  <2>2. \A w \in webhooks : ~w.complete \/ w.id # id
    BY <2>1 DEF Lost, IdsOf, Complete
  <2>3. Complete' = Complete /\ Incomplete' \subseteq Incomplete /\ webhooks' \subseteq webhooks
    BY <2>1, <2>2 DEF Complete, Incomplete
  <2>4. \A w \in webhooks' : w.id > OldWebhooks => w.complete /\ Incomplete' = {}
    BY <2>3 DEF WebhooksOK
  <2> QED BY <1>0, <2>1, <2>3, <2>4 DEF TablesOK, WebhooksOK, NewSession
<1>3. CASE Adds
  <2>1. /\ lastId < MaxId /\ lastId' = lastId + 1 /\ Incomplete = {}
        /\ webhooks' = webhooks \cup {New}
        /\ New.id = lastId + 1 /\ New.complete = TRUE /\ New \in Webhooks
    BY <1>0, <1>3 DEF Adds, Register, New, Webhooks, Ids
  <2> HIDE DEF New
  <2>2. \A w \in webhooks : w.id <= lastId /\ w.id \in Nat
    BY <1>0 DEF WebhooksOK
  <2>3. Incomplete' = {}
    BY <2>1 DEF Incomplete
  <2>4. Complete \subseteq Complete'
    BY <2>1 DEF Complete
  <2>5. \A v, w \in webhooks' : v.id = w.id => v = w
    BY <1>0, <2>1, <2>2 DEF WebhooksOK
  <2>6. \A w \in webhooks' : w.id > OldWebhooks => w.complete
    BY <1>0, <2>1 DEF WebhooksOK
  <2>7. NewSession => NewSession'
    BY <1>0, <2>1 DEF NewSession, Complete, TablesOK
  <2> QED BY <1>0, <2>1, <2>2, <2>3, <2>4, <2>5, <2>6, <2>7 DEF TablesOK
<1> QED BY <1>1, <1>2, <1>3 DEF Evolves

\* What is lost stays lost, and what a process knows stays true.
LEMMA KnowledgeStays ==
    ASSUME TablesOK, WebhooksOK, Evolves
    PROVE  /\ \A id \in Ids : Lost(id) => Lost(id)'
           /\ \A q \in Locals : LocalOK(q) => LocalOK(q)'
           /\ \A o \in Outputs : ShownOK(o) => ShownOK(o)'
<1> USE EvolvesKeeps
<1>0. lastId \in Nat /\ lastId' \in Nat /\ Ids \subseteq Nat
  BY OldAssumption DEF TablesOK, Ids
<1>1. ASSUME NEW id \in Ids, Lost(id) PROVE Lost(id)'
  BY <1>0, <1>1 DEF Lost, IdsOf, Complete
<1>2. ASSUME NEW q \in Locals, LocalOK(q) PROVE LocalOK(q)'
  BY <1>1, <1>2 DEF LocalOK, Locals
<1>3. ASSUME NEW o \in Outputs, ShownOK(o) PROVE ShownOK(o)'
  <2>1. o.id # 0 => o.id \in IdsOf(Complete)'
    BY <1>3 DEF ShownOK, IdsOf
  <2>2. o.cmd = "cleanup" => \A id \in o.replaced : id <= lastId' /\ id \notin IdsOf(webhooks)'
    BY <1>0, <1>3 DEF ShownOK, IdsOf, Outputs
  <2> QED BY <2>1, <2>2 DEF ShownOK
<1> QED BY <1>1, <1>2, <1>3

-----------------------------------------------------------------------------
\* The invariant is kept by a step of a process that leaves it with true knowledge
\* and shows the truth.
LEMMA InvKept ==
    ASSUME WebhookInv, Evolves, Remember,
           creating' \in Nat, creating' > 0 => Incomplete' = {},
           deleting' \subseteq Ids, \A id \in deleting' : Lost(id),
           mode' \in BOOLEAN, outdated' \subseteq Workers,
           script' \in [at : {"idle", "recreate", "restore"}, previous : BOOLEAN],
           proc' \in [Processes -> Locals], (\A q \in Processes : LocalOK(proc[q]))',
           ModeOK',
           shown' \in [Operators -> Outputs], (\A o \in Operators : ShownOK(shown[o]))'
    PROVE  WebhookInv'
<1>1. TablesOK /\ WebhooksOK
  BY DEF WebhookInv
<1>2. TablesOK'
  BY <1>1, EvolvesKeeps, OldAssumption DEF TablesOK, Remember
<1>3. WebhooksOK'
  BY <1>1, EvolvesKeeps, KnowledgeStays DEF WebhooksOK
<1> QED BY <1>2, <1>3 DEF WebhookInv

LEMMA StepKeeps ==
    ASSUME WebhookInv, Evolves, Remember,
           NEW p \in Processes, NEW next \in Locals, Become(p, next), LocalOK(next)',
           creating' \in Nat, creating' > 0 => Incomplete' = {},
           deleting' \subseteq Ids, \A id \in deleting' : Lost(id),
           UNCHANGED <<mode, outdated, script>>,
           p \in Operators \/ next.live = proc[p].live,
           \/ UNCHANGED shown
           \/ \E o \in Outputs : p \in Operators /\ ShownOK(o)' /\ shown' = [shown EXCEPT ![p] = o]
    PROVE  WebhookInv'
<1>1. TablesOK /\ WebhooksOK /\ ModeOK
  BY DEF WebhookInv
<1>2. /\ proc' \in [Processes -> Locals] /\ proc'[p] = next
      /\ \A q \in Processes \ {p} : proc'[q] = proc[q]
  BY <1>1 DEF Become, TablesOK
<1>3. (\A q \in Processes : LocalOK(proc[q]))'
  <2> SUFFICES ASSUME NEW q \in Processes PROVE LocalOK(proc[q])'
    OBVIOUS
  <2> PICK x : x = proc'[q]
    OBVIOUS
  <2>1. x \in Locals /\ LocalOK(x)'
    BY <1>1, <1>2, KnowledgeStays DEF WebhookInv, TablesOK
  <2> QED BY <2>1 DEF LocalOK
<1>4. ModeOK'
  BY <1>1, <1>2, WebhookProcessesAssumption DEF ModeOK, Processes
<1>5. shown' \in [Operators -> Outputs]
  BY <1>1 DEF TablesOK
<1>6. (\A o \in Operators : ShownOK(shown[o]))'
  <2> SUFFICES ASSUME NEW o \in Operators PROVE ShownOK(shown[o])'
    OBVIOUS
  <2> PICK x : x = shown'[o]
    OBVIOUS
  <2>1. x \in Outputs /\ ShownOK(x)'
    BY <1>1, KnowledgeStays DEF WebhookInv, TablesOK
  <2> QED BY <2>1 DEF ShownOK
<1> QED BY <1>1, <1>2, <1>3, <1>4, <1>5, <1>6, InvKept DEF TablesOK

\* A step that leaves the provider, and what is printed, alone.
LEMMA QuietKeeps ==
    ASSUME WebhookInv, Remember, UNCHANGED provider, NEW p \in Processes, NEW next \in Locals,
           Become(p, next), LocalOK(next), UNCHANGED <<mode, outdated, script, shown>>,
           p \in Operators \/ next.live = proc[p].live
    PROVE  WebhookInv'
<1>1. Evolves /\ UNCHANGED <<webhooks, lastId, creating, deleting>>
  BY DEF Evolves, provider
<1>2. LocalOK(next)' /\ Incomplete' = Incomplete
  BY <1>1 DEF LocalOK, Lost, NewSession, Incomplete, IdsOf, Complete
<1> QED BY <1>1, <1>2, StepKeeps DEF WebhookInv, TablesOK, WebhooksOK

-----------------------------------------------------------------------------
\* The steps.

LEMMA Known == ASSUME WebhookInv, NEW p \in Processes
    PROVE TablesOK /\ WebhooksOK /\ proc[p] \in Locals /\ LocalOK(proc[p])
BY DEF WebhookInv, TablesOK

\* A process that has ended, or polls, knows nothing.
LEMMA Ended ==
    ASSUME WebhookInv, NEW p \in Processes, NEW label \in {"idle", "polling", "ensure"}
    PROVE  \E next \in Locals :
              /\ next = Anew(p, label)
              /\ next.cmd = "none" /\ next.at = label /\ next.stale = {} /\ next.todo = {}
              /\ label # "ensure" => LocalOK(next) /\ LocalOK(next)'
              /\ p \in Operators \/ next.live = proc[p].live
<1>1. PICK b \in BOOLEAN : b = (p \in Workers /\ proc[p].live)
  OBVIOUS
<1>2. PICK next : next = [cmd |-> "none", at |-> label, live |-> b,
                          stale |-> {}, todo |-> {}, created |-> 0]
  OBVIOUS
<1>3. next = Anew(p, label)
  <2>1. Anew(p, label) = [Nothing EXCEPT !.at = label, !.live = b]
    BY <1>1, Zenon DEF Anew
  <2> QED BY <1>2, <2>1 DEF Nothing
<1>4. next \in Locals
  BY <1>1, <1>2, OldAssumption DEF Locals, Commands, Labels
<1>5. p \in Workers => next.live = proc[p].live
  BY <1>1, <1>2, Known DEF Locals
<1>6. label # "ensure" => LocalOK(next) /\ LocalOK(next)'
  BY <1>2 DEF LocalOK
<1> QED BY <1>2, <1>3, <1>4, <1>5, <1>6 DEF Processes

\* A command or the worker gives up.
LEMMA QuitKeeps ==
    ASSUME WebhookInv, Remember, NEW p \in Processes, Quit(p), UNCHANGED <<mode, outdated, script>>,
           UNCHANGED provider
    PROVE  WebhookInv'
<1>1. PICK label \in {"idle", "polling"} : Become(p, Anew(p, label)) /\ UNCHANGED shown
  BY DEF Quit, Leave
<1>2. PICK next \in Locals : next = Anew(p, label) /\ LocalOK(next)
                             /\ (p \in Operators \/ next.live = proc[p].live)
  BY Ended
<1> QED BY <1>1, <1>2, QuietKeeps

LEMMA UnderWayOK ==
    ASSUME WebhookInv, NEW p \in Processes, UnderWay(p)
    PROVE  /\ Evolves /\ UNCHANGED <<webhooks, lastId>>
           /\ creating' \in Nat /\ (creating' > 0 => Incomplete' = {})
           /\ deleting' \subseteq Ids /\ \A id \in deleting' : Lost(id)
<1>1. UNCHANGED <<webhooks, lastId>> /\ Incomplete' = Incomplete
  BY DEF UnderWay, provider, Incomplete
<1>2. creating' \in Nat /\ (creating' > 0 => Incomplete = {})
  BY Known DEF UnderWay, provider, TablesOK, WebhooksOK, LocalOK
<1>3. deleting' \subseteq Ids /\ \A id \in deleting' : Lost(id)
  BY Known DEF UnderWay, provider, TablesOK, WebhooksOK, LocalOK, Locals
<1> QED BY <1>1, <1>2, <1>3 DEF Evolves

LEMMA StartKeeps ==
    ASSUME WebhookInv, Remember,
           \/ \E p \in Operators, cmd \in {"setup", "cleanup"} : StartCommand(p, cmd)
           \/ \E p \in Workers : StartWorker(p)
    PROVE  WebhookInv'
<1>1. ASSUME NEW p \in Operators, NEW cmd \in {"setup", "cleanup"}, StartCommand(p, cmd)
      PROVE  WebhookInv'
  <2>1. mode \in BOOLEAN
    BY DEF WebhookInv, TablesOK
  <2>2. PICK start : start = Nothing
    OBVIOUS
  <2>3. start \in Locals /\ start.todo = {}
    BY <2>2, OldAssumption DEF Nothing, Locals, Commands, Labels
  <2>4. PICK next : next = [start EXCEPT !.cmd = cmd, !.at = "inspect", !.live = mode]
    OBVIOUS
  <2>5. PICK o : o = NoOutput
    OBVIOUS
  <2>6. p \in Processes /\ Become(p, next) /\ shown' = [shown EXCEPT ![p] = o]
        /\ UNCHANGED <<webhooks, lastId, creating, deleting, mode, outdated, script>>
    BY <1>1, <2>2, <2>4, <2>5 DEF StartCommand, Processes, provider, Calm, deployment
  <2>7. next \in Locals /\ LocalOK(next)'
    BY <2>1, <2>3, <2>4 DEF Locals, Commands, Labels, LocalOK
  <2>8. o \in Outputs /\ ShownOK(o)'
    BY <2>5, OldAssumption DEF NoOutput, Outputs, Commands, ShownOK
  <2>9. Evolves /\ Incomplete' = Incomplete
    BY <2>6 DEF Evolves, Incomplete
  <2> QED BY <2>6, <2>7, <2>8, <2>9, StepKeeps DEF WebhookInv, TablesOK, WebhooksOK
<1>2. ASSUME NEW p \in Workers, StartWorker(p) PROVE WebhookInv'
  <2>1. p \in Processes
    BY DEF Processes
  <2>2. PICK label \in {"polling", "ensure"} : label = IF Live(p) THEN "ensure" ELSE "polling"
    OBVIOUS
  <2>3. PICK base \in Locals : /\ base = Anew(p, label) /\ base.at = label
                               /\ base.stale = {} /\ base.todo = {}
                               /\ (p \in Operators \/ base.live = proc[p].live)
    BY <2>1, Ended
  <2>4. PICK next : next = [base EXCEPT !.cmd = "preflight"]
    OBVIOUS
  <2>5. next \in Locals /\ LocalOK(next) /\ next.live = base.live
    BY <2>3, <2>4 DEF Locals, Commands, LocalOK
  <2>6. Become(p, next) /\ UNCHANGED <<mode, outdated, script, shown>> /\ UNCHANGED provider
    BY <1>2, <2>2, <2>3, <2>4 DEF StartWorker, Calm, deployment
  <2> QED BY <2>1, <2>3, <2>5, <2>6, QuietKeeps
<1> QED BY <1>1, <1>2

\* What an operator's command, or the worker, prints at its end.
LEMMA OutputKeeps ==
    ASSUME WebhookInv, Remember, NEW p \in Processes, NEW id \in IdsOf(Complete),
           NEW gone, gone \subseteq Ids,
           Output(p, id, gone), UNCHANGED provider, Calm,
           proc[p].cmd = "cleanup" =>
              \A old \in gone : old <= lastId /\ old \notin IdsOf(webhooks)
    PROVE  WebhookInv'
<1>0. proc[p] \in Locals /\ WebhooksOK /\ TablesOK
  BY Known
<1>1. UNCHANGED <<webhooks, lastId, creating, deleting, mode, outdated, script>>
  BY DEF provider, Calm, deployment
<1>2. Evolves /\ Incomplete' = Incomplete /\ id \in IdsOf(Complete)'
  BY <1>1 DEF Evolves, Incomplete, IdsOf, Complete
<1>3. PICK label \in {"idle", "polling"} : Become(p, Anew(p, label))
  BY DEF Output, Leave
<1>4. PICK next \in Locals : next = Anew(p, label) /\ LocalOK(next)'
                             /\ (p \in Operators \/ next.live = proc[p].live)
  BY Ended
<1>5. PICK o : o = [cmd |-> proc[p].cmd, id |-> id, replaced |-> gone]
  OBVIOUS
<1>6. id \in 0 .. MaxId
  BY <1>0, OldAssumption DEF TablesOK, Webhooks, IdsOf, Complete, Ids
<1>7. o \in Outputs /\ ShownOK(o)'
  BY <1>0, <1>1, <1>2, <1>5, <1>6 DEF Outputs, ShownOK, Locals, IdsOf
<1>8. UNCHANGED shown \/ (p \in Operators /\ shown' = [shown EXCEPT ![p] = o])
  BY <1>5 DEF Output, Processes
<1> QED BY <1>0, <1>1, <1>2, <1>3, <1>4, <1>7, <1>8, StepKeeps DEF TablesOK, WebhooksOK

LEMMA InspectKeeps ==
    ASSUME WebhookInv, Remember, NEW p \in Operators, Inspect(p) PROVE WebhookInv'
<1>0. p \in Processes /\ proc[p] \in Locals /\ LocalOK(proc[p]) /\ WebhooksOK /\ TablesOK
  BY Known DEF Processes
<1>1. ASSUME NEW active \in 0 .. MaxId, Note(p, active), UNCHANGED provider, Calm,
             active = 0 => Complete = {}, proc[p].cmd = "cleanup" => active = 0,
             proc[p].at = "inspect"
      PROVE  WebhookInv'
  <2>1. PICK next : next = [proc[p] EXCEPT !.at = "ensure", !.stale = IdsOf(webhooks) \ {active}]
    OBVIOUS
  <2>2. IdsOf(webhooks) \subseteq Ids
    BY <1>0 DEF TablesOK, Webhooks, IdsOf
  <2>3. next \in Locals /\ next.live = proc[p].live
    BY <1>0, <2>1, <2>2 DEF Locals, Labels
  <2>4. LocalOK(next)
    BY <1>0, <1>1, <2>1 DEF LocalOK, Locals, NewSession, Lost, IdsOf, WebhooksOK
  <2> QED BY <1>0, <1>1, <2>1, <2>3, <2>4, QuietKeeps DEF Note, Calm, deployment
<1>2. ASSUME NEW w \in Complete, Output(p, w.id, {}), UNCHANGED provider, Calm
      PROVE  WebhookInv'
  <2>1. w.id \in IdsOf(Complete)
    BY DEF IdsOf
  <2> QED BY <1>0, <1>2, <2>1, OutputKeeps
<1>3. Active(webhooks) = Complete
  BY DEF Active, Complete
<1>4. \A w \in Complete : w.id \in 0 .. MaxId /\ w.id # 0
  BY <1>0, OldAssumption DEF TablesOK, Webhooks, Ids, Complete
<1> QED BY <1>1, <1>2, <1>3, <1>4, OldAssumption DEF Inspect, Found

LEMMA EnsureKeeps ==
    ASSUME WebhookInv, Remember, NEW p \in Processes, NotLive(p) \/ Ensure(p) PROVE WebhookInv'
<1>0. proc[p] \in Locals /\ LocalOK(proc[p]) /\ WebhooksOK /\ TablesOK
  BY Known
<1>1. CASE NotLive(p)
  BY <1>1, QuitKeeps DEF NotLive, Calm, deployment
<1>2. ASSUME NEW w \in Active(webhooks), Output(p, w.id, proc[p].stale), UNCHANGED provider, Calm,
             proc[p].at = "ensure"
      PROVE  WebhookInv'
  <2>1. w.id \in IdsOf(Complete) /\ proc[p].stale \subseteq Ids /\ w \in Complete
    BY <1>0, <1>2 DEF IdsOf, Active, Complete, Locals
  <2>2. ASSUME proc[p].cmd = "cleanup", NEW old \in proc[p].stale
        PROVE  old <= lastId /\ old \notin IdsOf(webhooks)
    <3>1. NewSession /\ Lost(old)
      BY <1>0, <1>2, <2>2 DEF LocalOK
    <3>2. Incomplete = {}
      BY <1>0, <2>1, <3>1 DEF WebhooksOK, NewSession, Complete
    <3> QED BY <3>1, <3>2 DEF Lost, IdsOf, Incomplete, Complete
  <2> QED BY <1>2, <2>1, <2>2, OutputKeeps
<1>3. ASSUME Active(webhooks) = {}, Replace(p), UNCHANGED provider, Calm,
             proc[p].at = "ensure", Live(p)
      PROVE  WebhookInv'
  <2>1. PICK next : next = [proc[p] EXCEPT !.todo = IdsOf(webhooks),
                                           !.at = IF webhooks = {} THEN "create" ELSE "delete"]
    OBVIOUS
  <2>2. IdsOf(webhooks) \subseteq Ids /\ (webhooks # {} => IdsOf(webhooks) # {})
        /\ \A w \in webhooks : w.id \in IdsOf(webhooks)
    BY <1>0 DEF TablesOK, Webhooks, IdsOf
  <2>3. next \in Locals /\ next.live = proc[p].live
    BY <1>0, <2>1, <2>2 DEF Locals, Labels
  <2>4. Complete = {} /\ Incomplete \subseteq webhooks
    BY <1>3 DEF Active, Complete, Incomplete
  <2>5. \A id \in IdsOf(webhooks) : Lost(id)
    BY <1>0, <2>4 DEF WebhooksOK, Lost, IdsOf
  <2>6. next.live
    BY <1>3, <2>3 DEF Live
  <2>7. LocalOK(next)
    BY <1>0, <1>3, <2>1, <2>2, <2>4, <2>5, <2>6 DEF LocalOK, Locals
  <2> QED BY <1>0, <1>3, <2>1, <2>3, <2>7, QuietKeeps DEF Replace, Calm, deployment
<1> QED BY <1>1, <1>2, <1>3 DEF Ensure

LEMMA DeleteKeeps ==
    ASSUME WebhookInv, Remember, NEW p \in Processes, Delete(p) PROVE WebhookInv'
<1>0. proc[p] \in Locals /\ LocalOK(proc[p]) /\ WebhooksOK /\ TablesOK
  BY Known
<1>1. PICK id \in proc[p].todo :
          IF id \in IdsOf(webhooks)
          THEN /\ webhooks' = {w \in webhooks : w.id # id}
               /\ Become(p, [proc[p] EXCEPT !.todo = @ \ {id},
                                            !.at = IF proc[p].todo = {id} THEN "create" ELSE "delete"])
               /\ UNCHANGED <<lastId, creating, deleting, shown>>
          ELSE Quit(p) /\ UNCHANGED provider
  BY DEF Delete
<1>2. proc[p].at = "delete" /\ UNCHANGED <<mode, outdated, script>>
  BY DEF Delete, Calm, deployment
<1>3. CASE id \notin IdsOf(webhooks)
  BY <1>1, <1>2, <1>3, QuitKeeps
<1>4. CASE id \in IdsOf(webhooks)
  <2>1. PICK next : next = [proc[p] EXCEPT !.todo = @ \ {id},
                                           !.at = IF proc[p].todo = {id} THEN "create" ELSE "delete"]
    OBVIOUS
  <2>2. Become(p, next) /\ UNCHANGED <<lastId, creating, deleting, shown>>
        /\ webhooks' = {w \in webhooks : w.id # id}
    BY <1>1, <1>4, <2>1
  <2>3. next \in Locals /\ next.live = proc[p].live
    BY <1>0, <2>1 DEF Locals, Labels
  <2>4. Lost(id) /\ Evolves
    BY <1>0, <2>2 DEF LocalOK, Evolves, Shrinks
  <2>5. Incomplete' = {w \in Incomplete : w.id # id}
    BY <2>2 DEF Incomplete
  <2>6. Complete' = Complete
    BY <2>2, <2>4 DEF Complete, Lost, IdsOf
  <2>7. \A old \in Ids : Lost(old) => Lost(old)'
    BY <1>0, <2>4, KnowledgeStays
  <2>8. NewSession => NewSession'
    BY <2>6 DEF NewSession
  <2>9. LocalOK(next)'
    BY <1>0, <1>2, <2>1, <2>5, <2>7, <2>8 DEF LocalOK, Locals
  <2> QED BY <1>0, <1>2, <2>2, <2>3, <2>4, <2>5, <2>9, StepKeeps DEF TablesOK, WebhooksOK
<1> QED BY <1>3, <1>4

LEMMA CreateKeeps ==
    ASSUME WebhookInv, Remember, NEW p \in Processes, Create(p) PROVE WebhookInv'
<1>0. proc[p] \in Locals /\ LocalOK(proc[p]) /\ WebhooksOK /\ TablesOK
  BY Known
<1>1. proc[p].at = "create" /\ Incomplete = {} /\ Evolves
  BY <1>0 DEF Create, LocalOK, Evolves, Adds
<1>2. PICK next : next = [proc[p] EXCEPT !.at = "confirm", !.created = lastId + 1]
  OBVIOUS
<1>3. Become(p, next) /\ UNCHANGED <<creating, deleting, shown, mode, outdated, script>>
  BY <1>2 DEF Create, Calm, deployment
<1>4. lastId + 1 \in 0 .. MaxId
  BY <1>0, OldAssumption DEF TablesOK, Create, Register
<1>5. next \in Locals /\ next.live = proc[p].live
  BY <1>0, <1>2, <1>4 DEF Locals, Labels
<1>6. Incomplete' = {} /\ (NewSession => NewSession')
      /\ \A old \in Ids : Lost(old) => Lost(old)'
  BY <1>0, <1>1, EvolvesKeeps, KnowledgeStays
<1>7. LocalOK(next)'
  BY <1>0, <1>1, <1>2, <1>6 DEF LocalOK, Locals
<1> QED BY <1>0, <1>1, <1>3, <1>5, <1>6, <1>7, StepKeeps DEF TablesOK, WebhooksOK

LEMMA ConfirmKeeps ==
    ASSUME WebhookInv, Remember, NEW p \in Processes, Confirm(p) PROVE WebhookInv'
<1>0. proc[p] \in Locals /\ LocalOK(proc[p]) /\ WebhooksOK /\ TablesOK
  BY Known
<1>1. CASE Quit(p)
  BY <1>1, QuitKeeps DEF Confirm, Calm, deployment
<1>2. ASSUME NEW w \in Active(webhooks), Output(p, w.id, proc[p].stale) PROVE WebhookInv'
  <2>1. w.id \in IdsOf(Complete) /\ proc[p].stale \subseteq Ids
    BY <1>0, <1>2 DEF IdsOf, Active, Complete, Locals
  <2>2. Incomplete = {} /\ proc[p].at = "confirm"
    BY <1>0 DEF Confirm, LocalOK
  <2>3. proc[p].cmd = "cleanup" =>
            \A old \in proc[p].stale : old <= lastId /\ old \notin IdsOf(webhooks)
    BY <1>0, <2>2 DEF LocalOK, Lost, IdsOf, Incomplete, Complete
  <2>4. UNCHANGED provider /\ Calm
    BY DEF Confirm
  <2> QED BY <1>2, <2>1, <2>3, <2>4, OutputKeeps
<1> QED BY <1>1, <1>2 DEF Confirm

\* A process that ends while its request is under way.
LEMMA AbandonKeeps ==
    ASSUME WebhookInv, Remember, NEW p \in Processes, NEW label \in {"idle", "polling"},
           Become(p, Anew(p, label)), UNCHANGED <<mode, outdated, script, shown>>,
           UnderWay(p) \/ (proc[p].at = "create" /\ Register /\ UNCHANGED <<creating, deleting>>)
    PROVE  WebhookInv'
<1>0. proc[p] \in Locals /\ LocalOK(proc[p]) /\ WebhooksOK /\ TablesOK
  BY Known
<1>1. PICK next \in Locals : next = Anew(p, label) /\ LocalOK(next)'
                             /\ (p \in Operators \/ next.live = proc[p].live)
  BY Ended
<1>2. CASE UnderWay(p)
  BY <1>1, <1>2, UnderWayOK, StepKeeps
<1>3. CASE proc[p].at = "create" /\ Register /\ UNCHANGED <<creating, deleting>>
  <2>1. Evolves
    BY <1>0, <1>3 DEF LocalOK, Evolves, Adds
  <2>2. Incomplete' = {}
    BY <1>0, <1>3, <2>1, EvolvesKeeps DEF LocalOK
  <2> QED BY <1>0, <1>1, <1>3, <2>1, <2>2, StepKeeps DEF TablesOK, WebhooksOK
<1> QED BY <1>2, <1>3

LEMMA FaultKeeps ==
    ASSUME WebhookInv, Remember, NEW p \in Processes, Fault(p) \/ Kill(p) PROVE WebhookInv'
<1>1. CASE Fault(p)
  BY <1>1, AbandonKeeps DEF Fault, Quit, Leave, deployment
<1>2. CASE Kill(p)
  BY <1>2, AbandonKeeps DEF Kill, deployment
<1> QED BY <1>1, <1>2

LEMMA ArrivalKeeps ==
    ASSUME WebhookInv, Remember, ArriveCreate \/ \E id \in deleting : ArriveDelete(id)
    PROVE  WebhookInv'
<1>0. WebhooksOK /\ TablesOK
  BY DEF WebhookInv
<1>1. UNCHANGED <<mode, outdated, script, proc, shown>>
  BY DEF ArriveCreate, ArriveDelete, Calm, deployment
<1>2. /\ Evolves /\ creating' \in Nat /\ (creating' > 0 => Incomplete' = {})
      /\ deleting' \subseteq Ids /\ \A id \in deleting' : Lost(id)
  <2>1. CASE ArriveCreate
    <3>1. Incomplete = {} /\ Evolves /\ creating' \in Nat
      BY <1>0, <2>1 DEF ArriveCreate, Evolves, Adds, WebhooksOK, TablesOK
    <3>2. Incomplete' = {}
      BY <1>0, <3>1, EvolvesKeeps
    <3> QED BY <1>0, <2>1, <3>1, <3>2 DEF ArriveCreate, WebhooksOK, TablesOK
  <2>2. ASSUME NEW id \in deleting, ArriveDelete(id)
        PROVE  /\ Evolves /\ creating' = creating /\ Incomplete' \subseteq Incomplete
               /\ deleting' \subseteq deleting
    BY <1>0, <2>2 DEF ArriveDelete, Evolves, Shrinks, WebhooksOK, Incomplete
  <2> QED BY <1>0, <2>1, <2>2 DEF WebhooksOK, TablesOK
<1>3. (\A q \in Processes : LocalOK(proc[q]))'
  <2> SUFFICES ASSUME NEW q \in Processes PROVE LocalOK(proc[q])'
    OBVIOUS
  <2> PICK x : x = proc'[q]
    OBVIOUS
  <2>1. x \in Locals /\ LocalOK(x)'
    BY <1>0, <1>1, <1>2, KnowledgeStays DEF WebhookInv, TablesOK
  <2> QED BY <2>1 DEF LocalOK
<1>4. (\A o \in Operators : ShownOK(shown[o]))'
  <2> SUFFICES ASSUME NEW o \in Operators PROVE ShownOK(shown[o])'
    OBVIOUS
  <2> PICK x : x = shown'[o]
    OBVIOUS
  <2>1. x \in Outputs /\ ShownOK(x)'
    BY <1>0, <1>1, <1>2, KnowledgeStays DEF WebhookInv, TablesOK
  <2> QED BY <2>1 DEF ShownOK
<1>5. ModeOK'
  BY <1>1 DEF WebhookInv, ModeOK
<1> QED BY <1>0, <1>1, <1>2, <1>3, <1>4, <1>5, InvKept DEF TablesOK

LEMMA SwitchKeeps ==
    ASSUME WebhookInv, Remember,
           RecreateFails \/ \E value \in BOOLEAN : SwitchMode(value)
    PROVE  WebhookInv'
<1>0. WebhooksOK /\ TablesOK /\ ModeOK
  BY DEF WebhookInv
<1>1. UNCHANGED <<webhooks, lastId, creating, deleting, proc, shown>> /\ Incomplete' = Incomplete
  BY DEF RecreateFails, SwitchMode, provider, Incomplete
<1>2. /\ mode' \in BOOLEAN /\ outdated' \subseteq Workers
      /\ script' \in [at : {"idle", "recreate", "restore"}, previous : BOOLEAN]
      /\ outdated' = Workers \/ (mode' = mode /\ outdated' = outdated)
  BY <1>0 DEF RecreateFails, SwitchMode, TablesOK
<1>3. ModeOK'
  BY <1>0, <1>1, <1>2 DEF ModeOK
<1>4. (\A q \in Processes : LocalOK(proc[q]))' /\ (\A o \in Operators : ShownOK(shown[o]))'
  BY <1>1 DEF WebhookInv, LocalOK, ShownOK, Lost, NewSession, Incomplete, Complete, IdsOf
<1> QED BY <1>0, <1>1, <1>2, <1>3, <1>4, InvKept DEF TablesOK, WebhooksOK, Evolves

LEMMA RecreateKeeps ==
    ASSUME WebhookInv, Remember, NEW p \in Workers, Recreate(p) PROVE WebhookInv'
<1>0. p \in Processes /\ WebhooksOK /\ TablesOK /\ ModeOK
  BY DEF WebhookInv, Processes
<1>1. PICK start : start = Nothing
  OBVIOUS
<1>2. start \in Locals /\ start.todo = {} /\ start.at = "idle"
  BY <1>1, OldAssumption DEF Nothing, Locals, Commands, Labels
<1>3. PICK next : next = [start EXCEPT !.live = mode]
  OBVIOUS
<1>4. next \in Locals /\ LocalOK(next)' /\ next.live = mode
  BY <1>0, <1>2, <1>3 DEF Locals, LocalOK, TablesOK
<1>5. /\ Become(p, next) /\ UNCHANGED <<shown, mode>> /\ outdated' = outdated \ {p}
      /\ script' \in [at : {"idle", "recreate", "restore"}, previous : BOOLEAN]
  BY <1>0, <1>1, <1>3 DEF Recreate, TablesOK
<1>6. /\ Evolves /\ creating' \in Nat /\ (creating' > 0 => Incomplete' = {})
      /\ deleting' \subseteq Ids /\ \A id \in deleting' : Lost(id)
  BY <1>0, UnderWayOK DEF Recreate
<1>7. /\ proc' \in [Processes -> Locals] /\ proc'[p] = next
      /\ \A q \in Processes \ {p} : proc'[q] = proc[q]
  BY <1>0, <1>4, <1>5 DEF Become, TablesOK
<1>8. (\A q \in Processes : LocalOK(proc[q]))'
  <2> SUFFICES ASSUME NEW q \in Processes PROVE LocalOK(proc[q])'
    OBVIOUS
  <2> PICK x : x = proc'[q]
    OBVIOUS
  <2>1. x \in Locals /\ LocalOK(x)'
    BY <1>0, <1>4, <1>6, <1>7, KnowledgeStays DEF WebhookInv, TablesOK
  <2> QED BY <2>1 DEF LocalOK
<1>9. (\A o \in Operators : ShownOK(shown[o]))'
  <2> SUFFICES ASSUME NEW o \in Operators PROVE ShownOK(shown[o])'
    OBVIOUS
  <2> PICK x : x = shown'[o]
    OBVIOUS
  <2>1. x \in Outputs /\ ShownOK(x)'
    BY <1>0, <1>5, <1>6, KnowledgeStays DEF WebhookInv, TablesOK
  <2> QED BY <2>1 DEF ShownOK
<1>10. ModeOK'
  BY <1>0, <1>4, <1>5, <1>7 DEF ModeOK, Processes
<1> QED BY <1>0, <1>5, <1>6, <1>7, <1>8, <1>9, <1>10, InvKept DEF TablesOK

-----------------------------------------------------------------------------
LEMMA InitOK == ASSUME Init PROVE WebhookInv
<1>0. OldWebhooks \in Nat /\ MaxId \in Nat /\ OldWebhooks <= MaxId
  BY OldAssumption
<1>1. PICK start : start = Nothing
  OBVIOUS
<1>2. start \in Locals /\ start.todo = {} /\ start.at = "idle"
  BY <1>1, OldAssumption DEF Nothing, Locals, Commands, Labels
<1>3. mode \in BOOLEAN /\ outdated = {}
  BY DEF Init
<1>4. \A q \in Processes : /\ proc[q] = [start EXCEPT !.live = q \in Workers /\ mode]
                           /\ proc[q] \in Locals /\ LocalOK(proc[q])
                           /\ q \in Workers => proc[q].live = mode
  <2> SUFFICES ASSUME NEW q \in Processes
               PROVE  /\ proc[q] = [start EXCEPT !.live = q \in Workers /\ mode]
                      /\ proc[q] \in Locals /\ LocalOK(proc[q])
                      /\ q \in Workers => proc[q].live = mode
    OBVIOUS
  <2>1. proc[q] = [start EXCEPT !.live = q \in Workers /\ mode]
    BY <1>1 DEF Init
  <2>2. PICK b \in BOOLEAN : b = (q \in Workers /\ mode)
    OBVIOUS
  <2>3. proc[q] = [start EXCEPT !.live = b]
    BY <2>1, <2>2, Zenon
  <2>4. q \in Workers => b = mode
    BY <1>3, <2>2
  <2> QED BY <1>2, <2>1, <2>3, <2>4 DEF Locals, LocalOK
<1>5. proc \in [Processes -> Locals] /\ ModeOK
  <2>1. proc = [q \in Processes |-> proc[q]]
    BY DEF Init
  <2> QED BY <1>4, <2>1 DEF ModeOK, Processes
<1>6. PICK o : o = NoOutput
  OBVIOUS
<1>7. o \in Outputs /\ ShownOK(o) /\ shown = [q \in Operators |-> o]
  BY <1>6, OldAssumption DEF NoOutput, Outputs, Commands, ShownOK, Init
<1>8. webhooks \subseteq [id : 1 .. OldWebhooks, complete : BOOLEAN]
  BY DEF Init
<1>9. explained \in BOOLEAN /\ disturbed \in BOOLEAN
  BY DEF Init
<1>10. TablesOK
  BY <1>0, <1>3, <1>5, <1>7, <1>8, <1>9 DEF Init, TablesOK, Webhooks, Ids
<1>11. WebhooksOK
  BY <1>0, <1>8 DEF Init, WebhooksOK
<1> QED BY <1>4, <1>5, <1>7, <1>10, <1>11 DEF WebhookInv

LEMMA NextKeeps == ASSUME WebhookInv, Next PROVE WebhookInv'
<1> Remember
  BY DEF Next
<1>1. ASSUME NEW p \in Processes, EnsureWebhook(p) PROVE WebhookInv'
  BY <1>1, EnsureKeeps, DeleteKeeps, CreateKeeps, ConfirmKeeps DEF EnsureWebhook
<1>2. ASSUME NEW p \in Workers, StartWorker(p) \/ Recreate(p) PROVE WebhookInv'
  BY <1>2, StartKeeps, RecreateKeeps
<1> QED BY <1>1, <1>2, StartKeeps, InspectKeeps, FaultKeeps, ArrivalKeeps, SwitchKeeps DEF Next, Step

LEMMA StutterKeeps == ASSUME WebhookInv, UNCHANGED vars PROVE WebhookInv'
<1>1. (\A q \in Processes : LocalOK(proc[q]))' /\ (\A o \in Operators : ShownOK(shown[o]))'
  BY DEF WebhookInv, vars, LocalOK, ShownOK, Lost, NewSession, Incomplete, Complete, IdsOf
<1> QED BY <1>1 DEF vars, WebhookInv, TablesOK, WebhooksOK, ModeOK, Lost, Incomplete, Complete, IdsOf

\* What the processes know of the provider is true, whoever changed it since.
THEOREM WebhookInvHolds == Spec => []WebhookInv
<1>1. WebhookInv /\ [Next]_vars => WebhookInv'
  BY NextKeeps, StutterKeeps
<1> QED BY <1>1, InitOK, PTL DEF Spec

\* The type invariant of WebhookSetup.
THEOREM WebhookTypeCorrect == Spec => []WebhookTypeOK
<1>1. WebhookInv => WebhookTypeOK
  <2> SUFFICES ASSUME WebhookInv PROVE WebhookTypeOK
    OBVIOUS
  <2>1. \A p \in Processes : /\ proc[p].stale \subseteq Ids /\ proc[p].todo \subseteq Ids
                             /\ proc[p].at = "delete" => proc[p].todo # {}
                             /\ Replacing(p) => proc[p].live
    BY Known DEF Locals, LocalOK, Replacing
  <2> QED BY <2>1 DEF WebhookInv, TablesOK, WebhooksOK, WebhookTypeOK
<1> QED BY <1>1, WebhookInvHolds, PTL

\* The result of setup-webhook and of cleanup-webhooks is true, and stays so
\* (provider_setup_webhook, provider_cleanup_webhooks).
THEOREM PrintedIsTrue == Spec => []OutputIsTrue
<1>1. WebhookInv => OutputIsTrue
  BY DEF WebhookInv, ShownOK, OutputIsTrue
<1> QED BY <1>1, WebhookInvHolds, PTL

\* live-mode.sh disable stops what the workers do to webhooks.
THEOREM EmergencyStop == Spec => []DisabledStops
<1>1. WebhookInv => DisabledStops
  BY DEF WebhookInv, ModeOK, LocalOK, DisabledStops, Replacing, Processes
<1> QED BY <1>1, WebhookInvHolds, PTL

-----------------------------------------------------------------------------
\* A step seen from the replacements: it is one of the provider or of live-mode.sh
\* alone, or moves one process, which begins, goes on with, or ends a replacement.

Same == UNCHANGED <<webhooks, lastId>>

Moves(q, label) == /\ proc'[q].at = label
                   /\ \A r \in Processes \ {q} : proc'[r] = proc[r]

Outside == /\ UNCHANGED proc /\ deleting' \subseteq deleting
           /\ Same \/ (deleting # {} /\ Shrinks) \/ (creating > 0 /\ Adds)
Begins(q, label) == /\ label \in {"delete", "create"} /\ Same /\ deleting' = deleting
                    /\ Complete = {}
Deletes(q, label) == /\ label \in {"delete", "create"} /\ proc[q].at = "delete"
                     /\ Shrinks /\ deleting' = deleting
Creates(q, label) == /\ label = "confirm" /\ proc[q].at = "create"
                     /\ Adds /\ deleting' = deleting
Ends(q, label) == /\ label \notin {"delete", "create", "confirm"}
                  /\ Same \/ (proc[q].at = "create" /\ Adds)
                  /\ deleting' \subseteq deleting \/ proc[q].at = "delete"

LEMMA BecomeMoves ==
    ASSUME WebhookInv, NEW p \in Processes, NEW next, Become(p, next)
    PROVE  Moves(p, next.at)
BY Known DEF WebhookInv, TablesOK, Become, Moves

LEMMA LeaveMoves ==
    ASSUME WebhookInv, NEW p \in Processes, Leave(p)
    PROVE  \E label \in {"idle", "polling"} : Moves(p, label)
<1>1. PICK label \in {"idle", "polling"} : Become(p, Anew(p, label))
  BY DEF Leave
<1>2. PICK next \in Locals : next = Anew(p, label) /\ next.at = label
  BY Ended
<1> QED BY <1>1, <1>2, BecomeMoves

LEMMA SameProvider == ASSUME UNCHANGED provider PROVE Same /\ deleting' = deleting
BY DEF provider, Same

LEMMA EnsureShape ==
    ASSUME WebhookInv, NEW p \in Processes, EnsureWebhook(p)
    PROVE  \E label \in Labels : Moves(p, label) /\ \/ Begins(p, label) \/ Deletes(p, label)
                                                    \/ Creates(p, label) \/ Ends(p, label)
<1>0. proc[p] \in Locals /\ LocalOK(proc[p]) /\ TablesOK /\ WebhooksOK
  BY Known
<1>1. ASSUME Leave(p), UNCHANGED provider
      PROVE  \E label \in Labels : Moves(p, label) /\ Ends(p, label)
  BY <1>1, LeaveMoves, SameProvider DEF Ends, Labels
<1>2. CASE NotLive(p) \/ Confirm(p)
  BY <1>1, <1>2 DEF NotLive, Confirm, Output, Quit
<1>3. CASE Ensure(p)
  <2>1. CASE Leave(p)
    BY <1>1, <1>3, <2>1 DEF Ensure
  <2>2. CASE Active(webhooks) = {} /\ Replace(p)
    <3>1. PICK next : next = [proc[p] EXCEPT !.todo = IdsOf(webhooks),
                                             !.at = IF webhooks = {} THEN "create" ELSE "delete"]
      OBVIOUS
    <3>2. Moves(p, next.at)
      BY <2>2, <3>1, BecomeMoves DEF Replace
    <3>3. next.at \in {"delete", "create"}
      BY <1>0, <3>1 DEF Locals
    <3>4. Begins(p, next.at)
      BY <1>3, <2>2, <3>3, SameProvider DEF Begins, Ensure, Active, Complete
    <3> QED BY <3>2, <3>3, <3>4 DEF Labels
  <2> QED BY <1>3, <2>1, <2>2 DEF Ensure, Output
<1>4. CASE Delete(p)
  <2>1. CASE Quit(p) /\ UNCHANGED provider
    BY <1>1, <2>1 DEF Quit
  <2>2. ASSUME NEW id \in proc[p].todo,
               webhooks' = {w \in webhooks : w.id # id},
               Become(p, [proc[p] EXCEPT !.todo = @ \ {id},
                                         !.at = IF proc[p].todo = {id} THEN "create" ELSE "delete"]),
               UNCHANGED <<lastId, creating, deleting, shown>>
        PROVE  \E label \in Labels : Moves(p, label) /\ Deletes(p, label)
    <3>1. PICK next : next = [proc[p] EXCEPT !.todo = @ \ {id},
                                !.at = IF proc[p].todo = {id} THEN "create" ELSE "delete"]
      OBVIOUS
    <3>2. Moves(p, next.at)
      BY <2>2, <3>1, BecomeMoves
    <3>3. next.at \in {"delete", "create"}
      BY <1>0, <3>1 DEF Locals
    <3>4. Lost(id) /\ proc[p].at = "delete"
      BY <1>0, <1>4 DEF LocalOK, Delete
    <3>5. Deletes(p, next.at)
      BY <2>2, <3>3, <3>4 DEF Deletes, Shrinks
    <3> QED BY <3>2, <3>3, <3>5 DEF Labels
  <2> QED BY <1>4, <2>1, <2>2 DEF Delete
<1>5. CASE Create(p)
  <2>1. PICK next : next = [proc[p] EXCEPT !.at = "confirm", !.created = lastId + 1]
    OBVIOUS
  <2>2. Moves(p, next.at)
    BY <1>5, <2>1, BecomeMoves DEF Create
  <2>3. next.at = "confirm"
    BY <1>0, <2>1 DEF Locals
  <2>4. Creates(p, next.at)
    BY <1>0, <1>5, <2>3 DEF Create, Creates, Adds, LocalOK
  <2> QED BY <2>2, <2>3, <2>4 DEF Labels
<1> QED BY <1>2, <1>3, <1>4, <1>5 DEF EnsureWebhook

LEMMA UnderWayShape ==
    ASSUME WebhookInv, NEW p \in Processes, UnderWay(p)
    PROVE  Same /\ (deleting' \subseteq deleting \/ proc[p].at = "delete")
BY DEF UnderWay, Same, provider

LEMMA FaultShape ==
    ASSUME WebhookInv, NEW p \in Processes, Fault(p) \/ Kill(p)
    PROVE  \E label \in Labels : Moves(p, label) /\ Ends(p, label)
<1>0. LocalOK(proc[p])
  BY Known
<1>1. CASE Fault(p)
  <2>1. PICK label \in {"idle", "polling"} : Moves(p, label)
    BY <1>1, LeaveMoves DEF Fault, Quit
  <2>2. Ends(p, label)
    BY <1>0, <1>1, <2>1, UnderWayShape DEF Fault, Ends, Adds, LocalOK
  <2> QED BY <2>1, <2>2 DEF Labels
<1>2. CASE Kill(p)
  <2>1. PICK next \in Locals : next = Anew(p, "idle") /\ next.at = "idle"
    BY Ended
  <2>2. Moves(p, "idle")
    BY <1>2, <2>1, BecomeMoves DEF Kill
  <2> QED BY <1>2, <2>2, UnderWayShape DEF Kill, Ends, Labels
<1> QED BY <1>1, <1>2

LEMMA StartShape ==
    ASSUME WebhookInv,
           \/ \E p \in Operators, cmd \in {"setup", "cleanup"} : StartCommand(p, cmd)
           \/ \E p \in Workers : StartWorker(p) \/ Recreate(p)
           \/ \E p \in Operators : Inspect(p)
    PROVE  \E p \in Processes, label \in Labels : Moves(p, label) /\ Ends(p, label)
<1>0. PICK start : start = Nothing
  OBVIOUS
<1>1. start \in Locals /\ start.at = "idle"
  BY <1>0, OldAssumption DEF Nothing, Locals, Commands, Labels
<1>2. ASSUME NEW p \in Operators, NEW cmd \in {"setup", "cleanup"}, StartCommand(p, cmd)
      PROVE  Moves(p, "inspect") /\ Ends(p, "inspect") /\ p \in Processes
  <2>1. PICK next : next = [start EXCEPT !.cmd = cmd, !.at = "inspect", !.live = mode]
    OBVIOUS
  <2>2. Become(p, next) /\ next.at = "inspect" /\ p \in Processes
    BY <1>0, <1>1, <1>2, <2>1 DEF StartCommand, Locals, Processes
  <2> QED BY <1>2, <2>2, BecomeMoves, SameProvider DEF StartCommand, Ends
<1>3. ASSUME NEW p \in Workers, StartWorker(p)
      PROVE  p \in Processes /\ \E label \in Labels : Moves(p, label) /\ Ends(p, label)
  <2>1. p \in Processes
    BY DEF Processes
  <2>2. PICK label \in {"polling", "ensure"} : label = IF Live(p) THEN "ensure" ELSE "polling"
    OBVIOUS
  <2>3. PICK base \in Locals : base = Anew(p, label) /\ base.at = label
    BY <2>1, Ended
  <2>4. PICK next : next = [base EXCEPT !.cmd = "preflight"]
    OBVIOUS
  <2>5. Become(p, next) /\ next.at = label
    BY <1>3, <2>2, <2>3, <2>4 DEF StartWorker, Locals
  <2>6. Moves(p, label) /\ Ends(p, label)
    BY <1>3, <2>1, <2>5, BecomeMoves, SameProvider DEF StartWorker, Ends
  <2> QED BY <2>1, <2>6 DEF Labels
<1>4. ASSUME NEW p \in Workers, Recreate(p)
      PROVE  p \in Processes /\ Moves(p, "idle") /\ Ends(p, "idle")
  <2>1. PICK next : next = [start EXCEPT !.live = mode]
    OBVIOUS
  <2>2. Become(p, next) /\ next.at = "idle" /\ p \in Processes
    BY <1>0, <1>1, <1>4, <2>1 DEF Recreate, Locals, Processes
  <2> QED BY <1>4, <2>2, BecomeMoves, UnderWayShape DEF Recreate, Ends
<1>5. ASSUME NEW p \in Operators, Inspect(p)
      PROVE  p \in Processes /\ \E label \in Labels : Moves(p, label) /\ Ends(p, label)
  <2>1. p \in Processes
    BY DEF Processes
  <2>2. CASE Leave(p)
    BY <1>5, <2>1, <2>2, LeaveMoves, SameProvider DEF Inspect, Ends, Labels
  <2>3. ASSUME NEW active, Note(p, active)
        PROVE  Moves(p, "ensure") /\ Ends(p, "ensure")
    <3>1. PICK next : next = [proc[p] EXCEPT !.at = "ensure",
                                             !.stale = IdsOf(webhooks) \ {active}]
      OBVIOUS
    <3>2. Become(p, next) /\ next.at = "ensure"
      BY <2>1, <2>3, <3>1, Known DEF Note, Locals
    <3> QED BY <1>5, <2>1, <3>2, BecomeMoves, SameProvider DEF Inspect, Ends
  <2> QED BY <1>5, <2>1, <2>2, <2>3 DEF Inspect, Found, Output, Labels
<1> QED BY <1>2, <1>3, <1>4, <1>5 DEF Labels

LEMMA StepShape ==
    ASSUME WebhookInv, Step
    PROVE  \/ Outside
           \/ \E q \in Processes, label \in Labels :
                 Moves(q, label) /\ \/ Begins(q, label) \/ Deletes(q, label)
                                    \/ Creates(q, label) \/ Ends(q, label)
<1>1. CASE ArriveCreate \/ RecreateFails \/ \E value \in BOOLEAN : SwitchMode(value)
  BY <1>1 DEF ArriveCreate, RecreateFails, SwitchMode, Outside, Same, provider, Adds,
              WebhookInv, WebhooksOK
<1>2. ASSUME NEW id \in deleting, ArriveDelete(id) PROVE Outside
  BY <1>2 DEF ArriveDelete, Outside, Shrinks, WebhookInv, WebhooksOK
<1>3. CASE \/ \E p \in Operators, cmd \in {"setup", "cleanup"} : StartCommand(p, cmd)
           \/ \E p \in Workers : StartWorker(p) \/ Recreate(p)
           \/ \E p \in Operators : Inspect(p)
  BY <1>3, StartShape
<1>4. CASE \E p \in Processes : Fault(p) \/ Kill(p)
  BY <1>4, FaultShape
<1>5. CASE \E p \in Processes : EnsureWebhook(p)
  <2>1. PICK p \in Processes : EnsureWebhook(p)
    BY <1>5
  <2>2. \E label \in Labels : Moves(p, label) /\ \/ Begins(p, label) \/ Deletes(p, label)
                                                 \/ Creates(p, label) \/ Ends(p, label)
    BY <2>1, EnsureShape
  <2> QED BY <2>2
<1> QED BY <1>1, <1>2, <1>3, <1>4, <1>5 DEF Step

\* No webhook that is complete is ever deleted (ensure_webhook).
THEOREM CompleteStays == Spec => CompleteIsKept
<1>1. ASSUME WebhookInv, Next PROVE KeepsComplete
  <2>1. Evolves
    BY <1>1, StepShape DEF Next, Outside, Begins, Deletes, Creates, Ends, Same, Evolves
  <2> QED BY <1>1, <2>1, EvolvesKeeps DEF WebhookInv, KeepsComplete
<1>2. UNCHANGED vars => KeepsComplete
  BY DEF vars, KeepsComplete, Complete
<1>3. WebhookInv /\ [Next]_vars => [KeepsComplete]_vars
  BY <1>1, <1>2
<1> QED BY <1>3, WebhookInvHolds, PTL DEF Spec, CompleteIsKept

\* The URL is bare only when it must be.
LEMMA ExplainedKept == ASSUME WebhookInv, ExplainedInv, Next PROVE ExplainedInv'
<1> DEFINE Bare == webhooks = {}
<1>0. /\ Remember /\ TablesOK /\ WebhooksOK
      /\ (explained' \in BOOLEAN) /\ (explained => explained')
      /\ \A q \in Processes : Replacing(q) /\ proc'[q].at \notin {"delete", "create", "confirm"}
                              => explained'
  BY DEF Next, Remember, WebhookInv, TablesOK
<1>1. Adds => webhooks' # {}
  BY DEF Adds, Register
<1>2. Same => webhooks' = webhooks
  BY DEF Same
<1>3. CASE Outside
  BY <1>0, <1>1, <1>2, <1>3 DEF Outside, ExplainedInv, BareIsExplained, Replacing
<1>4. ASSUME NEW q \in Processes, NEW label \in Labels, Moves(q, label),
             \/ Begins(q, label) \/ Deletes(q, label) \/ Creates(q, label) \/ Ends(q, label)
      PROVE  ExplainedInv'
  <2>1. \A r \in Processes \ {q} : Replacing(r)' <=> Replacing(r)
    BY <1>4 DEF Moves, Replacing
  <2>2. CASE Begins(q, label) \/ Deletes(q, label)
    <3>1. Replacing(q)' /\ deleting' = deleting
      BY <1>4, <2>2 DEF Moves, Begins, Deletes, Replacing
    <3> QED BY <1>0, <3>1 DEF ExplainedInv, BareIsExplained
  <2>3. CASE Creates(q, label)
    BY <1>0, <1>1, <2>3 DEF Creates, ExplainedInv, BareIsExplained
  <2>4. CASE Ends(q, label)
    <3>1. Replacing(q) => explained'
      BY <1>0, <1>4, <2>4 DEF Moves, Ends
    <3>2. Bare' => Bare
      BY <1>1, <1>2, <2>4 DEF Ends
    <3>3. deleting' \subseteq deleting \/ Replacing(q)
      BY <2>4 DEF Ends, Replacing
    <3> QED BY <1>0, <2>1, <3>1, <3>2, <3>3 DEF ExplainedInv, BareIsExplained
  <2> QED BY <1>4, <2>2, <2>3, <2>4
<1> QED BY <1>3, <1>4, StepShape DEF Next

\* A webhook is missing only while it is replaced, or when that was cut short.
THEOREM BareExplained == Spec => []BareIsExplained
<1>1. Init => ExplainedInv
  BY DEF Init, ExplainedInv, BareIsExplained
<1>2. UNCHANGED vars /\ ExplainedInv => ExplainedInv'
  BY DEF vars, ExplainedInv, BareIsExplained, Replacing
<1>3. WebhookInv /\ ExplainedInv /\ [Next]_vars => ExplainedInv'
  BY <1>2, ExplainedKept
<1>4. ExplainedInv => BareIsExplained
  BY DEF ExplainedInv
<1> QED BY <1>1, <1>3, <1>4, WebhookInvHolds, PTL DEF Spec

-----------------------------------------------------------------------------
\* Undisturbed, one process at a time replaces, and it has seen that none is complete.
LEMMA OnceKept == ASSUME WebhookInv, OnceInv, Next PROVE OnceInv'
<1> SUFFICES ASSUME ~disturbed' PROVE OnceInv'
  BY DEF OnceInv
<1>0. /\ ~disturbed /\ creating' = 0 /\ TablesOK /\ WebhooksOK
      /\ ~\E p, q \in Processes : p # q /\ Replacing(p)' /\ Replacing(q)'
  <2>1. creating' \in Nat
    BY NextKeeps DEF WebhookInv, TablesOK
  <2>2. disturbed' = (disturbed \/ creating' > 0
                      \/ \E p, q \in Processes : p # q /\ Replacing(p)' /\ Replacing(q)')
    BY DEF Next, Remember
  <2>3. /\ ~disturbed /\ ~(creating' > 0)
        /\ ~\E p, q \in Processes : p # q /\ Replacing(p)' /\ Replacing(q)'
    BY <2>2, Zenon
  <2> QED BY <2>1, <2>3 DEF WebhookInv
<1>1. /\ creating = 0
      /\ \A p, q \in Processes : Replacing(p) /\ Replacing(q) => p = q
      /\ \A p \in Processes : Replacing(p) => Complete = {}
      /\ \A v, w \in Complete : v = w
  BY <1>0 DEF OnceInv
<1>2. Same => Complete' = Complete
  BY DEF Same, Complete
<1>3. Shrinks => Complete' = Complete
  BY DEF Shrinks, Complete, Lost, IdsOf
<1>4. Adds /\ Complete = {} => \A v, w \in Complete' : v = w
  BY DEF Adds, Register, Complete
<1> SUFFICES /\ \A p \in Processes : Replacing(p)' => Complete' = {}
             /\ \A v, w \in Complete' : v = w
  BY <1>0 DEF OnceInv
<1>5. CASE Outside
  BY <1>1, <1>2, <1>3, <1>5 DEF Outside, Replacing
<1>6. ASSUME NEW q \in Processes, NEW label \in Labels, Moves(q, label),
             \/ Begins(q, label) \/ Deletes(q, label) \/ Creates(q, label) \/ Ends(q, label)
      PROVE  /\ \A p \in Processes : Replacing(p)' => Complete' = {}
             /\ \A v, w \in Complete' : v = w
  <2>1. \A r \in Processes \ {q} : Replacing(r)' <=> Replacing(r)
    BY <1>6 DEF Moves, Replacing
  <2>2. CASE Begins(q, label) \/ Deletes(q, label)
    <3>1. Complete = {} /\ Complete' = {}
      BY <1>1, <1>2, <1>3, <2>2 DEF Begins, Deletes, Replacing
    <3> QED BY <3>1
  <2>3. CASE Same /\ Ends(q, label)
    BY <1>1, <1>2, <1>6, <2>1, <2>3 DEF Ends, Moves, Replacing
  <2>4. CASE proc[q].at = "create" /\ Adds /\ label \notin {"delete", "create"}
    <3>1. Replacing(q) /\ ~Replacing(q)'
      BY <1>6, <2>4 DEF Replacing, Moves
    <3>2. \A r \in Processes : ~Replacing(r)'
      BY <1>1, <2>1, <3>1
    <3> QED BY <1>1, <1>4, <2>4, <3>1, <3>2
  <2> QED BY <1>6, <2>2, <2>3, <2>4 DEF Creates, Ends
<1> QED BY <1>5, <1>6, StepShape DEF Next

\* setup-webhook creates idempotently (docs/SANDBOX.md).
THEOREM CreatedOnce == Spec => []CreatesOnce
<1>1. ASSUME Init PROVE OnceInv
  <2>1. \A q \in Processes : ~Replacing(q)
    <3>1. PICK start : start = Nothing
      OBVIOUS
    <3>2. start \in Locals /\ start.at = "idle"
      BY <3>1, OldAssumption DEF Nothing, Locals, Commands, Labels
    <3>3. \A q \in Processes : proc[q] = [start EXCEPT !.live = q \in Workers /\ mode]
      BY <1>1, <3>1 DEF Init
    <3> QED BY <3>2, <3>3 DEF Replacing, Locals
  <2> QED BY <1>1, <2>1 DEF Init, OnceInv, Complete
<1>2. UNCHANGED vars /\ OnceInv => OnceInv'
  BY DEF vars, OnceInv, Replacing, Complete
<1>3. WebhookInv /\ OnceInv /\ [Next]_vars => OnceInv'
  BY <1>2, OnceKept
<1>4. WebhookInv /\ OnceInv => CreatesOnce
  <2> SUFFICES ASSUME WebhookInv, OnceInv, ~disturbed PROVE Cardinality(Complete) <= 1
    BY DEF CreatesOnce
  <2>1. CASE Complete = {}
    BY <2>1, FS_EmptySet
  <2>2. ASSUME NEW w \in Complete PROVE Cardinality(Complete) = 1
    <3>1. Complete = {w}
      BY <2>2 DEF OnceInv
    <3> QED BY <3>1, FS_Singleton
  <2> QED BY <2>1, <2>2
<1> QED BY <1>1, <1>3, <1>4, WebhookInvHolds, PTL DEF Spec

=============================================================================
