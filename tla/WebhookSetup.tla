---------------------------- MODULE WebhookSetup ----------------------------
(***************************************************************************)
(* The webhooks that the provider has for the URL of one environment, and  *)
(* the processes that put them in order by listing, deleting and creating: *)
(* the commands `provider setup-webhook` and `provider cleanup-webhooks`,  *)
(* and `worker run`, which calls ensure_webhook once when it starts.  They *)
(* know nothing of each other, any call may fail, be lost or arrive late,  *)
(* and live-mode.sh switches the provider writes on and off by starting    *)
(* the worker again in the middle of whatever it does.                     *)
(***************************************************************************)
EXTENDS Integers, FiniteSets

CONSTANTS Operators,   \* runs of the two commands that may overlap
          Workers,     \* worker processes
          OldWebhooks, \* webhooks from earlier sessions, numbered from 1
          MaxId,       \* bound of the webhooks ever created
          MaxFaults,   \* bound of the calls that fail or whose answer is lost
          MaxKills,    \* bound of the processes that die
          MaxSwitches  \* bound of the runs of live-mode.sh

Processes == Operators \cup Workers

ASSUME OldAssumption == OldWebhooks \in Nat /\ MaxId \in Nat /\ OldWebhooks <= MaxId
ASSUME WebhookProcessesAssumption == Operators \cap Workers = {}

VARIABLES webhooks,  \* webhooks registered for the URL: set of [id, complete]
          lastId,    \* the id given out last
          creating,  \* create requests that have not reached the provider yet
          deleting,  \* ids in delete requests that have not reached it yet
          mode,      \* STARKBANK_SANDBOX_LIVE_ENABLED in the environment file
          outdated,  \* workers whose container is older than mode
          script,    \* where live-mode.sh is, and the mode it would restore
          proc,      \* where each process is, and what it has read
          shown,     \* what the last command of each operator printed
          faults, kills, switches,
          explained, \* history: a replacement was cut short, or there was none
          disturbed  \* history: two replacements at once, or a late create

vars == <<webhooks, lastId, creating, deleting, mode, outdated, script, proc,
          shown, faults, kills, switches, explained, disturbed>>
provider == <<webhooks, lastId, creating, deleting>>
deployment == <<mode, outdated, script, switches>>

Ids == 1 .. MaxId
Webhooks == [id : Ids, complete : BOOLEAN]

\* stale: what the command read first; todo: what ensure_webhook will delete.
Nothing == [cmd |-> "none", at |-> "idle", live |-> FALSE, stale |-> {}, todo |-> {},
            created |-> 0]
NoOutput == [cmd |-> "none", id |-> 0, replaced |-> {}]

Complete == {w \in webhooks : w.complete}
IdsOf(ws) == {w.id : w \in ws}

\* A process that has begun to replace what it found.
Replacing(p) == proc[p].at \in {"delete", "create"}

-----------------------------------------------------------------------------
\* Earlier sessions have left incomplete webhooks and at most one complete one.
Init == /\ webhooks \in {ws \in SUBSET [id : 1 .. OldWebhooks, complete : BOOLEAN] :
                            \A v, w \in ws : v.id = w.id \/ (v.complete /\ w.complete) => v = w}
        /\ lastId = OldWebhooks
        /\ creating = 0 /\ deleting = {}
        /\ mode \in BOOLEAN /\ outdated = {}
        /\ script = [at |-> "idle", previous |-> mode]
        /\ proc = [p \in Processes |-> [Nothing EXCEPT !.live = p \in Workers /\ mode]]
        /\ shown = [p \in Operators |-> NoOutput]
        /\ faults = 0 /\ kills = 0 /\ switches = 0
        /\ explained = (webhooks = {}) /\ disturbed = FALSE

\* The history of a step of a process.
Remember == /\ explained' = (explained \/ \E p \in Processes :
                                Replacing(p) /\ proc'[p].at \notin {"delete", "create", "confirm"})
            /\ disturbed' = (disturbed \/ creating' > 0
                             \/ \E p, q \in Processes : p # q /\ Replacing(p)' /\ Replacing(q)')

Become(p, next) == proc' = [proc EXCEPT ![p] = next]
Calm == UNCHANGED <<faults, kills, deployment>>

\* A worker keeps the environment of its container when it starts again.
Anew(p, label) == [Nothing EXCEPT !.at = label, !.live = p \in Workers /\ proc[p].live]

\* A command ends; the worker goes on to poll for jobs, whatever became of it.
Leave(p) == Become(p, Anew(p, IF p \in Workers THEN "polling" ELSE "idle"))
Quit(p) == Leave(p) /\ UNCHANGED shown

\* What a command prints; the worker looks at no result.
Output(p, id, replaced) ==
    /\ Leave(p)
    /\ shown' = IF p \in Workers THEN shown
                ELSE [shown EXCEPT ![p] = [cmd |-> proc[p].cmd, id |-> id, replaced |-> replaced]]

\* Operators named Wrong... are slips that the properties must notice, each before
\* the definition it replaces: live operations are not asked for.
WrongLive(p) == TRUE

\* _require_live and the setting that worker_run looks at.
Live(p) == proc[p].live

-----------------------------------------------------------------------------
\* The commands and the worker.

\* cleanup-webhooks refuses to start without live operations.
StartCommand(p, cmd) ==
    /\ proc[p].at = "idle"
    /\ cmd = "cleanup" => mode
    /\ Become(p, [Nothing EXCEPT !.cmd = cmd, !.at = "inspect", !.live = mode])
    /\ shown' = [shown EXCEPT ![p] = NoOutput]
    /\ UNCHANGED provider /\ Calm

\* worker_run: without live operations there is no preflight.
StartWorker(p) ==
    /\ proc[p].at = "idle"
    /\ Become(p, [Anew(p, IF Live(p) THEN "ensure" ELSE "polling") EXCEPT !.cmd = "preflight"])
    /\ UNCHANGED <<provider, shown>> /\ Calm

\* inspect_webhooks takes the first complete webhook in the order of the provider.
Active(ws) == {w \in ws : w.complete}

\* The first look of a command at what is there; active = 0 when none is complete.
Note(p, active) == /\ Become(p, [proc[p] EXCEPT !.at = "ensure",
                                                !.stale = IdsOf(webhooks) \ {active}])
                   /\ UNCHANGED shown

\* cleanup-webhooks prints what it found incomplete and has not touched.
WrongFound(p, w) == IF proc[p].cmd = "cleanup" THEN Output(p, w.id, IdsOf(webhooks \ {w}))
                    ELSE Note(p, w.id)

\* cleanup-webhooks stops at a complete webhook, setup-webhook notes the others.
Found(p, w) == IF proc[p].cmd = "cleanup" THEN Output(p, w.id, {}) ELSE Note(p, w.id)

Inspect(p) ==
    /\ proc[p].at = "inspect"
    /\ \/ Active(webhooks) = {} /\ Note(p, 0)
       \/ \E w \in Active(webhooks) : Found(p, w)
    /\ UNCHANGED provider /\ Calm

-----------------------------------------------------------------------------
\* ensure_webhook.

\* Without live operations it ends before it asks the provider anything.
NotLive(p) == /\ proc[p].at = "ensure" /\ ~Live(p)
              /\ Quit(p)
              /\ UNCHANGED provider /\ Calm

\* With nothing to delete there is nothing to create.
WrongReplace(p) ==
    /\ Become(p, [proc[p] EXCEPT !.todo = IdsOf(webhooks),
                                 !.at = IF webhooks = {} THEN "confirm" ELSE "delete"])
    /\ UNCHANGED shown

Replace(p) == /\ Become(p, [proc[p] EXCEPT !.todo = IdsOf(webhooks),
                                           !.at = IF webhooks = {} THEN "create" ELSE "delete"])
              /\ UNCHANGED shown

\* What is there is replaced, complete or not.
WrongEnsure(p) == /\ proc[p].at = "ensure" /\ Live(p)
                  /\ Replace(p)
                  /\ UNCHANGED provider /\ Calm

\* A webhook more, whatever is there.
WrongOneMore(p) == /\ proc[p].at = "ensure" /\ Live(p)
                   /\ Become(p, [proc[p] EXCEPT !.at = "create"])
                   /\ UNCHANGED <<provider, shown>> /\ Calm

\* The second look decides: the active webhook is the result, or else all that
\* there is gives way to a new one.
Ensure(p) ==
    /\ proc[p].at = "ensure" /\ Live(p)
    /\ \/ \E w \in Active(webhooks) : Output(p, w.id, proc[p].stale)
       \/ Active(webhooks) = {} /\ Replace(p)
    /\ UNCHANGED provider /\ Calm

\* The command ends when all are deleted.
WrongDelete(p) ==
    /\ proc[p].at = "delete"
    /\ \E id \in proc[p].todo :
          /\ webhooks' = {w \in webhooks : w.id # id}
          /\ Become(p, [proc[p] EXCEPT !.todo = @ \ {id},
                                       !.at = IF proc[p].todo = {id} THEN "confirm" ELSE "delete"])
    /\ UNCHANGED <<lastId, creating, deleting, shown>> /\ Calm

\* delete_webhook for each; the provider refuses one that is gone already.
Delete(p) ==
    /\ proc[p].at = "delete"
    /\ \E id \in proc[p].todo :
          IF id \in IdsOf(webhooks)
          THEN /\ webhooks' = {w \in webhooks : w.id # id}
               /\ Become(p, [proc[p] EXCEPT !.todo = @ \ {id},
                                            !.at = IF proc[p].todo = {id} THEN "create" ELSE "delete"])
               /\ UNCHANGED <<lastId, creating, deleting, shown>>
          ELSE Quit(p) /\ UNCHANGED provider
    /\ Calm

New == [id |-> lastId + 1, complete |-> TRUE]

Register == /\ lastId < MaxId /\ lastId' = lastId + 1
            /\ webhooks' = webhooks \cup {New}

Create(p) == /\ proc[p].at = "create"
             /\ Register
             /\ Become(p, [proc[p] EXCEPT !.at = "confirm", !.created = lastId + 1])
             /\ UNCHANGED <<creating, deleting, shown>> /\ Calm

\* _confirm_webhook lists once more; another complete webhook may come first.
Confirm(p) ==
    /\ proc[p].at = "confirm"
    /\ \/ \E w \in Active(webhooks) : w.id = proc[p].created /\ Output(p, w.id, proc[p].stale)
       \/ (Active(webhooks) = {} \/ \E w \in Active(webhooks) : w.id # proc[p].created) /\ Quit(p)
    /\ UNCHANGED provider /\ Calm

-----------------------------------------------------------------------------
\* What goes wrong outside.

\* The request of a process is under way, and its answer will not be read.
UnderWay(p) ==
    \/ UNCHANGED provider
    \/ /\ proc[p].at = "create" /\ creating' = creating + 1
       /\ UNCHANGED <<webhooks, lastId, deleting>>
    \/ /\ proc[p].at = "delete"
       /\ \E id \in proc[p].todo : deleting' = deleting \cup {id}
       /\ UNCHANGED <<webhooks, lastId, creating>>

\* A call is refused, is lost, or is answered too late: _raise_provider.
Fault(p) == /\ proc[p].at \in {"inspect", "ensure", "delete", "create", "confirm"}
            /\ faults < MaxFaults /\ faults' = faults + 1
            /\ Quit(p)
            /\ \/ UnderWay(p)
               \/ proc[p].at = "create" /\ Register /\ UNCHANGED <<creating, deleting>>
            /\ UNCHANGED <<kills, deployment>>

Kill(p) == /\ proc[p].at # "idle"
           /\ kills < MaxKills /\ kills' = kills + 1
           /\ Become(p, Anew(p, "idle"))
           /\ UnderWay(p)
           /\ UNCHANGED <<shown, faults, deployment>>

ArriveCreate == /\ creating > 0 /\ creating' = creating - 1
                /\ Register
                /\ UNCHANGED <<deleting, proc, shown>> /\ Calm

ArriveDelete(id) == /\ deleting' = deleting \ {id}
                    /\ webhooks' = {w \in webhooks : w.id # id}
                    /\ UNCHANGED <<lastId, creating, proc, shown>> /\ Calm

\* live-mode.sh installs the environment file, then recreates the services one by one;
\* commands that run in containers of their own go on as they are.
SwitchMode(value) == /\ script.at = "idle"
                     /\ switches < MaxSwitches /\ switches' = switches + 1
                     /\ mode' = value /\ outdated' = Workers
                     /\ script' = [at |-> "recreate", previous |-> mode]
                     /\ UNCHANGED <<provider, proc, shown, faults, kills>>

\* A worker goes on in its old container.
WrongRecreate(p) == /\ script.at # "idle" /\ p \in outdated /\ outdated' = outdated \ {p}
                    /\ script' = IF outdated = {p} THEN [script EXCEPT !.at = "idle"] ELSE script
                    /\ UNCHANGED <<provider, proc, shown, faults, kills, mode, switches>>

Recreate(p) == /\ script.at # "idle" /\ p \in outdated /\ outdated' = outdated \ {p}
               /\ script' = IF outdated = {p} THEN [script EXCEPT !.at = "idle"] ELSE script
               /\ Become(p, [Nothing EXCEPT !.live = mode])
               /\ UnderWay(p)
               /\ UNCHANGED <<shown, faults, kills, mode, switches>>

\* compose fails: the previous file is put back and all are recreated once more; if
\* that fails too, nobody is told, and the containers stay as they are.
RecreateFails ==
    /\ \/ /\ script.at = "recreate"
          /\ mode' = script.previous /\ outdated' = Workers
          /\ script' = [script EXCEPT !.at = "restore"]
       \/ /\ script.at = "restore" /\ script' = [script EXCEPT !.at = "idle"]
          /\ UNCHANGED <<mode, outdated>>
    /\ UNCHANGED <<provider, proc, shown, faults, kills, switches>>

EnsureWebhook(p) == NotLive(p) \/ Ensure(p) \/ Delete(p) \/ Create(p) \/ Confirm(p)

Step == \/ \E p \in Operators, cmd \in {"setup", "cleanup"} : StartCommand(p, cmd)
        \/ \E p \in Operators : Inspect(p)
        \/ \E p \in Workers : StartWorker(p) \/ Recreate(p)
        \/ \E p \in Processes : EnsureWebhook(p) \/ Fault(p) \/ Kill(p)
        \/ ArriveCreate
        \/ \E id \in deleting : ArriveDelete(id)
        \/ \E value \in BOOLEAN : SwitchMode(value)
        \/ RecreateFails

Next == Step /\ Remember

Spec == Init /\ [][Next]_vars

-----------------------------------------------------------------------------
\* Properties.

WebhookTypeOK ==
    /\ webhooks \subseteq Webhooks
    /\ lastId \in 0 .. MaxId /\ creating \in Nat /\ deleting \subseteq Ids
    /\ mode \in BOOLEAN /\ outdated \subseteq Workers
    /\ script \in [at : {"idle", "recreate", "restore"}, previous : BOOLEAN]
    /\ \A v, w \in webhooks : v.id = w.id => v = w
    /\ \A w \in webhooks : w.id <= lastId
    /\ \A p \in Processes : /\ proc[p].stale \subseteq Ids /\ proc[p].todo \subseteq Ids
                            /\ proc[p].at = "delete" => proc[p].todo # {}
                            /\ Replacing(p) => proc[p].live

\* A webhook that delivers all events is never deleted, although every process
\* deletes what it saw some time ago (ensure_webhook).
KeepsComplete == Complete \subseteq Complete'

CompleteIsKept == [][KeepsComplete]_vars

\* What a command has printed is true, and stays so while the others run: its webhook
\* is a complete one, and what cleanup-webhooks calls replaced is gone, although it
\* printed what it had read before ensure_webhook looked again.
OutputIsTrue ==
    \A p \in Operators :
        /\ shown[p].id # 0 => shown[p].id \in IdsOf(Complete)
        /\ shown[p].cmd = "cleanup" => shown[p].replaced \cap IdsOf(webhooks) = {}

\* The URL is without any webhook only while one is being replaced, or after a
\* replacement was cut short by a fault, a death or live-mode.sh.
BareIsExplained == webhooks = {} => explained \/ \E p \in Processes : Replacing(p)

\* When live-mode.sh has disabled live operations and recreated the workers, none is
\* about to delete or create a webhook, whatever it was doing and in whatever order it
\* died and was started (docs/OPERATIONS.md, emergency stop).
DisabledStops == ~mode /\ outdated = {} => \A p \in Workers : ~Replacing(p)

\* docs/SANDBOX.md: webhook-setup creates idempotently.  The processes create no
\* second complete webhook, unless two of them replace at once or a create is late.
CreatesOnce == disturbed \/ Cardinality(Complete) <= 1

\* The operator runs setup-webhook until it is done (docs/SANDBOX.md), a process
\* that runs goes on, and docker starts workers again.
WebhookFairness ==
    /\ \A p \in Operators : WF_vars(StartCommand(p, "setup") /\ Remember)
    /\ \A p \in Operators : WF_vars(Inspect(p) /\ Remember)
    /\ \A p \in Processes : WF_vars(EnsureWebhook(p) /\ Remember)

FairSpec == Spec /\ WebhookFairness

\* When live operations stay enabled, the URL ends up with a complete webhook: the
\* processes do not undo each other's work for ever.
WebhookIsSetUp == <>[]mode => <>(Complete # {})

=============================================================================
