----------------------------- MODULE ConfigWrite -----------------------------
(***************************************************************************)
(* src/netbox_kea/config_write.py: the Configuration Changes that NetBox   *)
(* makes to the running configuration of one Kea daemon, and the outcome   *)
(* that each one reports.  Several changes run at the same time.  Each one *)
(* holds the advisory lock of the daemon from its first read to the end of *)
(* its persist step.  A Kea administrator writes without the lock, Kea can *)
(* restart, and a request whose reply was lost can arrive later.           *)
(***************************************************************************)
EXTENDS KeaConfig, Sequences

CONSTANTS
    Ops,             \* the Configuration Changes
    Requests,        \* the requests that operators make, see RequestForms
    InitialConfigs,  \* the configurations that Kea can start with
    AdminCommands,   \* the commands that an administrator can send to Kea directly
    Budget,          \* how often each kind of disturbance can happen
    PersistConfig,   \* Server.persist_config
    Outside          \* a writer without the lock

Disturbances == {"admin", "fault", "late", "restart", "lock-loss", "other-persist"}

\* What an operator can ask for. `kind` names the operation of config_write.
RequestForms ==
    [kind : {"add-subnet"}, id : Ids \cup {None}, network : Networks, shared : Names \cup {None},
     pools : SUBSET Pools, managed : Values]
    \cup [kind : {"edit-subnet"}, id : Ids, shared : Names \cup {None}, pools : SUBSET Pools, managed : Values]
    \cup [kind : {"delete-subnet"}, id : Ids]
    \cup [kind : {"add-pool", "delete-pool"}, id : Ids, pool : Pools]
    \cup [kind : {"set-subnet-options"}, id : Ids, managed : Values, unshown : Values]
    \cup [kind : {"set-server-options"}, options : Values]
    \cup [kind : {"add-definition", "delete-definition"}, def : Definitions]
    \cup [kind : {"add-network", "delete-network"}, name : Names]
    \cup [kind : {"edit-network"}, name : Names, value : Values]

ASSUME ConfigWriteAssumption ==
    /\ None \notin Ops \cup Requests \cup Commands /\ None # "rejected"
    /\ Outside \notin Ops /\ Outside # None
    /\ Requests \subseteq RequestForms
    /\ InitialConfigs \subseteq Config
    /\ AdminCommands \subseteq Commands
    /\ Budget \in [Disturbances -> Nat]
    /\ PersistConfig \in BOOLEAN

VARIABLES
    running,    \* the configuration that Kea runs
    disk,       \* the configuration that Kea loads when it starts
    inFlight,   \* the commands that can still reach Kea after their reply was lost
    lock,       \* the change that holds the advisory lock, or None
    pc,         \* the next step of each change
    req,        \* what each change does
    local,      \* the local state of each change, see Blank
    outcome,    \* its application and persistence, or its rejection
    budget,     \* the disturbances left
    marks,      \* history: the last writer of each part of the running configuration
    diskMarks   \* history: the same for the configuration on disk

control == <<pc, local, outcome, lock>>
vars    == <<running, disk, inFlight, control, req, budget, marks, diskMarks>>

Writers == Ops \cup {None, Outside}

Open       == {"idle", "form"}
Reading    == {"scope", "network", "definition", "exists", "candidate"}
Stepping   == {"send", "check", "retry", "undo-check", "undo-send", "persist"}
Places     == Open \cup {"waiting"} \cup Reading \cup Stepping \cup {"done"}
UnderLock  == Reading \cup Stepping

Unfinished == [application |-> None, persistence |-> "not-requested"]

\* The local state of a change that has not started or has ended.
Blank == [seen      |-> None,   \* the configuration that its form showed
          view      |-> None,   \* the target that its reads under the lock returned
          todo      |-> <<>>,   \* the steps that it has not sent
          done      |-> <<>>,   \* the undo commands of the steps that applied, newest first
          retried   |-> FALSE,  \* add_subnet allocated a second Subnet ID
          base      |-> None,   \* history: what Kea ran at its lock, and then at the read that its write starts from
          disturbed |-> FALSE,  \* history: a writer outside the lock came after it took the lock
          stale     |-> FALSE]  \* history: one came after its last read, or is under way without the lock

------------------------------------------------------------------------------
(* The requests.                                                           *)

BySubnet   == {"edit-subnet", "delete-subnet", "add-pool", "delete-pool", "set-subnet-options"}
BySend     == {"set-server-options", "add-definition", "delete-definition", "edit-network"}
ByExists   == {"add-network", "delete-network"}

\* An operator can ask for r while Kea runs c: the page shows the Subnet or the Shared Network.
Shown(r, c) ==
    /\ r.kind \in BySubnet => Present(c, r.id)
    /\ r.kind = "edit-network" => HasNetwork(c, r.name)

FirstRead(r) ==
    IF r.kind \in BySubnet \cup {"add-subnet"} THEN "scope"
    ELSE IF r.kind \in ByExists THEN "exists" ELSE "candidate"

FreeIds(c) == {id \in Ids : ~Present(c, id)}

\* prepare_creation refuses a network or an ID that exists, and an exhausted range.
CanCreate(r, c) ==
    /\ FreeIds(c) # {}
    /\ r.id # None => r.id \in FreeIds(c)
    /\ \A id \in Ids \ FreeIds(c) : c.subnets[id].network # r.network

NewIds(r, c) == IF r.id # None THEN {r.id} ELSE AllocatedIds(Ids \ FreeIds(c))

NewSubnet(r) == [network |-> r.network, member |-> None, pools |-> r.pools, managed |-> r.managed, unshown |-> Empty]

------------------------------------------------------------------------------
(* The plan of a change: a sequence of steps.  A step has a command and the *)
(* undo for it: a command, and the membership that the target must hold.    *)

NoUndo == [cmd |-> None, member |-> None]
Step(cmd, undoCmd, member) == [cmd |-> cmd, undo |-> [cmd |-> undoCmd, member |-> member]]
Last(cmd) == [cmd |-> cmd, undo |-> NoUndo]

\* Mutant: no undo of the Subnet add.
AddPlanWithoutUndo(r, id) ==
    <<Last(SubnetAdd(id, NewSubnet(r)))>> \o (IF r.shared = None THEN <<>> ELSE <<Last(Join(r.shared, id))>>)

AddPlan(r, id) ==
    IF r.shared = None THEN <<Last(SubnetAdd(id, NewSubnet(r)))>>
    ELSE <<Step(SubnetAdd(id, NewSubnet(r)), SubnetDel(id), None), Last(Join(r.shared, id))>>

\* The definition that was read, with the values of the edit form.
Edited(r, definition) == [definition EXCEPT !.pools = r.pools, !.managed = r.managed]

EditPlan(r, definition, member) ==
    (IF r.shared = member \/ member = None THEN <<>>
     ELSE <<Step(Leave(member, r.id), Join(member, r.id), None)>>)
    \o
    (IF r.shared = member \/ r.shared = None THEN <<>>
     ELSE <<Step(Join(r.shared, r.id), Leave(r.shared, r.id), r.shared)>>)
    \o <<Last(SubnetUpdate(r.id, Edited(r, definition)))>>

\* A read-modify-write edits one part of the configuration that config-get returned.
Candidate(r, c) ==
    CASE r.kind = "set-subnet-options" -> [c EXCEPT !.subnets[r.id].managed = r.managed, !.subnets[r.id].unshown = r.unshown]
      [] r.kind = "set-server-options" -> [c EXCEPT !.options = r.options]
      [] r.kind = "add-definition"     -> [c EXCEPT !.defs = @ \cup {r.def}]
      [] r.kind = "delete-definition"  -> [c EXCEPT !.defs = @ \ {r.def}]
      [] r.kind = "edit-network"       -> [c EXCEPT !.nets[r.name] = r.value]

\* Mutant: the edit finds its target, and does not compare the values that the form showed.
CanEditStale(r, c, s) ==
    /\ r.kind = "set-subnet-options" => Present(c, r.id)
    /\ r.kind = "edit-network" => HasNetwork(c, r.name)

\* The edit finds its target, with the values that the operator saw; config-test refuses a duplicate Option Definition.
CanEdit(r, c, s) ==
    CASE r.kind = "set-subnet-options" ->
            /\ Present(c, r.id) /\ c.subnets[r.id].network = s.subnets[r.id].network
            /\ c.subnets[r.id].managed = s.subnets[r.id].managed /\ c.subnets[r.id].unshown = s.subnets[r.id].unshown
      [] r.kind = "set-server-options" -> c.options = s.options
      [] r.kind = "add-definition"     -> r.def \notin c.defs
      [] r.kind = "delete-definition"  -> r.def \in c.defs
      [] r.kind = "edit-network"       -> c.nets[r.name] = s.nets[r.name]

NoTarget == [id |-> None, network |-> None, member |-> None, definition |-> None]

\* The fresh read of a check: the target shows nothing that cmd requested. `definition` is the one the update started from.
NotLive(cmd, network, definition, c) ==
    CASE cmd.do = "subnet-add" -> ~Present(c, cmd.id) \/ c.subnets[cmd.id].network # network
      [] cmd.do = "subnet-del" -> Present(c, cmd.id) /\ c.subnets[cmd.id].network = network
      [] cmd.do = "subnet-update" -> Definition(c.subnets[cmd.id]) = definition
      [] cmd.do = "network-subnet-add" -> ~Present(c, cmd.id) \/ c.subnets[cmd.id].member # cmd.name
      [] cmd.do = "network-subnet-del" -> MemberOf(c, cmd.id, network, cmd.name)
      [] cmd.do = "network-add" -> ~HasNetwork(c, cmd.name)
      [] cmd.do = "network-del" -> HasNetwork(c, cmd.name)
      [] cmd.do = "delta-add" -> Present(c, cmd.id) => cmd.pool \notin c.subnets[cmd.id].pools
      [] cmd.do = "delta-del" -> Present(c, cmd.id) /\ cmd.pool \in c.subnets[cmd.id].pools

\* The check can read its target. No read shows what a failed config-set did.
CanCheck(cmd, network, c) ==
    CASE cmd.do = "config-set" -> FALSE
      [] cmd.do = "subnet-update" -> Present(c, cmd.id)
      [] cmd.do \in {"delta-add", "delta-del"} -> Present(c, cmd.id) => c.subnets[cmd.id].network = network
      [] OTHER -> TRUE

------------------------------------------------------------------------------
Init ==
    /\ running \in InitialConfigs
    /\ disk = running
    /\ inFlight = {}
    /\ lock = None
    /\ pc = [op \in Ops |-> "idle"]
    /\ req = [op \in Ops |-> None]
    /\ local = [op \in Ops |-> Blank]
    /\ outcome = [op \in Ops |-> Unfinished]
    /\ budget = Budget
    /\ marks = [p \in Parts |-> None]
    /\ diskMarks = marks

Spend(kind) == budget[kind] > 0 /\ budget' = [budget EXCEPT ![kind] = @ - 1]

\* The writer of each part that a step changes. A part that gets back the value that the change read has none.
Marked(new, writer, origin) ==
    [p \in Parts |-> IF Part(new, p) = Part(running, p) THEN marks[p]
                     ELSE IF origin # None /\ Part(new, p) = Part(origin, p) THEN None ELSE writer]

\* The daemon runs cmd for the writer.
Execute(cmd, writer, origin) ==
    /\ Accepts(running, cmd)
    /\ running' = Result(running, cmd)
    /\ marks' = Marked(running', writer, origin)

\* Kea ran cmd or not, and NetBox does not learn which.
Perhaps(cmd, writer, origin) == Execute(cmd, writer, origin) \/ UNCHANGED <<running, marks>>

\* The request can still reach Kea.
Linger(cmd) ==
    /\ Spend("late")
    /\ inFlight' = inFlight \cup {cmd}
    /\ UNCHANGED <<running, marks>>

(* What an action does next with its change.                               *)

Go(op, place, new) ==
    /\ pc' = [pc EXCEPT ![op] = place]
    /\ local' = [local EXCEPT ![op] = new]
    /\ UNCHANGED <<outcome, lock>>

\* Mutant: the session keeps the lock.
LeavesLocked(op) ==
    /\ pc' = [pc EXCEPT ![op] = "done"]
    /\ local' = [local EXCEPT ![op] = Blank]
    /\ UNCHANGED lock

\* The operation ends, and its transaction releases the lock that it still holds.
Leaves(op) ==
    /\ pc' = [pc EXCEPT ![op] = "done"]
    /\ local' = [local EXCEPT ![op] = Blank]
    /\ lock' = IF lock = op THEN None ELSE lock

\* ConfigChangeRejected leaves the operation.
Reject(op) == Leaves(op) /\ outcome' = [outcome EXCEPT ![op].application = "rejected"]

\* The operation sends nothing more, and persists.
Conclude(op, application) ==
    /\ pc' = [pc EXCEPT ![op] = "persist"]
    /\ outcome' = [outcome EXCEPT ![op].application = application]
    /\ UNCHANGED <<local, lock>>

\* Mutant: the steps that applied stay.
AbandonWithoutRollback(op) == Reject(op)

\* A step did not apply: undo the steps before it, or reject the change.
Abandon(op) == IF local[op].done = <<>> THEN Reject(op) ELSE Go(op, "undo-check", local[op])

------------------------------------------------------------------------------
(* Before the first command.                                               *)

\* The operator opens a form. It shows what Kea runs now, and can stay open for any time.
OpenForm(op) ==
    /\ pc[op] = "idle"
    /\ \E r \in Requests : Shown(r, running) /\ req' = [req EXCEPT ![op] = r]
    /\ Go(op, "form", [Blank EXCEPT !.seen = running])
    /\ UNCHANGED <<running, disk, inFlight, budget, marks, diskMarks>>

\* The operation starts: it builds a client, or the connection settings are invalid.
Submit(op) ==
    /\ pc[op] = "form"
    /\ \/ Go(op, "waiting", local[op]) /\ UNCHANGED budget
       \/ Spend("fault") /\ Reject(op)
    /\ UNCHANGED <<running, disk, inFlight, req, marks, diskMarks>>

\* Mutant: a lock for each Server row, so two rows that name one daemon do not share it.
LockPerServer == TRUE

LockFree == lock = None

Acquire(op) ==
    /\ pc[op] = "waiting"
    /\ LockFree /\ lock' = op
    /\ pc' = [pc EXCEPT ![op] = FirstRead(req[op])]
    /\ local' = [local EXCEPT ![op].base = running, ![op].disturbed = \E other \in Ops : pc[other] \in UnderLock]
    /\ UNCHANGED <<running, disk, inFlight, req, outcome, budget, marks, diskMarks>>

\* LOCK_WAIT_SECONDS passed.
LockTimeout(op) ==
    /\ pc[op] = "waiting" /\ lock # None
    /\ Reject(op)
    /\ UNCHANGED <<running, disk, inFlight, req, budget, marks, diskMarks>>

ReadOnly == UNCHANGED <<running, disk, inFlight, req, marks, diskMarks>>

\* A read before the change fails, or config-test refuses the candidate. Nothing was sent.
ReadFails(op) == pc[op] \in Reading /\ Spend("fault") /\ Reject(op) /\ ReadOnly

Target(id, network, member, definition) == [id |-> id, network |-> network, member |-> member, definition |-> definition]

\* The reads agree with the form: the operation knows its target, and goes on at `place` with the steps in `plan`.
Proceed(op, place, plan, target) == Go(op, place, [local[op] EXCEPT !.todo = plan, !.view = target])

\* A live Mutation Scope. One without configuration facts cannot show that a Shared Network exists.
ScopeForAdd(op, complete) ==
    LET r == req[op]
    IN  IF \/ ~CanCreate(r, running)
           \/ r.shared # None /\ complete /\ ~HasNetwork(running, r.shared)
        THEN Reject(op)
        ELSE \E id \in NewIds(r, running) :
                Proceed(op, IF r.shared = None \/ complete THEN "send" ELSE "network", AddPlan(r, id),
                        Target(id, r.network, None, None))

ScopeForEdit(op, complete) ==
    LET r     == req[op]
        old   == local[op].seen.subnets[r.id]
        moves == r.shared \notin {None, old.member}
    IN  IF \/ ~MemberOf(running, r.id, old.network, old.member)
           \/ moves /\ complete /\ ~HasNetwork(running, r.shared)
        THEN Reject(op)
        ELSE Proceed(op, IF moves /\ ~complete THEN "network" ELSE "definition", <<>>,
                     Target(r.id, old.network, old.member, None))

\* Mutant: the Subnet is named by its ID only.
IdExists(id, network) == Present(running, id)

\* _subnet_as_seen
AsSeen(id, network) == Present(running, id) /\ running.subnets[id].network = network

\* For a Pool, _require_pool_state: without facts, Kea decides.
ScopeForTarget(op, complete) ==
    LET r       == req[op]
        network == local[op].seen.subnets[r.id].network
        now     == running.subnets[r.id]
        steps   == CASE r.kind = "delete-subnet" -> <<Last(SubnetDel(r.id))>>
                     [] r.kind = "add-pool"      -> <<Last(PoolAdd(r.id, network, r.pool))>>
                     [] r.kind = "delete-pool"   -> <<Last(PoolDel(r.id, network, r.pool))>>
                     [] OTHER                    -> <<>>
    IN  IF \/ ~AsSeen(r.id, network)
           \/ complete /\ r.kind = "add-pool" /\ r.pool \in now.pools
           \/ complete /\ r.kind = "delete-pool" /\ r.pool \notin now.pools
        THEN Reject(op)
        ELSE Proceed(op, IF r.kind = "set-subnet-options" THEN "candidate" ELSE "send", steps,
                     Target(r.id, network, None, None))

ReadScope(op) ==
    /\ pc[op] = "scope"
    /\ \E complete \in BOOLEAN :
        /\ IF complete THEN UNCHANGED budget ELSE Spend("fault")
        /\ CASE req[op].kind = "add-subnet"  -> ScopeForAdd(op, complete)
             [] req[op].kind = "edit-subnet" -> ScopeForEdit(op, complete)
             [] OTHER                        -> ScopeForTarget(op, complete)
    /\ ReadOnly

\* network{v}-get, because the scope could not show the Shared Network.
RequireNetwork(op) ==
    /\ pc[op] = "network"
    /\ IF HasNetwork(running, req[op].shared)
       THEN Go(op, IF req[op].kind = "add-subnet" THEN "send" ELSE "definition", local[op])
       ELSE Reject(op)
    /\ ReadOnly /\ UNCHANGED budget

\* The write starts from what Kea runs at this read.
StartFrom(op, plan, definition) ==
    Go(op, "send", [local[op] EXCEPT !.todo = plan, !.view.definition = definition, !.base = running])

\* subnet{v}-get: the values that the form showed must still be live.
ReadDefinition(op) ==
    /\ pc[op] = "definition"
    /\ LET r   == req[op]
           old == local[op].seen.subnets[r.id]
           now == running.subnets[r.id]
       IN  IF \/ ~Present(running, r.id) \/ now.network # old.network
              \/ now.pools # old.pools \/ now.managed # old.managed
           THEN Reject(op)
           ELSE StartFrom(op, EditPlan(r, Definition(now), old.member), Definition(now))
    /\ ReadOnly /\ UNCHANGED budget

ReadExists(op) ==
    /\ pc[op] = "exists"
    /\ LET name   == req[op].name
           adding == req[op].kind = "add-network"
       IN  IF HasNetwork(running, name) = adding
           THEN Reject(op)
           ELSE Proceed(op, "send", <<Last(IF adding THEN NetworkAdd(name) ELSE NetworkDel(name))>>, NoTarget)
    /\ ReadOnly /\ UNCHANGED budget

\* config-get, the edit of the candidate and its config-test.
ReadCandidate(op) ==
    /\ pc[op] = "candidate"
    /\ LET r == req[op]
       IN  IF CanEdit(r, running, local[op].seen) /\ Sound(Candidate(r, running))
           THEN Go(op, "send", [local[op] EXCEPT !.todo = <<Last(ConfigSet(Candidate(r, running)))>>,
                                                 !.view = NoTarget, !.base = running])
           ELSE Reject(op)
    /\ ReadOnly /\ UNCHANGED budget

------------------------------------------------------------------------------
(* The steps, and the rollback.                                            *)

\* The step applied.
NextStep(op) ==
    LET l    == local[op]
        step == Head(l.todo)
        rest == Tail(l.todo)
    IN  IF rest = <<>> THEN Conclude(op, "applied")
        ELSE Go(op, "send", [l EXCEPT !.todo = rest, !.done = IF step.undo = NoUndo THEN @ ELSE <<step.undo>> \o @])

Send(op) ==
    /\ pc[op] = "send"
    /\ LET cmd  == Head(local[op].todo).cmd
           base == local[op].base
       IN  \/ \* Kea ran it.
              /\ Execute(cmd, op, base)
              /\ NextStep(op)
              /\ UNCHANGED <<budget, inFlight>>
           \/ \* Kea refused it.
              /\ ~Accepts(running, cmd)
              /\ Go(op, "check", local[op])
              /\ UNCHANGED <<running, marks, budget, inFlight>>
           \/ \* A failure result, which can follow a change that went live.
              /\ Spend("fault") /\ Perhaps(cmd, op, base)
              /\ Go(op, "check", local[op])
              /\ UNCHANGED inFlight
           \/ \* The request failed while it connected.
              /\ Spend("fault")
              /\ Abandon(op)
              /\ UNCHANGED <<running, marks, inFlight>>
           \/ \* The reply is lost, malformed, result 5 or a forwarding failure.
              /\ Spend("fault") /\ Perhaps(cmd, op, base)
              /\ Conclude(op, "unknown")
              /\ UNCHANGED inFlight
           \/ \* The reply is lost before Kea gets the request.
              /\ Linger(cmd)
              /\ Conclude(op, "unknown")
    /\ UNCHANGED <<disk, req, diskMarks>>

\* Another Subnet took the Subnet ID that NetBox allocated.
Taken(op) ==
    /\ req[op].kind = "add-subnet" /\ req[op].id = None /\ ~local[op].retried
    /\ Head(local[op].todo).cmd.do = "subnet-add"
    /\ Present(running, local[op].view.id)

ShowsNothing(op) ==
    LET cmd    == Head(local[op].todo).cmd
        target == local[op].view
    IN  CanCheck(cmd, target.network, running) /\ NotLive(cmd, target.network, target.definition, running)

\* The read after a failure result. It can fail, and then nothing shows that the change is not live.
Check(op) ==
    /\ pc[op] = "check"
    /\ \/ /\ IF ~ShowsNothing(op) THEN Conclude(op, "unknown")
             ELSE IF Taken(op) THEN Go(op, "retry", local[op]) ELSE Abandon(op)
          /\ UNCHANGED budget
       \/ Spend("fault") /\ Conclude(op, "unknown")
    /\ ReadOnly

\* A second identity from a new scope. This happens once.
Reallocate(op) ==
    /\ pc[op] = "retry"
    /\ LET r == req[op]
       IN  \/ /\ IF CanCreate(r, running)
                 THEN \E id \in NewIds(r, running) :
                        Go(op, "send", [local[op] EXCEPT !.todo = AddPlan(r, id), !.view.id = id, !.retried = TRUE])
                 ELSE Reject(op)
              /\ UNCHANGED budget
           \/ Spend("fault") /\ Reject(op)
    /\ ReadOnly

\* Mutant: an undo without a check of its target.
HoldsAlways(op) == TRUE

Holds(op) ==
    LET undo == Head(local[op].done)
    IN  MemberOf(running, undo.cmd.id, local[op].view.network, undo.member)

\* The read before an undo: the target must hold what the step wrote.
CheckUndo(op) ==
    /\ pc[op] = "undo-check"
    /\ \/ /\ IF Holds(op)
             THEN Go(op, "undo-send", [local[op] EXCEPT !.stale = \E other \in Ops \ {op} : pc[other] \in UnderLock])
             ELSE Conclude(op, "unknown")
          /\ UNCHANGED budget
       \/ Spend("fault") /\ Conclude(op, "unknown")
    /\ ReadOnly

\* An undo that fails leaves the change unconfirmed, whatever the read after it shows.
SendUndo(op) ==
    /\ pc[op] = "undo-send"
    /\ LET cmd  == Head(local[op].done).cmd
           rest == Tail(local[op].done)
       IN  \/ /\ Execute(cmd, None, None)
              /\ IF rest = <<>> THEN Reject(op) ELSE Go(op, "undo-check", [local[op] EXCEPT !.done = rest])
              /\ UNCHANGED <<budget, inFlight>>
           \/ /\ ~Accepts(running, cmd)
              /\ Conclude(op, "unknown")
              /\ UNCHANGED <<running, marks, budget, inFlight>>
           \/ /\ Spend("fault") /\ Perhaps(cmd, None, None)
              /\ Conclude(op, "unknown")
              /\ UNCHANGED inFlight
           \/ Linger(cmd) /\ Conclude(op, "unknown")
    /\ UNCHANGED <<disk, req, diskMarks>>

\* Mutant: persist reports success where config-test is not supported, and writes nothing.
SkipWrite == UNCHANGED <<disk, diskMarks>>

WriteDisk == disk' = running /\ diskMarks' = marks

\* KeaClient.persist, and the end of the operation. It never raises.
Persist(op) ==
    /\ pc[op] = "persist"
    /\ \E persistence \in {"persisted", "failed", "not-requested"} :
        /\ (persistence = "not-requested") = ~PersistConfig
        /\ outcome' = [outcome EXCEPT ![op].persistence = persistence]
        /\ CASE persistence = "persisted"     -> WriteDisk /\ UNCHANGED budget
             [] persistence = "failed"        -> Spend("fault") /\ (WriteDisk \/ UNCHANGED <<disk, diskMarks>>)
             [] persistence = "not-requested" -> UNCHANGED <<disk, diskMarks, budget>>
    /\ Leaves(op)
    /\ UNCHANGED <<running, inFlight, req, marks>>

------------------------------------------------------------------------------
(* What no change controls.                                                *)

Disturb(ops) ==
    /\ local' = [op \in Ops |-> IF op \in ops THEN [local[op] EXCEPT !.disturbed = TRUE, !.stale = TRUE] ELSE local[op]]
    /\ UNCHANGED <<pc, outcome>>

Active == {op \in Ops : pc[op] \in UnderLock}

AdminWrites ==
    /\ Spend("admin")
    /\ \E cmd \in AdminCommands : Execute(cmd, Outside, None)
    /\ Disturb(Active)
    /\ UNCHANGED <<disk, inFlight, lock, req, diskMarks>>

LateRequest ==
    /\ \E cmd \in inFlight :
        /\ inFlight' = inFlight \ {cmd}
        /\ IF Accepts(running, cmd) THEN Execute(cmd, Outside, None) ELSE UNCHANGED <<running, marks>>
    /\ Disturb(Active)
    /\ UNCHANGED <<disk, lock, req, budget, diskMarks>>

\* Kea restarts from its configuration file.
Restart ==
    /\ Spend("restart")
    /\ running' = disk /\ marks' = diskMarks
    /\ Disturb(Active)
    /\ UNCHANGED <<disk, inFlight, lock, req, diskMarks>>

\* A PostgreSQL or pooler timeout ends the transaction while the operation runs.
LoseLock ==
    /\ Spend("lock-loss")
    /\ lock # None /\ lock' = None
    /\ Disturb({lock})
    /\ UNCHANGED <<running, disk, inFlight, req, marks, diskMarks>>

\* The persist step of a Reservation mutation takes no lock.
OtherPersist ==
    /\ Spend("other-persist")
    /\ WriteDisk
    /\ UNCHANGED <<running, inFlight, control, req, marks>>

\* Every change that an operator started has ended.
Terminating ==
    /\ \A op \in Ops : pc[op] \in {"idle", "done"}
    /\ UNCHANGED vars

Prepare(op) == Acquire(op) \/ LockTimeout(op) \/ ReadFails(op) \/ ReadScope(op) \/ RequireNetwork(op)
               \/ ReadDefinition(op) \/ ReadExists(op) \/ ReadCandidate(op)
Act(op)     == Send(op) \/ Check(op) \/ Reallocate(op) \/ CheckUndo(op) \/ SendUndo(op) \/ Persist(op)
Environment == AdminWrites \/ LateRequest \/ Restart \/ LoseLock \/ OtherPersist

Next ==
    \/ \E op \in Ops : OpenForm(op) \/ Submit(op) \/ Prepare(op) \/ Act(op)
    \/ Environment
    \/ Terminating

Spec == Init /\ [][Next]_vars

------------------------------------------------------------------------------
(* Properties.                                                             *)

Undos   == [cmd : Commands, member : Names \cup {None}]
Steps   == [cmd : Commands, undo : Undos \cup {NoUndo}]
Targets == [id : Ids \cup {None}, network : Networks \cup {None}, member : Names \cup {None},
            definition : Subnet \cup {None}]
Locals  == [seen : Config \cup {None}, base : Config \cup {None}, view : Targets \cup {None},
            todo : Seq(Steps), done : Seq(Undos),
            retried : BOOLEAN, disturbed : BOOLEAN, stale : BOOLEAN]
Outcomes == [application : {None, "rejected", "applied", "unknown"},
             persistence : {"persisted", "failed", "not-requested"}]

\* The type invariant.
TypeOK ==
    /\ running \in Config /\ disk \in Config
    /\ inFlight \subseteq Commands
    /\ lock \in Ops \cup {None}
    /\ pc \in [Ops -> Places]
    /\ req \in [Ops -> Requests \cup {None}]
    /\ local \in [Ops -> Locals]
    /\ outcome \in [Ops -> Outcomes]
    /\ budget \in [Disturbances -> Nat]
    /\ marks \in [Parts -> Writers] /\ diskMarks \in [Parts -> Writers]

\* While a change that nothing disturbed is under the lock, no other change of the same daemon is:
\* _serialized runs the operations one at a time.
Exclusive ==
    \A op \in Ops : pc[op] \in UnderLock /\ ~local[op].disturbed =>
        lock = op /\ \A other \in Ops \ {op} : pc[other] \notin UnderLock

\* What a change reads before it sends anything is what Kea runs: no other NetBox change gets between its reads.
ReadsAreCurrent ==
    \A op \in Ops : pc[op] \in Reading /\ ~local[op].disturbed => running = local[op].base

\* Another writer put an object of its own in the place of the one that op added or deleted at p: in the marks m, the part
\* that says that the object exists is not op's.
Overtaken(op, p, m) ==
    /\ req[op].kind \in {"add-subnet", "delete-subnet", "delete-network"}
    /\ p[1] = "member" \/ (p[1] \in Fields /\ req[op].kind = "add-subnet")
    /\ m[IF req[op].kind = "delete-network" THEN <<"net", req[op].name>> ELSE <<"network", p[2]>>] # op

\* A rejected change left nothing live, even when it sent commands, rolled back, or raced with writers outside the lock. An
\* exception is a Subnet or a Shared Network that another writer declared anew where the change had added or deleted one.
RejectedNotLive ==
    \A op \in Ops, p \in Parts : outcome[op].application = "rejected" /\ marks[p] = op => Overtaken(op, p, marks)

\* What a change wrote is on disk when its outcome says persisted, until another writer replaces it,
\* also for a change that Kea applied without a reply.
PersistedSurvivesRestart ==
    \A op \in Ops, p \in Parts :
        pc[op] = "done" /\ outcome[op].persistence = "persisted" /\ marks[p] = op => diskMarks[p] = op

\* op, which nothing disturbed, changes the part p in this step.
Writes(op, p) ==
    /\ pc[op] = "send" /\ ~local[op].disturbed /\ ~local'[op].disturbed
    /\ marks'[p] = op /\ Part(running', p) # Part(running, p)

SymDiff(a, b) == (a \ b) \cup (b \ a)

\* An edit replaces only values that its form showed. A read-modify-write of the whole configuration erases no other
\* change, and a Pool or Option Definition change touches no other Pool or Option Definition.
KeepsUpdates ==
    \A op \in Ops, p \in Parts :
        Writes(op, p) /\ req[op].kind \notin {"delete-subnet", "delete-network"} =>
            \/ Part(running, p) \in {Part(local[op].seen, p), None}
            \/ marks[p] = op
            \/ p[1] = "pools" /\ SymDiff(Part(running, p), Part(running', p)) = {req[op].pool}
            \/ p[1] = "server" /\ SymDiff(Part(running, p), Part(running', p)) = {req[op].def}

NoLostUpdate == [][KeepsUpdates]_vars

\* A change that names a Subnet acts only while that ID still names the network that the operator saw.
ActsOnSeen ==
    \A op \in Ops, id \in Ids :
        (\E field \in Fields : Writes(op, <<field, id>>)) /\ req[op].kind \in BySubnet
        => id = req[op].id /\ Part(running, <<"network", id>>) = Part(local[op].seen, <<"network", id>>)

ActsOnSeenSubnet == [][ActsOnSeen]_vars

\* op undoes a step now, and no writer outside the lock came after the read that allowed the undo.
Undoes(op) ==
    /\ pc[op] = "undo-send" /\ pc'[op] # "undo-send" /\ running' # running
    /\ lock = op /\ ~local[op].stale

\* An undo moves or deletes a Subnet only from the Shared Network, and under the network, that the step left it with.
SparesMembership ==
    \A op \in Ops : Undoes(op) =>
        MemberOf(running, Head(local[op].done).cmd.id, local[op].view.network, Head(local[op].done).member)

RollbackSparesMembership == [][SparesMembership]_vars

\* An undo replaces nothing that another writer wrote.
RollbackSparesOthers ==
    [][\A op \in Ops : Undoes(op) =>
          \A p \in Parts : Part(running', p) # Part(running, p) => marks[p] # Outside]_vars

\* Each operation that an operator started ends, and its lock is free again.
EveryChangeEnds == \A op \in Ops : pc[op] = "waiting" ~> pc[op] = "done" /\ lock # op
==============================================================================
