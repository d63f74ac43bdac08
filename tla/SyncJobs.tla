------------------------------ MODULE SyncJobs ------------------------------
(***************************************************************************)
(* The periodic IPAM synchronization (jobs.py, views/sync_jobs.py).        *)
(* A job has a record in the database and an entry in the RQ queue, and    *)
(* the two can part: a worker that starts removes the records without a    *)
(* live entry and schedules the job once. A run reads the settings, tries  *)
(* each Server, and schedules its successor with the interval it read.     *)
(***************************************************************************)
EXTENDS Naturals, FiniteSets

CONSTANTS
    Workers, Servers, None,
    Slots,            \* the slots of jobs (bounds the jobs at one time)
    Intervals,      \* the intervals that an operator can save
    MaxFaults,      \* bounds the failures of the database, of Redis or of a Server
    MaxCrashes,     \* bounds the workers that stop outside a run
    MaxKills,       \* bounds the workers that stop within a run
    MaxRaces,       \* bounds the starts of a worker during the start of another
    MaxSaves        \* bounds what operators save or start

NoInterval == 0

ASSUME JobsAssumption ==
    /\ None \notin Servers /\ Intervals \subseteq Nat \ {NoInterval}
    /\ \A n \in {MaxFaults, MaxCrashes, MaxKills, MaxRaces, MaxSaves} : n \in Nat

VARIABLES
    record,     \* the Job rows that are not over
    rq,         \* the RQ entry of each
    worker,     \* each worker process
    interval,   \* SyncConfig.interval_minutes
    enabled,    \* SyncConfig.sync_enabled
    on,         \* the Servers whose sync is enabled
    budget

vars == <<record, rq, worker, interval, enabled, on, budget>>

Down == [pc |-> "down", todo |-> {}, id |-> None, server |-> None, interval |-> NoInterval,
         fresh |-> FALSE, must |-> {}, summary |-> {}]

Init ==
    /\ record = [i \in Slots |-> None]
    /\ rq = [i \in Slots |-> "missing"]
    /\ worker = [w \in Workers |-> Down]
    /\ interval \in Intervals
    /\ enabled = TRUE
    /\ on = Servers
    /\ budget = [faults |-> MaxFaults, crashes |-> MaxCrashes, kills |-> MaxKills, races |-> MaxRaces,
              saves |-> MaxSaves]

Set(w, me) == worker' = [worker EXCEPT ![w] = me]
Spend(kind) == budget[kind] > 0 /\ budget' = [budget EXCEPT ![kind] = @ - 1]

\* The slots that nothing refers to.
Free == {i \in Slots : record[i] = None /\ rq[i] \in {"missing", "failed"} /\ \A w \in Workers : worker[w].id # i}
\* A new job takes one of them, and which one makes no difference.
NewSlot == IF Free = {} THEN {} ELSE {CHOOSE i \in Free : TRUE}
Periodic == {i \in {j \in Slots : record[j] # None} : record[i].server = None}
\* NetBox cancels the entry of a record that it deletes.
Cancelled(ids) == [i \in Slots |-> IF i \in ids /\ rq[i] = "queued" THEN "missing" ELSE rq[i]]
Waiting == {i \in Periodic : record[i].status \in {"scheduled", "pending"}}

----------------------------------------------------------------------------
(* The start of a worker: enqueue_once.                                    *)

Boot(w) ==
    /\ worker[w].pc \in {"down", "up"}
    /\ IF \E other \in Workers \ {w} : worker[other].pc \in {"heal", "ghost", "publish"}
       THEN Spend("races") ELSE UNCHANGED budget
    /\ Set(w, [Down EXCEPT !.pc = "heal", !.todo = Waiting])
    /\ UNCHANGED <<record, rq, interval, enabled, on>>

\* Mutant: only failed entries count, and not the missing ones.
DeadWhenFailed(i) == rq[i] = "failed"
Dead(i) == rq[i] \in {"failed", "missing"}

\* The entry of a record is looked up, then the record is deleted, which
\* cancels an entry that came to the queue meanwhile.
CheckGhost(w, i) ==
    /\ worker[w].pc = "heal" /\ i \in worker[w].todo
    /\ Set(w, IF Dead(i) THEN [worker[w] EXCEPT !.pc = "ghost", !.id = i]
                         ELSE [worker[w] EXCEPT !.todo = @ \ {i}])
    /\ UNCHANGED <<record, rq, interval, enabled, on, budget>>

DeleteGhost(w) ==
    /\ worker[w].pc = "ghost"
    /\ record' = [record EXCEPT ![worker[w].id] = None]
    /\ rq' = Cancelled({worker[w].id})
    /\ Set(w, [worker[w] EXCEPT !.pc = "heal", !.todo = @ \ {worker[w].id}, !.id = None])
    /\ UNCHANGED <<interval, enabled, on, budget>>

\* The database or Redis is not there: a record, or all of them, are skipped.
HealFails(w) ==
    /\ worker[w].pc \in {"heal", "ghost"} /\ worker[w].todo # {}
    /\ Spend("faults")
    /\ \E rest \in {{}, worker[w].todo \ {worker[w].id}} :
           Set(w, [worker[w] EXCEPT !.pc = "heal", !.todo = rest, !.id = None])
    /\ UNCHANGED <<record, rq, interval, enabled, on>>

NewRecord(status, every, s, fresh) == [status |-> status, interval |-> every, server |-> s, fresh |-> fresh]

\* NetBox keeps a record of the same interval that is not over, also one of a
\* run, and replaces one of another interval.
EnqueueOnce(w) ==
    /\ worker[w].pc = "heal" /\ worker[w].todo = {}
    /\ IF \E i \in Periodic : record[i].interval = interval
       THEN Set(w, [worker[w] EXCEPT !.pc = "up"]) /\ UNCHANGED record
            /\ UNCHANGED rq
       ELSE \E i \in NewSlot, old \in IF Periodic = {} THEN {None} ELSE Periodic :
              /\ record' = [j \in Slots |-> IF j = i THEN NewRecord("pending", interval, None, TRUE)
                                          ELSE IF j = old THEN None ELSE record[j]]
              /\ rq' = Cancelled({old})
              /\ Set(w, [worker[w] EXCEPT !.pc = "publish", !.id = i])
    /\ UNCHANGED <<interval, enabled, on, budget>>

\* The entry goes to RQ after the commit of the record. The entry of a record
\* that was deleted meanwhile fails in handle, and is left out.
Publish(w) ==
    /\ worker[w].pc = "publish"
    /\ rq' = [rq EXCEPT ![worker[w].id] = IF record[worker[w].id] = None THEN "missing" ELSE "queued"]
    /\ Set(w, [Down EXCEPT !.pc = "up"])
    /\ UNCHANGED <<record, interval, enabled, on, budget>>

----------------------------------------------------------------------------
(* One run.                                                                *)

\* handle: the record is read again before NetBox marks it as running.
StartRun(w, i) ==
    /\ worker[w].pc = "up" /\ rq[i] = "queued"
    /\ rq' = [rq EXCEPT ![i] = "started"]
    /\ record' = [record EXCEPT ![i].status = "running"]
    /\ Set(w, [worker[w] EXCEPT !.pc = "config", !.id = i, !.server = record[i].server,
                                !.interval = record[i].interval, !.fresh = FALSE])
    /\ UNCHANGED <<interval, enabled, on, budget>>

\* The database fails at the start of the run: RQ fails the entry, and the
\* record stays as it was.
StartFails(w, i) ==
    /\ worker[w].pc = "up" /\ rq[i] = "queued"
    /\ Spend("faults")
    /\ rq' = [rq EXCEPT ![i] = "failed"]
    /\ UNCHANGED <<record, worker, interval, enabled, on>>

NextInterval(me) == IF me.interval = NoInterval THEN NoInterval ELSE interval

Selected(me) == IF me.server = None THEN on ELSE {me.server}

ReadConfig(w) ==
    /\ worker[w].pc = "config"
    /\ LET me == worker[w]
           servers == IF enabled THEN Selected(me) ELSE {}
       IN  Set(w, [me EXCEPT !.pc = "sync", !.interval = NextInterval(me), !.fresh = TRUE,
                             !.todo = servers, !.must = servers])
    /\ UNCHANGED <<record, rq, interval, enabled, on, budget>>

\* The run fails before it tries a Server: it has read the interval, or it
\* keeps the one of its record.
ConfigFails(w) ==
    /\ worker[w].pc = "config"
    /\ Spend("faults")
    /\ \E read \in BOOLEAN :
           Set(w, [worker[w] EXCEPT !.pc = "sync", !.fresh = read, !.todo = {}, !.must = {},
                                    !.interval = IF read THEN NextInterval(worker[w]) ELSE @])
    /\ UNCHANGED <<record, rq, interval, enabled, on>>

\* Mutant: an error of one Server ends the run.
StopsAtError(me, s, failed) == IF failed THEN {} ELSE me.todo \ {s}
Rest(me, s, failed) == me.todo \ {s}

\* One Server is synchronized, or its error is counted.
SyncServer(w, s) ==
    /\ worker[w].pc = "sync" /\ s \in worker[w].todo
    /\ \E failed \in BOOLEAN :
          /\ IF failed THEN Spend("faults") ELSE UNCHANGED budget
          /\ Set(w, [worker[w] EXCEPT !.todo = Rest(worker[w], s, failed), !.summary = @ \union {s}])
    /\ UNCHANGED <<record, rq, interval, enabled, on>>

\* The summary is saved, and NetBox ends the record, as completed or failed.
Terminate(w) ==
    /\ worker[w].pc = "sync" /\ worker[w].todo = {}
    /\ record' = [record EXCEPT ![worker[w].id] = None]
    /\ rq' = [rq EXCEPT ![worker[w].id] = "missing"]
    /\ Set(w, IF worker[w].interval = NoInterval THEN [Down EXCEPT !.pc = "up"]
              ELSE [worker[w] EXCEPT !.pc = "successor", !.id = None])
    /\ UNCHANGED <<interval, enabled, on, budget>>

Successor(w) ==
    /\ worker[w].pc = "successor"
    /\ \E i \in NewSlot :
          /\ record' = [record EXCEPT ![i] = NewRecord("scheduled", worker[w].interval, None, worker[w].fresh)]
          /\ Set(w, [worker[w] EXCEPT !.pc = "publish", !.id = i])
    /\ UNCHANGED <<rq, interval, enabled, on, budget>>

\* A worker stops outside a run, between two of its steps.
Crash(w) ==
    /\ worker[w].pc \notin {"down", "config", "sync"}
    /\ Spend("crashes")
    /\ Set(w, Down)
    /\ UNCHANGED <<record, rq, interval, enabled, on>>

\* A worker is killed within a run: RQ fails the entry, the record stays running.
Kill(w) ==
    /\ worker[w].pc \in {"config", "sync"}
    /\ Spend("kills")
    /\ rq' = [rq EXCEPT ![worker[w].id] = "failed"]
    /\ Set(w, Down)
    /\ UNCHANGED <<record, interval, enabled, on>>

----------------------------------------------------------------------------
(* The operators.                                                          *)

\* The Sync Jobs page saves the interval and the switch.
SaveConfig(every, switch) ==
    /\ <<every, switch>> # <<interval, enabled>>
    /\ Spend("saves")
    /\ interval' = every /\ enabled' = switch
    /\ record' = [i \in Slots |-> IF record[i] = None THEN None ELSE [record[i] EXCEPT !.fresh = FALSE]]
    /\ worker' = [w \in Workers |-> [worker[w] EXCEPT !.fresh = FALSE]]
    /\ UNCHANGED <<rq, on>>

Toggle(s) ==
    /\ Spend("saves")
    /\ on' = IF s \in on THEN on \ {s} ELSE on \union {s}
    /\ worker' = [w \in Workers |-> IF s \in on THEN [worker[w] EXCEPT !.must = @ \ {s}] ELSE worker[w]]
    /\ UNCHANGED <<record, rq, interval, enabled>>

\* Sync now: one Server, also one whose sync is not enabled.
SyncNow(s) ==
    /\ Spend("saves")
    /\ \E i \in NewSlot :
          /\ record' = [record EXCEPT ![i] = NewRecord("pending", NoInterval, s, TRUE)]
          /\ rq' = [rq EXCEPT ![i] = "queued"]
    /\ UNCHANGED <<worker, interval, enabled, on>>

Work(w) ==
    \/ \E i \in worker[w].todo \cap Slots : CheckGhost(w, i)
    \/ DeleteGhost(w) \/ EnqueueOnce(w) \/ Publish(w)
    \/ ReadConfig(w) \/ (\E s \in worker[w].todo \cap Servers : SyncServer(w, s))
    \/ Terminate(w) \/ Successor(w)

Fault(w) == HealFails(w) \/ ConfigFails(w) \/ Crash(w) \/ Kill(w) \/ \E i \in Slots : StartFails(w, i)
Take(w) == \E i \in Slots : StartRun(w, i)

Next ==
    \/ \E w \in Workers : Boot(w) \/ Work(w) \/ Take(w) \/ Fault(w)
    \/ \E every \in Intervals, switch \in BOOLEAN : SaveConfig(every, switch)
    \/ \E s \in Servers : Toggle(s) \/ SyncNow(s)

\* A worker goes on with what it does, and takes an entry of RQ unless it is
\* stopped again and again.
Fairness == \A w \in Workers : WF_vars(Work(w)) /\ SF_vars(Take(w))

Spec == Init /\ [][Next]_vars /\ Fairness

----------------------------------------------------------------------------
(* Properties.                                                             *)

TypeOK ==
    /\ \A i \in Slots : record[i] # None =>
         record[i] \in [status: {"scheduled", "pending", "running"}, interval: Intervals \union {NoInterval},
                        server: Servers \union {None}, fresh: BOOLEAN]
    /\ rq \in [Slots -> {"missing", "queued", "started", "failed"}]
    /\ interval \in Intervals /\ enabled \in BOOLEAN /\ on \subseteq Servers
    /\ \A w \in Workers :
         /\ worker[w].pc \in {"down", "heal", "ghost", "publish", "up", "config", "sync", "successor"}
         /\ worker[w].id \in Slots \union {None}
         /\ worker[w].todo \subseteq IF worker[w].pc \in {"heal", "ghost"} THEN Slots ELSE Servers

\* What a killed run leaves: its record counts as a live job, and no start of a
\* worker removes it. It stands in the way while it has the saved interval.
LeftRunning(i) == record[i].status = "running" /\ rq[i] = "failed" /\ record[i].interval = interval

(* The periodic synchronization stops for good only behind the record of a *)
(* killed run: when workers start again and again, and no such record      *)
(* stays for ever, runs end again and again, whatever was lost between the *)
(* database and the queue before (_heal_ghost_scheduled_jobs). A new       *)
(* interval replaces the record of the killed run (enqueue_once).          *)
PeriodicGoesOn ==
    /\ []<><<\E w \in Workers : Boot(w)>>_vars
    /\ []<>(\A i \in Periodic : ~LeftRunning(i))
    => []<><<\E w \in Workers : worker[w].server = None /\ Terminate(w)>>_vars

(* A run leaves no Server out: one that is enabled from the start of the   *)
(* run to its end has an entry in the summary, also after the error of     *)
(* another Server (_run_sync).                                             *)
EveryServerTried ==
    \A w \in Workers : worker[w].pc = "sync" /\ worker[w].todo = {} => worker[w].must \subseteq worker[w].summary

(* "A new interval applies after the next scheduled run": the successor of *)
(* a run that read the settings after the last save has the saved interval *)
(* (_run_sync, SyncJobsView.post).                                         *)
IntervalApplies ==
    \A i \in Waiting : record[i].fresh => record[i].interval = interval

\* A run tries every Server, and its successor has the interval that it read.
RunsHold == EveryServerTried /\ IntervalApplies
=============================================================================
