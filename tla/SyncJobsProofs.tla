----------------------------- MODULE SyncJobsProofs -----------------------------
(***************************************************************************)
(* Theorems about SyncJobs, for every value of its constants: types, and   *)
(* what each run and its successor hold; and about AdoptionBarrier, the    *)
(* receipts that these runs leave.                                         *)
(***************************************************************************)
EXTENDS SyncJobs, TLAPS

------------------------------------------------------------------------------
(* The inductive invariant.                                                *)

Records == [status : {"scheduled", "pending", "running"}, interval : Intervals \union {NoInterval},
            server : Servers \union {None}, fresh : BOOLEAN]
Locals == [pc : {"down", "heal", "ghost", "publish", "up", "config", "sync", "successor"},
           todo : SUBSET (Slots \union Servers), id : Slots \union {None}, server : Servers \union {None},
           interval : Intervals \union {NoInterval}, fresh : BOOLEAN, must : SUBSET Servers, summary : SUBSET Servers]

\* The settings are of their types, and so are the records and their entries.
SettingsOK == interval \in Intervals /\ enabled \in BOOLEAN /\ on \subseteq Servers
JobsOK == record \in [Slots -> Records \union {None}] /\ rq \in [Slots -> {"missing", "queued", "started", "failed"}]

\* A worker that synchronizes has a Server that it must try on its list or in its summary; and the interval that it read
\* for its successor is the saved one until somebody saves another.
LocalOK(me) ==
    /\ me.todo \subseteq IF me.pc \in {"heal", "ghost"} THEN Slots ELSE Servers
    /\ me.pc = "sync" => me.must \subseteq me.todo \union me.summary
    /\ me.pc = "sync" /\ me.fresh /\ me.interval # NoInterval => me.interval = interval
    /\ me.pc = "successor" /\ me.fresh => me.interval = interval
WorkersOK == worker \in [Workers -> Locals] /\ \A w \in Workers : LocalOK(worker[w])

\* An entry of RQ that waits has its record.
QueuedHasRecord == \A i \in Slots : rq[i] = "queued" => record[i] \in Records

IInv == SettingsOK /\ JobsOK /\ WorkersOK /\ QueuedHasRecord /\ IntervalApplies

LEMMA IInvHolds == IInv => TypeOK /\ RunsHold
<1> SUFFICES ASSUME IInv PROVE TypeOK /\ RunsHold
  OBVIOUS
<1>1. TypeOK
  BY DEF IInv, SettingsOK, JobsOK, WorkersOK, LocalOK, TypeOK, Records, Locals
<1>2. EveryServerTried
  BY DEF IInv, WorkersOK, LocalOK, EveryServerTried
<1> QED
  BY <1>1, <1>2 DEF IInv, RunsHold

------------------------------------------------------------------------------
(* What a step changes.                                                    *)

LEMMA DownOK == Down \in Locals /\ LocalOK(Down) /\ [Down EXCEPT !.pc = "up"] \in Locals /\ LocalOK([Down EXCEPT !.pc = "up"])
BY DEF Down, Locals, LocalOK

\* A step of one worker keeps what holds of all.
LEMMA SetKeeps ==
    ASSUME WorkersOK, NEW w \in Workers, NEW me \in Locals, Set(w, me), LocalOK(me), interval' = interval
    PROVE  WorkersOK'
<1>1. worker' \in [Workers -> Locals]
  BY DEF WorkersOK, Set
<1>2. ASSUME NEW u \in Workers PROVE LocalOK(worker[u])'
  <2>1. LocalOK(worker'[u])
    BY DEF WorkersOK, Set
  <2> QED
    BY <2>1 DEF LocalOK
<1> QED
  BY <1>1, <1>2 DEF WorkersOK

\* A step that leaves the records and the settings alone keeps the invariant when no entry is queued by it.
LEMMA QuietKeeps ==
    ASSUME IInv, WorkersOK', UNCHANGED <<record, interval, enabled, on>>,
           rq' \in [Slots -> {"missing", "queued", "started", "failed"}],
           \A i \in Slots : rq'[i] = "queued" => rq[i] = "queued"
    PROVE  IInv'
BY DEF IInv, SettingsOK, JobsOK, QueuedHasRecord, IntervalApplies, Waiting, Periodic

\* A job that ends or is deleted leaves no entry that waits.
LEMMA RemovedKeeps ==
    ASSUME IInv, WorkersOK', NEW old \in Slots \union {None}, record' = [record EXCEPT ![old] = None],
           rq' \in [Slots -> {"missing", "queued", "started", "failed"}], UNCHANGED <<interval, enabled, on>>,
           \A i \in Slots : rq'[i] = "queued" => rq[i] = "queued" /\ i # old
    PROVE  IInv'
<1>1. JobsOK' /\ \A i \in Slots : record'[i] = IF i = old THEN None ELSE record[i]
  BY DEF IInv, JobsOK
<1>2. QueuedHasRecord'
  BY <1>1 DEF IInv, QueuedHasRecord
<1>3. IntervalApplies'
  BY <1>1 DEF IInv, IntervalApplies, Waiting, Periodic
<1> QED
  BY <1>1, <1>2, <1>3 DEF IInv, SettingsOK

\* A new record is typed, and carries the saved interval if it is fresh and periodic; another may go with its entry.
LEMMA NewJobKeeps ==
    ASSUME IInv, WorkersOK', NEW i \in Slots, NEW old, NEW new \in Records, new.server = None
           /\ new.fresh => new.interval = interval,
           record' = [j \in Slots |-> IF j = i THEN new ELSE IF j = old THEN None ELSE record[j]],
           rq' \in [Slots -> {"missing", "queued", "started", "failed"}], UNCHANGED <<interval, enabled, on>>,
           \A j \in Slots \ {i} : rq'[j] = "queued" => rq[j] = "queued" /\ j # old
    PROVE  IInv'
<1>1. JobsOK'
  BY DEF IInv, JobsOK
<1>2. QueuedHasRecord'
  BY DEF IInv, QueuedHasRecord
<1>3. IntervalApplies'
  BY DEF IInv, IntervalApplies, Waiting, Periodic
<1> QED
  BY <1>1, <1>2, <1>3 DEF IInv, SettingsOK

------------------------------------------------------------------------------
(* Every action keeps the invariant.                                       *)

LEMMA BootKeeps == ASSUME IInv, NEW w \in Workers, Boot(w) PROVE IInv'
<1> DEFINE me == [Down EXCEPT !.pc = "heal", !.todo = Waiting]
<1>1. me \in Locals /\ LocalOK(me)
  BY DEF Down, Locals, LocalOK, Waiting, Periodic
<1>2. WorkersOK'
  BY <1>1, SetKeeps DEF Boot, IInv
<1> QED
  BY <1>2, QuietKeeps DEF Boot, IInv, JobsOK

LEMMA CheckGhostKeeps ==
    ASSUME IInv, NEW w \in Workers, NEW i \in Slots, CheckGhost(w, i)
    PROVE  IInv'
<1> DEFINE ghost == [worker[w] EXCEPT !.pc = "ghost", !.id = i]
           live == [worker[w] EXCEPT !.todo = @ \ {i}]
<1>1. worker[w] \in Locals /\ LocalOK(worker[w]) /\ worker[w].pc = "heal"
  BY DEF CheckGhost, IInv, WorkersOK
<1>2. ghost \in Locals /\ LocalOK(ghost) /\ live \in Locals /\ LocalOK(live)
  BY <1>1 DEF Locals, LocalOK
<1>3. WorkersOK'
  BY <1>2, SetKeeps DEF CheckGhost, IInv
<1> QED
  BY <1>3, QuietKeeps DEF CheckGhost, IInv, JobsOK

LEMMA DeleteGhostKeeps == ASSUME IInv, NEW w \in Workers, DeleteGhost(w) PROVE IInv'
<1> DEFINE me == [worker[w] EXCEPT !.pc = "heal", !.todo = @ \ {worker[w].id}, !.id = None]
<1>1. worker[w] \in Locals /\ LocalOK(worker[w]) /\ worker[w].pc = "ghost"
  BY DEF DeleteGhost, IInv, WorkersOK
<1>2. me \in Locals /\ LocalOK(me)
  BY <1>1 DEF Locals, LocalOK
<1>3. WorkersOK'
  BY <1>2, SetKeeps DEF DeleteGhost, IInv
<1>4. worker[w].id \in Slots \union {None}
  BY <1>1 DEF Locals
<1>5. /\ rq' \in [Slots -> {"missing", "queued", "started", "failed"}]
      /\ \A i \in Slots : rq'[i] = "queued" => rq[i] = "queued" /\ i # worker[w].id
  BY DEF DeleteGhost, Cancelled, IInv, JobsOK
<1> QED
  BY <1>3, <1>4, <1>5, RemovedKeeps DEF DeleteGhost

LEMMA HealFailsKeeps == ASSUME IInv, NEW w \in Workers, HealFails(w) PROVE IInv'
<1>1. PICK rest \in {{}, worker[w].todo \ {worker[w].id}} :
        Set(w, [worker[w] EXCEPT !.pc = "heal", !.todo = rest, !.id = None])
  BY DEF HealFails
<1> DEFINE me == [worker[w] EXCEPT !.pc = "heal", !.todo = rest, !.id = None]
<1>2. worker[w] \in Locals /\ LocalOK(worker[w]) /\ worker[w].pc \in {"heal", "ghost"}
  BY DEF HealFails, IInv, WorkersOK
<1>3. me \in Locals /\ LocalOK(me)
  BY <1>1, <1>2 DEF Locals, LocalOK
<1>4. WorkersOK'
  BY <1>1, <1>3, SetKeeps DEF HealFails, IInv
<1> QED
  BY <1>4, QuietKeeps DEF HealFails, IInv, JobsOK

LEMMA EnqueueOnceKeeps == ASSUME IInv, NEW w \in Workers, EnqueueOnce(w) PROVE IInv'
<1>1. worker[w] \in Locals /\ LocalOK(worker[w]) /\ worker[w].pc = "heal" /\ worker[w].todo = {}
  BY DEF EnqueueOnce, IInv, WorkersOK
<1>2. CASE \E i \in Periodic : record[i].interval = interval
  <2> DEFINE me == [worker[w] EXCEPT !.pc = "up"]
  <2>1. me \in Locals /\ LocalOK(me)
    BY <1>1 DEF Locals, LocalOK
  <2>2. WorkersOK'
    BY <1>2, <2>1, SetKeeps DEF EnqueueOnce, IInv
  <2> QED
    BY <1>2, <2>2, QuietKeeps DEF EnqueueOnce, IInv, JobsOK
<1>3. CASE ~\E i \in Periodic : record[i].interval = interval
  <2> DEFINE new == NewRecord("pending", interval, None, TRUE)
  <2>1. PICK i \in NewSlot, old \in IF Periodic = {} THEN {None} ELSE Periodic :
          /\ record' = [j \in Slots |-> IF j = i THEN new ELSE IF j = old THEN None ELSE record[j]]
          /\ rq' = Cancelled({old}) /\ Set(w, [worker[w] EXCEPT !.pc = "publish", !.id = i])
    BY <1>3 DEF EnqueueOnce
  <2> DEFINE me == [worker[w] EXCEPT !.pc = "publish", !.id = i]
  <2>2. i \in Slots
    BY DEF NewSlot, Free
  <2>3. me \in Locals /\ LocalOK(me)
    BY <1>1, <2>2 DEF Locals, LocalOK
  <2>4. WorkersOK'
    BY <2>1, <2>3, SetKeeps DEF EnqueueOnce, IInv
  <2>5. new \in Records /\ new.interval = interval
    BY DEF NewRecord, Records, IInv, SettingsOK
  <2>6. /\ rq' \in [Slots -> {"missing", "queued", "started", "failed"}]
        /\ \A j \in Slots : rq'[j] = "queued" => rq[j] = "queued" /\ j # old
    BY <2>1 DEF Cancelled, IInv, JobsOK
  <2>7. UNCHANGED <<interval, enabled, on>>
    BY DEF EnqueueOnce
  <2> HIDE DEF new
  <2> QED
    BY <2>1, <2>2, <2>4, <2>5, <2>6, <2>7, NewJobKeeps
<1> QED
  BY <1>2, <1>3

LEMMA PublishKeeps == ASSUME IInv, NEW w \in Workers, Publish(w) PROVE IInv'
<1>1. WorkersOK'
  BY DownOK, SetKeeps DEF Publish, IInv
<1>2. JobsOK' /\ QueuedHasRecord'
  BY DEF Publish, IInv, JobsOK, QueuedHasRecord
<1> QED
  BY <1>1, <1>2 DEF Publish, IInv, SettingsOK, IntervalApplies, Waiting, Periodic

LEMMA StartRunKeeps ==
    ASSUME IInv, NEW w \in Workers, NEW i \in Slots, StartRun(w, i)
    PROVE  IInv'
<1> DEFINE me == [worker[w] EXCEPT !.pc = "config", !.id = i, !.server = record[i].server, !.interval = record[i].interval,
                                   !.fresh = FALSE]
           new == [record[i] EXCEPT !.status = "running"]
<1>1. worker[w] \in Locals /\ LocalOK(worker[w]) /\ worker[w].pc = "up" /\ record[i] \in Records
  BY DEF StartRun, IInv, WorkersOK, JobsOK, QueuedHasRecord
<1>2. me \in Locals /\ LocalOK(me)
  BY <1>1 DEF Locals, LocalOK, Records
<1>3. WorkersOK'
  BY <1>2, SetKeeps DEF StartRun, IInv
<1>4. new \in Records /\ new.status = "running"
  BY <1>1 DEF Records
<1>5. record' = [record EXCEPT ![i] = new] /\ rq' = [rq EXCEPT ![i] = "started"] /\ UNCHANGED <<interval, enabled, on>>
  BY DEF StartRun
<1> HIDE DEF new
<1>6. JobsOK' /\ QueuedHasRecord'
  BY <1>4, <1>5 DEF IInv, JobsOK, QueuedHasRecord
<1>7. IntervalApplies'
  BY <1>4, <1>5 DEF IInv, JobsOK, IntervalApplies, Waiting, Periodic
<1> QED
  BY <1>3, <1>5, <1>6, <1>7 DEF IInv, SettingsOK

LEMMA StartFailsKeeps ==
    ASSUME IInv, NEW w \in Workers, NEW i \in Slots, StartFails(w, i)
    PROVE  IInv'
<1>1. WorkersOK'
  BY DEF StartFails, IInv, WorkersOK, LocalOK
<1> QED
  BY <1>1, QuietKeeps DEF StartFails, IInv, JobsOK

LEMMA ReadConfigKeeps == ASSUME IInv, NEW w \in Workers, ReadConfig(w) PROVE IInv'
<1> DEFINE servers == IF enabled THEN Selected(worker[w]) ELSE {}
           me == [worker[w] EXCEPT !.pc = "sync", !.interval = NextInterval(worker[w]), !.fresh = TRUE,
                                   !.todo = servers, !.must = servers]
<1>1. worker[w] \in Locals /\ LocalOK(worker[w])
  BY DEF IInv, WorkersOK
<1>2. servers \subseteq Servers
  BY <1>1 DEF Selected, Locals, IInv, SettingsOK
<1>3. NextInterval(worker[w]) \in {NoInterval, interval}
  BY DEF NextInterval
<1>4. me \in Locals /\ LocalOK(me)
  <2> HIDE DEF servers
  <2> QED
    BY <1>1, <1>2, <1>3 DEF Locals, LocalOK, IInv, SettingsOK
<1>5. WorkersOK'
  BY <1>4, SetKeeps DEF ReadConfig, IInv
<1> QED
  BY <1>5, QuietKeeps DEF ReadConfig, IInv, JobsOK

LEMMA ConfigFailsKeeps == ASSUME IInv, NEW w \in Workers, ConfigFails(w) PROVE IInv'
<1>1. worker[w] \in Locals /\ LocalOK(worker[w])
  BY DEF IInv, WorkersOK
<1>2. PICK read \in BOOLEAN :
        Set(w, [worker[w] EXCEPT !.pc = "sync", !.fresh = read, !.todo = {}, !.must = {},
                                 !.interval = IF read THEN NextInterval(worker[w]) ELSE @])
  BY DEF ConfigFails
<1> DEFINE every == IF read THEN NextInterval(worker[w]) ELSE worker[w].interval
           me == [worker[w] EXCEPT !.pc = "sync", !.fresh = read, !.todo = {}, !.must = {}, !.interval = every]
<1>3. every \in Intervals \union {NoInterval} /\ (read => every \in {NoInterval, interval})
  BY <1>1 DEF NextInterval, Locals, IInv, SettingsOK
<1>4. me \in Locals /\ LocalOK(me)
  <2> HIDE DEF every
  <2> QED
    BY <1>1, <1>3 DEF Locals, LocalOK
<1>5. WorkersOK'
  BY <1>2, <1>4, SetKeeps DEF ConfigFails, IInv
<1> QED
  BY <1>5, QuietKeeps DEF ConfigFails, IInv, JobsOK

LEMMA SyncServerKeeps ==
    ASSUME IInv, NEW w \in Workers, NEW s \in Servers, SyncServer(w, s)
    PROVE  IInv'
<1> DEFINE me == [worker[w] EXCEPT !.todo = worker[w].todo \ {s}, !.summary = @ \union {s}]
<1>1. worker[w] \in Locals /\ LocalOK(worker[w]) /\ worker[w].pc = "sync"
  BY DEF SyncServer, IInv, WorkersOK
<1>2. me \in Locals /\ LocalOK(me)
  BY <1>1 DEF Locals, LocalOK
<1>3. WorkersOK'
  BY <1>2, SetKeeps DEF SyncServer, Rest, IInv
<1> QED
  BY <1>3, QuietKeeps DEF SyncServer, IInv, JobsOK

LEMMA TerminateKeeps == ASSUME IInv, NEW w \in Workers, Terminate(w) PROVE IInv'
<1> DEFINE next == [worker[w] EXCEPT !.pc = "successor", !.id = None]
<1>1. worker[w] \in Locals /\ LocalOK(worker[w]) /\ worker[w].pc = "sync"
  BY DEF Terminate, IInv, WorkersOK
<1>2. worker[w].interval # NoInterval => next \in Locals /\ LocalOK(next)
  BY <1>1 DEF Locals, LocalOK
<1>3. WorkersOK'
  BY <1>2, DownOK, SetKeeps DEF Terminate, IInv
<1>4. worker[w].id \in Slots \union {None}
  BY <1>1 DEF Locals
<1>5. /\ rq' \in [Slots -> {"missing", "queued", "started", "failed"}]
      /\ \A i \in Slots : rq'[i] = "queued" => rq[i] = "queued" /\ i # worker[w].id
  BY DEF Terminate, IInv, JobsOK
<1> QED
  BY <1>3, <1>4, <1>5, RemovedKeeps DEF Terminate

LEMMA SuccessorKeeps == ASSUME IInv, NEW w \in Workers, Successor(w) PROVE IInv'
<1> DEFINE new == NewRecord("scheduled", worker[w].interval, None, worker[w].fresh)
<1>1. PICK i \in NewSlot : record' = [record EXCEPT ![i] = new] /\ Set(w, [worker[w] EXCEPT !.pc = "publish", !.id = i])
  BY DEF Successor
<1> DEFINE me == [worker[w] EXCEPT !.pc = "publish", !.id = i]
<1>2. worker[w] \in Locals /\ LocalOK(worker[w]) /\ worker[w].pc = "successor" /\ i \in Slots
  BY DEF Successor, IInv, WorkersOK, NewSlot, Free
<1>3. me \in Locals /\ LocalOK(me)
  BY <1>2 DEF Locals, LocalOK
<1>4. WorkersOK'
  BY <1>1, <1>3, SetKeeps DEF Successor, IInv
<1>5. new \in Records /\ (new.fresh => new.interval = interval)
  BY <1>2 DEF NewRecord, Records, Locals, LocalOK
<1> HIDE DEF new
<1>6. JobsOK' /\ QueuedHasRecord'
  BY <1>1, <1>2, <1>5 DEF Successor, IInv, JobsOK, QueuedHasRecord
<1> QED
  BY <1>1, <1>2, <1>4, <1>5, <1>6 DEF Successor, IInv, SettingsOK, JobsOK, IntervalApplies, Waiting, Periodic

LEMMA WorkKeeps == ASSUME IInv, NEW w \in Workers, Work(w) PROVE IInv'
BY CheckGhostKeeps, DeleteGhostKeeps, EnqueueOnceKeeps, PublishKeeps, ReadConfigKeeps, SyncServerKeeps, TerminateKeeps,
   SuccessorKeeps DEF Work

\* A worker that stops, within a run or outside one.
LEMMA StopKeeps == ASSUME IInv, NEW w \in Workers, Crash(w) \/ Kill(w) PROVE IInv'
<1>1. WorkersOK'
  BY DownOK, SetKeeps DEF Crash, Kill, IInv
<1> QED
  BY <1>1, QuietKeeps DEF Crash, Kill, IInv, JobsOK

LEMMA SaveConfigKeeps ==
    ASSUME IInv, NEW every \in Intervals, NEW switch \in BOOLEAN, SaveConfig(every, switch)
    PROVE  IInv'
<1>1. SettingsOK'
  BY DEF SaveConfig, IInv, SettingsOK
<1>2. ASSUME NEW i \in Slots, record[i] \in Records
      PROVE  [record[i] EXCEPT !.fresh = FALSE] \in Records /\ ~[record[i] EXCEPT !.fresh = FALSE].fresh
  BY <1>2 DEF Records
<1>3. JobsOK' /\ QueuedHasRecord'
  BY <1>2 DEF SaveConfig, IInv, JobsOK, QueuedHasRecord
<1>4. IntervalApplies'
  BY <1>2 DEF SaveConfig, IInv, JobsOK, IntervalApplies, Waiting, Periodic
<1>5. ASSUME NEW w \in Workers PROVE worker'[w] \in Locals /\ LocalOK(worker[w])'
  <2>1. worker[w] \in Locals /\ LocalOK(worker[w]) /\ worker'[w] = [worker[w] EXCEPT !.fresh = FALSE]
    BY DEF SaveConfig, IInv, WorkersOK
  <2> DEFINE old == worker[w]  new == [old EXCEPT !.fresh = FALSE]
  <2>2. /\ new \in Locals /\ ~new.fresh /\ new.pc = old.pc /\ new.todo = old.todo /\ new.must = old.must
        /\ new.summary = old.summary
    BY <2>1 DEF Locals
  <2>3. worker'[w] = new
    BY <2>1
  <2> HIDE DEF new
  <2> QED
    BY <2>1, <2>2, <2>3 DEF LocalOK
<1>6. WorkersOK'
  BY <1>5 DEF SaveConfig, WorkersOK
<1> QED
  BY <1>1, <1>3, <1>4, <1>6 DEF IInv

LEMMA ToggleKeeps == ASSUME IInv, NEW s \in Servers, Toggle(s) PROVE IInv'
<1>1. SettingsOK'
  BY DEF Toggle, IInv, SettingsOK
<1>2. ASSUME NEW w \in Workers PROVE worker'[w] \in Locals /\ LocalOK(worker[w])'
  <2> DEFINE old == worker[w]  new == [old EXCEPT !.must = old.must \ {s}]
  <2>1. old \in Locals /\ LocalOK(old) /\ interval' = interval /\ worker'[w] \in {old, new}
    BY DEF Toggle, IInv, WorkersOK
  <2>2. /\ new \in Locals /\ new.fresh = old.fresh /\ new.pc = old.pc /\ new.todo = old.todo
        /\ new.must = old.must \ {s} /\ new.summary = old.summary /\ new.interval = old.interval
    BY <2>1 DEF Locals
  <2>3. worker'[w].must \subseteq old.must /\ worker'[w] \in Locals
    BY <2>1, <2>2
  <2> HIDE DEF new
  <2>4. CASE worker'[w] = old
    BY <2>1, <2>4 DEF LocalOK
  <2>5. CASE worker'[w] = new
    BY <2>1, <2>2, <2>5 DEF LocalOK
  <2> QED
    BY <2>1, <2>3, <2>4, <2>5
<1>3. WorkersOK'
  BY <1>2 DEF Toggle, WorkersOK
<1> QED
  BY <1>1, <1>3 DEF Toggle, IInv, JobsOK, QueuedHasRecord, IntervalApplies, Waiting, Periodic

LEMMA SyncNowKeeps == ASSUME IInv, NEW s \in Servers, SyncNow(s) PROVE IInv'
<1> DEFINE new == NewRecord("pending", NoInterval, s, TRUE)
<1>1. PICK i \in Slots : record' = [record EXCEPT ![i] = new] /\ rq' = [rq EXCEPT ![i] = "queued"]
  BY DEF SyncNow, NewSlot, Free
<1>2. new \in Records /\ new.server # None
  BY JobsAssumption DEF NewRecord, Records
<1>3. UNCHANGED <<worker, interval, enabled, on>>
  BY DEF SyncNow
<1> HIDE DEF new
<1>4. JobsOK' /\ QueuedHasRecord'
  BY <1>1, <1>2 DEF IInv, JobsOK, QueuedHasRecord
<1>5. IntervalApplies'
  BY <1>1, <1>2, <1>3 DEF IInv, JobsOK, IntervalApplies, Waiting, Periodic
<1> QED
  BY <1>3, <1>4, <1>5 DEF IInv, SettingsOK, WorkersOK, LocalOK

LEMMA IInvInit == Init => IInv
<1> SUFFICES ASSUME Init PROVE IInv
  OBVIOUS
<1>1. WorkersOK
  BY DownOK DEF Init, WorkersOK
<1>2. IntervalApplies
  BY DEF Init, IntervalApplies, Waiting, Periodic
<1> QED
  BY <1>1, <1>2 DEF Init, IInv, SettingsOK, JobsOK, QueuedHasRecord

LEMMA IInvNext == IInv /\ [Next]_vars => IInv'
<1> SUFFICES ASSUME IInv, [Next]_vars PROVE IInv'
  OBVIOUS
<1>1. ASSUME NEW w \in Workers, Boot(w) \/ Work(w) \/ Take(w) \/ Fault(w) PROVE IInv'
  BY <1>1, BootKeeps, WorkKeeps, StartRunKeeps, HealFailsKeeps, ConfigFailsKeeps, StopKeeps, StartFailsKeeps DEF Take, Fault
<1>2. ASSUME NEW every \in Intervals, NEW switch \in BOOLEAN, SaveConfig(every, switch) PROVE IInv'
  BY <1>2, SaveConfigKeeps
<1>3. ASSUME NEW s \in Servers, Toggle(s) \/ SyncNow(s) PROVE IInv'
  BY <1>3, ToggleKeeps, SyncNowKeeps
<1>4. CASE UNCHANGED vars
  BY <1>4 DEF vars, IInv, SettingsOK, JobsOK, WorkersOK, LocalOK, QueuedHasRecord, IntervalApplies, Waiting, Periodic
<1> QED
  BY <1>1, <1>2, <1>3, <1>4 DEF Next

\* The jobs, the entries of RQ, the workers and the settings are of their types.
THEOREM TypeCorrect == Spec => []TypeOK
BY IInvInit, IInvNext, IInvHolds, PTL DEF Spec

\* A run tries every Server that is enabled from its start to its end, whatever failed before; and the successor of a run
\* that read the settings after the last save has the saved interval, whoever else starts, stops or saves (_run_sync,
\* SyncJobsView.post).
THEOREM RunsCorrect == Spec => []RunsHold
BY IInvInit, IInvNext, IInvHolds, PTL DEF Spec

------------------------------------------------------------------------------
(* The barrier that keeps adopted objects (AdoptionBarrier): the inductive *)
(* invariant says what a run has linked of what Kea reports, and what a    *)
(* receipt rests on.                                                       *)

CONSTANTS Actors, StartPresent, StartSettings, StartKea, SettingChoices, ConfigChoices, MaxOrders,
MaxEdits     \* AdoptionBarrier
VARIABLES kea, config, present, setting, receipt, first, link, exists, actor, form, settled

Barrier == INSTANCE AdoptionBarrier

BarrierLocal == [pc : {"idle", "claim", "choose", "remove", "publish"}, server : Servers \union {None},
    workflow : Barrier!Workflows,
          plan : SUBSET Barrier!SourceKinds, flags : SUBSET Barrier!Flags, whole : SUBSET Barrier!SourceKinds,
          seen : SUBSET Barrier!Owners, errors : BOOLEAN]

BarrierTypes ==
    /\ kea \subseteq Barrier!Owners /\ config \subseteq Barrier!SourceKinds /\ present \subseteq Servers
       /\ setting \in [Servers -> SUBSET Barrier!Flags]
    /\ receipt \in [Servers -> [Barrier!Workflows -> SUBSET Barrier!SourceKinds]]
    /\ first \in [Servers -> BOOLEAN] /\ settled \in [Servers -> BOOLEAN] /\ exists \in BOOLEAN
       /\ link \subseteq Barrier!Owners
    /\ actor \in [Actors -> BarrierLocal]

\* The links of what Kea reports for the sources of s.
BarrierLinked(s, sources) == exists => \A src \in sources : <<s, src>> \in kea => <<s, src>> \in link

\* A run has linked what its phases saw, and saw all that Kea still reports.
BarrierRunOK(a) ==
    /\ actor[a].pc \in {"choose", "remove", "publish"} =>
          /\ kea \subseteq actor[a].seen
          /\ actor[a].server \in present => BarrierLinked(actor[a].server, actor[a].whole)
    /\ actor[a].pc # "idle" => actor[a].server \in Servers
    /\ actor[a].pc = "remove" /\ exists => Barrier!CanReport \intersect kea = {}

\* What a receipt says was observed has its link while it is reported.
BarrierReceiptsLinked == \A s \in present, w \in Barrier!Workflows : BarrierLinked(s, receipt[s][w])

\* The Server observed all that it can report.
BarrierObserved(s) == \A w \in Barrier!Workflows : Barrier!EffectiveSources(setting[s], config)[w] \subseteq receipt[s][w]
BarrierSettledOK == \A s \in present : settled[s] => BarrierObserved(s)

BarrierIInv == BarrierTypes /\ (\A a \in Actors : BarrierRunOK(a)) /\ BarrierReceiptsLinked /\ BarrierSettledOK

LEMMA BarrierEffectiveType ==
    ASSUME NEW flags \in SUBSET Barrier!Flags, NEW sources \in SUBSET Barrier!SourceKinds
    PROVE  \A w \in Barrier!Workflows : Barrier!EffectiveSources(flags, sources)[w] \subseteq Barrier!SourceKinds
<1>1. Barrier!EffectiveSources(flags, sources)["job"] \subseteq Barrier!SourceKinds
  BY DEF Barrier!EffectiveSources
<1>2. Barrier!EffectiveSources(flags, sources)["import"] \subseteq Barrier!SourceKinds
  BY DEF Barrier!EffectiveSources, Barrier!SourceKinds
<1> QED
  BY <1>1, <1>2 DEF Barrier!Workflows

LEMMA BarrierInitIInv == Barrier!BarrierAssumption /\ Barrier!Init => BarrierIInv
<1> SUFFICES ASSUME Barrier!BarrierAssumption, Barrier!Init PROVE BarrierIInv
  OBVIOUS
<1>1. Barrier!Idle \in BarrierLocal
  BY DEF Barrier!Idle, BarrierLocal, Barrier!Workflows
<1>2. Barrier!NoReceipts \in [Barrier!Workflows -> SUBSET Barrier!SourceKinds]
      /\ \A w \in Barrier!Workflows : Barrier!NoReceipts[w] = {}
  BY DEF Barrier!NoReceipts
<1>3. BarrierTypes
  BY <1>1, <1>2 DEF Barrier!Init, BarrierTypes, Barrier!BarrierAssumption
<1>4. \A a \in Actors : BarrierRunOK(a)
  BY DEF Barrier!Init, BarrierRunOK, Barrier!Idle
<1>5. BarrierReceiptsLinked /\ BarrierSettledOK
  BY <1>2 DEF Barrier!Init, BarrierReceiptsLinked, BarrierSettledOK, BarrierLinked, Barrier!BarrierAssumption
<1> QED
  BY <1>3, <1>4, <1>5 DEF BarrierIInv

\* A step of a run that changes only itself.
LEMMA BarrierOwnStep ==
    ASSUME BarrierIInv, NEW a \in Actors, NEW new \in BarrierLocal, actor' = [actor EXCEPT ![a] = new],
           UNCHANGED <<kea, config, present, setting, receipt, first, link, exists, settled>>, BarrierRunOK(a)'
    PROVE  BarrierIInv'
<1>1. actor' \in [Actors -> BarrierLocal] /\ \A b \in Actors : b # a => actor'[b] = actor[b]
  BY DEF BarrierIInv, BarrierTypes
<1>2. BarrierTypes'
  BY <1>1 DEF BarrierIInv, BarrierTypes
<1>3. ASSUME NEW b \in Actors PROVE BarrierRunOK(b)'
  <2>1. CASE b = a
    BY <2>1
  <2>2. CASE b # a
    <3>1. BarrierRunOK(b) /\ actor'[b] = actor[b]
      BY <1>1, <2>2 DEF BarrierIInv
    <3> QED
      BY <3>1 DEF BarrierRunOK, BarrierLinked, Barrier!CanReport
  <2> QED
    BY <2>1, <2>2
<1>4. BarrierReceiptsLinked' /\ BarrierSettledOK'
  BY DEF BarrierIInv, BarrierReceiptsLinked, BarrierSettledOK, BarrierLinked, BarrierObserved
<1> QED
  BY <1>2, <1>3, <1>4 DEF BarrierIInv

LEMMA BarrierStartStep ==
    ASSUME BarrierIInv, NEW a \in Actors, NEW s \in Servers, NEW w \in Barrier!Workflows, Barrier!Start(a, s, w)
    PROVE  BarrierIInv'
<1> DEFINE new == [Barrier!Idle EXCEPT !.pc = "claim", !.server = s, !.workflow = w, !.flags = setting[s],
                           !.plan = Barrier!EffectiveSources(setting[s], config)[w]]
<1>1. /\ actor' = [actor EXCEPT ![a] = new]
      /\ UNCHANGED <<kea, config, present, setting, receipt, first, link, exists, settled>>
  BY DEF Barrier!Start, Barrier!Set
<1>2. setting[s] \in SUBSET Barrier!Flags /\ Barrier!EffectiveSources(setting[s], config)[w] \subseteq Barrier!SourceKinds
  BY BarrierEffectiveType DEF BarrierIInv, BarrierTypes
<1>3. new \in BarrierLocal /\ new.pc = "claim" /\ new.server = s
  BY <1>2 DEF Barrier!Idle, BarrierLocal
<1>4. actor'[a] = new
  BY <1>1 DEF BarrierIInv, BarrierTypes
<1> HIDE DEF new
<1>5. BarrierRunOK(a)'
  BY <1>3, <1>4 DEF BarrierRunOK
<1> QED
  BY <1>1, <1>3, <1>5, BarrierOwnStep

LEMMA BarrierClaimStep == ASSUME BarrierIInv, NEW a \in Actors, Barrier!Claim(a) PROVE BarrierIInv'
<1> DEFINE me == actor[a]
           s == me.server
<1>1. /\ me.pc = "claim" /\ Barrier!IdentityFree /\ s \in present
      /\ UNCHANGED <<kea, config, present, setting, receipt, first, exists, form, settled>>
      /\ me \in BarrierLocal
  BY DEF Barrier!Claim, BarrierIInv, BarrierTypes
<1>2. PICK failed \in SUBSET me.plan :
          /\ link' = IF exists THEN link \union (kea \cap ({s} \X (me.plan \ failed))) ELSE link
          /\ actor' = [actor EXCEPT ![a] = [me EXCEPT !.whole = me.plan \ failed, !.seen = kea,
                           !.pc = IF me.workflow = "job" THEN "choose" ELSE "publish"]]
  BY DEF Barrier!Claim, Barrier!Set
<1> DEFINE whole == me.plan \ failed
           new == [me EXCEPT !.whole = whole, !.seen = kea, !.pc = IF me.workflow = "job" THEN "choose" ELSE "publish"]
<1>3. /\ new \in BarrierLocal /\ new.pc \in {"choose", "publish"} /\ new.server = s /\ new.whole = whole /\ new.seen = kea
  BY <1>1 DEF BarrierLocal, BarrierIInv, BarrierTypes
<1>4. /\ actor' \in [Actors -> BarrierLocal] /\ actor'[a] = new /\ \A b \in Actors : b # a => actor'[b] = actor[b]
  BY <1>2, <1>3 DEF BarrierIInv, BarrierTypes
<1>5. link \subseteq link' /\ link' \subseteq Barrier!Owners
  BY <1>2 DEF BarrierIInv, BarrierTypes
<1> HIDE DEF new
<1>6. \A t, sources : BarrierLinked(t, sources) => BarrierLinked(t, sources)'
  BY <1>1, <1>5 DEF BarrierLinked
<1>7. BarrierRunOK(a)'
  <2>1. \A src \in whole : exists /\ <<s, src>> \in kea => <<s, src>> \in link'
    BY <1>1, <1>2
  <2>2. \A src \in new.whole : exists' /\ <<new.server, src>> \in kea' => <<new.server, src>> \in link'
    BY <2>1, <1>1, <1>3
  <2>3. s \in Servers
    BY <1>1 DEF BarrierIInv, BarrierTypes
  <2>4. kea' \subseteq new.seen
    BY <1>1, <1>3
  <2>5. BarrierLinked(actor[a].server, actor[a].whole)'
    BY <2>2, <1>4 DEF BarrierLinked
  <2> HIDE DEF s, me, whole
  <2> QED
    BY <2>3, <2>4, <2>5, <1>3, <1>4 DEF BarrierRunOK
<1>8. ASSUME NEW b \in Actors, b # a PROVE BarrierRunOK(b)'
  <2>1. BarrierRunOK(b) /\ actor'[b] = actor[b]
    BY <1>4, <1>8 DEF BarrierIInv
  <2>2. Barrier!CanReport' = Barrier!CanReport
    BY <1>1 DEF Barrier!CanReport
  <2> QED
    BY <2>1, <2>2, <1>1, <1>6 DEF BarrierRunOK
<1>9. BarrierReceiptsLinked' /\ BarrierSettledOK'
  BY <1>1, <1>6 DEF BarrierIInv, BarrierReceiptsLinked, BarrierSettledOK, BarrierObserved
<1>10. BarrierTypes'
  BY <1>1, <1>4, <1>5 DEF BarrierIInv, BarrierTypes
<1> QED
  BY <1>7, <1>8, <1>9, <1>10 DEF BarrierIInv

\* The links that a step takes are of owners that no longer report.
LEMMA BarrierCleanStep == ASSUME BarrierIInv, NEW a \in Actors, Barrier!Clean(a) PROVE BarrierIInv'
<1> DEFINE me == actor[a]
<1>1. /\ me.pc = "choose" /\ Barrier!IdentityFree /\ me \in BarrierLocal
      /\ UNCHANGED <<kea, config, present, setting, receipt, first, exists, settled>>
  BY DEF Barrier!Clean, BarrierIInv, BarrierTypes
<1>2. BarrierRunOK(a)
  BY DEF BarrierIInv
<1>3. kea \subseteq me.seen
  BY <1>1, <1>2 DEF BarrierRunOK
<1>4. ASSUME NEW new \in BarrierLocal, actor' = [actor EXCEPT ![a] = new], UNCHANGED link, new.server = me.server,
             new.whole = me.whole,
             new.seen = me.seen, new.pc \in {"publish", "remove"}, new.pc = "remove"
             /\ exists => Barrier!CanReport \intersect kea = {}
      PROVE  BarrierIInv'
  <2>1. actor'[a] = new
    BY <1>4 DEF BarrierIInv, BarrierTypes
  <2>2. (Barrier!CanReport \intersect kea)' = Barrier!CanReport \intersect kea
    BY <1>1 DEF Barrier!CanReport
  <2>3. BarrierRunOK(a)'
    BY <2>1, <2>2, <1>1, <1>2, <1>4 DEF BarrierRunOK, BarrierLinked
  <2> QED
    BY <2>3, <1>1, <1>4, BarrierOwnStep
<1>5. ASSUME NEW o \in Barrier!Stale(a), link' = link \ {o}, UNCHANGED actor PROVE BarrierIInv'
  <2>1. o \notin kea
    BY <1>3, <1>5 DEF Barrier!Stale
  <2>2. \A t, sources : BarrierLinked(t, sources) => BarrierLinked(t, sources)'
    BY <2>1, <1>1, <1>5 DEF BarrierLinked
  <2>3. Barrier!CanReport' = Barrier!CanReport
    BY <1>1 DEF Barrier!CanReport
  <2>4. \A b \in Actors : BarrierRunOK(b)'
    BY <2>2, <2>3, <1>1, <1>5 DEF BarrierRunOK, BarrierIInv
  <2>5. BarrierReceiptsLinked' /\ BarrierSettledOK'
    BY <2>2, <1>1 DEF BarrierIInv, BarrierReceiptsLinked, BarrierSettledOK, BarrierObserved
  <2>6. BarrierTypes'
    BY <1>1, <1>5 DEF BarrierIInv, BarrierTypes
  <2> QED
    BY <2>4, <2>5, <2>6 DEF BarrierIInv
<1>6. ASSUME NEW o \in Barrier!Stale(a), link \ {o} = {}, Barrier!PendingAdoptions = {},
             exists PROVE Barrier!CanReport \intersect kea = {}
  <2> SUFFICES ASSUME NEW q \in Barrier!CanReport, q \in kea PROVE FALSE
    OBVIOUS
  <2>1. PICK w \in Barrier!Workflows : q[2] \in Barrier!EffectiveSources(setting[q[1]], config)[w]
    BY DEF Barrier!CanReport
  <2>2. q \in present \X Barrier!SourceKinds
    BY DEF Barrier!CanReport
  <2>3. q \notin Barrier!PendingAdoptions
    BY <1>6
  <2>4. q[2] \in receipt[q[1]][w]
    BY <2>1, <2>2, <2>3 DEF Barrier!PendingAdoptions
  <2>5. q[1] \in present /\ q = <<q[1], q[2]>>
    BY <2>2
  <2>6. BarrierLinked(q[1], receipt[q[1]][w])
    BY <2>5, <2>1 DEF BarrierIInv, BarrierReceiptsLinked
  <2>7. q \in link
    BY <2>4, <2>5, <2>6, <1>6 DEF BarrierLinked
  <2>8. o \notin kea
    BY <1>3, <1>6 DEF Barrier!Stale
  <2> QED
    BY <2>7, <2>8, <1>6
<1> DEFINE published == [me EXCEPT !.pc = "publish"]
           failed == [me EXCEPT !.pc = "publish", !.errors = TRUE]
           removing == [me EXCEPT !.pc = "remove"]
<1>7. /\ published \in BarrierLocal /\ published.pc = "publish" /\ published.server = me.server
         /\ published.whole = me.whole /\ published.seen = me.seen
      /\ failed \in BarrierLocal /\ failed.pc = "publish" /\ failed.server = me.server /\ failed.whole = me.whole
         /\ failed.seen = me.seen
      /\ removing \in BarrierLocal /\ removing.pc = "remove" /\ removing.server = me.server /\ removing.whole = me.whole
         /\ removing.seen = me.seen
  BY <1>1 DEF BarrierLocal
<1>8. \/ actor' = [actor EXCEPT ![a] = published] /\ UNCHANGED link
      \/ actor' = [actor EXCEPT ![a] = failed] /\ UNCHANGED link
      \/ \E o \in Barrier!Stale(a) : link' = link \ {o} /\ UNCHANGED actor
      \/ \E o \in Barrier!Stale(a) : link \ {o} = {} /\ Barrier!PendingAdoptions = {}
         /\ actor' = [actor EXCEPT ![a] = removing] /\ UNCHANGED link
  BY DEF Barrier!Clean, Barrier!Set
<1> HIDE DEF published, failed, removing
<1>9. CASE actor' = [actor EXCEPT ![a] = published] /\ UNCHANGED link
  BY <1>9, <1>7, <1>4
<1>10. CASE actor' = [actor EXCEPT ![a] = failed] /\ UNCHANGED link
  BY <1>10, <1>7, <1>4
<1>11. CASE \E o \in Barrier!Stale(a) : link' = link \ {o} /\ UNCHANGED actor
  BY <1>11, <1>5
<1>12. CASE \E o \in Barrier!Stale(a) : link \ {o} = {} /\ Barrier!PendingAdoptions = {}
            /\ actor' = [actor EXCEPT ![a] = removing] /\ UNCHANGED link
  BY <1>12, <1>7, <1>4, <1>6
<1> QED
  BY <1>8, <1>9, <1>10, <1>11, <1>12

LEMMA BarrierRemoveStep == ASSUME BarrierIInv, NEW a \in Actors, Barrier!Remove(a) PROVE BarrierIInv'
<1> DEFINE new == [actor[a] EXCEPT !.pc = "publish"]
<1>1. actor[a].pc = "remove" /\ link' = {} /\ exists' = FALSE /\ actor' = [actor EXCEPT ![a] = new]
      /\ UNCHANGED <<kea, config, present, setting, receipt, first, settled>> /\ actor[a] \in BarrierLocal
  BY DEF Barrier!Remove, Barrier!Set, BarrierIInv, BarrierTypes
<1>2. new \in BarrierLocal /\ new.pc = "publish" /\ new.server = actor[a].server /\ new.seen = actor[a].seen
  BY <1>1 DEF BarrierLocal
<1>3. actor' \in [Actors -> BarrierLocal] /\ actor'[a] = new /\ \A b \in Actors : b # a => actor'[b] = actor[b]
  BY <1>1, <1>2 DEF BarrierIInv, BarrierTypes
<1> HIDE DEF new
<1>4. \A t, sources : BarrierLinked(t, sources)'
  BY <1>1 DEF BarrierLinked
<1>5. BarrierRunOK(a)'
  <2>1. BarrierRunOK(a)
    BY DEF BarrierIInv
  <2> QED
    BY <2>1, <1>1, <1>2, <1>3, <1>4 DEF BarrierRunOK
<1>6. ASSUME NEW b \in Actors, b # a PROVE BarrierRunOK(b)'
  <2>1. BarrierRunOK(b) /\ actor'[b] = actor[b]
    BY <1>6, <1>3 DEF BarrierIInv
  <2> QED
    BY <2>1, <1>1, <1>4 DEF BarrierRunOK
<1>7. BarrierReceiptsLinked' /\ BarrierSettledOK'
  BY <1>1, <1>4 DEF BarrierIInv, BarrierReceiptsLinked, BarrierSettledOK, BarrierObserved
<1>8. BarrierTypes'
  BY <1>1, <1>3 DEF BarrierIInv, BarrierTypes
<1> QED
  BY <1>5, <1>6, <1>7, <1>8 DEF BarrierIInv

LEMMA BarrierIdleLocal == Barrier!Idle \in BarrierLocal /\ Barrier!Idle.pc = "idle"
BY DEF Barrier!Idle, BarrierLocal, Barrier!Workflows

LEMMA BarrierAbortStep == ASSUME BarrierIInv, NEW a \in Actors, Barrier!Abort(a) PROVE BarrierIInv'
<1>1. actor' = [actor EXCEPT ![a] = Barrier!Idle]
      /\ UNCHANGED <<kea, config, present, setting, receipt, first, link, exists, settled>>
  BY DEF Barrier!Abort, Barrier!Set
<1>2. BarrierRunOK(a)'
  BY <1>1, BarrierIdleLocal DEF BarrierIInv, BarrierTypes, BarrierRunOK
<1> QED
  BY <1>1, <1>2, BarrierIdleLocal, BarrierOwnStep

LEMMA BarrierPublishStep == ASSUME BarrierIInv, NEW a \in Actors, Barrier!Publish(a) PROVE BarrierIInv'
<1> DEFINE me == actor[a]
           s == me.server
           scope == Barrier!EffectiveSources(setting[s], config)
           observed == IF Barrier!Publishes(me) THEN me.plan ELSE {}
           new == [receipt[s] EXCEPT ![me.workflow] = observed]
<1>1. /\ me.pc = "publish" /\ me \in BarrierLocal /\ actor' = [actor EXCEPT ![a] = Barrier!Idle]
      /\ UNCHANGED <<kea, config, present, setting, link, exists>>
  BY DEF Barrier!Publish, Barrier!Set, BarrierIInv, BarrierTypes
<1>2. BarrierRunOK(a)'
  BY <1>1, BarrierIdleLocal DEF BarrierIInv, BarrierTypes, BarrierRunOK
<1>3. CASE UNCHANGED <<receipt, first, settled>>
  BY <1>1, <1>2, <1>3, BarrierIdleLocal, BarrierOwnStep
<1>4. CASE ~UNCHANGED <<receipt, first, settled>>
  <2>1. /\ s \in present /\ observed # {} /\ scope[me.workflow] \subseteq observed
        /\ receipt' = [receipt EXCEPT ![s] = new]
        /\ first' = [first EXCEPT ![s] = @ \/ \A w \in Barrier!Workflows : scope[w] \subseteq new[w]]
        /\ settled' = [settled EXCEPT ![s] = @ \/ first'[s] # first[s]]
    BY <1>4 DEF Barrier!Publish
  <2>2. me.workflow \in Barrier!Workflows /\ me.plan \subseteq Barrier!SourceKinds /\ s \in Servers
    BY <1>1, <2>1 DEF BarrierLocal, BarrierIInv, BarrierTypes
  <2>3. observed = me.plan /\ me.whole = me.plan
    BY <2>1 DEF Barrier!Publishes
  <2>4. receipt[s] \in [Barrier!Workflows -> SUBSET Barrier!SourceKinds]
    BY <2>2 DEF BarrierIInv, BarrierTypes
  <2>5. /\ new \in [Barrier!Workflows -> SUBSET Barrier!SourceKinds] /\ new[me.workflow] = me.plan
        /\ \A w \in Barrier!Workflows : w # me.workflow => new[w] = receipt[s][w]
    BY <2>2, <2>3, <2>4
  <2>6. scope[me.workflow] \subseteq new[me.workflow]
    BY <2>1, <2>3, <2>5
  <2> HIDE DEF new, observed
  <2>7. /\ receipt' \in [Servers -> [Barrier!Workflows -> SUBSET Barrier!SourceKinds]] /\ receipt'[s] = new
        /\ \A t \in Servers : t # s => receipt'[t] = receipt[t]
    BY <2>1, <2>2, <2>5 DEF BarrierIInv, BarrierTypes
  <2>8. /\ first' \in [Servers -> BOOLEAN]
           /\ first'[s] = (first[s] \/ \A w \in Barrier!Workflows : scope[w] \subseteq new[w])
    BY <2>1, <2>2 DEF BarrierIInv, BarrierTypes
  <2>9. /\ settled' \in [Servers -> BOOLEAN] /\ settled'[s] = (settled[s] \/ first'[s] # first[s])
        /\ \A t \in Servers : t # s => settled'[t] = settled[t]
    BY <2>1, <2>2 DEF BarrierIInv, BarrierTypes
  <2>10. BarrierTypes'
    BY <1>1, <2>7, <2>8, <2>9, BarrierIdleLocal DEF BarrierIInv, BarrierTypes
  <2>11. \A t, sources : BarrierLinked(t, sources)' = BarrierLinked(t, sources)
    BY <1>1 DEF BarrierLinked
  <2>12. ASSUME NEW b \in Actors PROVE BarrierRunOK(b)'
    <3>1. CASE b = a
      BY <3>1, <1>2
    <3>2. CASE b # a
      <4>1. BarrierRunOK(b) /\ actor'[b] = actor[b]
        BY <3>2, <1>1 DEF BarrierIInv, BarrierTypes
      <4> QED
        BY <4>1, <2>11, <1>1 DEF BarrierRunOK, Barrier!CanReport
    <3> QED
      BY <3>1, <3>2
  <2>13. BarrierReceiptsLinked'
    <3> SUFFICES ASSUME NEW t \in present', NEW w \in Barrier!Workflows PROVE BarrierLinked(t, receipt[t][w])'
      BY DEF BarrierReceiptsLinked
    <3>1. t \in present /\ t \in Servers
      BY <1>1 DEF BarrierIInv, BarrierTypes
    <3>2. BarrierLinked(t, receipt[t][w])
      BY <3>1 DEF BarrierIInv, BarrierReceiptsLinked
    <3>3. CASE t = s /\ w = me.workflow
      <4>1. BarrierLinked(s, me.whole)
        BY <1>1, <2>1 DEF BarrierIInv, BarrierRunOK
      <4>2. receipt'[t][w] = me.whole
        BY <3>3, <2>3, <2>5, <2>7
      <4> QED
        BY <4>1, <4>2, <3>3, <1>1 DEF BarrierLinked
    <3>4. CASE t # s \/ w # me.workflow
      <4>1. receipt'[t][w] = receipt[t][w]
        BY <3>4, <3>1, <2>5, <2>7
      <4> QED
        BY <4>1, <3>2, <1>1 DEF BarrierLinked
    <3> QED
      BY <3>3, <3>4
  <2>14. BarrierSettledOK'
    <3> SUFFICES ASSUME NEW t \in present', settled'[t] PROVE BarrierObserved(t)'
      BY DEF BarrierSettledOK
    <3>1. t \in present /\ t \in Servers /\ (settled[t] => BarrierObserved(t))
      BY <1>1 DEF BarrierIInv, BarrierTypes, BarrierSettledOK
    <3>2. CASE t # s
      <4>1. receipt'[t] = receipt[t] /\ BarrierObserved(t)
        BY <3>1, <3>2, <2>7, <2>9
      <4> QED
        BY <4>1, <1>1 DEF BarrierObserved
    <3>3. CASE t = s
      <4>1. \A w \in Barrier!Workflows : scope[w] \subseteq new[w]
        <5>1. CASE settled[s]
          <6>1. \A w \in Barrier!Workflows : scope[w] \subseteq receipt[s][w]
            BY <5>1, <3>1, <3>3 DEF BarrierObserved
          <6>2. ASSUME NEW w \in Barrier!Workflows PROVE scope[w] \subseteq new[w]
            <7>1. CASE w = me.workflow
              BY <7>1, <2>6
            <7>2. CASE w # me.workflow
              BY <7>2, <6>1, <2>5
            <7> QED
              BY <7>1, <7>2
          <6> QED
            BY <6>2
        <5>2. CASE ~settled[s]
          <6> DEFINE all == \A w \in Barrier!Workflows : scope[w] \subseteq new[w]
          <6> HIDE DEF scope
          <6>1. first'[s] # first[s]
            BY <5>2, <2>9, <3>3
          <6>2. first[s] \in BOOLEAN /\ all \in BOOLEAN /\ first'[s] = (first[s] \/ all)
            BY <2>2, <2>8 DEF BarrierIInv, BarrierTypes
          <6> HIDE DEF all
          <6>3. all
            BY <6>1, <6>2
          <6> QED
            BY <6>3 DEF all
        <5> QED
          BY <5>1, <5>2
      <4> QED
        BY <4>1, <3>3, <2>7, <1>1 DEF BarrierObserved
    <3> QED
      BY <3>2, <3>3
  <2> QED
    BY <2>10, <2>12, <2>13, <2>14 DEF BarrierIInv
<1> QED
  BY <1>3, <1>4

LEMMA BarrierVanishStep == ASSUME BarrierIInv, NEW o \in Barrier!Owners, Barrier!Vanish(o) PROVE BarrierIInv'
<1>1. kea' \subseteq kea /\ UNCHANGED <<config, present, setting, receipt, first, link, exists, actor, settled>>
  BY DEF Barrier!Vanish
<1>2. \A t, sources : BarrierLinked(t, sources) => BarrierLinked(t, sources)'
  BY <1>1 DEF BarrierLinked
<1>3. Barrier!CanReport' = Barrier!CanReport
  BY <1>1 DEF Barrier!CanReport
<1>4. \A b \in Actors : BarrierRunOK(b)'
  BY <1>1, <1>2, <1>3 DEF BarrierIInv, BarrierRunOK
<1>5. BarrierReceiptsLinked' /\ BarrierSettledOK'
  BY <1>1, <1>2 DEF BarrierIInv, BarrierReceiptsLinked, BarrierSettledOK, BarrierObserved
<1> QED
  BY <1>1, <1>4, <1>5 DEF BarrierIInv, BarrierTypes

LEMMA BarrierSaveConfigStep ==
    ASSUME Barrier!BarrierAssumption, BarrierIInv, NEW sources \in ConfigChoices, Barrier!SaveConfig(sources)
    PROVE  BarrierIInv'
<1>1. /\ Barrier!Edit /\ config' = sources /\ settled' = [s \in Servers |-> FALSE]
      /\ UNCHANGED <<kea, present, setting, receipt, first, link, exists, actor>>
  BY DEF Barrier!SaveConfig
<1>2. BarrierTypes'
  BY <1>1 DEF BarrierIInv, BarrierTypes, Barrier!BarrierAssumption
<1>3. \A b \in Actors : BarrierRunOK(b)'
  <2> SUFFICES ASSUME NEW b \in Actors PROVE BarrierRunOK(b)'
    OBVIOUS
  <2>1. BarrierRunOK(b) /\ actor[b].pc # "remove"
    BY <1>1 DEF BarrierIInv, Barrier!Edit, Barrier!TablesFree, Barrier!HoldsTables
  <2> QED
    BY <2>1, <1>1 DEF BarrierRunOK, BarrierLinked
<1>4. BarrierReceiptsLinked'
  BY <1>1 DEF BarrierIInv, BarrierReceiptsLinked, BarrierLinked
<1>5. BarrierSettledOK'
  BY <1>1 DEF BarrierIInv, BarrierTypes, BarrierSettledOK
<1> QED
  BY <1>2, <1>3, <1>4, <1>5 DEF BarrierIInv

LEMMA BarrierAddServerStep ==
    ASSUME Barrier!BarrierAssumption, BarrierIInv, NEW s \in Servers, NEW flags \in SettingChoices,
           Barrier!AddServer(s, flags)
    PROVE  BarrierIInv'
<1>1. /\ Barrier!Edit /\ s \notin present /\ Barrier!Unused(s)
      /\ present' = present \union {s} /\ setting' = [setting EXCEPT ![s] = flags]
      /\ receipt' = [receipt EXCEPT ![s] = Barrier!NoReceipts] /\ first' = [first EXCEPT ![s] = FALSE]
      /\ settled' = [settled EXCEPT ![s] = FALSE] /\ UNCHANGED <<kea, config, link, exists, actor>>
  BY DEF Barrier!AddServer
<1>2. Barrier!NoReceipts \in [Barrier!Workflows -> SUBSET Barrier!SourceKinds]
      /\ \A w \in Barrier!Workflows : Barrier!NoReceipts[w] = {}
  BY DEF Barrier!NoReceipts
<1>3. BarrierTypes'
  BY <1>1, <1>2 DEF BarrierIInv, BarrierTypes, Barrier!BarrierAssumption
<1>4. /\ receipt'[s] = Barrier!NoReceipts /\ ~settled'[s]
      /\ \A t \in Servers : t # s => receipt'[t] = receipt[t] /\ setting'[t] = setting[t] /\ settled'[t] = settled[t]
  BY <1>1 DEF BarrierIInv, BarrierTypes
<1>5. \A b \in Actors : BarrierRunOK(b)'
  <2> SUFFICES ASSUME NEW b \in Actors PROVE BarrierRunOK(b)'
    OBVIOUS
  <2>1. BarrierRunOK(b) /\ actor[b].pc # "remove" /\ actor[b].server # s
    BY <1>1 DEF BarrierIInv, Barrier!Edit, Barrier!TablesFree, Barrier!HoldsTables, Barrier!Unused
  <2> QED
    BY <2>1, <1>1 DEF BarrierRunOK, BarrierLinked
<1>6. BarrierReceiptsLinked'
  <2> SUFFICES ASSUME NEW t \in present', NEW w \in Barrier!Workflows PROVE BarrierLinked(t, receipt[t][w])'
    BY DEF BarrierReceiptsLinked
  <2>1. CASE t = s
    BY <2>1, <1>2, <1>4 DEF BarrierLinked
  <2>2. CASE t # s
    <3>1. t \in present /\ t \in Servers
      BY <2>2, <1>1 DEF BarrierIInv, BarrierTypes
    <3>2. BarrierLinked(t, receipt[t][w]) /\ receipt'[t] = receipt[t]
      BY <3>1, <2>2, <1>4 DEF BarrierIInv, BarrierReceiptsLinked
    <3> QED
      BY <3>2, <1>1 DEF BarrierLinked
  <2> QED
    BY <2>1, <2>2
<1>7. BarrierSettledOK'
  <2> SUFFICES ASSUME NEW t \in present', settled'[t] PROVE BarrierObserved(t)'
    BY DEF BarrierSettledOK
  <2>1. t # s
    BY <1>4
  <2>2. t \in present /\ t \in Servers
    BY <2>1, <1>1 DEF BarrierIInv, BarrierTypes
  <2>3. BarrierObserved(t)
    BY <2>1, <2>2, <1>4 DEF BarrierIInv, BarrierSettledOK
  <2> QED
    BY <2>1, <2>2, <2>3, <1>1, <1>4 DEF BarrierObserved
<1> QED
  BY <1>3, <1>5, <1>6, <1>7 DEF BarrierIInv

LEMMA BarrierDeleteServerStep == ASSUME BarrierIInv, NEW s \in Servers, Barrier!DeleteServer(s) PROVE BarrierIInv'
<1>1. /\ Barrier!Edit /\ present' = present \ {s} /\ link' = {o \in link : o[1] # s}
         /\ settled' = [settled EXCEPT ![s] = FALSE]
      /\ UNCHANGED <<kea, config, setting, receipt, first, exists, actor>>
  BY DEF Barrier!DeleteServer
<1>2. BarrierTypes'
  BY <1>1 DEF BarrierIInv, BarrierTypes
<1>3. \A t, sources : t # s /\ BarrierLinked(t, sources) => BarrierLinked(t, sources)'
  BY <1>1 DEF BarrierLinked
<1>4. \A b \in Actors : BarrierRunOK(b)'
  <2> SUFFICES ASSUME NEW b \in Actors PROVE BarrierRunOK(b)'
    OBVIOUS
  <2>1. BarrierRunOK(b) /\ actor[b].pc # "remove"
    BY <1>1 DEF BarrierIInv, Barrier!Edit, Barrier!TablesFree, Barrier!HoldsTables
  <2> QED
    BY <2>1, <1>1 DEF BarrierRunOK, BarrierLinked
<1>5. BarrierReceiptsLinked'
  BY <1>1, <1>3 DEF BarrierIInv, BarrierReceiptsLinked, BarrierLinked
<1>6. BarrierSettledOK'
  BY <1>1 DEF BarrierIInv, BarrierTypes, BarrierSettledOK, BarrierObserved
<1> QED
  BY <1>2, <1>4, <1>5, <1>6 DEF BarrierIInv

LEMMA BarrierSubmitFormStep ==
    ASSUME Barrier!BarrierAssumption, BarrierIInv, NEW flags \in SettingChoices, Barrier!SubmitForm(flags)
    PROVE  BarrierIInv'
<1>1. /\ Barrier!Edit /\ UNCHANGED <<kea, config, present, receipt, first, link, exists, actor>>
  BY DEF Barrier!SubmitForm, Barrier!Saved
<1>2. CASE UNCHANGED <<setting, settled>>
  <2>1. \A b \in Actors : BarrierRunOK(b)'
    <3> SUFFICES ASSUME NEW b \in Actors PROVE BarrierRunOK(b)'
      OBVIOUS
    <3>1. BarrierRunOK(b) /\ actor[b].pc # "remove"
      BY <1>1 DEF BarrierIInv, Barrier!Edit, Barrier!TablesFree, Barrier!HoldsTables
    <3> QED
      BY <3>1, <1>1 DEF BarrierRunOK, BarrierLinked
  <2>2. BarrierReceiptsLinked' /\ BarrierSettledOK'
    BY <1>1, <1>2 DEF BarrierIInv, BarrierReceiptsLinked, BarrierLinked, BarrierSettledOK, BarrierObserved
  <2>3. BarrierTypes'
    BY <1>1, <1>2 DEF BarrierIInv, BarrierTypes
  <2> QED
    BY <2>1, <2>2, <2>3 DEF BarrierIInv
<1>3. CASE ~UNCHANGED <<setting, settled>>
  <2> DEFINE s == form.server
  <2>1. /\ s \in present /\ setting' = [setting EXCEPT ![s] = flags]
        /\ settled' = [settled EXCEPT ![s] = @ /\ setting[s] = flags]
    BY <1>3 DEF Barrier!SubmitForm
  <2>2. s \in Servers /\ flags \in SUBSET Barrier!Flags
    BY <2>1 DEF BarrierIInv, BarrierTypes, Barrier!BarrierAssumption
  <2> HIDE DEF s
  <2>3. BarrierTypes'
    BY <1>1, <2>1, <2>2 DEF BarrierIInv, BarrierTypes
  <2>4. /\ settled'[s] = (settled[s] /\ setting[s] = flags) /\ setting'[s] = flags
        /\ \A t \in Servers : t # s => settled'[t] = settled[t] /\ setting'[t] = setting[t]
    BY <2>1, <2>2 DEF BarrierIInv, BarrierTypes
  <2>5. \A b \in Actors : BarrierRunOK(b)'
    <3> SUFFICES ASSUME NEW b \in Actors PROVE BarrierRunOK(b)'
      OBVIOUS
    <3>1. BarrierRunOK(b) /\ actor[b].pc # "remove"
      BY <1>1 DEF BarrierIInv, Barrier!Edit, Barrier!TablesFree, Barrier!HoldsTables
    <3> QED
      BY <3>1, <1>1 DEF BarrierRunOK, BarrierLinked
  <2>6. BarrierReceiptsLinked'
    BY <1>1 DEF BarrierIInv, BarrierReceiptsLinked, BarrierLinked
  <2>7. BarrierSettledOK'
    <3> SUFFICES ASSUME NEW t \in present', settled'[t] PROVE BarrierObserved(t)'
      BY DEF BarrierSettledOK
    <3>1. t \in present /\ t \in Servers
      BY <1>1 DEF BarrierIInv, BarrierTypes
    <3>2. settled[t] /\ setting'[t] = setting[t]
      BY <3>1, <2>4
    <3>3. BarrierObserved(t)
      BY <3>1, <3>2 DEF BarrierIInv, BarrierSettledOK
    <3> QED
      BY <3>2, <3>3, <1>1 DEF BarrierObserved
  <2> QED
    BY <2>3, <2>5, <2>6, <2>7 DEF BarrierIInv
<1> QED
  BY <1>2, <1>3

LEMMA BarrierStays ==
    ASSUME BarrierIInv, UNCHANGED <<kea, config, present, setting, receipt, first, link, exists, actor, settled>>
    PROVE  BarrierIInv'
BY DEF BarrierIInv, BarrierTypes, BarrierRunOK, BarrierReceiptsLinked, BarrierSettledOK, BarrierLinked, BarrierObserved,
   Barrier!CanReport

LEMMA BarrierNextStep == ASSUME Barrier!BarrierAssumption, BarrierIInv, [Barrier!Next]_Barrier!vars PROVE BarrierIInv'
<1>1. ASSUME NEW a \in Actors, \E s \in Servers, w \in Barrier!Workflows : Barrier!Start(a, s, w) PROVE BarrierIInv'
  BY <1>1, BarrierStartStep
<1>2. ASSUME NEW a \in Actors, Barrier!Claim(a) \/ Barrier!Abort(a) \/ Barrier!Clean(a) \/ Barrier!Remove(a)
             \/ Barrier!Publish(a) PROVE BarrierIInv'
  BY <1>2, BarrierClaimStep, BarrierAbortStep, BarrierCleanStep, BarrierRemoveStep, BarrierPublishStep
<1>3. ASSUME NEW o \in Barrier!Owners, Barrier!Vanish(o) PROVE BarrierIInv'
  BY <1>3, BarrierVanishStep
<1>4. ASSUME NEW sources \in ConfigChoices, Barrier!SaveConfig(sources) PROVE BarrierIInv'
  BY <1>4, BarrierSaveConfigStep
<1>5. ASSUME NEW flags \in SettingChoices, Barrier!SubmitForm(flags)
             \/ \E s \in Servers : Barrier!AddServer(s, flags) PROVE BarrierIInv'
  BY <1>5, BarrierSubmitFormStep, BarrierAddServerStep
<1>6. ASSUME NEW s \in Servers, Barrier!DeleteServer(s) PROVE BarrierIInv'
  BY <1>6, BarrierDeleteServerStep
<1>7. ASSUME NEW s \in Servers, Barrier!OpenForm(s) PROVE BarrierIInv'
  BY <1>7, BarrierStays DEF Barrier!OpenForm
<1>8. CASE Barrier!Finished \/ UNCHANGED Barrier!vars
  BY <1>8, BarrierStays DEF Barrier!Finished, Barrier!vars
<1> QED
  BY <1>1, <1>2, <1>3, <1>4, <1>5, <1>6, <1>7, <1>8 DEF Barrier!Next

LEMMA BarrierIInvAlways == ASSUME Barrier!BarrierAssumption PROVE Barrier!Spec => []BarrierIInv
<1>1. Barrier!Init => BarrierIInv
  BY BarrierInitIInv
<1>2. BarrierIInv /\ [Barrier!Next]_Barrier!vars => BarrierIInv'
  BY BarrierNextStep
<1> QED
  BY <1>1, <1>2, PTL DEF Barrier!Spec

LEMMA BarrierRemovalStep ==
    ASSUME BarrierIInv, [Barrier!Next]_Barrier!vars, exists, ~exists'
    PROVE  Barrier!CanReport \intersect kea = {}
<1>1. PICK a \in Actors : Barrier!Remove(a)
  BY DEF Barrier!Next, Barrier!Start, Barrier!Claim, Barrier!Abort, Barrier!Clean, Barrier!Publish, Barrier!Vanish,
     Barrier!SaveConfig, Barrier!SubmitForm, Barrier!AddServer, Barrier!DeleteServer, Barrier!OpenForm, Barrier!Finished,
     Barrier!vars
<1> QED
  BY <1>1 DEF Barrier!Remove, BarrierIInv, BarrierRunOK

\* An adopted object is not removed while a Server can report it, by the settings at the moment of the removal, whatever runs,
\* edits and deletions of Servers overlap the cleanup (_cleanup_adoption_waits, _pending_adoptions).
THEOREM OwnersKeepObject == ASSUME Barrier!BarrierAssumption PROVE Barrier!Spec => Barrier!NoOwnerLosesObject
<1>1. BarrierIInv /\ [Barrier!Next]_Barrier!vars
      => [exists /\ ~exists' => Barrier!CanReport \intersect kea = {}]_Barrier!vars
  BY BarrierRemovalStep
<1> QED
  BY <1>1, BarrierIInvAlways, PTL DEF Barrier!Spec, Barrier!NoOwnerLosesObject

LEMMA BarrierSettledObserved == ASSUME BarrierIInv PROVE Barrier!ObservedForGood
<1> SUFFICES ASSUME NEW s \in Servers, settled[s], NEW o \in Barrier!PendingAdoptions, o[1] = s PROVE FALSE
  BY DEF Barrier!ObservedForGood
<1>1. o[1] \in present
  BY DEF Barrier!PendingAdoptions
<1>2. BarrierObserved(s)
  BY <1>1 DEF BarrierIInv, BarrierSettledOK
<1> QED
  BY <1>2 DEF BarrierObserved, Barrier!PendingAdoptions

\* The barrier waits for every owner that can report the object, and for each of them once: a Server that completed its runs
\* is not pending again while nobody changes its settings (complete_job_observation, Server.save).
THEOREM BarrierWaitsOnce == ASSUME Barrier!BarrierAssumption PROVE Barrier!Spec => Barrier!AdoptionWaitsOnce
<1>1. BarrierIInv => Barrier!ObservedForGood
  BY BarrierSettledObserved
<1> QED
  BY <1>1, BarrierIInvAlways, OwnersKeepObject, PTL DEF Barrier!AdoptionWaitsOnce
==============================================================================
