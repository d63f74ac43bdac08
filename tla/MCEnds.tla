-------------------------------- MODULE MCEnds --------------------------------
(***************************************************************************)
(* Side by side, what must happen in the end: a behaviour is the periodic  *)
(* synchronization (SyncJobs), Configuration Changes that compete for the  *)
(* lock (ConfigWrite), a read of Leases with replies in any order          *)
(* (LeaseReads), or the threads of a page of Leases (LeaseBadges). The     *)
(* variables of the other modules stay at an initial state.                *)
(***************************************************************************)
EXTENDS SyncJobs

CONSTANTS w1, w2, s1, s2, i1, i2, i3, i4,           \* SyncJobs
          op1, op2, n1, n2, net1, v0, v1, Outside,      \* ConfigWrite
          r1, r2, r3, a1, a2, Global                \* LeaseBadges

VARIABLES
    part,
    running, disk, inFlight, lock, pc, req, local, outcome, disturbances, marks, diskMarks,     \* ConfigWrite
    table, read, changes,                                                   \* LeaseReads
    host, task, memo, lookupLock, asked, page, stays, lookupBudget          \* LeaseBadges

\* Two workers that start around one job, with runs that try the Server, or one
\* worker whose run is killed before an operator saves another interval; with a
\* crash and a failure.
Periodics == INSTANCE SyncJobs WITH
    Servers <- {s1}, MaxFaults <- 1, MaxCrashes <- 1, MaxKills <- 1, MaxRaces <- 1, MaxSaves <- 1
AtOnce ==
    /\ budget'.kills = budget.kills /\ budget'.saves = budget.saves
    /\ \A w \in Workers : worker[w].pc = "config" /\ worker'[w].pc = "sync" => worker'[w].todo # {}
OtherInterval == interval' # interval /\ enabled' = enabled /\ \E i \in Periodics!Periodic : Periodics!LeftRunning(i)
AfterKill == worker'[w2].pc = "down" /\ (budget'.saves < budget.saves => OtherInterval)

Subnet1 == [network |-> net1, member |-> n1, pools |-> {}, managed |-> v0, unshown |-> v0]
OneSubnet == [subnets |-> [id \in {1} |-> Subnet1], nets |-> [n \in {n1, n2} |-> v0], options |-> v0, defs |-> {}]

\* Two changes, with failures of Kea and a lost database session.
Changes == INSTANCE ConfigWrite WITH
    Ops <- {op1, op2}, MaxId <- 1, Networks <- {net1}, Names <- {n1, n2}, Pools <- {}, Definitions <- {}, Values <- {v0, v1},
    Empty <- v0, PersistConfig <- TRUE, InitialConfigs <- {OneSubnet}, AdminCommands <- {},
    Requests <- {[kind |-> "edit-subnet", id |-> 1, shared |-> n2, pools |-> {}, managed |-> v1],
                 [kind |-> "set-server-options", options |-> v1]},
    Budget <- [kind \in {"admin", "fault", "late", "restart", "lock-loss", "other-persist"} |->
                  IF kind \in {"fault", "lock-loss"} THEN 1 ELSE 0],
    budget <- disturbances

AnyAddress == {[kind |-> "address", flaw |-> f, state |-> "assigned"] : f \in {"none", "address"}}
\* Replies that repeat records or put them out of order.
Reads == INSTANCE LeaseReads WITH
    Last <- 3, PerPage <- 1, MaxChanges <- 1, Limit <- None, Faulty <- TRUE, Caps <- {None, 2}, Kinds <- {"address"},
    Raws <- AnyAddress

\* Three rows on two threads: one without a verified Subnet, one with an
\* identifier that no Reservation can hold. Lookups fail.
Badges == INSTANCE LeaseBadges WITH
    Rows <- {r1, r2, r3}, Subnets <- {s1}, Identities <- {i1}, Addresses <- {a1, a2},
    Address <- [r \in {r1, r2, r3} |-> IF r = r1 THEN a1 ELSE a2],
    SubnetOf <- [r \in {r1, r2, r3} |-> IF r = r3 THEN None ELSE s1], Carried <- [r \in {r1, r2, r3} |-> <<i1>>],
    Foreign <- {r2}, Hardware <- {i1}, Threads <- 2, MaxChanges <- 0, MaxFaults <- 2,
    lock <- lookupLock, budget <- lookupBudget

changeVars == <<running, disk, inFlight, lock, pc, req, local, outcome, disturbances, marks, diskMarks>>
readVars == <<table, read, changes>>
badgeVars == <<host, task, memo, lookupLock, asked, page, stays, lookupBudget>>

NoRun == Periodics!Init
NoRead == Reads!Init /\ \A x \in 1..3 : table[x] = None
NoPage == Badges!Init /\ \A k \in Badges!Keys : host[k] = None

MCInit ==
    \/ part = "runs" /\ Init /\ Changes!Init /\ NoRead /\ NoPage
    \/ part \in {"periodic", "killed"} /\ Periodics!Init /\ interval = 5 /\ Changes!Init /\ NoRead /\ NoPage
    \/ part = "changes" /\ NoRun /\ Changes!Init /\ NoRead /\ NoPage
    \/ part = "reads" /\ NoRun /\ Changes!Init /\ Reads!Init /\ NoPage
    \/ part = "badges" /\ NoRun /\ Changes!Init /\ NoRead /\ Badges!Init

MCNext ==
    /\ UNCHANGED part
    \* The runs of one worker: the other does not start.
    /\ \/ part = "runs" /\ Next /\ worker'[w2].pc = "down"
       \/ part = "periodic" /\ Periodics!Next /\ AtOnce
       \/ part = "killed" /\ Periodics!Next /\ AfterKill
       \/ part \notin {"runs", "periodic", "killed"} /\ UNCHANGED vars
    /\ IF part = "changes" THEN Changes!Next ELSE UNCHANGED changeVars
    /\ IF part = "reads" THEN Reads!Next ELSE UNCHANGED readVars
    /\ IF part = "badges" THEN Badges!Next ELSE UNCHANGED badgeVars

Periodical == part \in {"periodic", "killed"}
\* The fairness of each module.
MCFairness ==
    /\ \A w \in Workers : WF_vars(Periodical /\ Work(w)) /\ SF_vars(Periodical /\ Take(w))
    /\ \A o \in {op1, op2} : WF_changeVars(part = "changes" /\ (Changes!Prepare(o) \/ Changes!Act(o)))
    /\ WF_readVars(part = "reads" /\ Reads!Steps)
    /\ \A r \in {r1, r2, r3} : WF_badgeVars(part = "badges" /\ Badges!Thread(r))
    /\ WF_badgeVars(part = "badges" /\ Badges!Show)

MCSpec ==
    /\ MCInit /\ [][MCNext]_<<vars, changeVars, readVars, badgeVars, part>>
    /\ MCFairness

\* The periodic synchronization stops only behind the record of a killed run.
PeriodicRunsGoOn == Periodical => PeriodicGoesOn

\* A change that waits for the lock ends and gives it up.
EveryChangeEnds == Changes!EveryChangeEnds

\* A read of Leases ends, and a page of Leases is shown.
LookupsEnd == Reads!ReadEnds /\ (part = "badges" => Badges!PageShown)
=============================================================================
