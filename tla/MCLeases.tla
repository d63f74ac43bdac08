------------------------------- MODULE MCLeases -------------------------------
(***************************************************************************)
(* Side by side: a behaviour is a read of LeaseReads (of records that      *)
(* cannot be used, or of Leases in every state), a request of LeaseEdits   *)
(* (a change, or a new Lease and an import), or a page of LeaseBadges. The *)
(* variables of the other modules stay at an initial state.                *)
(***************************************************************************)
EXTENDS LeaseEdits, TLC

CONSTANTS a1, a2, p1, c1, c2, n1, n2, r1, r2, s1, i1, i2, Global

VARIABLES
    part,
    table, read, changes,                                       \* LeaseReads
    host, task, memo, lock, asked, badges, stays, lookupBudget  \* LeaseBadges

Row(a, c) == [at |-> a, client |-> c, name |-> Keep, life |-> Keep]
TwoRows == {{Row(a1, c1), Row(a2, c2)}}

\* A client that renews a Lease, changes it or loses it, around an edit.
Changes == INSTANCE LeaseEdits WITH
    Addresses <- {a1}, Lives <- {1, 2}, Imports <- {}, MaxKept <- 1, MaxTime <- 1, MaxClients <- 2
\* Time that passes, around a new Lease and an import.
Adds == INSTANCE LeaseEdits WITH
    Names <- {n1}, Lives <- {1, Infinite}, Imports <- TwoRows, MaxKept <- 0, MaxTime <- 2, MaxClients <- 1

Raw(kind, flaw, state) == [kind |-> kind, flaw |-> flaw, state |-> state]

\* Both kinds, and each way in which a record cannot be read.
MixedRaws == {Raw("address", "none", "assigned"), Raw("prefix", "none", "assigned"), Raw("prefix", "type", "assigned"),
              Raw("prefix", "address", "assigned"), Raw("address", "record", "assigned")}
\* One kind, in the states that Kea counts and does not count.
StateRaws == {Raw("address", "none", s) : s \in {"assigned", "declined", "expired"}} \union {Raw("address", "record", "expired")}

Mixed == INSTANCE LeaseReads WITH
    Last <- 3, PerPage <- 1, MaxChanges <- 2, Limit <- 2, Faulty <- FALSE, Caps <- {2},
    Kinds <- {"address", "prefix"}, Raws <- MixedRaws
Counts == INSTANCE LeaseReads WITH
    Last <- 3, PerPage <- 1, MaxChanges <- 2, Limit <- 1, Faulty <- FALSE, Caps <- {2},
    Kinds <- {"address"}, Raws <- StateRaws

\* Two Leases of one client, one of them with a second identity.
Badges == INSTANCE LeaseBadges WITH
    Rows <- {r1, r2}, Subnets <- {s1}, Identities <- {i1, i2}, Addresses <- {a1, a2},
    Address <- [r \in {r1, r2} |-> IF r = r1 THEN a1 ELSE a2], SubnetOf <- [r \in {r1, r2} |-> s1],
    Carried <- [r \in {r1, r2} |-> IF r = r1 THEN <<i1, i2>> ELSE <<i1>>], Foreign <- {},
    Hardware <- {i1}, Threads <- 2, MaxChanges <- 1, page <- badges, budget <- lookupBudget

ASSUME Mixed!ReadsAssumption /\ Counts!ReadsAssumption /\ Badges!BadgesAssumption

readVars == <<table, read, changes>>
badgeVars == <<host, task, memo, lock, asked, badges, stays, lookupBudget>>

NoRequest == Adds!Init /\ \A a \in Addresses : lease[a] = None
NoRead == Mixed!Init /\ \A a \in 1..3 : table[a] = None
NoPage == Badges!Init /\ \A k \in Badges!Keys : host[k] = None

MCInit ==
    \/ part = "changes" /\ Changes!Init /\ NoRead /\ NoPage
    \/ part = "adds" /\ Adds!Init /\ NoRead /\ NoPage
    \/ part = "mixed" /\ NoRequest /\ Mixed!Init /\ NoPage
    \/ part = "counts" /\ NoRequest /\ Counts!Init /\ NoPage
    \/ part = "badges" /\ NoRequest /\ NoRead /\ Badges!Init

MCNext ==
    /\ UNCHANGED part
    /\ \/ part = "changes" /\ Changes!Next
       \/ part = "adds" /\ Adds!Next
       \/ part \notin {"changes", "adds"} /\ UNCHANGED vars
    /\ \/ part = "mixed" /\ Mixed!Next
       \/ part = "counts" /\ Counts!Next
       \/ part \notin {"mixed", "counts"} /\ UNCHANGED readVars
    /\ IF part = "badges" THEN Badges!Next ELSE UNCHANGED badgeVars

MCSpec == MCInit /\ [][MCNext]_<<vars, readVars, badgeVars, part>>

\* A read without an excluded kind holds every Lease that stayed, and a capped
\* one says where it stopped.
ReadsHold == (part = "mixed" => Mixed!NothingMissed) /\ (part = "counts" => Counts!CapsHold)

\* What a page of Leases offers agrees with the Reservations that stayed.
OffersAgree == part = "badges" => Badges!OffersAgree
=============================================================================
