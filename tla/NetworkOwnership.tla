-------------------------- MODULE NetworkOwnership --------------------------
(***************************************************************************)
(* IPAM ownership of one Prefix or IP Range (ipam_reconciliation.py).      *)
(* The Subnets, the delegated-prefix leases and the imported Reservations  *)
(* of several Servers can report one Prefix; Pools report an IP Range. A   *)
(* source cleans after its own complete phase, with its own cutoff. The    *)
(* object is never removed. Claims and cleanups hold the lock of the       *)
(* identity, so each of them is one step.                                  *)
(***************************************************************************)
EXTENDS Integers, FiniteSets, Sequences

CONSTANTS
    Servers,
    Sources,        \* what can report the object: a subset of AllSources
    Lengths,        \* the prefix lengths that Kea can report for it
    None,
    Deprecating,    \* the Servers whose cleanup deprecates Prefixes and ranges
    Actors, Orders, \* the workers, and what one can be asked to do
    Moves,          \* what Kea may report next: records [owner, report]
    Edits,          \* what operators may do
    StartNets,      \* the object and its links at the start: records [net, link]
    StartKea,
    MaxOrders, MaxMoves, MaxEdits, MaxFaults    \* bounds on what happens

AllSources == {"subnet", "lease", "import", "pool"}
Owners == Servers \X Sources
Kinds == {"pool", "subnet", "delegated"}
EditKinds == {"create", "release", "mark", "delete", "refer", "barrier", "drop"}
Reports == [kind: {"absent", "clash"}, length: {None}] \union [kind: {"length"}, length: Lengths]
Absent == [kind |-> "absent", length |-> None]

\* room is the longest marker that fits beside the note of the operator.
Net == [status: {"active", "deprecated"}, kind: Kinds, marked: BOOLEAN, room: 0..2]
Link == [length: Lengths \union {None}, n: Nat, mark: Nat \union {None}, adopted: BOOLEAN]
NoLinks == [o \in Owners |-> None]

ASSUME NetworkAssumption ==
    /\ Sources \subseteq AllSources /\ Deprecating \subseteq Servers
    /\ None \notin Lengths \union Nat \union Net \union Link
    /\ Orders \subseteq [kind: {"job", "import", "page", "force"}, server: Servers, plan: Seq(Sources)]
    /\ \A order \in Orders : /\ order.plan # <<>>
                              /\ \A i, j \in 1..Len(order.plan) : order.plan[i] = order.plan[j] => i = j
    /\ Moves \subseteq [owner: Owners, report: Reports]
    /\ Edits \subseteq EditKinds
    /\ StartKea \in [Owners -> Reports]

VARIABLES
    kea,        \* what the Kea daemon of each owner reports for the network
    net,        \* the Prefix or IP Range, or None
    link,       \* its ownership links
    number,     \* the confirmation sequence
    referred,   \* a DHCP plugin object refers to it
    barrier,    \* an owner that can report such objects was not observed yet
    actor, budget,
    steady,     \* history: reported without a gap since an applied claim
    rounds      \* history: whole jobs since anything else last changed

vars == <<kea, net, link, number, referred, barrier, actor, budget, steady, rounds>>

Idle == [pc |-> "idle", order |-> None, phase |-> 1, cutoff |-> [s \in Sources |-> 0],
         whole |-> {}, report |-> [s \in Sources |-> Absent], fresh |-> {}, quiet |-> FALSE, base |-> 0]

Init ==
    /\ kea = StartKea
    /\ \E start \in StartNets : net = start.net /\ link = start.link
    /\ number = 0
    /\ referred = FALSE
    /\ barrier = FALSE
    /\ actor = [a \in Actors |-> Idle]
    /\ budget = [orders |-> MaxOrders, moves |-> MaxMoves, edits |-> MaxEdits, faults |-> MaxFaults]
    /\ steady = [o \in Owners |-> FALSE]
    /\ rounds = [s \in Servers |-> 0]

----------------------------------------------------------------------------
(* Links and the marker.                                                   *)

Linked(ls) == {o \in Owners : ls[o] # None}
Live(l) == l # None /\ l.length # None /\ l.mark = None
LiveSources(ls) == {o[2] : o \in {q \in Owners : Live(ls[q])}}

\* A Prefix with several live sources shows the Subnet.
MarkerKind(sources) ==
    IF "pool" \in sources THEN "pool" ELSE IF "subnet" \in sources THEN "subnet" ELSE "delegated"

Size(kind) == CASE kind = "pool" -> 0 [] kind = "subnet" -> 1 [] OTHER -> 2
Fits(kind) == Size(kind) <= net.room

MarkedAndUnconfirmed(l) == l.mark # None /\ l.n <= l.mark

\* The object starts as earlier runs left it.
ASSUME StartAssumption ==
    \A start \in StartNets :
        /\ start.net \in Net \union {None} /\ start.link \in [Owners -> Link \union {None}]
        /\ \A o \in Linked(start.link) : start.net # None /\ start.link[o].n = 0 /\ start.link[o].mark \in {0, None}
        /\ LiveSources(start.link) # {} => start.net.kind = MarkerKind(LiveSources(start.link)) /\ start.net.status = "active"
        /\ \A o \in Linked(start.link) : MarkedAndUnconfirmed(start.link[o]) =>
              Linked(start.link) = {o} /\ start.net.status = "deprecated"

\* Mutant: the marks of other owners stay.
KeepsSuperseded(ls, o) == ls

WithoutSuperseded(ls, o) ==
    [q \in Owners |-> IF q # o /\ ls[q] # None /\ MarkedAndUnconfirmed(ls[q]) THEN None ELSE ls[q]]

Disagrees(o, length, ls) == \E q \in Owners \ {o} : Live(ls[q]) /\ ls[q].length # length

Confirm(ls, o, length, mark, adopted) ==
    [ls EXCEPT ![o] = [length |-> length, n |-> number + 1, mark |-> mark,
                       adopted |-> adopted \/ (ls[o] # None /\ ls[o].adopted)]]

----------------------------------------------------------------------------
(* The workers.                                                            *)

Set(a, local) == actor' = [actor EXCEPT ![a] = local]
Source(a) == actor[a].order.plan[actor[a].phase]
Owner(a) == <<actor[a].order.server, Source(a)>>
Cleans(order) == order.kind \in {"job", "import"}

Quieted(local) == [b \in Actors |-> [local[b] EXCEPT !.quiet = FALSE]]

\* The links but for the numbers of their confirmations.
Unnumbered(ls) == [o \in Owners |-> IF ls[o] = None THEN None ELSE [ls[o] EXCEPT !.n = 0]]

\* What a worker changes starts the count of jobs again, but for the Server whose job it runs.
Recounted(a) ==
    [s \in Servers |->
        IF net' = net /\ Unnumbered(link') = Unnumbered(link) THEN rounds[s]
        ELSE IF actor[a].order.kind = "job" /\ actor[a].order.server = s THEN rounds[s] ELSE 0]

Disturbed == budget.faults > 0 /\ budget' = [budget EXCEPT !.faults = @ - 1] /\ rounds' = [s \in Servers |-> 0]

Start(a, order) ==
    /\ actor[a].pc = "idle"
    /\ budget.orders > 0
    /\ budget' = [budget EXCEPT !.orders = @ - 1]
    /\ Set(a, [Idle EXCEPT !.pc = "cutoff", !.order = order, !.base = rounds[order.server],
                           !.quiet = \A b \in Actors : actor[b].pc = "idle" \/ actor[b].quiet])
    /\ UNCHANGED <<kea, net, link, number, referred, barrier, steady, rounds>>

\* The cutoff of an observation comes before its read.
TakeCutoff(a) ==
    /\ actor[a].pc = "cutoff"
    /\ number' = number + 1
    /\ Set(a, [actor[a] EXCEPT !.pc = "read", !.cutoff[Source(a)] = number + 1])
    /\ UNCHANGED <<kea, net, link, referred, barrier, budget, steady, rounds>>

AfterRead(me) ==
    IF me.phase < Len(me.order.plan) THEN [me EXCEPT !.phase = @ + 1, !.pc = "cutoff"]
                                     ELSE [me EXCEPT !.phase = 1, !.pc = "claim"]

ReadSnapshot(a) ==
    /\ actor[a].pc = "read"
    /\ Set(a, AfterRead([actor[a] EXCEPT !.report[Source(a)] = kea[Owner(a)],
                                         !.whole = @ \union {Source(a)}, !.fresh = @ \union {Source(a)}]))
    /\ UNCHANGED <<kea, net, link, number, referred, barrier, budget, steady, rounds>>

\* The read fails, or shows a part of the records. Delegated prefixes need the
\* Subnet Catalogue, so its failure ends their phase too.
ReadInPart(a) ==
    /\ actor[a].pc = "read"
    /\ Disturbed
    /\ \E shown \in {Absent} \union (IF Source(a) \in {"lease", "import"} THEN {kea[Owner(a)]} ELSE {}) :
           actor' = Quieted([actor EXCEPT ![a] =
                      AfterRead([actor[a] EXCEPT !.report[Source(a)] = shown, !.fresh = @ \union {Source(a)}])])
    /\ UNCHANGED <<kea, net, link, number, referred, barrier, steady>>

Claims(me, source) ==
    /\ me.report[source].kind # "absent"
    /\ source = "lease" /\ me.order.kind = "job" => "subnet" \in me.whole

AfterClaim(me) ==
    IF me.phase < Len(me.order.plan) THEN [me EXCEPT !.phase = @ + 1]
    ELSE IF Cleans(me.order) THEN [me EXCEPT !.phase = 1, !.pc = "choose"] ELSE Idle

\* Nothing to claim in this phase; it is complete when what it rests on is.
PassPhase(a) ==
    /\ actor[a].pc = "claim"
    /\ ~Claims(actor[a], Source(a))
    /\ Set(a, AfterClaim([actor[a] EXCEPT !.whole =
                IF Source(a) = "lease" /\ actor[a].order.kind = "job" /\ "subnet" \notin @
                THEN @ \ {"lease"} ELSE @]))
    /\ UNCHANGED <<kea, net, link, number, referred, barrier, budget, steady, rounds>>

\* A database error rolls the row back, and the phase is not complete.
RowFails(a) ==
    /\ actor[a].pc = "claim"
    /\ Claims(actor[a], Source(a))
    /\ Disturbed
    /\ actor' = Quieted([actor EXCEPT ![a] = AfterClaim([actor[a] EXCEPT !.whole = @ \ {Source(a)}])])
    /\ UNCHANGED <<kea, net, link, number, referred, barrier, steady>>

Claiming(a) == actor[a].pc = "claim" /\ Claims(actor[a], Source(a))
EndClaim(a) == Set(a, AfterClaim(actor[a])) /\ rounds' = Recounted(a) /\ UNCHANGED <<kea, referred, barrier, budget>>
Applied(a) == steady' = [steady EXCEPT ![Owner(a)] = Source(a) \in actor[a].fresh]

ClaimNew(a) ==
    /\ Claiming(a) /\ net = None
    /\ LET report == actor[a].report[Source(a)]
       IN  IF report.kind = "clash" THEN UNCHANGED <<net, link, number, steady>>
           ELSE /\ net' = [status |-> "active", kind |-> MarkerKind({Source(a)}), marked |-> TRUE, room |-> 2]
                /\ link' = Confirm(NoLinks, Owner(a), report.length, None, FALSE)
                /\ number' = number + 1
                /\ Applied(a)
    /\ EndClaim(a)

\* The description lost its marker: the object is the operator's, unless forced.
ClaimReleased(a) ==
    /\ Claiming(a) /\ net # None /\ ~net.marked
    /\ actor[a].order.kind # "force"
    /\ link' = NoLinks
    /\ UNCHANGED <<net, number, steady>>
    /\ EndClaim(a)

\* The links that the claim of an object acts on, and whether it was adopted.
Base == IF net.marked THEN link ELSE NoLinks
WasAdopted == (net.marked /\ Linked(link) = {}) \/ \E q \in Linked(Base) : Base[q].adopted

ClaimOwned(a) ==
    /\ Claiming(a) /\ net # None /\ (net.marked \/ actor[a].order.kind = "force")
    /\ LET report == actor[a].report[Source(a)]
           o == Owner(a)
           own == Base[o]
           oldMark == IF own = None THEN None ELSE own.mark
           kept == WithoutSuperseded(Base, o)
           kind == MarkerKind(LiveSources([kept EXCEPT ![o] = None]) \union {o[2]})
       IN  \/ /\ report.kind = "clash"
              /\ link' = Confirm(kept, o, IF own = None THEN None ELSE own.length, oldMark, WasAdopted)
              /\ UNCHANGED <<net, steady>>
           \/ /\ report.kind = "length"
              /\ Disagrees(o, report.length, kept) \/ ~Fits(kind)
              /\ link' = Confirm(kept, o, report.length, oldMark, WasAdopted)
              /\ UNCHANGED <<net, steady>>
           \/ /\ report.kind = "length"
              /\ ~Disagrees(o, report.length, kept) /\ Fits(kind)
              /\ link' = Confirm(kept, o, report.length, None, WasAdopted)
              /\ net' = [net EXCEPT !.status = "active", !.kind = kind, !.marked = TRUE]
              /\ Applied(a)
    /\ number' = number + 1
    /\ EndClaim(a)

----------------------------------------------------------------------------
(* The cleanup of each complete phase.                                     *)

Whole(me) == \A k \in 1..Len(me.order.plan) : me.order.plan[k] \in me.whole

\* A job that met no change since it started counts as a round of its Server. The
\* first one does not when the second one of an earlier count is still under way.
Counts(a) ==
    LET me == actor[a]
        s == me.order.server
    IN  /\ me.phase = Len(me.order.plan) /\ me.order.kind = "job" /\ me.quiet /\ Whole(me)
        /\ rounds[s] = me.base /\ me.base < 2
        /\ \A b \in Actors : actor[b].pc # "idle" /\ actor[b].order.server = s => actor[b].base # me.base + 1

NextCleanup(a) ==
    LET me == actor[a]
    IN  /\ Set(a, IF me.phase = Len(me.order.plan) THEN Idle ELSE [me EXCEPT !.phase = @ + 1, !.pc = "choose"])
        /\ rounds' = IF Counts(a) THEN [Recounted(a) EXCEPT ![me.order.server] = @ + 1] ELSE Recounted(a)

\* Mutant: a candidate is not read again under the lock.
StaleWhenChosen(l, cutoff) == l # None

StillStale(l, cutoff) == l # None /\ l.n < cutoff
Candidate(a) == link[Owner(a)] # None /\ link[Owner(a)].n < actor[a].cutoff[Source(a)]

\* The candidates are read without a lock.
ChooseStale(a) ==
    /\ actor[a].pc = "choose"
    /\ UNCHANGED <<kea, net, link, number, referred, barrier, budget, steady>>
    /\ IF Source(a) \in actor[a].whole /\ Candidate(a)
       THEN Set(a, [actor[a] EXCEPT !.pc = "clean"]) /\ UNCHANGED rounds
       ELSE NextCleanup(a)

\* Mutant: the object keeps the status and the marker of the link that goes.
RemarkNot(live) == net
Remark(live) == [net EXCEPT !.status = "active", !.kind = MarkerKind(live)]

Refers == referred

\* What the cleanup of owner o decides, under the locks.
Clean(o, cutoff) ==
    LET rest == [link EXCEPT ![o] = None]
        live == LiveSources(rest)
    IN  CASE ~net.marked -> [net |-> net, link |-> NoLinks]
          [] net.marked /\ MarkedAndUnconfirmed(link[o]) -> [net |-> net, link |-> link]
          [] net.marked /\ ~MarkedAndUnconfirmed(link[o]) /\ Linked(rest) # {} ->
               IF live = {} THEN [net |-> net, link |-> rest]
               ELSE IF ~Fits(MarkerKind(live)) THEN [net |-> net, link |-> link]
               ELSE [net |-> Remark(live), link |-> rest]
          [] OTHER ->
               IF link[o].adopted /\ barrier THEN [net |-> net, link |-> link]
               ELSE IF o[1] \notin Deprecating \/ Refers THEN [net |-> net, link |-> rest]
               ELSE [net |-> [net EXCEPT !.status = "deprecated"], link |-> [link EXCEPT ![o].mark = cutoff]]

CleanOne(a) ==
    /\ actor[a].pc = "clean"
    /\ IF net # None /\ StillStale(link[Owner(a)], actor[a].cutoff[Source(a)])
       THEN LET done == Clean(Owner(a), actor[a].cutoff[Source(a)])
            IN  net' = done.net /\ link' = done.link
       ELSE UNCHANGED <<net, link>>
    /\ NextCleanup(a)
    /\ UNCHANGED <<kea, number, referred, barrier, budget, steady>>

\* A busy lock or the database refuses the row: the next run tries again.
CleanFails(a) ==
    /\ actor[a].pc = "clean"
    /\ Disturbed
    /\ LET me == actor[a]
       IN  actor' = Quieted([actor EXCEPT ![a] =
             IF me.phase = Len(me.order.plan) THEN Idle ELSE [me EXCEPT !.phase = @ + 1, !.pc = "choose"]])
    /\ UNCHANGED <<kea, net, link, number, referred, barrier, steady>>

----------------------------------------------------------------------------
(* Kea, the operators, the DHCP plugin and the settings.                   *)

KeaMoves(o, report) ==
    /\ budget.moves > 0 /\ kea[o] # report
    /\ budget' = [budget EXCEPT !.moves = @ - 1]
    /\ kea' = [kea EXCEPT ![o] = report]
    /\ steady' = [steady EXCEPT ![o] = @ /\ report.kind # "absent"]
    /\ actor' = Quieted([b \in Actors |->
                  IF report.kind = "absent" /\ actor[b].pc # "idle" /\ actor[b].order.server = o[1]
                  THEN [actor[b] EXCEPT !.fresh = @ \ {o[2]}] ELSE actor[b]])
    /\ rounds' = [s \in Servers |-> 0]
    /\ UNCHANGED <<net, link, number, referred, barrier>>

Edit(kind) ==
    /\ kind \in Edits /\ budget.edits > 0
    /\ budget' = [budget EXCEPT !.edits = @ - 1]
    /\ actor' = Quieted(actor)
    /\ rounds' = [s \in Servers |-> 0]
    /\ UNCHANGED <<kea, number>>

Rewrite(kind, new) ==
    /\ Edit(kind)
    /\ net' = new
    /\ steady' = [o \in Owners |-> FALSE]
    /\ UNCHANGED <<link, referred, barrier>>

Create == /\ net = None
          /\ \E marked \in BOOLEAN, room \in 0..2 :
                Rewrite("create", [status |-> "active", kind |-> "subnet", marked |-> marked, room |-> room])
Release == net # None /\ net.marked /\ Rewrite("release", [net EXCEPT !.marked = FALSE])
MarkAgain == net # None /\ ~net.marked /\ Rewrite("mark", [net EXCEPT !.marked = TRUE])

\* The links go with the object.
Delete ==
    /\ Edit("delete")
    /\ net # None /\ ~referred
    /\ net' = None /\ link' = NoLinks
    /\ steady' = [o \in Owners |-> FALSE]
    /\ UNCHANGED <<referred, barrier>>

Refer == Edit("refer") /\ net # None /\ referred' = ~referred /\ UNCHANGED <<net, link, barrier, steady>>
FlipBarrier == Edit("barrier") /\ barrier' = ~barrier /\ UNCHANGED <<net, link, referred, steady>>

\* The links of a deleted Server go; the object stays as it is.
DropServer(s) ==
    /\ Edit("drop")
    /\ \A a \in {b \in Actors : actor[b].pc # "idle"} : actor[a].order.server # s
    /\ link' = [o \in Owners |-> IF o[1] = s THEN None ELSE link[o]]
    /\ steady' = [o \in Owners |-> steady[o] /\ o[1] # s]
    /\ UNCHANGED <<net, referred, barrier>>

Work(a) ==
    \/ TakeCutoff(a) \/ ReadSnapshot(a) \/ ReadInPart(a)
    \/ PassPhase(a) \/ RowFails(a) \/ ClaimNew(a) \/ ClaimReleased(a) \/ ClaimOwned(a)
    \/ ChooseStale(a) \/ CleanOne(a) \/ CleanFails(a)

Operator == Create \/ Release \/ MarkAgain \/ Delete \/ Refer \/ FlipBarrier \/ \E s \in Servers : DropServer(s)

Finished == /\ \A a \in Actors : actor[a].pc = "idle"
            /\ UNCHANGED vars

Next ==
    \/ \E a \in Actors : Work(a) \/ \E order \in Orders : Start(a, order)
    \/ \E m \in Moves : KeaMoves(m.owner, m.report)
    \/ Operator
    \/ Finished

Spec == Init /\ [][Next]_vars

----------------------------------------------------------------------------
(* Properties.                                                             *)

(* Every variable keeps its type; a link has an object, and no number of a *)
(* link or a mark is ahead of the sequence.                                *)
TypeOK ==
    /\ kea \in [Owners -> Reports]
    /\ net \in Net \union {None}
    /\ DOMAIN link = Owners /\ \A o \in Linked(link) :
          /\ net # None /\ link[o] \in Link
          /\ link[o].n <= number /\ (link[o].mark # None => link[o].mark <= number)
    /\ number \in Nat /\ referred \in BOOLEAN /\ barrier \in BOOLEAN
    /\ \A a \in Actors : \A s \in Sources : actor[a].cutoff[s] <= number
    /\ steady \in [Owners -> BOOLEAN]
    /\ rounds \in [Servers -> 0..2]

(* A network that a source reported without a gap since a claim of it was  *)
(* applied stays linked and active, whatever the other sources and Servers *)
(* clean and in which order they commit (_remove_stale_network_link).      *)
KeptWhileReported ==
    \A o \in Owners : steady[o] =>
        net # None /\ net.marked /\ net.status = "active" /\ Live(link[o])

(* The marker names what reports the object now: it becomes the one of the *)
(* sources that are left when a Subnet goes and a delegation stays, and    *)
(* the other way round (_network_marker_kind). A marker that does not fit  *)
(* beside the note, disagreeing reports, and the deletion of a Server      *)
(* leave the old one: no instance deletes a Server of a Prefix.            *)
MarkerShowsOwners ==
    net # None /\ net.marked /\ net.room = 2 /\ LiveSources(link) # {}
        /\ (\A o, q \in Linked(link) : link[o].length = link[q].length) =>
            net.kind = MarkerKind(LiveSources(link)) /\ net.status = "active"

(* After two jobs of a Server that nothing disturbed, and until anyone     *)
(* else changes them, the object and the links of the Server are what its  *)
(* Subnets, Pools and delegated prefixes say (reconcile). The sources that *)
(* no job plans, and objects that a run must leave alone, are not covered. *)
Planned(o) == \E order \in Orders : /\ order.kind = "job" /\ order.server = o[1]
                                    /\ \E k \in 1..Len(order.plan) : order.plan[k] = o[2]
LeftAlone == net # None /\ (~net.marked \/ net.room < 2 \/ \E o, q \in Linked(link) : link[o].length # link[q].length)
Reported(s) == {o \in {s} \X Sources : Planned(o) /\ kea[o].kind = "length"}
SettledAfterRounds ==
    \A s \in Servers : rounds[s] = 2 => LeftAlone \/
        /\ Reported(s) # {} => net # None /\ net.status = "active" /\ \A o \in Reported(s) : Live(link[o])
        /\ \A o \in Linked(link) : o[1] = s =>
              \/ ~Planned(o) \/ kea[o].kind # "absent" \/ (link[o].adopted /\ barrier)
              \/ net.status = "deprecated" /\ link[o].mark # None
=============================================================================
