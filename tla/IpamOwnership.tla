--------------------------- MODULE IpamOwnership ---------------------------
(***************************************************************************)
(* IPAM ownership of one IP address (ipam_reconciliation.py, ADR 0006).    *)
(* Several Servers report the address from their leases and reservations.  *)
(* A job or a bulk sync reads Kea, links what it reports, and removes the  *)
(* links that its complete phases no longer report; a page links one       *)
(* record. Operators edit the NetBox rows and the DHCP plugin refers to    *)
(* them meanwhile.                                                         *)
(***************************************************************************)
EXTENDS Integers, FiniteSets, Sequences

CONSTANTS
    Servers,        \* the Server rows
    Global,         \* the global table (no VRF)
    Elsewhere,      \* any other address or VRF, which no Server reports
    Vrf,            \* the sync VRF of each Server
    Reserving,      \* the Servers whose Reservation sync is enabled
    Facts,          \* [name, len]: hostname and prefix length of a report
    NoName,         \* the empty hostname
    None,
    Mode,           \* the stale cleanup mode of the plugin
    Actors,         \* worker processes
    Orders,         \* what an actor can be asked to do
    Moves,          \* what Kea may report next: records [owner, report]
    Edits,          \* what operators may do: a subset of EditKinds
    StartRows,      \* the rows and links at the start: records [row, link]
    StartKea,       \* what Kea reports at the start
    Rows,           \* the primary keys, 1..n (bounds the rows ever made)
    MaxOrders, MaxMoves, MaxEdits, MaxFaults    \* bounds on what happens

Sources == {"lease", "reservation"}
Owners == Servers \X Sources
EditKinds == {"create", "release", "mark", "move", "delete", "refer", "barrier", "drop"}

Statuses == {"active", "dhcp", "reserved", "deprecated"}
Reports == [kind: {"absent", "inactive", "global", "clash"}, facts: {None}]
              \union [kind: {"facts"}, facts: Facts]
Absent == [kind |-> "absent", facts |-> None]

\* room is the longest marker that fits beside the note of the operator.
Row == [place: {Global, Elsewhere} \union {Vrf[s] : s \in Servers},
        status: Statuses, marked: BOOLEAN, room: 0..3,
        name: {f.name : f \in Facts} \union {NoName}, len: {f.len : f \in Facts}]
Link == [facts: Facts \union {None}, n: Nat, mark: Nat \union {None},
         adopted: BOOLEAN, known: BOOLEAN]
NoLinks == [o \in Owners |-> None]

ASSUME OwnershipAssumption ==
    /\ None \notin Facts \union Nat \union Row \union Link /\ NoName # None
    /\ Rows = 1..Cardinality(Rows) /\ IsFiniteSet(Rows)
    /\ Vrf \in [Servers -> {Global} \union {Vrf[s] : s \in Servers}]
    /\ Elsewhere \notin {Global} \union {Vrf[s] : s \in Servers}
    /\ Reserving \subseteq Servers
    /\ Mode \in {"remove", "deprecate", "none"}
    /\ Orders \subseteq [kind: {"job", "bulk", "page", "force"}, server: Servers, source: Sources]
    /\ Moves \subseteq [owner: Owners, report: Reports]
    /\ Edits \subseteq EditKinds
    /\ StartKea \in [Owners -> Reports]
    /\ MaxEdits \in Nat

VARIABLES
    kea,        \* what the Kea daemon of each owner reports for the address
    row,        \* the IP address rows of NetBox
    link,       \* the ownership links of each row
    born,       \* how many rows were ever made: a key is not used again
    number,     \* the confirmation sequence
    refers,     \* the rows that a DHCP plugin reservation refers to
    barrier,    \* an owner that can report IP addresses was not observed yet
    actor,      \* the program counter and the local variables of each worker
    budget,
    steady,     \* history: reported without a gap since an applied claim
    rounds      \* history: whole jobs since anything else last changed

vars == <<kea, row, link, born, number, refers, barrier, actor, budget, steady, rounds>>

Idle == [pc |-> "idle", order |-> None, phase |-> 1, cutoff |-> [s \in Sources |-> 0],
         whole |-> {}, report |-> Absent, n |-> 0, found |-> {}, old |-> {}, todo |-> {},
         refs |-> {}, fresh |-> FALSE, held |-> {}, quiet |-> FALSE, base |-> 0]

Init ==
    /\ kea = StartKea
    /\ \E start \in StartRows : row = start.row /\ link = start.link
    /\ born = Cardinality({i \in Rows : row[i] # None})
    /\ number = 0
    /\ refers = {}
    /\ barrier = FALSE
    /\ actor = [a \in Actors |-> Idle]
    /\ budget = [orders |-> MaxOrders, moves |-> MaxMoves, edits |-> MaxEdits, faults |-> MaxFaults]
    /\ steady = [o \in Owners |-> FALSE]
    /\ rounds = [s \in Servers |-> 0]

----------------------------------------------------------------------------
(* Links, facts and status.                                                *)

Linked(ls) == {o \in Owners : ls[o] # None}
Live(l) == l # None /\ l.facts # None /\ l.mark = None
LiveSources(ls) == {o[2] : o \in {q \in Owners : Live(ls[q])}}

\* The rows and links start as earlier runs left them.
ASSUME StartAssumption ==
    \A start \in StartRows :
        /\ start.row \in [Rows -> Row \union {None}]
        /\ \A i, j \in Rows : start.row[i] # None /\ j < i => start.row[j] # None
        /\ start.link \in [Rows -> [Owners -> Link \union {None}]]
        /\ \A i \in Rows : \A o \in Linked(start.link[i]) :
              start.row[i] # None /\ start.link[i][o].n = 0 /\ start.link[i][o].mark \in {0, None}

Status(sources) ==
    CASE sources = Sources -> "active"
      [] sources = {"lease"} -> "dhcp"
      [] sources = {"reservation"} -> "reserved"

\* The markers by length: "lease", "reservation", "lease + reservation".
Fits(r, status) == r.room >= CASE status = "dhcp" -> 1 [] status = "reserved" -> 2 [] OTHER -> 3

Unclassified(o, l) == o[2] = "lease" /\ ~l.known
MarkedAndUnconfirmed(l) == l.mark # None /\ l.n <= l.mark

\* Mutant: the marks of other owners stay.
KeepsSuperseded(ls, o) == ls

\* The links that stay when owner o links the object.
WithoutSuperseded(ls, o) ==
    [q \in Owners |-> IF /\ q # o /\ ls[q] # None
                         /\ MarkedAndUnconfirmed(ls[q]) /\ ~Unclassified(q, ls[q])
                      THEN None ELSE ls[q]]

NamesDiffer(f, g) == f.name # NoName /\ g.name # NoName /\ f.name # g.name

Disagrees(o, facts, ls) ==
    \E q \in Owners \ {o} :
        /\ Live(ls[q])
        /\ \/ ls[q].facts.len # facts.len
           \/ q[2] = o[2] /\ NamesDiffer(ls[q].facts, facts)

YieldsToReservation(o, ls) ==
    /\ o[2] # "reservation"
    /\ \E q \in Owners \ {o} : Live(ls[q]) /\ q[2] = "reservation" /\ ls[q].facts.name # NoName

NewName(r, name) == IF name = NoName THEN r.name ELSE name

LiveNames(ls, source) == {ls[o].facts.name : o \in {q \in Owners : Live(ls[q]) /\ q[2] = source}} \ {NoName}

ImpliedName(ls) ==
    LET names == IF LiveNames(ls, "reservation") # {} THEN LiveNames(ls, "reservation")
                                                      ELSE LiveNames(ls, "lease")
    IN  IF Cardinality(names) = 1 THEN CHOOSE n \in names : TRUE ELSE NoName

----------------------------------------------------------------------------
(* One claim, under the locks of the identity and of the rows it found.    *)

RowsAt(place) == {i \in Rows : row[i] # None /\ row[i].place = place}

\* The marker row of the global table that the Servers may move into their VRF.
LegacyRow(s) ==
    IF /\ Vrf[s] # Global
       /\ \A t \in Servers : Vrf[t] = Vrf[s]
       /\ Cardinality(RowsAt(Global)) = 1
    THEN {i \in RowsAt(Global) : row[i].marked /\ Linked(link[i]) = {}}
    ELSE {}

Result(r, ls, outcome) == [row |-> r, links |-> ls, outcome |-> outcome]

\* StoreLink is the confirmation of owner o with number n.
StoreLink(ls, o, facts, mark, n, adopted) ==
    [ls EXCEPT ![o] = [facts |-> facts, n |-> n, mark |-> mark, known |-> TRUE,
                       adopted |-> adopted \/ (ls[o] # None /\ ls[o].adopted)]]

\* The marker in the description says that the plugin owns the row.
OwnsAll(r) == TRUE      \* Mutant: no look at the marker.
Owned(r) == r.marked

ApplyClaim(o, report, r, ls, n) ==
    LET adopted == (Linked(ls) = {} /\ r.marked) \/ \E q \in Linked(ls) : ls[q].adopted
        kept == WithoutSuperseded(ls, o)
        own == ls[o]
        oldMark == IF own = None THEN None ELSE own.mark
        Unapplied(facts) == StoreLink(kept, o, facts, oldMark, n, adopted)
        status == Status(LiveSources([kept EXCEPT ![o] = None]) \union {o[2]})
    IN  CASE report.kind = "clash" ->
               Result(r, Unapplied(IF own = None THEN None ELSE own.facts), "disagreement")
          [] report.kind = "global" -> Result(r, Unapplied(None), "unchanged")
          [] report.kind = "facts" /\ Disagrees(o, report.facts, kept) ->
               Result(r, Unapplied(report.facts), "disagreement")
          [] report.kind = "facts" /\ ~Disagrees(o, report.facts, kept) /\ ~Fits(r, status) ->
               Result(r, Unapplied(report.facts), "conflict")
          [] OTHER ->
               Result([r EXCEPT !.status = status, !.marked = TRUE, !.len = report.facts.len,
                                !.name = IF YieldsToReservation(o, kept) THEN r.name
                                         ELSE NewName(r, report.facts.name)],
                      StoreLink(kept, o, report.facts, None, n, adopted), "applied")

\* The row that a claim acts on once it holds the locks: found, or moved, or none.
Target(a) ==
    IF actor[a].found # {} THEN actor[a].found
    ELSE IF actor[a].report.kind = "facts" THEN actor[a].old ELSE {}

ClaimRow(a, o, i) ==
    LET r == [row[i] EXCEPT !.place = Vrf[o[1]]]
        report == actor[a].report
    IN  IF Owned(r) THEN ApplyClaim(o, report, r, link[i], actor[a].n)
        ELSE IF actor[a].order.kind = "force" /\ report.kind = "facts"
             THEN ApplyClaim(o, report, r, NoLinks, actor[a].n)
             ELSE Result(r, NoLinks, IF report.kind = "clash" THEN "disagreement" ELSE "conflict")

NewRow(o, facts) == [place |-> Vrf[o[1]], status |-> Status({o[2]}), marked |-> TRUE, room |-> 3,
                     name |-> facts.name, len |-> facts.len]

----------------------------------------------------------------------------
(* The workers.                                                            *)

Plan(order) ==
    CASE order.kind = "job" /\ order.server \in Reserving -> <<"lease", "reservation">>
      [] order.kind = "job" /\ order.server \notin Reserving -> <<"lease">>
      [] order.kind = "bulk" -> <<"reservation">>
      [] OTHER -> <<order.source>>

Cleans(order) == order.kind \in {"job", "bulk"}
Now(a) == <<actor[a].order.server, Plan(actor[a].order)[actor[a].phase]>>
Set(a, local) == actor' = [actor EXCEPT ![a] = local]

\* A phase of the claims ends; the cleanup starts when all of them ended.
Onward(me) ==
    IF me.phase < Len(Plan(me.order))
    THEN [me EXCEPT !.phase = @ + 1, !.pc = "cutoff", !.report = Absent, !.found = {}, !.old = {}]
    ELSE IF Cleans(me.order)
         THEN [me EXCEPT !.phase = 1, !.pc = "choose", !.report = Absent, !.found = {}, !.old = {}]
         ELSE Idle

Start(a, order) ==
    /\ actor[a].pc = "idle"
    /\ budget.orders > 0
    /\ budget' = [budget EXCEPT !.orders = @ - 1]
    /\ Set(a, [Idle EXCEPT !.pc = "cutoff", !.order = order,
                           !.held = {s \in Sources : kea[<<order.server, s>>].kind \notin {"absent", "inactive"}},
                           !.quiet = \A b \in Actors : actor[b].pc = "idle" \/ actor[b].quiet,
                           !.base = rounds[order.server]])
    /\ UNCHANGED <<kea, row, link, born, number, refers, barrier, steady, rounds>>

\* The cutoff of a phase comes before its snapshot. A page takes none.
TakeCutoff(a) ==
    /\ actor[a].pc = "cutoff"
    /\ LET me == actor[a]
       IN  IF Cleans(me.order)
           THEN /\ number' = number + 1
                /\ Set(a, [me EXCEPT !.pc = "read", !.cutoff[Now(a)[2]] = number + 1])
           ELSE /\ UNCHANGED number
                /\ Set(a, [me EXCEPT !.pc = "read"])
    /\ UNCHANGED <<kea, row, link, born, refers, barrier, budget, steady, rounds>>

\* A complete snapshot shows what Kea reports. It classifies the legacy link
\* of a lease that it shows and that is not a current address.
ReadSnapshot(a) ==
    /\ actor[a].pc = "read"
    /\ LET me == actor[a]
           report == kea[Now(a)]
           read == [me EXCEPT !.whole = @ \union {Now(a)[2]}, !.report = report,
                              !.fresh = TRUE, !.pc = "claim"]
       IN  Set(a, CASE report.kind = "absent" -> Onward(read)
                    [] report.kind = "inactive" /\ Cleans(me.order) -> [read EXCEPT !.pc = "classify"]
                    [] report.kind = "inactive" /\ ~Cleans(me.order) -> Onward(read)
                    [] OTHER -> read)
    /\ UNCHANGED <<kea, row, link, born, number, refers, barrier, budget, steady, rounds>>

Disturb == budget' = [budget EXCEPT !.faults = @ - 1] /\ budget.faults > 0
Restless(local) == [b \in Actors |-> [local[b] EXCEPT !.quiet = FALSE]]

\* The snapshot fails or is partial: the phase is not complete. A partial one
\* can still show the record.
ReadInPart(a) ==
    /\ actor[a].pc = "read"
    /\ Disturb
    /\ \E report \in {Absent, kea[Now(a)]} :
           LET me == [actor[a] EXCEPT !.report = report, !.fresh = TRUE, !.pc = "claim"]
           IN  actor' = Restless([actor EXCEPT ![a] =
                          IF report.kind \in {"absent", "inactive"} THEN Onward(me) ELSE me])
    /\ rounds' = [s \in Servers |-> 0]
    /\ UNCHANGED <<kea, row, link, born, number, refers, barrier, steady>>

Unnumbered(ls) ==
    [i \in Rows |-> [o \in Owners |-> IF ls[i][o] = None THEN None ELSE [ls[i][o] EXCEPT !.n = 0]]]

\* What a worker changes starts the count of jobs again, but for the Server whose job it runs.
Recounted(a) ==
    [s \in Servers |->
        IF row' = row /\ Unnumbered(link') = Unnumbered(link) THEN rounds[s]
        ELSE IF actor[a].order.kind = "job" /\ actor[a].order.server = s THEN rounds[s] ELSE 0]

\* The advisory locks of a claim: the global identity, then the one in the VRF.
Locks(a) == IF actor[a].pc = "commit" THEN {Global, Vrf[actor[a].order.server]} ELSE {}
NoIdentityLock(a, places) == TRUE       \* Mutant: no lock of the identity.
IdentityFree(a, places) == \A b \in Actors \ {a} : Locks(b) \cap places = {}
LockedRows == UNION {actor[a].found \union actor[a].old : a \in {b \in Actors : actor[b].pc = "commit"}}

\* The claim gets the locks, looks for the rows and takes its number.
EnterClaim(a) ==
    /\ actor[a].pc = "claim"
    /\ IdentityFree(a, {Global, Vrf[Now(a)[1]]})
    /\ number' = number + 1
    /\ Set(a, [actor[a] EXCEPT !.pc = "commit", !.n = number + 1,
                               !.found = RowsAt(Vrf[Now(a)[1]]), !.old = LegacyRow(Now(a)[1])])
    /\ UNCHANGED <<kea, row, link, born, refers, barrier, budget, steady, rounds>>

FailPhase(me) == [me EXCEPT !.whole = @ \ {Plan(me.order)[me.phase]}]

\* Two rows of one identity refuse the row.
RefuseRow(a) ==
    /\ actor[a].pc = "commit"
    /\ Cardinality(actor[a].found) > 1
    /\ Set(a, Onward(FailPhase(actor[a])))
    /\ UNCHANGED <<kea, row, link, born, number, refers, barrier, budget, steady, rounds>>

\* A database error in the transaction of the row rolls it back.
RowFails(a) ==
    /\ actor[a].pc = "commit"
    /\ Disturb
    /\ actor' = Restless([actor EXCEPT ![a] = Onward(FailPhase(@))])
    /\ rounds' = [s \in Servers |-> 0]
    /\ UNCHANGED <<kea, row, link, born, number, refers, barrier, steady>>

\* The claim left no link, so nothing protects the address for this source.
Unlinked(me) == [me EXCEPT !.held = @ \ {Plan(me.order)[me.phase]}]

CommitCreate(a) ==
    /\ actor[a].pc = "commit"
    /\ Target(a) = {}
    /\ IF actor[a].report.kind = "facts"
       THEN /\ born + 1 \in Rows
            /\ born' = born + 1
            /\ row' = [row EXCEPT ![born + 1] = NewRow(Now(a), actor[a].report.facts)]
            /\ link' = [link EXCEPT ![born + 1] =
                          StoreLink(NoLinks, Now(a), actor[a].report.facts, None, actor[a].n, FALSE)]
            /\ steady' = [steady EXCEPT ![Now(a)] = actor[a].fresh]
            /\ Set(a, Onward(actor[a]))
       ELSE /\ UNCHANGED <<born, row, link, steady>>
            /\ Set(a, Onward(Unlinked(actor[a])))
    /\ rounds' = Recounted(a)
    /\ UNCHANGED <<kea, number, refers, barrier, budget>>

CommitClaim(a) ==
    /\ actor[a].pc = "commit"
    /\ Cardinality(Target(a)) = 1
    /\ LET i == CHOOSE j \in Target(a) : TRUE
           claimed == ClaimRow(a, Now(a), i)
       IN  /\ row' = [row EXCEPT ![i] = claimed.row]
           /\ link' = [link EXCEPT ![i] = claimed.links]
           /\ steady' = IF claimed.outcome = "applied"
                        THEN [steady EXCEPT ![Now(a)] = actor[a].fresh] ELSE steady
           /\ Set(a, Onward(IF claimed.links[Now(a)] = None THEN Unlinked(actor[a]) ELSE actor[a]))
    /\ rounds' = Recounted(a)
    /\ UNCHANGED <<kea, born, number, refers, barrier, budget>>

\* The complete observation shows what the legacy lease link came from.
Classify(a) ==
    /\ actor[a].pc = "classify"
    /\ IdentityFree(a, {Global, Vrf[Now(a)[1]]})
    /\ link' = [i \in Rows |->
                  IF /\ i \in RowsAt(Vrf[Now(a)[1]]) \union RowsAt(Global)
                     /\ link[i][Now(a)] # None
                  THEN [link[i] EXCEPT ![Now(a)].known = TRUE] ELSE link[i]]
    /\ Set(a, Onward(actor[a]))
    /\ UNCHANGED <<kea, row, born, number, refers, barrier, budget, steady>>
    /\ rounds' = Recounted(a)

----------------------------------------------------------------------------
(* The cleanup of the complete phases.                                     *)

Whole(me) == \A k \in 1..Len(Plan(me.order)) : Plan(me.order)[k] \in me.whole

\* A job ends. It counts as a round when Kea, the operators and the workers of
\* other orders changed nothing since it started, and when no other job of its
\* Server counted meanwhile.
Counts(me) ==
    LET s == me.order.server
    IN  /\ me.order.kind = "job" /\ me.quiet /\ Whole(me)
        /\ rounds[s] = me.base /\ me.base < 2
        /\ \A b \in Actors : actor[b].pc # "idle" /\ actor[b].order.server = s => actor[b].base # me.base + 1

Done(a, me) ==
    /\ Set(a, Idle)
    /\ rounds' = IF Counts(me) THEN [rounds EXCEPT ![me.order.server] = @ + 1] ELSE rounds

NextCleanup(a, me) ==
    IF me.phase < Len(Plan(me.order))
    THEN Set(a, [me EXCEPT !.phase = @ + 1, !.pc = "choose", !.todo = {}]) /\ UNCHANGED rounds
    ELSE Done(a, me)

Candidates(a) ==
    {[row |-> i, place |-> row[i].place] :
       i \in {j \in Rows : /\ row[j] # None /\ link[j][Now(a)] # None
                           /\ link[j][Now(a)].n < actor[a].cutoff[Now(a)[2]]}}

\* The candidates and the references of the DHCP plugin are read without a lock.
ChooseStale(a) ==
    /\ actor[a].pc = "choose"
    /\ IF Now(a)[2] \in actor[a].whole /\ Candidates(a) # {}
       THEN /\ Set(a, [actor[a] EXCEPT !.pc = "clean", !.todo = Candidates(a), !.refs = refers])
            /\ UNCHANGED rounds
       ELSE NextCleanup(a, actor[a])
    /\ UNCHANGED <<kea, row, link, born, number, refers, barrier, budget, steady>>

\* Mutant: every run removes the last link.
LastLinksAlwaysGo(me) == TRUE

LastLinksGo(me) ==
    /\ "lease" \in me.whole
    /\ "reservation" \in me.whole \/ me.order.server \notin Reserving

Restatus(r, ls) ==
    IF LiveSources(ls) = {} THEN r
    ELSE [r EXCEPT !.status = Status(LiveSources(ls)), !.name = NewName(r, ImpliedName(ls))]

\* What the cleanup of owner o decides for a stale link of row i.
StaleLink(o, i, cutoff, lastGo, refs) ==
    LET r == row[i]
        ls == link[i]
        rest == [ls EXCEPT ![o] = None]
        others == Linked(rest)
        Kept == Result(r, ls, "kept")
    IN  IF ~Owned(r) THEN Result(r, NoLinks, "conflict")
        ELSE IF Unclassified(o, ls[o]) \/ MarkedAndUnconfirmed(ls[o]) THEN Kept
        ELSE IF ~lastGo /\ \A q \in others : q[1] # o[1] THEN Kept
        ELSE IF others # {}
             THEN IF LiveSources(rest) # {} /\ ~Fits(r, Status(LiveSources(rest))) THEN Kept
                  ELSE Result(Restatus(r, rest), rest, "unlinked")
        ELSE IF ls[o].adopted /\ barrier THEN Kept
        ELSE IF Mode = "none" \/ i \in refs THEN Result(r, rest, "unlinked")
        ELSE IF Mode = "remove" THEN Result(None, NoLinks, "removed")
        ELSE Result([r EXCEPT !.status = "deprecated"],
                    [ls EXCEPT ![o].mark = cutoff], "deprecated")

\* Mutant: a link that was chosen is not read again.
StaleWhenChosen(l, cutoff) == l # None

\* A link counts as stale only when it is still older than the cutoff under the lock.
StillStale(l, cutoff) == l # None /\ l.n < cutoff

CleanOne(a, c) ==
    LET me == actor[a]
        o == Now(a)
        cutoff == me.cutoff[o[2]]
        here == [me EXCEPT !.todo = @ \ {c}]
        moved == row[c.row] # None /\ row[c.row].place # c.place
    IN  /\ me.pc = "clean" /\ c \in me.todo
        /\ IdentityFree(a, {c.place}) /\ c.row \notin LockedRows
        /\ IF row[c.row] = None \/ moved \/ ~StillStale(link[c.row][o], cutoff)
           THEN UNCHANGED <<row, link>>
           ELSE LET decided == StaleLink(o, c.row, cutoff, LastLinksGo(me), me.refs)
                IN  /\ row' = [row EXCEPT ![c.row] = decided.row]
                    /\ link' = [link EXCEPT ![c.row] = decided.links]
        /\ Set(a, here)
        /\ rounds' = Recounted(a)
        /\ UNCHANGED <<kea, born, number, refers, barrier, budget, steady>>

\* The lock of a row is busy, or the database fails: the next run tries again.
CleanFails(a, c) ==
    /\ actor[a].pc = "clean" /\ c \in actor[a].todo
    /\ Disturb
    /\ actor' = Restless([actor EXCEPT ![a].todo = @ \ {c}])
    /\ rounds' = [s \in Servers |-> 0]
    /\ UNCHANGED <<kea, row, link, born, number, refers, barrier, steady>>

EndCleanup(a) ==
    /\ actor[a].pc = "clean" /\ actor[a].todo = {}
    /\ NextCleanup(a, actor[a])
    /\ UNCHANGED <<kea, row, link, born, number, refers, barrier, budget, steady>>

----------------------------------------------------------------------------
(* Kea, the operators and the DHCP plugin.                                 *)

\* Kea reports something else for an owner.
KeaMoves(o, report) ==
    /\ budget.moves > 0
    /\ kea[o] # report
    /\ budget' = [budget EXCEPT !.moves = @ - 1]
    /\ kea' = [kea EXCEPT ![o] = report]
    /\ LET gone == report.kind \in {"absent", "inactive"}
       IN  /\ steady' = [steady EXCEPT ![o] = @ /\ ~gone]
           /\ actor' = Restless([b \in Actors |->
                IF gone /\ actor[b].pc # "idle" /\ actor[b].order.server = o[1]
                THEN [actor[b] EXCEPT !.held = @ \ {o[2]},
                        !.fresh = @ /\ Plan(actor[b].order)[actor[b].phase] # o[2]]
                ELSE actor[b]])
    /\ rounds' = [s \in Servers |-> 0]
    /\ UNCHANGED <<row, link, born, number, refers, barrier>>

Edit(kind) ==
    /\ kind \in Edits
    /\ budget.edits > 0
    /\ budget' = [budget EXCEPT !.edits = @ - 1]
    /\ actor' = Restless([b \in Actors |->
         [actor[b] EXCEPT !.held = IF kind \in {"refer", "barrier"} THEN @ ELSE {}]])
    /\ rounds' = [s \in Servers |-> 0]
    /\ UNCHANGED <<kea, number>>

\* What an operator did to row i ends the promise to its owners.
Touched(i) == steady' = [o \in Owners |-> steady[o] /\ link[i][o] = None]

Create ==
    /\ Edit("create")
    /\ born + 1 \in Rows
    /\ born' = born + 1
    /\ \E place \in {Global} \union {Vrf[s] : s \in Servers}, marked \in BOOLEAN, f \in Facts :
           row' = [row EXCEPT ![born + 1] =
                     [place |-> place, status |-> "active", marked |-> marked, room |-> 3,
                      name |-> f.name, len |-> f.len]]
    /\ UNCHANGED <<link, refers, barrier, steady>>

Rewrite(kind, i, r) ==
    /\ Edit(kind)
    /\ row[i] # None /\ i \notin LockedRows /\ row[i] # r
    /\ row' = [row EXCEPT ![i] = r]
    /\ Touched(i)
    /\ UNCHANGED <<link, born, refers, barrier>>

Release(i) == Rewrite("release", i, [row[i] EXCEPT !.marked = FALSE])
MarkAgain(i) == Rewrite("mark", i, [row[i] EXCEPT !.marked = TRUE])
MoveAway(i) == Rewrite("move", i, [row[i] EXCEPT !.place = Elsewhere])

Delete(i) ==
    /\ Edit("delete")
    /\ row[i] # None /\ i \notin LockedRows
    /\ row' = [row EXCEPT ![i] = None]
    /\ link' = [link EXCEPT ![i] = NoLinks]
    /\ Touched(i)
    /\ UNCHANGED <<born, refers, barrier>>

\* A DHCP plugin reservation refers to the row; the foreign key waits for its lock.
Refer(i) ==
    /\ Edit("refer")
    /\ row[i] # None /\ i \notin refers /\ i \notin LockedRows
    /\ refers' = refers \union {i}
    /\ UNCHANGED <<row, link, born, barrier, steady>>

\* A new Server, a changed setting or a complete observation.
FlipBarrier ==
    /\ Edit("barrier")
    /\ barrier' = ~barrier
    /\ UNCHANGED <<row, link, born, refers, steady>>

\* The links of a deleted Server go with it.
DropServer(s) ==
    /\ Edit("drop")
    /\ \A a \in {b \in Actors : actor[b].pc # "idle"} : actor[a].order.server # s
    /\ link' = [i \in Rows |-> [o \in Owners |-> IF o[1] = s THEN None ELSE link[i][o]]]
    /\ steady' = [o \in Owners |-> steady[o] /\ o[1] # s]
    /\ UNCHANGED <<row, born, refers, barrier>>

Work(a) ==
    \/ TakeCutoff(a) \/ ReadSnapshot(a) \/ ReadInPart(a) \/ EnterClaim(a)
    \/ RefuseRow(a) \/ RowFails(a) \/ CommitCreate(a) \/ CommitClaim(a) \/ Classify(a)
    \/ ChooseStale(a) \/ EndCleanup(a)
    \/ \E c \in actor[a].todo : CleanOne(a, c) \/ CleanFails(a, c)

Operator ==
    \/ Create \/ FlipBarrier
    \/ \E i \in Rows : Release(i) \/ MarkAgain(i) \/ MoveAway(i) \/ Delete(i) \/ Refer(i)
    \/ \E s \in Servers : DropServer(s)

Finished == /\ \A a \in Actors : actor[a].pc = "idle"
            /\ UNCHANGED vars

Next ==
    \/ \E a \in Actors : Work(a) \/ \E order \in Orders : Start(a, order)
    \/ \E m \in Moves : KeaMoves(m.owner, m.report)
    \/ Operator
    \/ Finished

Spec == Init /\ [][Next]_vars

----------------------------------------------------------------------------
(* Properties.                                                             *)

Local == [pc: {"idle", "cutoff", "read", "claim", "classify", "commit", "choose", "clean"},
          order: Orders \union {None}, phase: 1..2, cutoff: [Sources -> Nat],
          whole: SUBSET Sources, report: Reports, n: Nat, found: SUBSET Rows, old: SUBSET Rows,
          todo: SUBSET [row: Rows, place: {Global, Elsewhere} \union {Vrf[s] : s \in Servers}],
          refs: SUBSET Rows, fresh: BOOLEAN, held: SUBSET Sources, quiet: BOOLEAN,
          base: 0..2]

(* Every variable keeps its type; no link names a row that is gone, and no *)
(* number of a link, a cutoff or a mark is ahead of the sequence.          *)
TypeOK ==
    /\ kea \in [Owners -> Reports]
    /\ row \in [Rows -> Row \union {None}]
    /\ \A i \in Rows : DOMAIN link[i] = Owners /\ \A o \in Linked(link[i]) :
          /\ row[i] # None
          /\ link[i][o] \in Link
          /\ link[i][o].n <= number /\ (link[i][o].mark # None => link[i][o].mark <= number)
    /\ born \in 0..Cardinality(Rows)
    /\ number \in Nat
    /\ refers \subseteq Rows
    /\ barrier \in BOOLEAN
    /\ \A a \in Actors : actor[a] \in Local /\ \A s \in Sources : actor[a].cutoff[s] <= number
    /\ steady \in [Owners -> BOOLEAN]
    /\ rounds \in [Servers -> 0..2]

(* A record that Kea reported without a gap since a claim of it was        *)
(* applied keeps its object: no cleanup of any Server, run or source       *)
(* removes, deprecates or unlinks it, whatever they read and in which      *)
(* order they commit (the cutoff of read_leases and _run_phase against     *)
(* _remove_stale_link).                                                    *)
KeptWhileReported ==
    \A o \in Owners : steady[o] =>
        \E i \in RowsAt(Vrf[o[1]]) :
            /\ row[i].marked /\ row[i].status # "deprecated"
            /\ link[i][o] # None /\ link[i][o].mark = None

(* A run removes or deprecates the object of its VRF only when no source   *)
(* that its Server synchronizes reported the address all the time since    *)
(* the run began, though it reads its sources at two moments: not after a  *)
(* partial read, a failed row, or a run of one source (_last_links_go).    *)
(* Not covered: what the run's own claim could not link (an unowned row),  *)
(* and rows that an operator changed meanwhile.                            *)
Retired(i) == row[i] # None /\ (row'[i] = None \/ (row[i].status # "deprecated" /\ row'[i].status = "deprecated"))
Synchronized(s) == IF s \in Reserving THEN Sources ELSE {"lease"}
RetiredWhenUnreported ==
    [][\A i \in Rows, a \in Actors :
         (Retired(i) /\ actor[a] # actor'[a] /\ budget'.edits = budget.edits
            /\ row[i].place = Vrf[actor[a].order.server]) =>
               actor[a].held \cap Synchronized(actor[a].order.server) = {}]_vars

(* A row without the marker, also one that an operator released while a    *)
(* run had chosen it, is changed only by operators and by a forced claim   *)
(* (_is_owned_description in _claim and _remove_stale_link).               *)
CuratedUntouched ==
    [][\A i \in Rows : (row[i] # None /\ ~row[i].marked /\ row'[i] # row[i]) =>
         \/ budget'.edits # budget.edits
         \/ \E a \in Actors : actor[a] # actor'[a] /\ actor[a].order.kind = "force"]_vars

(* Two workers never make two rows for one identity, also while one of     *)
(* them moves the legacy row of the global table into the VRF of the       *)
(* Servers (_lock_identity). An operator can make a second row.            *)
OneObjectPerIdentity ==
    [][\A place \in {Vrf[s] : s \in Servers} :
         (budget'.edits = MaxEdits /\ Cardinality(RowsAt(place)') > Cardinality(RowsAt(place))) =>
            RowsAt(place) = {} /\ Cardinality(RowsAt(place)') = 1]_vars

(* Two claims of one job can leave an older status, so two whole jobs of a *)
(* Server settle what it reports when nothing else changes: its links are  *)
(* the ones that Kea reports, what Kea reports is there, and the status is *)
(* the one of the live sources. Rows that a run must leave alone are not   *)
(* covered, and a report without facts confirms a link but not the status. *)
Agreed(i) == \A o, q \in Linked(link[i]) : Live(link[i][o]) => ~Disagrees(q, link[i][o].facts, link[i]) \/ o = q
LeftAlone(i) ==
    \/ ~row[i].marked \/ ~Agreed(i) \/ row[i].place = Elsewhere
    \/ Cardinality(RowsAt(row[i].place)) > 1
    \/ ~Fits(row[i], "active")
LinksSettled(i, s) ==
    \A o \in Linked(link[i]) : o[1] = s =>
        \/ kea[o].kind \notin {"absent", "inactive"} /\ Vrf[s] = row[i].place
        \/ Unclassified(o, link[i][o]) \/ (link[i][o].adopted /\ barrier)
        \/ o[2] = "reservation" /\ s \notin Reserving
        \/ row[i].status = "deprecated" /\ link[i][o].mark # None
StatusSettled(i, s) ==
    (\E source \in Synchronized(s) : kea[<<s, source>>].kind = "facts" /\ Live(link[i][<<s, source>>])) =>
        row[i].status = Status(LiveSources(link[i]))
Reported(o) ==
    kea[o].kind = "facts" /\ o[2] \in Synchronized(o[1]) =>
        \E i \in RowsAt(Vrf[o[1]]) : LeftAlone(i) \/ Live(link[i][o])
SettledAfterRounds ==
    \A s \in Servers : rounds[s] = 2 =>
        /\ \A i \in Rows : row[i] = None \/ LeftAlone(i) \/ (LinksSettled(i, s) /\ StatusSettled(i, s))
        /\ \A source \in Sources : Reported(<<s, source>>)

=============================================================================
