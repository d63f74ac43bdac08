--------------------------- MODULE ReservationReads ---------------------------
(* The traversal of the Reservations of one family of a Server (kea.py:      *)
(* reservation_page, reservation_snapshot). Kea keeps Reservations in        *)
(* several sources, and its cursor is a source and a place in it. A page can *)
(* be empty, a command can fail, and Reservations change between the pages.  *)
(* What an edit does is in ReservationEdits, what the synchronization does   *)
(* with a Snapshot in IpamOwnership.                                         *)
EXTENDS Naturals, Sequences, FiniteSets, FiniteSetsExt

CONSTANTS
    LastSource, LastHost,   \* the sources are 0..LastSource, the hosts of one are 1..LastHost
    Limit,          \* the records of a page
    MaxEmpty,       \* the limit of empty pages in a row (_MAX_EMPTY_RESERVATION_PAGES)
    MaxPages,       \* the limit of pages of a Snapshot (_MAX_RESERVATION_SNAPSHOT_PAGES)
    MaxBatch,       \* the pages that a search reads before it is shown (_RESERVATION_SEARCH_PAGE_LIMIT)
    Modes,          \* "snapshot", "list" and "search"
    Faulty,         \* whether Kea can return any cursor
    MaxChanges, MaxFaults,  \* bound the changes of Reservations and the failures
    None

ReadsAssumption ==
    /\ {LastSource, LastHost, MaxEmpty, MaxChanges, MaxFaults} \subseteq Nat
    /\ {Limit, MaxPages, MaxBatch} \subseteq Nat \ {0}
    /\ Modes \subseteq {"snapshot", "list", "search"} /\ None \notin {"good", "bad"}

Hosts == (0..LastSource) \X (1..LastHost)
Cursors == (0..LastSource) \X (0..LastHost)
End == <<0, 0>>     \* the cursor of the first page, and Kea's answer at the end

VARIABLES
    host,           \* Kea: what each source holds at each place
    read,           \* one traversal
    budget

vars == <<host, read, budget>>

\* A record that the plugin cannot read, or whose Subnet it cannot verify, is
\* quarantined.
Records == {None, "good", "bad"}

Idle == [pc |-> "idle"]
Present == {h \in Hosts : host[h] # None}

Init ==
    /\ host \in [Hosts -> Records]
    /\ read = Idle
    /\ budget = [changes |-> MaxChanges, faults |-> MaxFaults]

\* cursor: where the page began; next: where its next command begins; told:
\* what the diagnostics tell; asked: the commands so far; count and match: the
\* records of the page so far, and whether it holds one to show.
NewRead(mode) ==
    [pc |-> "page", mode |-> mode, held |-> Present, cursor |-> End, next |-> End, seen |-> {End}, pages |-> 0, batch |-> 0,
     former |-> {}, count |-> 0, match |-> FALSE, empty |-> 0, records |-> {}, told |-> {}, asked |-> 0]

\* A Snapshot reads page after page, a list the next page when its reader asks
\* for it. A search reads one command per page until a page has a match.
Start ==
    /\ read = Idle
    /\ \E mode \in Modes : read' = NewRead(mode)
    /\ UNCHANGED <<host, budget>>

----------------------------------------------------------------------------
(* One command.                                                            *)

Held(source, from) == {h \in Present : h[1] = source /\ h[2] > from}
FirstHosts(source, from, n) ==
    {h \in Held(source, from) : Cardinality({g \in Held(source, from) : g[2] <= h[2]}) <= n}
Place(hosts) == Max({h[2] : h \in hosts})

\* Kea's reply: the next records of the source; without one, an empty page at
\* the next source, or its records.
Reply(hosts, next) == [hosts |-> hosts, next |-> next]
FromLater(source, n) ==
    LET later == {s \in source..LastSource : Held(s, 0) # {}}
    IN  IF later = {} THEN Reply({}, End)
        ELSE LET s == Min(later)
                 hosts == FirstHosts(s, 0, n)
             IN  Reply(hosts, <<s, Place(hosts)>>)
Replies(cursor, n) ==
    LET hosts == FirstHosts(cursor[1], cursor[2], n)
    IN  IF hosts # {} THEN {Reply(hosts, <<cursor[1], Place(hosts)>>)}
        ELSE IF cursor[1] = LastSource THEN {Reply({}, End)}
        ELSE {Reply({}, <<cursor[1] + 1, 0>>), FromLater(cursor[1] + 1, n)}
FaultyReplies ==
    IF Faulty THEN {Reply(hosts, next) : hosts \in {s \in SUBSET Present : Cardinality(s) <= Limit + 1}, next \in Cursors}
    ELSE {}

EmptyRun(r, reply) == IF reply.hosts = {} THEN r.empty + 1 ELSE 0

Stalls(empty) == empty > MaxEmpty

Exceeds(r, hosts) == Cardinality(hosts) > Limit - r.count
PageFull(r) == r.mode = "search" \/ r.count >= Limit

Quarantined(hosts) == IF \E h \in hosts : host[h] = "bad" THEN {"quarantined"} ELSE {}
Good(hosts) == {h \in hosts : host[h] = "good"}

\* A Snapshot stops at a cursor it has been at, and at the limit of pages.
Stops(r, next) == next # End /\ r.mode = "snapshot" /\ (next \in r.former \union {r.cursor} \/ r.pages + 1 >= MaxPages)
\* A search goes on after a page without a match, up to its limit.
Shown(r) == r.mode = "list" \/ (r.mode = "search" /\ (r.match \/ r.batch + 1 >= MaxBatch))

\* The next page begins at the cursor.
NewPage(r, cursor) == [r EXCEPT !.cursor = cursor, !.next = cursor, !.seen = {cursor}, !.count = 0, !.match = FALSE, !.empty = 0]
Close(r, next) ==
    [NewPage(r, next) EXCEPT
        !.pages = @ + 1, !.former = @ \union {r.cursor}, !.batch = IF Shown(r) THEN 0 ELSE @ + 1,
        !.pc = IF next = End \/ Stops(r, next) THEN "done" ELSE IF Shown(r) THEN "shown" ELSE "page",
        !.told = IF Stops(r, next) THEN @ \union {"stopped"} ELSE @]

\* Mutant: a later page that fails ends the Snapshot as the last one does.
EndsQuietly(r) == [r EXCEPT !.pc = "done", !.count = 0]
\* A failed first page fails the read. A later one ends the Snapshot, and shows
\* the search with the cursor of the failed page.
Fails(r) ==
    IF (r.mode = "snapshot" /\ r.pages > 0) THEN [r EXCEPT !.pc = "done", !.count = 0, !.told = @ \union {"failed"}]
    ELSE IF r.batch > 0 THEN [NewPage(r, r.cursor) EXCEPT !.pc = "shown", !.batch = 0]
    ELSE [pc |-> "failed"]

Accept(r, reply) ==
    LET merged == [r EXCEPT !.count = @ + Cardinality(reply.hosts), !.empty = EmptyRun(r, reply), !.asked = @ + 1]
        kept == [merged EXCEPT !.records = @ \union Good(reply.hosts), !.told = @ \union Quarantined(reply.hosts),
                               !.match = @ \/ Good(reply.hosts) # {}]
    IN  IF Exceeds(r, reply.hosts) \/ Stalls(merged.empty) THEN Fails(merged)
        ELSE IF reply.next = End THEN Close(kept, End)
        ELSE IF reply.next \in r.seen THEN Fails(merged)
        ELSE IF PageFull(kept) THEN Close(kept, reply.next)
        ELSE [kept EXCEPT !.next = reply.next, !.seen = @ \union {reply.next}]

Command ==
    /\ read.pc = "page"
    /\ \E reply \in Replies(read.next, Limit - read.count) \union FaultyReplies :
          read' = Accept(read, reply)
    /\ UNCHANGED <<host, budget>>

CommandFails ==
    /\ read.pc = "page" /\ budget.faults > 0
    /\ budget' = [budget EXCEPT !.faults = @ - 1]
    /\ read' = Fails(read)
    /\ UNCHANGED host

NextPage == read.pc = "shown" /\ read' = [read EXCEPT !.pc = "page"] /\ UNCHANGED <<host, budget>>

Over == read.pc \in {"done", "failed", "shown"} /\ read' = Idle /\ UNCHANGED <<host, budget>>

\* A Reservation is deleted, added at a new place of its source, or changed.
ReservationChanges(h) ==
    /\ budget.changes > 0 /\ budget' = [budget EXCEPT !.changes = @ - 1]
    /\ \E record \in Records : record # host[h] /\ host' = [host EXCEPT ![h] = record]
    /\ read' = IF read.pc \in {"page", "shown"} THEN [read EXCEPT !.held = @ \intersect Present'] ELSE read

Next ==
    \/ Start \/ Command \/ CommandFails \/ NextPage \/ Over
    \/ \E h \in Hosts : ReservationChanges(h)

Spec == Init /\ [][Next]_vars

----------------------------------------------------------------------------
(* Properties.                                                             *)

(* A traversal without a diagnostic holds every Reservation that Kea held  *)
(* all the time, also across sources, empty pages and a search that goes on  *)
(* after a failed page. The removal of IPAM ownership relies on it           *)
(* (reservation_page, reservation_snapshot, _read_reservations).           *)
CompleteHoldsAll ==
    read.pc = "done" /\ read.told = {} => read.held \subseteq read.records

(* A Snapshot ends after a bounded number of commands, whatever cursors    *)
(* Kea returns (_MAX_EMPTY_RESERVATION_PAGES,                              *)
(* _MAX_RESERVATION_SNAPSHOT_PAGES).                                       *)
CommandsBounded ==
    read.pc \in {"page", "done"} /\ read.mode = "snapshot" =>
        read.asked <= MaxPages * Limit * (MaxEmpty + 1)
=============================================================================
