------------------------------ MODULE LeaseReads ------------------------------
(* The reads of the Leases of one family of a Server (kea.py: lease_search,  *)
(* lease_get_page, lease_get_all; the records and pages of leases.py). No    *)
(* read is atomic: clients get, renew and lose Leases between its commands.  *)
(* What a read may conclude is what it covered and which records it could    *)
(* not use. What the synchronization does with it is in IpamOwnership.       *)
EXTENDS Naturals, Sequences, FiniteSets, FiniteSetsExt

CONSTANTS
    Last,           \* the addresses are 1..Last, in the order of Kea's pages
    Kinds,          \* the allocation kinds of the family
    Raws,           \* what Kea can hold at an address
    PerPage, Caps,  \* the size of a page, and the caps of a read (or None)
    Limit,          \* max_unpaged_leases, or None
    Faulty,         \* whether a reply can repeat records or put them out of order
    MaxChanges,     \* bounds the changes of Kea's Leases
    None

States == {"assigned", "declined", "expired"}
Flaws == {"none", "record", "type", "address"}

\* What the constants are.
ReadsAssumption ==
    /\ Last \in Nat /\ PerPage \in Nat \ {0} /\ None \notin Nat
    /\ Raws \subseteq [kind: Kinds, flaw: Flaws, state: States]
    /\ Caps \subseteq (Nat \ {0}) \union {None} /\ Limit \in Nat \union {None}

Table == 1..Last
Start == 0          \* the cursor of the first page

VARIABLES
    table,          \* Kea: the record at each address
    read,           \* one read, with the Leases that Kea held all through it
    changes

vars == <<table, read, changes>>

----------------------------------------------------------------------------
(* Records.                                                                *)

Lease(a, raw) == [address |-> a, kind |-> raw.kind, state |-> raw.state]
Usable(raw) == raw.flaw = "none"

\* Mutant: a record without a usable type counts as an address.
AddressKind(raw) == IF raw.flaw = "type" THEN {"address"} ELSE {raw.kind}
\* A record without a usable type can be of every kind.
ExcludedKinds(raw) == IF raw.flaw = "type" THEN Kinds ELSE {raw.kind}

\* The address that a page continues from, None for a record that has none.
RawAddress(entry) == IF entry.raw.flaw = "address" THEN None ELSE entry.at

\* Each record is read on its own. Two with one identity exclude each other.
Identity(entry) == <<entry.at, entry.raw.kind>>
Repeated(entries, i) == \E j \in DOMAIN entries : j # i /\ Usable(entries[j].raw) /\ Identity(entries[j]) = Identity(entries[i])
UsedRecords(entries) ==
    {Lease(entries[i].at, entries[i].raw) :
        i \in {j \in DOMAIN entries : Usable(entries[j].raw) /\ ~Repeated(entries, j)}}
Diagnosed(entries) ==
    UNION {ExcludedKinds(entries[i].raw) :
             i \in {j \in DOMAIN entries : ~Usable(entries[j].raw) \/ Repeated(entries, j)}}

----------------------------------------------------------------------------
(* Pages.                                                                  *)

Entries(addresses) == [i \in DOMAIN addresses |-> [at |-> addresses[i], raw |-> table[addresses[i]]]]

\* Kea's page: the first records after the cursor.
After(cursor) == {a \in Table : a > cursor /\ table[a] # None}
Rank(a, set) == Cardinality({b \in set : b <= a})
FirstAfter(cursor, limit) ==
    LET set == {a \in After(cursor) : Rank(a, After(cursor)) <= limit}
    IN  [i \in 1..Cardinality(set) |-> CHOOSE a \in set : Rank(a, set) = i]

\* What else a faulty reply can hold.
Disordered == IF Faulty THEN {s \in UNION {[1..n -> Table] : n \in 1..2} : \A i \in DOMAIN s : table[s[i]] # None}
              ELSE {}

Positions(entries) == {i \in DOMAIN entries : RawAddress(entries[i]) # None}

\* Mutant: a page may begin with the record of its cursor.
AdvancesOrStays(entries, cursor) ==
    \A i \in Positions(entries) :
        entries[i].at >= cursor /\ \A j \in Positions(entries) : j < i => entries[j].at < entries[i].at
Advances(entries, cursor) ==
    \A i \in Positions(entries) :
        entries[i].at > cursor /\ \A j \in Positions(entries) : j < i => entries[j].at < entries[i].at

PageOk(entries, cursor, limit) ==
    /\ Len(entries) <= limit
    /\ Advances(entries, cursor)
    /\ Len(entries) = limit => RawAddress(entries[limit]) # None

NextCursor(entries, limit) == IF Len(entries) = limit THEN RawAddress(entries[limit]) ELSE None

----------------------------------------------------------------------------
(* A read.                                                                 *)

Idle == [pc |-> "idle"]

Present == {Lease(a, table[a]) : a \in {b \in Table : table[b] # None}}

Init ==
    /\ table \in [Table -> Raws \union {None}]
    /\ read = Idle
    /\ changes = MaxChanges

Begin(r) ==
    /\ read = Idle /\ read' = r
    /\ UNCHANGED <<table, changes>>

\* odd is the parity of the number of pages: every page is a step.
NewRead(pc, scope) ==
    [pc |-> pc, odd |-> FALSE, scope |-> scope, held |-> Present, at |-> Start, left |-> Kinds,
     cursor |-> Start, cap |-> None, count |-> 0, records |-> {}, excluded |-> {}]

\* lease_get_all: every page, up to a cap. lease_get_page: one page.
StartAll == \E cap \in Caps : Begin([NewRead("pages", "all") EXCEPT !.cap = cap])
StartPage == \E cursor \in {Start} \union Table : Begin([NewRead("page", "all") EXCEPT !.cursor = cursor])
\* lease_search: one address, or the Leases of a Subnet (all, or in one state).
StartExact == \E a \in Table : Begin([NewRead("exact", "one") EXCEPT !.at = a])
StartSearch == \E state \in {"any", "assigned", "declined"} :
                  Begin(NewRead(IF Limit = None THEN "search" ELSE "measure", state))

Goes(r) == read' = r /\ UNCHANGED <<table, changes>>
\* A Snapshot holds no two Leases with one identity.
End(r, covers) ==
    IF \E l, k \in r.records : l # k /\ l.address = k.address /\ l.kind = k.kind THEN Goes([pc |-> "failed"])
    ELSE Goes([pc |-> "done", scope |-> r.scope, held |-> r.held, at |-> r.at, cap |-> r.cap, count |-> r.count,
               records |-> r.records, excluded |-> r.excluded, covers |-> covers, next |-> r.cursor])
Fail == Goes([pc |-> "failed"])

Least(a, b) == IF a < b THEN a ELSE b
PageLimit(r) == IF r.cap = None THEN PerPage ELSE Least(PerPage, r.cap - r.count)

AtCap(r) == r.cap # None /\ r.count >= r.cap

FetchPage ==
    /\ read.pc \in {"pages", "page"}
    /\ \E addresses \in {FirstAfter(read.cursor, PageLimit(read))} \union Disordered :
          LET entries == Entries(addresses)
              limit == PageLimit(read)
              next == NextCursor(entries, limit)
              merged == [read EXCEPT !.odd = ~@, !.cursor = next,
                                     !.count = IF read.cap = None THEN 0 ELSE @ + Len(entries),
                                     !.records = @ \union UsedRecords(entries),
                                     !.excluded = @ \union Diagnosed(entries)]
          IN  IF ~PageOk(entries, read.cursor, limit) THEN Fail
              ELSE IF read.pc = "page" THEN End(merged, read.cursor = Start /\ next = None)
              ELSE IF next = None THEN End(merged, TRUE)
              ELSE Goes(IF AtCap(merged) THEN [merged EXCEPT !.pc = "probe"] ELSE merged)

\* At the cap, one more record tells whether the end is proven.
Probe ==
    /\ read.pc = "probe"
    /\ LET rest == FirstAfter(read.cursor, 1)
       IN  IF Len(rest) = 0 THEN End([read EXCEPT !.cursor = None], TRUE) ELSE End(read, FALSE)

\* An address is looked up once for each kind that it can hold. A record that
\* is malformed, or of the other kind, is no absence.
LookUp ==
    /\ read.pc = "exact"
    /\ LET a == read.at
           kind == CHOOSE k \in read.left : TRUE
           raw == table[a]
           found == raw # None /\ raw.kind = kind
           r == [read EXCEPT !.left = @ \ {kind},
                             !.records = IF found /\ Usable(raw) THEN @ \union {Lease(a, raw)} ELSE @,
                             !.excluded = IF found /\ ~Usable(raw) THEN @ \union ExcludedKinds(raw) ELSE @]
       IN  IF r.left = {} THEN End([r EXCEPT !.cursor = None], TRUE) ELSE Goes(r)

\* Kea counts assigned and declined Leases, and no others.
Counted(state) ==
    Cardinality({a \in Table : table[a] # None /\ table[a].state # "expired"
                                   /\ state \in {"any", table[a].state}})

TooBroad(count) == Limit # None /\ count > Limit

\* The guard measures a Subnet before it reads it.
Measure ==
    /\ read.pc = "measure"
    /\ IF Counted(read.scope) > Limit THEN Fail ELSE Goes([read EXCEPT !.pc = "search"])

Search ==
    /\ read.pc = "search"
    /\ LET addresses == {a \in Table : table[a] # None /\ read.scope \in {"any", table[a].state}}
           entries == Entries([i \in 1..Cardinality(addresses) |-> CHOOSE a \in addresses : Rank(a, addresses) = i])
       IN  IF TooBroad(Len(entries)) THEN Fail
           ELSE End([read EXCEPT !.cursor = None, !.count = Len(entries), !.records = UsedRecords(entries),
                                 !.excluded = Diagnosed(entries)], TRUE)

\* A command fails, or its reply is lost: no read keeps a part of its result.
Lost == read.pc \notin {"idle", "done", "failed"} /\ Fail

Close == read.pc \in {"done", "failed"} /\ read' = Idle /\ UNCHANGED <<table, changes>>

LeaseChanges(a) ==
    /\ changes > 0 /\ changes' = changes - 1
    /\ \E raw \in Raws \union {None} : raw # table[a] /\ table' = [table EXCEPT ![a] = raw]
    /\ IF read.pc \in {"idle", "done", "failed"} THEN UNCHANGED read
       ELSE read' = [read EXCEPT !.held = @ \intersect Present']

Steps == FetchPage \/ Probe \/ LookUp \/ Measure \/ Search

Next ==
    \/ StartAll \/ StartPage \/ StartExact \/ StartSearch
    \/ Steps \/ Lost \/ Close
    \/ \E a \in Table : LeaseChanges(a)

\* A read goes on by itself: every command answers or times out.
Spec == Init /\ [][Next]_vars /\ WF_vars(Steps)

----------------------------------------------------------------------------
(* Properties.                                                             *)

InScope(lease) ==
    read.scope \in {"all", "any", lease.state} \/ (read.scope = "one" /\ read.at = lease.address)

(* A read that says that it covers its scope holds every Lease that Kea    *)
(* held all the time, or names its kind among the kinds of the records     *)
(* that it left out. A read with no such kind is what the cleanup of IPAM  *)
(* and a complete export rely on (LeaseSnapshot.complete, lease_get_all).  *)
NothingMissed ==
    read.pc = "done" /\ read.covers =>
        \A lease \in read.held : InScope(lease) => lease \in read.records \/ lease.kind \in read.excluded

(* A read that stops at its cap before Kea's last Lease says so, and keeps *)
(* the place to go on from; and no read holds more records than its cap or *)
(* the limit of an unpaged query (lease_get_all, lease_search).            *)
CapsHold ==
    read.pc = "done" =>
        /\ read.covers => read.next = None
        /\ read.cap # None /\ ~read.covers => read.next # None
        /\ read.cap # None => read.count <= read.cap
        /\ read.scope \in States \union {"any"} /\ Limit # None => read.count <= Limit

(* Every read ends, also when every reply repeats the last page            *)
(* (read_lease_page).                                                      *)
ReadEnds == read.pc = "pages" ~> read.pc \in {"done", "failed", "idle"}
=============================================================================
