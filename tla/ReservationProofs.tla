-------------------------- MODULE ReservationProofs --------------------------
(* Theorems about the Reservations of Kea: what the edits and imports of     *)
(* ReservationEdits store, and what the traversals of ReservationReads hold, *)
(* for every set of identities, addresses and names, for every document and  *)
(* size of a page, and however often the Reservations change while a request *)
(* or a traversal is under way.                                              *)
EXTENDS ReservationEdits, FiniteSetTheorems, WellFoundedInduction, TLAPS

CONSTANTS LastSource, LastHost, PageSize, MaxEmpty, MaxPages, MaxBatch, MaxChanges, Modes, AnyCursor   \* ReservationReads
VARIABLES reserved, walk, faults

Walking == INSTANCE ReservationReads WITH
    host <- reserved, read <- walk, budget <- faults, Limit <- PageSize, Faulty <- AnyCursor

----------------------------------------------------------------------------
(* ReservationReads: the ends of a finite set of numbers.                  *)

LEMMA SameW == \A S : Walking!Cardinality(S) = Cardinality(S)
BY DEF Walking!Cardinality, Cardinality

\* A set of numbers has a least one.
LEMMA LeastOK ==
    ASSUME NEW S \in SUBSET Nat, S # {}
    PROVE  \E a \in S : \A b \in S : a <= b
<1>1. PICK a \in S : \A b \in S : <<b, a>> \notin OpToRel(<, Nat)
  BY NatLessThanWellFounded, WFMin
<1>2. ASSUME NEW b \in S PROVE ~(b < a)
  BY <1>1 DEF OpToRel
<1>3. a \in Nat /\ \A b \in S : b \in Nat /\ ~(b < a)
  BY <1>2
<1> QED
  BY <1>3

\* A finite set of numbers has a least and a greatest one.
LEMMA Ends ==
    ASSUME NEW S \in SUBSET Nat, IsFiniteSet(S), S # {}
    PROVE  /\ \E a \in S : \A b \in S : a <= b
           /\ \E a \in S : \A b \in S : b <= a
<1> DEFINE Below(a) == {b \in S : b <= a}
           above == {Cardinality(S) - Cardinality(Below(a)) : a \in S}
<1>1. ASSUME NEW a \in S
      PROVE  IsFiniteSet(Below(a)) /\ Cardinality(Below(a)) \in Nat /\ Cardinality(Below(a)) <= Cardinality(S)
             /\ Cardinality(S) \in Nat
  <2>1. Below(a) \in SUBSET S
    OBVIOUS
  <2> HIDE DEF Below
  <2> QED
    BY <2>1, FS_Subset, FS_CardinalityType
<1>2. PICK z \in S : \A b \in S : Cardinality(Below(b)) <= Cardinality(Below(z))
  <2> HIDE DEF Below
  <2>1. above \in SUBSET Nat /\ above # {}
    <3>1. \A a \in S : Cardinality(S) - Cardinality(Below(a)) \in Nat
      BY <1>1
    <3> QED
      BY <3>1
  <2>2. PICK n \in above : \A m \in above : n <= m
    BY <2>1, LeastOK
  <2>3. PICK z \in S : n = Cardinality(S) - Cardinality(Below(z))
    BY <2>2
  <2>4. ASSUME NEW b \in S PROVE Cardinality(Below(b)) <= Cardinality(Below(z))
    <3>1. Cardinality(S) - Cardinality(Below(z)) <= Cardinality(S) - Cardinality(Below(b))
      BY <2>2, <2>3
    <3> QED
      BY <1>1, <3>1
  <2> QED
    BY <2>4
<1>3. ASSUME NEW b \in S PROVE b <= z
  <2> SUFFICES ASSUME ~(b <= z) PROVE FALSE
    OBVIOUS
  <2>1. z \in Nat /\ b \in Nat /\ z < b
    OBVIOUS
  <2>2. Below(z) \subseteq Below(b) /\ b \in Below(b) /\ b \notin Below(z)
    <3>1. ~(b <= z) /\ b <= b
      BY <2>1
    <3>2. \A c \in S : c \in Nat /\ (c <= z => c <= b)
      BY <2>1
    <3> QED
      BY <3>1, <3>2
  <2> HIDE DEF Below
  <2>3. Cardinality(Below(z)) <= Cardinality(Below(b))
        /\ (Cardinality(Below(b)) = Cardinality(Below(z)) => Below(b) = Below(z))
    BY <1>1, <2>2, FS_Subset
  <2> QED
    BY <1>1, <1>2, <2>2, <2>3
<1> QED
  BY <1>3, LeastOK

----------------------------------------------------------------------------
(* What Kea answers.                                                       *)

Walk == Walking!Hosts
Sources == 0..LastSource

ReservedOK == reserved \in [Walk -> Walking!Records]

\* A host is before a place of the traversal.
Before(h, c) == h[1] < c[1] \/ (h[1] = c[1] /\ h[2] <= c[2])

LEMMA HeldOK ==
    ASSUME Walking!ReadsAssumption, NEW s, NEW from
    PROVE  /\ IsFiniteSet(Walking!Held(s, from)) /\ Walking!Held(s, from) \subseteq Walking!Present
           /\ \A h \in Walking!Held(s, from) : h \in Walk /\ h[1] = s /\ h[2] \in 1..LastHost /\ h[2] > from
<1>1. LastSource \in Nat /\ LastHost \in Nat
  BY DEF Walking!ReadsAssumption
<1>2. IsFiniteSet(Sources) /\ IsFiniteSet(1..LastHost)
  BY <1>1, FS_Interval DEF Sources
<1>3. IsFiniteSet(Walk)
  BY <1>2, FS_Product DEF Walk, Sources, Walking!Hosts
<1>4. Walking!Held(s, from) \in SUBSET Walk
  BY DEF Walking!Held, Walking!Present, Walk
<1>5. IsFiniteSet(Walking!Held(s, from))
  BY <1>3, <1>4, FS_Subset
<1> QED
  BY <1>4, <1>5 DEF Walking!Held, Walking!Present, Walk, Walking!Hosts

\* The first hosts of a source are below the others, and there is one when the
\* source holds one.
LEMMA FirstHostsOK ==
    ASSUME Walking!ReadsAssumption, NEW s, NEW from, NEW n \in Nat \ {0}
    PROVE  LET H == Walking!Held(s, from)
               F == Walking!FirstHosts(s, from, n)
           IN  /\ F \subseteq H /\ IsFiniteSet(F) /\ (H # {} => F # {})
               /\ \A a \in F, c \in H : c[2] <= a[2] => c \in F
<1> DEFINE H == Walking!Held(s, from)
           F == Walking!FirstHosts(s, from, n)
           Below(h) == {g \in H : g[2] <= h[2]}
<1>1. F = {h \in H : Cardinality(Below(h)) <= n}
  BY SameW DEF Walking!FirstHosts
<1>2. IsFiniteSet(H) /\ \A h \in H : h \in Walk /\ h[1] = s /\ h[2] \in 1..LastHost
  BY HeldOK
<1>3. F \in SUBSET H
  <2> HIDE DEF H, F, Below
  <2> QED
    BY <1>1
<1>4. IsFiniteSet(F)
  BY <1>2, <1>3, FS_Subset
<1>5. \A h \in H : IsFiniteSet(Below(h)) /\ Cardinality(Below(h)) \in Nat
  <2> SUFFICES ASSUME NEW h \in H PROVE IsFiniteSet(Below(h)) /\ Cardinality(Below(h)) \in Nat
    OBVIOUS
  <2>1. Below(h) \in SUBSET H
    OBVIOUS
  <2> HIDE DEF Below, H
  <2> QED
    BY <1>2, <2>1, FS_Subset, FS_CardinalityType
<1>6. ASSUME NEW a \in F, NEW c \in H, c[2] <= a[2] PROVE c \in F
  <2>1. a \in H /\ Cardinality(Below(a)) <= n
    <3> HIDE DEF H, Below
    <3> QED
      BY <1>1
  <2>2. Below(c) \in SUBSET Below(a)
    <3>1. a[2] \in Nat /\ c[2] \in Nat /\ \A g \in H : g[2] \in Nat
      BY <1>2, <2>1
    <3> HIDE DEF H
    <3>2. \A g \in H : g[2] <= c[2] => g[2] <= a[2]
      BY <3>1, <1>6
    <3> QED
      BY <3>2
  <2> HIDE DEF H, Below
  <2>3. Cardinality(Below(c)) <= Cardinality(Below(a))
    BY <1>5, <2>1, <2>2, FS_Subset
  <2>4. Cardinality(Below(c)) <= n
    BY <1>5, <2>1, <2>3
  <2> QED
    BY <1>1, <2>4
<1>7. ASSUME H # {} PROVE F # {}
  <2> DEFINE P == {h[2] : h \in H}
  <2>1. P \in SUBSET (1..LastHost) /\ P # {}
    BY <1>2, <1>7
  <2>2. IsFiniteSet(P) /\ P \in SUBSET Nat
    <3>1. LastHost \in Nat
      BY DEF Walking!ReadsAssumption
    <3>2. IsFiniteSet(1..LastHost) /\ (1..LastHost) \subseteq Nat
      BY <3>1, FS_Interval
    <3> HIDE DEF P
    <3>3. IsFiniteSet(P)
      BY <2>1, <3>2, FS_Subset
    <3> QED
      BY <2>1, <3>2, <3>3
  <2>3. PICK p \in P : \A q \in P : p <= q
    <3> HIDE DEF P
    <3> QED
      BY <2>1, <2>2, Ends
  <2>4. PICK h \in H : h[2] = p
    OBVIOUS
  <2>5. \A g \in H : h[2] <= g[2]
    BY <2>3, <2>4
  <2>6. \A g \in H : g[2] <= h[2] => g = h
    <3>1. \A g \in H : g = <<g[1], g[2]>> /\ g[1] = s /\ g[2] \in Nat
      <4>1. \A g \in Walk : g = <<g[1], g[2]>>
        BY DEF Walk, Walking!Hosts
      <4> QED
        BY <1>2, <4>1
    <3> HIDE DEF H
    <3>2. \A g \in H : g[2] <= h[2] => g[2] = h[2]
      BY <2>5, <3>1
    <3> QED
      BY <3>1, <3>2
  <2>7. Below(h) = {h}
    <3>1. h[2] \in Nat
      BY <1>2
    <3>2. h[2] <= h[2]
      BY <3>1
    <3> HIDE DEF H
    <3> QED
      BY <2>6, <3>2
  <2>8. Cardinality(Below(h)) = 1
    BY <2>7, FS_Singleton
  <2>9. h \in F
    <3> HIDE DEF H, Below, F
    <3> QED
      BY <1>1, <2>8
  <2> QED
    BY <2>9
<1> HIDE DEF H, F
<1> QED
  BY <1>3, <1>4, <1>6, <1>7 DEF H, F

\* The place where the next page of a source begins.
LEMMA PlaceOK ==
    ASSUME Walking!ReadsAssumption, NEW s \in Sources, NEW from \in Nat, NEW n \in Nat \ {0},
           Walking!FirstHosts(s, from, n) # {}
    PROVE  LET F == Walking!FirstHosts(s, from, n)
           IN  /\ Walking!Place(F) \in 1..LastHost
               /\ \A h \in Walking!Present : h[1] = s /\ h[2] > from /\ h[2] <= Walking!Place(F) => h \in F
<1> DEFINE H == Walking!Held(s, from)
           F == Walking!FirstHosts(s, from, n)
           P == {h[2] : h \in F}
<1>1. F \subseteq H /\ \A a \in F, c \in H : c[2] <= a[2] => c \in F
  BY FirstHostsOK
<1>2. \A h \in H : h[2] \in 1..LastHost
  BY HeldOK
<1>3. LastHost \in Nat
  BY DEF Walking!ReadsAssumption
<1> HIDE DEF H, F
<1>4. P \in SUBSET (1..LastHost) /\ P # {}
  BY <1>1, <1>2 DEF F
<1>5. IsFiniteSet(1..LastHost) /\ (1..LastHost) \subseteq Nat
  BY <1>3, FS_Interval
<1>6. IsFiniteSet(P)
  <2> HIDE DEF P
  <2> QED
    BY <1>4, <1>5, FS_Subset
<1>7. \E a \in P : \A b \in P : b <= a
  <2> HIDE DEF P
  <2> QED
    BY <1>4, <1>5, <1>6, Ends
<1>8. Walking!Place(F) \in P
  <2>1. Walking!Place(F) = CHOOSE a \in P : \A b \in P : a >= b
    BY DEF Walking!Place, Walking!Max
  <2>2. \E a \in P : \A b \in P : a >= b
    <3> HIDE DEF P
    <3> QED
      BY <1>4, <1>5, <1>7
  <2> HIDE DEF P
  <2> QED
    BY <2>1, <2>2
<1>9. PICK a \in F : a[2] = Walking!Place(F)
  BY <1>8
<1>10. ASSUME NEW h \in Walking!Present, h[1] = s, h[2] > from, h[2] <= Walking!Place(F) PROVE h \in F
  <2>1. h \in H
    BY <1>10 DEF H, Walking!Held
  <2> QED
    BY <1>1, <1>9, <1>10, <2>1
<1>11. Walking!Place(F) \in 1..LastHost
  <2> HIDE DEF P
  <2> QED
    BY <1>4, <1>8
<1> QED
  BY <1>10, <1>11 DEF F

\* A page holds what Kea held between its cursor and its next one.
ReplyCovers(reply, cursor) ==
    /\ reply.hosts \subseteq Walking!Present /\ IsFiniteSet(reply.hosts) /\ reply.next \in Walking!Cursors
    /\ \A h \in Walking!Present :
          (reply.next = Walking!End \/ Before(h, reply.next)) => Before(h, cursor) \/ h \in reply.hosts

LEMMA ReplyOK ==
    ASSUME Walking!ReadsAssumption, NEW cursor \in Walking!Cursors, NEW n \in Nat \ {0},
           NEW reply \in Walking!Replies(cursor, n)
    PROVE  ReplyCovers(reply, cursor)
<1> DEFINE c1 == cursor[1]
           c2 == cursor[2]
           F == Walking!FirstHosts(c1, c2, n)
<1>1. c1 \in Sources /\ c2 \in 0..LastHost /\ cursor = <<c1, c2>>
  BY DEF Walking!Cursors, Sources
<1>2. LastSource \in Nat /\ LastHost \in Nat /\ c1 \in Nat /\ c2 \in Nat
  BY <1>1 DEF Walking!ReadsAssumption, Sources
<1>3. \A h \in Walking!Present : h[1] \in Sources /\ h[2] \in 1..LastHost
  BY DEF Walking!Present, Walking!Hosts, Sources
<1>4. \A s \in Sources, p \in 0..LastHost : <<s, p>> \in Walking!Cursors
  BY DEF Walking!Cursors, Sources
<1>5. \A h \in Walking!Present : ~Before(h, cursor) => h[1] > c1 \/ (h[1] = c1 /\ h[2] > c2)
  BY <1>2, <1>3 DEF Before, Sources
<1>6. {} \subseteq Walking!Present /\ IsFiniteSet({}) /\ Walking!End \in Walking!Cursors
  BY <1>2, <1>4, FS_EmptySet DEF Walking!End, Sources
<1>7. \A hosts, next : Walking!Reply(hosts, next).hosts = hosts /\ Walking!Reply(hosts, next).next = next
  BY DEF Walking!Reply
<1>8. CASE F # {}
  <2> DEFINE place == Walking!Place(F)
  <2>1. reply = Walking!Reply(F, <<c1, place>>)
    BY <1>8 DEF Walking!Replies
  <2>2. F \subseteq Walking!Present /\ IsFiniteSet(F)
    BY <1>1, HeldOK, FirstHostsOK
  <2>3. place \in 1..LastHost /\ \A h \in Walking!Present : h[1] = c1 /\ h[2] > c2 /\ h[2] <= place => h \in F
    BY <1>1, <1>2, <1>8, PlaceOK
  <2> HIDE DEF F, place
  <2>4. <<c1, place>> \in Walking!Cursors
    BY <1>1, <1>2, <1>4, <2>3
  <2>5. <<c1, place>> # Walking!End
    BY <1>2, <2>3 DEF Walking!End
  <2>6. ASSUME NEW h \in Walking!Present, Before(h, <<c1, place>>), ~Before(h, cursor) PROVE h \in F
    <3>1. h[1] < c1 \/ (h[1] = c1 /\ h[2] <= place)
      BY <2>6 DEF Before
    <3> QED
      BY <1>2, <1>3, <1>5, <2>3, <2>6, <3>1 DEF Sources
  <2> QED
    BY <1>7, <2>1, <2>2, <2>4, <2>5, <2>6 DEF ReplyCovers
<1>9. CASE F = {}
  <2>1. Walking!Held(c1, c2) = {}
    BY <1>9, FirstHostsOK
  <2>2. \A h \in Walking!Present : ~Before(h, cursor) => h[1] > c1
    BY <1>5, <2>1 DEF Walking!Held
  <2>3. CASE c1 = LastSource
    <3>1. reply = Walking!Reply({}, Walking!End)
      BY <1>9, <2>3 DEF Walking!Replies
    <3>2. \A h \in Walking!Present : Before(h, cursor)
      BY <1>2, <1>3, <2>2, <2>3 DEF Sources
    <3> QED
      BY <1>6, <1>7, <3>1, <3>2 DEF ReplyCovers
  <2>4. CASE c1 # LastSource /\ reply = Walking!Reply({}, <<c1 + 1, 0>>)
    <3>1. c1 + 1 \in Sources /\ 0 \in 0..LastHost
      BY <1>1, <1>2, <2>4 DEF Sources
    <3>2. <<c1 + 1, 0>> \in Walking!Cursors /\ <<c1 + 1, 0>> # Walking!End
      BY <1>2, <1>4, <3>1 DEF Walking!End
    <3>3. ASSUME NEW h \in Walking!Present, Before(h, <<c1 + 1, 0>>) PROVE Before(h, cursor)
      <4>1. h[1] < c1 + 1
        BY <1>3, <3>3 DEF Before
      <4> QED
        BY <1>2, <1>3, <2>2, <4>1 DEF Sources
    <3> QED
      BY <1>6, <1>7, <2>4, <3>2, <3>3 DEF ReplyCovers
  <2>5. CASE c1 # LastSource /\ reply = Walking!FromLater(c1 + 1, n)
    <3> DEFINE later == {s \in (c1 + 1)..LastSource : Walking!Held(s, 0) # {}}
    <3>1. \A h \in Walking!Present : ~Before(h, cursor) => h[1] \in later
      <4> SUFFICES ASSUME NEW h \in Walking!Present, ~Before(h, cursor) PROVE h[1] \in later
        OBVIOUS
      <4>1. h[1] > c1 /\ h[1] \in Sources /\ h[2] > 0
        BY <1>3, <2>2
      <4>2. h \in Walking!Held(h[1], 0)
        BY <4>1 DEF Walking!Held
      <4>3. h[1] \in (c1 + 1)..LastSource
        BY <1>2, <4>1 DEF Sources
      <4> QED
        BY <4>2, <4>3
    <3>2. later \in SUBSET Sources /\ later \in SUBSET Nat /\ IsFiniteSet(later)
      <4>1. later \in SUBSET ((c1 + 1)..LastSource)
        OBVIOUS
      <4>2. IsFiniteSet((c1 + 1)..LastSource) /\ ((c1 + 1)..LastSource) \subseteq Sources /\ Sources \subseteq Nat
        <5>1. c1 + 1 \in Int /\ LastSource \in Int
          BY <1>2
        <5>2. IsFiniteSet((c1 + 1)..LastSource)
          BY <5>1, FS_Interval
        <5>3. ((c1 + 1)..LastSource) \subseteq Sources /\ Sources \subseteq Nat
          BY <1>2 DEF Sources
        <5> QED
          BY <5>2, <5>3
      <4> HIDE DEF later
      <4>3. IsFiniteSet(later)
        BY <4>1, <4>2, FS_Subset
      <4> QED
        BY <4>1, <4>2, <4>3
    <3>3. CASE later = {}
      <4>1. reply = Walking!Reply({}, Walking!End)
        BY <2>5, <3>3 DEF Walking!FromLater
      <4> HIDE DEF later
      <4> QED
        BY <1>6, <1>7, <3>1, <3>3, <4>1 DEF ReplyCovers
    <3>4. CASE later # {}
      <4> DEFINE s == Walking!Min(later)
                 G == Walking!FirstHosts(s, 0, n)
                 place == Walking!Place(G)
      <4>1. reply = Walking!Reply(G, <<s, place>>)
        BY <2>5, <3>4 DEF Walking!FromLater
      <4>2. s \in later /\ \A t \in later : s <= t
        <5> HIDE DEF later
        <5> QED
          BY <3>2, <3>4, Ends DEF Walking!Min
      <4>3. Walking!Held(s, 0) # {} /\ s \in Sources
        <5>1. Walking!Held(s, 0) # {}
          BY <4>2
        <5> HIDE DEF later
        <5> QED
          BY <3>2, <4>2, <5>1
      <4> HIDE DEF later, s
      <4>4. G # {} /\ G \subseteq Walking!Present /\ IsFiniteSet(G)
        BY <4>3, HeldOK, FirstHostsOK
      <4>5. place \in 1..LastHost /\ \A h \in Walking!Present : h[1] = s /\ h[2] > 0 /\ h[2] <= place => h \in G
        BY <4>3, <4>4, PlaceOK
      <4> HIDE DEF G, place
      <4>6. <<s, place>> \in Walking!Cursors /\ <<s, place>> # Walking!End
        BY <1>2, <1>4, <4>3, <4>5 DEF Walking!End
      <4>7. ASSUME NEW h \in Walking!Present, Before(h, <<s, place>>), ~Before(h, cursor) PROVE h \in G
        <5>1. h[1] < s \/ (h[1] = s /\ h[2] <= place)
          BY <4>7 DEF Before
        <5>2. h[1] \in later /\ s <= h[1] /\ h[2] \in 1..LastHost
          BY <1>3, <3>1, <4>2, <4>7
        <5>3. h[1] = s /\ h[2] <= place /\ h[2] > 0
          <6>1. h[1] \in Nat /\ s \in Nat
            BY <3>2, <4>2, <5>2
          <6>2. h[1] = s /\ h[2] <= place
            BY <5>1, <5>2, <6>1
          <6> QED
            BY <1>2, <5>2, <6>2
        <5> QED
          BY <4>5, <4>7, <5>3
      <4> QED
        BY <1>7, <4>1, <4>4, <4>6, <4>7 DEF ReplyCovers
    <3> QED
      BY <3>3, <3>4
  <2>6. c1 = LastSource \/ reply \in {Walking!Reply({}, <<c1 + 1, 0>>), Walking!FromLater(c1 + 1, n)}
    BY <1>9 DEF Walking!Replies
  <2> QED
    BY <2>3, <2>4, <2>5, <2>6
<1> QED
  BY <1>8, <1>9

----------------------------------------------------------------------------
(* The traversal of a family.                                              *)

WalkRecord ==
    [pc : {"page", "shown", "done"}, mode : {"snapshot", "list", "search"}, held : SUBSET Walk,
     cursor : Walking!Cursors, next : Walking!Cursors, seen : SUBSET Walking!Cursors, pages : Nat, batch : Nat,
     former : SUBSET Walking!Cursors, count : Nat, match : BOOLEAN, empty : Nat, records : SUBSET Walk,
     told : SUBSET {"stopped", "failed", "quarantined"}, asked : Nat]

\* The commands that pages with so many records can take.
Work(records) == records * (MaxEmpty + 1)

\* A read that nothing is wrong with holds what it has passed.
PassedHeld(r, cursor) ==
    ~AnyCursor /\ r.told = {} => \A h \in r.held : cursor = Walking!End \/ Before(h, cursor) => h \in r.records
ShapeOK(r) ==
    /\ r \in WalkRecord
    /\ r.batch > 0 => r.pages > 0
    /\ r.pc # "done" => r.held \subseteq Walking!Present /\ r.count < PageSize /\ r.empty <= MaxEmpty
    /\ r.pc = "shown" => r.mode # "snapshot"
PassedOK(r) ==
    ~AnyCursor /\ r.told = {} =>
        \A h \in r.held : (r.pc = "done" \/ Before(h, r.next) \/ Before(h, r.cursor)) => h \in r.records
AskedOK(r) ==
    r.mode = "snapshot" =>
        /\ r.pc = "page" => r.pages < MaxPages /\ r.asked <= Work(r.pages * PageSize + r.count) + r.empty
        /\ r.pc = "done" => r.asked <= Work(MaxPages * PageSize)
WalkOK(r) == ShapeOK(r) /\ PassedOK(r) /\ AskedOK(r)

WalkEnded(r) == r \in {[pc |-> "idle"], [pc |-> "failed"]}
WalkInv == ReservedOK /\ (WalkEnded(walk) \/ WalkOK(walk))

LEMMA LimitsOK ==
    ASSUME Walking!ReadsAssumption
    PROVE  /\ PageSize \in Nat \ {0} /\ MaxPages \in Nat \ {0} /\ MaxBatch \in Nat \ {0} /\ MaxEmpty \in Nat
           /\ LastSource \in Nat /\ LastHost \in Nat
BY DEF Walking!ReadsAssumption

\* More records take more commands.
LEMMA WorkOK ==
    ASSUME MaxEmpty \in Nat, NEW a \in Nat, NEW b \in Nat
    PROVE  /\ Work(a) \in Nat
           /\ Work(a + 1) = Work(a) + MaxEmpty + 1
           /\ a <= b => Work(a) <= Work(b)
<1> DEFINE m == MaxEmpty + 1
<1>1. m \in Nat /\ m > 0
  OBVIOUS
<1> HIDE DEF m
<1>2. a * m \in Nat /\ (a + 1) * m = a * m + m
  BY <1>1
<1>3. ASSUME a <= b PROVE a * m <= b * m
  <2>1. PICK d \in Nat : b = a + d
    <3>1. b - a \in Nat /\ b = a + (b - a)
      BY <1>3
    <3> QED
      BY <3>1
  <2>2. b * m = a * m + d * m /\ d * m \in Nat
    BY <1>1, <2>1
  <2> QED
    BY <1>2, <2>2
<1> QED
  BY <1>2, <1>3 DEF Work, m

\* A page more has the records of one.
LEMMA PagesOK ==
    ASSUME Walking!ReadsAssumption, NEW p \in Nat, NEW c \in Nat
    PROVE  /\ p * PageSize \in Nat /\ (p + 1) * PageSize = p * PageSize + PageSize
           /\ p < MaxPages => (p + 1) * PageSize <= MaxPages * PageSize /\ MaxPages * PageSize \in Nat
<1> DEFINE m == PageSize
<1>1. m \in Nat /\ MaxPages \in Nat
  BY LimitsOK
<1> HIDE DEF m
<1>2. p * m \in Nat /\ (p + 1) * m = p * m + m /\ MaxPages * m \in Nat
  BY <1>1
<1>3. ASSUME p < MaxPages PROVE (p + 1) * m <= MaxPages * m
  <2>1. PICK d \in Nat : MaxPages = (p + 1) + d
    <3>1. MaxPages - (p + 1) \in Nat /\ MaxPages = (p + 1) + (MaxPages - (p + 1))
      BY <1>1, <1>3
    <3> QED
      BY <3>1
  <2>2. MaxPages * m = (p + 1) * m + d * m /\ d * m \in Nat /\ (p + 1) * m \in Nat
    BY <1>1, <2>1
  <2> QED
    BY <2>2
<1> QED
  BY <1>2, <1>3 DEF m

LEMMA WalkFields ==
    ASSUME NEW r \in WalkRecord
    PROVE  /\ r.pc \in {"page", "shown", "done"} /\ r.mode \in {"snapshot", "list", "search"}
           /\ r.held \subseteq Walk /\ r.records \subseteq Walk
           /\ r.cursor \in Walking!Cursors /\ r.next \in Walking!Cursors
           /\ r.seen \subseteq Walking!Cursors /\ r.former \subseteq Walking!Cursors
           /\ r.pages \in Nat /\ r.batch \in Nat /\ r.count \in Nat /\ r.empty \in Nat /\ r.asked \in Nat
           /\ r.match \in BOOLEAN /\ r.told \subseteq {"stopped", "failed", "quarantined"}
BY DEF WalkRecord

\* No host is before the first page.
LEMMA FirstCursorOK ==
    ASSUME Walking!ReadsAssumption, NEW h \in Walk
    PROVE  ~Before(h, Walking!End)
<1>1. h[1] \in Nat /\ h[2] \in Nat \ {0}
  BY LimitsOK DEF Walk, Walking!Hosts
<1> QED
  BY <1>1 DEF Before, Walking!End

----------------------------------------------------------------------------
(* The end of a page.                                                      *)

LEMMA FailsOK ==
    ASSUME Walking!ReadsAssumption, NEW r \in WalkRecord, r.pc = "page", r.held \subseteq Walking!Present,
           r.batch > 0 => r.pages > 0,
           ~AnyCursor /\ r.told = {} => \A h \in r.held : Before(h, r.cursor) => h \in r.records,
           r.mode = "snapshot" => r.asked <= Work(MaxPages * PageSize)
    PROVE  WalkEnded(Walking!Fails(r)) \/ WalkOK(Walking!Fails(r))
<1>1. PageSize \in Nat \ {0} /\ MaxEmpty \in Nat
  BY LimitsOK
<1>2. CASE r.mode = "snapshot" /\ r.pages > 0
  <2> DEFINE f == [r EXCEPT !.pc = "done", !.count = 0, !.told = @ \union {"failed"}]
  <2>1. Walking!Fails(r) = f
    BY <1>2 DEF Walking!Fails
  <2>2. f \in WalkRecord
    BY WalkFields DEF WalkRecord
  <2>3. f.pc = "done" /\ f.told # {} /\ f.held = r.held /\ f.batch = r.batch /\ f.pages = r.pages /\ f.mode = r.mode
        /\ f.asked = r.asked
    BY DEF WalkRecord
  <2> HIDE DEF f
  <2> QED
    BY <2>1, <2>2, <2>3 DEF WalkOK, ShapeOK, PassedOK, AskedOK
<1>3. CASE ~(r.mode = "snapshot" /\ r.pages > 0) /\ r.batch > 0
  <2> DEFINE f == [Walking!NewPage(r, r.cursor) EXCEPT !.pc = "shown", !.batch = 0]
  <2>1. Walking!Fails(r) = f
    BY <1>3 DEF Walking!Fails
  <2>2. f \in WalkRecord
    <3>1. Walking!NewPage(r, r.cursor) \in WalkRecord
      BY WalkFields DEF WalkRecord, Walking!NewPage
    <3> QED
      BY <3>1 DEF WalkRecord
  <2>3. /\ f.pc = "shown" /\ f.told = r.told /\ f.held = r.held /\ f.batch = 0 /\ f.mode = r.mode /\ f.records = r.records
        /\ f.count = 0 /\ f.empty = 0 /\ f.next = r.cursor /\ f.cursor = r.cursor
    BY DEF WalkRecord, Walking!NewPage
  <2>4. r.mode # "snapshot"
    BY <1>3
  <2> HIDE DEF f
  <2>5. ShapeOK(f)
    BY <1>1, <2>2, <2>3, <2>4 DEF ShapeOK
  <2>6. PassedOK(f)
    BY <2>3 DEF PassedOK
  <2>7. AskedOK(f)
    BY <2>3 DEF AskedOK
  <2> QED
    BY <2>1, <2>5, <2>6, <2>7 DEF WalkOK
<1>4. CASE ~(r.mode = "snapshot" /\ r.pages > 0) /\ ~(r.batch > 0)
  BY <1>4 DEF Walking!Fails, WalkEnded
<1> QED
  BY <1>2, <1>3, <1>4

LEMMA PageEndsOK ==
    ASSUME Walking!ReadsAssumption, NEW r \in WalkRecord, r.pc = "page", r.held \subseteq Walking!Present,
           NEW next \in Walking!Cursors, PassedHeld(r, next),
           r.mode = "snapshot" => r.pages < MaxPages /\ r.asked <= Work((r.pages + 1) * PageSize)
    PROVE  WalkOK(Walking!Close(r, next))
<1> DEFINE n == Walking!NewPage(r, next)
           c == Walking!Close(r, next)
<1>1. PageSize \in Nat \ {0} /\ MaxPages \in Nat \ {0} /\ MaxEmpty \in Nat /\ r.pages \in Nat
  BY LimitsOK, WalkFields
<1>2. n \in WalkRecord
  BY WalkFields DEF WalkRecord, Walking!NewPage
<1>3. /\ n.pages = r.pages /\ n.former = r.former /\ n.batch = r.batch /\ n.told = r.told /\ n.held = r.held
      /\ n.records = r.records /\ n.mode = r.mode /\ n.count = 0 /\ n.empty = 0 /\ n.next = next /\ n.cursor = next
         /\ n.asked = r.asked
  BY DEF WalkRecord, Walking!NewPage
<1>4. /\ c = [n EXCEPT !.pages = c.pages, !.former = c.former, !.batch = c.batch, !.pc = c.pc, !.told = c.told]
      /\ c.pages = r.pages + 1 /\ c.former = r.former \union {r.cursor}
      /\ c.batch = IF Walking!Shown(r) THEN 0 ELSE r.batch + 1
      /\ c.pc = IF next = Walking!End \/ Walking!Stops(r, next) THEN "done" ELSE IF Walking!Shown(r) THEN "shown" ELSE "page"
      /\ c.told = IF Walking!Stops(r, next) THEN r.told \union {"stopped"} ELSE r.told
  <2> HIDE DEF n
  <2>1. c = [n EXCEPT
        !.pages = @ + 1, !.former = @ \union {r.cursor}, !.batch = IF Walking!Shown(r) THEN 0 ELSE @ + 1,
        !.pc = IF next = Walking!End \/ Walking!Stops(r, next) THEN "done" ELSE IF Walking!Shown(r) THEN "shown" ELSE "page",
        !.told = IF Walking!Stops(r, next) THEN @ \union {"stopped"} ELSE @]
    BY DEF n, Walking!Close
  <2> HIDE DEF c
  <2>2. /\ c.pages = n.pages + 1 /\ c.former = n.former \union {r.cursor}
        /\ c.batch = IF Walking!Shown(r) THEN 0 ELSE n.batch + 1
        /\ c.pc = IF next = Walking!End
           \/ Walking!Stops(r, next) THEN "done" ELSE IF Walking!Shown(r) THEN "shown" ELSE "page"
        /\ c.told = IF Walking!Stops(r, next) THEN n.told \union {"stopped"} ELSE n.told
    BY <1>2, <2>1 DEF WalkRecord
  <2>3. c = [n EXCEPT !.pages = c.pages, !.former = c.former, !.batch = c.batch, !.pc = c.pc, !.told = c.told]
    BY <1>2, <2>1, <2>2 DEF WalkRecord
  <2> QED
    BY <1>3, <2>2, <2>3
<1> HIDE DEF c, n
<1>5. c.pages \in Nat /\ c.former \subseteq Walking!Cursors /\ c.batch \in Nat /\ c.pc \in {"page", "shown", "done"}
      /\ c.told \subseteq {"stopped", "failed", "quarantined"}
  BY <1>4, WalkFields
<1>6. c \in WalkRecord
  BY <1>2, <1>4, <1>5 DEF WalkRecord
<1>7. /\ c.held = r.held /\ c.records = r.records /\ c.mode = r.mode /\ c.count = 0 /\ c.empty = 0
      /\ c.next = next /\ c.cursor = next /\ c.asked = r.asked
  <2>1. /\ c.held = n.held /\ c.records = n.records /\ c.mode = n.mode /\ c.count = n.count /\ c.empty = n.empty
        /\ c.next = n.next /\ c.cursor = n.cursor /\ c.asked = n.asked
    <3>1. c = [n EXCEPT !.pages = c.pages, !.former = c.former, !.batch = c.batch, !.pc = c.pc, !.told = c.told]
      BY <1>4
    <3> QED
      BY <1>2, <3>1 DEF WalkRecord
  <2> QED
    BY <1>3, <2>1
<1>8. ShapeOK(c)
  <2>1. c.pc = "shown" => c.mode # "snapshot"
    BY <1>4, <1>7 DEF Walking!Shown
  <2>2. c.pages > 0
    BY <1>1, <1>4
  <2> QED
    BY <1>1, <1>6, <1>7, <2>1, <2>2 DEF ShapeOK
<1>9. PassedOK(c)
  <2> SUFFICES ASSUME ~AnyCursor, c.told = {}, NEW h \in r.held, c.pc = "done" \/ Before(h, next) PROVE h \in r.records
    BY <1>7 DEF PassedOK
  <2>1. ~Walking!Stops(r, next) /\ r.told = {}
    BY <1>4
  <2>2. next = Walking!End \/ Before(h, next)
    BY <1>4, <2>1
  <2> QED
    BY <2>1, <2>2 DEF PassedHeld
<1>10. AskedOK(c)
  <2> SUFFICES ASSUME r.mode = "snapshot"
               PROVE  /\ c.pc = "page" => c.pages < MaxPages /\ c.asked <= Work(c.pages * PageSize + 0) + 0
                      /\ c.pc = "done" => c.asked <= Work(MaxPages * PageSize)
    BY <1>7 DEF AskedOK
  <2> DEFINE k == (r.pages + 1) * PageSize
             l == MaxPages * PageSize
  <2>1. r.pages + 1 \in Nat
    BY <1>1
  <2>2. k \in Nat /\ l \in Nat /\ k <= l
    BY <1>1, <2>1, PagesOK
  <2> HIDE DEF k, l
  <2>3. Work(k) \in Nat /\ Work(l) \in Nat /\ Work(k) <= Work(l)
    BY <1>1, <2>2, WorkOK
  <2>4. c.asked <= Work(k) /\ c.asked \in Nat
    BY <1>7, WalkFields DEF k
  <2>5. c.asked <= Work(l)
    BY <2>3, <2>4
  <2>6. ASSUME c.pc = "page" PROVE c.pages < MaxPages
    <3>1. ~Walking!Stops(r, next) /\ next # Walking!End
      BY <1>4, <2>6
    <3>2. ~(r.pages + 1 >= MaxPages)
      BY <3>1 DEF Walking!Stops
    <3> QED
      BY <1>1, <1>4, <3>2
  <2>7. c.pages * PageSize + 0 = k
    BY <1>4, <2>2 DEF k
  <2> QED
    BY <2>3, <2>4, <2>5, <2>6, <2>7 DEF l
<1> QED
  <2>1. WalkOK(c)
    BY <1>8, <1>9, <1>10 DEF WalkOK
  <2> QED
    BY <2>1 DEF c

----------------------------------------------------------------------------
(* A reply of Kea.                                                         *)

\* One more command of a page is within the commands of the pages so far.
LEMMA OneMore ==
    ASSUME Walking!ReadsAssumption, NEW r, WalkOK(r), r.pc = "page", r.mode = "snapshot"
    PROVE  /\ r.asked \in Nat
           /\ r.asked + 1 <= Work((r.pages + 1) * PageSize)
           /\ r.asked + 1 <= Work(MaxPages * PageSize) /\ Work(MaxPages * PageSize) \in Nat
<1> DEFINE p == r.pages * PageSize
           q == (r.pages + 1) * PageSize
           l == MaxPages * PageSize
<1>1. /\ r.pages < MaxPages /\ r.asked <= Work(p + r.count) + r.empty
      /\ r \in WalkRecord /\ r.count < PageSize /\ r.empty <= MaxEmpty
  BY DEF WalkOK, AskedOK, ShapeOK
<1>2. r.pages \in Nat /\ r.count \in Nat /\ r.empty \in Nat /\ r.asked \in Nat /\ PageSize \in Nat /\ MaxEmpty \in Nat
  BY <1>1, WalkFields, LimitsOK
<1>3. p \in Nat /\ q = p + PageSize /\ q <= l /\ l \in Nat
  BY <1>1, <1>2, PagesOK
<1> HIDE DEF p, q, l
<1>4. p + r.count \in Nat /\ p + r.count + 1 \in Nat /\ p + r.count + 1 <= q /\ q \in Nat
  BY <1>1, <1>2, <1>3
<1>5. /\ Work(p + r.count) \in Nat /\ Work(p + r.count + 1) = Work(p + r.count) + MaxEmpty + 1
      /\ Work(p + r.count + 1) <= Work(q) /\ Work(q) <= Work(l) /\ Work(q) \in Nat /\ Work(l) \in Nat
  BY <1>2, <1>3, <1>4, WorkOK
<1>6. r.asked + 1 <= Work(q) /\ r.asked + 1 <= Work(l)
  BY <1>1, <1>2, <1>5
<1> QED
  BY <1>2, <1>5, <1>6 DEF q, l

LEMMA AcceptOK ==
    ASSUME Walking!ReadsAssumption, NEW r, WalkOK(r), r.pc = "page",
           NEW reply, reply.hosts \subseteq Walking!Present, IsFiniteSet(reply.hosts), reply.next \in Walking!Cursors,
           ReservedOK, ~AnyCursor => ReplyCovers(reply, r.next)
    PROVE  WalkEnded(Walking!Accept(r, reply)) \/ WalkOK(Walking!Accept(r, reply))
<1> DEFINE size == Cardinality(reply.hosts)
           merged == [r EXCEPT !.count = @ + Walking!Cardinality(reply.hosts), !.empty = Walking!EmptyRun(r, reply),
             !.asked = @ + 1]
           kept == [merged EXCEPT !.records = @ \union Walking!Good(reply.hosts),
                                  !.told = @ \union Walking!Quarantined(reply.hosts),
                                  !.match = @ \/ Walking!Good(reply.hosts) # {}]
           further == [kept EXCEPT !.next = reply.next, !.seen = @ \union {reply.next}]
<1>1. Walking!Accept(r, reply) =
        IF Walking!Exceeds(r, reply.hosts) \/ Walking!Stalls(merged.empty) THEN Walking!Fails(merged)
        ELSE IF reply.next = Walking!End THEN Walking!Close(kept, Walking!End)
        ELSE IF reply.next \in r.seen THEN Walking!Fails(merged)
        ELSE IF Walking!PageFull(kept) THEN Walking!Close(kept, reply.next)
        ELSE further
  BY DEF Walking!Accept
<1>2. /\ PageSize \in Nat \ {0} /\ MaxPages \in Nat \ {0} /\ MaxEmpty \in Nat
      /\ r \in WalkRecord /\ r.held \subseteq Walking!Present /\ (r.batch > 0 => r.pages > 0)
      /\ r.count < PageSize /\ r.empty <= MaxEmpty
  BY LimitsOK DEF WalkOK, ShapeOK
<1>3. /\ r.pages \in Nat /\ r.count \in Nat /\ r.empty \in Nat /\ r.asked \in Nat /\ r.held \subseteq Walk
         /\ r.records \subseteq Walk
      /\ r.told \subseteq {"stopped", "failed", "quarantined"} /\ r.match \in BOOLEAN /\ r.seen \subseteq Walking!Cursors
  BY <1>2, WalkFields
<1>4. size \in Nat /\ (size = 0 <=> reply.hosts = {})
  BY FS_CardinalityType, FS_EmptySet
<1>5. /\ Walking!EmptyRun(r, reply) \in Nat
      /\ Walking!EmptyRun(r, reply) = IF size = 0 THEN r.empty + 1 ELSE 0
  BY <1>3, <1>4 DEF Walking!EmptyRun
<1> HIDE DEF size
<1>6. /\ merged \in WalkRecord
      /\ merged.pc = "page" /\ merged.held = r.held /\ merged.batch = r.batch /\ merged.pages = r.pages
         /\ merged.mode = r.mode
      /\ merged.told = r.told /\ merged.records = r.records /\ merged.cursor = r.cursor /\ merged.next = r.next
      /\ merged.match = r.match /\ merged.seen = r.seen
      /\ merged.count = r.count + size /\ merged.asked = r.asked + 1 /\ merged.empty = Walking!EmptyRun(r, reply)
  <2>1. Walking!Cardinality(reply.hosts) = size
    BY SameW DEF size
  <2>2. r.count + size \in Nat /\ r.asked + 1 \in Nat
    BY <1>3, <1>4
  <2>3. merged = [r EXCEPT !.count = r.count + size, !.empty = Walking!EmptyRun(r, reply), !.asked = r.asked + 1]
    BY <2>1
  <2> HIDE DEF merged
  <2>4. merged \in WalkRecord
    BY <1>2, <1>5, <2>2, <2>3 DEF WalkRecord
  <2> QED
    BY <1>2, <2>3, <2>4 DEF WalkRecord
<1> HIDE DEF merged
<1>7. Walking!Good(reply.hosts) \subseteq Walk /\ Walking!Quarantined(reply.hosts) \subseteq {"quarantined"}
  BY DEF Walking!Good, Walking!Quarantined, Walking!Present, Walk
<1>8. /\ kept \in WalkRecord
      /\ kept.pc = "page" /\ kept.held = r.held /\ kept.batch = r.batch /\ kept.pages = r.pages /\ kept.mode = r.mode
      /\ kept.told = r.told \union Walking!Quarantined(reply.hosts)
      /\ kept.records = r.records \union Walking!Good(reply.hosts)
      /\ kept.cursor = r.cursor /\ kept.next = r.next /\ kept.seen = r.seen
      /\ kept.count = r.count + size /\ kept.asked = r.asked + 1 /\ kept.empty = merged.empty
  <2>1. /\ merged.records \union Walking!Good(reply.hosts) \in SUBSET Walk
        /\ merged.told \union Walking!Quarantined(reply.hosts) \in SUBSET {"stopped", "failed", "quarantined"}
        /\ (merged.match \/ Walking!Good(reply.hosts) # {}) \in BOOLEAN
    BY <1>3, <1>6, <1>7
  <2>2. kept \in WalkRecord
    BY <1>6, <2>1 DEF WalkRecord
  <2>3. /\ kept.pc = merged.pc /\ kept.held = merged.held /\ kept.batch = merged.batch /\ kept.pages = merged.pages
        /\ kept.mode = merged.mode /\ kept.cursor = merged.cursor /\ kept.next = merged.next /\ kept.seen = merged.seen
        /\ kept.count = merged.count /\ kept.asked = merged.asked /\ kept.empty = merged.empty
        /\ kept.told = merged.told \union Walking!Quarantined(reply.hosts)
        /\ kept.records = merged.records \union Walking!Good(reply.hosts)
    BY <1>6 DEF WalkRecord
  <2> QED
    BY <1>6, <2>2, <2>3
<1> HIDE DEF kept
<1>9. ASSUME ~AnyCursor, kept.told = {}, NEW h \in r.held, reply.next = Walking!End \/ Before(h, reply.next)
             \/ Before(h, r.cursor)
      PROVE  h \in kept.records
  <2>1. r.told = {} /\ \A g \in reply.hosts : reserved[g] # "bad"
    BY <1>8, <1>9 DEF Walking!Quarantined
  <2>2. Before(h, r.cursor) => h \in r.records
    BY <1>9, <2>1 DEF WalkOK, PassedOK
  <2>3. CASE Before(h, r.cursor)
    BY <1>8, <2>2, <2>3
  <2>4. CASE ~Before(h, r.cursor)
    <3>1. h \in Walking!Present
      BY <1>2
    <3>2. Before(h, r.next) \/ h \in reply.hosts
      BY <1>9, <2>4, <3>1 DEF ReplyCovers
    <3>3. Before(h, r.next) => h \in r.records
      BY <1>9, <2>1 DEF WalkOK, PassedOK
    <3>4. h \in reply.hosts => h \in Walking!Good(reply.hosts)
      <4>1. reserved[h] # None
        BY <3>1 DEF Walking!Present
      <4> QED
        BY <2>1, <3>1, <4>1 DEF ReservedOK, Walking!Good, Walking!Records, Walking!Present, Walk
    <3> QED
      BY <1>8, <3>2, <3>3, <3>4
  <2> QED
    BY <2>3, <2>4
<1>10. ASSUME r.mode = "snapshot"
       PROVE  /\ r.pages < MaxPages
              /\ r.asked + 1 <= Work((r.pages + 1) * PageSize)
              /\ r.asked + 1 <= Work(MaxPages * PageSize)
              /\ merged.empty <= MaxEmpty => r.asked + 1 <= Work(r.pages * PageSize + (r.count + size)) + merged.empty
  <2> DEFINE p == r.pages * PageSize
  <2>1. r.pages < MaxPages /\ r.asked <= Work(p + r.count) + r.empty
    BY <1>10 DEF WalkOK, AskedOK
  <2>2. p \in Nat
    BY <1>3, PagesOK
  <2> HIDE DEF p
  <2>3. p + r.count \in Nat /\ p + r.count + 1 \in Nat /\ p + (r.count + size) \in Nat
    BY <1>3, <1>4, <2>2
  <2>4. Work(p + r.count) \in Nat /\ Work(p + r.count + 1) = Work(p + r.count) + MaxEmpty + 1
        /\ Work(p + r.count + 1) \in Nat
    BY <1>2, <2>3, WorkOK
  <2>5. r.asked + 1 <= Work(p + r.count + 1)
    BY <1>2, <1>3, <2>1, <2>4
  <2>6. r.asked + 1 <= Work((r.pages + 1) * PageSize) /\ r.asked + 1 <= Work(MaxPages * PageSize)
    BY <1>10, OneMore
  <2>7. r.asked + 1 <= Work(p + (r.count + size)) + merged.empty
    <3>1. CASE size = 0
      <4>1. p + (r.count + size) = p + r.count /\ merged.empty = r.empty + 1
        BY <1>3, <1>5, <1>6, <2>2, <3>1
      <4> QED
        BY <1>3, <2>1, <2>4, <4>1
    <3>2. CASE size # 0
      <4>1. p + r.count + 1 <= p + (r.count + size) /\ merged.empty = 0 /\ p + r.count + 1 \in Nat
        BY <1>3, <1>4, <1>5, <1>6, <2>2, <3>2
      <4>2. Work(p + r.count + 1) <= Work(p + (r.count + size)) /\ Work(p + (r.count + size)) \in Nat
            /\ Work(p + r.count + 1) \in Nat
        BY <1>2, <2>3, <4>1, WorkOK
      <4> QED
        BY <1>3, <2>5, <4>1, <4>2
    <3> QED
      BY <3>1, <3>2
  <2> QED
    BY <2>1, <2>6, <2>7 DEF p
<1>11. WalkEnded(Walking!Fails(merged)) \/ WalkOK(Walking!Fails(merged))
  <2>1. ~AnyCursor /\ merged.told = {} => \A h \in merged.held : Before(h, merged.cursor) => h \in merged.records
    BY <1>6 DEF WalkOK, PassedOK
  <2>2. merged.mode = "snapshot" => merged.asked <= Work(MaxPages * PageSize)
    BY <1>6, <1>10
  <2> QED
    BY <1>2, <1>6, <2>1, <2>2, FailsOK
<1>12. ASSUME NEW next \in Walking!Cursors, next = reply.next PROVE WalkOK(Walking!Close(kept, next))
  <2>1. PassedHeld(kept, next)
    BY <1>8, <1>9, <1>12 DEF PassedHeld
  <2>2. kept.mode = "snapshot" => kept.pages < MaxPages /\ kept.asked <= Work((kept.pages + 1) * PageSize)
    BY <1>8, <1>10
  <2> QED
    BY <1>2, <1>8, <2>1, <2>2, PageEndsOK
<1>13. ASSUME ~Walking!Exceeds(r, reply.hosts), ~Walking!Stalls(merged.empty), ~Walking!PageFull(kept),
              reply.next # Walking!End
       PROVE  WalkOK(further)
  <2>1. /\ further \in WalkRecord
        /\ further.pc = "page" /\ further.held = kept.held /\ further.batch = kept.batch /\ further.pages = kept.pages
        /\ further.mode = kept.mode /\ further.cursor = kept.cursor /\ further.next = reply.next
        /\ further.count = kept.count /\ further.asked = kept.asked /\ further.empty = kept.empty
        /\ further.told = kept.told /\ further.records = kept.records
    <3>1. kept.seen \union {reply.next} \in SUBSET Walking!Cursors
      BY <1>3, <1>8
    <3> QED
      BY <1>8, <3>1 DEF WalkRecord
  <2> HIDE DEF further
  <2>2. kept.count < PageSize
    <3>1. ~(kept.count >= PageSize)
      BY <1>13 DEF Walking!PageFull
    <3> QED
      BY <1>2, <1>3, <1>4, <1>8, <3>1
  <2>3. merged.empty <= MaxEmpty /\ merged.empty \in Nat
    BY <1>2, <1>5, <1>6, <1>13 DEF Walking!Stalls
  <2>4. ShapeOK(further)
    BY <1>2, <1>8, <2>1, <2>2, <2>3 DEF ShapeOK
  <2>5. PassedOK(further)
    <3> SUFFICES ASSUME ~AnyCursor, kept.told = {}, NEW h \in r.held, Before(h, reply.next) \/ Before(h, r.cursor)
                 PROVE  h \in kept.records
      BY <1>8, <2>1 DEF PassedOK
    <3> QED
      BY <1>9
  <2>6. AskedOK(further)
    BY <1>8, <1>10, <2>1, <2>3 DEF AskedOK
  <2> QED
    BY <2>4, <2>5, <2>6 DEF WalkOK
<1> HIDE DEF further
<1> QED
  BY <1>1, <1>11, <1>12, <1>13

----------------------------------------------------------------------------
(* The steps.                                                              *)

LEMMA WalkInit == ASSUME Walking!Init PROVE WalkInv
BY DEF Walking!Init, WalkInv, ReservedOK, Walk, WalkEnded, Walking!Idle

LEMMA PresentFinite == ASSUME Walking!ReadsAssumption PROVE IsFiniteSet(Walking!Present)
<1>1. IsFiniteSet(Sources) /\ IsFiniteSet(1..LastHost)
  BY LimitsOK, FS_Interval DEF Sources
<1>2. IsFiniteSet(Walk)
  BY <1>1, FS_Product DEF Walk, Sources, Walking!Hosts
<1>3. Walking!Present \in SUBSET Walk
  BY DEF Walking!Present, Walk
<1> QED
  BY <1>2, <1>3, FS_Subset

\* A step that leaves the Reservations alone.
LEMMA WalkKept ==
    ASSUME ReservedOK, reserved' = reserved, WalkEnded(walk') \/ WalkOK(walk')
    PROVE  WalkInv'
<1>1. Walking!Present' = Walking!Present
  BY DEF Walking!Present
<1> QED
  BY <1>1 DEF WalkInv, ReservedOK, WalkEnded, WalkOK, ShapeOK, PassedOK, AskedOK, Work, WalkRecord, Before, Walk,
     Walking!Hosts, Walking!Cursors

LEMMA WalkStarts == ASSUME Walking!ReadsAssumption, WalkInv, Walking!Start PROVE WalkInv'
<1>1. PICK mode \in Modes : walk' = Walking!NewRead(mode)
  BY DEF Walking!Start
<1> DEFINE r == Walking!NewRead(mode)
<1>2. mode \in {"snapshot", "list", "search"}
  BY DEF Walking!ReadsAssumption
<1>3. Walking!End \in Walking!Cursors /\ Walking!Present \subseteq Walk
  BY LimitsOK DEF Walking!End, Walking!Cursors, Walking!Present, Walk
<1>4. r \in WalkRecord
  BY <1>2, <1>3 DEF Walking!NewRead, WalkRecord
<1>5. ShapeOK(r)
  BY <1>4, LimitsOK DEF ShapeOK, Walking!NewRead
<1>6. PassedOK(r)
  BY <1>3, FirstCursorOK DEF PassedOK, Walking!NewRead
<1>7. AskedOK(r)
  <2>1. 0 * PageSize + 0 = 0
    BY LimitsOK
  <2>2. Work(0) \in Nat
    BY LimitsOK, WorkOK
  <2> QED
    BY <2>1, <2>2, LimitsOK DEF AskedOK, Walking!NewRead
<1> HIDE DEF r
<1>8. WalkOK(walk')
  <2>1. WalkOK(r)
    BY <1>5, <1>6, <1>7 DEF WalkOK
  <2> QED
    BY <1>1, <2>1 DEF r
<1> QED
  BY <1>8, WalkKept DEF WalkInv, Walking!Start

LEMMA WalkCommands == ASSUME Walking!ReadsAssumption, WalkInv, Walking!Command PROVE WalkInv'
<1>1. walk.pc = "page" /\ reserved' = reserved
  BY DEF Walking!Command
<1>2. WalkOK(walk) /\ ReservedOK
  BY <1>1 DEF WalkInv, WalkEnded
<1>3. PICK reply \in Walking!Replies(walk.next,
      PageSize - walk.count) \union Walking!FaultyReplies : walk' = Walking!Accept(walk, reply)
  BY DEF Walking!Command
<1>4. walk.next \in Walking!Cursors /\ PageSize - walk.count \in Nat \ {0}
  BY <1>1, <1>2, LimitsOK, WalkFields DEF WalkOK, ShapeOK
<1>5. CASE reply \in Walking!Replies(walk.next, PageSize - walk.count)
  <2>1. ReplyCovers(reply, walk.next)
    BY <1>4, <1>5, ReplyOK
  <2> QED
    BY <1>1, <1>2, <1>3, <2>1, AcceptOK, WalkKept DEF ReplyCovers
<1>6. CASE reply \in Walking!FaultyReplies
  <2>1. AnyCursor /\ reply.hosts \subseteq Walking!Present /\ reply.next \in Walking!Cursors
    BY <1>6 DEF Walking!FaultyReplies, Walking!Reply
  <2>2. IsFiniteSet(reply.hosts)
    BY <2>1, PresentFinite, FS_Subset
  <2> QED
    BY <1>1, <1>2, <1>3, <2>1, <2>2, AcceptOK, WalkKept
<1> QED
  BY <1>3, <1>5, <1>6

LEMMA WalkCommandFails == ASSUME Walking!ReadsAssumption, WalkInv, Walking!CommandFails PROVE WalkInv'
<1>1. walk.pc = "page" /\ walk' = Walking!Fails(walk) /\ reserved' = reserved
  BY DEF Walking!CommandFails
<1>2. WalkOK(walk) /\ ReservedOK
  BY <1>1 DEF WalkInv, WalkEnded
<1>3. /\ walk \in WalkRecord /\ walk.held \subseteq Walking!Present /\ (walk.batch > 0 => walk.pages > 0)
      /\ walk.count < PageSize /\ walk.empty <= MaxEmpty
  BY <1>1, <1>2 DEF WalkOK, ShapeOK
<1>4. ~AnyCursor /\ walk.told = {} => \A h \in walk.held : Before(h, walk.cursor) => h \in walk.records
  BY <1>2 DEF WalkOK, PassedOK
<1>5. walk.mode = "snapshot" => walk.asked <= Work(MaxPages * PageSize)
  <2> HAVE walk.mode = "snapshot"
  <2> QED
    BY <1>1, <1>2, OneMore
<1>6. WalkEnded(Walking!Fails(walk)) \/ WalkOK(Walking!Fails(walk))
  BY <1>1, <1>3, <1>4, <1>5, FailsOK
<1> QED
  BY <1>1, <1>2, <1>6, WalkKept

LEMMA WalkGoesOn == ASSUME Walking!ReadsAssumption, WalkInv, Walking!NextPage PROVE WalkInv'
<1>1. walk.pc = "shown" /\ walk' = [walk EXCEPT !.pc = "page"] /\ reserved' = reserved
  BY DEF Walking!NextPage
<1>2. WalkOK(walk) /\ ReservedOK
  BY <1>1 DEF WalkInv, WalkEnded
<1> DEFINE r == [walk EXCEPT !.pc = "page"]
<1>3. walk \in WalkRecord /\ walk.mode # "snapshot"
  BY <1>1, <1>2 DEF WalkOK, ShapeOK
<1>4. /\ r \in WalkRecord
      /\ r.pc = "page" /\ r.held = walk.held /\ r.batch = walk.batch /\ r.pages = walk.pages /\ r.count = walk.count
      /\ r.empty = walk.empty /\ r.mode = walk.mode /\ r.told = walk.told /\ r.next = walk.next /\ r.cursor = walk.cursor
      /\ r.records = walk.records
  BY <1>3 DEF WalkRecord
<1> HIDE DEF r
<1>5. ShapeOK(r)
  BY <1>1, <1>2, <1>4 DEF WalkOK, ShapeOK
<1>6. PassedOK(r)
  BY <1>1, <1>2, <1>4 DEF WalkOK, PassedOK
<1>7. AskedOK(r)
  BY <1>3, <1>4 DEF AskedOK
<1>8. WalkOK(walk')
  <2>1. WalkOK(r)
    BY <1>5, <1>6, <1>7 DEF WalkOK
  <2> QED
    BY <1>1, <2>1 DEF r
<1> QED
  BY <1>1, <1>2, <1>8, WalkKept

LEMMA WalkOver == ASSUME WalkInv, Walking!Over PROVE WalkInv'
<1>1. WalkEnded(walk') /\ reserved' = reserved /\ ReservedOK
  BY DEF Walking!Over, Walking!Idle, WalkEnded, WalkInv
<1> QED
  BY <1>1, WalkKept

\* What a read needs after a change.
LEMMA WalkNext ==
    ASSUME NEW r, r \in WalkRecord, PassedOK(r), AskedOK(r), r.batch > 0 => r.pages > 0,
           r.pc # "done" => r.held \subseteq Walking!Present' /\ r.count < PageSize /\ r.empty <= MaxEmpty,
           r.pc = "shown" => r.mode # "snapshot", walk' = r, ReservedOK'
    PROVE  WalkInv'
<1>1. walk' \in WalkRecord /\ PassedOK(walk') /\ AskedOK(walk')
  OBVIOUS
<1> QED
  BY <1>1 DEF WalkInv, WalkOK, ShapeOK, PassedOK, AskedOK, Work, WalkRecord, Before, Walk, Walking!Hosts, Walking!Cursors

\* A change leaves out of a running read what Kea no longer holds.
LEMMA ReservedChanges ==
    ASSUME Walking!ReadsAssumption, WalkInv, NEW h \in Walk, Walking!ReservationChanges(h)
    PROVE  WalkInv'
<1>1. PICK record \in Walking!Records : reserved' = [reserved EXCEPT ![h] = record]
  BY DEF Walking!ReservationChanges
<1>2. ReservedOK'
  BY <1>1 DEF WalkInv, ReservedOK, Walk, Walking!Hosts, Walking!Records
<1>3. CASE WalkEnded(walk)
  <2>1. walk' = walk
    BY <1>3 DEF Walking!ReservationChanges, WalkEnded
  <2> QED
    BY <1>2, <1>3, <2>1 DEF WalkInv, WalkEnded
<1>4. CASE WalkOK(walk) /\ walk.pc = "done"
  <2>1. walk' = walk
    BY <1>4 DEF Walking!ReservationChanges
  <2>2. walk \in WalkRecord /\ PassedOK(walk) /\ AskedOK(walk) /\ (walk.batch > 0 => walk.pages > 0)
    BY <1>4 DEF WalkOK, ShapeOK
  <2> QED
    BY <1>2, <1>4, <2>1, <2>2, WalkNext
<1>5. CASE WalkOK(walk) /\ walk.pc # "done"
  <2> DEFINE r == [walk EXCEPT !.held = @ \intersect Walking!Present']
  <2>1. walk \in WalkRecord
    BY <1>5 DEF WalkOK, ShapeOK
  <2>2. walk' = r
    BY <1>5, <2>1, WalkFields DEF Walking!ReservationChanges
  <2>3. walk.held \intersect Walking!Present' \in SUBSET Walk
    BY <2>1, WalkFields
  <2>4. /\ r \in WalkRecord
        /\ r.held = walk.held \intersect Walking!Present'
        /\ r.pc = walk.pc /\ r.batch = walk.batch /\ r.pages = walk.pages /\ r.count = walk.count /\ r.asked = walk.asked
        /\ r.empty = walk.empty /\ r.mode = walk.mode /\ r.told = walk.told /\ r.next = walk.next /\ r.cursor = walk.cursor
        /\ r.records = walk.records
    BY <2>1, <2>3 DEF WalkRecord
  <2> HIDE DEF r
  <2>5. PassedOK(r)
    BY <1>5, <2>4 DEF WalkOK, PassedOK
  <2>6. AskedOK(r)
    BY <1>5, <2>4 DEF WalkOK, AskedOK
  <2>7. /\ r.batch > 0 => r.pages > 0
        /\ r.count < PageSize /\ r.empty <= MaxEmpty
        /\ r.pc = "shown" => r.mode # "snapshot"
    BY <1>5, <2>4 DEF WalkOK, ShapeOK
  <2>8. r.held \subseteq Walking!Present'
    BY <2>4
  <2> QED
    BY <1>2, <2>2, <2>4, <2>5, <2>6, <2>7, <2>8, WalkNext
<1> QED
  BY <1>3, <1>4, <1>5 DEF WalkInv

LEMMA WalkAlways == ASSUME Walking!ReadsAssumption PROVE Walking!Spec => []WalkInv
<1>1. Walking!Init => WalkInv
  BY WalkInit
<1>2. WalkInv /\ [Walking!Next]_Walking!vars => WalkInv'
  <2> SUFFICES ASSUME WalkInv, [Walking!Next]_Walking!vars PROVE WalkInv'
    OBVIOUS
  <2>1. CASE UNCHANGED Walking!vars
    <3>1. reserved' = reserved /\ (WalkEnded(walk') \/ WalkOK(walk')) /\ ReservedOK
      <4>1. reserved' = reserved /\ walk' = walk
        BY <2>1 DEF Walking!vars
      <4> QED
        BY <4>1 DEF WalkInv
    <3> QED
      BY <3>1, WalkKept
  <2>2. CASE Walking!Next
    BY <2>2, WalkStarts, WalkCommands, WalkCommandFails, WalkGoesOn, WalkOver, ReservedChanges DEF Walking!Next, Walk
  <2> QED
    BY <2>1, <2>2
<1> QED
  BY <1>1, <1>2, PTL DEF Walking!Spec

----------------------------------------------------------------------------
(* Theorems.                                                               *)

(* A traversal that ends without a diagnostic holds every Reservation that  *)
(* Kea held all the time, for any number of sources, places, changes and    *)
(* failures, when Kea's cursors are its own (kea.py: reservation_page,       *)
(* reservation_snapshot).                                                    *)
THEOREM TraversalsComplete ==
    ASSUME Walking!ReadsAssumption, ~AnyCursor
    PROVE  Walking!Spec => []Walking!CompleteHoldsAll
<1>1. WalkInv => Walking!CompleteHoldsAll
  BY DEF WalkInv, WalkEnded, WalkOK, PassedOK, Walking!CompleteHoldsAll
<1> QED
  BY <1>1, WalkAlways, PTL

(* A Snapshot ends within its number of commands, whatever cursors and pages *)
(* Kea answers with (kea.py: _MAX_EMPTY_RESERVATION_PAGES,                   *)
(* _MAX_RESERVATION_SNAPSHOT_PAGES).                                         *)
THEOREM CommandsEnd ==
    ASSUME Walking!ReadsAssumption
    PROVE  Walking!Spec => []Walking!CommandsBounded
<1>1. WalkInv => Walking!CommandsBounded
  <2> SUFFICES ASSUME WalkInv, walk.pc \in {"page", "done"}, walk.mode = "snapshot"
               PROVE  walk.asked <= MaxPages * PageSize * (MaxEmpty + 1)
    BY DEF Walking!CommandsBounded
  <2> DEFINE l == MaxPages * PageSize
  <2>1. WalkOK(walk)
    BY DEF WalkInv, WalkEnded
  <2>2. walk.asked <= Work(l)
    <3>1. CASE walk.pc = "done"
      BY <2>1, <3>1 DEF WalkOK, AskedOK
    <3>2. CASE walk.pc = "page"
      <4>1. walk.asked \in Nat /\ Work(l) \in Nat /\ walk.asked + 1 <= Work(l)
        BY <2>1, <3>2, OneMore
      <4> QED
        BY <4>1
    <3> QED
      BY <3>1, <3>2
  <2> QED
    BY <2>2 DEF Work
<1> QED
  BY <1>1, WalkAlways, PTL

----------------------------------------------------------------------------
(* ReservationEdits: the names.                                            *)

Words == Seq(Labels)
Hostname == [labels : Words, dot : BOOLEAN]

LEMMA LowerOK ==
    ASSUME NEW w \in Words
    PROVE  /\ Lower(w) \in Words /\ Len(Lower(w)) = Len(w)
           /\ Lower(Lower(w)) = Lower(w)
<1>1. Lowered \in [Labels -> Labels] /\ \A l \in Labels : Lowered[Lowered[l]] = Lowered[l]
  BY LoweredAssumption
<1>2. DOMAIN w = 1..Len(w) /\ Len(w) \in Nat /\ \A i \in 1..Len(w) : w[i] \in Labels
  BY DEF Words
<1> DEFINE v == [i \in 1..Len(w) |-> Lowered[w[i]]]
<1>3. Lower(w) = v
  BY <1>2 DEF Lower
<1>4. v \in Words /\ Len(v) = Len(w) /\ DOMAIN v = 1..Len(w)
  BY <1>1, <1>2 DEF Words
<1>5. Lower(v) = v
  BY <1>1, <1>2, <1>4 DEF Lower
<1> QED
  BY <1>3, <1>4, <1>5

LEMMA StoredOK ==
    ASSUME NEW w \in Words, NEW d \in BOOLEAN
    PROVE  /\ Stored(w, d) \in Hostname
           /\ Stored(w, d).labels = w /\ Stored(w, d).dot = d
BY DEF Stored, Hostname

LEMMA NamesOK ==
    /\ NoName \in Words /\ NoHostname \in Hostname /\ Hostnames \union Entered \subseteq Hostname
           /\ Suffixes \subseteq Words
<1>1. NoName \in Words
  BY DEF NoName, Words
<1>2. NoHostname \in Hostname
  BY <1>1, StoredOK DEF NoHostname
<1> QED
  BY <1>1, <1>2, EditsAssumption DEF Words, Hostname

\* A published name is in lower case.
LEMMA PublishedOK ==
    ASSUME NEW h \in Hostname, NEW s \in Words
    PROVE  /\ Published(h, s) \in Words
           /\ Lower(Published(h, s)) = Published(h, s)
<1>1. h.labels \in Words /\ h.labels \o s \in Words
  BY DEF Hostname, Words
<1> QED
  BY <1>1, LowerOK DEF Published

\* The name that Kea publishes for an entered one.
AsEntered(published, name, suffix) ==
    /\ Len(name) # 1 \/ suffix = NoName => published = Lower(name)
    /\ Len(name) = 1 => published \in {Lower(name), Lower(name \o suffix)}

LEMMA StoredHostnameOK ==
    ASSUME NEW name \in Words, NEW s \in Words
    PROVE  /\ StoredHostname(name, s) \in Hostname
           /\ AsEntered(Published(StoredHostname(name, s), s), name, s)
<1> DEFINE labels == Head_(name, s)
           ends == Len(name) > Len(s) /\ SuffixPresent(Lower(name), Lower(s))
           h == StoredHostname(name, s)
<1>1. h = IF name = NoName \/ s = NoName THEN Stored(name, FALSE)
          ELSE IF ends /\ Published(Stored(labels, FALSE), s) = Lower(name) THEN Stored(labels, FALSE)
          ELSE Stored(name, Len(name) > 1)
  BY DEF StoredHostname
<1> HIDE DEF h
<1>2. CASE name = NoName \/ s = NoName
  <2>1. h \in Hostname /\ h.labels = name /\ h = Stored(name, FALSE)
    BY <1>1, <1>2, StoredOK
  <2>2. Published(h, s) = Lower(name)
    BY <1>2, <2>1 DEF Published
  <2> QED
    BY <2>1, <2>2 DEF AsEntered, h
<1>3. CASE name # NoName /\ s # NoName /\ ends /\ Published(Stored(labels, FALSE), s) = Lower(name)
  <2>1. h = Stored(labels, FALSE) /\ Published(h, s) = Lower(name)
    BY <1>1, <1>3
  <2>2. labels \in Words
    <3>1. Len(name) - Len(s) \in 1..Len(name)
      BY <1>3 DEF Words
    <3> QED
      BY <3>1 DEF Words, Head_
  <2>3. h \in Hostname
    BY <2>1, <2>2, StoredOK
  <2> QED
    BY <2>1, <2>3 DEF AsEntered, h
<1>4. CASE name # NoName /\ s # NoName
           /\ ~(ends /\ Published(Stored(labels, FALSE), s) = Lower(name))
  <2>1. h = Stored(name, Len(name) > 1)
    BY <1>1, <1>4
  <2>3. CASE Len(name) > 1
    <3>1. h = Stored(name, TRUE)
      BY <2>1, <2>3
    <3>2. h \in Hostname /\ h.labels = name /\ h.dot
      BY <3>1, StoredOK
    <3>3. Published(h, s) = Lower(name)
      BY <3>2 DEF Published
    <3>4. Len(name) # 1
      <4>1. Len(name) \in Nat
        BY DEF Words
      <4>2. \A n \in Nat : n > 1 => n # 1
        OBVIOUS
      <4> QED
        BY <2>3, <4>1, <4>2
    <3> QED
      BY <1>4, <3>2, <3>3, <3>4 DEF AsEntered, h
  <2>4. CASE ~(Len(name) > 1)
    <3>1. Len(name) = 1
      BY <1>4, <2>4 DEF Words, NoName
    <3>2. h = Stored(name, FALSE)
      <4>1. (Len(name) > 1) = FALSE
        BY <2>4
      <4> QED
        BY <2>1, <4>1, Zenon
    <3>3. h \in Hostname /\ h.labels = name /\ ~h.dot
      BY <3>2, StoredOK
    <3>4. Published(h, s) \in {Lower(name), Lower(name \o s)}
      BY <3>3 DEF Published
    <3> QED
      BY <1>4, <3>1, <3>3, <3>4 DEF AsEntered, h
  <2> QED
    BY <2>3, <2>4
<1> QED
  BY <1>2, <1>3, <1>4

----------------------------------------------------------------------------
(* What an edit stores.                                                    *)

Dns == [subnet : Suffixes, pool : Suffixes \union {None}, known : BOOLEAN]

LEMMA SuffixOK ==
    ASSUME NEW d \in Dns, NEW address
    PROVE  SuffixAt(d, address) \in Suffixes \union {Unknown}
BY DEF Dns, SuffixAt

\* What the form shows.
ShowsOK(print, name, suffix) ==
    /\ print.name \in Hostname /\ name \in Hostname
    /\ suffix \in Suffixes \union {Unknown}
    /\ IF suffix = Unknown THEN name = print.name
       ELSE print.name # NoHostname /\ name = Stored(Published(print.name, suffix), FALSE)

\* The name that an edit stores keeps a name that was left as it was, and is
\* the entered one otherwise.
NameKept(me, name) ==
    me.entry.name = me.form /\ me.entry.address = me.print.address /\ me.formSuffix # Unknown /\ ~ShownBare(me) =>
        name = me.print.name
NameShown(me, name) ==
    me.suffix # Unknown =>
        /\ me.entry.name # me.form => AsEntered(Published(name, me.suffix), me.entry.name.labels, me.suffix)
        /\ /\ me.formSuffix # Unknown /\ me.entry.name = me.form /\ ~ShownBare(me)
           /\ Len(me.form.labels) # 1 \/ me.entry.address = me.print.address
           => Published(name, me.suffix) = me.form.labels

LEMMA HostnameChangeOK ==
    ASSUME NEW d \in Dns, NEW current, current.name \in Hostname,
           NEW me, me.entry.name \in Hostname, me.suffix = SuffixAt(d, me.entry.address),
           ShowsOK(me.print, me.form, me.formSuffix),
           NEW name, name = HostnameChange(d, current, me.entry.name, me.entry.address, me.formSuffix), name # Unknown
    PROVE  /\ name \in Hostname
           /\ current.name = me.print.name /\ current.address = me.print.address => NameKept(me, name) /\ NameShown(me, name)
<1> DEFINE asStored == current.name # NoHostname /\ me.formSuffix = Unknown /\ ShownSuffix(d, current) = Unknown
           stored == StoredHostname(me.entry.name.labels, me.suffix)
           same == Published(stored, me.suffix) = Published(current.name, me.suffix)
           Alone == current.name = NoHostname /\ me.entry.name = NoHostname
           Raw == asStored /\ me.entry.name = current.name
<1>1. \/ Alone /\ name = current.name
      \/ ~Alone /\ Raw /\ name = current.name
      \/ /\ ~Alone /\ ~Raw /\ ~SuffixMoved(d, current, me.formSuffix) /\ me.suffix # Unknown
         /\ name = IF same THEN current.name ELSE stored
  BY DEF HostnameChange, SuffixOfEntry
<1>2. me.suffix \in Suffixes \union {Unknown} /\ Suffixes \subseteq Words /\ me.entry.name.labels \in Words
  BY SuffixOK, NamesOK DEF Hostname
<1>3. CASE Alone /\ name = current.name
  <2> SUFFICES ASSUME current.name = me.print.name, current.address = me.print.address
               PROVE  NameKept(me, name) /\ NameShown(me, name)
    BY <1>3
  <2>1. me.formSuffix = Unknown /\ me.form = me.print.name
    BY <1>3 DEF ShowsOK
  <2> QED
    BY <1>3, <2>1 DEF NameKept, NameShown
<1>4. CASE ~Alone /\ Raw /\ name = current.name
  <2> SUFFICES ASSUME current.name = me.print.name, current.address = me.print.address
               PROVE  NameKept(me, name) /\ NameShown(me, name)
    BY <1>4
  <2>1. me.formSuffix = Unknown /\ me.form = me.print.name /\ me.entry.name = me.form
    BY <1>4 DEF ShowsOK
  <2> QED
    BY <2>1 DEF NameKept, NameShown
<1>5. CASE /\ ~Alone /\ ~Raw /\ ~SuffixMoved(d, current, me.formSuffix) /\ me.suffix # Unknown
           /\ name = IF same THEN current.name ELSE stored
  <2>1. me.suffix \in Words
    BY <1>2, <1>5
  <2>2. stored \in Hostname /\ AsEntered(Published(stored, me.suffix), me.entry.name.labels, me.suffix)
    BY <1>2, <2>1, StoredHostnameOK
  <2> HIDE DEF stored
  <2>3. name \in Hostname /\ Published(name, me.suffix) = Published(stored, me.suffix)
    BY <1>5, <2>2
  <2> SUFFICES ASSUME current.name = me.print.name, current.address = me.print.address
               PROVE  NameKept(me, name) /\ NameShown(me, name)
    BY <2>3
  <2>4. ASSUME me.formSuffix # Unknown, me.entry.name = me.form, ~ShownBare(me),
               Len(me.form.labels) # 1 \/ me.entry.address = me.print.address
        PROVE  Published(stored, me.suffix) = me.form.labels
    <3>1. /\ me.print.name # NoHostname /\ me.print.name \in Hostname /\ me.formSuffix \in Words
          /\ me.form = Stored(Published(me.print.name, me.formSuffix), FALSE)
      BY <1>2, <2>4 DEF ShowsOK
    <3>2. Published(me.print.name, me.formSuffix) \in Words
      BY <3>1, PublishedOK
    <3>3. me.form.labels = Published(me.print.name, me.formSuffix)
      BY <3>1, <3>2, StoredOK
    <3>4. Lower(me.form.labels) = me.form.labels
      BY <3>1, <3>3, PublishedOK
    <3>5. me.entry.address = me.print.address => me.suffix = me.formSuffix
      <4>1. me.formSuffix = ShownSuffix(d, current)
        BY <1>5, <2>4, <3>1 DEF SuffixMoved
      <4>2. ShownSuffix(d, current) = SuffixAt(d, current.address)
        BY <3>1 DEF ShownSuffix
      <4> QED
        BY <4>1, <4>2
    <3>6. Len(me.form.labels) # 1 \/ me.suffix = NoName
      BY <2>4, <3>5 DEF ShownBare
    <3> QED
      BY <2>2, <2>4, <3>4, <3>6 DEF AsEntered
  <2>5. NameShown(me, name)
    BY <2>2, <2>3, <2>4 DEF NameShown
  <2>6. NameKept(me, name)
    <3> SUFFICES ASSUME me.entry.name = me.form, me.entry.address = me.print.address, me.formSuffix # Unknown, ~ShownBare(me)
                 PROVE  name = me.print.name
      BY DEF NameKept
    <3>1. /\ me.print.name # NoHostname /\ me.print.name \in Hostname /\ me.formSuffix \in Words
          /\ me.form = Stored(Published(me.print.name, me.formSuffix), FALSE)
      BY <1>2 DEF ShowsOK
    <3>2. me.form.labels = Published(me.print.name, me.formSuffix)
      BY <3>1, StoredOK, PublishedOK
    <3>3. me.formSuffix = ShownSuffix(d, current)
      BY <1>5, <3>1 DEF SuffixMoved
    <3>4. ShownSuffix(d, current) = SuffixAt(d, current.address)
      BY <3>1 DEF ShownSuffix
    <3>5. Published(stored, me.suffix) = Published(current.name, me.suffix)
      BY <2>4, <3>2, <3>3, <3>4
    <3> QED
      BY <1>5, <3>5
  <2> QED
    BY <2>5, <2>6
<1> HIDE DEF asStored, stored, same, Alone, Raw
<1> QED
  BY <1>1, <1>3, <1>4, <1>5

----------------------------------------------------------------------------
(* The invariant of the edits.                                             *)

Printed(r) == r = [address |-> r.address, name |-> r.name, option |-> r.option] /\ r.name \in Hostname
Recorded(r) == r = [address |-> r.address, name |-> r.name, option |-> r.option, kept |-> r.kept] /\ r.name \in Hostname

HostOK == host = [id \in Ids |-> host[id]] /\ \A id \in Ids : host[id] = None \/ Recorded(host[id])
DnsOK == dns \in Dns /\ shown \in Dns

FormOK(m) == m.pc = "form" => m.id \in Ids /\ Printed(m.print) /\ ShowsOK(m.print, m.name, m.suffix)
TargetOK(m) ==
    m.pc = "raw" =>
        /\ m.id \in Ids /\ Printed(m.print) /\ Printed(m.current) /\ Printed(m.change)
        /\ m.change.address = m.entry.address /\ m.change.option = m.entry.option
        /\ m.current = m.print => NameKept(m, m.change.name) /\ NameShown(m, m.change.name)
SendOK(m) ==
    m.pc = "send" =>
        /\ m.id \in Ids
        /\ "intended" \in DOMAIN m =>
              /\ Recorded(m.raw) /\ Recorded(m.intended) /\ m.print = Managed(m.raw) /\ m.intended.kept = m.raw.kept
              /\ m.steady => /\ m.intended.address = m.entry.address /\ m.intended.option = m.entry.option
                             /\ NameKept(m, m.intended.name) /\ NameShown(m, m.intended.name)
NewOK(m) ==
    m.pc = "add" =>
        /\ m.id \in Ids /\ Recorded(m.intended) /\ m.form = NoHostname
        /\ m.suffix # Unknown /\ m.entry.name # m.form =>
              AsEntered(Published(m.intended.name, m.suffix), m.entry.name.labels, m.suffix)
RequestOK(m) == FormOK(m) /\ TargetOK(m) /\ SendOK(m) /\ NewOK(m)

\* The entries that were sent are the first ones, all but the last were created, and only the last can have failed.
ImportOK ==
    /\ import.pc = "resolve" => Valid(import.document)
    /\ import.pc \in {"create", "done"} =>
          /\ Valid(import.document) /\ Resolves(import.document)
          /\ \E k \in Nat : /\ import.sent = 1..k
                            /\ 1..(k - 1) \subseteq import.created /\ import.failed \subseteq {k}
                            /\ import.pc = "create" => 1..k \subseteq import.created /\ import.failed = {}
    /\ import.pc = "create" =>
          import = [pc |-> "create", document |-> import.document, sent |-> import.sent, created |-> import.created,
                    failed |-> import.failed]

EditInv == HostOK /\ DnsOK /\ page = [p \in Pages |-> page[p]] /\ (\A p \in Pages : RequestOK(page[p])) /\ ImportOK

LEMMA NoRequestOK == RequestOK(Idle)
BY DEF RequestOK, FormOK, TargetOK, SendOK, NewOK, Idle

LEMMA EditInit == ASSUME Init PROVE EditInv
<1>1. HostOK
  BY NamesOK DEF Init, HostOK, Recorded, Reservation
<1>2. DnsOK
  BY DEF Init, DnsOK, Dns
<1>3. page = [p \in Pages |-> Idle] /\ import.pc = "idle"
  BY DEF Init, NoImport
<1> QED
  BY <1>1, <1>2, <1>3, NoRequestOK DEF EditInv, ImportOK

\* A step of one request.
LEMMA RequestStep ==
    ASSUME EditInv, NEW p \in Pages, NEW m, page' = [page EXCEPT ![p] = m], RequestOK(m),
           HostOK', DnsOK', import' = import
    PROVE  EditInv'
<1>1. page' = [q \in Pages |-> page'[q]] /\ \A q \in Pages : RequestOK(page'[q])
  BY DEF EditInv
<1>2. ImportOK'
  BY DEF EditInv, ImportOK
<1> QED
  BY <1>1, <1>2 DEF EditInv

\* A step of Kea, of the catalogue or of the import.
LEMMA OtherStep ==
    ASSUME EditInv, page' = page, HostOK', DnsOK', ImportOK'
    PROVE  EditInv'
BY DEF EditInv

LEMMA OpensOK ==
    ASSUME EditInv, NEW p \in Pages, NEW id \in Ids, Open(p, id)
    PROVE  EditInv'
<1> DEFINE r == host[id]
           suffix == ShownSuffix(shown, r)
           m == [pc |-> "form", id |-> id, print |-> Managed(r), suffix |-> suffix, name |-> ShownName(r, suffix)]
<1>1. /\ page' = [page EXCEPT ![p] = m] /\ UNCHANGED <<host, dns, shown, import>> /\ r # None
  BY DEF Open, Go
<1>2. Recorded(r) /\ shown \in Dns
  BY <1>1 DEF EditInv, HostOK, DnsOK
<1>3. suffix \in Suffixes \union {Unknown} /\ (suffix # Unknown => r.name # NoHostname)
  BY <1>2, SuffixOK DEF ShownSuffix
<1> HIDE DEF r, suffix
<1>4. ShowsOK(Managed(r), ShownName(r, suffix), suffix)
  <2>1. Managed(r).name = r.name /\ r.name \in Hostname
    BY <1>2 DEF Recorded, Managed
  <2>2. CASE suffix = Unknown
    BY <1>3, <2>1, <2>2 DEF ShowsOK, ShownName
  <2>3. CASE suffix # Unknown
    <3>1. suffix \in Words
      BY <1>3, <2>3, NamesOK
    <3>2. Published(r.name, suffix) \in Words
      BY <2>1, <3>1, PublishedOK
    <3>3. ShownName(r, suffix) = Stored(Published(r.name, suffix), FALSE)
      BY <2>3 DEF ShownName
    <3>4. Stored(Published(r.name, suffix), FALSE) \in Hostname
      BY <3>2, StoredOK
    <3> QED
      BY <1>3, <2>1, <2>3, <3>3, <3>4 DEF ShowsOK
  <2> QED
    BY <2>2, <2>3
<1>5. Printed(Managed(r))
  BY <1>2 DEF Recorded, Printed, Managed
<1>6. RequestOK(m)
  BY <1>4, <1>5 DEF RequestOK, FormOK, TargetOK, SendOK, NewOK
<1> HIDE DEF m
<1>7. HostOK' /\ DnsOK'
  BY <1>1 DEF EditInv, HostOK, DnsOK
<1> QED
  BY <1>1, <1>6, <1>7, RequestStep

LEMMA ScopedOK ==
    ASSUME EditInv, NEW p \in Pages, Scope(p)
    PROVE  EditInv'
<1> DEFINE me == page[p]
           current == host[me.id]
<1>1. me.pc = "form" /\ shown' = dns /\ UNCHANGED <<host, dns, import>>
  BY DEF Scope
<1>2. FormOK(me) /\ HostOK /\ DnsOK
  BY DEF EditInv, RequestOK
<1>3. HostOK' /\ DnsOK'
  BY <1>1, <1>2 DEF HostOK, DnsOK
<1>4. PICK entry \in Entries(me) :
        LET name == HostnameChange(dns, current, entry.name, entry.address, me.suffix)
        IN  page' = [page EXCEPT ![p] =
                IF current = None THEN Idle
                ELSE IF name = Unknown THEN Idle
                ELSE [pc |-> "raw", id |-> me.id, print |-> me.print, form |-> me.name, formSuffix |-> me.suffix,
                      entry |-> entry, suffix |-> SuffixAt(dns, entry.address), current |-> Managed(current),
                      change |-> [address |-> entry.address, name |-> name, option |-> entry.option]]]
  BY DEF Scope, Go
<1> DEFINE name == HostnameChange(dns, current, entry.name, entry.address, me.suffix)
           m == [pc |-> "raw", id |-> me.id, print |-> me.print, form |-> me.name, formSuffix |-> me.suffix,
                 entry |-> entry, suffix |-> SuffixAt(dns, entry.address), current |-> Managed(current),
                 change |-> [address |-> entry.address, name |-> name, option |-> entry.option]]
<1>5. CASE current = None \/ name = Unknown
  <2>1. page' = [page EXCEPT ![p] = Idle]
    BY <1>4, <1>5
  <2> QED
    BY <1>1, <1>3, <2>1, NoRequestOK, RequestStep
<1>6. CASE ~(current = None \/ name = Unknown)
  <2>1. page' = [page EXCEPT ![p] = m]
    BY <1>4, <1>6
  <2>2. me.id \in Ids /\ Printed(me.print) /\ ShowsOK(me.print, me.name, me.suffix) /\ Recorded(current)
    BY <1>1, <1>2, <1>6 DEF FormOK, HostOK
  <2>3. entry.name \in Hostname
    BY <2>2, NamesOK DEF Entries, ShowsOK
  <2> HIDE DEF me, current
  <2>4. m.entry = entry /\ m.suffix = SuffixAt(dns, m.entry.address) /\ m.print = me.print /\ m.form = me.name
        /\ m.formSuffix = me.suffix /\ m.pc = "raw" /\ m.id = me.id /\ m.current = Managed(current)
        /\ m.change = [address |-> entry.address, name |-> name, option |-> entry.option]
    OBVIOUS
  <2> HIDE DEF m
  <2>5. name = HostnameChange(dns, current, m.entry.name, m.entry.address, m.formSuffix) /\ name # Unknown
    BY <1>6, <2>4
  <2> HIDE DEF name
  <2>6. /\ name \in Hostname
        /\ current.name = m.print.name /\ current.address = m.print.address => NameKept(m, name) /\ NameShown(m, name)
    <3>1. dns \in Dns /\ current.name \in Hostname /\ m.entry.name \in Hostname /\ ShowsOK(m.print, m.form, m.formSuffix)
      BY <1>2, <2>2, <2>3, <2>4 DEF DnsOK, Recorded
    <3> QED
      BY <2>4, <2>5, <3>1, HostnameChangeOK
  <2>7. m.current.name = current.name /\ m.current.address = current.address /\ Printed(m.current)
    BY <2>2, <2>4 DEF Managed, Printed, Recorded
  <2>8. m.change.name = name /\ m.change.address = m.entry.address /\ m.change.option = m.entry.option /\ Printed(m.change)
    BY <2>4, <2>6 DEF Printed
  <2>9. m.current = m.print => NameKept(m, m.change.name) /\ NameShown(m, m.change.name)
    BY <2>6, <2>7, <2>8
  <2>10. RequestOK(m)
    BY <2>2, <2>4, <2>7, <2>8, <2>9 DEF RequestOK, FormOK, TargetOK, SendOK, NewOK
  <2> QED
    BY <1>1, <1>3, <2>1, <2>10, RequestStep
<1> QED
  BY <1>5, <1>6

----------------------------------------------------------------------------
(* The steps of the edits.                                                 *)

LEMMA ReadRawOK == ASSUME EditInv, NEW p \in Pages, ReadRaw(p) PROVE EditInv'
<1> DEFINE me == page[p]
           raw == host[me.id]
           fields == [f \in DOMAIN me.change |-> Change(me, raw, f)]
           m == [pc |-> "send", id |-> me.id, print |-> me.print, form |-> me.form, formSuffix |-> me.formSuffix,
                 entry |-> me.entry, suffix |-> me.suffix, steady |-> me.current = Managed(raw), raw |-> raw,
                 intended |-> Merged(raw, fields)]
<1>1. /\ me.pc = "raw" /\ UNCHANGED <<host, dns, shown, import>>
      /\ page' = [page EXCEPT ![p] = IF raw = None THEN Idle ELSE IF ~SamePrint(me, raw) THEN Idle ELSE m]
  BY DEF ReadRaw, Go
<1>2. TargetOK(me) /\ HostOK /\ DnsOK
  BY DEF EditInv, RequestOK
<1>3. HostOK' /\ DnsOK'
  BY <1>1, <1>2 DEF HostOK, DnsOK
<1>4. CASE raw = None \/ ~SamePrint(me, raw)
  <2>1. page' = [page EXCEPT ![p] = Idle]
    BY <1>1, <1>4
  <2> QED
    BY <1>1, <1>3, <2>1, NoRequestOK, RequestStep
<1>5. CASE raw # None /\ SamePrint(me, raw)
  <2>1. page' = [page EXCEPT ![p] = m]
    BY <1>1, <1>5
  <2>2. /\ me.id \in Ids /\ Recorded(raw) /\ Printed(me.print) /\ Printed(me.current) /\ Printed(me.change)
        /\ me.change.address = me.entry.address /\ me.change.option = me.entry.option
        /\ me.current = me.print => NameKept(me, me.change.name) /\ NameShown(me, me.change.name)
    BY <1>1, <1>2, <1>5 DEF TargetOK, HostOK
  <2>3. me.print = Managed(raw)
    BY <1>5 DEF SamePrint
  <2> HIDE DEF me, raw
  <2>4. /\ fields.address = IF me.change.address = me.current.address THEN raw.address ELSE me.change.address
        /\ fields.name = IF me.change.name = me.current.name THEN raw.name ELSE me.change.name
        /\ fields.option = IF me.change.option = me.current.option THEN raw.option ELSE me.change.option
    <3>1. DOMAIN me.change = {"address", "name", "option"}
      BY <2>2 DEF Printed
    <3> QED
      BY <3>1 DEF Change
  <2> HIDE DEF fields
  <2>5. /\ m.pc = "send" /\ m.id = me.id /\ m.print = me.print /\ m.form = me.form /\ m.formSuffix = me.formSuffix
        /\ m.entry = me.entry /\ m.suffix = me.suffix /\ m.raw = raw /\ (m.steady => me.current = Managed(raw))
        /\ m.intended = [address |-> fields.address, name |-> fields.name, option |-> fields.option, kept |-> raw.kept]
    BY DEF Merged
  <2> HIDE DEF m
  <2>6. Recorded(m.intended)
    <3>1. raw.name \in Hostname /\ me.change.name \in Hostname
      BY <2>2 DEF Recorded, Printed
    <3> QED
      BY <2>4, <2>5, <3>1 DEF Recorded
  <2>7. ASSUME m.steady
        PROVE  /\ m.intended.address = m.entry.address /\ m.intended.option = m.entry.option
               /\ NameKept(m, m.intended.name) /\ NameShown(m, m.intended.name)
    <3>1. me.current = Managed(raw) /\ me.current = me.print
      BY <2>3, <2>5, <2>7
    <3>2. me.current.address = raw.address /\ me.current.name = raw.name /\ me.current.option = raw.option
      BY <3>1 DEF Managed
    <3>3. m.intended.address = me.change.address /\ m.intended.name = me.change.name /\ m.intended.option = me.change.option
      BY <2>4, <2>5, <3>2
    <3>4. NameKept(me, me.change.name) /\ NameShown(me, me.change.name)
      BY <2>2, <3>1
    <3>5. ShownBare(m) = ShownBare(me)
      BY <2>5 DEF ShownBare
    <3>6. NameKept(m, m.intended.name) /\ NameShown(m, m.intended.name)
      BY <2>5, <3>3, <3>4, <3>5 DEF NameKept, NameShown
    <3> QED
      BY <2>2, <2>5, <3>3, <3>6
  <2>8. RequestOK(m)
    BY <2>2, <2>3, <2>5, <2>6, <2>7 DEF RequestOK, FormOK, TargetOK, SendOK, NewOK
  <2> QED
    BY <1>1, <1>3, <2>1, <2>8, RequestStep
<1> QED
  BY <1>4, <1>5

LEMMA UpdatesOK == ASSUME EditInv, NEW p \in Pages, Update(p) PROVE EditInv'
<1>1. /\ page[p].pc = "send" /\ "intended" \in DOMAIN page[p] /\ UNCHANGED <<dns, shown, import>>
      /\ host' = [host EXCEPT ![page[p].id] = page[p].intended] /\ page' = [page EXCEPT ![p] = Idle]
  BY DEF Update, Go
<1>2. Recorded(page[p].intended) /\ HostOK /\ DnsOK
  BY <1>1 DEF EditInv, RequestOK, SendOK
<1>3. HostOK' /\ DnsOK'
  BY <1>1, <1>2 DEF HostOK, DnsOK
<1> QED
  BY <1>1, <1>3, NoRequestOK, RequestStep

LEMMA StartAddsOK ==
    ASSUME EditInv, NEW p \in Pages, NEW id \in Ids, StartAdd(p, id)
    PROVE  EditInv'
<1>1. PICK name \in {NoHostname} \union Entered, address \in Addresses \union {None} :
        LET suffix == SuffixAt(dns, address)
            stored == IF name = NoHostname THEN name ELSE StoredHostname(name.labels, suffix)
        IN  /\ name # NoHostname => suffix # Unknown
            /\ page' = [page EXCEPT ![p] =
                  [pc |-> "add", id |-> id, form |-> NoHostname, entry |-> [name |-> name], suffix |-> suffix,
                   steady |-> TRUE, intended |-> [address |-> address, name |-> stored, option |-> None, kept |-> 0]]]
  BY DEF StartAdd, Go
<1> DEFINE suffix == SuffixAt(dns, address)
           stored == IF name = NoHostname THEN name ELSE StoredHostname(name.labels, suffix)
           m == [pc |-> "add", id |-> id, form |-> NoHostname, entry |-> [name |-> name], suffix |-> suffix,
                 steady |-> TRUE, intended |-> [address |-> address, name |-> stored, option |-> None, kept |-> 0]]
<1>2. shown' = dns /\ UNCHANGED <<host, dns, import>>
  BY DEF StartAdd
<1>3. HostOK' /\ DnsOK'
  BY <1>2 DEF EditInv, HostOK, DnsOK
<1>4. suffix \in Suffixes \union {Unknown} /\ name \in Hostname /\ Suffixes \subseteq Words
  BY SuffixOK, NamesOK DEF EditInv, DnsOK
<1>5. page' = [page EXCEPT ![p] = m] /\ (name # NoHostname => suffix # Unknown)
  BY <1>1
<1> HIDE DEF suffix
<1>6. /\ stored \in Hostname
      /\ name # NoHostname => AsEntered(Published(stored, suffix), name.labels, suffix)
  <2>1. CASE name = NoHostname
    BY <1>4, <2>1
  <2>2. CASE name # NoHostname
    <3>1. name.labels \in Words /\ suffix \in Words
      BY <1>4, <1>5, <2>2 DEF Hostname
    <3> QED
      BY <2>2, <3>1, StoredHostnameOK
  <2> QED
    BY <2>1, <2>2
<1> HIDE DEF stored
<1>7. /\ m.pc = "add" /\ m.id = id /\ m.form = NoHostname /\ m.entry.name = name /\ m.suffix = suffix
      /\ m.intended = [address |-> address, name |-> stored, option |-> None, kept |-> 0]
  OBVIOUS
<1> HIDE DEF m
<1>8. RequestOK(m)
  BY <1>6, <1>7 DEF RequestOK, FormOK, TargetOK, SendOK, NewOK, Recorded
<1> QED
  BY <1>2, <1>3, <1>5, <1>8, RequestStep

LEMMA AddsOK == ASSUME EditInv, NEW p \in Pages, Add(p) PROVE EditInv'
<1>1. /\ page[p].pc = "add" /\ UNCHANGED <<dns, shown, import>>
      /\ host' \in {host, [host EXCEPT ![page[p].id] = page[p].intended]} /\ page' = [page EXCEPT ![p] = Idle]
  BY DEF Add, Go
<1>2. Recorded(page[p].intended) /\ HostOK /\ DnsOK
  BY <1>1 DEF EditInv, RequestOK, NewOK
<1>3. HostOK' /\ DnsOK'
  BY <1>1, <1>2 DEF HostOK, DnsOK
<1> QED
  BY <1>1, <1>3, NoRequestOK, RequestStep

LEMMA StopsOK == ASSUME EditInv, NEW p \in Pages, Stop(p) PROVE EditInv'
<1>1. UNCHANGED <<host, dns, shown, import>> /\ page' = [page EXCEPT ![p] = Idle]
  BY DEF Stop, Go
<1>2. HostOK' /\ DnsOK'
  BY <1>1 DEF EditInv, HostOK, DnsOK
<1> QED
  BY <1>1, <1>2, NoRequestOK, RequestStep

LEMMA FindTargetOK == ASSUME EditInv, NEW p \in Pages, NEW id \in Ids, FindTarget(p, id) PROVE EditInv'
<1> DEFINE m == [pc |-> "send", id |-> id]
<1>1. shown' = dns /\ UNCHANGED <<host, dns, import>> /\ page' = [page EXCEPT ![p] = m]
  BY DEF FindTarget, Go
<1>2. HostOK' /\ DnsOK'
  BY <1>1 DEF EditInv, HostOK, DnsOK
<1>3. m.pc = "send" /\ m.id = id /\ "intended" \notin DOMAIN m
  OBVIOUS
<1> HIDE DEF m
<1>4. RequestOK(m)
  BY <1>3 DEF RequestOK, FormOK, TargetOK, SendOK, NewOK
<1> QED
  BY <1>1, <1>2, <1>4, RequestStep

LEMMA DeletesOK == ASSUME EditInv, NEW p \in Pages, Delete(p) PROVE EditInv'
<1>1. /\ UNCHANGED <<dns, shown, import>> /\ page' = [page EXCEPT ![p] = Idle]
      /\ host' = [host EXCEPT ![page[p].id] = None]
  BY DEF Delete, Go
<1>2. HostOK' /\ DnsOK'
  BY <1>1 DEF EditInv, HostOK, DnsOK
<1> QED
  BY <1>1, <1>2, NoRequestOK, RequestStep

----------------------------------------------------------------------------
(* The import, Kea and the catalogue.                                      *)

LEMMA ParseOK == ASSUME EditInv, NEW document \in Documents, Parse(document) PROVE EditInv'
<1>1. /\ UNCHANGED <<host, dns, shown, page>>
      /\ import' = IF Valid(document) THEN [pc |-> "resolve", document |-> document] ELSE NoImport
  BY DEF Parse
<1>2. ImportOK'
  BY <1>1 DEF ImportOK, NoImport, Valid, Duplicated
<1>3. HostOK' /\ DnsOK'
  BY <1>1 DEF EditInv, HostOK, DnsOK
<1> QED
  BY <1>1, <1>2, <1>3, OtherStep

LEMMA ResolveOK == ASSUME EditInv, Resolve PROVE EditInv'
<1>1. /\ UNCHANGED <<host, dns, page>> /\ shown' = dns /\ import.pc = "resolve"
      /\ import' = IF Resolves(import.document)
                   THEN [pc |-> "create", document |-> import.document, sent |-> {}, created |-> {}, failed |-> {}]
                   ELSE NoImport
  BY DEF Resolve
<1>2. ImportOK'
  <2>1. CASE ~Resolves(import.document)
    BY <1>1, <2>1 DEF ImportOK, NoImport
  <2>2. CASE Resolves(import.document)
    <3>1. import' = [pc |-> "create", document |-> import.document, sent |-> {}, created |-> {}, failed |-> {}]
      BY <1>1, <2>2
    <3>2. Valid(import.document)
      BY <1>1 DEF EditInv, ImportOK
    <3>3. {} = 1..0 /\ 1..(0 - 1) = {} /\ 0 \in Nat
      OBVIOUS
    <3> QED
      BY <2>2, <3>1, <3>2, <3>3 DEF ImportOK, Valid, Resolves, Duplicated
  <2> QED
    BY <2>1, <2>2
<1>3. HostOK' /\ DnsOK'
  BY <1>1 DEF EditInv, HostOK, DnsOK
<1> QED
  BY <1>1, <1>2, <1>3, OtherStep

LEMMA SameE == \A S : Cardinality(S) = Cardinality(S)
BY DEF Cardinality, Cardinality

\* The next entry is the one after those that were sent.
LEMMA NextEntryOK ==
    ASSUME NEW k \in Nat, import.sent = 1..k
    PROVE  NextEntry = k + 1 /\ import.sent \union {NextEntry} = 1..(k + 1)
<1>1. Cardinality(1..k) = k
  BY FS_Interval
<1>2. NextEntry = k + 1
  BY <1>1, SameE DEF NextEntry
<1> QED
  BY <1>2

LEMMA CreateEntryOK == ASSUME EditInv, CreateEntry PROVE EditInv'
<1> DEFINE n == NextEntry
           entry == import.document[n]
<1>1. PICK result \in {"created", "lost", "refused", "unfollowed"} :
        /\ host' \in {host, [host EXCEPT ![entry.id] = New(entry)]}
        /\ import' = [import EXCEPT !.sent = @ \union {n},
                                    !.created = IF result \in {"created", "unfollowed"} THEN @ \union {n} ELSE @,
                                    !.failed = IF result = "created" THEN @ ELSE @ \union {n},
                                    !.pc = IF result = "created" THEN @ ELSE "done"]
  BY DEF CreateEntry, Continues
<1>2. import.pc = "create" /\ UNCHANGED <<dns, shown, page>>
  BY DEF CreateEntry
<1>3. /\ Valid(import.document) /\ Resolves(import.document)
      /\ import = [pc |-> "create", document |-> import.document, sent |-> import.sent, created |-> import.created,
                    failed |-> import.failed]
  BY <1>2 DEF EditInv, ImportOK
<1>4. PICK k \in Nat : import.sent = 1..k /\ 1..k \subseteq import.created /\ import.failed = {}
  BY <1>2 DEF EditInv, ImportOK
<1>5. n = k + 1 /\ import.sent \union {n} = 1..(k + 1)
  BY <1>4, NextEntryOK
<1> HIDE DEF n
<1>6. HostOK' /\ DnsOK'
  <2>1. Recorded(New(entry))
    BY NamesOK DEF Recorded, New
  <2> QED
    BY <1>1, <1>2, <2>1 DEF EditInv, HostOK, DnsOK
<1>7. ImportOK'
  <2>1. /\ import'.document = import.document /\ import'.sent = 1..(k + 1)
        /\ import'.pc = (IF result = "created" THEN "create" ELSE "done")
        /\ import'.created = IF result \in {"created", "unfollowed"} THEN import.created \union {n} ELSE import.created
        /\ import'.failed = IF result = "created" THEN {} ELSE {n}
        /\ import' = [pc |-> import'.pc, document |-> import'.document, sent |-> import'.sent, created |-> import'.created,
                      failed |-> import'.failed]
    BY <1>1, <1>2, <1>3, <1>4, <1>5
  <2>2. k + 1 \in Nat /\ 1..((k + 1) - 1) \subseteq import'.created /\ import'.failed \subseteq {k + 1}
    BY <1>4, <1>5, <2>1
  <2>3. import'.pc = "create" => 1..(k + 1) \subseteq import'.created /\ import'.failed = {}
    <3> SUFFICES ASSUME result = "created" PROVE 1..(k + 1) \subseteq import.created \union {n}
      BY <2>1
    <3> QED
      BY <1>4, <1>5
  <2>4. import'.pc # "resolve"
    BY <2>1
  <2>5. Valid(import.document)' /\ Resolves(import.document)'
    BY <1>3, <2>1 DEF Valid, Resolves, Duplicated
  <2> QED
    BY <2>1, <2>2, <2>3, <2>4, <2>5 DEF ImportOK
<1> QED
  BY <1>2, <1>6, <1>7, OtherStep

LEMMA EndImportOK == ASSUME EditInv, EndImport PROVE EditInv'
<1>1. import.pc = "create" /\ import' = [import EXCEPT !.pc = "done"] /\ UNCHANGED <<host, dns, shown, page>>
  BY DEF EndImport
<1>2. import = [pc |-> "create", document |-> import.document, sent |-> import.sent, created |-> import.created,
                    failed |-> import.failed]
  BY <1>1 DEF EditInv, ImportOK
<1>3. import'.pc = "done" /\ import'.document = import.document /\ import'.sent = import.sent
      /\ import'.created = import.created /\ import'.failed = import.failed
  BY <1>1, <1>2
<1>4. ImportOK'
  <2>1. /\ Valid(import.document) /\ Resolves(import.document)
        /\ \E k \in Nat : import.sent = 1..k /\ 1..(k - 1) \subseteq import.created /\ import.failed \subseteq {k}
    BY <1>1 DEF EditInv, ImportOK
  <2>2. Valid(import.document)' /\ Resolves(import.document)'
    BY <1>3, <2>1 DEF Valid, Resolves, Duplicated
  <2> QED
    BY <1>3, <2>1, <2>2 DEF ImportOK
<1>5. HostOK' /\ DnsOK'
  BY <1>1 DEF EditInv, HostOK, DnsOK
<1> QED
  BY <1>1, <1>4, <1>5, OtherStep

LEMMA SameImport == ASSUME ImportOK, import' = import PROVE ImportOK'
BY DEF ImportOK, Valid, Resolves, Duplicated

LEMMA KeaChangesOK == ASSUME EditInv, NEW id \in Ids, KeaChanges(id) PROVE EditInv'
<1>1. PICK r \in Reservation \union {None} : host' = [host EXCEPT ![id] = r]
  BY DEF KeaChanges
<1>2. r = None \/ Recorded(r)
  BY NamesOK DEF Reservation, Recorded
<1>3. UNCHANGED <<dns, shown, page, import>>
  BY DEF KeaChanges
<1>4. HostOK' /\ DnsOK'
  BY <1>1, <1>2, <1>3 DEF EditInv, HostOK, DnsOK
<1> QED
  BY <1>3, <1>4, SameImport, OtherStep DEF EditInv

LEMMA DnsChangesOK == ASSUME EditInv, DnsChanges \/ RefreshPages PROVE EditInv'
<1>1. UNCHANGED <<host, page, import>> /\ dns' \in Dns /\ shown' \in Dns
  BY DEF DnsChanges, RefreshPages, Catalogue, EditInv, DnsOK, Dns
<1>2. HostOK' /\ DnsOK'
  BY <1>1 DEF EditInv, HostOK, DnsOK
<1> QED
  BY <1>1, <1>2, SameImport, OtherStep DEF EditInv

LEMMA EditInvStep == EditInv /\ [Next]_vars => EditInv'
<1> SUFFICES ASSUME EditInv, [Next]_vars PROVE EditInv'
  OBVIOUS
<1>1. CASE UNCHANGED vars
  <2>1. UNCHANGED <<host, dns, shown, page, import>>
    BY <1>1 DEF vars
  <2>2. HostOK' /\ DnsOK' /\ ImportOK'
    BY <2>1, SameImport DEF EditInv, HostOK, DnsOK
  <2> QED
    BY <2>1, <2>2, OtherStep
<1>2. CASE \E p \in Pages, id \in Ids : Open(p, id) \/ FindTarget(p, id) \/ StartAdd(p, id)
  BY <1>2, OpensOK, FindTargetOK, StartAddsOK
<1>3. CASE \E p \in Pages : \/ Scope(p) \/ ReadRaw(p) \/ Update(p)
                           \/ Add(p) \/ Stop(p) \/ Delete(p)
  BY <1>3, ScopedOK, ReadRawOK, UpdatesOK, AddsOK, StopsOK, DeletesOK
<1>4. CASE (\E document \in Documents : Parse(document)) \/ Resolve \/ CreateEntry \/ EndImport
  BY <1>4, ParseOK, ResolveOK, CreateEntryOK, EndImportOK
<1>5. CASE (\E id \in Ids : KeaChanges(id)) \/ DnsChanges \/ RefreshPages
  BY <1>5, KeaChangesOK, DnsChangesOK
<1> QED
  BY <1>1, <1>2, <1>3, <1>4, <1>5 DEF Next

LEMMA EditInvAlways == Spec => []EditInv
<1>1. Init => EditInv
  BY EditInit
<1>2. EditInv /\ [Next]_vars => EditInv'
  BY EditInvStep
<1> QED
  BY <1>1, <1>2, PTL DEF Spec

----------------------------------------------------------------------------
(* Theorems.                                                               *)

(* An import sends nothing before the whole document is valid, and nothing *)
(* after the first failure, also of a follow-up action, for documents of   *)
(* any length (parse_reservation_document, _create_reservations).          *)
THEOREM ImportsStop == Spec => []ImportStops
<1>1. EditInv => ImportStops
  <2> SUFFICES ASSUME EditInv, import.pc \in {"create", "done"}
               PROVE  /\ \A i \in import.sent : \A j \in 1..(i - 1) : j \in import.created
                      /\ \A i \in import.failed, j \in import.sent : j <= i
    BY DEF ImportStops, EditInv, ImportOK
  <2>1. PICK k \in Nat : import.sent = 1..k /\ 1..(k - 1) \subseteq import.created /\ import.failed \subseteq {k}
    BY DEF EditInv, ImportOK
  <2> QED
    BY <2>1
<1> QED
  BY <1>1, EditInvAlways, PTL

\* The step with which a request stores its record.
LEMMA StoringOK ==
    ASSUME EditInv, [Next]_vars, NEW p \in Pages, Storing(p)
    PROVE  /\ page[p].pc \in {"send", "add"} /\ page[p].id \in Ids
           /\ host'[page[p].id] = page[p].intended
<1>1. "intended" \in DOMAIN page[p] /\ host' # host /\ page'[p] = Idle
  BY DEF Storing
<1>2. page[p] # Idle
  BY <1>1 DEF Idle
<1>3. page' # page
  BY <1>1, <1>2
<1>4. PICK q \in Pages : Update(q) \/ Add(q) \/ Delete(q)
  BY <1>1, <1>3 DEF Next, vars, Open, FindTarget, StartAdd, Scope, ReadRaw,
     Stop, Parse, Resolve, CreateEntry, EndImport, KeaChanges,
     DnsChanges, RefreshPages
<1>5. page' = [page EXCEPT ![q] = Idle]
  BY <1>4 DEF Update, Add, Delete, Go
<1>6. q = p
  BY <1>1, <1>2, <1>5 DEF EditInv
<1>7. ~Delete(p)
  BY <1>1 DEF Delete
<1>8. DOMAIN host = Ids /\ RequestOK(page[p])
  BY DEF EditInv, HostOK
<1>9. CASE Update(p)
  <2>1. page[p].pc = "send" /\ host' = [host EXCEPT ![page[p].id] = page[p].intended]
    BY <1>9 DEF Update
  <2>2. page[p].id \in Ids
    BY <1>8, <2>1 DEF RequestOK, SendOK
  <2> QED
    BY <1>8, <2>1, <2>2
<1>10. CASE Add(p)
  <2>1. page[p].pc = "add" /\ host' = [host EXCEPT ![page[p].id] = page[p].intended]
    BY <1>1, <1>10 DEF Add
  <2>2. page[p].id \in Ids
    BY <1>8, <2>1 DEF RequestOK, NewOK
  <2> QED
    BY <1>8, <2>1, <2>2
<1> QED
  BY <1>4, <1>6, <1>7, <1>9, <1>10

(* An edit keeps the fields that the plugin does not know, and changes what *)
(* the operator entered and nothing else when nobody else writes between    *)
(* its reads and its command, for any hostnames, suffixes and options       *)
(* (reservation_change, _change, _hostname_change).                         *)
THEOREM EditsKeepTheRest == Spec => EditKeepsTheRest
<1>1. ASSUME EditInv, [Next]_vars, NEW p \in Pages, Updating(p), host[page[p].id] = page[p].raw
      PROVE  /\ host'[page[p].id] = page[p].intended
             /\ page[p].intended.kept = page[p].raw.kept
             /\ page[p].steady =>
                  /\ page[p].intended.address = page[p].entry.address /\ page[p].intended.option = page[p].entry.option
                  /\ /\ page[p].entry.address = page[p].print.address /\ page[p].entry.option = page[p].print.option
                     /\ page[p].entry.name = page[p].form /\ page[p].formSuffix # Unknown /\ ~ShownBare(page[p])
                     => page[p].intended = host[page[p].id]
                  /\ /\ page[p].entry.address = page[p].print.address /\ page[p].entry.name = page[p].form
                     /\ page[p].formSuffix # Unknown /\ ~ShownBare(page[p])
                     => page[p].intended.name = page[p].raw.name
  <2>1. page[p].pc = "send" /\ Storing(p) /\ "intended" \in DOMAIN page[p]
    BY <1>1 DEF Updating, Storing
  <2>2. host'[page[p].id] = page[p].intended
    BY <1>1, <2>1, StoringOK
  <2>3. SendOK(page[p])
    BY <1>1 DEF EditInv, RequestOK
  <2>4. /\ Recorded(page[p].raw) /\ Recorded(page[p].intended) /\ page[p].print = Managed(page[p].raw)
        /\ page[p].intended.kept = page[p].raw.kept
        /\ page[p].steady => /\ page[p].intended.address = page[p].entry.address /\ page[p].intended.option = page[p].entry.option
                             /\ NameKept(page[p], page[p].intended.name)
    BY <2>1, <2>3 DEF SendOK
  <2>5. ASSUME page[p].steady, page[p].entry.address = page[p].print.address, page[p].entry.option = page[p].print.option,
               page[p].entry.name = page[p].form, page[p].formSuffix # Unknown, ~ShownBare(page[p])
        PROVE  page[p].intended = page[p].raw
    <3>1. page[p].intended.name = page[p].print.name
      BY <2>4, <2>5 DEF NameKept
    <3>2. /\ page[p].print.address = page[p].raw.address /\ page[p].print.name = page[p].raw.name
          /\ page[p].print.option = page[p].raw.option
      BY <2>4 DEF Managed
    <3> QED
      BY <2>4, <2>5, <3>1, <3>2 DEF Recorded
  <2>6. ASSUME page[p].steady, page[p].entry.address = page[p].print.address, page[p].entry.name = page[p].form,
               page[p].formSuffix # Unknown, ~ShownBare(page[p])
        PROVE  page[p].intended.name = page[p].raw.name
    BY <2>4, <2>6 DEF NameKept, Managed
  <2> QED
    BY <1>1, <2>2, <2>4, <2>5, <2>6
<1>2. EditInv /\ [Next]_vars =>
        [\A p \in Pages : Updating(p) /\ host[page[p].id] = page[p].raw =>
            host'[page[p].id].kept = host[page[p].id].kept]_vars
  BY <1>1
<1>3. EditInv /\ [Next]_vars =>
        [\A p \in Pages : Updating(p) /\ page[p].steady /\ host[page[p].id] = page[p].raw =>
            LET me == page[p]
                record == host'[me.id]
            IN  /\ record.address = me.entry.address /\ record.option = me.entry.option
                /\ me.entry.address = me.print.address /\ me.entry.option = me.print.option /\ me.entry.name = me.form
                   /\ me.formSuffix # Unknown /\ ~ShownBare(me) => record = host[me.id]]_vars
  BY <1>1
<1>4. EditInv /\ [Next]_vars =>
        [\A p \in Pages : Updating(p) /\ page[p].steady /\ page[p].formSuffix # Unknown
                          /\ host[page[p].id] = page[p].raw /\ ~ShownBare(page[p])
                          /\ page[p].entry.name = page[p].form /\ page[p].entry.address = page[p].print.address =>
            host'[page[p].id].name = host[page[p].id].name]_vars
  BY <1>1
<1> QED
  BY <1>2, <1>3, <1>4, EditInvAlways, PTL
     DEF Spec, EditKeepsTheRest, UnknownKept, OnlyWhatWasEntered, StoredNameStays

(* Kea publishes the name that the operator entered, with the suffix added  *)
(* to a single label, and a name that was left as it was shown stays,       *)
(* whatever the labels, the suffixes and the addresses are                  *)
(* (stored_hostname, _hostname_change).                                     *)
THEOREM PublishesNames == Spec => PublishesTheName
<1>1. ASSUME EditInv, [Next]_vars, NEW p \in Pages, Storing(p), page[p].steady, page[p].suffix # Unknown
      PROVE  /\ page[p].entry.name # page[p].form =>
                  AsEntered(Published(host'[page[p].id].name, page[p].suffix), page[p].entry.name.labels, page[p].suffix)
             /\ page[p].pc = "send" => NameShown(page[p], host'[page[p].id].name)
  <2>1. page[p].pc \in {"send", "add"} /\ host'[page[p].id] = page[p].intended /\ "intended" \in DOMAIN page[p]
    BY <1>1, StoringOK DEF Storing
  <2>2. SendOK(page[p]) /\ NewOK(page[p])
    BY <1>1 DEF EditInv, RequestOK
  <2> QED
    BY <1>1, <2>1, <2>2 DEF SendOK, NewOK, NameShown
<1>2. EditInv /\ [Next]_vars =>
        [\A p \in Pages : Storing(p) /\ page[p].steady /\ page[p].suffix # Unknown
                          /\ page[p].entry.name # page[p].form =>
            LET me == page[p]
                name == me.entry.name.labels
                published == Published(host'[me.id].name, me.suffix)
            IN  IF Len(name) = 1 THEN published \in {Lower(name), Lower(name \o me.suffix)}
                ELSE published = Lower(name)]_vars
  BY <1>1 DEF AsEntered
<1>3. EditInv /\ [Next]_vars =>
        [\A p \in Pages : Updating(p) /\ page[p].steady /\ page[p].formSuffix # Unknown
                          /\ page[p].entry.name = page[p].form /\ page[p].suffix # Unknown
                          /\ ~ShownBare(page[p])
                          /\ (Len(page[p].form.labels) # 1 \/ page[p].entry.address = page[p].print.address) =>
            Published(host'[page[p].id].name, page[p].suffix) = page[p].form.labels]_vars
  BY <1>1 DEF NameShown, Updating
<1> QED
  BY <1>2, <1>3, EditInvAlways, PTL DEF Spec, PublishesTheName, PublishesEntered, ShownNameStays
=============================================================================
