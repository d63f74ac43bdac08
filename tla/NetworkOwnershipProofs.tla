----------------------- MODULE NetworkOwnershipProofs -----------------------
(***************************************************************************)
(* Theorems about NetworkOwnership, for every value of its constants: the  *)
(* types, that a network stays while a source reports it, that the marker  *)
(* names the sources that own it, and that two jobs settle the object.     *)
(***************************************************************************)
EXTENDS NetworkOwnership, TLAPS

------------------------------------------------------------------------------
(* The inductive invariant.                                                *)

Links == [Owners -> Link \union {None}]

\* No number of a link or a mark is ahead of the sequence.
Numbered(ls, m) == \A o \in Owners : ls[o] # None => ls[o].n <= m /\ (ls[o].mark # None => ls[o].mark <= m)

\* What was reported without a gap since an applied claim is reported, linked and shown.
SteadyIn(std, k, object, ls) ==
    \A o \in Owners : std[o] =>
        /\ k[o].kind # "absent"
        /\ object # None /\ object.marked /\ object.status = "active" /\ Live(ls[o])

WorldOK ==
    /\ kea \in [Owners -> Reports]
    /\ net \in Net \union {None}
    /\ link \in Links /\ Numbered(link, number)
    /\ net = None => \A o \in Owners : link[o] = None
    /\ number \in Nat /\ referred \in BOOLEAN /\ barrier \in BOOLEAN
    /\ steady \in [Owners -> BOOLEAN] /\ SteadyIn(steady, kea, net, link)
    /\ rounds \in [Servers -> 0..2]

Places == {"idle", "cutoff", "read", "claim", "choose", "clean"}

Local == [pc: Places, order: Orders \union {None}, phase: Nat \ {0}, cutoff: [Sources -> Nat], whole: SUBSET Sources,
          report: [Sources -> Reports], fresh: SUBSET Sources, quiet: BOOLEAN, base: 0..2]

\* A worker is at a phase of its plan. While it reads, the complete phases are the ones before.
Works(l) ==
    /\ l.order \in Orders /\ l.phase \in 1..Len(l.order.plan)
    /\ \A s \in l.whole : \E k \in 1..Len(l.order.plan) :
          l.order.plan[k] = s /\ (l.pc \in {"cutoff", "read"} => k < l.phase)
    /\ l.pc = "clean" => l.order.plan[l.phase] \in l.whole

Typed(l) == l \in Local /\ (l.pc # "idle" => Works(l))

\* The worker has the claim of source s before it.
Unclaimed(l, s) ==
    \/ l.pc \in {"cutoff", "read"}
    \/ l.pc = "claim" /\ \E k \in l.phase..Len(l.order.plan) : l.order.plan[k] = s

\* A cleanup with the cutoff c would take the link of o, which Kea reports without a gap.
Behind(o, c, std, ls) == std[o] /\ ls[o].n < c

\* How the observations of a worker relate to the world: what is fresh is still reported, and a complete phase that could
\* take the link of a reported owner has the claim of this owner before it.
InWorld(l, k, m, std, ls) ==
    /\ \A s \in Sources : l.cutoff[s] <= m
    /\ l.pc # "idle" => \A s \in Sources :
          /\ s \in l.fresh /\ l.report[s].kind # "absent" => k[<<l.order.server, s>>].kind # "absent"
          /\ s \in l.whole /\ Behind(<<l.order.server, s>>, l.cutoff[s], std, ls) =>
                l.report[s].kind # "absent" /\ Unclaimed(l, s)

ActorsOK ==
    /\ actor \in [Actors -> Local]
    /\ \A a \in Actors : Typed(actor[a]) /\ InWorld(actor[a], kea, number, steady, link)

IInv == WorldOK /\ ActorsOK

------------------------------------------------------------------------------
(* Orders, reports and links.                                              *)

LEMMA OrderFacts ==
    ASSUME NEW order \in Orders
    PROVE  /\ order.server \in Servers /\ order.plan \in Seq(Sources) /\ Len(order.plan) \in Nat \ {0}
           /\ \A k \in 1..Len(order.plan) : order.plan[k] \in Sources /\ <<order.server, order.plan[k]>> \in Owners
           /\ \A i, j \in 1..Len(order.plan) : order.plan[i] = order.plan[j] => i = j
<1>1. order.server \in Servers /\ order.plan \in Seq(Sources) /\ order.plan # <<>>
  BY NetworkAssumption
<1>2. Len(order.plan) \in Nat \ {0} /\ \A k \in 1..Len(order.plan) : order.plan[k] \in Sources
  BY <1>1
<1>3. \A k \in 1..Len(order.plan) : <<order.server, order.plan[k]>> \in Owners
  BY <1>1, <1>2 DEF Owners
<1> QED
  BY <1>1, <1>2, <1>3, NetworkAssumption

LEMMA ReportFacts ==
    /\ Absent \in Reports /\ Absent.kind = "absent"
    /\ \A r \in Reports : /\ r.kind \in {"absent", "clash", "length"}
                          /\ r.kind = "length" => r.length \in Lengths /\ r.length # None
BY NetworkAssumption DEF Absent, Reports

LEMMA OwnerKinds == \A o \in Owners : o[1] \in Servers /\ o[2] \in Sources /\ o = <<o[1], o[2]>>
BY DEF Owners

LEMMA NoLinksTyped == NoLinks \in Links /\ \A o \in Owners : NoLinks[o] = None
BY DEF NoLinks, Links

LEMMA LinkFacts ==
    /\ None \notin Link
    /\ \A l \in Link : /\ l.length \in Lengths \union {None} /\ l.n \in Nat /\ l.mark \in Nat \union {None}
                       /\ l.adopted \in BOOLEAN
BY NetworkAssumption DEF Link

\* A claim takes only marked links of other owners.
LEMMA SupersededFacts ==
    ASSUME NEW ls \in Links, NEW o \in Owners
    PROVE  /\ WithoutSuperseded(ls, o) \in Links
           /\ WithoutSuperseded(ls, o)[o] = ls[o]
           /\ \A q \in Owners : \/ WithoutSuperseded(ls, o)[q] = ls[q]
                                \/ WithoutSuperseded(ls, o)[q] = None /\ ls[q] # None /\ ls[q].mark # None
           /\ \A q \in Owners : Live(ls[q]) => WithoutSuperseded(ls, o)[q] = ls[q]
           /\ \A q \in Owners : Live(WithoutSuperseded(ls, o)[q]) <=> Live(ls[q])
<1> DEFINE kept == WithoutSuperseded(ls, o)
<1>1. \A q \in Owners : kept[q] = IF q # o /\ ls[q] # None /\ MarkedAndUnconfirmed(ls[q]) THEN None ELSE ls[q]
  BY DEF WithoutSuperseded
<1>2. kept \in Links
  BY DEF WithoutSuperseded, Links
<1>3. \A q \in Owners : kept[q] = ls[q] \/ (kept[q] = None /\ ls[q] # None /\ ls[q].mark # None)
  BY <1>1 DEF MarkedAndUnconfirmed
<1>4. kept[o] = ls[o]
  BY <1>1
<1>5. \A q \in Owners : Live(ls[q]) => kept[q] = ls[q]
  BY <1>3 DEF Live
<1>6. \A q \in Owners : Live(kept[q]) => Live(ls[q])
  BY <1>3 DEF Live
<1> HIDE DEF kept
<1>7. \A q \in Owners : Live(kept[q]) <=> Live(ls[q])
  BY <1>5, <1>6
<1> QED
  BY <1>2, <1>3, <1>4, <1>5, <1>7 DEF kept

LEMMA ConfirmFacts ==
    ASSUME number \in Nat, NEW ls \in Links, NEW o \in Owners, NEW length \in Lengths \union {None},
           NEW mark \in Nat \union {None}, NEW adopted \in BOOLEAN
    PROVE  /\ Confirm(ls, o, length, mark, adopted) \in Links
           /\ LET own == Confirm(ls, o, length, mark, adopted)[o]
              IN  own # None /\ own.length = length /\ own.n = number + 1 /\ own.mark = mark
           /\ \A q \in Owners \ {o} : Confirm(ls, o, length, mark, adopted)[q] = ls[q]
<1> DEFINE own == [length |-> length, n |-> number + 1, mark |-> mark,
                   adopted |-> adopted \/ (ls[o] # None /\ ls[o].adopted)]
<1>1. own \in Link /\ own.length = length /\ own.n = number + 1 /\ own.mark = mark
  BY DEF Link
<1>2. own # None
  BY <1>1, LinkFacts
<1>3. Confirm(ls, o, length, mark, adopted) = [ls EXCEPT ![o] = own]
  BY DEF Confirm
<1> HIDE DEF own
<1> QED
  BY <1>1, <1>2, <1>3 DEF Links

------------------------------------------------------------------------------
(* One worker moves.                                                       *)

LEMMA IdleGood == Typed(Idle) /\ \A m \in Nat : \A k, std, ls : InWorld(Idle, k, m, std, ls)
<1>1. Idle \in Local
  BY ReportFacts DEF Idle, Local, Places
<1>2. Idle.pc = "idle" /\ \A s \in Sources : Idle.cutoff[s] = 0
  BY DEF Idle
<1> QED
  BY <1>1, <1>2 DEF Typed, InWorld

\* The worker rests on a world in which no more owners are behind.
LEMMA WorldMoves ==
    ASSUME NEW l, Typed(l), NEW k, NEW m \in Nat, NEW std, NEW ls, InWorld(l, k, m, std, ls),
           NEW m2 \in Nat, m <= m2, NEW std2, NEW ls2,
           \A o \in Owners, c \in 0..m : Behind(o, c, std2, ls2) => Behind(o, c, std, ls)
    PROVE  InWorld(l, k, m2, std2, ls2)
<1>1. \A s \in Sources : l.cutoff[s] \in 0..m /\ l.cutoff[s] <= m2
  BY DEF Typed, Local, InWorld
<1>2. l.pc # "idle" => \A s \in Sources : <<l.order.server, s>> \in Owners
  BY OrderFacts DEF Typed, Works, Owners
<1> QED
  BY <1>1, <1>2 DEF InWorld

\* Losing its quiet changes nothing else for a worker.
LEMMA QuietMoves ==
    ASSUME NEW l, Typed(l)
    PROVE  /\ Typed([l EXCEPT !.quiet = FALSE])
           /\ \A k, m, std, ls : InWorld(l, k, m, std, ls) => InWorld([l EXCEPT !.quiet = FALSE], k, m, std, ls)
<1> DEFINE new == [l EXCEPT !.quiet = FALSE]
<1>1. /\ new \in Local /\ new.pc = l.pc /\ new.order = l.order /\ new.phase = l.phase /\ new.cutoff = l.cutoff
      /\ new.whole = l.whole /\ new.report = l.report /\ new.fresh = l.fresh
  BY DEF Typed, Local
<1> HIDE DEF new
<1>2. Typed(new)
  BY <1>1 DEF Typed, Works
<1>3. \A s : Unclaimed(l, s) => Unclaimed(new, s)
  BY <1>1 DEF Unclaimed
<1>4. ASSUME NEW k, NEW m, NEW std, NEW ls, InWorld(l, k, m, std, ls) PROVE InWorld(new, k, m, std, ls)
  BY <1>1, <1>3, <1>4 DEF InWorld
<1> QED
  BY <1>2, <1>4 DEF new

\* One worker moves, and a disturbance can cost every worker its quiet.
LEMMA ActorMoves ==
    ASSUME ActorsOK, WorldOK, NEW a \in Actors, NEW new, Typed(new), InWorld(new, kea, number', steady', link'),
           kea' = kea, number' \in Nat, number <= number',
           \A o \in Owners, c \in 0..number : Behind(o, c, steady', link') => Behind(o, c, steady, link),
           actor' = [actor EXCEPT ![a] = new] \/ actor' = Quieted([actor EXCEPT ![a] = new])
    PROVE  ActorsOK'
<1> DEFINE local == [actor EXCEPT ![a] = new]
<1>1. new \in Local /\ actor \in [Actors -> Local] /\ number \in Nat
  BY DEF Typed, ActorsOK, WorldOK
<1>2. local \in [Actors -> Local]
  BY <1>1
<1>3. ASSUME NEW b \in Actors PROVE Typed(local[b]) /\ InWorld(local[b], kea, number', steady', link')
  <2>1. CASE b = a
    <3>1. local[b] = new
      BY <1>1, <2>1
    <3> QED
      BY <3>1
  <2>2. CASE b # a
    <3>1. local[b] = actor[b]
      BY <1>1, <2>2
    <3>2. Typed(actor[b]) /\ InWorld(actor[b], kea, number, steady, link)
      BY DEF ActorsOK
    <3>3. InWorld(actor[b], kea, number', steady', link')
      BY <1>1, <3>2, WorldMoves
    <3> QED
      BY <3>1, <3>2, <3>3
  <2> QED
    BY <2>1, <2>2
<1> HIDE DEF local
<1>4. CASE actor' = local
  BY <1>2, <1>3, <1>4 DEF ActorsOK
<1>5. CASE actor' = Quieted(local)
  <2>1. \A b \in Actors : actor'[b] = [local[b] EXCEPT !.quiet = FALSE] /\ actor' = [c \in Actors |-> actor'[c]]
    BY <1>5 DEF Quieted
  <2>2. \A b \in Actors : Typed(actor'[b]) /\ InWorld(actor'[b], kea, number', steady', link')
    <3> SUFFICES ASSUME NEW b \in Actors
                 PROVE  Typed(actor'[b]) /\ InWorld(actor'[b], kea, number', steady', link')
      OBVIOUS
    <3> DEFINE l == local[b]  calm == [l EXCEPT !.quiet = FALSE]
    <3>1. Typed(l) /\ InWorld(l, kea, number', steady', link') /\ actor'[b] = calm
      BY <1>3, <2>1
    <3> HIDE DEF l
    <3>2. Typed(calm) /\ InWorld(calm, kea, number', steady', link')
      BY <3>1, QuietMoves
    <3> QED
      BY <3>1, <3>2
  <2>3. actor' \in [Actors -> Local]
    BY <2>1, <2>2 DEF Typed
  <2> QED
    BY <2>2, <2>3 DEF ActorsOK
<1> QED
  BY <1>4, <1>5 DEF local

\* The world that a worker's step leaves as it is for the workers.
Same == UNCHANGED <<kea, number, steady, link>>

LEMMA SameMoves ==
    ASSUME ActorsOK, WorldOK, NEW a \in Actors, NEW new, Typed(new), InWorld(new, kea, number, steady, link), Same,
           actor' = [actor EXCEPT ![a] = new] \/ actor' = Quieted([actor EXCEPT ![a] = new])
    PROVE  ActorsOK'
<1>1. kea' = kea /\ number' = number /\ steady' = steady /\ link' = link /\ number \in Nat
  BY DEF Same, WorldOK
<1>2. InWorld(new, kea, number', steady', link')
  BY <1>1
<1>3. \A o \in Owners, c \in 0..number : Behind(o, c, steady', link') => Behind(o, c, steady, link)
  BY <1>1
<1> QED
  BY <1>1, <1>2, <1>3, ActorMoves

LEMMA WorldStays ==
    ASSUME WorldOK, UNCHANGED <<kea, net, link, number, referred, barrier, steady>>, rounds' \in [Servers -> 0..2]
    PROVE  WorldOK'
<1> HIDE DEF Links, Reports, Owners
<1> QED
  BY DEF WorldOK, Numbered, SteadyIn

------------------------------------------------------------------------------
(* The orders and the reads.                                               *)

LEMMA OfActor ==
    ASSUME IInv, NEW a \in Actors
    PROVE  /\ WorldOK /\ ActorsOK /\ actor[a] \in Local /\ Typed(actor[a])
           /\ InWorld(actor[a], kea, number, steady, link)
           /\ actor[a].pc # "idle" => /\ Works(actor[a]) /\ actor[a].order \in Orders
                                      /\ Source(a) \in Sources /\ Owner(a) \in Owners
                                      /\ Owner(a) = <<actor[a].order.server, Source(a)>>
                                      /\ Source(a) = actor[a].order.plan[actor[a].phase]
<1>1. Typed(actor[a]) /\ InWorld(actor[a], kea, number, steady, link) /\ WorldOK /\ ActorsOK
  BY DEF IInv, ActorsOK
<1>2. actor[a].pc # "idle" => Works(actor[a])
  BY <1>1 DEF Typed
<1> QED
  BY <1>1, <1>2, OrderFacts DEF Typed, Works, Source, Owner

LEMMA StartKeeps == ASSUME IInv, NEW a \in Actors, NEW order \in Orders, Start(a, order) PROVE IInv'
<1>1. PICK quiet \in BOOLEAN :
         actor' = [actor EXCEPT ![a] = [Idle EXCEPT !.pc = "cutoff", !.order = order, !.base = rounds[order.server],
                                                    !.quiet = quiet]]
  BY DEF Start, Set
<1> DEFINE new == [Idle EXCEPT !.pc = "cutoff", !.order = order, !.base = rounds[order.server], !.quiet = quiet]
<1>2. UNCHANGED <<kea, net, link, number, referred, barrier, steady, rounds>> /\ WorldOK /\ ActorsOK
  BY OfActor DEF Start
<1>3. /\ new.pc = "cutoff" /\ new.order = order /\ new.phase = 1 /\ new.cutoff = [s \in Sources |-> 0]
      /\ new.whole = {} /\ new.fresh = {} /\ new.report = [s \in Sources |-> Absent] /\ new.quiet = quiet
      /\ new.base = rounds[order.server]
  BY DEF Idle
<1>4. rounds[order.server] \in 0..2
  BY <1>2, OrderFacts DEF WorldOK
<1>5. new \in Local
  <2>1. Idle \in Local
    BY IdleGood DEF Typed
  <2> HIDE DEF Idle
  <2> QED
    BY <1>4, <2>1 DEF Local, Places
<1> HIDE DEF new
<1>6. Typed(new)
  BY <1>3, <1>5, OrderFacts DEF Typed, Works
<1>7. InWorld(new, kea, number, steady, link)
  BY <1>2, <1>3 DEF InWorld, WorldOK
<1>8. actor' = [actor EXCEPT ![a] = new]
  BY <1>1 DEF new
<1>9. ActorsOK'
  BY <1>2, <1>6, <1>7, <1>8, SameMoves DEF Same
<1> QED
  BY <1>2, <1>9, WorldStays DEF IInv, WorldOK

LEMMA TakeCutoffKeeps == ASSUME IInv, NEW a \in Actors, TakeCutoff(a) PROVE IInv'
<1> DEFINE s0 == Source(a)  cutoff == [actor[a].cutoff EXCEPT ![s0] = number + 1]
           new == [actor[a] EXCEPT !.pc = "read", !.cutoff = cutoff]
<1>1. /\ WorldOK /\ ActorsOK /\ actor[a] \in Local /\ actor[a].pc = "cutoff" /\ Works(actor[a])
      /\ InWorld(actor[a], kea, number, steady, link) /\ s0 \in Sources /\ s0 = actor[a].order.plan[actor[a].phase]
      /\ number' = number + 1 /\ number \in Nat /\ UNCHANGED <<kea, net, link, referred, barrier, budget, steady, rounds>>
      /\ actor' = [actor EXCEPT ![a] = [actor[a] EXCEPT !.pc = "read", !.cutoff[s0] = number + 1]]
  BY OfActor DEF TakeCutoff, Set, WorldOK
<1>2. /\ cutoff \in [Sources -> Nat] /\ cutoff[s0] = number + 1
      /\ \A s \in Sources \ {s0} : cutoff[s] = actor[a].cutoff[s]
  BY <1>1 DEF Local
<1>3. /\ new.pc = "read" /\ new.order = actor[a].order /\ new.phase = actor[a].phase /\ new.cutoff = cutoff
      /\ new.whole = actor[a].whole /\ new.report = actor[a].report /\ new.fresh = actor[a].fresh
      /\ new \in Local
  <2> HIDE DEF s0, cutoff
  <2> QED
    BY <1>1, <1>2 DEF Local, Places
<1>4. actor' = [actor EXCEPT ![a] = new]
  <2>1. [actor[a] EXCEPT !.pc = "read", !.cutoff[s0] = number + 1] = new
    BY <1>1 DEF Local
  <2> QED
    BY <1>1, <2>1
<1> HIDE DEF new, cutoff, s0
<1>5. Typed(new)
  BY <1>1, <1>3 DEF Typed, Works
<1>6. s0 \notin actor[a].whole
  <2>1. \A k \in 1..Len(actor[a].order.plan) : actor[a].order.plan[k] = s0 => k = actor[a].phase
    BY <1>1, OrderFacts DEF Works
  <2>2. actor[a].phase \in Nat
    BY <1>1 DEF Local
  <2> QED
    BY <1>1, <2>1, <2>2 DEF Works
<1>7. InWorld(new, kea, number', steady', link')
  <2>1. \A s \in Sources : new.cutoff[s] <= number + 1
    BY <1>1, <1>2, <1>3 DEF InWorld, Local
  <2>2. ASSUME NEW s \in Sources, s \in new.whole, Behind(<<new.order.server, s>>, new.cutoff[s], steady, link)
        PROVE  new.report[s].kind # "absent" /\ Unclaimed(new, s)
    <3>1. s # s0 /\ new.cutoff[s] = actor[a].cutoff[s]
      BY <1>2, <1>3, <1>6, <2>2
    <3> QED
      BY <1>1, <1>3, <2>2, <3>1 DEF InWorld, Unclaimed
  <2> QED
    BY <1>1, <1>3, <2>1, <2>2 DEF InWorld
<1>8. \A o \in Owners, c \in 0..number : Behind(o, c, steady', link') => Behind(o, c, steady, link)
  BY <1>1
<1>9. ActorsOK'
  <2>1. kea' = kea /\ number' \in Nat /\ number <= number'
    BY <1>1
  <2> QED
    BY <1>1, <1>4, <1>5, <1>7, <1>8, <2>1, ActorMoves
<1>10. WorldOK'
  <2>1. Numbered(link, number + 1)
    BY <1>1, LinkFacts DEF WorldOK, Numbered, Links
  <2> QED
    BY <1>1, <2>1 DEF WorldOK, Numbered, SteadyIn
<1> QED
  BY <1>9, <1>10 DEF IInv

\* A worker whose read of this phase came goes on with the next phase, or with the claims.
LEMMA AfterReadKeeps ==
    ASSUME NEW me \in Local, me.pc = "read", me.order \in Orders, me.phase \in 1..Len(me.order.plan),
           \A s \in me.whole : \E k \in 1..Len(me.order.plan) : me.order.plan[k] = s /\ k <= me.phase
    PROVE  /\ Typed(AfterRead(me))
           /\ \A k, m, std, ls : InWorld(me, k, m, std, ls) => InWorld(AfterRead(me), k, m, std, ls)
<1> DEFINE further == [me EXCEPT !.phase = @ + 1, !.pc = "cutoff"]  claims == [me EXCEPT !.phase = 1, !.pc = "claim"]
<1>1. Len(me.order.plan) \in Nat /\ me.phase \in Nat /\ me.phase + 1 \in Nat \ {0} /\ 1 \in Nat \ {0}
  <2>1. me.phase \in Nat \ {0}
    BY DEF Local
  <2> QED
    BY <2>1, OrderFacts
<1>2. /\ further \in Local /\ further.pc = "cutoff" /\ further.order = me.order /\ further.phase = me.phase + 1
      /\ further.cutoff = me.cutoff /\ further.whole = me.whole /\ further.report = me.report /\ further.fresh = me.fresh
  BY <1>1 DEF Local, Places
<1>3. /\ claims \in Local /\ claims.pc = "claim" /\ claims.order = me.order /\ claims.phase = 1
      /\ claims.cutoff = me.cutoff /\ claims.whole = me.whole /\ claims.report = me.report /\ claims.fresh = me.fresh
  BY <1>1 DEF Local, Places
<1>4. AfterRead(me) = IF me.phase < Len(me.order.plan) THEN further ELSE claims
  BY DEF AfterRead
<1> HIDE DEF further, claims
<1>5. me.phase < Len(me.order.plan) => Typed(further)
  BY <1>1, <1>2 DEF Typed, Works
<1>6. Typed(claims)
  BY <1>1, <1>3 DEF Typed, Works
<1>7. ASSUME NEW k, NEW m, NEW std, NEW ls, InWorld(me, k, m, std, ls)
      PROVE  InWorld(further, k, m, std, ls) /\ InWorld(claims, k, m, std, ls)
  <2>1. InWorld(further, k, m, std, ls)
    BY <1>2, <1>7 DEF InWorld, Unclaimed
  <2>2. \A s \in claims.whole : Unclaimed(claims, s)
    BY <1>1, <1>3 DEF Unclaimed
  <2>3. InWorld(claims, k, m, std, ls)
    BY <1>3, <1>7, <2>2 DEF InWorld
  <2> QED
    BY <2>1, <2>3
<1> QED
  BY <1>4, <1>5, <1>6, <1>7

\* A read brings what Kea reports, and is complete only then; or it brings nothing.
LEMMA ReadMoves ==
    ASSUME IInv, NEW a \in Actors, actor[a].pc = "read", NEW shown, NEW whole,
           shown = kea[Owner(a)] \/ (shown = Absent /\ whole = actor[a].whole),
           whole = actor[a].whole \/ whole = actor[a].whole \union {Source(a)}
    PROVE  LET mid == [actor[a] EXCEPT !.report[Source(a)] = shown, !.whole = whole, !.fresh = @ \union {Source(a)}]
           IN  Typed(AfterRead(mid)) /\ InWorld(AfterRead(mid), kea, number, steady, link)
<1> DEFINE s0 == Source(a)  report == [actor[a].report EXCEPT ![s0] = shown]
           mid == [actor[a] EXCEPT !.report = report, !.whole = whole, !.fresh = @ \union {s0}]
<1>1. /\ WorldOK /\ actor[a] \in Local /\ Works(actor[a]) /\ InWorld(actor[a], kea, number, steady, link)
      /\ s0 \in Sources /\ s0 = actor[a].order.plan[actor[a].phase] /\ Owner(a) \in Owners
      /\ Owner(a) = <<actor[a].order.server, s0>>
  BY OfActor
<1>2. shown \in Reports
  BY <1>1, ReportFacts DEF WorldOK
<1>3. report \in [Sources -> Reports] /\ report[s0] = shown /\ \A s \in Sources \ {s0} : report[s] = actor[a].report[s]
  BY <1>1, <1>2 DEF Local
<1>4. [actor[a] EXCEPT !.report[Source(a)] = shown, !.whole = whole, !.fresh = @ \union {Source(a)}] = mid
  BY <1>1 DEF Local
<1> HIDE DEF report, s0
<1>5. /\ mid \in Local /\ mid.pc = "read" /\ mid.order = actor[a].order /\ mid.phase = actor[a].phase
      /\ mid.cutoff = actor[a].cutoff /\ mid.whole = whole /\ mid.report = report
      /\ mid.fresh = actor[a].fresh \union {s0}
  BY <1>1, <1>3 DEF Local, s0
<1> HIDE DEF mid
<1>6. \A s \in mid.whole : \E k \in 1..Len(mid.order.plan) : mid.order.plan[k] = s /\ k <= mid.phase
  <2>1. actor[a].phase \in 1..Len(actor[a].order.plan) /\ actor[a].phase \in Nat
    BY <1>1 DEF Works, Local
  <2> QED
    BY <1>1, <1>5, <2>1 DEF Works, s0
<1>7. InWorld(mid, kea, number, steady, link)
  <2>1. \A s \in Sources : mid.cutoff[s] <= number
    BY <1>1, <1>5 DEF InWorld
  <2>2. ASSUME NEW s \in Sources
        PROVE  /\ s \in mid.fresh /\ mid.report[s].kind # "absent" => kea[<<mid.order.server, s>>].kind # "absent"
               /\ s \in mid.whole /\ Behind(<<mid.order.server, s>>, mid.cutoff[s], steady, link) =>
                    mid.report[s].kind # "absent" /\ Unclaimed(mid, s)
    <3>1. CASE s = s0
      <4>1. shown.kind # "absent" => kea[<<mid.order.server, s0>>].kind # "absent"
        BY <1>1, <1>5, ReportFacts
      <4>2. steady[<<mid.order.server, s0>>] => kea[<<mid.order.server, s0>>].kind # "absent"
        BY <1>1, <1>5 DEF WorldOK, SteadyIn
      <4>3. s0 \in whole => shown = kea[Owner(a)]
        <5>1. s0 \notin actor[a].whole
          <6>1. \A k \in 1..Len(actor[a].order.plan) : actor[a].order.plan[k] = s0 => k = actor[a].phase
            BY <1>1, OrderFacts DEF Works
          <6>2. actor[a].phase \in Nat
            BY <1>1 DEF Local
          <6> QED
            BY <1>1, <6>1, <6>2 DEF Works
        <5> QED
          BY <5>1 DEF s0
      <4>4. mid.report[s] = shown /\ (s \in mid.whole => s0 \in whole)
        BY <1>3, <1>5, <3>1
      <4>5. Unclaimed(mid, s)
        BY <1>5 DEF Unclaimed
      <4>6. steady[<<mid.order.server, s>>] => kea[<<mid.order.server, s>>].kind # "absent"
        BY <3>1, <4>2
      <4>7. s \in mid.whole /\ steady[<<mid.order.server, s>>] => mid.report[s].kind # "absent"
        <5>1. Owner(a) = <<mid.order.server, s>>
          BY <1>1, <1>5, <3>1
        <5> QED
          BY <4>3, <4>4, <4>6, <5>1
      <4> QED
        BY <3>1, <4>1, <4>4, <4>5, <4>7 DEF Behind
    <3>2. CASE s # s0
      <4>1. s \in mid.whole => s \in actor[a].whole
        BY <1>5, <3>2 DEF s0
      <4>2. mid.report[s] = actor[a].report[s] /\ (s \in mid.fresh => s \in actor[a].fresh)
        BY <1>3, <1>5, <3>2
      <4>3. Unclaimed(mid, s)
        BY <1>5 DEF Unclaimed
      <4> QED
        BY <1>1, <1>5, <4>1, <4>2, <4>3 DEF InWorld
    <3> QED
      BY <3>1, <3>2
  <2> QED
    BY <2>1, <2>2 DEF InWorld
<1>8. mid.order \in Orders /\ mid.phase \in 1..Len(mid.order.plan)
  BY <1>1, <1>5 DEF Works
<1>9. Typed(AfterRead(mid)) /\ InWorld(AfterRead(mid), kea, number, steady, link)
  BY <1>5, <1>6, <1>7, <1>8, AfterReadKeeps
<1> QED
  BY <1>4, <1>9

LEMMA RestartTyped == [s \in Servers |-> 0] \in [Servers -> 0..2]
<1>1. 0 \in 0..2
  OBVIOUS
<1> QED
  BY <1>1

LEMMA ReadsKeep == ASSUME IInv, NEW a \in Actors, ReadSnapshot(a) \/ ReadInPart(a) PROVE IInv'
<1>1. WorldOK /\ ActorsOK /\ actor[a].pc = "read" /\ actor[a] \in Local
  BY OfActor DEF ReadSnapshot, ReadInPart
<1>2. UNCHANGED <<kea, net, link, number, referred, barrier, steady>> /\ rounds' \in [Servers -> 0..2]
  <2>1. CASE ReadSnapshot(a)
    BY <1>1, <2>1 DEF ReadSnapshot, WorldOK
  <2>2. CASE ReadInPart(a)
    <3>1. UNCHANGED <<kea, net, link, number, referred, barrier, steady>> /\ rounds' = [s \in Servers |-> 0]
      BY <2>2 DEF ReadInPart, Disturbed
    <3> QED
      BY <3>1, RestartTyped
  <2> QED
    BY <2>1, <2>2
<1>3. PICK shown, whole :
         /\ shown = kea[Owner(a)] \/ (shown = Absent /\ whole = actor[a].whole)
         /\ whole = actor[a].whole \/ whole = actor[a].whole \union {Source(a)}
         /\ LET new == AfterRead([actor[a] EXCEPT !.report[Source(a)] = shown, !.whole = whole,
                                                  !.fresh = @ \union {Source(a)}])
            IN  actor' = [actor EXCEPT ![a] = new] \/ actor' = Quieted([actor EXCEPT ![a] = new])
  <2>1. CASE ReadSnapshot(a)
    <3>1. actor' = [actor EXCEPT ![a] = AfterRead([actor[a] EXCEPT !.report[Source(a)] = kea[Owner(a)],
                       !.whole = actor[a].whole \union {Source(a)}, !.fresh = @ \union {Source(a)}])]
      BY <2>1 DEF ReadSnapshot, Set
    <3> QED
      BY <3>1
  <2>2. CASE ReadInPart(a)
    <3>1. PICK shown \in {Absent, kea[Owner(a)]} :
             actor' = Quieted([actor EXCEPT ![a] =
                        AfterRead([actor[a] EXCEPT !.report[Source(a)] = shown, !.fresh = @ \union {Source(a)}])])
      BY <2>2 DEF ReadInPart
    <3> DEFINE part == [actor[a] EXCEPT !.report[Source(a)] = shown, !.fresh = @ \union {Source(a)}]
               mid == [actor[a] EXCEPT !.report[Source(a)] = shown, !.whole = actor[a].whole, !.fresh = @ \union {Source(a)}]
    <3>2. part = mid
      BY <1>1 DEF Local
    <3>3. actor' = Quieted([actor EXCEPT ![a] = AfterRead(part)])
      BY <3>1
    <3> HIDE DEF part
    <3>4. actor' = Quieted([actor EXCEPT ![a] = AfterRead(mid)])
      BY <3>2, <3>3
    <3> QED
      BY <3>1, <3>4
  <2> QED
    BY <2>1, <2>2
<1> DEFINE new == AfterRead([actor[a] EXCEPT !.report[Source(a)] = shown, !.whole = whole, !.fresh = @ \union {Source(a)}])
<1>4. Typed(new) /\ InWorld(new, kea, number, steady, link)
  BY <1>1, <1>3, ReadMoves
<1>5. actor' = [actor EXCEPT ![a] = new] \/ actor' = Quieted([actor EXCEPT ![a] = new])
  BY <1>3
<1> HIDE DEF new
<1>6. ActorsOK'
  BY <1>1, <1>2, <1>4, <1>5, SameMoves DEF Same
<1> QED
  BY <1>1, <1>2, <1>6, WorldStays DEF IInv

------------------------------------------------------------------------------
(* The claims.                                                             *)

\* A worker leaves a phase of its claims when the owner of the phase is not behind any more.
LEMMA AfterClaimKeeps ==
    ASSUME NEW me \in Local, me.pc = "claim", Works(me), NEW k, NEW m \in Nat, NEW std, NEW ls, InWorld(me, k, m, std, ls),
           LET s == me.order.plan[me.phase]
           IN  s \in me.whole => ~Behind(<<me.order.server, s>>, me.cutoff[s], std, ls)
    PROVE  Typed(AfterClaim(me)) /\ InWorld(AfterClaim(me), k, m, std, ls)
<1> DEFINE further == [me EXCEPT !.phase = @ + 1]  chooses == [me EXCEPT !.phase = 1, !.pc = "choose"]
<1>1. /\ Len(me.order.plan) \in Nat /\ me.phase \in Nat /\ me.phase + 1 \in Nat \ {0} /\ 1 \in Nat \ {0}
      /\ me.order \in Orders /\ me.phase \in 1..Len(me.order.plan)
  <2>1. me.phase \in Nat \ {0} /\ me.order \in Orders /\ me.phase \in 1..Len(me.order.plan)
    BY DEF Local, Works
  <2> QED
    BY <2>1, OrderFacts
<1>2. /\ further \in Local /\ further.pc = "claim" /\ further.order = me.order /\ further.phase = me.phase + 1
      /\ further.cutoff = me.cutoff /\ further.whole = me.whole /\ further.report = me.report /\ further.fresh = me.fresh
  BY <1>1 DEF Local
<1>3. /\ chooses \in Local /\ chooses.pc = "choose" /\ chooses.order = me.order /\ chooses.phase = 1
      /\ chooses.cutoff = me.cutoff /\ chooses.whole = me.whole /\ chooses.report = me.report /\ chooses.fresh = me.fresh
  BY <1>1 DEF Local, Places
<1>4. AfterClaim(me) \in {Idle, further, chooses}
      /\ (AfterClaim(me) = further \/ AfterClaim(me) = Idle \/ me.phase = Len(me.order.plan))
      /\ (me.phase < Len(me.order.plan) => AfterClaim(me) = further)
      /\ (me.phase = Len(me.order.plan) => AfterClaim(me) \in {Idle, chooses})
  BY <1>1 DEF AfterClaim
<1> HIDE DEF further, chooses
<1>5. \A s \in me.whole : Behind(<<me.order.server, s>>, me.cutoff[s], std, ls) =>
          /\ me.report[s].kind # "absent"
          /\ \E i \in (me.phase + 1)..Len(me.order.plan) : me.order.plan[i] = s
  <2> SUFFICES ASSUME NEW s \in me.whole, Behind(<<me.order.server, s>>, me.cutoff[s], std, ls)
               PROVE  /\ me.report[s].kind # "absent"
                      /\ \E i \in (me.phase + 1)..Len(me.order.plan) : me.order.plan[i] = s
    OBVIOUS
  <2>1. s \in Sources
    BY DEF Local
  <2>2. me.report[s].kind # "absent" /\ \E i \in me.phase..Len(me.order.plan) : me.order.plan[i] = s
    BY <2>1 DEF InWorld, Unclaimed
  <2>3. me.order.plan[me.phase] # s
    OBVIOUS
  <2> QED
    BY <1>1, <2>2, <2>3
<1>6. me.phase < Len(me.order.plan) => Typed(further) /\ InWorld(further, k, m, std, ls)
  <2>1. me.phase < Len(me.order.plan) => Typed(further)
    BY <1>1, <1>2 DEF Typed, Works
  <2>2. InWorld(further, k, m, std, ls)
    BY <1>2, <1>5 DEF InWorld, Unclaimed
  <2> QED
    BY <2>1, <2>2
<1>7. me.phase = Len(me.order.plan) => Typed(chooses) /\ InWorld(chooses, k, m, std, ls)
  <2>1. Typed(chooses)
    BY <1>1, <1>3 DEF Typed, Works
  <2>2. me.phase = Len(me.order.plan) => \A s \in me.whole : ~Behind(<<me.order.server, s>>, me.cutoff[s], std, ls)
    BY <1>1, <1>5
  <2>3. me.phase = Len(me.order.plan) => InWorld(chooses, k, m, std, ls)
    BY <1>3, <2>2 DEF InWorld
  <2> QED
    BY <2>1, <2>3
<1>8. me.phase < Len(me.order.plan) \/ me.phase = Len(me.order.plan)
  BY <1>1
<1> QED
  BY <1>4, <1>6, <1>7, <1>8, IdleGood

\* A phase that is passed, or that is not complete after a row that failed.
LEMMA ShrinkMoves ==
    ASSUME IInv, NEW a \in Actors, actor[a].pc = "claim", NEW whole \in SUBSET actor[a].whole,
           Source(a) \in whole => actor[a].report[Source(a)].kind = "absent"
    PROVE  LET new == AfterClaim([actor[a] EXCEPT !.whole = whole])
           IN  Typed(new) /\ InWorld(new, kea, number, steady, link)
<1> DEFINE mid == [actor[a] EXCEPT !.whole = whole]
<1>1. /\ WorldOK /\ actor[a] \in Local /\ Works(actor[a]) /\ InWorld(actor[a], kea, number, steady, link)
      /\ Source(a) \in Sources /\ Source(a) = actor[a].order.plan[actor[a].phase] /\ number \in Nat
  BY OfActor DEF WorldOK
<1>2. /\ mid \in Local /\ mid.pc = "claim" /\ mid.order = actor[a].order /\ mid.phase = actor[a].phase
      /\ mid.cutoff = actor[a].cutoff /\ mid.whole = whole /\ mid.report = actor[a].report /\ mid.fresh = actor[a].fresh
  BY <1>1 DEF Local
<1> HIDE DEF mid
<1>3. Works(mid)
  BY <1>1, <1>2 DEF Works
<1>4. InWorld(mid, kea, number, steady, link)
  BY <1>1, <1>2 DEF InWorld, Unclaimed
<1>5. Source(a) \in whole => ~Behind(<<mid.order.server, Source(a)>>, mid.cutoff[Source(a)], steady, link)
  BY <1>1, <1>2 DEF InWorld
<1>6. Typed(AfterClaim(mid)) /\ InWorld(AfterClaim(mid), kea, number, steady, link)
  BY <1>1, <1>2, <1>3, <1>4, <1>5, AfterClaimKeeps
<1> QED
  BY <1>6 DEF mid

LEMMA PassKeeps == ASSUME IInv, NEW a \in Actors, PassPhase(a) \/ RowFails(a) PROVE IInv'
<1>1. WorldOK /\ ActorsOK /\ actor[a].pc = "claim"
  BY OfActor DEF PassPhase, RowFails
<1>2. UNCHANGED <<kea, net, link, number, referred, barrier, steady>> /\ rounds' \in [Servers -> 0..2]
  <2>1. CASE PassPhase(a)
    BY <1>1, <2>1 DEF PassPhase, WorldOK
  <2>2. CASE RowFails(a)
    <3>1. UNCHANGED <<kea, net, link, number, referred, barrier, steady>> /\ rounds' = [s \in Servers |-> 0]
      BY <2>2 DEF RowFails, Disturbed
    <3> QED
      BY <3>1, RestartTyped
  <2> QED
    BY <2>1, <2>2
<1>3. PICK whole \in SUBSET actor[a].whole :
         /\ Source(a) \in whole => actor[a].report[Source(a)].kind = "absent"
         /\ LET new == AfterClaim([actor[a] EXCEPT !.whole = whole])
            IN  actor' = [actor EXCEPT ![a] = new] \/ actor' = Quieted([actor EXCEPT ![a] = new])
  <2>1. CASE PassPhase(a)
    <3> DEFINE rests == Source(a) = "lease" /\ actor[a].order.kind = "job" /\ "subnet" \notin actor[a].whole
               whole == IF rests THEN actor[a].whole \ {"lease"} ELSE actor[a].whole
    <3>1. actor' = [actor EXCEPT ![a] = AfterClaim([actor[a] EXCEPT !.whole = whole])] /\ ~Claims(actor[a], Source(a))
      BY <2>1 DEF PassPhase, Set
    <3>2. Source(a) \in whole => actor[a].report[Source(a)].kind = "absent"
      BY <3>1 DEF Claims
    <3>3. whole \in SUBSET actor[a].whole
      OBVIOUS
    <3> HIDE DEF whole
    <3> QED
      BY <3>1, <3>2, <3>3
  <2>2. CASE RowFails(a)
    <3> DEFINE whole == actor[a].whole \ {Source(a)}
    <3>1. actor' = Quieted([actor EXCEPT ![a] = AfterClaim([actor[a] EXCEPT !.whole = whole])])
      BY <2>2 DEF RowFails
    <3> QED
      BY <3>1
  <2> QED
    BY <2>1, <2>2
<1> DEFINE new == AfterClaim([actor[a] EXCEPT !.whole = whole])
<1>4. Typed(new) /\ InWorld(new, kea, number, steady, link)
  BY <1>1, <1>3, ShrinkMoves
<1>5. actor' = [actor EXCEPT ![a] = new] \/ actor' = Quieted([actor EXCEPT ![a] = new])
  BY <1>3
<1> HIDE DEF new
<1>6. ActorsOK'
  BY <1>1, <1>2, <1>4, <1>5, SameMoves DEF Same
<1> QED
  BY <1>1, <1>2, <1>6, WorldStays DEF IInv

\* After a claim the owner of the claim is not behind, and no other owner is that was not.
CatchesUp(o) ==
    \A q \in Owners, c \in 0..number : Behind(q, c, steady', link') => q # o /\ Behind(q, c, steady, link)

\* The links after a claim: the owner's link has the next number, and the owners that are steady keep theirs.
LEMMA ConfirmedWorld ==
    ASSUME WorldOK, NEW o \in Owners, NEW ls \in Links, Numbered(ls, number),
           NEW length \in Lengths \union {None}, NEW mark \in Nat \union {None}, mark # None => mark <= number,
           NEW adopted \in BOOLEAN, link' = Confirm(ls, o, length, mark, adopted), number' = number + 1,
           UNCHANGED <<kea, referred, barrier>>, rounds' \in [Servers -> 0..2], net' \in Net,
           \A q \in Owners \ {o} : steady[q] => ls[q] = link[q],
           steady' \in [Owners -> BOOLEAN], \A q \in Owners \ {o} : steady'[q] => steady[q],
           \A q \in Owners : steady'[q] => net'.marked /\ net'.status = "active",
           steady'[o] => length # None /\ mark = None /\ kea[o].kind # "absent"
    PROVE  WorldOK' /\ CatchesUp(o)
<1>1. /\ number \in Nat /\ link' \in Links /\ link'[o] # None /\ link'[o].length = length /\ link'[o].n = number + 1
      /\ link'[o].mark = mark /\ \A q \in Owners \ {o} : link'[q] = ls[q]
  <2>1. number \in Nat
    BY DEF WorldOK
  <2> QED
    BY <2>1, ConfirmFacts
<1>2. Numbered(link', number + 1)
  <2>1. \A q \in Owners \ {o} : ls[q] # None =>
            ls[q].n <= number + 1 /\ (ls[q].mark # None => ls[q].mark <= number + 1)
    BY <1>1, LinkFacts DEF Numbered, Links
  <2> QED
    BY <1>1, <2>1 DEF Numbered
<1>3. net' # None
  BY NetworkAssumption
<1>4. SteadyIn(steady', kea, net', link')
  <2> SUFFICES ASSUME NEW q \in Owners, steady'[q]
               PROVE  /\ kea[q].kind # "absent"
                      /\ net' # None /\ net'.marked /\ net'.status = "active" /\ Live(link'[q])
    BY DEF SteadyIn
  <2>1. CASE q = o
    BY <1>1, <1>3, <2>1 DEF Live
  <2>2. CASE q # o
    BY <1>1, <1>3, <2>2 DEF WorldOK, SteadyIn
  <2> QED
    BY <2>1, <2>2
<1>5. WorldOK'
  <2>1. number' \in Nat /\ SteadyIn(steady, kea, net, link)' /\ Numbered(link, number)'
    BY <1>1, <1>2, <1>4 DEF SteadyIn, Numbered, Live
  <2> QED
    BY <1>1, <1>3, <2>1 DEF WorldOK
<1>6. ASSUME NEW q \in Owners, NEW c \in 0..number, Behind(q, c, steady', link')
      PROVE  q # o /\ Behind(q, c, steady, link)
  BY <1>1, <1>6 DEF Behind
<1> QED
  BY <1>5, <1>6 DEF CatchesUp

\* What the claim of a worker that claims stands on.
LEMMA OfClaim ==
    ASSUME IInv, NEW a \in Actors, Claiming(a)
    PROVE  /\ WorldOK /\ Owner(a) \in Owners /\ number \in Nat
           /\ actor[a].report[Source(a)] \in Reports /\ actor[a].report[Source(a)].kind # "absent"
           /\ Source(a) \in actor[a].fresh => kea[Owner(a)].kind # "absent"
<1>1. WorldOK /\ actor[a] \in Local /\ actor[a].pc = "claim" /\ InWorld(actor[a], kea, number, steady, link)
      /\ Source(a) \in Sources /\ Owner(a) \in Owners /\ Owner(a) = <<actor[a].order.server, Source(a)>>
      /\ actor[a].report[Source(a)].kind # "absent"
  BY OfActor DEF Claiming, Claims
<1>2. actor[a].report[Source(a)] \in Reports /\ number \in Nat
  BY <1>1 DEF Local, WorldOK
<1> QED
  BY <1>1, <1>2 DEF InWorld

LEMMA MarkerKinds == \A sources : MarkerKind(sources) \in Kinds
BY DEF MarkerKind, Kinds

LEMMA NumberedNoLinks == Numbered(NoLinks, number)
BY NoLinksTyped DEF Numbered

\* The counts of jobs keep their bounds when a worker changes the object.
LEMMA RecountedTyped == ASSUME WorldOK, NEW a PROVE Recounted(a) \in [Servers -> 0..2]
BY DEF WorldOK, Recounted

LEMMA ClaimNewWorld == ASSUME IInv, NEW a \in Actors, ClaimNew(a) PROVE WorldOK' /\ CatchesUp(Owner(a))
<1> DEFINE o == Owner(a)  report == actor[a].report[Source(a)]
<1>1. /\ WorldOK /\ o \in Owners /\ number \in Nat /\ report \in Reports /\ report.kind # "absent"
      /\ (Source(a) \in actor[a].fresh => kea[o].kind # "absent")
      /\ net = None /\ UNCHANGED <<kea, referred, barrier>> /\ rounds' \in [Servers -> 0..2]
  BY OfClaim, RecountedTyped DEF ClaimNew, EndClaim
<1>2. \A q \in Owners : ~steady[q]
  BY <1>1 DEF WorldOK, SteadyIn
<1>3. CASE report.kind = "clash"
  <2>1. UNCHANGED <<net, link, number, steady>>
    BY <1>3 DEF ClaimNew
  <2>2. CatchesUp(o)
    BY <1>2, <2>1 DEF CatchesUp, Behind
  <2> QED
    BY <1>1, <2>1, <2>2 DEF WorldOK, Numbered, SteadyIn
<1>4. CASE report.kind # "clash"
  <2>1. /\ net' = [status |-> "active", kind |-> MarkerKind({Source(a)}), marked |-> TRUE, room |-> 2]
        /\ link' = Confirm(NoLinks, o, report.length, None, FALSE) /\ number' = number + 1
        /\ steady' = [steady EXCEPT ![o] = Source(a) \in actor[a].fresh]
    BY <1>4 DEF ClaimNew, Applied
  <2>2. net' \in Net /\ net'.marked /\ net'.status = "active"
    BY <2>1, MarkerKinds DEF Net
  <2>3. report.length \in Lengths /\ report.length # None
    BY <1>1, <1>4, ReportFacts
  <2>4. steady' \in [Owners -> BOOLEAN] /\ (\A q \in Owners \ {o} : steady'[q] => steady[q])
        /\ (steady'[o] => kea[o].kind # "absent")
    <3>1. steady \in [Owners -> BOOLEAN]
      BY <1>1 DEF WorldOK
    <3>2. steady' = [steady EXCEPT ![o] = Source(a) \in actor[a].fresh]
      BY <2>1
    <3>3. o \in Owners /\ (Source(a) \in actor[a].fresh => kea[o].kind # "absent")
      BY <1>1
    <3> DEFINE fresh == Source(a) \in actor[a].fresh
    <3>4. fresh \in BOOLEAN /\ steady' = [steady EXCEPT ![o] = fresh] /\ (fresh => kea[o].kind # "absent")
      BY <3>2, <3>3
    <3> HIDE DEF o, report, fresh
    <3>5. steady' \in [Owners -> BOOLEAN] /\ steady'[o] = fresh
      BY <3>1, <3>3, <3>4
    <3>6. \A q \in Owners \ {o} : steady'[q] = steady[q]
      BY <3>1, <3>3, <3>4
    <3> QED
      BY <3>4, <3>5, <3>6
  <2> HIDE DEF o, report
  <2>5. UNCHANGED <<kea, referred, barrier>> /\ rounds' \in [Servers -> 0..2] /\ (\A q \in Owners \ {o} : steady[q] => NoLinks[q] = link[q])
    BY <1>1, <1>2
  <2>6. FALSE \in BOOLEAN /\ None \in Nat \union {None} /\ report.length \in Lengths \union {None}
    BY <2>3
  <2> QED
    BY <1>1, <2>1, <2>2, <2>3, <2>4, <2>5, <2>6, NoLinksTyped, NumberedNoLinks, ConfirmedWorld DEF o
<1> QED
  BY <1>3, <1>4

LEMMA ClaimReleasedWorld == ASSUME IInv, NEW a \in Actors, ClaimReleased(a) PROVE WorldOK' /\ CatchesUp(Owner(a))
<1>1. /\ WorldOK /\ net # None /\ ~net.marked /\ link' = NoLinks
      /\ UNCHANGED <<kea, net, number, referred, barrier, steady>> /\ rounds' \in [Servers -> 0..2]
  BY OfActor, RecountedTyped DEF ClaimReleased, EndClaim, IInv
<1>2. \A q \in Owners : ~steady[q]
  BY <1>1 DEF WorldOK, SteadyIn
<1>3. SteadyIn(steady, kea, net, link)' /\ Numbered(link, number)' /\ link' \in Links /\ (\A o \in Owners : link'[o] = None)
  BY <1>1, <1>2, NoLinksTyped DEF SteadyIn, Numbered
<1>4. WorldOK'
  BY <1>1, <1>3 DEF WorldOK
<1>5. CatchesUp(Owner(a))
  BY <1>1, <1>2 DEF CatchesUp, Behind
<1> QED
  BY <1>4, <1>5

\* What a claim of an object that the plugin owns, or takes by force, does to its links.
LEMMA OwnedCases ==
    ASSUME NEW a \in Actors, ClaimOwned(a)
    PROVE  LET report == actor[a].report[Source(a)]
               o == Owner(a)
               own == Base[o]
               oldMark == IF own = None THEN None ELSE own.mark
               kept == WithoutSuperseded(Base, o)
               kind == MarkerKind(LiveSources([kept EXCEPT ![o] = None]) \union {o[2]})
           IN  /\ Claiming(a) /\ net # None /\ number' = number + 1
               /\ UNCHANGED <<kea, referred, barrier>> /\ rounds' = Recounted(a)
               /\ \/ /\ report.kind = "clash" /\ UNCHANGED <<net, steady>>
                     /\ link' = Confirm(kept, o, IF own = None THEN None ELSE own.length, oldMark, WasAdopted)
                  \/ /\ report.kind = "length" /\ UNCHANGED <<net, steady>>
                     /\ Disagrees(o, report.length, kept) \/ ~Fits(kind)
                     /\ link' = Confirm(kept, o, report.length, oldMark, WasAdopted)
                  \/ /\ report.kind = "length" /\ ~Disagrees(o, report.length, kept)
                     /\ link' = Confirm(kept, o, report.length, None, WasAdopted)
                     /\ net' = [net EXCEPT !.status = "active", !.kind = kind, !.marked = TRUE]
                     /\ steady' = [steady EXCEPT ![o] = Source(a) \in actor[a].fresh]
BY DEF ClaimOwned, EndClaim, Applied

\* The links that the claim acts on are the links of a marked object, and none without the marker.
LEMMA BaseFacts ==
    ASSUME WorldOK, net # None
    PROVE  /\ Base \in Links /\ Numbered(Base, number) /\ net \in Net /\ net.marked \in BOOLEAN
           /\ \A q \in Owners : steady[q] => net.marked /\ net.status = "active" /\ Base[q] = link[q] /\ Live(link[q])
           /\ WasAdopted \in BOOLEAN
<1>1. net \in Net /\ net.marked \in BOOLEAN
  BY DEF WorldOK, Net
<1>2. \A q \in Owners : steady[q] => net.marked /\ net.status = "active" /\ Live(link[q])
  BY DEF WorldOK, SteadyIn
<1>3. Base = IF net.marked THEN link ELSE NoLinks
  BY DEF Base
<1>4. Base \in Links /\ Numbered(Base, number)
  BY <1>1, <1>3, NoLinksTyped, NumberedNoLinks DEF WorldOK
<1>5. WasAdopted \in BOOLEAN
  BY DEF WasAdopted
<1> QED
  BY <1>1, <1>2, <1>3, <1>4, <1>5

LEMMA ClaimOwnedWorld == ASSUME IInv, NEW a \in Actors, ClaimOwned(a) PROVE WorldOK' /\ CatchesUp(Owner(a))
<1> DEFINE report == actor[a].report[Source(a)]
           o == Owner(a)
           own == Base[o]
           oldMark == IF own = None THEN None ELSE own.mark
           ownLength == IF own = None THEN None ELSE own.length
           kept == WithoutSuperseded(Base, o)
           kind == MarkerKind(LiveSources([kept EXCEPT ![o] = None]) \union {o[2]})
<1>1. /\ WorldOK /\ o \in Owners /\ number \in Nat /\ report \in Reports
      /\ (Source(a) \in actor[a].fresh => kea[o].kind # "absent")
      /\ net # None /\ number' = number + 1 /\ UNCHANGED <<kea, referred, barrier>> /\ rounds' \in [Servers -> 0..2]
  BY OfClaim, OwnedCases, RecountedTyped
<1>2. /\ \/ UNCHANGED <<net, steady>> /\ link' = Confirm(kept, o, ownLength, oldMark, WasAdopted)
         \/ /\ report.kind = "length" /\ UNCHANGED <<net, steady>>
            /\ link' = Confirm(kept, o, report.length, oldMark, WasAdopted)
         \/ /\ report.kind = "length"
            /\ link' = Confirm(kept, o, report.length, None, WasAdopted)
            /\ net' = [net EXCEPT !.status = "active", !.kind = kind, !.marked = TRUE]
            /\ steady' = [steady EXCEPT ![o] = Source(a) \in actor[a].fresh]
  BY OwnedCases
<1>3. /\ Base \in Links /\ Numbered(Base, number) /\ net \in Net
      /\ \A q \in Owners : steady[q] => net.marked /\ net.status = "active" /\ Base[q] = link[q] /\ Live(link[q])
      /\ WasAdopted \in BOOLEAN
  BY <1>1, BaseFacts
<1>4. /\ oldMark \in Nat \union {None} /\ (oldMark # None => oldMark <= number) /\ ownLength \in Lengths \union {None}
      /\ (steady[o] => oldMark = None /\ ownLength # None)
  <2>1. own \in Link \union {None}
    BY <1>1, <1>3 DEF Links
  <2>2. own # None /\ own.mark # None => own.mark <= number
    BY <1>1, <1>3 DEF Numbered
  <2>3. steady[o] => own # None /\ own.mark = None /\ own.length # None
    BY <1>1, <1>3 DEF Live
  <2> HIDE DEF own
  <2> QED
    BY <2>1, <2>2, <2>3, LinkFacts
<1>5. /\ kept \in Links /\ Numbered(kept, number) /\ \A q \in Owners : steady[q] => kept[q] = link[q]
  <2> HIDE DEF o
  <2>1. kept \in Links /\ \A q \in Owners : kept[q] = Base[q] \/ kept[q] = None
    BY <1>1, <1>3, SupersededFacts
  <2>2. \A q \in Owners : Live(Base[q]) => kept[q] = Base[q]
    BY <1>1, <1>3, SupersededFacts
  <2> HIDE DEF kept
  <2>3. Numbered(kept, number)
    BY <1>3, <2>1 DEF Numbered
  <2>4. \A q \in Owners : steady[q] => kept[q] = link[q]
    BY <1>3, <2>2
  <2> QED
    BY <2>1, <2>3, <2>4
<1>6. report.kind = "length" => report.length \in Lengths /\ report.length # None
  BY <1>1, ReportFacts
<1> HIDE DEF report, o, own, oldMark, ownLength, kept
<1>7. steady \in [Owners -> BOOLEAN] /\ (steady[o] => kea[o].kind # "absent")
  BY <1>1 DEF WorldOK, SteadyIn
<1>8. CASE UNCHANGED <<net, steady>> /\ link' = Confirm(kept, o, ownLength, oldMark, WasAdopted)
  <2>1. net' \in Net /\ (\A q \in Owners : steady'[q] => net'.marked /\ net'.status = "active")
        /\ steady' = steady /\ UNCHANGED <<kea, referred, barrier>> /\ rounds' \in [Servers -> 0..2]
    BY <1>1, <1>3, <1>8
  <2> QED
    BY <1>1, <1>3, <1>4, <1>5, <1>7, <1>8, <2>1, ConfirmedWorld DEF o
<1>9. CASE report.kind = "length" /\ UNCHANGED <<net, steady>>
           /\ link' = Confirm(kept, o, report.length, oldMark, WasAdopted)
  <2>1. net' \in Net /\ (\A q \in Owners : steady'[q] => net'.marked /\ net'.status = "active")
        /\ steady' = steady /\ UNCHANGED <<kea, referred, barrier>> /\ rounds' \in [Servers -> 0..2] /\ report.length \in Lengths \union {None}
    BY <1>1, <1>3, <1>6, <1>9
  <2> QED
    BY <1>1, <1>3, <1>4, <1>5, <1>6, <1>7, <1>9, <2>1, ConfirmedWorld DEF o
<1>10. CASE /\ report.kind = "length"
            /\ link' = Confirm(kept, o, report.length, None, WasAdopted)
            /\ net' = [net EXCEPT !.status = "active", !.kind = kind, !.marked = TRUE]
            /\ steady' = [steady EXCEPT ![o] = Source(a) \in actor[a].fresh]
  <2>1. net' \in Net /\ net'.marked /\ net'.status = "active"
    <3>1. kind \in Kinds
      BY MarkerKinds
    <3> HIDE DEF kind
    <3> QED
      BY <1>3, <1>10, <3>1 DEF Net
  <2>2. UNCHANGED <<kea, referred, barrier>> /\ rounds' \in [Servers -> 0..2] /\ report.length \in Lengths \union {None}
    BY <1>1, <1>6, <1>10
  <2>3. steady' \in [Owners -> BOOLEAN] /\ (\A q \in Owners \ {o} : steady'[q] => steady[q])
        /\ (steady'[o] => kea[o].kind # "absent")
    BY <1>1, <1>7, <1>10
  <2>4. None \in Nat \union {None}
    OBVIOUS
  <2> QED
    BY <1>1, <1>3, <1>5, <1>6, <1>10, <2>1, <2>2, <2>3, <2>4, ConfirmedWorld DEF o
<1> QED
  BY <1>2, <1>8, <1>9, <1>10

LEMMA ClaimsKeep == ASSUME IInv, NEW a \in Actors, ClaimNew(a) \/ ClaimReleased(a) \/ ClaimOwned(a) PROVE IInv'
<1>1. WorldOK' /\ CatchesUp(Owner(a))
  BY ClaimNewWorld, ClaimReleasedWorld, ClaimOwnedWorld
<1>2. /\ WorldOK /\ ActorsOK /\ actor[a] \in Local /\ Typed(actor[a]) /\ InWorld(actor[a], kea, number, steady, link)
      /\ actor[a].pc = "claim" /\ Works(actor[a]) /\ Source(a) \in Sources
      /\ Owner(a) = <<actor[a].order.server, Source(a)>> /\ Source(a) = actor[a].order.plan[actor[a].phase]
      /\ Owner(a) \in Owners
  BY OfActor DEF ClaimNew, ClaimReleased, ClaimOwned, Claiming
<1>3. /\ kea' = kea /\ number \in Nat /\ number' \in Nat /\ number <= number'
      /\ actor' = [actor EXCEPT ![a] = AfterClaim(actor[a])]
  <2>1. number' = number \/ number' = number + 1
    <3>1. CASE ClaimNew(a)
      BY <3>1 DEF ClaimNew
    <3>2. CASE ClaimReleased(a)
      BY <3>2 DEF ClaimReleased
    <3>3. CASE ClaimOwned(a)
      BY <3>3, OwnedCases
    <3> QED
      BY <3>1, <3>2, <3>3
  <2>2. EndClaim(a) /\ number \in Nat
    BY <1>2 DEF ClaimNew, ClaimReleased, ClaimOwned, WorldOK
  <2>3. kea' = kea /\ actor' = [actor EXCEPT ![a] = AfterClaim(actor[a])]
    BY <2>2 DEF EndClaim, Set
  <2> QED
    BY <2>1, <2>2, <2>3
<1>4. \A q \in Owners, c \in 0..number : Behind(q, c, steady', link') => Behind(q, c, steady, link)
  BY <1>1 DEF CatchesUp
<1>5. InWorld(actor[a], kea, number', steady', link')
  BY <1>2, <1>3, <1>4, WorldMoves
<1>6. ~Behind(Owner(a), actor[a].cutoff[Source(a)], steady', link')
  <2>1. actor[a].cutoff[Source(a)] \in 0..number
    <3>1. number \in Nat /\ Source(a) \in Sources
      BY <1>2 DEF WorldOK
    <3>2. actor[a].cutoff[Source(a)] \in Nat
      BY <1>2, <3>1 DEF Local
    <3>3. actor[a].cutoff[Source(a)] <= number
      BY <1>2, <3>1 DEF InWorld
    <3> QED
      BY <3>1, <3>2, <3>3
  <2> QED
    BY <1>1, <1>2, <2>1 DEF CatchesUp
<1>7. Typed(AfterClaim(actor[a])) /\ InWorld(AfterClaim(actor[a]), kea, number', steady', link')
  BY <1>2, <1>3, <1>5, <1>6, AfterClaimKeeps
<1>8. ActorsOK'
  BY <1>2, <1>3, <1>4, <1>7, ActorMoves
<1> QED
  BY <1>1, <1>8 DEF IInv

------------------------------------------------------------------------------
(* The cleanups.                                                           *)

\* Where a worker goes after the cleanup of a phase.
AfterCleanup(me) == IF me.phase = Len(me.order.plan) THEN Idle ELSE [me EXCEPT !.phase = @ + 1, !.pc = "choose"]

LEMMA AfterCleanupKeeps ==
    ASSUME IInv, NEW a \in Actors, actor[a].pc \in {"choose", "clean"}
    PROVE  Typed(AfterCleanup(actor[a])) /\ InWorld(AfterCleanup(actor[a]), kea, number, steady, link)
<1> DEFINE me == actor[a]  further == [me EXCEPT !.phase = @ + 1, !.pc = "choose"]
<1>1. /\ me \in Local /\ Works(me) /\ InWorld(me, kea, number, steady, link) /\ number \in Nat
      /\ me.phase \in 1..Len(me.order.plan) /\ me.order \in Orders
  BY OfActor DEF Works, WorldOK
<1>2. Len(me.order.plan) \in Nat /\ me.phase \in Nat /\ me.phase + 1 \in Nat \ {0}
  <2>1. me.phase \in Nat \ {0}
    BY <1>1 DEF Local
  <2> QED
    BY <1>1, <2>1, OrderFacts
<1> HIDE DEF me
<1>3. /\ further \in Local /\ further.pc = "choose" /\ further.order = me.order /\ further.phase = me.phase + 1
      /\ further.cutoff = me.cutoff /\ further.whole = me.whole /\ further.report = me.report /\ further.fresh = me.fresh
  BY <1>1, <1>2 DEF Local, Places
<1>4. me.pc \in {"choose", "clean"}
  BY DEF me
<1> HIDE DEF further
<1>5. me.phase # Len(me.order.plan) => Typed(further)
  BY <1>1, <1>2, <1>3 DEF Typed, Works
<1>6. InWorld(further, kea, number, steady, link)
  BY <1>1, <1>3, <1>4 DEF InWorld, Unclaimed
<1>7. AfterCleanup(me) = IF me.phase = Len(me.order.plan) THEN Idle ELSE further
  BY DEF AfterCleanup, further
<1>8. Typed(AfterCleanup(me)) /\ InWorld(AfterCleanup(me), kea, number, steady, link)
  BY <1>1, <1>5, <1>6, <1>7, IdleGood
<1> QED
  BY <1>8 DEF me

LEMMA NextCleanupMoves ==
    ASSUME IInv, NEW a \in Actors, actor[a].pc \in {"choose", "clean"}, NextCleanup(a)
    PROVE  actor' = [actor EXCEPT ![a] = AfterCleanup(actor[a])] /\ rounds' \in [Servers -> 0..2]
<1>1. rounds \in [Servers -> 0..2] /\ actor[a].order.server \in Servers
  BY OfActor, OrderFacts DEF WorldOK
<1>2. actor' = [actor EXCEPT ![a] = AfterCleanup(actor[a])]
  BY DEF NextCleanup, Set, AfterCleanup
<1> DEFINE s0 == actor[a].order.server
           again == Recounted(a)
<1>3. rounds' = again \/ (Counts(a) /\ rounds' = [again EXCEPT ![s0] = @ + 1])
  BY DEF NextCleanup
<1>4. again \in [Servers -> 0..2] /\ s0 \in Servers
  BY <1>1, OfActor, RecountedTyped
<1>5. Counts(a) => again[s0] + 1 \in 0..2
  <2>1. Counts(a) => again[s0] = rounds[s0] /\ rounds[s0] < 2
    BY <1>1 DEF Counts, Recounted
  <2> QED
    BY <1>1, <2>1
<1> HIDE DEF s0, again
<1>6. rounds' \in [Servers -> 0..2]
  BY <1>3, <1>4, <1>5
<1> QED
  BY <1>2, <1>6

LEMMA ChooseKeeps == ASSUME IInv, NEW a \in Actors, ChooseStale(a) PROVE IInv'
<1>1. /\ WorldOK /\ ActorsOK /\ actor[a] \in Local /\ Works(actor[a]) /\ InWorld(actor[a], kea, number, steady, link)
      /\ actor[a].pc = "choose" /\ UNCHANGED <<kea, net, link, number, referred, barrier, budget, steady>>
      /\ Source(a) = actor[a].order.plan[actor[a].phase]
  BY OfActor DEF ChooseStale
<1>2. CASE Source(a) \in actor[a].whole /\ Candidate(a)
  <2> DEFINE new == [actor[a] EXCEPT !.pc = "clean"]
  <2>1. actor' = [actor EXCEPT ![a] = new] /\ rounds' = rounds
    BY <1>2 DEF ChooseStale, Set
  <2>2. /\ new \in Local /\ new.pc = "clean" /\ new.order = actor[a].order /\ new.phase = actor[a].phase
        /\ new.cutoff = actor[a].cutoff /\ new.whole = actor[a].whole /\ new.report = actor[a].report
        /\ new.fresh = actor[a].fresh
    BY <1>1 DEF Local, Places
  <2> HIDE DEF new
  <2>3. Typed(new)
    BY <1>1, <1>2, <2>2 DEF Typed, Works
  <2>4. InWorld(new, kea, number, steady, link)
    BY <1>1, <2>2 DEF InWorld, Unclaimed
  <2>5. ActorsOK'
    BY <1>1, <2>1, <2>3, <2>4, SameMoves DEF Same
  <2>6. rounds' \in [Servers -> 0..2]
    BY <1>1, <2>1 DEF WorldOK
  <2> QED
    BY <1>1, <2>5, <2>6, WorldStays DEF IInv
<1>3. CASE ~(Source(a) \in actor[a].whole /\ Candidate(a))
  <2>1. NextCleanup(a)
    BY <1>3 DEF ChooseStale
  <2>2. actor' = [actor EXCEPT ![a] = AfterCleanup(actor[a])] /\ rounds' \in [Servers -> 0..2]
    BY <1>1, <2>1, NextCleanupMoves
  <2>3. Typed(AfterCleanup(actor[a])) /\ InWorld(AfterCleanup(actor[a]), kea, number, steady, link)
    BY <1>1, AfterCleanupKeeps
  <2>4. ActorsOK'
    BY <1>1, <2>2, <2>3, SameMoves DEF Same
  <2> QED
    BY <1>1, <2>2, <2>4, WorldStays DEF IInv
<1> QED
  BY <1>2, <1>3

LEMMA CleanFailsKeeps == ASSUME IInv, NEW a \in Actors, CleanFails(a) PROVE IInv'
<1>1. /\ WorldOK /\ ActorsOK /\ actor[a].pc = "clean" /\ UNCHANGED <<kea, net, link, number, referred, barrier, steady>>
      /\ rounds' = [s \in Servers |-> 0]
  BY OfActor DEF CleanFails, Disturbed
<1>2. actor' = Quieted([actor EXCEPT ![a] = AfterCleanup(actor[a])])
  BY DEF CleanFails, AfterCleanup
<1>3. Typed(AfterCleanup(actor[a])) /\ InWorld(AfterCleanup(actor[a]), kea, number, steady, link)
  BY <1>1, AfterCleanupKeeps
<1>4. ActorsOK'
  BY <1>1, <1>2, <1>3, SameMoves DEF Same
<1>5. rounds' \in [Servers -> 0..2]
  BY <1>1, RestartTyped
<1> QED
  BY <1>1, <1>4, <1>5, WorldStays DEF IInv

\* What the cleanup of owner o can decide.
CleansTo(o, cutoff, object, ls) ==
    LET rest == [link EXCEPT ![o] = None]
        live == LiveSources(rest)
    IN  \/ ~net.marked /\ object = net /\ ls = NoLinks
        \/ net.marked /\ object = net /\ ls = link
        \/ /\ net.marked /\ Linked(rest) # {} /\ ls = rest
           /\ \/ live = {} /\ object = net
              \/ live # {} /\ object = [net EXCEPT !.status = "active", !.kind = MarkerKind(live)]
        \/ /\ net.marked /\ Linked(rest) = {}
           /\ \/ object = net /\ ls = rest
              \/ object = [net EXCEPT !.status = "deprecated"] /\ ls = [link EXCEPT ![o].mark = cutoff]

LEMMA CleanCases ==
    ASSUME NEW o \in Owners, NEW cutoff, net.marked \in BOOLEAN
    PROVE  CleansTo(o, cutoff, Clean(o, cutoff).net, Clean(o, cutoff).link)
<1> DEFINE rest == [link EXCEPT ![o] = None]  live == LiveSources(rest)
<1>5. ASSUME NEW object, NEW ls,
             \/ net.marked /\ object = net /\ ls = link
             \/ net.marked /\ Linked(rest) # {} /\ ls = rest /\ live = {} /\ object = net
             \/ /\ net.marked /\ Linked(rest) # {} /\ ls = rest
                /\ live # {} /\ object = [net EXCEPT !.status = "active", !.kind = MarkerKind(live)]
             \/ net.marked /\ Linked(rest) = {} /\ object = net /\ ls = rest
             \/ /\ net.marked /\ Linked(rest) = {}
                /\ object = [net EXCEPT !.status = "deprecated"] /\ ls = [link EXCEPT ![o].mark = cutoff]
      PROVE  CleansTo(o, cutoff, object, ls)
  BY <1>5 DEF CleansTo
<1> HIDE DEF rest, live
<1>1. CASE ~net.marked
  BY <1>1 DEF Clean, CleansTo
<1>2. CASE net.marked /\ MarkedAndUnconfirmed(link[o])
  BY <1>2 DEF Clean, CleansTo
<1>3. CASE net.marked /\ ~MarkedAndUnconfirmed(link[o]) /\ Linked(rest) # {}
  <2>1. Clean(o, cutoff) = IF live = {} THEN [net |-> net, link |-> rest]
                           ELSE IF ~Fits(MarkerKind(live)) THEN [net |-> net, link |-> link]
                           ELSE [net |-> Remark(live), link |-> rest]
    BY <1>3 DEF Clean, rest, live
  <2> DEFINE new == Clean(o, cutoff).net  ls == Clean(o, cutoff).link
  <2>3. \/ new = net /\ ls = rest /\ live = {}
        \/ new = net /\ ls = link
        \/ new = Remark(live) /\ ls = rest /\ live # {}
    BY <2>1
  <2> HIDE DEF new, ls
  <2>4. CleansTo(o, cutoff, new, ls)
    BY <1>3, <1>5, <2>3 DEF Remark
  <2> QED
    BY <2>4 DEF new, ls
<1>4. CASE net.marked /\ ~MarkedAndUnconfirmed(link[o]) /\ Linked(rest) = {}
  <2>1. Clean(o, cutoff) =
               IF link[o].adopted /\ barrier THEN [net |-> net, link |-> link]
               ELSE IF o[1] \notin Deprecating \/ Refers THEN [net |-> net, link |-> rest]
               ELSE [net |-> [net EXCEPT !.status = "deprecated"], link |-> [link EXCEPT ![o].mark = cutoff]]
    BY <1>4 DEF Clean, rest
  <2> DEFINE new == Clean(o, cutoff).net  ls == Clean(o, cutoff).link
  <2>2. \/ new = net /\ ls = rest
        \/ new = net /\ ls = link
        \/ new = [net EXCEPT !.status = "deprecated"] /\ ls = [link EXCEPT ![o].mark = cutoff]
    BY <2>1
  <2> HIDE DEF new, ls
  <2>3. CleansTo(o, cutoff, new, ls)
    BY <1>4, <1>5, <2>2
  <2> QED
    BY <2>3 DEF new, ls
<1> QED
  BY <1>1, <1>2, <1>3, <1>4

\* A cleanup leaves the links of the owners that Kea reports without a gap.
LEMMA CleanWorld ==
    ASSUME WorldOK, NEW o \in Owners, NEW cutoff \in Nat, cutoff <= number, net # None, link[o] # None, ~steady[o],
           NEW object, NEW ls, CleansTo(o, cutoff, object, ls)
    PROVE  /\ object \in Net /\ ls \in Links /\ Numbered(ls, number) /\ SteadyIn(steady, kea, object, ls)
           /\ \A q \in Owners : steady[q] => ls[q] = link[q]
<1> DEFINE rest == [link EXCEPT ![o] = None]  live == LiveSources(rest)
<1>1. /\ net \in Net /\ link \in Links /\ number \in Nat /\ net # None /\ None \notin Net
      /\ net.status \in {"active", "deprecated"} /\ net.marked \in BOOLEAN
      /\ Numbered(link, number) /\ SteadyIn(steady, kea, net, link)
  BY NetworkAssumption DEF WorldOK, Net
<1>2. rest \in Links /\ rest[o] = None /\ \A q \in Owners \ {o} : rest[q] = link[q]
  BY <1>1 DEF Links
<1>3. Numbered(rest, number) /\ \A q \in Owners : steady[q] => rest[q] = link[q]
  <2>1. \A q \in Owners : rest[q] = None \/ rest[q] = link[q]
    BY <1>2
  <2> HIDE DEF rest
  <2>2. Numbered(rest, number)
    BY <1>1, <2>1 DEF Numbered
  <2> QED
    BY <1>2, <2>2
<1>4. \A q \in Owners : steady[q] => net.marked /\ net.status = "active" /\ Live(link[q]) /\ q \in Linked(rest)
  <2>1. \A q \in Owners : steady[q] => net.marked /\ net.status = "active" /\ Live(link[q])
    BY <1>1 DEF SteadyIn
  <2>2. \A q \in Owners : steady[q] => q \in Linked(rest)
    BY <1>3, <2>1 DEF Live, Linked
  <2> QED
    BY <2>1, <2>2
<1>5. CleansTo(o, cutoff, object, ls) =
        (\/ ~net.marked /\ object = net /\ ls = NoLinks
         \/ net.marked /\ object = net /\ ls = link
         \/ /\ net.marked /\ Linked(rest) # {} /\ ls = rest
            /\ \/ live = {} /\ object = net
               \/ live # {} /\ object = [net EXCEPT !.status = "active", !.kind = MarkerKind(live)]
         \/ /\ net.marked /\ Linked(rest) = {}
            /\ \/ object = net /\ ls = rest
               \/ object = [net EXCEPT !.status = "deprecated"] /\ ls = [link EXCEPT ![o].mark = cutoff])
  BY DEF CleansTo
<1> HIDE DEF rest, live
<1>6. CASE ~net.marked /\ object = net /\ ls = NoLinks
  BY <1>1, <1>4, <1>6, NoLinksTyped, NumberedNoLinks DEF SteadyIn
<1>7. CASE net.marked /\ object = net /\ ls = link
  BY <1>1, <1>7
<1>8. CASE net.marked /\ object = net /\ ls = rest
  BY <1>1, <1>2, <1>3, <1>4, <1>8 DEF SteadyIn
<1>9. CASE net.marked /\ ls = rest /\ object = [net EXCEPT !.status = "active", !.kind = MarkerKind(live)]
  <2>1. object \in Net /\ object.marked /\ object.status = "active" /\ object # None
    <3>1. MarkerKind(live) \in Kinds
      BY MarkerKinds
    <3> QED
      BY <1>1, <1>9, <3>1 DEF Net
  <2> QED
    BY <1>1, <1>2, <1>3, <1>4, <1>9, <2>1 DEF SteadyIn
<1>10. CASE net.marked /\ Linked(rest) = {} /\ object = [net EXCEPT !.status = "deprecated"]
            /\ ls = [link EXCEPT ![o].mark = cutoff]
  <2>1. object \in Net /\ \A q \in Owners : ~steady[q]
    BY <1>1, <1>4, <1>10 DEF Net
  <2> DEFINE own == [link[o] EXCEPT !.mark = cutoff]
  <2>2. link[o] \in Link /\ link[o].n <= number
    BY <1>1 DEF Links, Numbered
  <2>3. own \in Link /\ own.n = link[o].n /\ own.mark = cutoff
    BY <2>2 DEF Link
  <2>4. ls = [link EXCEPT ![o] = own]
    BY <1>10
  <2> HIDE DEF own
  <2>5. ls \in Links /\ ls[o] = own /\ \A q \in Owners \ {o} : ls[q] = link[q]
    BY <1>1, <2>3, <2>4 DEF Links
  <2>6. Numbered(ls, number)
    BY <1>1, <2>2, <2>3, <2>5 DEF Numbered
  <2> QED
    BY <2>1, <2>5, <2>6 DEF SteadyIn
<1> QED
  BY <1>5, <1>6, <1>7, <1>8, <1>9, <1>10

LEMMA CleanOneKeeps == ASSUME IInv, NEW a \in Actors, CleanOne(a) PROVE IInv'
<1> DEFINE o == Owner(a)  c == actor[a].cutoff[Source(a)]  done == Clean(o, c)
<1>1. /\ WorldOK /\ ActorsOK /\ actor[a] \in Local /\ Works(actor[a]) /\ InWorld(actor[a], kea, number, steady, link)
      /\ actor[a].pc = "clean" /\ UNCHANGED <<kea, number, referred, barrier, budget, steady>>
      /\ Source(a) = actor[a].order.plan[actor[a].phase] /\ Source(a) \in Sources /\ NextCleanup(a)
      /\ o = <<actor[a].order.server, Source(a)>> /\ o \in Owners /\ number \in Nat
  BY OfActor DEF CleanOne, WorldOK
<1>2. actor' = [actor EXCEPT ![a] = AfterCleanup(actor[a])] /\ rounds' \in [Servers -> 0..2]
  BY <1>1, NextCleanupMoves
<1>3. Typed(AfterCleanup(actor[a])) /\ InWorld(AfterCleanup(actor[a]), kea, number, steady, link)
  BY <1>1, AfterCleanupKeeps
<1>4. c \in Nat /\ c <= number
  BY <1>1 DEF Local, InWorld
<1>5. steady[o] => ~(link[o].n < c)
  <2>1. ~Behind(o, c, steady, link)
    BY <1>1 DEF Works, InWorld, Unclaimed
  <2> QED
    BY <2>1 DEF Behind
<1>6. /\ net' \in Net \union {None} /\ link' \in Links /\ Numbered(link', number) /\ SteadyIn(steady, kea, net', link')
      /\ (\A q \in Owners : steady[q] => link'[q] = link[q])
      /\ (net' = None => \A q \in Owners : link'[q] = None)
  <2>1. CASE net # None /\ StillStale(link[o], c)
    <3>1. net' = done.net /\ link' = done.link
      BY <2>1 DEF CleanOne
    <3>2. net.marked \in BOOLEAN
      BY <1>1, <2>1 DEF WorldOK, Net
    <3>4. link[o] # None /\ ~steady[o]
      BY <1>5, <2>1 DEF StillStale
    <3>6. WorldOK /\ o \in Owners /\ net # None
      BY <1>1, <2>1
    <3> HIDE DEF o, c
    <3>3. CleansTo(o, c, done.net, done.link)
      BY <3>2, <3>6, CleanCases
    <3> HIDE DEF done
    <3>5. /\ done.net \in Net /\ done.link \in Links /\ Numbered(done.link, number)
             /\ SteadyIn(steady, kea, done.net, done.link)
          /\ \A q \in Owners : steady[q] => done.link[q] = link[q]
      BY <1>4, <3>3, <3>4, <3>6, CleanWorld
    <3> QED
      BY <3>1, <3>5, NetworkAssumption
  <2>2. CASE ~(net # None /\ StillStale(link[o], c))
    <3>1. net' = net /\ link' = link
      BY <2>2 DEF CleanOne
    <3> QED
      BY <1>1, <3>1 DEF WorldOK
  <2> QED
    BY <2>1, <2>2
<1>7. WorldOK'
  <2>1. number' = number /\ steady' = steady /\ kea' = kea
    BY <1>1
  <2>2. SteadyIn(steady, kea, net, link)' /\ Numbered(link, number)'
    BY <1>6, <2>1 DEF SteadyIn, Numbered
  <2> QED
    BY <1>1, <1>2, <1>6, <2>1, <2>2 DEF WorldOK
<1>8. \A q \in Owners, n \in 0..number : Behind(q, n, steady', link') => Behind(q, n, steady, link)
  BY <1>1, <1>6 DEF Behind
<1>9. InWorld(AfterCleanup(actor[a]), kea, number', steady', link')
  <2>1. number' = number
    BY <1>1
  <2> QED
    BY <1>1, <1>3, <1>8, <2>1, WorldMoves
<1>10. ActorsOK'
  <2>1. kea' = kea /\ number' \in Nat /\ number <= number'
    BY <1>1
  <2> QED
    BY <1>1, <1>2, <1>3, <1>8, <1>9, <2>1, ActorMoves
<1> QED
  BY <1>7, <1>10 DEF IInv

------------------------------------------------------------------------------
(* Kea and the operators.                                                  *)

LEMMA QuietedKeep ==
    ASSUME NEW local \in [Actors -> Local], \A b \in Actors : Typed(local[b]),
           NEW k, NEW m, NEW std, NEW ls, \A b \in Actors : InWorld(local[b], k, m, std, ls)
    PROVE  /\ Quieted(local) \in [Actors -> Local]
           /\ \A b \in Actors : Typed(Quieted(local)[b]) /\ InWorld(Quieted(local)[b], k, m, std, ls)
<1>1. ASSUME NEW b \in Actors PROVE Typed(Quieted(local)[b]) /\ InWorld(Quieted(local)[b], k, m, std, ls)
  <2> DEFINE l == local[b]  calm == [l EXCEPT !.quiet = FALSE]
  <2>1. Quieted(local)[b] = calm
    BY DEF Quieted
  <2>2. Typed(l) /\ InWorld(l, k, m, std, ls)
    OBVIOUS
  <2> HIDE DEF l
  <2>3. Typed(calm) /\ InWorld(calm, k, m, std, ls)
    BY <2>2, QuietMoves
  <2> QED
    BY <2>1, <2>3
<1>2. Quieted(local) \in [Actors -> Local]
  BY <1>1 DEF Typed, Quieted
<1> QED
  BY <1>1, <1>2

\* A report that goes takes the freshness of what the workers of the Server read.
LEMMA KeaMovesKeeps == ASSUME IInv, NEW move \in Moves, KeaMoves(move.owner, move.report) PROVE IInv'
<1> DEFINE o == move.owner  report == move.report
           local == [b \in Actors |-> IF report.kind = "absent" /\ actor[b].pc # "idle" /\ actor[b].order.server = o[1]
                                      THEN [actor[b] EXCEPT !.fresh = @ \ {o[2]}] ELSE actor[b]]
<1>1. o \in Owners /\ report \in Reports /\ o[2] \in Sources /\ o = <<o[1], o[2]>>
  <2>1. o \in Owners /\ report \in Reports
    BY NetworkAssumption
  <2> HIDE DEF o, report
  <2> QED
    BY <2>1, OwnerKinds
<1>2. /\ WorldOK /\ ActorsOK /\ UNCHANGED <<net, link, number, referred, barrier>>
      /\ kea' = [kea EXCEPT ![o] = report] /\ steady' = [steady EXCEPT ![o] = @ /\ report.kind # "absent"]
      /\ rounds' = [s \in Servers |-> 0] /\ actor' = Quieted(local)
  BY DEF KeaMoves, IInv
<1> HIDE DEF o, report, local
<1>3. /\ kea' \in [Owners -> Reports] /\ kea'[o] = report /\ \A q \in Owners \ {o} : kea'[q] = kea[q]
  BY <1>1, <1>2 DEF WorldOK
<1>4. /\ steady' \in [Owners -> BOOLEAN] /\ \A q \in Owners : steady'[q] => steady[q]
      /\ steady'[o] => report.kind # "absent"
  <2> DEFINE is == steady[o] /\ report.kind # "absent"
  <2>1. is \in BOOLEAN /\ steady' = [steady EXCEPT ![o] = is] /\ steady \in [Owners -> BOOLEAN]
    BY <1>2 DEF WorldOK
  <2>2. (is => steady[o]) /\ (is => report.kind # "absent")
    OBVIOUS
  <2> HIDE DEF is
  <2>3. steady'[o] = is /\ \A q \in Owners \ {o} : steady'[q] = steady[q]
    BY <1>1, <2>1
  <2>4. steady' \in [Owners -> BOOLEAN]
    BY <2>1
  <2> QED
    BY <2>2, <2>3, <2>4
<1>5. SteadyIn(steady', kea', net, link)
  BY <1>2, <1>3, <1>4 DEF WorldOK, SteadyIn
<1>6. WorldOK'
  <2>1. SteadyIn(steady, kea, net, link)' /\ Numbered(link, number)'
    BY <1>2, <1>5 DEF SteadyIn, WorldOK, Numbered, Live
  <2> QED
    BY <1>2, <1>3, <1>4, <2>1, RestartTyped DEF WorldOK
<1>7. ASSUME NEW b \in Actors PROVE Typed(local[b]) /\ InWorld(local[b], kea', number, steady', link)
  <2> DEFINE l == actor[b]  hit == report.kind = "absent" /\ l.pc # "idle" /\ l.order.server = o[1]
             fresh == IF hit THEN l.fresh \ {o[2]} ELSE l.fresh  new == [l EXCEPT !.fresh = fresh]
  <2>1. l \in Local /\ Typed(l) /\ InWorld(l, kea, number, steady, link)
    BY <1>2 DEF ActorsOK
  <2>2. local[b] = IF hit THEN [l EXCEPT !.fresh = @ \ {o[2]}] ELSE l
    BY DEF local
  <2>3. local[b] = new
    BY <2>1, <2>2 DEF Local
  <2> HIDE DEF l
  <2>4. /\ new \in Local /\ new.pc = l.pc /\ new.order = l.order /\ new.phase = l.phase /\ new.cutoff = l.cutoff
        /\ new.whole = l.whole /\ new.report = l.report /\ new.fresh = fresh
    BY <2>1 DEF Local
  <2> HIDE DEF new, fresh
  <2>5. Typed(new) /\ (l.pc # "idle" => l.order.server \in Servers)
    BY <2>1, <2>4, OrderFacts DEF Typed, Works
  <2>6. ASSUME l.pc # "idle", NEW s \in Sources
        PROVE  /\ s \in fresh /\ l.report[s].kind # "absent" => kea'[<<l.order.server, s>>].kind # "absent"
               /\ s \in l.whole /\ Behind(<<l.order.server, s>>, l.cutoff[s], steady', link) =>
                    l.report[s].kind # "absent" /\ Unclaimed(new, s)
    <3> DEFINE q == <<l.order.server, s>>
    <3>1. q \in Owners /\ (q = o <=> l.order.server = o[1] /\ s = o[2])
      BY <1>1, <2>5, <2>6 DEF Owners
    <3>2. /\ s \in l.fresh /\ l.report[s].kind # "absent" => kea[q].kind # "absent"
          /\ s \in l.whole /\ Behind(q, l.cutoff[s], steady, link) => l.report[s].kind # "absent" /\ Unclaimed(l, s)
      BY <2>1, <2>6 DEF InWorld
    <3>3. Unclaimed(l, s) => Unclaimed(new, s)
      BY <2>4 DEF Unclaimed
    <3>4. Behind(q, l.cutoff[s], steady', link) => Behind(q, l.cutoff[s], steady, link)
      BY <1>4, <3>1 DEF Behind
    <3>5. s \in fresh => s \in l.fresh /\ (q = o => report.kind # "absent")
      BY <2>6, <3>1 DEF fresh
    <3> HIDE DEF q
    <3>6. s \in fresh /\ l.report[s].kind # "absent" => kea'[q].kind # "absent"
      BY <1>3, <3>1, <3>2, <3>5
    <3> QED
      BY <3>2, <3>3, <3>4, <3>6 DEF q
  <2>7. InWorld(new, kea', number, steady', link)
    BY <2>1, <2>4, <2>6 DEF InWorld
  <2> QED
    BY <2>3, <2>5, <2>7
<1>8. ActorsOK'
  <2>1. local \in [Actors -> Local]
    BY <1>7 DEF Typed, local
  <2>2. /\ Quieted(local) \in [Actors -> Local]
        /\ \A b \in Actors : Typed(Quieted(local)[b]) /\ InWorld(Quieted(local)[b], kea', number, steady', link)
    BY <1>7, <2>1, QuietedKeep
  <2> QED
    BY <1>2, <2>2 DEF ActorsOK
<1> QED
  BY <1>6, <1>8 DEF IInv

\* An operator's edit leaves no owner behind.
LEMMA EditKeeps ==
    ASSUME IInv, actor' = Quieted(actor), UNCHANGED <<kea, number>>, rounds' = [s \in Servers |-> 0],
           net' \in Net \union {None}, link' \in Links, Numbered(link', number),
           net' = None => \A o \in Owners : link'[o] = None,
           referred' \in BOOLEAN, barrier' \in BOOLEAN, steady' \in [Owners -> BOOLEAN],
           \A o \in Owners : steady'[o] => steady[o] /\ link'[o] = link[o] /\ net' = net
    PROVE  IInv'
<1>1. WorldOK /\ ActorsOK /\ number \in Nat
  BY DEF IInv, WorldOK
<1>2. SteadyIn(steady', kea', net', link') /\ Numbered(link', number')
  BY <1>1 DEF SteadyIn, WorldOK
<1>3. WorldOK'
  <2>1. SteadyIn(steady, kea, net, link)' /\ Numbered(link, number)'
    BY <1>2 DEF SteadyIn, Numbered, Live
  <2> QED
    BY <1>1, <2>1, RestartTyped DEF WorldOK
<1>4. \A b \in Actors : Typed(actor[b]) /\ InWorld(actor[b], kea', number', steady', link')
  <2> SUFFICES ASSUME NEW b \in Actors PROVE Typed(actor[b]) /\ InWorld(actor[b], kea', number', steady', link')
    OBVIOUS
  <2>1. Typed(actor[b]) /\ InWorld(actor[b], kea, number, steady, link)
    BY <1>1 DEF ActorsOK
  <2>2. \A o \in Owners, c \in 0..number : Behind(o, c, steady', link') => Behind(o, c, steady, link)
    BY DEF Behind
  <2>3. kea' = kea /\ number' = number
    OBVIOUS
  <2> QED
    BY <1>1, <2>1, <2>2, <2>3, WorldMoves
<1>5. ActorsOK'
  <2>1. /\ Quieted(actor) \in [Actors -> Local]
        /\ \A b \in Actors : Typed(Quieted(actor)[b]) /\ InWorld(Quieted(actor)[b], kea', number', steady', link')
    BY <1>1, <1>4, QuietedKeep DEF ActorsOK
  <2> QED
    BY <2>1 DEF ActorsOK
<1> QED
  BY <1>3, <1>5 DEF IInv

LEMMA OperatorKeeps == ASSUME IInv, Operator PROVE IInv'
<1>1. WorldOK /\ net \in Net \union {None} /\ link \in Links /\ Numbered(link, number) /\ referred \in BOOLEAN
      /\ barrier \in BOOLEAN /\ steady \in [Owners -> BOOLEAN] /\ (net = None => \A o \in Owners : link[o] = None)
  BY DEF IInv, WorldOK
<1>2. [o \in Owners |-> FALSE] \in [Owners -> BOOLEAN] /\ \A o \in Owners : ~[q \in Owners |-> FALSE][o]
  OBVIOUS
<1>3. ASSUME NEW kind, NEW new \in Net, Rewrite(kind, new) PROVE IInv'
  <2>1. /\ actor' = Quieted(actor) /\ UNCHANGED <<kea, number>> /\ rounds' = [s \in Servers |-> 0]
        /\ net' = new /\ steady' = [o \in Owners |-> FALSE] /\ UNCHANGED <<link, referred, barrier>>
    BY <1>3 DEF Rewrite, Edit
  <2>2. new # None
    BY NetworkAssumption
  <2> QED
    BY <1>1, <1>2, <2>1, <2>2, EditKeeps
<1>4. CASE Create
  <2>1. PICK marked \in BOOLEAN, room \in 0..2 :
           Rewrite("create", [status |-> "active", kind |-> "subnet", marked |-> marked, room |-> room])
    BY <1>4 DEF Create
  <2>2. [status |-> "active", kind |-> "subnet", marked |-> marked, room |-> room] \in Net
    BY DEF Net, Kinds
  <2> QED
    BY <1>3, <2>1, <2>2
<1>5. CASE Release
  <2>1. net \in Net /\ [net EXCEPT !.marked = FALSE] \in Net
    BY <1>1, <1>5 DEF Release, Net
  <2> QED
    BY <1>3, <1>5, <2>1 DEF Release
<1>6. CASE MarkAgain
  <2>1. net \in Net /\ [net EXCEPT !.marked = TRUE] \in Net
    BY <1>1, <1>6 DEF MarkAgain, Net
  <2> QED
    BY <1>3, <1>6, <2>1 DEF MarkAgain
<1>7. CASE Delete
  <2>1. /\ actor' = Quieted(actor) /\ UNCHANGED <<kea, number>> /\ rounds' = [s \in Servers |-> 0]
        /\ net' = None /\ link' = NoLinks /\ steady' = [o \in Owners |-> FALSE] /\ UNCHANGED <<referred, barrier>>
    BY <1>7 DEF Delete, Edit
  <2> QED
    BY <1>1, <1>2, <2>1, NoLinksTyped, NumberedNoLinks, EditKeeps
<1>8. CASE Refer \/ FlipBarrier
  <2>1. /\ actor' = Quieted(actor) /\ UNCHANGED <<kea, number>> /\ rounds' = [s \in Servers |-> 0]
        /\ UNCHANGED <<net, link, steady>>
    BY <1>8 DEF Refer, FlipBarrier, Edit
  <2>2. referred' \in BOOLEAN /\ barrier' \in BOOLEAN
    BY <1>1, <1>8 DEF Refer, FlipBarrier
  <2> QED
    BY <1>1, <2>1, <2>2, EditKeeps
<1>9. ASSUME NEW s \in Servers, DropServer(s) PROVE IInv'
  <2>1. /\ actor' = Quieted(actor) /\ UNCHANGED <<kea, number>> /\ rounds' = [t \in Servers |-> 0]
        /\ link' = [o \in Owners |-> IF o[1] = s THEN None ELSE link[o]]
        /\ steady' = [o \in Owners |-> steady[o] /\ o[1] # s]
        /\ UNCHANGED <<net, referred, barrier>>
    BY <1>9 DEF DropServer, Edit
  <2>2. link' \in Links /\ \A o \in Owners : link'[o] = None \/ link'[o] = link[o]
    BY <1>1, <2>1 DEF Links
  <2>3. Numbered(link', number)
    BY <1>1, <2>2 DEF Numbered
  <2>4. steady' \in [Owners -> BOOLEAN] /\ \A o \in Owners : steady'[o] => steady[o] /\ o[1] # s
    BY <2>1
  <2>5. \A o \in Owners : steady'[o] => link'[o] = link[o]
    BY <2>1, <2>4
  <2>6. net' = None => \A o \in Owners : link'[o] = None
    BY <1>1, <2>1, <2>2
  <2> QED
    BY <1>1, <2>1, <2>2, <2>3, <2>4, <2>5, <2>6, EditKeeps
<1> QED
  BY <1>4, <1>5, <1>6, <1>7, <1>8, <1>9 DEF Operator

------------------------------------------------------------------------------
(* The theorems.                                                           *)

LEMMA IInvInit == Init => IInv
<1> SUFFICES ASSUME Init PROVE IInv
  OBVIOUS
<1>1. PICK start \in StartNets : net = start.net /\ link = start.link
  BY DEF Init
<1>2. net \in Net \union {None} /\ link \in Links
  BY <1>1, StartAssumption DEF Links
<1>3. Numbered(link, 0) /\ (net = None => \A o \in Owners : link[o] = None)
  <2>1. \A o \in Owners : link[o] # None => o \in Linked(start.link)
    BY <1>1 DEF Linked
  <2>2. \A o \in Owners : link[o] # None => net # None /\ link[o].n = 0 /\ link[o].mark \in {0, None}
    BY <1>1, <2>1, StartAssumption
  <2> QED
    BY <2>2 DEF Numbered
<1>4. /\ kea \in [Owners -> Reports] /\ number = 0 /\ referred = FALSE /\ barrier = FALSE
      /\ actor = [a \in Actors |-> Idle] /\ steady = [o \in Owners |-> FALSE] /\ rounds = [s \in Servers |-> 0]
  BY NetworkAssumption DEF Init
<1>5. WorldOK
  <2>1. SteadyIn(steady, kea, net, link)
    BY <1>4 DEF SteadyIn
  <2>2. steady \in [Owners -> BOOLEAN]
    BY <1>4
  <2> QED
    BY <1>2, <1>3, <1>4, <2>1, <2>2, RestartTyped DEF WorldOK
<1>6. ActorsOK
  <2>1. Idle \in Local /\ Typed(Idle) /\ InWorld(Idle, kea, number, steady, link)
    BY <1>4, IdleGood DEF Typed
  <2> HIDE DEF Idle
  <2> QED
    BY <1>4, <2>1 DEF ActorsOK
<1> QED
  BY <1>5, <1>6 DEF IInv

LEMMA IInvNext == IInv /\ [Next]_vars => IInv'
<1> SUFFICES ASSUME IInv, [Next]_vars PROVE IInv'
  OBVIOUS
<1>1. ASSUME NEW a \in Actors, Work(a) PROVE IInv'
  BY <1>1, TakeCutoffKeeps, ReadsKeep, PassKeeps, ClaimsKeep, ChooseKeeps, CleanOneKeeps, CleanFailsKeeps DEF Work
<1>2. CASE UNCHANGED vars
  BY <1>2 DEF vars, IInv, WorldOK, ActorsOK, SteadyIn, Numbered, Live
<1> QED
  BY <1>1, <1>2, StartKeeps, KeaMovesKeeps, OperatorKeeps DEF Next, Finished

\* Types, and the numbers: no link, mark or cutoff is ahead of the confirmation sequence, and a link has an object.
THEOREM TypeCorrect == Spec => []TypeOK
<1>1. IInv => TypeOK
  <2> SUFFICES ASSUME IInv PROVE TypeOK
    OBVIOUS
  <2>1. WorldOK /\ \A a \in Actors : \A s \in Sources : actor[a].cutoff[s] <= number
    BY DEF IInv, ActorsOK, InWorld
  <2>2. DOMAIN link = Owners /\ \A o \in Linked(link) :
          /\ net # None /\ link[o] \in Link
          /\ link[o].n <= number /\ (link[o].mark # None => link[o].mark <= number)
    BY <2>1 DEF WorldOK, Linked, Links, Numbered
  <2> QED
    BY <2>1, <2>2 DEF TypeOK, WorldOK
<1> QED
  BY <1>1, IInvInit, IInvNext, PTL DEF Spec

\* A network that a source reports without a gap since an applied claim stays linked, marked and active: a cleanup whose
\* cutoff is past the claim has read the report after it, and claims it before it cleans.
THEOREM ReportedStays == Spec => []KeptWhileReported
<1>1. IInv => KeptWhileReported
  BY DEF IInv, WorldOK, SteadyIn, KeptWhileReported
<1> QED
  BY <1>1, IInvInit, IInvNext, PTL DEF Spec

------------------------------------------------------------------------------
(* The marker.                                                             *)

Agree(ls) == \A o, q \in Owners : Live(ls[o]) /\ Live(ls[q]) => ls[o].length = ls[q].length

\* The object is active while it has a live source; and it shows its sources while they agree, or when they are Pools.
ShownIn(object, ls) ==
    object # None /\ object.room = 2 /\ LiveSources(ls) # {} =>
        /\ object.status = "active"
        /\ Agree(ls) \/ Sources = {"pool"} => object.kind = MarkerKind(LiveSources(ls))

MarkerInv == ShownIn(net, link) /\ ("drop" \notin Edits \/ Sources = {"pool"})

LEMMA LiveSourcesOf ==
    \A ls : /\ (LiveSources(ls) # {} <=> \E o \in Owners : Live(ls[o]))
            /\ LiveSources(ls) \subseteq Sources
BY DEF LiveSources, Owners

LEMMA NoLiveNoLinks == LiveSources(NoLinks) = {}
BY NoLinksTyped DEF LiveSources, Live

\* The marker of live Pools is the one of Pools.
LEMMA OnlyPools == ASSUME Sources = {"pool"}, NEW ls, LiveSources(ls) # {} PROVE MarkerKind(LiveSources(ls)) = "pool"
BY LiveSourcesOf DEF MarkerKind

\* Links with the same live ones show the same.
LEMMA ShownSame ==
    ASSUME NEW object, NEW ls, NEW ls2, ShownIn(object, ls),
           \A q \in Owners : (Live(ls2[q]) <=> Live(ls[q])) /\ (Live(ls[q]) => ls2[q].length = ls[q].length)
    PROVE  ShownIn(object, ls2)
<1>1. LiveSources(ls2) = LiveSources(ls)
  BY DEF LiveSources
<1>2. Agree(ls2) => Agree(ls)
  BY DEF Agree
<1> QED
  BY <1>1, <1>2 DEF ShownIn

LEMMA ConfirmedLink ==
    ASSUME number \in Nat, NEW ls \in Links, NEW o \in Owners, NEW length \in Lengths \union {None},
           NEW mark \in Nat \union {None}, NEW adopted \in BOOLEAN, link' = Confirm(ls, o, length, mark, adopted)
    PROVE  /\ link'[o] # None /\ link'[o].length = length /\ link'[o].mark = mark
           /\ \A q \in Owners \ {o} : link'[q] = ls[q]
BY ConfirmFacts

LEMMA ClaimNewShows == ASSUME IInv, MarkerInv, NEW a \in Actors, ClaimNew(a) PROVE ShownIn(net', link')
<1> DEFINE o == Owner(a)  report == actor[a].report[Source(a)]
<1>1. /\ WorldOK /\ o \in Owners /\ number \in Nat /\ report \in Reports /\ report.kind # "absent"
      /\ net = None /\ o[2] = Source(a)
  BY OfClaim DEF ClaimNew, Owner
<1>2. CASE report.kind = "clash"
  <2>1. UNCHANGED <<net, link>>
    BY <1>2 DEF ClaimNew
  <2> QED
    BY <2>1 DEF MarkerInv
<1>3. CASE report.kind # "clash"
  <2>1. /\ net' = [status |-> "active", kind |-> MarkerKind({Source(a)}), marked |-> TRUE, room |-> 2]
        /\ link' = Confirm(NoLinks, o, report.length, None, FALSE)
    BY <1>3 DEF ClaimNew
  <2>2. report.length \in Lengths /\ report.length # None
    BY <1>1, <1>3, ReportFacts
  <2> HIDE DEF report, o
  <2>3. /\ link'[o] # None /\ link'[o].length = report.length /\ link'[o].mark = None
        /\ \A q \in Owners \ {o} : link'[q] = None
    <3>1. FALSE \in BOOLEAN /\ None \in Nat \union {None} /\ report.length \in Lengths \union {None}
      BY <2>2
    <3>2. link' = Confirm(NoLinks, o, report.length, None, FALSE) /\ number \in Nat /\ o \in Owners
      BY <1>1, <2>1
    <3>3. NoLinks \in Links /\ \A q \in Owners : NoLinks[q] = None
      BY NoLinksTyped
    <3>4. /\ link'[o] # None /\ link'[o].length = report.length /\ link'[o].mark = None
          /\ \A q \in Owners \ {o} : link'[q] = NoLinks[q]
      BY <3>1, <3>2, <3>3, ConfirmedLink
    <3> QED
      BY <3>3, <3>4
  <2>4. LiveSources(link') = {o[2]}
    BY <1>1, <2>2, <2>3 DEF LiveSources, Live
  <2> QED
    BY <1>1, <2>1, <2>4 DEF ShownIn
<1> QED
  BY <1>2, <1>3

\* With room for the longest marker, every marker fits.
LEMMA RoomFits == ASSUME net.room = 2 PROVE \A kind : Fits(kind)
BY DEF Fits, Size

LEMMA ClaimOwnedShows == ASSUME IInv, MarkerInv, NEW a \in Actors, ClaimOwned(a) PROVE ShownIn(net', link')
<1> DEFINE report == actor[a].report[Source(a)]
           o == Owner(a)
           own == Base[o]
           oldMark == IF own = None THEN None ELSE own.mark
           ownLength == IF own = None THEN None ELSE own.length
           kept == WithoutSuperseded(Base, o)
           others == [kept EXCEPT ![o] = None]
           kind == MarkerKind(LiveSources(others) \union {o[2]})
<1>1. /\ WorldOK /\ o \in Owners /\ number \in Nat /\ report \in Reports /\ net # None
  BY OfClaim, OwnedCases
<1>2. \/ report.kind = "clash" /\ UNCHANGED net /\ link' = Confirm(kept, o, ownLength, oldMark, WasAdopted)
      \/ /\ report.kind = "length" /\ UNCHANGED net
         /\ Disagrees(o, report.length, kept) \/ ~Fits(kind)
         /\ link' = Confirm(kept, o, report.length, oldMark, WasAdopted)
      \/ /\ report.kind = "length" /\ ~Disagrees(o, report.length, kept)
         /\ link' = Confirm(kept, o, report.length, None, WasAdopted)
         /\ net' = [net EXCEPT !.status = "active", !.kind = kind, !.marked = TRUE]
  BY OwnedCases
<1>3. Base \in Links /\ Numbered(Base, number) /\ net \in Net /\ WasAdopted \in BOOLEAN
  BY <1>1, BaseFacts
<1>4. /\ oldMark \in Nat \union {None} /\ ownLength \in Lengths \union {None}
      /\ (Live(own) => oldMark = None /\ ownLength = own.length /\ ownLength # None)
      /\ (oldMark = None /\ ownLength # None => Live(own))
      /\ (oldMark # None => ~Live(own))
  <2>1. own \in Link \union {None}
    BY <1>1, <1>3 DEF Links
  <2> HIDE DEF own
  <2> QED
    BY <2>1, LinkFacts DEF Live
<1>5. ShownIn(net, Base)
  <2>1. Base = link \/ Base = NoLinks
    BY DEF Base
  <2> QED
    BY <2>1, NoLiveNoLinks DEF ShownIn, MarkerInv
<1>6. /\ kept \in Links /\ kept[o] = own
      /\ \A q \in Owners : (Live(kept[q]) <=> Live(Base[q])) /\ (Live(Base[q]) => kept[q] = Base[q])
  <2> HIDE DEF o
  <2> QED
    BY <1>1, <1>3, SupersededFacts
<1>7. ShownIn(net, kept)
  <2> HIDE DEF kept
  <2> QED
    BY <1>5, <1>6, ShownSame
<1>8. report.kind = "length" => report.length \in Lengths /\ report.length # None
  BY <1>1, ReportFacts
<1> HIDE DEF report, o, own, oldMark, ownLength, kept
<1>9. CASE report.kind = "clash" /\ UNCHANGED net /\ link' = Confirm(kept, o, ownLength, oldMark, WasAdopted)
  <2>1. /\ link'[o] # None /\ link'[o].length = ownLength /\ link'[o].mark = oldMark
        /\ \A q \in Owners \ {o} : link'[q] = kept[q]
    BY <1>1, <1>3, <1>4, <1>6, <1>9, ConfirmedLink
  <2>2. (Live(link'[o]) <=> Live(kept[o])) /\ (Live(kept[o]) => link'[o].length = kept[o].length)
    BY <1>4, <1>6, <2>1 DEF Live
  <2>3. ShownIn(net, link')
    BY <1>7, <2>1, <2>2, ShownSame
  <2> QED
    BY <1>9, <2>3
<1>10. CASE /\ report.kind = "length" /\ UNCHANGED net
            /\ Disagrees(o, report.length, kept) \/ ~Fits(kind)
            /\ link' = Confirm(kept, o, report.length, oldMark, WasAdopted)
  <2>1. report.length \in Lengths \union {None}
    BY <1>8, <1>10
  <2>2. /\ link'[o] # None /\ link'[o].length = report.length /\ link'[o].mark = oldMark
        /\ \A q \in Owners \ {o} : link'[q] = kept[q]
    BY <1>1, <1>3, <1>4, <1>6, <1>10, <2>1, ConfirmedLink
  <2>3. CASE net.room # 2
    BY <1>10, <2>3 DEF ShownIn
  <2>4. CASE net.room = 2 /\ oldMark # None
    <3>1. (Live(link'[o]) <=> Live(kept[o])) /\ ~Live(kept[o])
      BY <1>4, <1>6, <2>2, <2>4 DEF Live
    <3>2. ShownIn(net, link')
      BY <1>7, <2>2, <3>1, ShownSame
    <3> QED
      BY <1>10, <3>2
  <2>5. CASE net.room = 2 /\ oldMark = None
    <3>1. PICK q \in Owners \ {o} : Live(kept[q]) /\ kept[q].length # report.length
      BY <1>10, <2>5, RoomFits DEF Disagrees
    <3>2. Live(link'[o]) /\ Live(link'[q]) /\ link'[q].length # link'[o].length
      BY <1>8, <1>10, <2>2, <2>5, <3>1 DEF Live
    <3>3. ~Agree(link')
      BY <1>1, <3>2 DEF Agree
    <3>4. LiveSources(kept) # {} /\ LiveSources(link') # {}
      BY <3>1, <3>2, LiveSourcesOf
    <3>5. net.status = "active" /\ (Sources = {"pool"} => net.kind = "pool")
      BY <1>1, <1>7, <2>5, <3>4, OnlyPools DEF ShownIn
    <3>6. Sources = {"pool"} => MarkerKind(LiveSources(link')) = "pool"
      BY <3>4, OnlyPools
    <3> QED
      BY <1>10, <3>3, <3>5, <3>6 DEF ShownIn
  <2> QED
    BY <2>3, <2>4, <2>5
<1>11. CASE /\ report.kind = "length" /\ ~Disagrees(o, report.length, kept)
            /\ link' = Confirm(kept, o, report.length, None, WasAdopted)
            /\ net' = [net EXCEPT !.status = "active", !.kind = kind, !.marked = TRUE]
  <2>1. report.length \in Lengths \union {None} /\ None \in Nat \union {None}
    BY <1>8, <1>11
  <2>2. /\ link'[o] # None /\ link'[o].length = report.length /\ link'[o].mark = None
        /\ \A q \in Owners \ {o} : link'[q] = kept[q]
    BY <1>1, <1>3, <1>6, <1>11, <2>1, ConfirmedLink
  <2>3. Live(link'[o])
    BY <1>8, <1>11, <2>2 DEF Live
  <2>4. others[o] = None /\ (\A q \in Owners \ {o} : others[q] = link'[q])
    BY <1>1, <1>6, <2>2 DEF Links
  <2> HIDE DEF others
  <2>5. \A q \in Owners : Live(link'[q]) <=> (q = o \/ Live(others[q]))
    BY <2>3, <2>4
  <2>6. ~Live(others[o])
    BY <2>4 DEF Live
  <2>7. LiveSources(link') = LiveSources(others) \union {o[2]}
    BY <1>1, <2>5, <2>6 DEF LiveSources
  <2>8. net'.status = "active" /\ net'.kind = kind
    BY <1>3, <1>11 DEF Net
  <2> QED
    BY <2>7, <2>8 DEF ShownIn
<1> QED
  BY <1>2, <1>9, <1>10, <1>11

LEMMA CleanShows ==
    ASSUME WorldOK, MarkerInv, NEW o \in Owners, NEW cutoff \in Nat, net # None,
           link[o] # None, NEW object, NEW ls, CleansTo(o, cutoff, object, ls)
    PROVE  ShownIn(object, ls)
<1> DEFINE rest == [link EXCEPT ![o] = None]  live == LiveSources(rest)
<1>1. link \in Links /\ net \in Net /\ rest[o] = None /\ \A q \in Owners \ {o} : rest[q] = link[q]
  BY DEF WorldOK, Links
<1>2. \/ object = net /\ ls = NoLinks
      \/ object = net /\ ls = link
      \/ ls = rest /\ live = {}
      \/ ls = rest /\ object = [net EXCEPT !.status = "active", !.kind = MarkerKind(live)]
      \/ Linked(rest) = {} /\ (ls = rest \/ ls = [link EXCEPT ![o].mark = cutoff])
  BY DEF CleansTo
<1>3. Linked(rest) = {} => LiveSources(rest) = {} /\ \A q \in Owners \ {o} : ~Live(link[q])
  <2>1. Linked(rest) = {} => \A q \in Owners : ~Live(rest[q])
    BY DEF Linked, Live
  <2> HIDE DEF rest
  <2> QED
    BY <1>1, <2>1, LiveSourcesOf
<1>4. ASSUME Linked(rest) = {}, ls = [link EXCEPT ![o].mark = cutoff] PROVE LiveSources(ls) = {}
  <2>1. \A q \in Owners \ {o} : ls[q] = link[q]
    BY <1>1, <1>4 DEF Links
  <2>2. ls[o] = [link[o] EXCEPT !.mark = cutoff]
    BY <1>1, <1>4 DEF Links
  <2>3. ~Live(ls[o])
    <3>1. cutoff # None
      BY NetworkAssumption
    <3>2. link[o] \in Link
      BY <1>1 DEF Links
    <3>3. ls[o].mark = cutoff
      BY <2>2, <3>2 DEF Link
    <3> QED
      BY <3>1, <3>3 DEF Live
  <2> QED
    BY <1>3, <1>4, <2>1, <2>3, LiveSourcesOf
<1> HIDE DEF rest, live
<1>5. CASE object = net /\ ls = NoLinks
  BY <1>5, NoLiveNoLinks DEF ShownIn
<1>6. CASE object = net /\ ls = link
  BY <1>6 DEF MarkerInv
<1>7. CASE LiveSources(ls) = {}
  BY <1>7 DEF ShownIn
<1>8. CASE ls = rest /\ object = [net EXCEPT !.status = "active", !.kind = MarkerKind(live)]
  <2>1. object.status = "active" /\ object.kind = MarkerKind(live)
    BY <1>1, <1>8 DEF Net
  <2>2. LiveSources(ls) = live
    BY <1>8 DEF live
  <2> QED
    BY <2>1, <2>2 DEF ShownIn
<1>9. ls = rest /\ live = {} => LiveSources(ls) = {}
  BY DEF live
<1> QED
  BY <1>2, <1>3, <1>4, <1>5, <1>6, <1>7, <1>8, <1>9

\* The links that go leave live ones of the same kind: those of Pools.
LEMMA FewerShow ==
    ASSUME Sources = {"pool"}, NEW object, NEW ls, NEW ls2, ShownIn(object, ls),
           \A q \in Owners : Live(ls2[q]) => Live(ls[q])
    PROVE  ShownIn(object, ls2)
<1>1. LiveSources(ls2) # {} => LiveSources(ls) # {}
  BY LiveSourcesOf
<1>2. LiveSources(ls2) # {} => MarkerKind(LiveSources(ls)) = "pool" /\ MarkerKind(LiveSources(ls2)) = "pool"
  BY <1>1, OnlyPools
<1> QED
  BY <1>1, <1>2 DEF ShownIn

LEMMA NothingShown == ASSUME NEW object, NEW ls, \A q \in Owners : ls[q] = None PROVE ShownIn(object, ls)
<1>1. LiveSources(ls) = {}
  BY LiveSourcesOf DEF Live
<1> QED
  BY <1>1 DEF ShownIn

LEMMA CleanOneShows == ASSUME IInv, MarkerInv, NEW a \in Actors, CleanOne(a) PROVE ShownIn(net', link')
<1> DEFINE o == Owner(a)  c == actor[a].cutoff[Source(a)]  done == Clean(o, c)
<1>1. WorldOK /\ actor[a] \in Local /\ Source(a) \in Sources /\ o \in Owners
  BY OfActor DEF CleanOne
<1>2. c \in Nat
  BY <1>1 DEF Local
<1>3. CASE net # None /\ StillStale(link[o], c)
  <2>1. net' = done.net /\ link' = done.link
    BY <1>3 DEF CleanOne
  <2>2. net.marked \in BOOLEAN
    BY <1>1, <1>3 DEF WorldOK, Net
  <2>3. CleansTo(o, c, done.net, done.link)
    BY <1>1, <2>2, CleanCases
  <2>4. link[o] # None
    BY <1>3 DEF StillStale
  <2> HIDE DEF o, c, done
  <2>5. ShownIn(done.net, done.link)
    BY <1>1, <1>2, <1>3, <2>3, <2>4, CleanShows
  <2> QED
    BY <2>1, <2>5
<1>4. CASE ~(net # None /\ StillStale(link[o], c))
  <2>1. net' = net /\ link' = link
    BY <1>4 DEF CleanOne
  <2> QED
    BY <2>1 DEF MarkerInv
<1> QED
  BY <1>3, <1>4

LEMMA OperatorShows == ASSUME IInv, MarkerInv, Operator PROVE ShownIn(net', link')
<1>1. WorldOK /\ ShownIn(net, link) /\ ("drop" \notin Edits \/ Sources = {"pool"})
  BY DEF IInv, MarkerInv
<1>2. CASE Create
  <2>1. net = None /\ link' = link
    BY <1>2 DEF Create, Rewrite
  <2> QED
    BY <1>1, <2>1, NothingShown DEF WorldOK
<1>3. CASE Release \/ MarkAgain
  <2>1. PICK marked \in BOOLEAN : net' = [net EXCEPT !.marked = marked]
    BY <1>3 DEF Release, MarkAgain, Rewrite
  <2>2. net \in Net /\ link' = link
    BY <1>1, <1>3 DEF Release, MarkAgain, Rewrite, WorldOK
  <2>3. net'.status = net.status /\ net'.kind = net.kind /\ net'.room = net.room /\ net # None
    BY <2>1, <2>2, NetworkAssumption DEF Net
  <2> QED
    BY <1>1, <2>2, <2>3 DEF ShownIn
<1>4. CASE Delete
  BY <1>4 DEF Delete, ShownIn
<1>5. CASE Refer \/ FlipBarrier
  <2>1. UNCHANGED <<net, link>>
    BY <1>5 DEF Refer, FlipBarrier
  <2> QED
    BY <1>1, <2>1
<1>6. ASSUME NEW s \in Servers, DropServer(s) PROVE ShownIn(net', link')
  <2>1. Sources = {"pool"} /\ net' = net /\ link' = [o \in Owners |-> IF o[1] = s THEN None ELSE link[o]]
    BY <1>1, <1>6 DEF DropServer, Edit
  <2>2. \A q \in Owners : Live(link'[q]) => Live(link[q])
    BY <2>1 DEF Live
  <2> QED
    BY <1>1, <2>1, <2>2, FewerShow
<1> QED
  BY <1>2, <1>3, <1>4, <1>5, <1>6 DEF Operator

LEMMA MarkerNext == IInv /\ MarkerInv /\ [Next]_vars => MarkerInv'
<1> SUFFICES ASSUME IInv, MarkerInv, [Next]_vars PROVE ShownIn(net', link')
  BY DEF MarkerInv, ShownIn, LiveSources, Live, Agree
<1>1. ASSUME UNCHANGED <<net, link>> PROVE ShownIn(net', link')
  BY <1>1 DEF MarkerInv
<1>2. ASSUME NEW a \in Actors, Work(a) PROVE ShownIn(net', link')
  <2>1. CASE TakeCutoff(a) \/ ReadSnapshot(a) \/ ReadInPart(a) \/ PassPhase(a) \/ RowFails(a) \/ ChooseStale(a)
             \/ CleanFails(a)
    BY <1>1, <2>1 DEF TakeCutoff, ReadSnapshot, ReadInPart, PassPhase, RowFails, ChooseStale, CleanFails
  <2>2. CASE ClaimReleased(a)
    BY <2>2, NoLinksTyped, NothingShown DEF ClaimReleased
  <2> QED
    BY <1>2, <2>1, <2>2, ClaimNewShows, ClaimOwnedShows, CleanOneShows DEF Work
<1>3. CASE \E a \in Actors, order \in Orders : Start(a, order)
  BY <1>1, <1>3 DEF Start
<1>4. CASE \E m \in Moves : KeaMoves(m.owner, m.report)
  BY <1>1, <1>4 DEF KeaMoves
<1>5. CASE UNCHANGED vars
  BY <1>1, <1>5 DEF vars
<1> QED
  BY <1>2, <1>3, <1>4, <1>5, OperatorShows DEF Next, Finished

\* The marker of the object names the sources that report it, when their reports agree: no claim, cleanup or operator's
\* edit leaves it behind. The deletion of a Server takes its links and leaves the object alone, so for Prefixes, whose
\* sources differ, this needs that no Server with links goes.
THEOREM MarkerCorrect == ASSUME "drop" \notin Edits \/ Sources = {"pool"} PROVE Spec => []MarkerShowsOwners
<1>1. Init => MarkerInv
  <2> SUFFICES ASSUME Init PROVE ShownIn(net, link)
    BY DEF MarkerInv
  <2>1. PICK start \in StartNets : net = start.net /\ link = start.link
    BY DEF Init
  <2> QED
    BY <2>1, StartAssumption DEF ShownIn
<1>2. IInv /\ MarkerInv => MarkerShowsOwners
  <2> SUFFICES ASSUME IInv, MarkerInv, net # None, net.room = 2, LiveSources(link) # {},
                      \A o, q \in Linked(link) : link[o].length = link[q].length
               PROVE  net.kind = MarkerKind(LiveSources(link)) /\ net.status = "active"
    BY DEF MarkerShowsOwners
  <2>1. \A o \in Owners : Live(link[o]) => o \in Linked(link)
    BY DEF Live, Linked
  <2>2. Agree(link)
    BY <2>1 DEF Agree
  <2> QED
    BY <2>2 DEF MarkerInv, ShownIn
<1> QED
  BY <1>1, <1>2, IInvInit, IInvNext, MarkerNext, PTL DEF Spec

------------------------------------------------------------------------------
(* Two jobs settle the object. What the workers know of a world that       *)
(* nothing disturbs.                                                       *)

Active(a) == actor[a].pc # "idle"
Indices(l) == 1..Len(l.order.plan)
Of(l, i) == <<l.order.server, l.order.plan[i]>>

\* How far a worker is with the i-th phase of its plan.
HasRead(l, i) == l.pc \in {"claim", "choose", "clean"} \/ (l.pc \in {"cutoff", "read"} /\ i < l.phase)
HasCut(l, i) == HasRead(l, i) \/ (l.pc = "read" /\ i = l.phase)
HasClaimed(l, i) == l.pc \in {"choose", "clean"} \/ (l.pc = "claim" /\ i < l.phase)
HasCleaned(l, i) == l.pc \in {"choose", "clean"} /\ i < l.phase

Silent(k, o) == k[o].kind = "absent"

\* What it read is what Kea reports.
Seen(l, k) ==
    \A i \in Indices(l) : HasRead(l, i) => l.report[l.order.plan[i]] = k[Of(l, i)] /\ l.order.plan[i] \in l.fresh

\* Its cutoffs are ahead of the links of owners that report nothing.
Outdated(l, k, ls) ==
    \A i \in Indices(l) : HasCut(l, i) /\ Silent(k, Of(l, i)) /\ ls[Of(l, i)] # None =>
        ls[Of(l, i)].n < l.cutoff[l.order.plan[i]]

\* The links of what it claimed are not stale for it, agree with Kea, and are there when a silent owner's is.
Secured(l, k, ls) ==
    \A i \in Indices(l) : HasClaimed(l, i) /\ l.order.plan[i] \in l.whole /\ ~Silent(k, Of(l, i)) =>
        /\ ls[Of(l, i)] # None =>
              /\ l.cutoff[l.order.plan[i]] <= ls[Of(l, i)].n
              /\ k[Of(l, i)].kind = "length" => ls[Of(l, i)].length = k[Of(l, i)].length
        /\ \A q \in Owners : Silent(k, q) /\ ls[q] # None => ls[Of(l, i)] # None

\* The link of a silent owner is gone, or may stay.
Gone(o, object, ls, bar, spoken) ==
    ls[o] # None => object.room < 2 \/ (~spoken /\ ((ls[o].adopted /\ bar) \/ MarkedAndUnconfirmed(ls[o])))

Speaks(l, k) == \E i \in Indices(l) : l.order.plan[i] \in l.whole /\ ~Silent(k, Of(l, i))

\* What it cleaned is gone.
Cleared(l, k, object, ls, bar) ==
    \A i \in Indices(l) : HasCleaned(l, i) /\ l.order.plan[i] \in l.whole /\ Silent(k, Of(l, i)) =>
        Gone(Of(l, i), object, ls, bar, Speaks(l, k))

Knows(l, k, object, ls, bar) == Seen(l, k) /\ Outdated(l, k, ls) /\ Secured(l, k, ls) /\ Cleared(l, k, object, ls, bar)

\* What a step of a worker that knows the world may do to it.
CalmTo(k, m, object, ls, object2, ls2) ==
    /\ \A q \in Owners : Silent(k, q) /\ ls2[q] # None =>
          /\ ls[q] # None /\ ls2[q].n = ls[q].n /\ ls2[q].adopted = ls[q].adopted
          /\ ls2[q].mark = ls[q].mark \/ MarkedAndUnconfirmed(ls2[q])
          /\ object2.room = object.room
          /\ \A o \in Owners : ~Silent(k, o) /\ ls[o] # None => ls2[o] # None
    /\ \A o \in Owners : ~Silent(k, o) /\ ls2[o] # None =>
          \/ ls2[o] = ls[o]
          \/ ls2[o].n = m + 1 /\ (k[o].kind = "length" => ls2[o].length = k[o].length)

\* A link that is marked is alone, and its object is deprecated.
Alone(object, ls) ==
    \A o \in Owners : ls[o] # None /\ MarkedAndUnconfirmed(ls[o]) =>
        object.status = "deprecated" /\ \A q \in Owners \ {o} : ls[q] = None

LEMMA IndexFacts ==
    ASSUME NEW l, Typed(l), l.pc # "idle"
    PROVE  /\ l.phase \in Indices(l) /\ l.phase \in Nat /\ Len(l.order.plan) \in Nat
           /\ l.order \in Orders /\ l.order.server \in Servers
           /\ \A i \in Indices(l) : i \in Nat /\ l.order.plan[i] \in Sources /\ Of(l, i) \in Owners
           /\ \A i, j \in Indices(l) : l.order.plan[i] = l.order.plan[j] => i = j
<1>1. l.order \in Orders /\ l.phase \in 1..Len(l.order.plan)
  BY DEF Typed, Works
<1>2. l.phase \in Nat
  BY DEF Typed, Local
<1> QED
  BY <1>1, <1>2, OrderFacts DEF Indices, Of

\* A worker that does not move keeps what it knows.
LEMMA KnowsStays ==
    ASSUME NEW l, Typed(l), l.pc # "idle", NEW m \in Nat, \A s \in Sources : l.cutoff[s] <= m,
           NEW k, NEW object, NEW ls, NEW object2, NEW ls2, NEW bar,
           Knows(l, k, object, ls, bar), CalmTo(k, m, object, ls, object2, ls2)
    PROVE  Knows(l, k, object2, ls2, bar)
<1>1. /\ \A i \in Indices(l) : l.order.plan[i] \in Sources /\ Of(l, i) \in Owners
      /\ \A s \in Sources : l.cutoff[s] \in Nat
  BY IndexFacts DEF Typed, Local
<1>2. Seen(l, k)
  BY DEF Knows
<1>3. Outdated(l, k, ls2)
  BY <1>1 DEF Knows, Outdated, CalmTo
<1>4. Secured(l, k, ls2)
  <2> SUFFICES ASSUME NEW i \in Indices(l), HasClaimed(l, i), l.order.plan[i] \in l.whole, ~Silent(k, Of(l, i))
               PROVE  /\ ls2[Of(l, i)] # None =>
                            /\ l.cutoff[l.order.plan[i]] <= ls2[Of(l, i)].n
                            /\ k[Of(l, i)].kind = "length" => ls2[Of(l, i)].length = k[Of(l, i)].length
                      /\ \A q \in Owners : Silent(k, q) /\ ls2[q] # None => ls2[Of(l, i)] # None
    BY DEF Secured
  <2> DEFINE o == Of(l, i)  c == l.cutoff[l.order.plan[i]]
  <2>1. o \in Owners /\ c \in Nat /\ c <= m
    BY <1>1
  <2>2. /\ ls[o] # None => c <= ls[o].n /\ (k[o].kind = "length" => ls[o].length = k[o].length)
        /\ \A q \in Owners : Silent(k, q) /\ ls[q] # None => ls[o] # None
    BY DEF Knows, Secured
  <2>5. ~Silent(k, o)
    OBVIOUS
  <2> HIDE DEF o, c
  <2>3. ls2[o] # None => ls2[o] = ls[o] \/ (ls2[o].n = m + 1 /\ (k[o].kind = "length" => ls2[o].length = k[o].length))
    BY <2>1, <2>5 DEF CalmTo
  <2>4. \A q \in Owners : Silent(k, q) /\ ls2[q] # None => ls2[o] # None
    BY <2>1, <2>2, <2>5 DEF CalmTo
  <2>6. ls2[o] # None => c <= ls2[o].n /\ (k[o].kind = "length" => ls2[o].length = k[o].length)
    BY <2>1, <2>2, <2>3
  <2> QED
    BY <2>4, <2>6 DEF o, c
<1>5. Cleared(l, k, object2, ls2, bar)
  <2> SUFFICES ASSUME NEW i \in Indices(l), HasCleaned(l, i), l.order.plan[i] \in l.whole, Silent(k, Of(l, i))
               PROVE  Gone(Of(l, i), object2, ls2, bar, Speaks(l, k))
    BY DEF Cleared
  <2>1. Gone(Of(l, i), object, ls, bar, Speaks(l, k)) /\ Of(l, i) \in Owners
    BY <1>1 DEF Knows, Cleared
  <2> QED
    BY <2>1 DEF Gone, CalmTo, MarkedAndUnconfirmed
<1> QED
  BY <1>2, <1>3, <1>4, <1>5 DEF Knows

------------------------------------------------------------------------------
(* What claims and cleanups do to the links.                               *)

LEMMA SupersededExactly ==
    ASSUME NEW ls, NEW o \in Owners, NEW q \in Owners, q # o
    PROVE  WithoutSuperseded(ls, o)[q] = IF ls[q] # None /\ MarkedAndUnconfirmed(ls[q]) THEN None ELSE ls[q]
BY DEF WithoutSuperseded

LEMMA RoomShort == ASSUME net \in Net, NEW kind, ~Fits(kind) PROVE net.room < 2
<1>1. net.room \in 0..2
  BY DEF Net
<1>2. Size(kind) \in 0..2
  BY DEF Size
<1> QED
  BY <1>1, <1>2 DEF Fits

\* The link of the claim is the next one, and the others stay, but for the marked ones; it is applied, or has no room, or
\* disagrees with a link that counts.
LEMMA OwnedEffect ==
    ASSUME IInv, NEW a \in Actors, ClaimOwned(a)
    PROVE  LET o == Owner(a)
               report == actor[a].report[Source(a)]
               applied == steady' = [steady EXCEPT ![o] = Source(a) \in actor[a].fresh]
           IN  /\ net \in Net /\ net' \in Net /\ net'.room = net.room /\ (net.marked => net'.marked)
               /\ net' = net \/ net'.status = "active"
               /\ net.marked \/ actor[a].order.kind = "force"
               /\ link'[o] # None /\ link'[o].n = number + 1 /\ (link'[o].mark = None \/ link'[o].mark <= number)
               /\ report.kind = "length" => link'[o].length = report.length
               /\ report.kind = "clash" /\ net.marked /\ link[o] # None => link'[o].length = link[o].length
               /\ net.marked /\ link[o] # None /\ link[o].mark = None => link'[o].mark = None
               /\ \A q \in Owners \ {o} : link'[q] = None \/ (link'[q] = link[q] /\ ~MarkedAndUnconfirmed(link[q]))
               /\ \A q \in Owners \ {o} : net.marked /\ link[q] # None /\ ~MarkedAndUnconfirmed(link[q]) =>
                     link'[q] = link[q]
               /\ steady' = steady \/ applied
               /\ report.kind = "length" =>
                     applied \/ net.room < 2
                        \/ \E q \in Owners \ {o} : Live(link'[q]) /\ link'[q].length # report.length
<1> DEFINE o == Owner(a)
           report == actor[a].report[Source(a)]
           applied == steady' = [steady EXCEPT ![o] = Source(a) \in actor[a].fresh]
           own == Base[o]
           oldMark == IF own = None THEN None ELSE own.mark
           ownLength == IF own = None THEN None ELSE own.length
           kept == WithoutSuperseded(Base, o)
           kind == MarkerKind(LiveSources([kept EXCEPT ![o] = None]) \union {o[2]})
<1>1. WorldOK /\ o \in Owners /\ number \in Nat /\ report \in Reports /\ net # None
  BY OfClaim, OwnedCases
<1>2. net.marked \/ actor[a].order.kind = "force"
  BY DEF ClaimOwned
<1>3. \/ /\ report.kind = "clash" /\ net' = net /\ steady' = steady
         /\ link' = Confirm(kept, o, ownLength, oldMark, WasAdopted)
      \/ /\ report.kind = "length" /\ net' = net /\ steady' = steady
         /\ Disagrees(o, report.length, kept) \/ ~Fits(kind)
         /\ link' = Confirm(kept, o, report.length, oldMark, WasAdopted)
      \/ /\ report.kind = "length"
         /\ link' = Confirm(kept, o, report.length, None, WasAdopted)
         /\ net' = [net EXCEPT !.status = "active", !.kind = kind, !.marked = TRUE]
         /\ applied
  BY OwnedCases
<1>4. Base \in Links /\ Numbered(Base, number) /\ net \in Net /\ net.marked \in BOOLEAN /\ WasAdopted \in BOOLEAN
  BY <1>1, BaseFacts
<1>5. /\ \A q \in Owners : Base[q] = IF net.marked THEN link[q] ELSE None
      /\ own \in Link \union {None}
  BY <1>1, <1>4, NoLinksTyped DEF Base, Links
<1>6. /\ oldMark \in Nat \union {None} /\ (oldMark = None \/ oldMark <= number) /\ ownLength \in Lengths \union {None}
      /\ own # None => oldMark = own.mark /\ ownLength = own.length
  <2>1. own # None /\ own.mark # None => own.mark <= number
    BY <1>1, <1>4 DEF Numbered
  <2>2. own = None => oldMark = None /\ ownLength = None
    OBVIOUS
  <2>3. own # None => oldMark = own.mark /\ ownLength = own.length
    OBVIOUS
  <2> HIDE DEF own, oldMark, ownLength
  <2> QED
    BY <1>5, <2>1, <2>2, <2>3, LinkFacts
<1>7. /\ kept \in Links
      /\ \A q \in Owners \ {o} : kept[q] = IF Base[q] # None /\ MarkedAndUnconfirmed(Base[q]) THEN None ELSE Base[q]
  <2> HIDE DEF o
  <2>1. kept \in Links
    BY <1>1, <1>4, SupersededFacts
  <2>2. \A q \in Owners \ {o} : kept[q] = IF Base[q] # None /\ MarkedAndUnconfirmed(Base[q]) THEN None ELSE Base[q]
    BY <1>1, SupersededExactly
  <2> QED
    BY <2>1, <2>2
<1>8. report.kind = "length" => report.length \in Lengths \union {None}
  BY <1>1, ReportFacts
<1>9. kind \in Kinds
  BY MarkerKinds
<1>10. own = IF net.marked THEN link[o] ELSE None
  BY <1>1, <1>5
<1> HIDE DEF o, report, own, oldMark, ownLength, kept, kind, applied
<1>11. /\ link'[o] # None /\ link'[o].n = number + 1 /\ (link'[o].mark = None \/ link'[o].mark <= number)
       /\ report.kind = "length" => link'[o].length = report.length
       /\ report.kind = "clash" => link'[o].length = ownLength
       /\ link'[o].mark = None \/ link'[o].mark = oldMark
       /\ \A q \in Owners \ {o} : link'[q] = kept[q]
  <2>1. ASSUME NEW length \in Lengths \union {None}, NEW mark \in Nat \union {None},
               link' = Confirm(kept, o, length, mark, WasAdopted)
        PROVE  /\ link'[o] # None /\ link'[o].length = length /\ link'[o].n = number + 1 /\ link'[o].mark = mark
               /\ \A q \in Owners \ {o} : link'[q] = kept[q]
    <3> DEFINE adopted == WasAdopted  new == Confirm(kept, o, length, mark, adopted)
    <3>1. number \in Nat /\ kept \in Links /\ o \in Owners /\ adopted \in BOOLEAN /\ link' = new
      BY <1>1, <1>4, <1>7, <2>1
    <3> HIDE DEF adopted
    <3>2. /\ new[o] # None /\ new[o].length = length /\ new[o].n = number + 1 /\ new[o].mark = mark
          /\ \A q \in Owners \ {o} : new[q] = kept[q]
      BY <3>1, ConfirmFacts
    <3> HIDE DEF new
    <3> QED
      BY <3>1, <3>2
  <2>2. CASE report.kind = "clash" /\ link' = Confirm(kept, o, ownLength, oldMark, WasAdopted)
    BY <1>6, <2>1, <2>2
  <2>3. CASE report.kind = "length" /\ link' = Confirm(kept, o, report.length, oldMark, WasAdopted)
    BY <1>6, <1>8, <2>1, <2>3
  <2>4. CASE report.kind = "length" /\ link' = Confirm(kept, o, report.length, None, WasAdopted)
    BY <1>8, <2>1, <2>4
  <2> QED
    BY <1>3, <2>2, <2>3, <2>4
<1>12. /\ net' \in Net /\ net'.room = net.room /\ (net.marked => net'.marked)
       /\ net' = net \/ net'.status = "active"
  <2>1. CASE net' = net
    BY <1>4, <2>1
  <2>2. CASE net' = [net EXCEPT !.status = "active", !.kind = kind, !.marked = TRUE]
    BY <1>4, <1>9, <2>2 DEF Net
  <2> QED
    BY <1>3, <2>1, <2>2
<1>13. /\ report.kind = "clash" /\ net.marked /\ link[o] # None => link'[o].length = link[o].length
       /\ net.marked /\ link[o] # None /\ link[o].mark = None => link'[o].mark = None
  BY <1>6, <1>10, <1>11
<1>14. \A q \in Owners \ {o} : link'[q] = None \/ (link'[q] = link[q] /\ ~MarkedAndUnconfirmed(link[q]))
  BY <1>5, <1>7, <1>11
<1>15. \A q \in Owners \ {o} : net.marked /\ link[q] # None /\ ~MarkedAndUnconfirmed(link[q]) => link'[q] = link[q]
  BY <1>5, <1>7, <1>11
<1>16. report.kind = "length" =>
          applied \/ net.room < 2 \/ \E q \in Owners \ {o} : Live(link'[q]) /\ link'[q].length # report.length
  <2>1. CASE Disagrees(o, report.length, kept)
    BY <1>11, <2>1 DEF Disagrees
  <2>2. CASE ~Fits(kind)
    BY <1>4, <2>2, RoomShort
  <2> QED
    BY <1>3, <2>1, <2>2
<1>17. steady' = steady \/ applied
  BY <1>3
<1> QED
  BY <1>2, <1>4, <1>11, <1>12, <1>13, <1>14, <1>15, <1>16, <1>17 DEF o, report, applied

\* A cleanup takes or marks a stale link, or there is a reason why it leaves it.
LEMMA CleanEffect ==
    ASSUME IInv, NEW a \in Actors, CleanOne(a)
    PROVE  LET o == Owner(a)
               c == actor[a].cutoff[Source(a)]
               sole == \A q \in Owners \ {o} : link[q] = None
           IN  \/ /\ net' = net /\ link' = link
                  /\ link[o] = None \/ ~(link[o].n < c) \/ MarkedAndUnconfirmed(link[o]) \/ net.room < 2
                       \/ (sole /\ link[o].adopted /\ barrier)
               \/ /\ link[o] # None /\ link[o].n < c /\ net \in Net /\ net' \in Net
                  /\ net'.room = net.room /\ net'.marked = net.marked
                  /\ \/ ~net.marked /\ net' = net /\ link' = NoLinks
                     \/ net.marked /\ link' = [link EXCEPT ![o] = None] /\ (net' = net \/ net'.status = "active")
                     \/ net.marked /\ sole /\ net'.status = "deprecated" /\ link' = [link EXCEPT ![o].mark = c]
<1> DEFINE o == Owner(a)  c == actor[a].cutoff[Source(a)]  done == Clean(o, c)
           sole == \A q \in Owners \ {o} : link[q] = None
           rest == [link EXCEPT ![o] = None]  live == LiveSources(rest)
<1>1. WorldOK /\ o \in Owners /\ link \in Links /\ (net = None => link[o] = None)
  BY OfActor DEF CleanOne, WorldOK
<1>2. CASE ~(net # None /\ StillStale(link[o], c))
  <2>1. net' = net /\ link' = link
    BY <1>2 DEF CleanOne
  <2> QED
    BY <1>1, <1>2, <2>1 DEF StillStale
<1>3. CASE net # None /\ StillStale(link[o], c)
  <2>1. net' = done.net /\ link' = done.link
    BY <1>3 DEF CleanOne
  <2>2. net \in Net /\ net.marked \in BOOLEAN /\ net.room \in 0..2 /\ link[o] # None /\ link[o].n < c
    BY <1>1, <1>3 DEF WorldOK, Net, StillStale
  <2>3. Linked(rest) = {} <=> sole
    <3>1. \A q \in Owners : rest[q] = IF q = o THEN None ELSE link[q]
      BY <1>1 DEF Links
    <3> HIDE DEF rest, o
    <3> QED
      BY <3>1 DEF Linked
  <2>4. done = IF ~net.marked THEN [net |-> net, link |-> NoLinks]
               ELSE IF MarkedAndUnconfirmed(link[o]) THEN [net |-> net, link |-> link]
               ELSE IF Linked(rest) # {}
                    THEN IF live = {} THEN [net |-> net, link |-> rest]
                         ELSE IF ~Fits(MarkerKind(live)) THEN [net |-> net, link |-> link]
                         ELSE [net |-> Remark(live), link |-> rest]
                    ELSE IF link[o].adopted /\ barrier THEN [net |-> net, link |-> link]
                         ELSE IF o[1] \notin Deprecating \/ Refers THEN [net |-> net, link |-> rest]
                         ELSE [net |-> [net EXCEPT !.status = "deprecated"], link |-> [link EXCEPT ![o].mark = c]]
    <3>1. CASE ~net.marked
      BY <3>1 DEF Clean
    <3>2. CASE net.marked /\ MarkedAndUnconfirmed(link[o])
      BY <3>2 DEF Clean
    <3>3. CASE net.marked /\ ~MarkedAndUnconfirmed(link[o]) /\ Linked(rest) # {}
      BY <3>3 DEF Clean
    <3>4. CASE net.marked /\ ~MarkedAndUnconfirmed(link[o]) /\ Linked(rest) = {}
      BY <3>4 DEF Clean
    <3> QED
      BY <2>2, <3>1, <3>2, <3>3, <3>4
  <2>5. ~Fits(MarkerKind(live)) => net.room < 2
    <3> HIDE DEF live
    <3> QED
      BY <2>2, RoomShort
  <2>6. MarkerKind(live) \in Kinds
    BY MarkerKinds
  <2> HIDE DEF done, rest, live, sole, o, c
  <2>7. \/ /\ net' = net /\ link' = link
           /\ MarkedAndUnconfirmed(link[o]) \/ net.room < 2 \/ (sole /\ link[o].adopted /\ barrier)
        \/ ~net.marked /\ net' = net /\ link' = NoLinks
        \/ net.marked /\ link' = rest /\ (net' = net \/ net' = Remark(live))
        \/ /\ net.marked /\ sole /\ net' = [net EXCEPT !.status = "deprecated"]
           /\ link' = [link EXCEPT ![o].mark = c]
    BY <2>1, <2>2, <2>3, <2>4, <2>5
  <2>8. /\ Remark(live) \in Net /\ Remark(live).room = net.room /\ Remark(live).marked = net.marked
        /\ Remark(live).status = "active"
    BY <2>2, <2>6 DEF Remark, Net
  <2>9. LET low == [net EXCEPT !.status = "deprecated"]
        IN  low \in Net /\ low.room = net.room /\ low.marked = net.marked /\ low.status = "deprecated"
    BY <2>2 DEF Net
  <2> QED
    BY <2>2, <2>7, <2>8, <2>9 DEF rest, sole, o, c
<1> QED
  BY <1>2, <1>3

\* What a worker that knows the world finds at its phase.
LEMMA OfKnown ==
    ASSUME IInv, NEW a \in Actors, Active(a), Knows(actor[a], kea, net, link, barrier)
    PROVE  /\ Owner(a) = Of(actor[a], actor[a].phase) /\ Source(a) = actor[a].order.plan[actor[a].phase]
           /\ actor[a].phase \in Indices(actor[a]) /\ Owner(a) \in Owners /\ Source(a) \in Sources
           /\ actor[a].pc = "claim" => actor[a].report[Source(a)] = kea[Owner(a)] /\ Source(a) \in actor[a].fresh
           /\ actor[a].pc = "clean" => Source(a) \in actor[a].whole
           /\ actor[a].pc = "clean" /\ link[Owner(a)] # None /\ ~Silent(kea, Owner(a)) =>
                 actor[a].cutoff[Source(a)] <= link[Owner(a)].n
<1>1. Typed(actor[a]) /\ actor[a].pc # "idle" /\ Works(actor[a])
  BY OfActor DEF Active
<1>2. /\ Owner(a) = Of(actor[a], actor[a].phase) /\ Source(a) = actor[a].order.plan[actor[a].phase]
      /\ actor[a].phase \in Indices(actor[a]) /\ Owner(a) \in Owners /\ Source(a) \in Sources
  BY <1>1, OfActor, IndexFacts DEF Of, Owner, Source
<1>3. actor[a].pc = "claim" => actor[a].report[Source(a)] = kea[Owner(a)] /\ Source(a) \in actor[a].fresh
  BY <1>2 DEF Knows, Seen, HasRead
<1>4. actor[a].pc = "clean" => Source(a) \in actor[a].whole
  BY <1>1, <1>2 DEF Works
<1>5. actor[a].pc = "clean" /\ link[Owner(a)] # None /\ ~Silent(kea, Owner(a)) =>
          actor[a].cutoff[Source(a)] <= link[Owner(a)].n
  BY <1>2, <1>4 DEF Knows, Secured, HasClaimed
<1> QED
  BY <1>2, <1>3, <1>4, <1>5

LEMMA ClaimNewCalm ==
    ASSUME IInv, NEW a \in Actors, Active(a), Knows(actor[a], kea, net, link, barrier), ClaimNew(a)
    PROVE  CalmTo(kea, number, net, link, net', link')
<1> DEFINE o == Owner(a)  report == actor[a].report[Source(a)]
<1>1. /\ WorldOK /\ o \in Owners /\ number \in Nat /\ report \in Reports /\ report.kind # "absent" /\ report = kea[o]
      /\ net = None /\ \A q \in Owners : link[q] = None
  BY OfClaim, OfKnown DEF ClaimNew, Claiming, WorldOK
<1>2. CASE report.kind = "clash"
  <2>1. link' = link
    BY <1>2 DEF ClaimNew
  <2> QED
    BY <1>1, <2>1 DEF CalmTo
<1>3. CASE report.kind # "clash"
  <2>1. link' = Confirm(NoLinks, o, report.length, None, FALSE)
    BY <1>3 DEF ClaimNew
  <2>2. report.length \in Lengths
    BY <1>1, <1>3, ReportFacts
  <2>3. ~Silent(kea, o)
    BY <1>1 DEF Silent
  <2> HIDE DEF o, report
  <2>4. /\ link'[o].n = number + 1 /\ link'[o].length = report.length
        /\ \A q \in Owners \ {o} : link'[q] = None
    <3> DEFINE own == [length |-> report.length, n |-> number + 1, mark |-> None,
                       adopted |-> FALSE \/ (NoLinks[o] # None /\ NoLinks[o].adopted)]
    <3>1. link' = [NoLinks EXCEPT ![o] = own] /\ own.n = number + 1 /\ own.length = report.length
      BY <2>1 DEF Confirm
    <3> HIDE DEF own
    <3>2. link'[o] = own /\ \A q \in Owners \ {o} : link'[q] = NoLinks[q]
      BY <1>1, <3>1, NoLinksTyped DEF Links
    <3> QED
      BY <3>1, <3>2, NoLinksTyped
  <2> QED
    BY <1>1, <2>3, <2>4 DEF CalmTo
<1> QED
  BY <1>2, <1>3

LEMMA NoLinksCalm == ASSUME link' = NoLinks PROVE CalmTo(kea, number, net, link, net', link')
BY NoLinksTyped DEF CalmTo

LEMMA ClaimOwnedCalm ==
    ASSUME IInv, Alone(net, link), NEW a \in Actors, Active(a), Knows(actor[a], kea, net, link, barrier), ClaimOwned(a)
    PROVE  CalmTo(kea, number, net, link, net', link')
<1> DEFINE o == Owner(a)  report == actor[a].report[Source(a)]
<1>1. o \in Owners /\ report.kind # "absent" /\ report = kea[o] /\ ~Silent(kea, o)
  BY OfClaim, OfKnown, OwnedCases DEF Claiming, Silent
<1>2. /\ net'.room = net.room /\ link'[o] # None /\ link'[o].n = number + 1
      /\ report.kind = "length" => link'[o].length = report.length
      /\ \A q \in Owners \ {o} : link'[q] = None \/ (link'[q] = link[q] /\ ~MarkedAndUnconfirmed(link[q]))
      /\ \A q \in Owners \ {o} : net.marked /\ link[q] # None /\ ~MarkedAndUnconfirmed(link[q]) => link'[q] = link[q]
      /\ net.marked \/ \A q \in Owners \ {o} : link'[q] = None
  <2>1. net.marked \/ \A q \in Owners \ {o} : link'[q] = None
    <3>1. CASE ~net.marked
      <4>1. Base = NoLinks
        BY <3>1 DEF Base
      <4> DEFINE kept == WithoutSuperseded(Base, o)
      <4>2. \A q \in Owners : kept[q] = None
        BY <4>1, NoLinksTyped DEF WithoutSuperseded
      <4>3. \E length, mark : link' = Confirm(kept, o, length, mark, WasAdopted)
        BY OwnedCases
      <4> HIDE DEF kept
      <4>4. \A q \in Owners \ {o} : link'[q] = kept[q]
        <5>1. kept \in Links
          BY <1>1, <4>1, NoLinksTyped, SupersededFacts DEF kept
        <5> HIDE DEF o
        <5> QED
          BY <1>1, <4>3, <5>1 DEF Confirm, Links
      <4> QED
        BY <4>2, <4>4
    <3> QED
      BY <3>1
  <2> QED
    BY <2>1, OwnedEffect
<1> HIDE DEF o, report
<1>3. ASSUME NEW q \in Owners, Silent(kea, q), link'[q] # None
      PROVE  /\ link[q] # None /\ link'[q] = link[q]
             /\ \A p \in Owners : ~Silent(kea, p) /\ link[p] # None => link'[p] # None
  <2>1. q # o /\ link'[q] = link[q] /\ link[q] # None /\ net.marked
    BY <1>1, <1>2, <1>3
  <2>2. ASSUME NEW p \in Owners, ~Silent(kea, p), link[p] # None PROVE link'[p] # None
    <3>1. p # q
      BY <1>3, <2>2
    <3>2. ~MarkedAndUnconfirmed(link[p])
      BY <2>1, <2>2, <3>1 DEF Alone
    <3> QED
      BY <1>2, <2>1, <2>2, <3>2
  <2> QED
    BY <2>1, <2>2
<1>4. ASSUME NEW p \in Owners, ~Silent(kea, p), link'[p] # None
      PROVE  link'[p] = link[p] \/ (link'[p].n = number + 1 /\ (kea[p].kind = "length" => link'[p].length = kea[p].length))
  BY <1>1, <1>2, <1>4
<1> QED
  BY <1>2, <1>3, <1>4 DEF CalmTo

LEMMA CleanOneCalm ==
    ASSUME IInv, NEW a \in Actors, Active(a), Knows(actor[a], kea, net, link, barrier), CleanOne(a)
    PROVE  CalmTo(kea, number, net, link, net', link')
<1> DEFINE o == Owner(a)  c == actor[a].cutoff[Source(a)]
<1>1. /\ o \in Owners /\ link \in Links /\ c \in Nat /\ number \in Nat
      /\ link[o] # None /\ ~Silent(kea, o) => c <= link[o].n
  <2>1. actor[a].pc = "clean" /\ WorldOK /\ actor[a] \in Local /\ Source(a) \in Sources
    BY OfKnown, OfActor DEF CleanOne
  <2>2. c \in Nat
    BY <2>1 DEF Local
  <2> QED
    BY <2>1, <2>2, OfKnown DEF WorldOK
<1>2. \/ net' = net /\ link' = link
      \/ link' = NoLinks
      \/ /\ link[o] # None /\ link[o].n < c /\ net'.room = net.room
         /\ link' = [link EXCEPT ![o] = None] \/ link' = [link EXCEPT ![o].mark = c]
  BY CleanEffect
<1> HIDE DEF o, c
<1>3. link[o] # None => link[o] \in Link /\ link[o].n \in Nat
  BY <1>1, LinkFacts DEF Links
<1>4. CASE net' = net /\ link' = link
  BY <1>4 DEF CalmTo
<1>5. CASE link' = NoLinks
  BY <1>5, NoLinksCalm
<1>6. ASSUME link[o] # None, link[o].n < c, net'.room = net.room, link' = [link EXCEPT ![o] = None]
      PROVE  CalmTo(kea, number, net, link, net', link')
  <2>1. Silent(kea, o)
    BY <1>1, <1>3, <1>6
  <2>2. \A q \in Owners : link'[q] = IF q = o THEN None ELSE link[q]
    BY <1>1, <1>6 DEF Links
  <2>3. ASSUME NEW q \in Owners, Silent(kea, q), link'[q] # None
        PROVE  link'[q] = link[q] /\ \A p \in Owners : ~Silent(kea, p) /\ link[p] # None => link'[p] # None
    BY <2>1, <2>2, <2>3
  <2>4. \A p \in Owners : ~Silent(kea, p) => link'[p] = link[p]
    BY <2>1, <2>2
  <2> QED
    BY <1>6, <2>3, <2>4 DEF CalmTo
<1>7. ASSUME link[o] # None, link[o].n < c, net'.room = net.room, link' = [link EXCEPT ![o].mark = c]
      PROVE  CalmTo(kea, number, net, link, net', link')
  <2>1. Silent(kea, o)
    BY <1>1, <1>3, <1>7
  <2> DEFINE own == [link[o] EXCEPT !.mark = c]
  <2>2. own.n = link[o].n /\ own.adopted = link[o].adopted /\ own.mark = c /\ link' = [link EXCEPT ![o] = own]
        /\ own \in Link
    BY <1>1, <1>3, <1>7 DEF Link
  <2> HIDE DEF own
  <2>3. own # None /\ MarkedAndUnconfirmed(own)
    <3>1. c # None
      BY <1>1, NetworkAssumption
    <3>2. own.n <= own.mark
      BY <1>1, <1>3, <1>7, <2>2
    <3> QED
      BY <2>2, <3>1, <3>2, LinkFacts DEF MarkedAndUnconfirmed
  <2>4. \A q \in Owners : link'[q] = IF q = o THEN own ELSE link[q]
    BY <1>1, <2>2 DEF Links
  <2> QED
    BY <1>7, <2>1, <2>2, <2>3, <2>4 DEF CalmTo
<1> QED
  BY <1>2, <1>4, <1>5, <1>6, <1>7

------------------------------------------------------------------------------
(* Marked links are alone.                                                 *)

LEMMA OwnedAlone == ASSUME IInv, NEW a \in Actors, ClaimOwned(a) PROVE Alone(net', link')
<1> DEFINE o == Owner(a)
<1>1. /\ o \in Owners /\ number \in Nat /\ link'[o].n = number + 1 /\ (link'[o].mark = None \/ link'[o].mark <= number)
      /\ \A q \in Owners \ {o} : link'[q] = None \/ (link'[q] = link[q] /\ ~MarkedAndUnconfirmed(link[q]))
      /\ link' \in Links /\ link'[o] # None
  <2>1. o \in Owners /\ number \in Nat /\ WorldOK'
    BY OfClaim, OwnedCases, ClaimOwnedWorld
  <2> QED
    BY <2>1, OwnedEffect DEF WorldOK
<1>2. ~MarkedAndUnconfirmed(link'[o])
  <2>1. link'[o] \in Link
    BY <1>1 DEF Links
  <2>2. link'[o].mark \in Nat \union {None}
    BY <2>1, LinkFacts
  <2> HIDE DEF o
  <2> QED
    BY <1>1, <2>2 DEF MarkedAndUnconfirmed
<1> HIDE DEF o
<1>3. \A q \in Owners : link'[q] # None => ~MarkedAndUnconfirmed(link'[q])
  BY <1>1, <1>2
<1> QED
  BY <1>3 DEF Alone

LEMMA CleanAlone == ASSUME IInv, Alone(net, link), NEW a \in Actors, CleanOne(a) PROVE Alone(net', link')
<1> DEFINE o == Owner(a)  c == actor[a].cutoff[Source(a)]
<1>1. o \in Owners /\ link \in Links
  BY OfActor DEF CleanOne, WorldOK
<1>2. \/ net' = net /\ link' = link
      \/ link' = NoLinks
      \/ link[o] # None /\ link' = [link EXCEPT ![o] = None] /\ (net' = net \/ net'.status = "active")
      \/ /\ \A q \in Owners \ {o} : link[q] = None
         /\ net'.status = "deprecated" /\ link' = [link EXCEPT ![o].mark = c]
  BY CleanEffect
<1> HIDE DEF o, c
<1>3. CASE net' = net /\ link' = link
  BY <1>3
<1>4. CASE link' = NoLinks
  BY <1>4, NoLinksTyped DEF Alone
<1>5. CASE link[o] # None /\ link' = [link EXCEPT ![o] = None] /\ (net' = net \/ net'.status = "active")
  <2>1. \A q \in Owners : link'[q] = IF q = o THEN None ELSE link[q]
    BY <1>1, <1>5 DEF Links
  <2>2. \A q \in Owners : link'[q] # None => ~MarkedAndUnconfirmed(link'[q])
    BY <1>1, <1>5, <2>1 DEF Alone
  <2> QED
    BY <2>2 DEF Alone
<1>6. CASE /\ \A q \in Owners \ {o} : link[q] = None
           /\ net'.status = "deprecated" /\ link' = [link EXCEPT ![o].mark = c]
  <2>1. \A q \in Owners \ {o} : link'[q] = None
    BY <1>1, <1>6 DEF Links
  <2> QED
    BY <1>6, <2>1 DEF Alone
<1> QED
  BY <1>2, <1>3, <1>4, <1>5, <1>6

LEMMA OperatorAlone == ASSUME IInv, Alone(net, link), Operator PROVE Alone(net', link')
<1>1. WorldOK
  BY DEF IInv
<1>2. CASE Create
  <2>1. net = None /\ link' = link
    BY <1>2 DEF Create, Rewrite
  <2> QED
    BY <1>1, <2>1 DEF WorldOK, Alone
<1>3. CASE Release \/ MarkAgain
  <2>1. PICK marked \in BOOLEAN : net' = [net EXCEPT !.marked = marked]
    BY <1>3 DEF Release, MarkAgain, Rewrite
  <2>2. net \in Net /\ link' = link
    BY <1>1, <1>3 DEF Release, MarkAgain, Rewrite, WorldOK
  <2>3. net'.status = net.status
    BY <2>1, <2>2 DEF Net
  <2> QED
    BY <2>2, <2>3 DEF Alone
<1>4. CASE Delete
  BY <1>4, NoLinksTyped DEF Delete, Alone
<1>5. CASE Refer \/ FlipBarrier
  <2>1. UNCHANGED <<net, link>>
    BY <1>5 DEF Refer, FlipBarrier
  <2> QED
    BY <2>1
<1>6. ASSUME NEW s \in Servers, DropServer(s) PROVE Alone(net', link')
  <2>1. net' = net /\ link' = [o \in Owners |-> IF o[1] = s THEN None ELSE link[o]]
    BY <1>6 DEF DropServer
  <2>2. \A q \in Owners : link'[q] = None \/ link'[q] = link[q]
    BY <2>1
  <2> QED
    BY <2>1, <2>2 DEF Alone
<1> QED
  BY <1>2, <1>3, <1>4, <1>5, <1>6 DEF Operator

LEMMA AloneNext == IInv /\ Alone(net, link) /\ [Next]_vars => Alone(net', link')
<1> SUFFICES ASSUME IInv, Alone(net, link), [Next]_vars PROVE Alone(net', link')
  OBVIOUS
<1>1. ASSUME UNCHANGED <<net, link>> PROVE Alone(net', link')
  BY <1>1
<1>2. ASSUME NEW a \in Actors, Work(a) PROVE Alone(net', link')
  <2>1. CASE TakeCutoff(a) \/ ReadSnapshot(a) \/ ReadInPart(a) \/ PassPhase(a) \/ RowFails(a) \/ ChooseStale(a)
             \/ CleanFails(a)
    BY <1>1, <2>1 DEF TakeCutoff, ReadSnapshot, ReadInPart, PassPhase, RowFails, ChooseStale, CleanFails
  <2>2. CASE ClaimReleased(a)
    BY <2>2, NoLinksTyped DEF ClaimReleased, Alone
  <2>3. CASE ClaimNew(a)
    <3>1. WorldOK /\ net = None /\ \A q \in Owners : link[q] = None
      BY <2>3, OfClaim DEF ClaimNew, WorldOK
    <3>2. CASE link' = link
      BY <3>1, <3>2 DEF Alone
    <3>3. CASE link' # link
      <4> DEFINE o == Owner(a)  length == actor[a].report[Source(a)].length
      <4>1. link' = Confirm(NoLinks, o, length, None, FALSE)
        BY <2>3, <3>3 DEF ClaimNew
      <4>5. o \in Owners
        BY <2>3, OfClaim DEF ClaimNew
      <4> DEFINE own == [length |-> length, n |-> number + 1, mark |-> None,
                         adopted |-> FALSE \/ (NoLinks[o] # None /\ NoLinks[o].adopted)]
      <4>2. link' = [NoLinks EXCEPT ![o] = own] /\ own.mark = None
        BY <4>1 DEF Confirm
      <4> HIDE DEF own, o, length
      <4>3. link'[o] = own /\ \A q \in Owners \ {o} : link'[q] = None
        BY <4>5, <4>2, NoLinksTyped DEF Links
      <4> QED
        BY <4>2, <4>3 DEF Alone, MarkedAndUnconfirmed
    <3> QED
      BY <3>2, <3>3
  <2> QED
    BY <1>2, <2>1, <2>2, <2>3, OwnedAlone, CleanAlone DEF Work
<1>3. CASE \E a \in Actors, order \in Orders : Start(a, order)
  BY <1>1, <1>3 DEF Start
<1>4. CASE \E m \in Moves : KeaMoves(m.owner, m.report)
  BY <1>1, <1>4 DEF KeaMoves
<1>5. CASE UNCHANGED vars
  BY <1>1, <1>5 DEF vars
<1> QED
  BY <1>2, <1>3, <1>4, <1>5, OperatorAlone DEF Next, Finished

------------------------------------------------------------------------------
(* What the worker that moves knows.                                       *)

\* The worker goes on, and what is new in its progress holds.
LEMMA KnowsMoves ==
    ASSUME NEW l, NEW l2, l2.order = l.order, l2.cutoff = l.cutoff, l2.report = l.report, l2.fresh = l.fresh,
           NEW k, NEW object, NEW ls, NEW bar, Knows(l, k, object, ls, bar), l2.whole \subseteq l.whole,
           \A i \in Indices(l) : (HasRead(l2, i) => HasRead(l, i)) /\ (HasCut(l2, i) => HasCut(l, i)),
           \A i \in Indices(l) :
               HasClaimed(l2, i) /\ ~HasClaimed(l, i) /\ l.order.plan[i] \in l2.whole /\ ~Silent(k, Of(l, i)) =>
                   /\ ls[Of(l, i)] # None =>
                         /\ l.cutoff[l.order.plan[i]] <= ls[Of(l, i)].n
                         /\ k[Of(l, i)].kind = "length" => ls[Of(l, i)].length = k[Of(l, i)].length
                   /\ \A q \in Owners : Silent(k, q) /\ ls[q] # None => ls[Of(l, i)] # None,
           \A i \in Indices(l) :
               HasCleaned(l2, i) /\ l.order.plan[i] \in l2.whole /\ Silent(k, Of(l, i)) =>
                   Gone(Of(l, i), object, ls, bar, Speaks(l2, k))
    PROVE  Knows(l2, k, object, ls, bar)
<1>1. Indices(l2) = Indices(l) /\ \A i : Of(l2, i) = Of(l, i)
  BY DEF Indices, Of
<1>2. Seen(l2, k)
  BY <1>1 DEF Knows, Seen
<1>3. Outdated(l2, k, ls)
  BY <1>1 DEF Knows, Outdated
<1>4. Secured(l2, k, ls)
  BY <1>1 DEF Knows, Secured
<1>5. Cleared(l2, k, object, ls, bar)
  BY <1>1 DEF Cleared
<1> QED
  BY <1>2, <1>3, <1>4, <1>5 DEF Knows

LEMMA OfTyped ==
    ASSUME IInv, NEW a \in Actors, Active(a)
    PROVE  /\ Typed(actor[a]) /\ actor[a] \in Local /\ actor[a].pc # "idle" /\ Works(actor[a]) /\ WorldOK
           /\ number \in Nat /\ \A s \in Sources : actor[a].cutoff[s] \in Nat /\ actor[a].cutoff[s] <= number
           /\ actor[a].phase \in Indices(actor[a]) /\ actor[a].phase \in Nat /\ Len(actor[a].order.plan) \in Nat
           /\ Owner(a) = Of(actor[a], actor[a].phase) /\ Source(a) = actor[a].order.plan[actor[a].phase]
           /\ Owner(a) \in Owners /\ Source(a) \in Sources
<1>1. /\ Typed(actor[a]) /\ actor[a] \in Local /\ actor[a].pc # "idle" /\ Works(actor[a]) /\ WorldOK
      /\ InWorld(actor[a], kea, number, steady, link)
  BY OfActor DEF Active
<1>2. number \in Nat /\ \A s \in Sources : actor[a].cutoff[s] \in Nat /\ actor[a].cutoff[s] <= number
  BY <1>1 DEF WorldOK, InWorld, Local
<1> QED
  BY <1>1, <1>2, OfActor, IndexFacts DEF Of, Owner, Source

LEMMA TakeCutoffKnows ==
    ASSUME IInv, NEW a \in Actors, Active(a), Knows(actor[a], kea, net, link, barrier), TakeCutoff(a)
    PROVE  \E l2 : /\ actor' = [actor EXCEPT ![a] = l2] /\ l2.quiet = actor[a].quiet
                   /\ l2.order = actor[a].order /\ l2.base = actor[a].base
                   /\ Knows(l2, kea, net, link, barrier) /\ \A i \in Indices(l2) : ~HasClaimed(l2, i)
<1> DEFINE l == actor[a]  s0 == Source(a)  cutoff == [l.cutoff EXCEPT ![s0] = number + 1]
           l2 == [l EXCEPT !.pc = "read", !.cutoff = cutoff]
<1>1. /\ l \in Local /\ WorldOK /\ number \in Nat /\ l.phase \in Indices(l) /\ l.phase \in Nat /\ l.pc = "cutoff"
      /\ s0 = l.order.plan[l.phase] /\ s0 \in Sources /\ Typed(l)
      /\ \A i, j \in Indices(l) : l.order.plan[i] = l.order.plan[j] => i = j
      /\ \A i \in Indices(l) : i \in Nat /\ l.order.plan[i] \in Sources /\ Of(l, i) \in Owners
  BY OfTyped, IndexFacts DEF TakeCutoff
<1>2. /\ cutoff[s0] = number + 1 /\ \A s \in Sources \ {s0} : cutoff[s] = l.cutoff[s]
      /\ cutoff \in [Sources -> Nat]
  <2>1. l.cutoff \in [Sources -> Nat]
    BY <1>1 DEF Local
  <2> HIDE DEF l, s0
  <2> QED
    BY <1>1, <2>1
<1>3. actor' = [actor EXCEPT ![a] = [l EXCEPT !.pc = "read", !.cutoff[s0] = number + 1]]
  BY DEF TakeCutoff, Set
<1>4. [l EXCEPT !.pc = "read", !.cutoff[s0] = number + 1] = l2
  <2> HIDE DEF l
  <2> QED
    BY <1>1 DEF Local
<1>5. /\ l2.pc = "read" /\ l2.order = l.order /\ l2.phase = l.phase /\ l2.cutoff = cutoff /\ l2.whole = l.whole
      /\ l2.report = l.report /\ l2.fresh = l.fresh /\ l2.quiet = l.quiet /\ l2.base = l.base
  <2> HIDE DEF cutoff, l
  <2> QED
    BY <1>1, <1>2 DEF Local
<1>6. Knows(l, kea, net, link, barrier) /\ actor' = [actor EXCEPT ![a] = l2]
  BY <1>3, <1>4
<1> HIDE DEF l, l2, cutoff, s0
<1>7. Indices(l2) = Indices(l) /\ \A i : Of(l2, i) = Of(l, i)
  BY <1>5 DEF Indices, Of
<1>8. Seen(l2, kea)
  BY <1>1, <1>5, <1>6, <1>7 DEF Knows, Seen, HasRead
<1>9. Outdated(l2, kea, link)
  <2> SUFFICES ASSUME NEW i \in Indices(l), HasCut(l2, i), Silent(kea, Of(l, i)), link[Of(l, i)] # None
               PROVE  link[Of(l, i)].n < cutoff[l.order.plan[i]]
    BY <1>5, <1>7 DEF Outdated
  <2>1. CASE i = l.phase
    <3>1. link[Of(l, i)].n <= number /\ link[Of(l, i)].n \in Nat
      BY <1>1, LinkFacts DEF WorldOK, Numbered, Links
    <3> QED
      BY <1>1, <1>2, <2>1, <3>1
  <2>2. CASE i # l.phase
    <3>1. HasCut(l, i) /\ l.order.plan[i] # s0
      BY <1>1, <1>5, <2>2 DEF HasCut, HasRead
    <3>2. link[Of(l, i)].n < l.cutoff[l.order.plan[i]]
      BY <1>6, <3>1 DEF Knows, Outdated
    <3> QED
      BY <1>1, <1>2, <3>1, <3>2
  <2> QED
    BY <2>1, <2>2
<1>10. \A i : ~HasClaimed(l2, i) /\ ~HasCleaned(l2, i)
  BY <1>5 DEF HasClaimed, HasCleaned
<1>11. Knows(l2, kea, net, link, barrier)
  BY <1>8, <1>9, <1>10 DEF Knows, Secured, Cleared
<1> QED
  BY <1>5, <1>6, <1>10, <1>11 DEF l

LEMMA ReadSnapshotKnows ==
    ASSUME IInv, NEW a \in Actors, Active(a), Knows(actor[a], kea, net, link, barrier), ReadSnapshot(a)
    PROVE  \E l2 : /\ actor' = [actor EXCEPT ![a] = l2] /\ l2.quiet = actor[a].quiet
                   /\ l2.order = actor[a].order /\ l2.base = actor[a].base
                   /\ Knows(l2, kea, net, link, barrier) /\ \A i \in Indices(l2) : ~HasClaimed(l2, i)
<1> DEFINE l == actor[a]  s0 == Source(a)  report == [l.report EXCEPT ![s0] = kea[Owner(a)]]
           mid == [l EXCEPT !.report = report, !.whole = @ \union {s0}, !.fresh = @ \union {s0}]
           l2 == AfterRead(mid)
<1>1. /\ l \in Local /\ WorldOK /\ l.phase \in Indices(l) /\ l.phase \in Nat /\ l.pc = "read" /\ Len(l.order.plan) \in Nat
      /\ s0 = l.order.plan[l.phase] /\ s0 \in Sources /\ Owner(a) = Of(l, l.phase)
      /\ \A i, j \in Indices(l) : l.order.plan[i] = l.order.plan[j] => i = j
      /\ \A i \in Indices(l) : i \in Nat /\ l.order.plan[i] \in Sources /\ Of(l, i) \in Owners
  BY OfTyped, IndexFacts DEF ReadSnapshot
<1>2. report[s0] = kea[Owner(a)] /\ \A s \in Sources \ {s0} : report[s] = l.report[s]
  <2>1. l.report \in [Sources -> Reports]
    BY <1>1 DEF Local
  <2> HIDE DEF l, s0
  <2> QED
    BY <1>1, <2>1
<1>3. actor' = [actor EXCEPT ![a] =
                  AfterRead([l EXCEPT !.report[s0] = kea[Owner(a)], !.whole = @ \union {s0}, !.fresh = @ \union {s0}])]
  BY DEF ReadSnapshot, Set
<1>4. [l EXCEPT !.report[s0] = kea[Owner(a)], !.whole = @ \union {s0}, !.fresh = @ \union {s0}] = mid
  <2> HIDE DEF l, s0
  <2> QED
    BY <1>1 DEF Local
<1>5. Knows(l, kea, net, link, barrier) /\ actor' = [actor EXCEPT ![a] = l2]
  BY <1>3, <1>4
<1>6. /\ l2.order = l.order /\ l2.cutoff = l.cutoff /\ l2.report = report /\ l2.fresh = l.fresh \union {s0}
      /\ l2.quiet = l.quiet /\ l2.base = l.base
      /\ \/ l.phase < Len(l.order.plan) /\ l2.pc = "cutoff" /\ l2.phase = l.phase + 1
         \/ ~(l.phase < Len(l.order.plan)) /\ l2.pc = "claim" /\ l2.phase = 1
  <2>1. /\ mid.order = l.order /\ mid.cutoff = l.cutoff /\ mid.report = report /\ mid.fresh = l.fresh \union {s0}
        /\ mid.quiet = l.quiet /\ mid.base = l.base /\ mid.phase = l.phase
        /\ DOMAIN mid = DOMAIN l
    <3> HIDE DEF l, s0, report
    <3> QED
      BY <1>1 DEF Local
  <2>2. DOMAIN l = {"pc", "order", "phase", "cutoff", "whole", "report", "fresh", "quiet", "base"}
    <3> HIDE DEF l
    <3> QED
      BY <1>1 DEF Local
  <2> HIDE DEF mid, l, report, s0
  <2> QED
    BY <1>1, <2>1, <2>2 DEF AfterRead
<1> HIDE DEF l, l2, report, s0, mid
<1>7. Indices(l2) = Indices(l) /\ \A i : Of(l2, i) = Of(l, i)
  BY <1>6 DEF Indices, Of
<1>8. \A i \in Indices(l) : HasRead(l2, i) => i = l.phase \/ HasRead(l, i)
  BY <1>1, <1>6 DEF HasRead, Indices
<1>9. Seen(l2, kea)
  <2> SUFFICES ASSUME NEW i \in Indices(l), HasRead(l2, i)
               PROVE  report[l.order.plan[i]] = kea[Of(l, i)] /\ l.order.plan[i] \in l.fresh \union {s0}
    BY <1>6, <1>7 DEF Seen
  <2>1. CASE i = l.phase
    BY <1>1, <1>2, <2>1
  <2>2. CASE i # l.phase
    BY <1>1, <1>2, <1>5, <1>8, <2>2 DEF Knows, Seen
  <2> QED
    BY <2>1, <2>2
<1>10. Outdated(l2, kea, link)
  <2>1. \A i \in Indices(l) : HasCut(l2, i) => HasCut(l, i)
    BY <1>1, <1>6 DEF HasCut, HasRead, Indices
  <2> QED
    BY <1>5, <1>6, <1>7, <2>1 DEF Knows, Outdated
<1>11. \A i \in Indices(l) : ~HasClaimed(l2, i) /\ ~HasCleaned(l2, i)
  BY <1>1, <1>6 DEF HasClaimed, HasCleaned, Indices
<1>12. Knows(l2, kea, net, link, barrier)
  BY <1>7, <1>9, <1>10, <1>11 DEF Knows, Secured, Cleared
<1> QED
  BY <1>5, <1>6, <1>7, <1>11, <1>12 DEF l

\* How a worker goes on after the claim of a phase.
LEMMA AfterClaimMoves ==
    ASSUME IInv, NEW a \in Actors, Active(a), actor[a].pc = "claim", NEW whole \in SUBSET actor[a].whole
    PROVE  LET l == actor[a]
               l2 == AfterClaim([l EXCEPT !.whole = whole])
           IN  \/ l2 = Idle
               \/ /\ l2.order = l.order /\ l2.cutoff = l.cutoff /\ l2.report = l.report /\ l2.fresh = l.fresh
                  /\ l2.quiet = l.quiet /\ l2.base = l.base /\ l2.whole = whole /\ l2.pc \in {"claim", "choose"}
                  /\ \A i \in Indices(l) : /\ HasRead(l, i) /\ HasCut(l, i) /\ ~HasCleaned(l2, i)
                                           /\ HasClaimed(l2, i) => i = l.phase \/ HasClaimed(l, i)
<1> DEFINE l == actor[a]  mid == [l EXCEPT !.whole = whole]  l2 == AfterClaim(mid)
<1>1. l \in Local /\ l.phase \in Indices(l) /\ l.phase \in Nat /\ Len(l.order.plan) \in Nat /\ l.pc = "claim"
  BY OfTyped
<1>2. DOMAIN l = {"pc", "order", "phase", "cutoff", "whole", "report", "fresh", "quiet", "base"}
  <2> HIDE DEF l
  <2> QED
    BY <1>1 DEF Local
<1>3. /\ mid.order = l.order /\ mid.cutoff = l.cutoff /\ mid.report = l.report /\ mid.fresh = l.fresh
      /\ mid.quiet = l.quiet /\ mid.base = l.base /\ mid.phase = l.phase /\ mid.whole = whole /\ mid.pc = l.pc
      /\ DOMAIN mid = DOMAIN l
  <2> HIDE DEF l
  <2> QED
    BY <1>1, <1>2
<1> HIDE DEF mid, l
<1>4. \/ l2 = Idle
      \/ /\ l2.order = l.order /\ l2.cutoff = l.cutoff /\ l2.report = l.report /\ l2.fresh = l.fresh
         /\ l2.quiet = l.quiet /\ l2.base = l.base /\ l2.whole = whole
         /\ \/ l.phase < Len(l.order.plan) /\ l2.pc = "claim" /\ l2.phase = l.phase + 1
            \/ ~(l.phase < Len(l.order.plan)) /\ l2.pc = "choose" /\ l2.phase = 1
  BY <1>1, <1>2, <1>3 DEF AfterClaim
<1> HIDE DEF l2
<1>5. ASSUME l2 # Idle, NEW i \in Indices(l)
      PROVE  /\ HasRead(l, i) /\ HasCut(l, i) /\ ~HasCleaned(l2, i)
             /\ HasClaimed(l2, i) => i = l.phase \/ HasClaimed(l, i)
  BY <1>1, <1>4, <1>5 DEF HasRead, HasCut, HasClaimed, HasCleaned, Indices
<1> QED
  BY <1>4, <1>5 DEF l2, mid, l

\* What a claim leaves behind secures the phase.
ClaimSecures(a) ==
    /\ link'[Owner(a)] # None =>
          /\ actor[a].cutoff[Source(a)] <= link'[Owner(a)].n
          /\ kea[Owner(a)].kind = "length" => link'[Owner(a)].length = kea[Owner(a)].length
    /\ \A q \in Owners : link'[q] # None => link'[Owner(a)] # None

LEMMA ClaimsSecure ==
    ASSUME IInv, NEW a \in Actors, Active(a), Knows(actor[a], kea, net, link, barrier),
           ClaimNew(a) \/ ClaimReleased(a) \/ ClaimOwned(a)
    PROVE  ClaimSecures(a)
<1>1. /\ Owner(a) \in Owners /\ number \in Nat /\ actor[a].cutoff[Source(a)] \in Nat
      /\ actor[a].cutoff[Source(a)] <= number /\ actor[a].report[Source(a)] = kea[Owner(a)] /\ WorldOK
      /\ actor[a].report[Source(a)].kind # "absent" /\ actor[a].report[Source(a)] \in Reports
  BY OfTyped, OfKnown, OfClaim DEF ClaimNew, ClaimReleased, ClaimOwned, Claiming
<1>2. CASE ClaimReleased(a)
  BY <1>1, <1>2, NoLinksTyped DEF ClaimReleased, ClaimSecures
<1>3. CASE ClaimOwned(a)
  <2> DEFINE o == Owner(a)
  <2>1. /\ link'[o] # None /\ link'[o].n = number + 1
        /\ actor[a].report[Source(a)].kind = "length" => link'[o].length = actor[a].report[Source(a)].length
    BY <1>3, OwnedEffect
  <2> HIDE DEF o
  <2>2. /\ actor[a].cutoff[Source(a)] <= link'[o].n
        /\ kea[o].kind = "length" => link'[o].length = kea[o].length
    BY <1>1, <2>1 DEF o
  <2> QED
    BY <2>1, <2>2 DEF ClaimSecures, o
<1>4. CASE ClaimNew(a)
  <2>1. net = None /\ \A q \in Owners : link[q] = None
    BY <1>1, <1>4 DEF ClaimNew, WorldOK
  <2>2. CASE actor[a].report[Source(a)].kind = "clash"
    <3>1. link' = link
      BY <1>4, <2>2 DEF ClaimNew
    <3> QED
      BY <1>1, <2>1, <3>1 DEF ClaimSecures
  <2>3. CASE actor[a].report[Source(a)].kind # "clash"
    <3> DEFINE o == Owner(a)  length == actor[a].report[Source(a)].length
               own == [length |-> length, n |-> number + 1, mark |-> None,
                       adopted |-> FALSE \/ (NoLinks[o] # None /\ NoLinks[o].adopted)]
    <3>1. link' = [NoLinks EXCEPT ![o] = own] /\ own.n = number + 1 /\ own.length = length
      BY <1>4, <2>3 DEF ClaimNew, Confirm
    <3>2. length = kea[o].length
      BY <1>1
    <3>3. own \in Link
      <4>1. length \in Lengths
        BY <1>1, <2>3, ReportFacts
      <4> DEFINE adopted == FALSE \/ (NoLinks[o] # None /\ NoLinks[o].adopted)
      <4>2. own = [length |-> length, n |-> number + 1, mark |-> None, adopted |-> adopted] /\ adopted \in BOOLEAN
        BY <1>1, NoLinksTyped
      <4> HIDE DEF own, length, adopted
      <4> QED
        BY <1>1, <4>1, <4>2 DEF Link
    <3> HIDE DEF own, length, o
    <3>4. link'[o] = own /\ own # None
      BY <1>1, <3>1, <3>3, LinkFacts, NoLinksTyped DEF Links, o
    <3>5. actor[a].cutoff[Source(a)] <= own.n
      BY <1>1, <3>1
    <3> QED
      BY <3>1, <3>2, <3>4, <3>5 DEF ClaimSecures, o
  <2> QED
    BY <2>2, <2>3
<1> QED
  BY <1>2, <1>3, <1>4

LEMMA ClaimCalm ==
    ASSUME IInv, Alone(net, link), NEW a \in Actors, Active(a), Knows(actor[a], kea, net, link, barrier),
           ClaimNew(a) \/ ClaimReleased(a) \/ ClaimOwned(a)
    PROVE  CalmTo(kea, number, net, link, net', link')
BY ClaimNewCalm, ClaimOwnedCalm, NoLinksCalm DEF ClaimReleased

LEMMA ClaimKnows ==
    ASSUME IInv, Alone(net, link), NEW a \in Actors, Active(a), Knows(actor[a], kea, net, link, barrier),
           ClaimNew(a) \/ ClaimReleased(a) \/ ClaimOwned(a)
    PROVE  \E l2 : /\ actor' = [actor EXCEPT ![a] = l2]
                   /\ \/ l2 = Idle
                      \/ /\ l2.quiet = actor[a].quiet /\ l2.order = actor[a].order /\ l2.base = actor[a].base
                         /\ Knows(l2, kea, net', link', barrier) /\ l2.whole = actor[a].whole
                         /\ \A i \in Indices(l2) : HasClaimed(l2, i) => i = actor[a].phase \/ HasClaimed(actor[a], i)
<1> DEFINE l == actor[a]  l2 == AfterClaim(l)
<1>1. l.pc = "claim" /\ actor' = [actor EXCEPT ![a] = l2]
  BY DEF ClaimNew, ClaimReleased, ClaimOwned, Claiming, EndClaim, Set
<1>2. /\ Owner(a) = Of(l, l.phase) /\ Source(a) = l.order.plan[l.phase] /\ Typed(l) /\ number \in Nat
      /\ \A s \in Sources : l.cutoff[s] <= number
      /\ l \in Local
  BY OfTyped
<1>3. CalmTo(kea, number, net, link, net', link') /\ ClaimSecures(a)
  BY ClaimCalm, ClaimsSecure
<1>4. Knows(l, kea, net', link', barrier)
  BY <1>1, <1>2, <1>3, KnowsStays
<1>5. [l EXCEPT !.whole = l.whole] = l
  <2> HIDE DEF l
  <2> QED
    BY <1>2 DEF Local
<1>6. \/ l2 = Idle
      \/ /\ l2.order = l.order /\ l2.cutoff = l.cutoff /\ l2.report = l.report /\ l2.fresh = l.fresh
         /\ l2.quiet = l.quiet /\ l2.base = l.base /\ l2.whole = l.whole
         /\ \A i \in Indices(l) : /\ HasRead(l, i) /\ HasCut(l, i) /\ ~HasCleaned(l2, i)
                                  /\ HasClaimed(l2, i) => i = l.phase \/ HasClaimed(l, i)
  <2>1. l2 = AfterClaim([l EXCEPT !.whole = l.whole])
    BY <1>5
  <2>2. l.whole \in SUBSET actor[a].whole /\ l.pc = "claim"
    BY <1>1
  <2> HIDE DEF l2
  <2> QED
    BY <2>1, <2>2, AfterClaimMoves
<1> HIDE DEF l2
<1>7. ASSUME l2 # Idle PROVE Knows(l2, kea, net', link', barrier)
  <2>1. ASSUME NEW i \in Indices(l), HasClaimed(l2, i), ~HasClaimed(l, i), l.order.plan[i] \in l2.whole,
               ~Silent(kea, Of(l, i))
        PROVE  /\ link'[Of(l, i)] # None =>
                     /\ l.cutoff[l.order.plan[i]] <= link'[Of(l, i)].n
                     /\ kea[Of(l, i)].kind = "length" => link'[Of(l, i)].length = kea[Of(l, i)].length
               /\ \A q \in Owners : Silent(kea, q) /\ link'[q] # None => link'[Of(l, i)] # None
    <3>1. i = l.phase
      BY <1>6, <1>7, <2>1
    <3>2. Of(l, i) = Owner(a) /\ l.order.plan[i] = Source(a)
      BY <1>2, <3>1
    <3> QED
      BY <1>3, <3>2 DEF ClaimSecures
  <2> HIDE DEF l
  <2> QED
    BY <1>4, <1>6, <1>7, <2>1, KnowsMoves
<1>8. l2 # Idle => Indices(l2) = Indices(l)
  BY <1>6 DEF Indices
<1> QED
  BY <1>1, <1>6, <1>7, <1>8 DEF l

LEMMA PassKnows ==
    ASSUME IInv, NEW a \in Actors, Active(a), Knows(actor[a], kea, net, link, barrier), PassPhase(a)
    PROVE  \E l2 : /\ actor' = [actor EXCEPT ![a] = l2]
                   /\ \/ l2 = Idle
                      \/ /\ l2.quiet = actor[a].quiet /\ l2.order = actor[a].order /\ l2.base = actor[a].base
                         /\ Knows(l2, kea, net, link, barrier) /\ l2.whole \subseteq actor[a].whole
                         /\ \A i \in Indices(l2) : HasClaimed(l2, i) /\ l2.order.plan[i] \in l2.whole =>
                               Silent(kea, Of(l2, i)) \/ HasClaimed(actor[a], i)
<1> DEFINE l == actor[a]
           rests == Source(a) = "lease" /\ l.order.kind = "job" /\ "subnet" \notin l.whole
           whole == IF rests THEN l.whole \ {"lease"} ELSE l.whole
           l2 == AfterClaim([l EXCEPT !.whole = whole])
<1>1. l.pc = "claim" /\ actor' = [actor EXCEPT ![a] = l2] /\ ~Claims(l, Source(a)) /\ whole \in SUBSET l.whole
  BY DEF PassPhase, Set
<1>2. /\ Owner(a) = Of(l, l.phase) /\ Source(a) = l.order.plan[l.phase] /\ l.report[Source(a)] = kea[Owner(a)]
  BY <1>1, OfKnown
<1>3. Source(a) \in whole => Silent(kea, Owner(a))
  BY <1>1, <1>2 DEF Claims, Silent
<1> HIDE DEF whole
<1>4. \/ l2 = Idle
      \/ /\ l2.order = l.order /\ l2.cutoff = l.cutoff /\ l2.report = l.report /\ l2.fresh = l.fresh
         /\ l2.quiet = l.quiet /\ l2.base = l.base /\ l2.whole = whole
         /\ \A i \in Indices(l) : /\ HasRead(l, i) /\ HasCut(l, i) /\ ~HasCleaned(l2, i)
                                  /\ HasClaimed(l2, i) => i = l.phase \/ HasClaimed(l, i)
  BY <1>1, AfterClaimMoves
<1>5. Knows(l, kea, net, link, barrier)
  OBVIOUS
<1> HIDE DEF l2, l
<1>6. \A i \in Indices(l) : HasClaimed(l2, i) /\ l2 # Idle /\ l.order.plan[i] \in whole =>
          Silent(kea, Of(l, i)) \/ HasClaimed(l, i)
  BY <1>2, <1>3, <1>4
<1>7. l2 # Idle => Indices(l2) = Indices(l) /\ \A i : Of(l2, i) = Of(l, i)
  BY <1>4 DEF Indices, Of
<1>8. l2 # Idle => Knows(l2, kea, net, link, barrier)
  BY <1>1, <1>4, <1>5, <1>6, KnowsMoves
<1> QED
  BY <1>1, <1>4, <1>6, <1>7, <1>8 DEF l

\* The worker after the cleanup of a phase, before it ends when this was the last one.
Further(l) == [l EXCEPT !.phase = @ + 1, !.pc = "choose"]

\* When a source of the plan speaks, its link is beside the one of a silent owner.
LEMMA SpeakersLink ==
    ASSUME IInv, NEW a \in Actors, Active(a), Knows(actor[a], kea, net, link, barrier),
           actor[a].pc \in {"choose", "clean"}, Speaks(actor[a], kea),
           NEW o \in Owners, Silent(kea, o), link[o] # None
    PROVE  \E q \in Owners \ {o} : link[q] # None
<1>1. PICK i \in Indices(actor[a]) : actor[a].order.plan[i] \in actor[a].whole /\ ~Silent(kea, Of(actor[a], i))
  BY DEF Speaks
<1>2. Of(actor[a], i) \in Owners
  BY OfTyped, IndexFacts
<1>3. link[Of(actor[a], i)] # None
  BY <1>1 DEF Knows, Secured, HasClaimed
<1> QED
  BY <1>1, <1>2, <1>3

LEMMA CleanOneGone ==
    ASSUME IInv, Alone(net, link), NEW a \in Actors, Active(a), Knows(actor[a], kea, net, link, barrier), CleanOne(a),
           Silent(kea, Owner(a))
    PROVE  Gone(Owner(a), net', link', barrier, Speaks(actor[a], kea))
<1> DEFINE o == Owner(a)  c == actor[a].cutoff[Source(a)]  speaks == Speaks(actor[a], kea)
           sole == \A q \in Owners \ {o} : link[q] = None
<1>1. o \in Owners /\ actor[a].pc = "clean" /\ link \in Links /\ c \in Nat
  BY OfTyped DEF CleanOne, WorldOK
<1>2. speaks /\ link[o] # None => ~sole
  BY <1>1, SpeakersLink
<1>3. link[o] # None => link[o].n < c
  BY <1>1, OfTyped DEF Knows, Outdated, HasCut, HasRead
<1>4. \/ /\ net' = net /\ link' = link
         /\ link[o] = None \/ ~(link[o].n < c) \/ MarkedAndUnconfirmed(link[o]) \/ net.room < 2
              \/ (sole /\ link[o].adopted /\ barrier)
      \/ link[o] # None /\ link' = NoLinks
      \/ link[o] # None /\ link' = [link EXCEPT ![o] = None]
      \/ link[o] # None /\ sole /\ link' = [link EXCEPT ![o].mark = c]
  BY CleanEffect
<1>5. Silent(kea, o) /\ (link[o] # None /\ MarkedAndUnconfirmed(link[o]) => sole)
  BY <1>1 DEF Alone
<1> HIDE DEF o, c, sole, speaks
<1>6. CASE /\ net' = net /\ link' = link
           /\ link[o] = None \/ ~(link[o].n < c) \/ MarkedAndUnconfirmed(link[o]) \/ net.room < 2
                \/ (sole /\ link[o].adopted /\ barrier)
  <2>1. Gone(o, net, link, barrier, speaks)
    BY <1>2, <1>3, <1>5, <1>6 DEF Gone
  <2> QED
    BY <1>6, <2>1 DEF o, speaks
<1>7. CASE link' = NoLinks \/ link' = [link EXCEPT ![o] = None]
  <2>1. link'[o] = None
    BY <1>1, <1>7, NoLinksTyped DEF Links
  <2> QED
    BY <2>1 DEF Gone, o
<1>8. CASE link[o] # None /\ sole /\ link' = [link EXCEPT ![o].mark = c]
  <2> DEFINE own == [link[o] EXCEPT !.mark = c]
  <2>1. link[o] \in Link /\ link[o].n \in Nat
    BY <1>1, <1>8, LinkFacts DEF Links
  <2>2. own.n = link[o].n /\ own.mark = c
    BY <2>1 DEF Link
  <2>3. link' = [link EXCEPT ![o] = own]
    BY <1>8
  <2> HIDE DEF own
  <2>4. link'[o] = own
    BY <1>1, <2>3 DEF Links
  <2>5. MarkedAndUnconfirmed(own)
    <3>1. c # None /\ own.n <= own.mark
      BY <1>1, <1>3, <1>8, <2>1, <2>2, NetworkAssumption
    <3> QED
      BY <2>2, <3>1 DEF MarkedAndUnconfirmed
  <2> QED
    BY <1>2, <1>8, <2>4, <2>5 DEF Gone, o, speaks
<1> QED
  BY <1>4, <1>6, <1>7, <1>8

\* The end of a cleanup, whether it took the lock or found nothing to do.
LEMMA CleanupKnows ==
    ASSUME IInv, Alone(net, link), NEW a \in Actors, Active(a), Knows(actor[a], kea, net, link, barrier),
           CleanOne(a) \/ (ChooseStale(a) /\ ~(Source(a) \in actor[a].whole /\ Candidate(a)))
    PROVE  /\ actor' = [actor EXCEPT ![a] = AfterCleanup(actor[a])] /\ NextCleanup(a)
           /\ actor[a].pc \in {"choose", "clean"}
           /\ CalmTo(kea, number, net, link, net', link')
           /\ Knows(Further(actor[a]), kea, net', link', barrier)
<1> DEFINE l == actor[a]  l2 == Further(l)
<1>1. /\ NextCleanup(a) /\ l.pc \in {"choose", "clean"}
      /\ CleanOne(a) => l.pc = "clean"
  BY DEF CleanOne, ChooseStale
<1>2. actor' = [actor EXCEPT ![a] = AfterCleanup(l)]
  BY <1>1, NextCleanupMoves
<1>3. /\ Typed(l) /\ l \in Local /\ number \in Nat /\ \A s \in Sources : l.cutoff[s] <= number
      /\ l.phase \in Indices(l) /\ l.phase \in Nat /\ Owner(a) = Of(l, l.phase) /\ Source(a) = l.order.plan[l.phase]
      /\ l.pc # "idle"
  BY OfTyped
<1>4. CalmTo(kea, number, net, link, net', link')
  <2>1. CASE CleanOne(a)
    BY <2>1, CleanOneCalm
  <2>2. CASE ChooseStale(a)
    <3>1. UNCHANGED <<net, link>>
      BY <2>2 DEF ChooseStale
    <3> QED
      BY <3>1 DEF CalmTo
  <2> QED
    BY <2>1, <2>2
<1>5. Knows(l, kea, net', link', barrier)
  BY <1>3, <1>4, KnowsStays
<1>6. Source(a) \in l.whole /\ Silent(kea, Owner(a)) => Gone(Owner(a), net', link', barrier, Speaks(l, kea))
  <2>1. CASE CleanOne(a)
    BY <2>1, CleanOneGone
  <2>2. CASE ChooseStale(a) /\ ~(Source(a) \in l.whole /\ Candidate(a))
    <3>1. Source(a) \in l.whole /\ Silent(kea, Owner(a)) /\ link[Owner(a)] # None =>
             link[Owner(a)].n < l.cutoff[Source(a)]
      BY <1>1, <1>3 DEF Knows, Outdated, HasCut, HasRead
    <3>2. Source(a) \in l.whole /\ Silent(kea, Owner(a)) => link[Owner(a)] = None
      BY <2>2, <3>1 DEF Candidate
    <3>3. link' = link
      BY <2>2 DEF ChooseStale
    <3> QED
      BY <3>2, <3>3 DEF Gone
  <2> QED
    BY <2>1, <2>2
<1>7. /\ l2.order = l.order /\ l2.cutoff = l.cutoff /\ l2.report = l.report /\ l2.fresh = l.fresh
      /\ l2.whole = l.whole /\ l2.pc = "choose" /\ l2.phase = l.phase + 1
  <2> HIDE DEF l
  <2> QED
    BY <1>3 DEF Further, Local
<1> HIDE DEF l2, l
<1>8. \A i \in Indices(l) : /\ HasRead(l, i) /\ HasCut(l, i) /\ HasClaimed(l, i)
                            /\ HasCleaned(l2, i) => i = l.phase \/ HasCleaned(l, i)
  BY <1>1, <1>3, <1>7 DEF HasRead, HasCut, HasClaimed, HasCleaned, Indices
<1>9. Speaks(l2, kea) = Speaks(l, kea)
  BY <1>7 DEF Speaks, Indices, Of
<1>10. \A i \in Indices(l) : HasCleaned(l2, i) /\ l.order.plan[i] \in l2.whole /\ Silent(kea, Of(l, i)) =>
          Gone(Of(l, i), net', link', barrier, Speaks(l2, kea))
  <2> SUFFICES ASSUME NEW i \in Indices(l), HasCleaned(l2, i), l.order.plan[i] \in l.whole, Silent(kea, Of(l, i))
               PROVE  Gone(Of(l, i), net', link', barrier, Speaks(l, kea))
    BY <1>7, <1>9
  <2>1. CASE i = l.phase
    BY <1>3, <1>6, <2>1
  <2>2. CASE i # l.phase
    BY <1>5, <1>8, <2>2 DEF Knows, Cleared
  <2> QED
    BY <2>1, <2>2
<1>11. Knows(l2, kea, net', link', barrier)
  BY <1>5, <1>7, <1>8, <1>10, KnowsMoves
<1> QED
  BY <1>1, <1>2, <1>4, <1>11 DEF l, l2

\* The choice of a link to clean changes nothing that the worker knows.
LEMMA ChooseKnows ==
    ASSUME IInv, NEW a \in Actors, Active(a), Knows(actor[a], kea, net, link, barrier),
           ChooseStale(a), Source(a) \in actor[a].whole /\ Candidate(a)
    PROVE  LET l2 == [actor[a] EXCEPT !.pc = "clean"]
           IN  /\ actor' = [actor EXCEPT ![a] = l2] /\ UNCHANGED <<kea, net, link, number, barrier, steady, rounds>>
               /\ l2.quiet = actor[a].quiet /\ l2.order = actor[a].order /\ l2.base = actor[a].base
               /\ l2.whole = actor[a].whole /\ Knows(l2, kea, net, link, barrier)
               /\ \A i : HasClaimed(actor[a], i)
<1> DEFINE l == actor[a]  l2 == [l EXCEPT !.pc = "clean"]
<1>1. actor' = [actor EXCEPT ![a] = l2] /\ UNCHANGED <<kea, net, link, number, barrier, steady, rounds>> /\ l.pc = "choose"
  BY DEF ChooseStale, Set
<1>2. l \in Local /\ Knows(l, kea, net, link, barrier)
  BY OfTyped
<1> HIDE DEF l
<1>3. /\ l2.order = l.order /\ l2.cutoff = l.cutoff /\ l2.report = l.report /\ l2.fresh = l.fresh
      /\ l2.whole = l.whole /\ l2.pc = "clean" /\ l2.phase = l.phase /\ l2.quiet = l.quiet /\ l2.base = l.base
  BY <1>2 DEF Local
<1> HIDE DEF l2
<1>4. /\ \A i : HasRead(l, i) /\ HasCut(l, i) /\ HasClaimed(l, i) /\ (HasCleaned(l2, i) => HasCleaned(l, i))
      /\ Speaks(l2, kea) = Speaks(l, kea)
  BY <1>1, <1>3 DEF HasRead, HasCut, HasClaimed, HasCleaned, Speaks, Indices, Of
<1>5. Knows(l2, kea, net, link, barrier)
  <2>1. \A i \in Indices(l) : HasCleaned(l2, i) /\ l.order.plan[i] \in l2.whole /\ Silent(kea, Of(l, i)) =>
            Gone(Of(l, i), net, link, barrier, Speaks(l2, kea))
    BY <1>2, <1>3, <1>4 DEF Knows, Cleared
  <2> QED
    BY <1>2, <1>3, <1>4, <2>1, KnowsMoves
<1> QED
  BY <1>1, <1>3, <1>4, <1>5 DEF l, l2

------------------------------------------------------------------------------
(* The quiet workers know the world.                                       *)

\* The steps of a worker that met a fault.
Fails(a) == ReadInPart(a) \/ RowFails(a) \/ CleanFails(a)

\* No worker that runs is quiet beside one that is not, nobody is disturbed while a job counts, and the quiet ones know.
CalmInv ==
    /\ \A a, b \in Actors : Active(a) /\ Active(b) /\ actor[a].quiet => actor[b].quiet
    /\ \A a \in Actors, s \in Servers : Active(a) /\ rounds[s] # 0 => actor[a].quiet
    /\ \A a \in Actors : Active(a) /\ actor[a].quiet => Knows(actor[a], kea, net, link, barrier)

LEMMA WorkActive ==
    ASSUME IInv, NEW a \in Actors, Work(a)
    PROVE  Active(a) /\ (~Fails(a) => UNCHANGED <<kea, barrier, referred>>)
BY DEF Work, Active, TakeCutoff, ReadSnapshot, ReadInPart, PassPhase, RowFails, ClaimNew, ClaimReleased, ClaimOwned,
       Claiming, EndClaim, ChooseStale, CleanOne, CleanFails, Fails

\* How a worker goes on, whatever it knows.
LEMMA WorkGoesOn ==
    ASSUME IInv, NEW a \in Actors, Work(a), ~Fails(a)
    PROVE  \E l2 : /\ actor' = [actor EXCEPT ![a] = l2]
                   /\ l2 = Idle \/ (l2.quiet = actor[a].quiet /\ l2.order = actor[a].order /\ l2.base = actor[a].base)
<1> DEFINE l == actor[a]  Goes(l2) == l2.quiet = l.quiet /\ l2.order = l.order /\ l2.base = l.base
<1>1. Active(a) /\ l \in Local
  BY WorkActive, OfTyped
<1>2. ASSUME NEW l2, actor' = [actor EXCEPT ![a] = l2], l2 = Idle \/ Goes(l2)
      PROVE  \E l3 : /\ actor' = [actor EXCEPT ![a] = l3]
                     /\ l3 = Idle \/ (l3.quiet = actor[a].quiet /\ l3.order = actor[a].order /\ l3.base = actor[a].base)
  BY <1>2
<1>3. CASE TakeCutoff(a)
  <2> DEFINE s0 == Source(a)  l2 == [l EXCEPT !.pc = "read", !.cutoff[s0] = number + 1]
  <2>1. actor' = [actor EXCEPT ![a] = l2]
    BY <1>3 DEF TakeCutoff, Set
  <2>2. Goes(l2)
    <3> HIDE DEF l, s0
    <3> QED
      BY <1>1 DEF Local
  <2> HIDE DEF l2, Goes
  <2> QED
    BY <1>2, <2>1, <2>2
<1>4. CASE ReadSnapshot(a)
  <2> DEFINE s0 == Source(a)  k0 == kea[Owner(a)]
             mid == [l EXCEPT !.report[s0] = k0, !.whole = @ \union {s0}, !.fresh = @ \union {s0}]
             l2 == AfterRead(mid)
  <2>1. actor' = [actor EXCEPT ![a] = l2]
    BY <1>4 DEF ReadSnapshot, Set
  <2>2. mid.quiet = l.quiet /\ mid.order = l.order /\ mid.base = l.base /\ DOMAIN mid = DOMAIN l
    <3> HIDE DEF l, s0, k0
    <3> QED
      BY <1>1 DEF Local
  <2>3. DOMAIN l = {"pc", "order", "phase", "cutoff", "whole", "report", "fresh", "quiet", "base"}
    <3> HIDE DEF l
    <3> QED
      BY <1>1 DEF Local
  <2>4. Goes(l2)
    <3> HIDE DEF mid, l
    <3> QED
      BY <2>2, <2>3 DEF AfterRead
  <2> HIDE DEF l2, Goes
  <2> QED
    BY <1>2, <2>1, <2>4
<1>5. CASE PassPhase(a)
  <2> DEFINE whole == IF Source(a) = "lease" /\ l.order.kind = "job" /\ "subnet" \notin l.whole THEN l.whole \ {"lease"}
                                                                                              ELSE l.whole
             l2 == AfterClaim([l EXCEPT !.whole = whole])
  <2>1. actor' = [actor EXCEPT ![a] = l2] /\ l.pc = "claim" /\ whole \in SUBSET l.whole
    BY <1>5 DEF PassPhase, Set
  <2> HIDE DEF whole
  <2>2. l2 = Idle \/ Goes(l2)
    BY <1>1, <2>1, AfterClaimMoves
  <2> HIDE DEF l2, Goes
  <2> QED
    BY <1>2, <2>1, <2>2
<1>6. CASE ClaimNew(a) \/ ClaimReleased(a) \/ ClaimOwned(a)
  <2> DEFINE l2 == AfterClaim(l)
  <2>1. actor' = [actor EXCEPT ![a] = l2] /\ l.pc = "claim" /\ l.whole \in SUBSET l.whole
    BY <1>6 DEF ClaimNew, ClaimReleased, ClaimOwned, Claiming, EndClaim, Set
  <2>2. [l EXCEPT !.whole = l.whole] = l
    <3> HIDE DEF l
    <3> QED
      BY <1>1 DEF Local
  <2>3. AfterClaim([l EXCEPT !.whole = l.whole]) = Idle \/ Goes(AfterClaim([l EXCEPT !.whole = l.whole]))
    BY <1>1, <2>1, AfterClaimMoves
  <2>4. l2 = Idle \/ Goes(l2)
    <3> HIDE DEF l, Goes
    <3> QED
      BY <2>2, <2>3
  <2> HIDE DEF l2, Goes
  <2> QED
    BY <1>2, <2>1, <2>4
<1>7. CASE ChooseStale(a) /\ Source(a) \in l.whole /\ Candidate(a)
  <2> DEFINE l2 == [l EXCEPT !.pc = "clean"]
  <2>1. actor' = [actor EXCEPT ![a] = l2]
    BY <1>7 DEF ChooseStale, Set
  <2>2. Goes(l2)
    <3> HIDE DEF l
    <3> QED
      BY <1>1 DEF Local
  <2> HIDE DEF l2, Goes
  <2> QED
    BY <1>2, <2>1, <2>2
<1>8. CASE CleanOne(a) \/ (ChooseStale(a) /\ ~(Source(a) \in l.whole /\ Candidate(a)))
  <2>1. NextCleanup(a) /\ l.pc \in {"choose", "clean"}
    BY <1>8 DEF CleanOne, ChooseStale
  <2> DEFINE l2 == AfterCleanup(l)
  <2>2. actor' = [actor EXCEPT ![a] = l2]
    BY <2>1, NextCleanupMoves
  <2>3. l2 = Idle \/ Goes(l2)
    <3> HIDE DEF l
    <3> QED
      BY <1>1 DEF Local, AfterCleanup
  <2> HIDE DEF l2, Goes
  <2> QED
    BY <1>2, <2>2, <2>3
<1> QED
  BY <1>3, <1>4, <1>5, <1>6, <1>7, <1>8 DEF Work, Fails

\* The steps that end the cleanup of a phase.
PhaseEnds(a) == CleanOne(a) \/ (ChooseStale(a) /\ ~(Source(a) \in actor[a].whole /\ Candidate(a)))

\* Only the end of a job that counts adds to a count.
LEMMA RoundsMove ==
    ASSUME IInv, NEW a \in Actors, Work(a), ~Fails(a)
    PROVE  \/ rounds' = rounds
           \/ rounds' = Recounted(a)
           \/ Counts(a) /\ PhaseEnds(a) /\ rounds' = [Recounted(a) EXCEPT ![actor[a].order.server] = @ + 1]
BY DEF Work, TakeCutoff, ReadSnapshot, PassPhase, ClaimNew, ClaimReleased, ClaimOwned, EndClaim, ChooseStale, CleanOne,
       NextCleanup, PhaseEnds, Fails

\* Whoever disturbs the workers takes their quiet and the counts.
Loud == (\A b \in Actors : ~actor'[b].quiet) /\ \A s \in Servers : rounds'[s] = 0

LEMMA QuietedLoud ==
    ASSUME NEW local, actor' = Quieted(local), actor' \in [Actors -> Local], rounds' = [s \in Servers |-> 0]
    PROVE  Loud
<1>1. ASSUME NEW b \in Actors PROVE ~actor'[b].quiet
  <2> DEFINE l == local[b]
  <2>1. actor'[b] = [l EXCEPT !.quiet = FALSE] /\ actor'[b] \in Local
    BY DEF Quieted
  <2>2. DOMAIN [l EXCEPT !.quiet = FALSE] = DOMAIN l
    OBVIOUS
  <2> HIDE DEF l
  <2>3. "quiet" \in DOMAIN actor'[b]
    BY <2>1 DEF Local
  <2>4. "quiet" \in DOMAIN l
    BY <2>1, <2>2, <2>3
  <2> QED
    BY <2>1, <2>4
<1> QED
  BY <1>1 DEF Loud

LEMMA FailsLoud == ASSUME IInv, NEW a \in Actors, Fails(a) PROVE Loud
<1>1. IInv'
  BY ReadsKeep, PassKeeps, CleanFailsKeeps DEF Fails
<1>2. actor' \in [Actors -> Local]
  BY <1>1 DEF IInv, ActorsOK
<1>3. rounds' = [s \in Servers |-> 0] /\ \E local : actor' = Quieted(local)
  BY DEF Fails, ReadInPart, RowFails, CleanFails, Disturbed
<1> QED
  BY <1>2, <1>3, QuietedLoud

LEMMA OthersLoud ==
    ASSUME IInv, Operator \/ \E m \in Moves : KeaMoves(m.owner, m.report)
    PROVE  Loud
<1>1. IInv'
  BY OperatorKeeps, KeaMovesKeeps
<1>2. actor' \in [Actors -> Local]
  BY <1>1 DEF IInv, ActorsOK
<1>3. rounds' = [s \in Servers |-> 0] /\ \E local : actor' = Quieted(local)
  BY DEF Operator, Create, Release, MarkAgain, Delete, Refer, FlipBarrier, DropServer, Rewrite, Edit, KeaMoves
<1> QED
  BY <1>2, <1>3, QuietedLoud

\* A worker that knows the world knows the one after its step, and is calm to the others.
LEMMA QuietStep ==
    ASSUME IInv, Alone(net, link), NEW a \in Actors, Work(a), ~Fails(a), Knows(actor[a], kea, net, link, barrier)
    PROVE  /\ CalmTo(kea, number, net, link, net', link')
           /\ actor'[a] = Idle \/ Knows(actor'[a], kea, net', link', barrier)
<1>1. Active(a) /\ actor \in [Actors -> Local]
  BY WorkActive DEF IInv, ActorsOK
<1>2. ASSUME UNCHANGED <<net, link>> PROVE CalmTo(kea, number, net, link, net', link')
  BY <1>2 DEF CalmTo
<1>3. CASE TakeCutoff(a) \/ ReadSnapshot(a)
  <2>1. UNCHANGED <<net, link>>
    BY <1>3 DEF TakeCutoff, ReadSnapshot
  <2>2. PICK l2 : actor' = [actor EXCEPT ![a] = l2] /\ Knows(l2, kea, net, link, barrier)
    BY <1>1, <1>3, TakeCutoffKnows, ReadSnapshotKnows
  <2>3. actor'[a] = l2
    BY <1>1, <2>2
  <2> QED
    BY <1>2, <2>1, <2>2, <2>3
<1>4. CASE PassPhase(a)
  <2>1. UNCHANGED <<net, link>>
    BY <1>4 DEF PassPhase
  <2>2. PICK l2 : actor' = [actor EXCEPT ![a] = l2] /\ (l2 = Idle \/ Knows(l2, kea, net, link, barrier))
    BY <1>1, <1>4, PassKnows
  <2>3. actor'[a] = l2
    BY <1>1, <2>2
  <2> QED
    BY <1>2, <2>1, <2>2, <2>3
<1>5. CASE ClaimNew(a) \/ ClaimReleased(a) \/ ClaimOwned(a)
  <2>1. CalmTo(kea, number, net, link, net', link')
    BY <1>1, <1>5, ClaimCalm
  <2>2. PICK l2 : actor' = [actor EXCEPT ![a] = l2] /\ (l2 = Idle \/ Knows(l2, kea, net', link', barrier))
    BY <1>1, <1>5, ClaimKnows
  <2>3. actor'[a] = l2
    BY <1>1, <2>2
  <2> QED
    BY <2>1, <2>2, <2>3
<1>6. CASE ChooseStale(a) /\ Source(a) \in actor[a].whole /\ Candidate(a)
  <2> DEFINE l2 == [actor[a] EXCEPT !.pc = "clean"]
  <2>1. UNCHANGED <<net, link>> /\ actor' = [actor EXCEPT ![a] = l2] /\ Knows(l2, kea, net, link, barrier)
    BY <1>1, <1>6, ChooseKnows
  <2> HIDE DEF l2
  <2>2. actor'[a] = l2
    BY <1>1, <2>1
  <2> QED
    BY <1>2, <2>1, <2>2
<1>7. CASE CleanOne(a) \/ (ChooseStale(a) /\ ~(Source(a) \in actor[a].whole /\ Candidate(a)))
  <2>1. /\ actor' = [actor EXCEPT ![a] = AfterCleanup(actor[a])]
        /\ CalmTo(kea, number, net, link, net', link')
        /\ Knows(Further(actor[a]), kea, net', link', barrier)
    BY <1>1, <1>7, CleanupKnows
  <2>2. actor'[a] = AfterCleanup(actor[a])
    BY <1>1, <2>1
  <2>3. AfterCleanup(actor[a]) = Idle \/ AfterCleanup(actor[a]) = Further(actor[a])
    BY DEF AfterCleanup, Further
  <2> QED
    BY <2>1, <2>2, <2>3
<1> QED
  BY <1>3, <1>4, <1>5, <1>6, <1>7 DEF Work, Fails

\* A worker that does not move keeps what it knows while a calm one steps.
LEMMA OthersKnow ==
    ASSUME IInv, Alone(net, link), NEW a \in Actors, Work(a), ~Fails(a), Knows(actor[a], kea, net, link, barrier),
           NEW b \in Actors, Active(b), Knows(actor[b], kea, net, link, barrier)
    PROVE  Knows(actor[b], kea, net', link', barrier)
<1>1. CalmTo(kea, number, net, link, net', link')
  BY QuietStep
<1>2. Typed(actor[b]) /\ actor[b].pc # "idle" /\ number \in Nat /\ \A s \in Sources : actor[b].cutoff[s] <= number
  BY OfTyped
<1> QED
  BY <1>1, <1>2, KnowsStays

LEMMA WorkCalm == ASSUME IInv, Alone(net, link), CalmInv, NEW a \in Actors, Work(a) PROVE CalmInv'
<1>1. CASE Fails(a)
  <2>1. Loud /\ IInv'
    BY <1>1, FailsLoud, IInvNext DEF Next
  <2> QED
    BY <2>1 DEF Loud, CalmInv
<1>2. CASE ~Fails(a)
  <2>1. PICK l2 : /\ actor' = [actor EXCEPT ![a] = l2]
                  /\ l2 = Idle \/ (l2.quiet = actor[a].quiet /\ l2.order = actor[a].order /\ l2.base = actor[a].base)
    BY <1>2, WorkGoesOn
  <2>2. Active(a) /\ UNCHANGED <<kea, barrier>> /\ actor \in [Actors -> Local] /\ rounds \in [Servers -> 0..2]
    BY <1>2, WorkActive DEF IInv, ActorsOK, WorldOK
  <2>3. actor'[a] = l2 /\ \A b \in Actors \ {a} : actor'[b] = actor[b]
    BY <2>1, <2>2
  <2>4. Idle.pc = "idle"
    BY DEF Idle
  <2>5. \A b \in Actors : actor'[b].pc # "idle" => Active(b) /\ actor'[b].quiet = actor[b].quiet
    BY <2>1, <2>2, <2>3, <2>4 DEF Active
  <2>6. \A s \in Servers : rounds'[s] # 0 => rounds[s] # 0 \/ actor[a].quiet
    <3>1. Recounted(a) \in [Servers -> 0..2] /\ \A s \in Servers : Recounted(a)[s] # 0 => rounds[s] # 0
      BY <2>2, RecountedTyped DEF Recounted, IInv
    <3>2. Counts(a) => actor[a].quiet
      BY DEF Counts
    <3> QED
      BY <1>2, <3>1, <3>2, RoundsMove
  <2>7. \A b, c \in Actors : Active(b)' /\ Active(c)' /\ actor'[b].quiet => actor'[c].quiet
    BY <2>5 DEF CalmInv, Active
  <2>8. \A b \in Actors, s \in Servers : Active(b)' /\ rounds'[s] # 0 => actor'[b].quiet
    BY <2>2, <2>5, <2>6 DEF CalmInv, Active
  <2>9. ASSUME NEW b \in Actors, Active(b)', actor'[b].quiet PROVE Knows(actor'[b], kea', net', link', barrier')
    <3>1. Active(b) /\ actor[b].quiet /\ actor[a].quiet
      BY <2>2, <2>5, <2>9 DEF CalmInv, Active
    <3>2. Knows(actor[a], kea, net, link, barrier) /\ Knows(actor[b], kea, net, link, barrier)
      BY <2>2, <3>1 DEF CalmInv
    <3>3. CASE b = a
      <4>1. actor'[a] # Idle
        BY <2>4, <2>9, <3>3 DEF Active
      <4> QED
        BY <1>2, <2>2, <3>2, <3>3, <4>1, QuietStep
    <3>4. CASE b # a
      BY <1>2, <2>2, <2>3, <3>1, <3>2, <3>4, OthersKnow
    <3> QED
      BY <3>3, <3>4
  <2> QED
    BY <2>7, <2>8, <2>9 DEF CalmInv
<1> QED
  BY <1>1, <1>2

LEMMA StartCalm == ASSUME IInv, CalmInv, NEW a \in Actors, NEW order \in Orders, Start(a, order) PROVE CalmInv'
<1> DEFINE quiet == \A b \in Actors : actor[b].pc = "idle" \/ actor[b].quiet
           new == [Idle EXCEPT !.pc = "cutoff", !.order = order, !.base = rounds[order.server], !.quiet = quiet]
<1>1. /\ actor' = [actor EXCEPT ![a] = new] /\ UNCHANGED <<kea, net, link, barrier, rounds>> /\ ~Active(a)
      /\ actor \in [Actors -> Local]
  BY DEF Start, Set, Active, IInv, ActorsOK
<1>2. new.pc = "cutoff" /\ new.phase = 1 /\ new.quiet = quiet /\ new.order = order
  BY DEF Idle
<1>3. quiet <=> \A b \in Actors : Active(b) => actor[b].quiet
  BY DEF Active
<1> HIDE DEF quiet, new
<1>4. actor'[a] = new /\ \A b \in Actors \ {a} : actor'[b] = actor[b]
  BY <1>1
<1>5. \A b \in Actors : b # a => (Active(b)' <=> Active(b))
  BY <1>4 DEF Active
<1>6. \A b, c \in Actors : Active(b)' /\ Active(c)' /\ actor'[b].quiet => actor'[c].quiet
  BY <1>2, <1>3, <1>4, <1>5 DEF CalmInv
<1>7. \A b \in Actors, s \in Servers : Active(b)' /\ rounds'[s] # 0 => actor'[b].quiet
  BY <1>1, <1>2, <1>3, <1>4, <1>5 DEF CalmInv
<1>8. Knows(new, kea, net, link, barrier)
  <2>1. \A i \in Indices(new) : ~HasRead(new, i) /\ ~HasCut(new, i) /\ ~HasClaimed(new, i) /\ ~HasCleaned(new, i)
    BY <1>2, OrderFacts DEF HasRead, HasCut, HasClaimed, HasCleaned, Indices
  <2> QED
    BY <2>1 DEF Knows, Seen, Outdated, Secured, Cleared
<1>9. \A b \in Actors : Active(b)' /\ actor'[b].quiet => Knows(actor'[b], kea', net', link', barrier')
  <2> SUFFICES ASSUME NEW b \in Actors, Active(b)', actor'[b].quiet
               PROVE  Knows(actor'[b], kea', net', link', barrier')
    OBVIOUS
  <2>1. CASE b = a
    BY <1>1, <1>4, <1>8, <2>1
  <2>2. CASE b # a
    BY <1>1, <1>4, <1>5, <2>2 DEF CalmInv
  <2> QED
    BY <2>1, <2>2
<1> QED
  BY <1>6, <1>7, <1>9 DEF CalmInv

LEMMA CalmNext == IInv /\ Alone(net, link) /\ CalmInv /\ [Next]_vars => CalmInv'
<1> SUFFICES ASSUME IInv, Alone(net, link), CalmInv, [Next]_vars PROVE CalmInv'
  OBVIOUS
<1>1. CASE Operator \/ \E m \in Moves : KeaMoves(m.owner, m.report)
  BY <1>1, OthersLoud DEF Loud, CalmInv
<1>2. CASE UNCHANGED vars
  BY <1>2 DEF vars, CalmInv, Active
<1> QED
  BY <1>1, <1>2, WorkCalm, StartCalm DEF Next, Finished

------------------------------------------------------------------------------
(* What the first job of a Server fixes.                                   *)

\* The jobs of one Server all have the plan that its settings give.
JobsAlike ==
    \A one, other \in Orders : one.kind = "job" /\ other.kind = "job" /\ one.server = other.server => one = other

PlannedOf(s) == {o \in Owners : o[1] = s /\ Planned(o)}
Spoken(k, s) == \E q \in PlannedOf(s) : ~Silent(k, q)

Fixed(s, k, object, ls, bar) ==
    \A o \in PlannedOf(s) :
        /\ ls[o] # None /\ k[o].kind = "length" => ls[o].length = k[o].length
        /\ Silent(k, o) => Gone(o, object, ls, bar, Spoken(k, s))

FixedInv == \A s \in Servers : rounds[s] # 0 => Fixed(s, kea, net, link, barrier)

\* A job covers what is planned for its Server.
LEMMA JobCovers ==
    ASSUME JobsAlike, IInv, NEW a \in Actors, Active(a), actor[a].order.kind = "job"
    PROVE  \A o \in Owners : o \in PlannedOf(actor[a].order.server) <=> \E i \in Indices(actor[a]) : o = Of(actor[a], i)
<1> DEFINE l == actor[a]  s == l.order.server
<1>1. /\ l.order \in Orders /\ s \in Servers /\ l.order.kind = "job"
      /\ \A i \in Indices(l) : l.order.plan[i] \in Sources /\ Of(l, i) \in Owners
  BY OfTyped, IndexFacts
<1> HIDE DEF l
<1> SUFFICES ASSUME NEW o \in Owners PROVE o \in PlannedOf(s) <=> \E i \in Indices(l) : o = Of(l, i)
  BY DEF l
<1>2. ASSUME o \in PlannedOf(s) PROVE \E i \in Indices(l) : o = Of(l, i)
  <2>1. PICK order \in Orders : order.kind = "job" /\ order.server = o[1] /\ \E k \in 1..Len(order.plan) : order.plan[k] = o[2]
    BY <1>2 DEF PlannedOf, Planned
  <2>2. o[1] = s /\ order = l.order
    BY <1>1, <1>2, <2>1 DEF PlannedOf, JobsAlike
  <2> QED
    BY <2>1, <2>2, OwnerKinds DEF Of, Indices
<1>3. ASSUME NEW i \in Indices(l), o = Of(l, i) PROVE o \in PlannedOf(s)
  <2>1. o[1] = s /\ o[2] = l.order.plan[i]
    BY <1>3 DEF Of
  <2> QED
    BY <1>1, <2>1 DEF PlannedOf, Planned, Indices
<1> QED
  BY <1>2, <1>3

LEMMA FixedStays ==
    ASSUME NEW s, NEW m, NEW k, NEW object, NEW ls, NEW object2, NEW ls2, NEW bar,
           Fixed(s, k, object, ls, bar), CalmTo(k, m, object, ls, object2, ls2)
    PROVE  Fixed(s, k, object2, ls2, bar)
<1> SUFFICES ASSUME NEW o \in PlannedOf(s)
             PROVE  /\ ls2[o] # None /\ k[o].kind = "length" => ls2[o].length = k[o].length
                    /\ Silent(k, o) => Gone(o, object2, ls2, bar, Spoken(k, s))
  BY DEF Fixed
<1>1. /\ o \in Owners
      /\ ls[o] # None /\ k[o].kind = "length" => ls[o].length = k[o].length
      /\ Silent(k, o) => Gone(o, object, ls, bar, Spoken(k, s))
  BY DEF Fixed, PlannedOf
<1>2. ls2[o] # None /\ k[o].kind = "length" => ls2[o].length = k[o].length
  BY <1>1 DEF CalmTo, Silent
<1>3. Silent(k, o) => Gone(o, object2, ls2, bar, Spoken(k, s))
  BY <1>1 DEF Gone, CalmTo, MarkedAndUnconfirmed
<1> QED
  BY <1>2, <1>3

\* The end of a whole job fixes.
LEMMA JobFixes ==
    ASSUME JobsAlike, IInv, Alone(net, link), NEW a \in Actors, Active(a), Knows(actor[a], kea, net, link, barrier),
           Counts(a), PhaseEnds(a)
    PROVE  Fixed(actor[a].order.server, kea, net', link', barrier)
<1> DEFINE l == actor[a]  l2 == Further(l)  s == l.order.server
<1>1. /\ Knows(l2, kea, net', link', barrier) /\ l \in Local /\ l.phase \in Nat /\ Len(l.order.plan) \in Nat
      /\ l.order.kind = "job" /\ l.phase = Len(l.order.plan) /\ \A i \in Indices(l) : l.order.plan[i] \in l.whole
  BY CleanupKnows, OfTyped DEF PhaseEnds, Counts, Whole, Indices
<1>2. \A o \in Owners : o \in PlannedOf(s) <=> \E i \in Indices(l) : o = Of(l, i)
  BY <1>1, JobCovers
<1> HIDE DEF l
<1>3. l2.order = l.order /\ l2.whole = l.whole /\ l2.pc = "choose" /\ l2.phase = l.phase + 1
  BY <1>1 DEF Further, Local
<1> HIDE DEF l2, s
<1>4. Indices(l2) = Indices(l) /\ \A i : Of(l2, i) = Of(l, i)
  BY <1>3 DEF Indices, Of
<1>5. \A i \in Indices(l) : HasClaimed(l2, i) /\ HasCleaned(l2, i) /\ l2.order.plan[i] \in l2.whole
  BY <1>1, <1>3 DEF HasClaimed, HasCleaned, Indices
<1>6. Spoken(kea, s) => Speaks(l2, kea)
  BY <1>2, <1>4, <1>5 DEF Spoken, Speaks, PlannedOf
<1>7. ASSUME NEW o \in PlannedOf(s)
      PROVE  /\ link'[o] # None /\ kea[o].kind = "length" => link'[o].length = kea[o].length
             /\ Silent(kea, o) => Gone(o, net', link', barrier, Spoken(kea, s))
  <2>1. PICK i \in Indices(l) : o = Of(l, i)
    BY <1>2 DEF PlannedOf
  <2>2. link'[o] # None /\ kea[o].kind = "length" => link'[o].length = kea[o].length
    BY <1>1, <1>4, <1>5, <2>1 DEF Knows, Secured, Silent
  <2>3. Silent(kea, o) => Gone(o, net', link', barrier, Speaks(l2, kea))
    BY <1>1, <1>4, <1>5, <2>1 DEF Knows, Cleared
  <2> QED
    BY <1>6, <2>2, <2>3 DEF Gone
<1> QED
  BY <1>7 DEF Fixed, l, s

\* How a step of a worker can count, or keep a count.
LEMMA CountKept ==
    ASSUME IInv, NEW a \in Actors, Work(a), ~Fails(a), NEW s \in Servers, rounds'[s] # 0
    PROVE  \/ rounds'[s] = rounds[s]
           \/ /\ Counts(a) /\ PhaseEnds(a) /\ s = actor[a].order.server
              /\ rounds'[s] = rounds[s] + 1 /\ rounds[s] = actor[a].base /\ actor[a].order.kind = "job" /\ actor[a].quiet
<1> DEFINE s0 == actor[a].order.server
<1>1. Recounted(a) \in [Servers -> 0..2] /\ rounds \in [Servers -> 0..2]
  BY RecountedTyped DEF IInv, WorldOK
<1>2. \A t \in Servers : Recounted(a)[t] = rounds[t] \/ Recounted(a)[t] = 0
  BY DEF Recounted
<1>3. Counts(a) => rounds[s0] = actor[a].base /\ actor[a].order.kind = "job" /\ actor[a].quiet
  BY DEF Counts
<1>4. Counts(a) => Recounted(a)[s0] = rounds[s0] /\ s0 \in Servers
  <2>1. Active(a)
    BY WorkActive
  <2>2. s0 \in Servers
    BY <2>1, OfTyped, IndexFacts
  <2> QED
    BY <1>3, <2>2 DEF Recounted
<1> HIDE DEF s0
<1>5. \/ rounds' = rounds \/ rounds' = Recounted(a)
      \/ Counts(a) /\ PhaseEnds(a) /\ rounds' = [Recounted(a) EXCEPT ![s0] = @ + 1]
  BY RoundsMove DEF s0
<1>6. CASE rounds' = rounds \/ rounds' = Recounted(a)
  BY <1>2, <1>6
<1>7. CASE Counts(a) /\ PhaseEnds(a) /\ rounds' = [Recounted(a) EXCEPT ![s0] = @ + 1]
  BY <1>1, <1>2, <1>3, <1>4, <1>7 DEF s0
<1> QED
  BY <1>5, <1>6, <1>7

LEMMA WorkFixes ==
    ASSUME JobsAlike, IInv, Alone(net, link), CalmInv, FixedInv, NEW a \in Actors, Work(a)
    PROVE  FixedInv'
<1>1. CASE Fails(a)
  BY <1>1, FailsLoud DEF Loud, FixedInv
<1>2. CASE ~Fails(a)
  <2> SUFFICES ASSUME NEW s \in Servers, rounds'[s] # 0 PROVE Fixed(s, kea', net', link', barrier')
    BY DEF FixedInv
  <2>1. Active(a) /\ kea' = kea /\ barrier' = barrier
    BY <1>2, WorkActive
  <2>2. actor[a].quiet
    <3>1. rounds[s] # 0 => actor[a].quiet
      BY <2>1 DEF CalmInv
    <3> QED
      BY <1>2, <3>1, CountKept
  <2>3. Knows(actor[a], kea, net, link, barrier)
    BY <2>1, <2>2 DEF CalmInv
  <2>4. CalmTo(kea, number, net, link, net', link')
    BY <1>2, <2>3, QuietStep
  <2>5. CASE rounds[s] # 0
    <3>1. Fixed(s, kea, net, link, barrier)
      BY <2>5 DEF FixedInv
    <3>2. Fixed(s, kea, net', link', barrier)
      BY <2>4, <3>1, FixedStays
    <3> QED
      BY <2>1, <3>2
  <2>6. CASE rounds[s] = 0
    <3>1. Counts(a) /\ PhaseEnds(a) /\ s = actor[a].order.server
      BY <1>2, <2>6, CountKept
    <3>2. Fixed(s, kea, net', link', barrier)
      BY <2>1, <2>3, <3>1, JobFixes
    <3> QED
      BY <2>1, <3>2
  <2> QED
    BY <2>5, <2>6
<1> QED
  BY <1>1, <1>2

LEMMA FixedNext ==
    ASSUME JobsAlike PROVE IInv /\ Alone(net, link) /\ CalmInv /\ FixedInv /\ [Next]_vars => FixedInv'
<1> SUFFICES ASSUME IInv, Alone(net, link), CalmInv, FixedInv, [Next]_vars PROVE FixedInv'
  OBVIOUS
<1>1. CASE Operator \/ \E m \in Moves : KeaMoves(m.owner, m.report)
  BY <1>1, OthersLoud DEF Loud, FixedInv
<1>2. CASE UNCHANGED vars
  BY <1>2 DEF vars, FixedInv
<1>3. CASE \E a \in Actors, order \in Orders : Start(a, order)
  BY <1>3 DEF Start, FixedInv
<1> QED
  BY <1>1, <1>2, <1>3, WorkFixes DEF Next, Finished

------------------------------------------------------------------------------
(* What the second job of a Server settles.                                *)

\* A claim of o that is not applied meets an object that is not NetBox's to write, too little room, or a disagreement with
\* a link that no cleanup of the Server takes.
Disputed(o, k, ls) ==
    /\ ls[o] # None /\ ls[o].length = k[o].length
    /\ \E q \in Owners \ {o} : /\ Live(ls[q]) /\ ls[q].length # k[o].length
                               /\ q \in PlannedOf(o[1]) => ~Silent(k, q)

Stuck(o, k, object, ls) == object # None /\ (~object.marked \/ object.room < 2 \/ Disputed(o, k, ls))

Settles(o, k, object, ls, std) == k[o].kind = "length" => std[o] \/ Stuck(o, k, object, ls)

\* What a claim does to the history of an owner.
LEMMA SteadyGrows ==
    ASSUME IInv, NEW a \in Actors, Work(a), ~Fails(a), Knows(actor[a], kea, net, link, barrier), NEW o \in Owners, steady[o]
    PROVE  steady'[o]
<1>1. CASE UNCHANGED steady
  BY <1>1
<1>2. CASE Claiming(a) /\ Applied(a)
  <2>1. steady \in [Owners -> BOOLEAN] /\ steady' = [steady EXCEPT ![Owner(a)] = Source(a) \in actor[a].fresh]
    BY <1>2 DEF Applied, IInv, WorldOK
  <2>2. Source(a) \in actor[a].fresh
    BY <1>2, WorkActive, OfKnown DEF Claiming
  <2> QED
    BY <2>1, <2>2
<1> QED
  BY <1>1, <1>2 DEF Work, TakeCutoff, ReadSnapshot, PassPhase, ClaimNew, ClaimReleased, ClaimOwned, ChooseStale, CleanOne, Fails

\* Numbers settle nothing.
LEMMA NumbersAside ==
    ASSUME net' = net, Unnumbered(link') = Unnumbered(link), link \in Links, link' \in Links,
           NEW o \in Owners, NEW k, Stuck(o, k, net, link)
    PROVE  Stuck(o, k, net', link')
<1>1. ASSUME NEW q \in Owners
      PROVE  /\ link'[q] = None <=> link[q] = None
             /\ link[q] # None => link'[q].length = link[q].length /\ link'[q].mark = link[q].mark
  <2> DEFINE x == link[q]  y == link'[q]
  <2>1. Unnumbered(link')[q] = Unnumbered(link)[q]
    OBVIOUS
  <2>2. /\ x # None => x \in Link /\ [x EXCEPT !.n = 0] \in Link
        /\ y # None => y \in Link /\ [y EXCEPT !.n = 0] \in Link
    <3>1. (x # None => x \in Link) /\ (y # None => y \in Link)
      BY DEF Links
    <3> HIDE DEF x, y
    <3> QED
      BY <3>1 DEF Link
  <2>3. (IF y = None THEN None ELSE [y EXCEPT !.n = 0]) = (IF x = None THEN None ELSE [x EXCEPT !.n = 0])
    BY <2>1 DEF Unnumbered
  <2>4. None \notin Link
    BY NetworkAssumption
  <2> HIDE DEF x, y
  <2>5. y = None <=> x = None
    BY <2>2, <2>3, <2>4
  <2>6. ASSUME x # None PROVE x.length = y.length /\ x.mark = y.mark
    <3>1. [y EXCEPT !.n = 0] = [x EXCEPT !.n = 0] /\ x \in Link /\ y \in Link
      BY <2>2, <2>3, <2>5, <2>6
    <3>2. /\ [x EXCEPT !.n = 0].length = x.length /\ [x EXCEPT !.n = 0].mark = x.mark
          /\ [y EXCEPT !.n = 0].length = y.length /\ [y EXCEPT !.n = 0].mark = y.mark
      BY <3>1 DEF Link
    <3> QED
      BY <3>1, <3>2
  <2> QED
    BY <2>5, <2>6 DEF x, y
<1>2. \A q \in Owners : Live(link[q]) => Live(link'[q]) /\ link'[q].length = link[q].length
  BY <1>1 DEF Live
<1> QED
  BY <1>1, <1>2 DEF Stuck, Disputed

\* A claim of a job leaves what is stuck stuck.
LEMMA OwnedStuck ==
    ASSUME JobsAlike, IInv, Alone(net, link), NEW a \in Actors, Active(a), Knows(actor[a], kea, net, link, barrier),
           ClaimOwned(a), actor[a].order.kind = "job", Fixed(actor[a].order.server, kea, net, link, barrier),
           NEW o \in PlannedOf(actor[a].order.server), kea[o].kind = "length", Stuck(o, kea, net, link)
    PROVE  Stuck(o, kea, net', link')
<1> DEFINE c == Owner(a)  report == actor[a].report[Source(a)]  s == actor[a].order.server
<1>1. /\ net \in Net /\ net' \in Net /\ net'.room = net.room /\ net.marked /\ net'.marked
      /\ link'[c] # None
      /\ report.kind = "length" => link'[c].length = report.length
      /\ report.kind = "clash" /\ link[c] # None => link'[c].length = link[c].length
      /\ link[c] # None /\ link[c].mark = None => link'[c].mark = None
      /\ \A q \in Owners \ {c} : link[q] # None /\ ~MarkedAndUnconfirmed(link[q]) => link'[q] = link[q]
  BY OwnedEffect
<1>2. /\ c \in Owners /\ report = kea[c] /\ report.kind \in {"length", "clash"} /\ c \in PlannedOf(s)
      /\ o \in Owners /\ o[1] = s
  <2>1. /\ c \in Owners /\ report = kea[c] /\ report.kind # "absent" /\ kea[c] \in Reports
        /\ c = Of(actor[a], actor[a].phase) /\ actor[a].phase \in Indices(actor[a])
    BY OfTyped, OfKnown, OfClaim DEF ClaimOwned, Claiming, WorldOK, Claims
  <2>2. c \in PlannedOf(s)
    BY <2>1, JobCovers
  <2>3. report.kind \in {"length", "clash"}
    BY <2>1 DEF Reports
  <2> QED
    BY <2>1, <2>2, <2>3 DEF PlannedOf
<1>3. net' # None
  BY <1>1, NetworkAssumption
<1>4. CASE net.room < 2
  BY <1>1, <1>3, <1>4 DEF Stuck
<1>5. CASE Disputed(o, kea, link)
  <2>1. PICK q \in Owners \ {o} : /\ Live(link[q]) /\ link[q].length # kea[o].length
                                  /\ q \in PlannedOf(s) => ~Silent(kea, q)
    BY <1>2, <1>5 DEF Disputed
  <2>2. link[o] # None /\ link[o].length = kea[o].length /\ link[q] # None /\ link[q].mark = None
    BY <1>5, <2>1 DEF Disputed, Live
  <2>3. ~MarkedAndUnconfirmed(link[o]) /\ ~MarkedAndUnconfirmed(link[q])
    BY <1>2, <2>2 DEF Alone, MarkedAndUnconfirmed
  <2>4. /\ c \in PlannedOf(s) => (link[c] # None /\ kea[c].kind = "length" => link[c].length = kea[c].length)
    BY DEF Fixed
  <2> HIDE DEF c, report, s
  <2>5. link'[o] # None /\ link'[o].length = kea[o].length
    BY <1>1, <1>2, <2>2, <2>3
  <2>6. link'[q] # None /\ link'[q].length = link[q].length /\ link'[q].mark = None
    BY <1>1, <1>2, <2>2, <2>3, <2>4
  <2>7. Live(link'[q])
    BY <2>1, <2>6 DEF Live
  <2> QED
    BY <1>2, <1>3, <2>1, <2>5, <2>6, <2>7 DEF Stuck, Disputed
<1> QED
  BY <1>1, <1>4, <1>5 DEF Stuck

\* So does a cleanup of a job.
LEMMA CleanStuck ==
    ASSUME JobsAlike, IInv, NEW a \in Actors, Active(a), Knows(actor[a], kea, net, link, barrier),
           CleanOne(a), actor[a].order.kind = "job",
           NEW o \in PlannedOf(actor[a].order.server), kea[o].kind = "length", Stuck(o, kea, net, link)
    PROVE  Stuck(o, kea, net', link')
<1> DEFINE c == Owner(a)  cutoff == actor[a].cutoff[Source(a)]  s == actor[a].order.server
<1>1. /\ c \in Owners /\ link \in Links /\ c \in PlannedOf(s) /\ o \in Owners /\ o[1] = s
      /\ cutoff \in Nat
      /\ link[c] # None /\ ~Silent(kea, c) => cutoff <= link[c].n
  <2>1. /\ c \in Owners /\ link \in Links /\ c = Of(actor[a], actor[a].phase) /\ actor[a].phase \in Indices(actor[a])
        /\ link[c] # None /\ ~Silent(kea, c) => cutoff <= link[c].n
        /\ cutoff \in Nat
    BY OfTyped, OfKnown DEF CleanOne, WorldOK
  <2>2. c \in PlannedOf(s)
    BY <2>1, JobCovers
  <2> QED
    BY <2>1, <2>2 DEF PlannedOf
<1>2. \/ net' = net /\ link' = link
      \/ /\ link[c] # None /\ link[c].n < cutoff /\ net' \in Net /\ net'.room = net.room /\ net'.marked = net.marked
         /\ \/ ~net.marked
            \/ link' = [link EXCEPT ![c] = None]
            \/ (\A q \in Owners \ {c} : link[q] = None)
  BY CleanEffect
<1> HIDE DEF c, cutoff, s
<1>3. CASE net' = net /\ link' = link
  BY <1>3
<1>4. CASE /\ link[c] # None /\ link[c].n < cutoff /\ net' \in Net /\ net'.room = net.room /\ net'.marked = net.marked
           /\ \/ ~net.marked
              \/ link' = [link EXCEPT ![c] = None]
              \/ (\A q \in Owners \ {c} : link[q] = None)
  <2>1. net' # None
    BY <1>4, NetworkAssumption
  <2>2. Silent(kea, c)
    <3>1. link[c] \in Link
      BY <1>1, <1>4 DEF Links
    <3>2. link[c].n \in Nat
      BY <3>1, LinkFacts
    <3> QED
      BY <1>1, <1>4, <3>2
  <2>3. c # o
    BY <2>2 DEF Silent
  <2>4. CASE ~net.marked \/ net.room < 2
    BY <1>4, <2>1, <2>4 DEF Stuck
  <2>5. CASE net.marked /\ Disputed(o, kea, link)
    <3>1. PICK q \in Owners \ {o} : /\ Live(link[q]) /\ link[q].length # kea[o].length
                                    /\ q \in PlannedOf(s) => ~Silent(kea, q)
      BY <1>1, <2>5 DEF Disputed
    <3>2. q # c /\ link[o] # None /\ link[o].length = kea[o].length
      BY <1>1, <2>2, <2>5, <3>1 DEF Disputed
    <3>3. link' = [link EXCEPT ![c] = None]
      BY <1>1, <1>4, <2>3, <2>5, <3>2
    <3>4. link'[o] = link[o] /\ link'[q] = link[q]
      BY <1>1, <2>3, <3>2, <3>3 DEF Links
    <3> QED
      BY <1>1, <2>1, <3>1, <3>2, <3>4 DEF Stuck, Disputed
  <2> QED
    BY <2>4, <2>5 DEF Stuck
<1> QED
  BY <1>2, <1>3, <1>4

\* While a Server has a count, only its own jobs change the object and the links.
LEMMA OwnJobsOnly ==
    ASSUME IInv, NEW a \in Actors, Work(a), ~Fails(a), NEW s \in Servers, rounds'[s] # 0
    PROVE  \/ net' = net /\ Unnumbered(link') = Unnumbered(link)
           \/ actor[a].order.kind = "job" /\ actor[a].order.server = s
<1> DEFINE s0 == actor[a].order.server
<1>1. CASE UNCHANGED <<net, link>>
  BY <1>1
<1>2. CASE rounds' = Recounted(a)
  BY <1>2 DEF Recounted
<1>3. CASE Counts(a) /\ rounds' = [Recounted(a) EXCEPT ![s0] = @ + 1]
  <2>1. actor[a].order.kind = "job"
    BY <1>3 DEF Counts
  <2>2. CASE s = s0
    BY <2>1, <2>2
  <2>3. CASE s # s0
    <3>1. Recounted(a) \in [Servers -> 0..2]
      BY RecountedTyped DEF IInv
    <3> HIDE DEF s0
    <3>2. rounds'[s] = Recounted(a)[s]
      BY <1>3, <2>3, <3>1
    <3> QED
      BY <3>2 DEF Recounted
  <2> QED
    BY <2>2, <2>3
<1>4. \/ UNCHANGED <<net, link>>
      \/ rounds' = Recounted(a)
      \/ NextCleanup(a)
  BY DEF Work, TakeCutoff, ReadSnapshot, PassPhase, ClaimNew, ClaimReleased, ClaimOwned, EndClaim, ChooseStale, CleanOne, Fails
<1> QED
  BY <1>1, <1>2, <1>3, <1>4 DEF NextCleanup

\* What is settled stays so while the Server has a count.
LEMMA SettlesStays ==
    ASSUME JobsAlike, IInv, Alone(net, link), NEW a \in Actors, Work(a), ~Fails(a),
           Knows(actor[a], kea, net, link, barrier), NEW s \in Servers, rounds'[s] # 0,
           Fixed(s, kea, net, link, barrier), NEW o \in PlannedOf(s), Settles(o, kea, net, link, steady)
    PROVE  Settles(o, kea, net', link', steady')
<1> SUFFICES ASSUME kea[o].kind = "length" PROVE steady'[o] \/ Stuck(o, kea, net', link')
  BY DEF Settles
<1>1. Active(a) /\ IInv' /\ o \in Owners
  BY WorkActive, IInvNext DEF Next, PlannedOf
<1>2. link \in Links /\ link' \in Links
  BY <1>1 DEF IInv, WorldOK
<1>3. CASE steady[o]
  BY <1>1, <1>3, SteadyGrows
<1>4. CASE Stuck(o, kea, net, link)
  <2>1. CASE net' = net /\ Unnumbered(link') = Unnumbered(link)
    BY <1>1, <1>2, <1>4, <2>1, NumbersAside
  <2>2. CASE actor[a].order.kind = "job" /\ actor[a].order.server = s
    <3>1. CASE UNCHANGED <<net, link>>
      BY <1>4, <3>1
    <3>2. CASE ClaimNew(a)
      BY <1>4, <3>2 DEF ClaimNew, Stuck
    <3>3. CASE ClaimReleased(a)
      BY <1>4, <3>3 DEF ClaimReleased, Stuck
    <3>4. CASE ClaimOwned(a)
      BY <1>1, <1>4, <2>2, <3>4, OwnedStuck
    <3>5. CASE CleanOne(a)
      BY <1>1, <1>4, <2>2, <3>5, CleanStuck
    <3> QED
      BY <3>1, <3>2, <3>3, <3>4, <3>5 DEF Work, TakeCutoff, ReadSnapshot, PassPhase, ChooseStale, Fails
  <2> QED
    BY <2>1, <2>2, OwnJobsOnly
<1> QED
  BY <1>3, <1>4 DEF Settles

\* The claim of a job settles its owner, once the links of the Server are fixed.
LEMMA ClaimSettles ==
    ASSUME JobsAlike, IInv, NEW a \in Actors, Active(a), Knows(actor[a], kea, net, link, barrier),
           ClaimNew(a) \/ ClaimReleased(a) \/ ClaimOwned(a), actor[a].order.kind = "job",
           Fixed(actor[a].order.server, kea, net, link, barrier)
    PROVE  Settles(Owner(a), kea, net', link', steady')
<1> DEFINE c == Owner(a)  report == actor[a].report[Source(a)]  s == actor[a].order.server
           applied == steady' = [steady EXCEPT ![c] = Source(a) \in actor[a].fresh]
<1> SUFFICES ASSUME kea[c].kind = "length" PROVE steady'[c] \/ Stuck(c, kea, net', link')
  BY DEF Settles
<1>1. /\ c \in Owners /\ report = kea[c] /\ Source(a) \in actor[a].fresh /\ c \in PlannedOf(s) /\ c[1] = s
      /\ steady \in [Owners -> BOOLEAN]
  <2>1. /\ c \in Owners /\ report = kea[c] /\ Source(a) \in actor[a].fresh
        /\ c = Of(actor[a], actor[a].phase) /\ actor[a].phase \in Indices(actor[a])
    BY OfTyped, OfKnown DEF ClaimNew, ClaimReleased, ClaimOwned, Claiming
  <2>2. c \in PlannedOf(s)
    BY <2>1, JobCovers
  <2> QED
    BY <2>1, <2>2 DEF PlannedOf, IInv, WorldOK
<1>2. applied => steady'[c]
  <2> HIDE DEF c
  <2> QED
    BY <1>1
<1>3. CASE ClaimNew(a)
  <2>1. applied
    BY <1>1, <1>3 DEF ClaimNew, Applied
  <2> QED
    BY <1>2, <2>1
<1>4. CASE ClaimReleased(a)
  BY <1>4 DEF ClaimReleased, Stuck
<1>5. CASE ClaimOwned(a)
  <2>1. /\ net \in Net /\ net' \in Net /\ net'.room = net.room
        /\ link'[c] # None
        /\ link'[c].length = report.length
        /\ \A q \in Owners \ {c} : link'[q] = None \/ (link'[q] = link[q] /\ ~MarkedAndUnconfirmed(link[q]))
        /\ applied \/ net.room < 2 \/ \E q \in Owners \ {c} : Live(link'[q]) /\ link'[q].length # report.length
    BY <1>1, <1>5, OwnedEffect
  <2>2. net' # None
    BY <2>1, NetworkAssumption
  <2>3. ASSUME NEW q \in Owners \ {c}, Live(link'[q]), link'[q].length # report.length
        PROVE  Stuck(c, kea, net', link')
    <3>1. Spoken(kea, s)
      BY <1>1 DEF Spoken, Silent
    <3>2. q \in PlannedOf(s) /\ Silent(kea, q) => net.room < 2
      BY <2>1, <2>3, <3>1 DEF Fixed, Gone, Live
    <3>3. CASE net.room < 2
      BY <2>1, <2>2, <3>3 DEF Stuck
    <3>4. CASE ~(q \in PlannedOf(s) /\ Silent(kea, q))
      BY <1>1, <2>1, <2>2, <2>3, <3>4 DEF Stuck, Disputed
    <3> QED
      BY <3>2, <3>3, <3>4
  <2>4. CASE net.room < 2
    BY <2>1, <2>2, <2>4 DEF Stuck
  <2> QED
    BY <1>2, <2>1, <2>3, <2>4
<1> QED
  BY <1>3, <1>4, <1>5

\* What a worker claimed after its step, it had claimed before, or its owner is silent, or this step claims it.
LEMMA ClaimedBefore ==
    ASSUME IInv, Alone(net, link), NEW a \in Actors, Work(a), ~Fails(a), Knows(actor[a], kea, net, link, barrier),
           actor'[a] # Idle
    PROVE  /\ actor'[a].order = actor[a].order
           /\ \A i \in Indices(actor[a]) : HasClaimed(actor'[a], i) /\ actor[a].order.plan[i] \in actor'[a].whole =>
                 \/ HasClaimed(actor[a], i) /\ actor[a].order.plan[i] \in actor[a].whole
                 \/ Silent(kea, Of(actor[a], i))
                 \/ (ClaimNew(a) \/ ClaimReleased(a) \/ ClaimOwned(a)) /\ i = actor[a].phase
<1> DEFINE l == actor[a]
           Before(l2) == \A i \in Indices(l) : HasClaimed(l2, i) /\ l.order.plan[i] \in l2.whole =>
                            \/ HasClaimed(l, i) /\ l.order.plan[i] \in l.whole
                            \/ Silent(kea, Of(l, i))
                            \/ (ClaimNew(a) \/ ClaimReleased(a) \/ ClaimOwned(a)) /\ i = l.phase
<1>1. Active(a) /\ actor \in [Actors -> Local]
  BY WorkActive DEF IInv, ActorsOK
<1>2. PICK l2 : actor' = [actor EXCEPT ![a] = l2] /\ (l2 = Idle \/ l2.order = l.order)
  BY WorkGoesOn
<1>3. actor'[a] = l2 /\ l2.order = l.order /\ \A l3 : actor' = [actor EXCEPT ![a] = l3] => l3 = l2
  BY <1>1, <1>2
<1>4. Indices(l2) = Indices(l) /\ \A i : Of(l2, i) = Of(l, i)
  BY <1>3 DEF Indices, Of
<1>5. CASE TakeCutoff(a) \/ ReadSnapshot(a)
  <2>1. PICK l3 : actor' = [actor EXCEPT ![a] = l3] /\ \A i \in Indices(l3) : ~HasClaimed(l3, i)
    BY <1>1, <1>5, TakeCutoffKnows, ReadSnapshotKnows
  <2>2. \A i \in Indices(l) : ~HasClaimed(l2, i)
    BY <1>3, <1>4, <2>1
  <2> QED
    BY <1>3, <2>2
<1>6. CASE PassPhase(a)
  <2>1. PICK l3 : /\ actor' = [actor EXCEPT ![a] = l3]
                  /\ \/ l3 = Idle
                     \/ /\ l3.whole \subseteq l.whole
                        /\ \A i \in Indices(l3) : HasClaimed(l3, i) /\ l3.order.plan[i] \in l3.whole =>
                              Silent(kea, Of(l3, i)) \/ HasClaimed(l, i)
    BY <1>1, <1>6, PassKnows
  <2>2. l3 = l2
    BY <1>3, <2>1
  <2>3. Before(l2)
    <3> HIDE DEF l
    <3> QED
      BY <1>3, <1>4, <2>1, <2>2
  <2> QED
    BY <1>3, <2>3
<1>7. CASE ClaimNew(a) \/ ClaimReleased(a) \/ ClaimOwned(a)
  <2>1. PICK l3 : /\ actor' = [actor EXCEPT ![a] = l3]
                  /\ \/ l3 = Idle
                     \/ /\ l3.whole = l.whole
                        /\ \A i \in Indices(l3) : HasClaimed(l3, i) => i = l.phase \/ HasClaimed(l, i)
    BY <1>1, <1>7, ClaimKnows
  <2>2. l3 = l2
    BY <1>3, <2>1
  <2>3. Before(l2)
    <3> HIDE DEF l
    <3> QED
      BY <1>3, <1>4, <1>7, <2>1, <2>2
  <2> QED
    BY <1>3, <2>3
<1>8. CASE ChooseStale(a) /\ Source(a) \in l.whole /\ Candidate(a)
  <2> DEFINE l3 == [l EXCEPT !.pc = "clean"]
  <2>1. actor' = [actor EXCEPT ![a] = l3] /\ l3.whole = l.whole /\ \A i : HasClaimed(l, i)
    BY <1>1, <1>8, ChooseKnows
  <2> HIDE DEF l3
  <2>2. l3 = l2
    BY <1>3, <2>1
  <2>3. Before(l2)
    BY <2>1, <2>2
  <2> QED
    BY <1>3, <2>3
<1>9. CASE PhaseEnds(a)
  <2>1. /\ actor' = [actor EXCEPT ![a] = AfterCleanup(l)] /\ l.pc \in {"choose", "clean"} /\ l \in Local
    BY <1>1, <1>9, CleanupKnows DEF PhaseEnds
  <2>2. l2 = [l EXCEPT !.phase = @ + 1, !.pc = "choose"]
    BY <1>3, <2>1 DEF AfterCleanup
  <2>3. l2.whole = l.whole /\ \A i : HasClaimed(l, i)
    <3> HIDE DEF l
    <3> QED
      BY <2>1, <2>2 DEF Local, HasClaimed
  <2>4. Before(l2)
    BY <2>3
  <2> QED
    BY <1>3, <2>4
<1> QED
  BY <1>5, <1>6, <1>7, <1>8, <1>9 DEF Work, Fails, PhaseEnds

\* What a worker claimed in whole phases is settled.
HalfSettled(l, k, object, ls, std) ==
    \A i \in Indices(l) : HasClaimed(l, i) /\ l.order.plan[i] \in l.whole => Settles(Of(l, i), k, object, ls, std)

Second(l, count) == l.pc # "idle" /\ l.order.kind = "job" /\ l.base = 1 /\ count[l.order.server] = 1

\* The second job of a count settles as it claims, and after it everything is settled.
SettledInv ==
    /\ \A a \in Actors : Second(actor[a], rounds) => HalfSettled(actor[a], kea, net, link, steady)
    /\ \A s \in Servers : rounds[s] = 2 => \A o \in PlannedOf(s) : Settles(o, kea, net, link, steady)

LEMMA SecondSettles ==
    ASSUME JobsAlike, IInv, Alone(net, link), NEW a \in Actors, Work(a), ~Fails(a),
           Knows(actor[a], kea, net, link, barrier), actor[a].order.kind = "job",
           rounds'[actor[a].order.server] # 0, Fixed(actor[a].order.server, kea, net, link, barrier),
           HalfSettled(actor[a], kea, net, link, steady), actor'[a] # Idle
    PROVE  HalfSettled(actor'[a], kea, net', link', steady')
<1> DEFINE l == actor[a]  l2 == actor'[a]  s == l.order.server
<1>1. Active(a) /\ s \in Servers /\ Owner(a) = Of(l, l.phase) /\ \A i \in Indices(l) : Of(l, i) \in Owners
  BY WorkActive, OfTyped, IndexFacts
<1>2. \A i \in Indices(l) : Of(l, i) \in PlannedOf(s)
  BY <1>1, JobCovers
<1>3. /\ l2.order = l.order
      /\ \A i \in Indices(l) : HasClaimed(l2, i) /\ l.order.plan[i] \in l2.whole =>
            \/ HasClaimed(l, i) /\ l.order.plan[i] \in l.whole
            \/ Silent(kea, Of(l, i))
            \/ (ClaimNew(a) \/ ClaimReleased(a) \/ ClaimOwned(a)) /\ i = l.phase
  BY ClaimedBefore
<1>4. Indices(l2) = Indices(l) /\ \A i : Of(l2, i) = Of(l, i)
  BY <1>3 DEF Indices, Of
<1>5. \A o \in PlannedOf(s) : Settles(o, kea, net, link, steady) => Settles(o, kea, net', link', steady')
  BY <1>1, SettlesStays
<1> SUFFICES ASSUME NEW i \in Indices(l), HasClaimed(l2, i), l.order.plan[i] \in l2.whole
             PROVE  Settles(Of(l, i), kea, net', link', steady')
  BY <1>3, <1>4 DEF HalfSettled
<1>6. CASE HasClaimed(l, i) /\ l.order.plan[i] \in l.whole
  BY <1>2, <1>5, <1>6 DEF HalfSettled
<1>7. CASE Silent(kea, Of(l, i))
  BY <1>7 DEF Settles, Silent
<1>8. CASE (ClaimNew(a) \/ ClaimReleased(a) \/ ClaimOwned(a)) /\ i = l.phase
  <2>1. Settles(Owner(a), kea, net', link', steady')
    BY <1>1, <1>8, ClaimSettles
  <2> QED
    BY <1>1, <1>8, <2>1
<1> QED
  BY <1>3, <1>6, <1>7, <1>8

LEMMA WorkSettles ==
    ASSUME JobsAlike, IInv, Alone(net, link), CalmInv, FixedInv, SettledInv, NEW a \in Actors, Work(a)
    PROVE  SettledInv'
<1>1. IInv' /\ actor' \in [Actors -> Local] /\ Active(a) /\ actor \in [Actors -> Local]
  BY WorkActive, IInvNext DEF Next, IInv, ActorsOK
<1>2. ASSUME NEW b \in Actors, Second(actor'[b], rounds') PROVE actor'[b].order.server \in Servers
  <2>1. Typed(actor'[b])
    BY <1>1 DEF IInv, ActorsOK
  <2> QED
    BY <1>2, <2>1, OrderFacts DEF Typed, Works, Second
<1>3. CASE Fails(a)
  BY <1>2, <1>3, FailsLoud DEF Loud, SettledInv, Second
<1>4. CASE ~Fails(a)
  <2>1. kea' = kea /\ barrier' = barrier /\ rounds \in [Servers -> 0..2]
    BY <1>4, WorkActive DEF IInv, WorldOK
  <2>2. PICK l2 : /\ actor' = [actor EXCEPT ![a] = l2]
                  /\ l2 = Idle \/ (l2.order = actor[a].order /\ l2.base = actor[a].base)
    BY <1>4, WorkGoesOn
  <2>3. actor'[a] = l2 /\ \A b \in Actors \ {a} : actor'[b] = actor[b]
    BY <1>1, <2>2
  <2>4. Idle.pc = "idle"
    BY DEF Idle
  <2>5. ASSUME NEW s \in Servers, rounds'[s] # 0
        PROVE  /\ Knows(actor[a], kea, net, link, barrier)
               /\ rounds[s] # 0 => Fixed(s, kea, net, link, barrier)
               /\ \/ rounds'[s] = rounds[s]
                  \/ /\ Counts(a) /\ PhaseEnds(a) /\ s = actor[a].order.server
                     /\ rounds'[s] = rounds[s] + 1 /\ rounds[s] = actor[a].base /\ actor[a].order.kind = "job"
               /\ rounds[s] # 0 => \A o \in PlannedOf(s) :
                     Settles(o, kea, net, link, steady) => Settles(o, kea, net', link', steady')
    <3>1. \/ rounds'[s] = rounds[s]
          \/ /\ Counts(a) /\ PhaseEnds(a) /\ s = actor[a].order.server
             /\ rounds'[s] = rounds[s] + 1 /\ rounds[s] = actor[a].base /\ actor[a].order.kind = "job" /\ actor[a].quiet
      BY <1>4, <2>5, CountKept
    <3>2. actor[a].quiet
      BY <1>1, <2>5, <3>1 DEF CalmInv
    <3>3. Knows(actor[a], kea, net, link, barrier)
      BY <1>1, <3>2 DEF CalmInv
    <3>4. rounds[s] # 0 => Fixed(s, kea, net, link, barrier)
      BY DEF FixedInv
    <3>5. ASSUME rounds[s] # 0, NEW o \in PlannedOf(s), Settles(o, kea, net, link, steady)
          PROVE  Settles(o, kea, net', link', steady')
      BY <1>4, <2>5, <3>3, <3>4, <3>5, SettlesStays
    <3> QED
      BY <3>1, <3>3, <3>4, <3>5
  <2>6. ASSUME NEW b \in Actors, Second(actor'[b], rounds')
        PROVE  HalfSettled(actor'[b], kea, net', link', steady')
    <3> DEFINE s == actor'[b].order.server
    <3>1. s \in Servers /\ rounds'[s] = 1 /\ actor'[b].pc # "idle" /\ actor'[b].order.kind = "job" /\ actor'[b].base = 1
      BY <1>2, <2>6 DEF Second
    <3>2. CASE b = a
      <4>1. actor'[a] # Idle /\ l2 # Idle
        BY <2>3, <2>4, <3>1, <3>2
      <4>2. actor[a].order = actor'[a].order /\ actor[a].base = 1
        BY <2>2, <2>3, <3>1, <3>2, <4>1
      <4>3. ~(Counts(a) /\ PhaseEnds(a))
        <5>1. ASSUME Counts(a), PhaseEnds(a) PROVE FALSE
          <6>1. actor[a].phase = Len(actor[a].order.plan) /\ NextCleanup(a)
            BY <5>1 DEF Counts, PhaseEnds, CleanOne, ChooseStale
          <6>2. actor' = [actor EXCEPT ![a] = Idle]
            BY <6>1 DEF NextCleanup, Set
          <6>3. actor'[a] = Idle
            BY <1>1, <6>2
          <6> QED
            BY <4>1, <6>3
        <5> QED
          BY <5>1
      <4>4. rounds[s] = 1 /\ Knows(actor[a], kea, net, link, barrier) /\ Fixed(s, kea, net, link, barrier)
        BY <2>5, <3>1, <4>3
      <4>5. Second(actor[a], rounds)
        BY <1>1, <3>1, <3>2, <4>2, <4>4 DEF Second, Active
      <4>6. HalfSettled(actor[a], kea, net, link, steady)
        BY <4>5 DEF SettledInv
      <4>7. rounds'[actor[a].order.server] # 0 /\ Fixed(actor[a].order.server, kea, net, link, barrier)
            /\ actor[a].order.kind = "job"
        BY <3>1, <3>2, <4>2, <4>4
      <4> QED
        BY <1>4, <3>2, <4>1, <4>4, <4>6, <4>7, SecondSettles
    <3>3. CASE b # a
      <4>1. actor'[b] = actor[b] /\ Active(b)
        BY <2>3, <3>1, <3>3 DEF Active
      <4>2. rounds[s] = 1
        <5>1. ASSUME Counts(a), s = actor[a].order.server, rounds'[s] = rounds[s] + 1, rounds[s] = actor[a].base
              PROVE  FALSE
          <6>1. rounds[s] = 0 /\ actor[a].base = 0
            BY <2>1, <3>1, <5>1
          <6>2. actor[b].order.server = actor[a].order.server => actor[b].base # actor[a].base + 1
            BY <4>1, <5>1 DEF Counts, Active
          <6> QED
            BY <3>1, <4>1, <5>1, <6>1, <6>2
        <5> QED
          BY <2>5, <3>1, <5>1
      <4>3. Second(actor[b], rounds)
        BY <3>1, <4>1, <4>2 DEF Second
      <4>4. HalfSettled(actor[b], kea, net, link, steady)
        BY <4>3 DEF SettledInv
      <4>5. \A i \in Indices(actor[b]) : Of(actor[b], i) \in PlannedOf(s)
        <5>1. \A i \in Indices(actor[b]) : Of(actor[b], i) \in Owners
          BY <4>1, OfTyped, IndexFacts
        <5> QED
          BY <3>1, <4>1, <5>1, JobCovers
      <4>6. \A o \in PlannedOf(s) : Settles(o, kea, net, link, steady) => Settles(o, kea, net', link', steady')
        BY <2>5, <3>1, <4>2
      <4> QED
        BY <4>1, <4>4, <4>5, <4>6 DEF HalfSettled
    <3> QED
      BY <3>2, <3>3
  <2>7. ASSUME NEW s \in Servers, rounds'[s] = 2, NEW o \in PlannedOf(s)
        PROVE  Settles(o, kea, net', link', steady')
    <3>1. rounds[s] # 0
      BY <2>1, <2>5, <2>7
    <3>2. Settles(o, kea, net, link, steady) => Settles(o, kea, net', link', steady')
      BY <2>5, <2>7, <3>1
    <3>3. CASE rounds[s] = 2
      BY <2>7, <3>2, <3>3 DEF SettledInv
    <3>4. CASE rounds[s] # 2
      <4>1. /\ Counts(a) /\ PhaseEnds(a) /\ s = actor[a].order.server /\ rounds[s] = 1 /\ actor[a].base = 1
            /\ actor[a].order.kind = "job"
        BY <2>1, <2>5, <2>7, <3>4
      <4>2. Second(actor[a], rounds)
        BY <1>1, <4>1 DEF Second, Active
      <4>3. HalfSettled(actor[a], kea, net, link, steady)
        BY <4>2 DEF SettledInv
      <4>4. PICK i \in Indices(actor[a]) : o = Of(actor[a], i)
        BY <1>1, <4>1, JobCovers DEF PlannedOf
      <4>5. actor[a].order.plan[i] \in actor[a].whole
        BY <4>1 DEF Counts, Whole, Indices
      <4>6. HasClaimed(actor[a], i)
        BY <4>1 DEF PhaseEnds, CleanOne, ChooseStale, HasClaimed
      <4> QED
        BY <3>2, <4>3, <4>4, <4>5, <4>6 DEF HalfSettled
    <3> QED
      BY <3>3, <3>4
  <2> QED
    BY <2>1, <2>6, <2>7 DEF SettledInv
<1> QED
  BY <1>3, <1>4

LEMMA StartSettles ==
    ASSUME IInv, SettledInv, NEW a \in Actors, NEW order \in Orders, Start(a, order)
    PROVE  SettledInv'
<1> DEFINE quiet == \A b \in Actors : actor[b].pc = "idle" \/ actor[b].quiet
           new == [Idle EXCEPT !.pc = "cutoff", !.order = order, !.base = rounds[order.server], !.quiet = quiet]
<1>1. /\ actor' = [actor EXCEPT ![a] = new] /\ UNCHANGED <<kea, net, link, steady, rounds>> /\ actor \in [Actors -> Local]
  BY DEF Start, Set, IInv, ActorsOK
<1>2. new.pc = "cutoff" /\ new.phase = 1
  BY DEF Idle
<1> HIDE DEF quiet, new
<1>3. \A i : ~HasClaimed(new, i)
  BY <1>2 DEF HasClaimed
<1>4. actor'[a] = new /\ \A b \in Actors \ {a} : actor'[b] = actor[b]
  BY <1>1
<1>5. ASSUME NEW b \in Actors, Second(actor'[b], rounds') PROVE HalfSettled(actor'[b], kea', net', link', steady')
  <2>1. CASE b = a
    BY <1>3, <1>4, <2>1 DEF HalfSettled
  <2>2. CASE b # a
    BY <1>1, <1>4, <1>5, <2>2 DEF SettledInv
  <2> QED
    BY <2>1, <2>2
<1>6. \A s \in Servers : rounds'[s] = 2 => \A o \in PlannedOf(s) : Settles(o, kea', net', link', steady')
  BY <1>1 DEF SettledInv
<1> QED
  BY <1>5, <1>6 DEF SettledInv

LEMMA SettledNext ==
    ASSUME JobsAlike
    PROVE  IInv /\ Alone(net, link) /\ CalmInv /\ FixedInv /\ SettledInv /\ [Next]_vars => SettledInv'
<1> SUFFICES ASSUME IInv, Alone(net, link), CalmInv, FixedInv, SettledInv, [Next]_vars PROVE SettledInv'
  OBVIOUS
<1>1. CASE Operator \/ \E m \in Moves : KeaMoves(m.owner, m.report)
  <2>1. Loud /\ IInv'
    BY <1>1, OthersLoud, IInvNext
  <2>2. \A b \in Actors : Second(actor'[b], rounds') => actor'[b].order.server \in Servers
    BY <2>1, OrderFacts DEF IInv, ActorsOK, Typed, Works, Second
  <2> QED
    BY <2>1, <2>2 DEF Loud, SettledInv, Second
<1>2. CASE UNCHANGED vars
  BY <1>2 DEF vars, SettledInv
<1> QED
  BY <1>1, <1>2, WorkSettles, StartSettles DEF Next, Finished

\* What is fixed and settled is what the property says.
LEMMA SettledMeans == IInv /\ Alone(net, link) /\ FixedInv /\ SettledInv => SettledAfterRounds
<1> SUFFICES ASSUME IInv, Alone(net, link), FixedInv, SettledInv, NEW s \in Servers, rounds[s] = 2, ~LeftAlone
             PROVE  /\ Reported(s) # {} => net # None /\ net.status = "active" /\ \A o \in Reported(s) : Live(link[o])
                    /\ \A o \in Linked(link) : o[1] = s =>
                          \/ ~Planned(o) \/ kea[o].kind # "absent" \/ (link[o].adopted /\ barrier)
                          \/ net.status = "deprecated" /\ link[o].mark # None
  BY DEF SettledAfterRounds
<1>1. \A o \in Owners : link[o] # None => net # None
  BY DEF IInv, WorldOK
<1>2. /\ net # None => net.marked /\ ~(net.room < 2)
      /\ \A o, q \in Owners : link[o] # None /\ link[q] # None => link[o].length = link[q].length
  BY <1>1 DEF LeftAlone, Linked
<1>3. ASSUME NEW o \in Reported(s) PROVE net # None /\ net.status = "active" /\ Live(link[o])
  <2>1. o \in PlannedOf(s) /\ kea[o].kind = "length" /\ o \in Owners
    BY DEF Reported, PlannedOf, Owners
  <2>2. steady[o] \/ Stuck(o, kea, net, link)
    BY <2>1 DEF SettledInv, Settles
  <2>3. ~Stuck(o, kea, net, link)
    BY <1>2, <2>1 DEF Stuck, Disputed, Live
  <2> QED
    BY <2>1, <2>2, <2>3 DEF IInv, WorldOK, SteadyIn
<1>4. ASSUME NEW o \in Owners, link[o] # None, o[1] = s, Planned(o), kea[o].kind = "absent"
      PROVE  (link[o].adopted /\ barrier) \/ (net.status = "deprecated" /\ link[o].mark # None)
  <2>1. o \in PlannedOf(s) /\ Silent(kea, o)
    BY <1>4 DEF PlannedOf, Silent
  <2>2. Gone(o, net, link, barrier, Spoken(kea, s))
    BY <2>1 DEF FixedInv, Fixed
  <2> QED
    BY <1>1, <1>2, <1>4, <2>2 DEF Gone, Alone, MarkedAndUnconfirmed
<1> QED
  BY <1>3, <1>4 DEF Linked

\* Two jobs of a Server that ran whole, with no fault, no move of Kea, no edit and no change by anyone else meanwhile, leave
\* the object and the links of the Server as its sources say (reconcile_server_ipam), whatever else runs: every Server has
\* one plan.
THEOREM JobsSettle == ASSUME JobsAlike PROVE Spec => []SettledAfterRounds
<1> DEFINE All == IInv /\ Alone(net, link) /\ CalmInv /\ FixedInv /\ SettledInv
<1>1. Init => All
  <2> SUFFICES ASSUME Init PROVE All
    OBVIOUS
  <2>1. /\ actor = [a \in Actors |-> Idle] /\ rounds = [s \in Servers |-> 0]
        /\ \E start \in StartNets : net = start.net /\ link = start.link
    BY DEF Init
  <2>2. Idle.pc = "idle"
    BY DEF Idle
  <2> HIDE DEF Idle
  <2>3. \A a \in Actors : actor[a].pc = "idle"
    BY <2>1, <2>2
  <2>4. CalmInv /\ FixedInv /\ SettledInv
    BY <2>1, <2>3 DEF CalmInv, FixedInv, SettledInv, Second, Active
  <2>5. Alone(net, link)
    BY <2>1, StartAssumption DEF Alone, Linked
  <2> QED
    BY <2>4, <2>5, IInvInit
<1>2. All /\ [Next]_vars => All'
  <2> SUFFICES ASSUME All, [Next]_vars PROVE All'
    OBVIOUS
  <2>1. Alone(net, link)'
    BY AloneNext DEF Alone
  <2> QED
    BY <2>1, IInvNext, CalmNext, FixedNext, SettledNext
<1>3. All => SettledAfterRounds
  BY SettledMeans
<1> HIDE DEF All
<1> QED
  BY <1>1, <1>2, <1>3, PTL DEF Spec
=============================================================================
