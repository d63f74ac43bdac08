------------------------ MODULE IpamOwnershipProofs ------------------------
(***************************************************************************)
(* Theorems about IpamOwnership, for every value of its constants: the     *)
(* types, that an address stays while a source reports it, that rows       *)
(* without the marker stay as the operators left them, that workers never  *)
(* make two rows for one identity, and that a run retires no object that   *)
(* stayed reported while it ran.                                           *)
(***************************************************************************)
EXTENDS IpamOwnership, FiniteSetTheorems, TLAPS

------------------------------------------------------------------------------
(* The inductive invariant.                                                *)

Links == [Owners -> Link \union {None}]
Places == {Global, Elsewhere} \union {Vrf[s] : s \in Servers}
Gone == {"absent", "inactive"}

\* The owner whose phase a worker is in.
Here(l) == <<l.order.server, Plan(l.order)[l.phase]>>

\* No number of a link or a mark is ahead of the sequence.
Numbered(ls, m) == \A o \in Owners : ls[o] # None => ls[o].n <= m /\ (ls[o].mark # None => ls[o].mark <= m)

\* The row r keeps what owner o reported: its link is not older than c.
Keeps(r, l, o, c) ==
    /\ r # None /\ r.place = Vrf[o[1]] /\ r.marked /\ r.status # "deprecated"
    /\ l # None /\ l.mark = None /\ c <= l.n
Kept(o, c, rw, lk) == \E i \in Rows : Keeps(rw[i], lk[i][o], o, c)

\* The worker can still apply its claim of owner o.
Committing(l, o) == l.pc = "commit" /\ Here(l) = o /\ l.fresh

\* A cleanup with the cutoff c leaves a row to owner o, and so do the claims under way.
Supported(o, c, std, rw, lk, ws) ==
    /\ std[o] => Kept(o, c, rw, lk)
    /\ \A b \in Actors : Committing(ws[b], o) => c <= ws[b].n

WorldOK ==
    /\ kea \in [Owners -> Reports]
    /\ row \in [Rows -> Row \union {None}]
    /\ link \in [Rows -> Links]
    /\ \A i \in Rows : Numbered(link[i], number) /\ (row[i] = None => \A o \in Owners : link[i][o] = None)
    /\ born \in 0..Cardinality(Rows) /\ \A i \in Rows : row[i] # None => i <= born
    /\ number \in Nat /\ refers \subseteq Rows /\ barrier \in BOOLEAN
    /\ steady \in [Owners -> BOOLEAN]
    /\ \A o \in Owners : steady[o] => kea[o].kind \notin Gone /\ Kept(o, 0, row, link)
    /\ rounds \in [Servers -> 0..2]

\* A worker is at a phase of its plan. The phases that it calls complete are the ones that it read.
Works(l) ==
    /\ l.order \in Orders /\ l.phase \in 1..Len(Plan(l.order))
    /\ \A s \in l.whole : \E k \in 1..Len(Plan(l.order)) :
          /\ Plan(l.order)[k] = s
          /\ l.pc \in {"cutoff", "read"} => k < l.phase
          /\ l.pc \in {"claim", "classify", "commit"} => k <= l.phase
    /\ l.pc \in {"claim", "commit"} => l.report.kind \notin Gone
    /\ l.pc \in {"choose", "clean"} => l.report.kind \in Gone
    /\ l.pc = "clean" => Plan(l.order)[l.phase] \in l.whole

Typed(l) == l \in Local /\ (l.pc # "idle" => Works(l))

\* The worker has the claim of source s before it.
Pending(l, s) == l.pc \in {"claim", "commit"} /\ Plan(l.order)[l.phase] = s

\* The rows that a claim found under the locks stay as it found them, and its number is the newest one of a link.
Holds(l, m, std, rw, lk) ==
    /\ \A i \in l.found : rw[i] # None /\ rw[i].place = Vrf[l.order.server]
    /\ \A i \in l.old : rw[i] # None /\ rw[i].marked /\ \A q \in Owners : lk[i][q] = None
    /\ \A i \in Rows, q \in Owners : lk[i][q] # None => lk[i][q].n < l.n
    /\ l.n <= m /\ \A s \in Sources : l.cutoff[s] <= l.n
    /\ std[Here(l)] => \E i \in l.found : Keeps(rw[i], lk[i][Here(l)], Here(l), 0)

\* How what a worker observed relates to the world.
InWorld(l, k, m, std, rw, lk, ws) ==
    /\ \A s \in Sources : l.cutoff[s] <= m
    /\ l.pc # "idle" =>
          /\ l.fresh /\ l.report.kind \notin Gone => k[Here(l)].kind \notin Gone
          /\ \A s \in l.whole : Pending(l, s) \/ Supported(<<l.order.server, s>>, l.cutoff[s], std, rw, lk, ws)
    /\ l.pc = "commit" => Holds(l, m, std, rw, lk)

ActorsOK ==
    /\ actor \in [Actors -> Local]
    /\ \A a \in Actors : Typed(actor[a]) /\ InWorld(actor[a], kea, number, steady, row, link, actor)
    /\ \A a, b \in Actors : actor[a].pc = "commit" /\ actor[b].pc = "commit" => a = b

IInv == WorldOK /\ ActorsOK

------------------------------------------------------------------------------
(* Orders, reports, rows and links.                                        *)

LEMMA PlanFacts ==
    ASSUME NEW order \in Orders
    PROVE  /\ order.server \in Servers /\ order.kind \in {"job", "bulk", "page", "force"}
           /\ Plan(order) \in Seq(Sources) /\ Len(Plan(order)) \in 1..2
           /\ \A k \in 1..Len(Plan(order)) : Plan(order)[k] \in Sources /\ <<order.server, Plan(order)[k]>> \in Owners
           /\ \A i, j \in 1..Len(Plan(order)) : Plan(order)[i] = Plan(order)[j] => i = j
<1>1. order.server \in Servers /\ order.kind \in {"job", "bulk", "page", "force"} /\ order.source \in Sources
  BY OwnershipAssumption
<1>2. \/ Plan(order) = <<"lease", "reservation">> \/ Plan(order) = <<"lease">>
      \/ Plan(order) = <<"reservation">> \/ Plan(order) = <<order.source>>
  BY <1>1 DEF Plan
<1>3. /\ Plan(order) \in Seq(Sources) /\ Len(Plan(order)) \in 1..2
      /\ \A k \in 1..Len(Plan(order)) : Plan(order)[k] \in Sources
      /\ \A i, j \in 1..Len(Plan(order)) : Plan(order)[i] = Plan(order)[j] => i = j
  <2>1. CASE Plan(order) = <<"lease", "reservation">>
    BY <2>1 DEF Sources
  <2>2. ASSUME NEW s \in Sources, Plan(order) = <<s>>
        PROVE  /\ Plan(order) \in Seq(Sources) /\ Len(Plan(order)) \in 1..2
               /\ \A k \in 1..Len(Plan(order)) : Plan(order)[k] \in Sources
               /\ \A i, j \in 1..Len(Plan(order)) : Plan(order)[i] = Plan(order)[j] => i = j
    BY <2>2
  <2>3. "lease" \in Sources /\ "reservation" \in Sources
    BY DEF Sources
  <2> QED
    BY <1>1, <1>2, <2>1, <2>2, <2>3
<1> QED
  BY <1>1, <1>3 DEF Owners

LEMMA VrfFacts == \A s \in Servers : Vrf[s] \in Places /\ Vrf[s] # Elsewhere /\ Vrf[s] \in {Vrf[t] : t \in Servers}
BY OwnershipAssumption DEF Places

LEMMA ReportFacts ==
    /\ Absent \in Reports /\ Absent.kind \in Gone
    /\ \A r \in Reports : /\ r.kind \in {"absent", "inactive", "global", "clash", "facts"}
                          /\ r.kind = "facts" => r.facts \in Facts /\ r.facts # None
BY OwnershipAssumption DEF Absent, Reports, Gone

LEMMA OwnerKinds == \A o \in Owners : o[1] \in Servers /\ o[2] \in Sources /\ o = <<o[1], o[2]>>
BY DEF Owners

LEMMA NoLinksTyped == NoLinks \in Links /\ \A o \in Owners : NoLinks[o] = None
BY DEF NoLinks, Links

LEMMA NoneApart == None \notin Row /\ None \notin Link /\ None \notin Facts /\ None \notin Nat
BY OwnershipAssumption

LEMMA RowFacts ==
    \A r \in Row : /\ r.place \in Places /\ r.status \in Statuses /\ r.marked \in BOOLEAN
                   /\ r.name \in {f.name : f \in Facts} \union {NoName} /\ r.len \in {f.len : f \in Facts}
BY DEF Row, Places

LEMMA LinkFacts ==
    \A l \in Link : /\ l.facts \in Facts \union {None} /\ l.n \in Nat /\ l.mark \in Nat \union {None}
                    /\ l.adopted \in BOOLEAN /\ l.known \in BOOLEAN
BY DEF Link

\* Sources that report an address never deprecate it.
LEMMA StatusFacts == ASSUME NEW S \in SUBSET Sources, S # {} PROVE Status(S) \in Statuses /\ Status(S) # "deprecated"
<1>1. S = Sources \/ S = {"lease"} \/ S = {"reservation"}
  BY DEF Sources
<1>2. Sources # {"lease"} /\ Sources # {"reservation"} /\ {"lease"} # {"reservation"}
  BY DEF Sources
<1> QED
  BY <1>1, <1>2 DEF Status, Statuses

LEMMA LiveSourcesIn == \A ls : LiveSources(ls) \in SUBSET Sources
BY DEF LiveSources, Owners

LEMMA NewNameTyped ==
    ASSUME NEW r \in Row, NEW name \in {f.name : f \in Facts} \union {NoName}
    PROVE  NewName(r, name) \in {f.name : f \in Facts} \union {NoName}
BY DEF NewName, Row

LEMMA ImpliedNameTyped ==
    ASSUME NEW ls \in Links
    PROVE  ImpliedName(ls) \in {f.name : f \in Facts} \union {NoName}
<1>1. \A source : LiveNames(ls, source) \subseteq {f.name : f \in Facts}
  BY LinkFacts DEF LiveNames, Live, Links
<1> DEFINE names == IF LiveNames(ls, "reservation") # {} THEN LiveNames(ls, "reservation") ELSE LiveNames(ls, "lease")
<1>2. names \subseteq {f.name : f \in Facts}
  BY <1>1
<1>3. ImpliedName(ls) = IF Cardinality(names) = 1 THEN CHOOSE n \in names : TRUE ELSE NoName
  BY DEF ImpliedName
<1> HIDE DEF names
<1>4. Cardinality(names) = 1 => names # {}
  BY FS_EmptySet
<1>5. names # {} => (CHOOSE n \in names : TRUE) \in names
  OBVIOUS
<1> QED
  BY <1>2, <1>3, <1>4, <1>5

\* A claim takes only marked links of other owners.
LEMMA SupersededFacts ==
    ASSUME NEW ls \in Links, NEW o \in Owners
    PROVE  /\ WithoutSuperseded(ls, o) \in Links
           /\ \A q \in Owners : WithoutSuperseded(ls, o)[q] = ls[q] \/ WithoutSuperseded(ls, o)[q] = None
           /\ \A q \in Owners : ls[q] # None /\ ls[q].mark = None => WithoutSuperseded(ls, o)[q] = ls[q]
           /\ \A q \in Owners : ls[q] # None /\ ~MarkedAndUnconfirmed(ls[q]) => WithoutSuperseded(ls, o)[q] = ls[q]
<1> DEFINE kept == WithoutSuperseded(ls, o)
<1>1. \A q \in Owners : kept[q] = IF q # o /\ ls[q] # None /\ MarkedAndUnconfirmed(ls[q]) /\ ~Unclassified(q, ls[q])
                                  THEN None ELSE ls[q]
  BY DEF WithoutSuperseded
<1>2. kept \in Links
  BY DEF WithoutSuperseded, Links
<1> HIDE DEF kept
<1>3. \A q \in Owners : kept[q] = ls[q] \/ kept[q] = None
  BY <1>1
<1>4. \A q \in Owners : ls[q] # None /\ ls[q].mark = None => kept[q] = ls[q]
  BY <1>1 DEF MarkedAndUnconfirmed
<1>5. \A q \in Owners : ls[q] # None /\ ~MarkedAndUnconfirmed(ls[q]) => kept[q] = ls[q]
  BY <1>1
<1> QED
  BY <1>2, <1>3, <1>4, <1>5 DEF kept

\* The links new have the number n and the mark for owner o, and are otherwise those of ls.
Written(new, ls, o, mark, n) ==
    new \in Links /\ new[o] # None /\ new[o].n = n /\ new[o].mark = mark /\ \A q \in Owners \ {o} : new[q] = ls[q]

LEMMA StoreFacts ==
    ASSUME NEW ls \in Links, NEW o \in Owners, NEW facts \in Facts \union {None}, NEW mark \in Nat \union {None},
           NEW n \in Nat, NEW adopted \in BOOLEAN
    PROVE  Written(StoreLink(ls, o, facts, mark, n, adopted), ls, o, mark, n)
<1> DEFINE own == [facts |-> facts, n |-> n, mark |-> mark, known |-> TRUE,
                   adopted |-> adopted \/ (ls[o] # None /\ ls[o].adopted)]
<1>1. own \in Link /\ own.n = n /\ own.mark = mark
  BY DEF Link
<1>2. own # None
  BY <1>1, NoneApart
<1>3. StoreLink(ls, o, facts, mark, n, adopted) = [ls EXCEPT ![o] = own]
  BY DEF StoreLink
<1> HIDE DEF own
<1> QED
  BY <1>1, <1>2, <1>3 DEF Links, Written

------------------------------------------------------------------------------
(* What a claim and a cleanup decide about one row.                        *)

\* A claim of a row with the marker is applied, or stored without a change of the row.
LEMMA ApplyCases ==
    ASSUME NEW o \in Owners, NEW report \in Reports, report.kind \notin Gone, NEW r \in Row, NEW ls \in Links, NEW n \in Nat
    PROVE  LET done == ApplyClaim(o, report, r, ls, n)
               Stored(mark) == \E facts \in Facts \union {None}, adopted \in BOOLEAN :
                                  done.links = StoreLink(WithoutSuperseded(ls, o), o, facts, mark, n, adopted)
           IN  \/ /\ done.outcome # "applied" /\ done.row = r
                  /\ Stored(IF ls[o] = None THEN None ELSE ls[o].mark)
               \/ /\ done.outcome = "applied" /\ Stored(None)
                  /\ done.row \in Row /\ done.row.place = r.place /\ done.row.marked /\ done.row.status # "deprecated"
<1> DEFINE adopted == (Linked(ls) = {} /\ r.marked) \/ \E q \in Linked(ls) : ls[q].adopted
           kept == WithoutSuperseded(ls, o)
           own == ls[o]
           oldMark == IF own = None THEN None ELSE own.mark
           oldFacts == IF own = None THEN None ELSE own.facts
           status == Status(LiveSources([kept EXCEPT ![o] = None]) \union {o[2]})
           name == IF YieldsToReservation(o, kept) THEN r.name ELSE NewName(r, report.facts.name)
           done == ApplyClaim(o, report, r, ls, n)
           Unapplied(facts) == StoreLink(kept, o, facts, oldMark, n, adopted)
<1>1. \/ report.kind = "clash" /\ done = Result(r, Unapplied(oldFacts), "disagreement")
      \/ report.kind = "global" /\ done = Result(r, Unapplied(None), "unchanged")
      \/ report.kind = "facts" /\ done = Result(r, Unapplied(report.facts), "disagreement")
      \/ report.kind = "facts" /\ done = Result(r, Unapplied(report.facts), "conflict")
      \/ /\ report.kind = "facts"
         /\ done = Result([r EXCEPT !.status = status, !.marked = TRUE, !.len = report.facts.len, !.name = name],
                          StoreLink(kept, o, report.facts, None, n, adopted), "applied")
  <2>1. report.kind \in {"global", "clash", "facts"}
    BY ReportFacts DEF Gone
  <2>2. CASE report.kind = "clash"
    BY <2>2 DEF ApplyClaim
  <2>3. CASE report.kind = "global"
    BY <2>3 DEF ApplyClaim
  <2>4. CASE report.kind = "facts"
    <3> HIDE DEF name, status, oldMark, oldFacts, kept, adopted
    <3>1. CASE Disagrees(o, report.facts, kept)
      BY <2>4, <3>1 DEF ApplyClaim, name, status, oldMark, oldFacts, kept, adopted
    <3>2. CASE ~Disagrees(o, report.facts, kept) /\ ~Fits(r, status)
      BY <2>4, <3>2 DEF ApplyClaim, name, status, oldMark, oldFacts, kept, adopted
    <3>3. CASE ~Disagrees(o, report.facts, kept) /\ Fits(r, status)
      BY <2>4, <3>3 DEF ApplyClaim, name, status, oldMark, oldFacts, kept, adopted
    <3> QED
      BY <3>1, <3>2, <3>3
  <2> QED
    BY <2>1, <2>2, <2>3, <2>4
<1>2. adopted \in BOOLEAN /\ oldMark \in Nat \union {None} /\ oldFacts \in Facts \union {None}
      /\ None \in Facts \union {None}
      /\ None \in Nat \union {None}
  <2>1. own \in Link \union {None}
    BY DEF Links
  <2> HIDE DEF own
  <2> QED
    BY <2>1, LinkFacts
<1>3. status \in Statuses /\ status # "deprecated"
  <2>1. LiveSources([kept EXCEPT ![o] = None]) \union {o[2]} \in SUBSET Sources
    BY LiveSourcesIn, OwnerKinds
  <2> QED
    BY <2>1, StatusFacts
<1>4. report.kind = "facts" => report.facts \in Facts /\ name \in {f.name : f \in Facts} \union {NoName}
  <2>1. report.kind = "facts" => report.facts \in Facts
    BY ReportFacts
  <2>2. r.name \in {f.name : f \in Facts} \union {NoName}
    BY RowFacts
  <2> QED
    BY <2>1, <2>2, NewNameTyped
<1>5. oldMark = IF ls[o] = None THEN None ELSE ls[o].mark
  OBVIOUS
<1> DEFINE applied == [r EXCEPT !.status = status, !.marked = TRUE, !.len = report.facts.len, !.name = name]
           Stored(mark) == \E facts \in Facts \union {None},
             truth \in BOOLEAN : done.links = StoreLink(kept, o, facts, mark, n, truth)
<1> HIDE DEF adopted, own, oldMark, oldFacts, status, name, done, kept
<1>6. ASSUME NEW facts \in Facts \union {None}, NEW outcome, outcome # "applied",
             done = Result(r, StoreLink(kept, o, facts, oldMark, n, adopted), outcome)
      PROVE  done.outcome # "applied" /\ done.row = r /\ Stored(oldMark)
  <2>1. done.links = StoreLink(kept, o, facts, oldMark, n, adopted) /\ done.outcome # "applied" /\ done.row = r
    BY <1>6 DEF Result
  <2> QED
    BY <1>2, <2>1
<1>7. ASSUME report.kind = "facts", done = Result(applied, StoreLink(kept, o, report.facts, None, n, adopted), "applied")
      PROVE  /\ done.outcome = "applied" /\ Stored(None)
             /\ done.row \in Row /\ done.row.place = r.place /\ done.row.marked /\ done.row.status # "deprecated"
  <2>1. done.links = StoreLink(kept, o, report.facts, None, n, adopted) /\ done.outcome = "applied" /\ done.row = applied
    BY <1>7 DEF Result
  <2>2. Stored(None)
    BY <1>2, <1>4, <1>7, <2>1
  <2>3. report.facts.len \in {f.len : f \in Facts}
    BY <1>4, <1>7
  <2> HIDE DEF Statuses
  <2>4. applied \in Row
    BY <1>3, <1>4, <1>7, <2>3 DEF Row
  <2>5. applied.place = r.place /\ applied.marked /\ applied.status = status
    BY DEF Row
  <2> HIDE DEF applied, Stored
  <2> QED
    BY <1>3, <2>1, <2>2, <2>4, <2>5
<1> HIDE DEF applied, Stored
<1>8. \/ done.outcome # "applied" /\ done.row = r /\ Stored(oldMark)
      \/ /\ done.outcome = "applied" /\ Stored(None)
         /\ done.row \in Row /\ done.row.place = r.place /\ done.row.marked /\ done.row.status # "deprecated"
  <2>1. report.kind = "facts" => report.facts \in Facts \union {None}
    BY <1>4
  <2> QED
    BY <1>1, <1>2, <1>6, <1>7, <2>1 DEF applied
<1> QED
  BY <1>5, <1>8 DEF done, kept, Stored

\* The link of the owner gets the number of the claim. The row stays, or it is marked and shown; no other owner loses it.
Applied(done, o, r, ls, n) ==
    /\ done.row \in Row /\ done.links \in Links /\ done.row.place = r.place
    /\ done.row = r \/ (done.row.marked /\ done.row.status # "deprecated")
    /\ done.outcome = "applied" => /\ done.row.marked /\ done.row.status # "deprecated"
                                   /\ done.links[o].mark = None
    /\ done.links[o] # None /\ done.links[o].n = n
    /\ done.links[o].mark # None => ls[o] # None /\ done.links[o].mark = ls[o].mark
    /\ \A q \in Owners \ {o} : done.links[q] = ls[q] \/ done.links[q] = None
    /\ \A q \in Owners \ {o} : ls[q] # None /\ ls[q].mark = None => done.links[q] = ls[q]
    /\ \A q \in Owners \ {o} : ls[q] # None /\ ~MarkedAndUnconfirmed(ls[q]) => done.links[q] = ls[q]

LEMMA ApplyFacts ==
    ASSUME NEW o \in Owners, NEW report \in Reports, report.kind \notin Gone, NEW r \in Row, NEW ls \in Links, NEW n \in Nat
    PROVE  Applied(ApplyClaim(o, report, r, ls, n), o, r, ls, n)
<1> DEFINE done == ApplyClaim(o, report, r, ls, n)  kept == WithoutSuperseded(ls, o)
<1>1. PICK facts \in Facts \union {None}, mark \in {None, IF ls[o] = None THEN None ELSE ls[o].mark}, adopted \in BOOLEAN :
              /\ done.links = StoreLink(kept, o, facts, mark, n, adopted)
              /\ \/ done.outcome # "applied" /\ done.row = r
                 \/ /\ done.outcome = "applied" /\ mark = None
                    /\ done.row \in Row /\ done.row.place = r.place /\ done.row.marked /\ done.row.status # "deprecated"
  BY ApplyCases
<1>2. kept \in Links
  BY SupersededFacts
<1>3. /\ \A q \in Owners : kept[q] = ls[q] \/ kept[q] = None
      /\ \A q \in Owners : ls[q] # None /\ ls[q].mark = None => kept[q] = ls[q]
      /\ \A q \in Owners : ls[q] # None /\ ~MarkedAndUnconfirmed(ls[q]) => kept[q] = ls[q]
  BY SupersededFacts
<1> HIDE DEF done, kept
<1>4. /\ done.links \in Links /\ done.links[o] # None /\ done.links[o].n = n /\ done.links[o].mark = mark
      /\ \A q \in Owners \ {o} : done.links[q] = kept[q]
  <2>1. mark \in Nat \union {None}
    BY LinkFacts DEF Links
  <2> QED
    BY <1>1, <1>2, <2>1, StoreFacts DEF Written
<1>5. done.row \in Row /\ done.row.place = r.place /\ (done.row = r \/ (done.row.marked /\ done.row.status # "deprecated"))
      /\ (done.outcome = "applied" => done.row.marked /\ done.row.status # "deprecated" /\ mark = None)
  BY <1>1
<1>6. mark # None => ls[o] # None /\ mark = ls[o].mark
  BY <1>1
<1>7. /\ \A q \in Owners \ {o} : done.links[q] = ls[q] \/ done.links[q] = None
      /\ \A q \in Owners \ {o} : ls[q] # None /\ ls[q].mark = None => done.links[q] = ls[q]
      /\ \A q \in Owners \ {o} : ls[q] # None /\ ~MarkedAndUnconfirmed(ls[q]) => done.links[q] = ls[q]
  BY <1>3, <1>4
<1> QED
  BY <1>4, <1>5, <1>6, <1>7 DEF Applied, done

\* What the claim of owner o does with row i: the row comes into the VRF, and it keeps what it kept of other owners.
Claimed(a, o, i, done) ==
    /\ done.row \in Row /\ done.row.place = Vrf[o[1]] /\ done.links \in Links
    /\ \A q \in Owners : done.links[q] # None =>
          \/ done.links[q] = link[i][q]
          \/ /\ q = o /\ done.links[o].n = actor[a].n
             /\ done.links[o].mark # None => link[i][o] # None /\ done.links[o].mark = link[i][o].mark
    /\ done.outcome = "applied" => Keeps(done.row, done.links[o], o, actor[a].n)
    /\ \A q \in Owners \ {o} : \A c : row[i].place = Vrf[o[1]] /\ Keeps(row[i], link[i][q], q, c) =>
          Keeps(done.row, done.links[q], q, c)
    /\ \A c : Keeps(row[i], link[i][o], o, c) => Keeps(done.row, done.links[o], o, actor[a].n)
    /\ ~row[i].marked /\ actor[a].order.kind # "force" => done.row = [row[i] EXCEPT !.place = Vrf[o[1]]]

LEMMA ClaimRowFacts ==
    ASSUME NEW a \in Actors, NEW o \in Owners, NEW i \in Rows, row[i] \in Row, link[i] \in Links,
           actor[a].n \in Nat, actor[a].report \in Reports, actor[a].report.kind \notin Gone
    PROVE  Claimed(a, o, i, ClaimRow(a, o, i))
<1> DEFINE r == [row[i] EXCEPT !.place = Vrf[o[1]]]  ls == link[i]  n == actor[a].n  report == actor[a].report
           done == ClaimRow(a, o, i)
<1>1. r \in Row /\ r.place = Vrf[o[1]] /\ r.marked = row[i].marked /\ r.status = row[i].status
  <2>1. Vrf[o[1]] \in {Global, Elsewhere} \union {Vrf[s] : s \in Servers}
    BY VrfFacts, OwnerKinds
  <2> QED
    BY <2>1 DEF Row
<1>2. \/ r.marked /\ done = ApplyClaim(o, report, r, ls, n)
      \/ ~r.marked /\ actor[a].order.kind = "force" /\ done = ApplyClaim(o, report, r, NoLinks, n)
      \/ ~r.marked /\ \E outcome \in {"disagreement", "conflict"} : done = Result(r, NoLinks, outcome)
  <2> HIDE DEF r, report
  <2>1. done = IF Owned(r) THEN ApplyClaim(o, report, r, ls, n)
               ELSE IF actor[a].order.kind = "force" /\ report.kind = "facts" THEN ApplyClaim(o, report, r, NoLinks, n)
               ELSE Result(r, NoLinks, IF report.kind = "clash" THEN "disagreement" ELSE "conflict")
    BY DEF ClaimRow, r, report
  <2> HIDE DEF done
  <2> QED
    BY <2>1 DEF Owned
<1>3. /\ NoLinks \in Links /\ \A q \in Owners : NoLinks[q] = None
      /\ row[i] # None /\ row[i].marked \in BOOLEAN /\ r # None
  BY <1>1, NoLinksTyped, NoneApart DEF Row
<1> HIDE DEF r, ls, n, report, done
<1>4. CASE r.marked /\ done = ApplyClaim(o, report, r, ls, n)
  <2>1. /\ done.row \in Row /\ done.links \in Links /\ done.row.place = r.place
        /\ done.row = r \/ (done.row.marked /\ done.row.status # "deprecated")
        /\ done.outcome = "applied" => /\ done.row.marked /\ done.row.status # "deprecated"
                                       /\ done.links[o].mark = None
        /\ done.links[o] # None /\ done.links[o].n = n
        /\ done.links[o].mark # None => ls[o] # None /\ done.links[o].mark = ls[o].mark
        /\ \A q \in Owners \ {o} : done.links[q] = ls[q] \/ done.links[q] = None
        /\ \A q \in Owners \ {o} : ls[q] # None /\ ls[q].mark = None => done.links[q] = ls[q]
    <3>1. ls \in Links /\ report \in Reports /\ report.kind \notin Gone /\ n \in Nat
      BY DEF ls, n, report
    <3>2. Applied(done, o, r, ls, n)
      BY <1>1, <1>4, <3>1, ApplyFacts
    <3> QED
      BY <3>2 DEF Applied
  <2>2. done.row # None
    BY <2>1, NoneApart
  <2>3. \A q \in Owners : done.links[q] # None =>
                     \/ done.links[q] = ls[q]
                     \/ /\ q = o /\ done.links[o].n = n
                        /\ done.links[o].mark # None => ls[o] # None /\ done.links[o].mark = ls[o].mark
    BY <2>1
  <2>4. done.outcome = "applied" => Keeps(done.row, done.links[o], o, n)
    BY <1>1, <2>1, <2>2 DEF Keeps, n
  <2>5. \A q \in Owners \ {o} : \A c : row[i].place = Vrf[o[1]] /\ Keeps(row[i], ls[q], q, c) =>
                     Keeps(done.row, done.links[q], q, c)
    BY <1>1, <2>1, <2>2 DEF Keeps
  <2>6. ASSUME NEW c, Keeps(row[i], ls[o], o, c) PROVE Keeps(done.row, done.links[o], o, n)
    <3>1. row[i].place = Vrf[o[1]] /\ row[i].status # "deprecated" /\ ls[o].mark = None
      BY <2>6 DEF Keeps
    <3>2. done.row.marked /\ done.row.status # "deprecated" /\ done.links[o].mark = None
      BY <1>1, <1>4, <2>1, <3>1
    <3> QED
      BY <1>1, <2>1, <2>2, <3>2 DEF Keeps, n
  <2> QED
    BY <1>1, <1>4, <2>1, <2>3, <2>4, <2>5, <2>6 DEF Claimed, ls, n, done
<1>5. CASE ~r.marked /\ actor[a].order.kind = "force" /\ done = ApplyClaim(o, report, r, NoLinks, n)
  <2>1. /\ done.row \in Row /\ done.links \in Links /\ done.row.place = r.place
        /\ done.outcome = "applied" => /\ done.row.marked /\ done.row.status # "deprecated"
                                       /\ done.links[o].mark = None
        /\ done.links[o] # None /\ done.links[o].n = n
        /\ done.links[o].mark # None => NoLinks[o] # None /\ done.links[o].mark = NoLinks[o].mark
        /\ \A q \in Owners \ {o} : done.links[q] = NoLinks[q] \/ done.links[q] = None
    <3>1. report \in Reports /\ report.kind \notin Gone /\ n \in Nat /\ NoLinks \in Links
      BY <1>3 DEF n, report
    <3>2. Applied(done, o, r, NoLinks, n)
      BY <1>1, <1>5, <3>1, ApplyFacts
    <3> QED
      BY <3>2 DEF Applied
  <2>2. done.row # None
    BY <2>1, NoneApart
  <2>3. done.links[o].mark = None /\ \A q \in Owners \ {o} : done.links[q] = None
    BY <1>3, <2>1
  <2>4. done.outcome = "applied" => Keeps(done.row, done.links[o], o, n)
    BY <1>1, <2>1, <2>2 DEF Keeps, n
  <2>5. \A q, c, l : ~Keeps(row[i], l, q, c)
    BY <1>1, <1>5 DEF Keeps
  <2> QED
    BY <1>1, <1>5, <2>1, <2>3, <2>4, <2>5 DEF Claimed, n, done
<1>6. CASE ~r.marked /\ \E outcome \in {"disagreement", "conflict"} : done = Result(r, NoLinks, outcome)
  <2>1. done.row = r /\ done.links = NoLinks /\ done.outcome # "applied"
    BY <1>6 DEF Result
  <2>2. \A q, c, l : ~Keeps(row[i], l, q, c)
    BY <1>1, <1>6 DEF Keeps
  <2> QED
    BY <1>1, <1>3, <2>1, <2>2 DEF Claimed, done, r
<1> QED
  BY <1>2, <1>4, <1>5, <1>6

\* What the cleanup does with the stale link of owner o: no other owner loses what the row kept of it.
Cleaned(o, i, cutoff, done) ==
    /\ done.row \in Row \union {None} /\ done.links \in Links
    /\ done.row = None => \A q \in Owners : done.links[q] = None
    /\ \A q \in Owners : done.links[q] # None =>
          /\ link[i][q] # None /\ done.links[q].n = link[i][q].n
          /\ done.links[q].mark # None => done.links[q].mark \in {cutoff, link[i][q].mark}
    /\ \A q \in Owners \ {o} : \A c : Keeps(row[i], link[i][q], q, c) => Keeps(done.row, done.links[q], q, c)
    /\ ~row[i].marked => done.row = row[i]
    /\ done.row # None => done.row.place = row[i].place
    /\ \A q \in Owners \ {o} : row[i].marked /\ link[i][q] # None =>
          done.row # None /\ done.row.marked /\ done.links[q] = link[i][q]

LEMMA StaleFacts ==
    ASSUME NEW o \in Owners, NEW i \in Rows, row[i] \in Row, link[i] \in Links, link[i][o] # None,
           NEW cutoff \in Nat, NEW lastGo, NEW refs
    PROVE  Cleaned(o, i, cutoff, StaleLink(o, i, cutoff, lastGo, refs))
<1> DEFINE r == row[i]  ls == link[i]  rest == [ls EXCEPT ![o] = None]  others == Linked(rest)
           done == StaleLink(o, i, cutoff, lastGo, refs)
           gone == [ls EXCEPT ![o].mark = cutoff]
<1>1. \/ ~r.marked /\ done = Result(r, NoLinks, "conflict")
      \/ done = Result(r, ls, "kept")
      \/ r.marked /\ done = Result(Restatus(r, rest), rest, "unlinked")
      \/ r.marked /\ done = Result(r, rest, "unlinked")
      \/ r.marked /\ others = {} /\ done = Result(None, NoLinks, "removed")
      \/ r.marked /\ others = {} /\ done = Result([r EXCEPT !.status = "deprecated"], gone, "deprecated")
  <2> HIDE DEF rest, others, gone, r, ls
  <2>1. CASE ~r.marked
    BY <2>1 DEF StaleLink, Owned, r
  <2>2. CASE r.marked
    BY <2>2 DEF StaleLink, Owned, r, ls, rest, others, gone
  <2> QED
    BY <2>1, <2>2
<1>2. rest \in Links /\ rest[o] = None /\ \A q \in Owners \ {o} : rest[q] = ls[q]
  BY DEF Links
<1>3. others = {} => \A q \in Owners \ {o} : ls[q] = None
  BY <1>2 DEF Linked
<1>4. gone \in Links /\ gone[o].n = ls[o].n /\ gone[o].mark = cutoff /\ \A q \in Owners \ {o} : gone[q] = ls[q]
  <2> DEFINE own == [ls[o] EXCEPT !.mark = cutoff]
  <2>1. ls[o] \in Link
    BY DEF Links
  <2>2. own \in Link /\ own.n = ls[o].n /\ own.mark = cutoff
    BY <2>1 DEF Link
  <2>3. gone = [ls EXCEPT ![o] = own]
    OBVIOUS
  <2> HIDE DEF own, gone
  <2> QED
    BY <2>2, <2>3 DEF Links
<1>5. /\ Restatus(r, rest) \in Row /\ Restatus(r, rest).place = r.place /\ Restatus(r, rest).marked = r.marked
      /\ r.status # "deprecated" => Restatus(r, rest).status # "deprecated"
  <2> HIDE DEF rest
  <2>1. CASE LiveSources(rest) = {}
    BY <2>1 DEF Restatus
  <2>2. CASE LiveSources(rest) # {}
    <3> DEFINE status == Status(LiveSources(rest))  name == NewName(r, ImpliedName(rest))
    <3>1. status \in Statuses /\ status # "deprecated"
      BY <2>2, LiveSourcesIn, StatusFacts
    <3>2. name \in {f.name : f \in Facts} \union {NoName}
      BY <1>2, ImpliedNameTyped, NewNameTyped
    <3>3. Restatus(r, rest) = [r EXCEPT !.status = status, !.name = name]
      BY <2>2 DEF Restatus
    <3> HIDE DEF status, name, Statuses
    <3> QED
      BY <3>1, <3>2, <3>3 DEF Row
  <2> QED
    BY <2>1, <2>2
<1>6. NoLinks \in Links /\ (\A q \in Owners : NoLinks[q] = None) /\ None \notin Row
  BY NoLinksTyped, NoneApart
<1>7. [r EXCEPT !.status = "deprecated"] \in Row
  BY DEF Row, Statuses
<1>8. done.row \in Row \union {None} /\ done.links \in Links /\ (done.row = None => \A q \in Owners : done.links[q] = None)
  <2> DEFINE new == Restatus(r, rest)  old == [r EXCEPT !.status = "deprecated"]
  <2>1. new \in Row /\ old \in Row
    BY <1>5, <1>7
  <2> HIDE DEF new, old, done, rest, gone, r, ls
  <2> QED
    BY <1>1, <1>2, <1>4, <1>6, <2>1 DEF Result, r, ls, new, old
<1>9. \A q \in Owners : done.links[q] # None =>
         /\ ls[q] # None /\ done.links[q].n = ls[q].n
         /\ done.links[q].mark # None => done.links[q].mark \in {cutoff, ls[q].mark}
  <2>1. done.links \in {NoLinks, ls, rest, gone}
    <3> HIDE DEF done, rest, gone, others
    <3> QED
      BY <1>1 DEF Result
  <2> HIDE DEF done, rest, gone
  <2> QED
    BY <1>2, <1>4, <1>6, <2>1
<1>10. ASSUME NEW q \in Owners \ {o}, NEW c, Keeps(r, ls[q], q, c) PROVE Keeps(done.row, done.links[q], q, c)
  <2>1. r.marked /\ others # {} /\ ls[q] # None
    BY <1>3, <1>10 DEF Keeps
  <2> HIDE DEF done, rest, gone, others, r, ls
  <2>2. \/ done.row = r /\ done.links = ls
        \/ done.row = Restatus(r, rest) /\ done.links = rest
        \/ done.row = r /\ done.links = rest
    BY <1>1, <2>1 DEF Result
  <2>3. rest[q] = ls[q]
    BY <1>2
  <2> QED
    BY <1>5, <1>6, <1>10, <2>2, <2>3 DEF Keeps
<1>11. ~r.marked => done.row = r
  <2> HIDE DEF done, rest, gone, others, r, ls
  <2> QED
    BY <1>1 DEF Result
<1>12. done.row # None => done.row.place = r.place
  <2> DEFINE old == [r EXCEPT !.status = "deprecated"]  new == Restatus(r, rest)
  <2>1. old.place = r.place
    BY DEF Row
  <2>2. new.place = r.place
    BY <1>5
  <2> HIDE DEF done, rest, gone, others, r, ls, old, new
  <2>3. done.row \in {r, new, old, None}
    BY <1>1 DEF Result, new, old
  <2> QED
    BY <2>1, <2>2, <2>3
<1>13. ASSUME NEW q \in Owners \ {o}, r.marked, ls[q] # None
       PROVE  done.row # None /\ done.row.marked /\ done.links[q] = ls[q]
  <2>1. others # {} /\ rest[q] = ls[q] /\ r # None
    BY <1>2, <1>3, <1>6, <1>13
  <2> HIDE DEF done, rest, gone, others, r, ls
  <2>2. \/ done.row = r /\ done.links = ls
        \/ done.row = Restatus(r, rest) /\ done.links = rest
        \/ done.row = r /\ done.links = rest
    BY <1>1, <1>13, <2>1 DEF Result
  <2> QED
    BY <1>5, <1>6, <1>13, <2>1, <2>2
<1> QED
  BY <1>8, <1>9, <1>10, <1>11, <1>12, <1>13 DEF Cleaned

------------------------------------------------------------------------------
(* What a step of one worker leaves to the workers.                        *)

LEMMA IdleGood == Typed(Idle) /\ \A m \in Nat : \A k, std, rw, lk, ws : InWorld(Idle, k, m, std, rw, lk, ws)
<1>1. Idle \in Local
  BY ReportFacts DEF Idle, Local
<1>2. Idle.pc = "idle" /\ \A s \in Sources : Idle.cutoff[s] = 0
  BY DEF Idle
<1> QED
  BY <1>1, <1>2 DEF Typed, InWorld

\* The worker stays where it is. It can lose its freshness.
Follows(l, l2) ==
    /\ l2 \in Local /\ l2.pc = l.pc /\ l2.order = l.order /\ l2.phase = l.phase /\ l2.cutoff = l.cutoff
    /\ l2.whole = l.whole /\ l2.report = l.report /\ l2.n = l.n /\ l2.found = l.found /\ l2.old = l.old
    /\ l2.fresh => l.fresh

LEMMA FollowsFacts ==
    ASSUME NEW l, NEW l2, Typed(l), Follows(l, l2)
    PROVE  /\ Typed(l2) /\ Here(l2) = Here(l)
           /\ \A o : Committing(l2, o) => Committing(l, o)
           /\ \A m, std, rw, lk : Holds(l, m, std, rw, lk) => Holds(l2, m, std, rw, lk)
           /\ \A s : Pending(l, s) => Pending(l2, s)
<1>1. Here(l2) = Here(l)
  BY DEF Follows, Here
<1>2. Typed(l2)
  BY DEF Follows, Typed, Works
<1>3. \A o : Committing(l2, o) => Committing(l, o)
  BY <1>1 DEF Follows, Committing
<1>4. \A m, std, rw, lk : Holds(l, m, std, rw, lk) => Holds(l2, m, std, rw, lk)
  BY <1>1 DEF Follows, Holds
<1>5. \A s : Pending(l, s) => Pending(l2, s)
  BY DEF Follows, Pending
<1> QED
  BY <1>1, <1>2, <1>3, <1>4, <1>5

LEMMA InWorldMoves ==
    ASSUME NEW l, NEW l2, Typed(l), Follows(l, l2),
           NEW k, NEW m \in Nat, NEW std, NEW rw, NEW lk, NEW ws, InWorld(l, k, m, std, rw, lk, ws),
           NEW k2, NEW m2 \in Nat, m <= m2, NEW std2, NEW rw2, NEW lk2, NEW ws2,
           l2.pc # "idle" /\ l2.fresh /\ l2.report.kind \notin Gone => k2[Here(l2)].kind \notin Gone,
           \A o \in Owners, c \in 0..m : Supported(o, c, std, rw, lk, ws) => Supported(o, c, std2, rw2, lk2, ws2),
           l2.pc = "commit" => Holds(l2, m2, std2, rw2, lk2)
    PROVE  InWorld(l2, k2, m2, std2, rw2, lk2, ws2)
<1>1. \A s \in Sources : l.cutoff[s] \in 0..m /\ l2.cutoff[s] <= m2
  BY DEF Typed, Local, InWorld, Follows
<1>2. ASSUME l.pc # "idle", NEW s \in l.whole
      PROVE  Pending(l2, s) \/ Supported(<<l2.order.server, s>>, l2.cutoff[s], std2, rw2, lk2, ws2)
  <2>1. s \in Sources /\ l.order.server \in Servers
    BY <1>2, PlanFacts DEF Typed, Local, Works
  <2>2. <<l.order.server, s>> \in Owners /\ l.cutoff[s] \in 0..m
    BY <1>1, <2>1 DEF Owners
  <2>3. Pending(l, s) \/ Supported(<<l.order.server, s>>, l.cutoff[s], std, rw, lk, ws)
    BY <1>2 DEF InWorld
  <2>4. Pending(l, s) => Pending(l2, s)
    BY FollowsFacts
  <2>5. l2.order = l.order /\ l2.cutoff = l.cutoff
    BY DEF Follows
  <2> QED
    BY <2>2, <2>3, <2>4, <2>5
<1>3. l2.pc = l.pc /\ l2.whole = l.whole
  BY DEF Follows
<1> QED
  BY <1>1, <1>2, <1>3 DEF InWorld

\* A worker moves to new; the others stay where they are.
Moved(a, new) ==
    /\ actor' \in [Actors -> Local] /\ Follows(new, actor'[a])
    /\ \A b \in Actors \ {a} : Follows(actor[b], actor'[b])

LEMMA CalmFollows == ASSUME NEW l \in Local PROVE Follows(l, l) /\ Follows(l, [l EXCEPT !.quiet = FALSE])
<1> DEFINE new == [l EXCEPT !.quiet = FALSE]
<1>1. /\ new \in Local /\ new.pc = l.pc /\ new.order = l.order /\ new.phase = l.phase /\ new.cutoff = l.cutoff
      /\ new.whole = l.whole /\ new.report = l.report /\ new.fresh = l.fresh /\ new.n = l.n /\ new.found = l.found
      /\ new.old = l.old
  BY DEF Local
<1> HIDE DEF new
<1> QED
  BY <1>1 DEF Follows, new

LEMMA HeldFollows ==
    ASSUME NEW l \in Local, NEW held \in SUBSET Sources
    PROVE  [l EXCEPT !.held = held] \in Local /\ Follows(l, [l EXCEPT !.held = held])
<1> DEFINE new == [l EXCEPT !.held = held]
<1>1. /\ new \in Local /\ new.pc = l.pc /\ new.order = l.order /\ new.phase = l.phase /\ new.cutoff = l.cutoff
      /\ new.whole = l.whole /\ new.report = l.report /\ new.fresh = l.fresh /\ new.n = l.n /\ new.found = l.found
      /\ new.old = l.old
  BY DEF Local
<1> HIDE DEF new
<1> QED
  BY <1>1 DEF Follows, new

LEMMA SetMoves ==
    ASSUME ActorsOK, NEW a \in Actors, NEW new \in Local,
           actor' = [actor EXCEPT ![a] = new] \/ actor' = Restless([actor EXCEPT ![a] = new])
    PROVE  Moved(a, new)
<1> DEFINE local == [actor EXCEPT ![a] = new]
<1>1. local \in [Actors -> Local] /\ local[a] = new /\ \A b \in Actors \ {a} : local[b] = actor[b]
  BY DEF ActorsOK
<1> HIDE DEF local
<1>2. \A b \in Actors : Follows(local[b], local[b]) /\ Follows(local[b], [local[b] EXCEPT !.quiet = FALSE])
  BY <1>1, CalmFollows
<1>3. CASE actor' = local
  BY <1>1, <1>2, <1>3 DEF Moved
<1>4. CASE actor' = Restless(local)
  <2>1. \A b \in Actors : actor'[b] = [local[b] EXCEPT !.quiet = FALSE] /\ actor' = [c \in Actors |-> actor'[c]]
    BY <1>4 DEF Restless
  <2>2. \A b \in Actors : Follows(local[b], actor'[b])
    BY <1>2, <2>1
  <2>3. actor' \in [Actors -> Local]
    BY <2>1, <2>2 DEF Follows
  <2> QED
    BY <1>1, <2>2, <2>3 DEF Moved
<1> QED
  BY <1>3, <1>4 DEF local

\* What cleanups rely on stays true of the world.
Sustains == \A o \in Owners, c \in 0..number : Supported(o, c, steady, row, link, actor)
    => Supported(o, c, steady', row', link', actor')

\* No worker comes to commit.
Retracts ==
    \A b \in Actors : \A o : Committing(actor'[b], o) => Committing(actor[b], o) /\ actor'[b].n = actor[b].n

LEMMA MovedRetracts ==
    ASSUME ActorsOK, NEW a \in Actors, NEW new, Moved(a, new), new.pc # "commit"
    PROVE  Retracts
<1>1. \A o : ~Committing(actor'[a], o)
  BY DEF Moved, Follows, Committing
<1>2. ASSUME NEW b \in Actors \ {a} PROVE \A o : Committing(actor'[b], o) => Committing(actor[b], o)
             /\ actor'[b].n = actor[b].n
  <2>1. Typed(actor[b]) /\ Follows(actor[b], actor'[b])
    BY DEF ActorsOK, Moved
  <2> QED
    BY <2>1, FollowsFacts DEF Follows
<1> QED
  BY <1>1, <1>2 DEF Retracts

LEMMA SupportedStays ==
    ASSUME Retracts, NEW o \in Owners, NEW c, Supported(o, c, steady, row, link, actor),
           steady'[o] => steady[o], steady'[o] /\ Kept(o, c, row, link) => Kept(o, c, row', link')
    PROVE  Supported(o, c, steady', row', link', actor')
BY DEF Supported, Retracts

LEMMA FollowerKeeps ==
    ASSUME IInv, NEW b \in Actors, Follows(actor[b], actor'[b]), number' \in Nat, number <= number',
           actor'[b].pc # "idle" /\ actor'[b].fresh
           /\ actor[b].report.kind \notin Gone => kea'[Here(actor[b])].kind \notin Gone,
           Sustains, actor[b].pc = "commit" => Holds(actor[b], number', steady', row', link')
    PROVE  Typed(actor'[b]) /\ InWorld(actor'[b], kea', number', steady', row', link', actor')
<1> DEFINE l == actor[b]  l2 == actor'[b]
<1>1. Typed(l) /\ InWorld(l, kea, number, steady, row, link, actor) /\ number \in Nat
  BY DEF IInv, ActorsOK, WorldOK
<1>2. l2.pc = l.pc /\ l2.report = l.report
  BY DEF Follows
<1>3. \A o \in Owners, c \in 0..number : Supported(o, c, steady, row, link, actor)
      => Supported(o, c, steady', row', link', actor')
  BY DEF Sustains
<1>4. Follows(l, l2) /\ (l.pc = "commit" => Holds(l, number', steady', row', link'))
      /\ (l2.pc # "idle" /\ l2.fresh /\ l.report.kind \notin Gone => kea'[Here(l)].kind \notin Gone)
  OBVIOUS
<1> HIDE DEF l, l2
<1>5. Typed(l2) /\ Here(l2) = Here(l) /\ (l2.pc = "commit" => Holds(l2, number', steady', row', link'))
  BY <1>1, <1>2, <1>4, FollowsFacts
<1>6. InWorld(l2, kea', number', steady', row', link', actor')
  BY <1>1, <1>2, <1>3, <1>4, <1>5, InWorldMoves
<1> QED
  BY <1>5, <1>6 DEF l2

LEMMA StepKeeps ==
    ASSUME IInv, WorldOK', NEW a \in Actors, NEW new, Moved(a, new), Typed(new),
           InWorld(new, kea, number', steady', row', link', actor'),
           kea' = kea, number <= number', Sustains,
           \A b \in Actors \ {a} : actor[b].pc = "commit" =>
               new.pc # "commit" /\ Holds(actor[b], number', steady', row', link')
    PROVE  IInv'
<1>1. number' \in Nat /\ ActorsOK /\ WorldOK /\ number \in Nat /\ actor' \in [Actors -> Local]
  BY DEF WorldOK, IInv, Moved
<1>2. ASSUME NEW b \in Actors \ {a}
      PROVE  Typed(actor'[b]) /\ InWorld(actor'[b], kea', number', steady', row', link', actor')
  <2>1. Follows(actor[b], actor'[b]) /\ InWorld(actor[b], kea, number, steady, row, link, actor)
    BY <1>1 DEF Moved, ActorsOK
  <2>2. actor'[b].pc # "idle" /\ actor'[b].fresh /\ actor[b].report.kind \notin Gone => kea'[Here(actor[b])].kind \notin Gone
    BY <2>1 DEF InWorld, Follows
  <2> QED
    BY <1>1, <2>1, <2>2, FollowerKeeps
<1>3. Typed(actor'[a]) /\ InWorld(actor'[a], kea', number', steady', row', link', actor')
  <2> DEFINE l2 == actor'[a]
  <2>1. Follows(new, l2)
    BY DEF Moved
  <2> HIDE DEF l2
  <2>2. Typed(l2) /\ Here(l2) = Here(new) /\ l2.pc = new.pc /\ l2.report = new.report /\ (l2.fresh => new.fresh)
    BY <2>1, FollowsFacts DEF Follows
  <2>3. l2.pc # "idle" /\ l2.fresh /\ l2.report.kind \notin Gone => kea[Here(l2)].kind \notin Gone
    BY <2>2 DEF InWorld
  <2>4. l2.pc = "commit" => Holds(l2, number', steady', row', link')
    <3>1. new.pc = "commit" => Holds(new, number', steady', row', link')
      BY DEF InWorld
    <3> QED
      BY <2>1, <2>2, <3>1, FollowsFacts
  <2>5. InWorld(l2, kea, number', steady', row', link', actor')
    BY <1>1, <2>1, <2>3, <2>4, InWorldMoves
  <2> QED
    BY <2>2, <2>5 DEF l2
<1>4. \A b \in Actors : Typed(actor'[b]) /\ InWorld(actor'[b], kea', number', steady', row', link', actor')
  BY <1>2, <1>3
<1>5. \A b, c \in Actors : actor'[b].pc = "commit" /\ actor'[c].pc = "commit" => b = c
  <2>1. actor'[a].pc = new.pc /\ \A b \in Actors \ {a} : actor'[b].pc = actor[b].pc
    BY DEF Moved, Follows
  <2> QED
    BY <1>1, <2>1 DEF ActorsOK
<1>6. ActorsOK'
  BY <1>1, <1>4, <1>5 DEF ActorsOK
<1> QED
  BY <1>6 DEF IInv

LEMMA OfActor ==
    ASSUME IInv, NEW a \in Actors
    PROVE  /\ WorldOK /\ ActorsOK /\ actor[a] \in Local /\ Typed(actor[a])
           /\ InWorld(actor[a], kea, number, steady, row, link, actor)
           /\ actor[a].pc # "idle" =>
                 /\ Works(actor[a]) /\ actor[a].order \in Orders /\ actor[a].order.server \in Servers
                 /\ Now(a) = Here(actor[a]) /\ Now(a) \in Owners /\ Now(a)[1] = actor[a].order.server
                 /\ Now(a)[2] = Plan(actor[a].order)[actor[a].phase] /\ Now(a)[2] \in Sources
                 /\ Now(a) = <<actor[a].order.server, Now(a)[2]>>
                 /\ actor[a].phase \in 1..Len(Plan(actor[a].order))
<1>1. Typed(actor[a]) /\ InWorld(actor[a], kea, number, steady, row, link, actor) /\ WorldOK /\ ActorsOK
  BY DEF IInv, ActorsOK
<1>2. actor[a].pc # "idle" => Works(actor[a])
  BY <1>1 DEF Typed
<1>3. Now(a) = Here(actor[a]) /\ Now(a)[1] = actor[a].order.server /\ Now(a)[2] = Plan(actor[a].order)[actor[a].phase]
  BY DEF Now, Here
<1>4. actor[a].pc # "idle" =>
         /\ actor[a].order \in Orders /\ actor[a].order.server \in Servers /\ actor[a].phase \in 1..Len(Plan(actor[a].order))
         /\ Plan(actor[a].order)[actor[a].phase] \in Sources /\ Now(a) \in Owners
  BY <1>2, <1>3, PlanFacts DEF Works, Now
<1>5. Now(a) = <<actor[a].order.server, Now(a)[2]>>
  BY <1>3 DEF Now
<1> QED
  BY <1>1, <1>2, <1>3, <1>4, <1>5 DEF Typed

LEMMA WorldStays ==
    ASSUME WorldOK, UNCHANGED <<kea, row, link, born, refers, barrier, steady>>, number' \in Nat, number <= number',
           rounds' \in [Servers -> 0..2]
    PROVE  WorldOK'
<1>1. ASSUME NEW i \in Rows PROVE Numbered(link[i], number')
  <2>1. \A o \in Owners : link[i][o] # None => link[i][o].n \in Nat /\ link[i][o].mark \in Nat \union {None}
    BY LinkFacts DEF WorldOK, Links
  <2> QED
    BY <2>1 DEF WorldOK, Numbered
<1> HIDE DEF Links, Reports, Owners
<1> QED
  BY <1>1 DEF WorldOK

\* A worker moves, and the world stays.
LEMMA QuietStep ==
    ASSUME IInv, UNCHANGED <<kea, row, link, born, refers, barrier, steady>>, number' \in Nat, number <= number',
           rounds' \in [Servers -> 0..2], NEW a \in Actors, NEW new, Typed(new), Moved(a, new), new.pc # "commit",
           InWorld(new, kea, number', steady, row, link, actor)
    PROVE  IInv'
<1>1. WorldOK /\ ActorsOK /\ WorldOK'
  BY WorldStays DEF IInv
<1>2. Retracts
  BY <1>1, MovedRetracts
<1>3. \A o \in Owners : \A c : Supported(o, c, steady, row, link, actor) => Supported(o, c, steady', row', link', actor')
  BY <1>2, SupportedStays
<1>4. Sustains
  BY <1>3 DEF Sustains
<1>5. InWorld(new, kea', number', steady', row', link', actor')
  <2>1. Follows(new, new)
    BY CalmFollows DEF Typed
  <2>2. new.pc # "idle" /\ new.fresh /\ new.report.kind \notin Gone => kea'[Here(new)].kind \notin Gone
    BY DEF InWorld
  <2> QED
    BY <1>3, <2>1, <2>2, InWorldMoves
<1>6. ASSUME NEW b \in Actors, actor[b].pc = "commit" PROVE Holds(actor[b], number', steady', row', link')
  <2>1. Holds(actor[b], number, steady, row, link) /\ actor[b].n \in Nat /\ number \in Nat
    BY <1>1, <1>6 DEF ActorsOK, InWorld, Local, WorldOK
  <2> QED
    BY <2>1 DEF Holds
<1> QED
  BY <1>1, <1>4, <1>5, <1>6, StepKeeps

\* A phase ends with the claims of the complete phases behind it.
LEMMA OnwardMoves ==
    ASSUME NEW me \in Local, me.order \in Orders, me.phase \in 1..Len(Plan(me.order)),
           \A s \in me.whole : \E j \in 1..Len(Plan(me.order)) : Plan(me.order)[j] = s /\ j <= me.phase,
           NEW k, NEW m \in Nat, NEW std, NEW rw, NEW lk, NEW ws,
           \A s \in Sources : me.cutoff[s] <= m,
           \A s \in me.whole : Supported(<<me.order.server, s>>, me.cutoff[s], std, rw, lk, ws)
    PROVE  /\ Typed(Onward(me)) /\ InWorld(Onward(me), k, m, std, rw, lk, ws)
           /\ Onward(me).pc \in {"cutoff", "choose", "idle"}
<1> DEFINE plan == Plan(me.order)
           next == [me EXCEPT !.phase = me.phase + 1, !.pc = "cutoff", !.report = Absent, !.found = {}, !.old = {}]
           first == [me EXCEPT !.phase = 1, !.pc = "choose", !.report = Absent, !.found = {}, !.old = {}]
<1>1. Len(plan) \in 1..2 /\ me.phase \in Nat /\ Absent \in Reports /\ Absent.kind \in Gone
  BY PlanFacts, ReportFacts
<1>2. CASE me.phase < Len(plan)
  <2>1. Onward(me) = next
    BY <1>2 DEF Onward
  <2>2. me.phase + 1 \in 1..Len(plan) /\ me.phase + 1 \in 1..2
    <3>1. \A i \in 1..2, j \in Nat : j \in 1..i /\ j < i => j + 1 \in 1..i /\ j + 1 \in 1..2
      OBVIOUS
    <3>2. me.phase \in 1..Len(plan)
      OBVIOUS
    <3> HIDE DEF plan
    <3> QED
      BY <1>1, <1>2, <3>1, <3>2
  <2>3. /\ next \in Local /\ next.pc = "cutoff" /\ next.order = me.order /\ next.phase = me.phase + 1
        /\ next.cutoff = me.cutoff /\ next.whole = me.whole /\ next.report = Absent
    BY <1>1, <2>2 DEF Local
  <2> HIDE DEF next
  <2>4. \A s \in me.whole : \E j \in 1..Len(Plan(me.order)) : Plan(me.order)[j] = s /\ j < me.phase + 1
    BY <1>1
  <2>5. Typed(next)
    BY <2>2, <2>3, <2>4 DEF Typed, Works
  <2>6. InWorld(next, k, m, std, rw, lk, ws)
    BY <1>1, <2>3 DEF InWorld
  <2> QED
    BY <2>1, <2>3, <2>5, <2>6
<1>3. CASE ~(me.phase < Len(plan)) /\ Cleans(me.order)
  <2>1. Onward(me) = first
    BY <1>3 DEF Onward
  <2>2. 1 \in 1..Len(plan) /\ 1 \in 1..2
    BY <1>1
  <2>3. /\ first \in Local /\ first.pc = "choose" /\ first.order = me.order /\ first.phase = 1
        /\ first.cutoff = me.cutoff /\ first.whole = me.whole /\ first.report = Absent
    BY <1>1, <2>2 DEF Local
  <2> HIDE DEF first
  <2>5. Typed(first)
    BY <1>1, <2>2, <2>3 DEF Typed, Works
  <2>6. InWorld(first, k, m, std, rw, lk, ws)
    BY <1>1, <2>3 DEF InWorld
  <2> QED
    BY <2>1, <2>3, <2>5, <2>6
<1>4. CASE ~(me.phase < Len(plan)) /\ ~Cleans(me.order)
  <2>1. Onward(me) = Idle
    BY <1>4 DEF Onward
  <2>2. Idle.pc = "idle"
    BY DEF Idle
  <2> QED
    BY <2>1, <2>2, IdleGood
<1> QED
  BY <1>2, <1>3, <1>4

LEMMA OnwardLeaves ==
    ASSUME NEW me \in Local, me.order \in Orders
    PROVE  Onward(me) \in Local /\ Onward(me).pc # "commit"
<1>1. Absent \in Reports /\ Len(Plan(me.order)) \in 1..2 /\ me.phase \in 1..2
  BY PlanFacts, ReportFacts DEF Local
<1>2. CASE me.phase < Len(Plan(me.order))
  <2> DEFINE new == [me EXCEPT !.phase = me.phase + 1, !.pc = "cutoff", !.report = Absent, !.found = {}, !.old = {}]
  <2>1. me.phase + 1 \in 1..2
    <3>1. \A i, j \in 1..2 : j < i => j + 1 \in 1..2
      OBVIOUS
    <3> QED
      BY <1>1, <1>2, <3>1
  <2>2. new \in Local /\ new.pc = "cutoff"
    BY <1>1, <2>1 DEF Local
  <2>3. Onward(me) = new
    BY <1>2 DEF Onward
  <2> QED
    BY <2>2, <2>3
<1>3. CASE ~(me.phase < Len(Plan(me.order))) /\ Cleans(me.order)
  <2> DEFINE new == [me EXCEPT !.phase = 1, !.pc = "choose", !.report = Absent, !.found = {}, !.old = {}]
  <2>1. new \in Local /\ new.pc = "choose"
    <3>1. 1 \in 1..2
      OBVIOUS
    <3> QED
      BY <1>1, <3>1 DEF Local
  <2>2. Onward(me) = new
    BY <1>3 DEF Onward
  <2> QED
    BY <2>1, <2>2
<1>4. CASE ~(me.phase < Len(Plan(me.order))) /\ ~Cleans(me.order)
  <2>1. Onward(me) = Idle
    BY <1>4 DEF Onward
  <2>2. Idle.pc = "idle" /\ Idle \in Local
    BY IdleGood DEF Typed, Idle
  <2> QED
    BY <2>1, <2>2
<1> QED
  BY <1>2, <1>3, <1>4

\* The worker ends its claim, with or without a link.
Ends(a) == \E local \in {actor[a], Unlinked(actor[a])} : actor' = [actor EXCEPT ![a] = Onward(local)]

LEMMA UnlinkedFacts ==
    ASSUME NEW me \in Local, me.order \in Orders
    PROVE  /\ Unlinked(me) \in Local /\ Unlinked(me).order = me.order
           /\ Follows(Onward(me), Onward(Unlinked(me)))
<1> DEFINE held == me.held \ {Plan(me.order)[me.phase]}  other == [me EXCEPT !.held = held]
<1>1. Unlinked(me) = other /\ held \in SUBSET Sources
  BY DEF Unlinked, Local
<1> HIDE DEF held
<1>2. other \in Local /\ other.order = me.order /\ other.phase = me.phase
  BY <1>1 DEF Local
<1>3. Onward(me) \in Local /\ Onward(other) \in Local
  BY <1>2, OnwardLeaves
<1>4. Onward(other) \in {Onward(me), [Onward(me) EXCEPT !.held = held]}
  <2>1. CASE me.phase < Len(Plan(me.order))
    <3>1. /\ Onward(me) = [me EXCEPT !.phase = me.phase + 1, !.pc = "cutoff", !.report = Absent, !.found = {}, !.old = {}]
          /\ Onward(other) = [other EXCEPT !.phase = me.phase + 1, !.pc = "cutoff", !.report = Absent, !.found = {}, !.old = {}]
      BY <1>2, <2>1 DEF Onward
    <3> QED
      BY <3>1 DEF Local
  <2>2. CASE ~(me.phase < Len(Plan(me.order))) /\ Cleans(me.order)
    <3>1. /\ Onward(me) = [me EXCEPT !.phase = 1, !.pc = "choose", !.report = Absent, !.found = {}, !.old = {}]
          /\ Onward(other) = [other EXCEPT !.phase = 1, !.pc = "choose", !.report = Absent, !.found = {}, !.old = {}]
      BY <1>2, <2>2 DEF Onward
    <3> QED
      BY <3>1 DEF Local
  <2>3. CASE ~(me.phase < Len(Plan(me.order))) /\ ~Cleans(me.order)
    BY <1>2, <2>3 DEF Onward
  <2> QED
    BY <2>1, <2>2, <2>3
<1> HIDE DEF other
<1>5. Follows(Onward(me), Onward(other))
  BY <1>1, <1>3, <1>4, HeldFollows, CalmFollows
<1> QED
  BY <1>1, <1>2, <1>5

LEMMA EndsMoves ==
    ASSUME ActorsOK, NEW a \in Actors, actor[a].order \in Orders, Ends(a)
    PROVE  Moved(a, Onward(actor[a]))
<1> DEFINE me == actor[a]
<1>1. me \in Local /\ Unlinked(me) \in Local /\ Follows(Onward(me), Onward(Unlinked(me)))
      /\ Onward(me) \in Local /\ Onward(Unlinked(me)) \in Local
  BY UnlinkedFacts, OnwardLeaves DEF ActorsOK
<1>2. CASE actor' = [actor EXCEPT ![a] = Onward(me)]
  BY <1>1, <1>2, SetMoves
<1>3. CASE actor' = [actor EXCEPT ![a] = Onward(Unlinked(me))]
  <2>1. Moved(a, Onward(Unlinked(me)))
    BY <1>1, <1>3, SetMoves
  <2>2. actor'[a] = Onward(Unlinked(me))
    BY <1>3 DEF ActorsOK
  <2> QED
    BY <1>1, <2>1, <2>2 DEF Moved
<1> QED
  BY <1>2, <1>3 DEF Ends

LEMMA EndsLeaves ==
    ASSUME IInv, NEW a \in Actors, actor[a].pc # "idle", Ends(a)
    PROVE  \E new \in Local : new.pc # "commit" /\ actor' = [actor EXCEPT ![a] = new] /\ actor'[a] = new
<1>1. actor[a] \in Local /\ actor[a].order \in Orders /\ actor \in [Actors -> Local]
  BY OfActor DEF ActorsOK
<1>2. \A local \in {actor[a], Unlinked(actor[a])} : Onward(local) \in Local /\ Onward(local).pc # "commit"
  BY <1>1, UnlinkedFacts, OnwardLeaves
<1> QED
  BY <1>1, <1>2 DEF Ends

\* The history of rounds keeps its type.
LEMMA RecountTyped == ASSUME WorldOK, NEW a PROVE Recounted(a) \in [Servers -> 0..2]
<1>1. \A s \in Servers : rounds[s] \in 0..2 /\ 0 \in 0..2
  BY DEF WorldOK
<1> QED
  BY <1>1 DEF Recounted

------------------------------------------------------------------------------
(* The orders and the reads.                                               *)

LEMMA StartKeeps == ASSUME IInv, NEW a \in Actors, NEW order \in Orders, Start(a, order) PROVE IInv'
<1>1. PICK quiet \in BOOLEAN, held \in SUBSET Sources :
         actor' = [actor EXCEPT ![a] = [Idle EXCEPT !.pc = "cutoff", !.order = order, !.held = held, !.quiet = quiet,
                                                    !.base = rounds[order.server]]]
  <2>1. {s \in Sources : kea[<<order.server, s>>].kind \notin {"absent", "inactive"}} \in SUBSET Sources
    OBVIOUS
  <2> QED
    BY <2>1 DEF Start, Set
<1> DEFINE new == [Idle EXCEPT !.pc = "cutoff", !.order = order, !.held = held, !.quiet = quiet,
             !.base = rounds[order.server]]
<1>2. UNCHANGED <<kea, row, link, born, number, refers, barrier, steady, rounds>> /\ WorldOK /\ ActorsOK
  BY OfActor DEF Start
<1>3. /\ new.pc = "cutoff" /\ new.order = order /\ new.phase = 1 /\ new.cutoff = [s \in Sources |-> 0]
      /\ new.whole = {} /\ new.fresh = FALSE
  BY DEF Idle
<1>4. rounds[order.server] \in 0..2
  BY <1>2, PlanFacts DEF WorldOK
<1>5. new \in Local
  <2>1. Idle \in Local
    BY IdleGood DEF Typed
  <2> HIDE DEF Idle
  <2> QED
    BY <1>4, <2>1 DEF Local
<1> HIDE DEF new
<1>6. Typed(new)
  <2>1. Len(Plan(order)) \in 1..2 /\ 1 \in 1..Len(Plan(order))
    <3>1. Len(Plan(order)) \in 1..2
      BY PlanFacts
    <3>2. \A i \in 1..2 : 1 \in 1..i
      OBVIOUS
    <3> QED
      BY <3>1, <3>2
  <2> QED
    BY <1>3, <1>5, <2>1 DEF Typed, Works
<1>7. InWorld(new, kea, number', steady, row, link, actor)
  BY <1>2, <1>3 DEF InWorld, WorldOK
<1>8. Moved(a, new)
  BY <1>1, <1>2, <1>5, SetMoves DEF new
<1>9. number' \in Nat /\ number <= number' /\ rounds' \in [Servers -> 0..2]
  BY <1>2 DEF WorldOK
<1> QED
  BY <1>2, <1>3, <1>6, <1>7, <1>8, <1>9, QuietStep

LEMMA TakeCutoffKeeps == ASSUME IInv, NEW a \in Actors, TakeCutoff(a) PROVE IInv'
<1> DEFINE me == actor[a]  s0 == Now(a)[2]
           taken == [me.cutoff EXCEPT ![s0] = number + 1]
<1>1. /\ WorldOK /\ ActorsOK /\ me \in Local /\ Works(me) /\ InWorld(me, kea, number, steady, row, link, actor)
      /\ s0 \in Sources /\ s0 = Plan(me.order)[me.phase] /\ me.pc = "cutoff" /\ me.phase \in 1..Len(Plan(me.order))
      /\ me.order \in Orders
      /\ UNCHANGED <<kea, row, link, born, refers, barrier, steady, rounds>> /\ number \in Nat
  BY OfActor DEF TakeCutoff, WorldOK
<1>2. PICK cutoff \in {me.cutoff, taken} :
         /\ actor' = [actor EXCEPT ![a] = [me EXCEPT !.pc = "read", !.cutoff = cutoff]]
         /\ number' \in {number, number + 1} /\ (cutoff = taken => number' = number + 1)
  <2>1. CASE Cleans(me.order)
    <3>1. number' = number + 1 /\ actor' = [actor EXCEPT ![a] = [me EXCEPT !.pc = "read", !.cutoff[Now(a)[2]] = number + 1]]
      BY <2>1 DEF TakeCutoff, Set
    <3>2. [me EXCEPT !.pc = "read", !.cutoff[Now(a)[2]] = number + 1] = [me EXCEPT !.pc = "read", !.cutoff = taken]
      BY <1>1 DEF Local
    <3> QED
      BY <3>1, <3>2
  <2>2. CASE ~Cleans(me.order)
    <3>1. number' = number /\ actor' = [actor EXCEPT ![a] = [me EXCEPT !.pc = "read"]]
      BY <2>2 DEF TakeCutoff, Set
    <3>2. [me EXCEPT !.pc = "read"] = [me EXCEPT !.pc = "read", !.cutoff = me.cutoff]
      BY <1>1 DEF Local
    <3>3. me.cutoff # taken \/ me.cutoff = taken
      OBVIOUS
    <3>4. me.cutoff[s0] <= number
      BY <1>1 DEF InWorld
    <3>5. me.cutoff # taken
      BY <1>1, <3>4 DEF Local
    <3> QED
      BY <3>1, <3>2, <3>5
  <2> QED
    BY <2>1, <2>2
<1> DEFINE new == [me EXCEPT !.pc = "read", !.cutoff = cutoff]
<1>3. cutoff \in [Sources -> Nat] /\ \A s \in Sources : cutoff[s] <= number' /\ (s # s0 => cutoff[s] = me.cutoff[s])
  <2>1. /\ me.cutoff \in [Sources -> Nat] /\ \A s \in Sources : me.cutoff[s] <= number
        /\ number \in Nat /\ number + 1 \in Nat /\ s0 \in Sources
    BY <1>1 DEF Local, InWorld
  <2> HIDE DEF me, s0
  <2>2. taken \in [Sources -> Nat] /\ taken[s0] = number + 1 /\ \A s \in Sources \ {s0} : taken[s] = me.cutoff[s]
    BY <2>1
  <2> HIDE DEF taken
  <2>3. CASE cutoff = taken
    BY <1>2, <2>1, <2>2, <2>3
  <2>4. CASE cutoff = me.cutoff
    BY <1>2, <2>1, <2>4
  <2> QED
    BY <1>2, <2>3, <2>4
<1>4. /\ new \in Local /\ new.pc = "read" /\ new.order = me.order /\ new.phase = me.phase /\ new.cutoff = cutoff
      /\ new.whole = me.whole /\ new.report = me.report /\ new.fresh = me.fresh
  BY <1>1, <1>3 DEF Local
<1>5. Moved(a, new)
  BY <1>1, <1>2, <1>4, SetMoves
<1> HIDE DEF new, me, taken
<1>6. Typed(new)
  BY <1>1, <1>4 DEF Typed, Works
<1>7. ASSUME NEW s \in me.whole PROVE s # s0 /\ s \in Sources
  <2>1. \E j \in 1..Len(Plan(me.order)) : Plan(me.order)[j] = s /\ j < me.phase
    BY <1>1 DEF Works
  <2> QED
    BY <1>1, <2>1, PlanFacts
<1>8. InWorld(new, kea, number', steady, row, link, actor)
  <2>1. \A s \in me.whole : Supported(<<me.order.server, s>>, me.cutoff[s], steady, row, link, actor)
    BY <1>1 DEF InWorld, Pending
  <2>2. new.fresh /\ new.report.kind \notin Gone => kea[Here(new)].kind \notin Gone
    BY <1>1, <1>4 DEF InWorld, Here
  <2> QED
    BY <1>3, <1>4, <1>7, <2>1, <2>2 DEF InWorld
<1>9. number' \in Nat /\ number <= number' /\ rounds' \in [Servers -> 0..2]
  BY <1>1, <1>2 DEF WorldOK
<1> QED
  BY <1>1, <1>4, <1>5, <1>6, <1>8, <1>9, QuietStep

LEMMA RestartTyped == [s \in Servers |-> 0] \in [Servers -> 0..2]
BY Z3

\* A snapshot that does not show the record as a current address leaves nothing to protect.
LEMMA GoneSupported ==
    ASSUME IInv, NEW o \in Owners, kea[o].kind \in Gone, NEW c
    PROVE  Supported(o, c, steady, row, link, actor)
<1>1. ~steady[o]
  BY DEF IInv, WorldOK
<1>2. ASSUME NEW b \in Actors, Committing(actor[b], o) PROVE FALSE
  <2>1. Typed(actor[b]) /\ InWorld(actor[b], kea, number, steady, row, link, actor) /\ actor[b].pc = "commit"
        /\ Here(actor[b]) = o /\ actor[b].fresh
    BY <1>2 DEF IInv, ActorsOK, Committing
  <2>2. actor[b].report.kind \notin Gone
    BY <2>1 DEF Typed, Works
  <2> QED
    BY <2>1, <2>2 DEF InWorld
<1> QED
  BY <1>1, <1>2 DEF Supported

\* What a worker knows of its phases before it reads.
LEMMA BeforeRead ==
    ASSUME IInv, NEW a \in Actors, actor[a].pc = "read"
    PROVE  /\ \A s \in actor[a].whole : /\ Supported(<<actor[a].order.server, s>>, actor[a].cutoff[s], steady, row, link, actor)
                                        /\ \E j \in 1..Len(Plan(actor[a].order)) :
                                              Plan(actor[a].order)[j] = s /\ j < actor[a].phase
           /\ \A s \in Sources : actor[a].cutoff[s] <= number
<1>1. Works(actor[a]) /\ InWorld(actor[a], kea, number, steady, row, link, actor)
  BY OfActor
<1> QED
  BY <1>1 DEF Works, InWorld, Pending

\* The worker after a read: of the current source it has the report, and whole tells the complete phases.
LEMMA ReadMoves ==
    ASSUME IInv, NEW a \in Actors, actor[a].pc = "read", UNCHANGED <<kea, row, link, born, number, refers, barrier, steady>>,
           rounds' \in [Servers -> 0..2],
           NEW report \in Reports, NEW whole, NEW place \in {"claim", "classify"}, NEW new,
           report = kea[Now(a)] \/ (report.kind \in Gone /\ whole = actor[a].whole),
           whole = actor[a].whole \/ whole = actor[a].whole \union {Now(a)[2]},
           LET read == [actor[a] EXCEPT !.whole = whole, !.report = report, !.fresh = TRUE, !.pc = place]
           IN  \/ new = Onward(read) /\ report.kind \in Gone
               \/ new = read /\ place = "claim" /\ report.kind \notin Gone
               \/ new = read /\ place = "classify" /\ report.kind \in Gone,
           actor' = [actor EXCEPT ![a] = new] \/ actor' = Restless([actor EXCEPT ![a] = new])
    PROVE  IInv'
<1> DEFINE me == actor[a]  s0 == Now(a)[2]  plan == Plan(me.order)
           read == [me EXCEPT !.whole = whole, !.report = report, !.fresh = TRUE, !.pc = place]
<1>1. /\ WorldOK /\ ActorsOK /\ me \in Local /\ Works(me) /\ InWorld(me, kea, number, steady, row, link, actor)
      /\ s0 \in Sources /\ s0 = plan[me.phase] /\ me.phase \in 1..Len(plan) /\ number \in Nat
      /\ me.order \in Orders /\ Now(a) = <<me.order.server, s0>> /\ Now(a) \in Owners
  BY OfActor DEF WorldOK
<1>2. /\ read \in Local /\ read.pc = place /\ read.order = me.order /\ read.phase = me.phase /\ read.cutoff = me.cutoff
      /\ read.whole = whole /\ read.report = report /\ read.fresh = TRUE
  <2>1. whole \in SUBSET Sources
    BY <1>1 DEF Local
  <2> QED
    BY <1>1, <2>1 DEF Local
<1>3. /\ \A s \in me.whole : /\ Supported(<<me.order.server, s>>, me.cutoff[s], steady, row, link, actor)
                             /\ \E j \in 1..Len(plan) : plan[j] = s /\ j < me.phase
      /\ \A s \in Sources : me.cutoff[s] <= number
  BY BeforeRead
<1>4. \/ new = Onward(read) /\ report.kind \in Gone
      \/ new = read /\ place = "claim" /\ report.kind \notin Gone
      \/ new = read /\ place = "classify" /\ report.kind \in Gone
  OBVIOUS
<1> HIDE DEF read, plan, me, s0
<1>5. \A s \in whole : s \in me.whole \/ s = s0
  BY DEF me, s0
<1>6. \A s \in whole : \E j \in 1..Len(plan) : plan[j] = s /\ j <= me.phase
  <2>1. me.phase \in Nat /\ me.phase <= me.phase
    BY <1>1 DEF Local
  <2> SUFFICES ASSUME NEW s \in whole PROVE \E j \in 1..Len(plan) : plan[j] = s /\ j <= me.phase
    OBVIOUS
  <2>2. CASE s = s0
    BY <1>1, <2>1, <2>2
  <2>3. CASE s \in me.whole
    <3>1. PICK j \in 1..Len(plan) : plan[j] = s /\ j < me.phase
      BY <1>3, <2>3
    <3> QED
      BY <2>1, <3>1
  <2> QED
    BY <1>5, <2>2, <2>3
<1>7. s0 \in whole /\ report.kind \in Gone => kea[Now(a)].kind \in Gone \/ s0 \in me.whole
  BY DEF me
<1>8. report.kind \in Gone => \A s \in whole : Supported(<<me.order.server, s>>, me.cutoff[s], steady, row, link, actor)
  <2> SUFFICES ASSUME report.kind \in Gone, NEW s \in whole
               PROVE  Supported(<<me.order.server, s>>, me.cutoff[s], steady, row, link, actor)
    OBVIOUS
  <2>1. CASE s \in me.whole
    BY <1>3, <2>1
  <2>2. CASE s \notin me.whole
    <3>1. s = s0 /\ kea[<<me.order.server, s>>].kind \in Gone
      BY <1>1, <1>5, <1>7, <2>2
    <3>2. <<me.order.server, s>> \in Owners
      BY <1>1, <3>1
    <3> QED
      BY <3>1, <3>2, GoneSupported
  <2> QED
    BY <2>1, <2>2
<1>9. Typed(new) /\ InWorld(new, kea, number, steady, row, link, actor) /\ new.pc # "commit"
  <2>1. CASE new = Onward(read) /\ report.kind \in Gone
    <3>1. Typed(Onward(read)) /\ InWorld(Onward(read), kea, number, steady, row, link, actor)
          /\ Onward(read).pc \in {"cutoff", "choose", "idle"}
      <4>1. /\ read \in Local /\ read.order \in Orders /\ read.phase \in 1..Len(Plan(read.order))
            /\ \A s \in read.whole : \E j \in 1..Len(Plan(read.order)) : Plan(read.order)[j] = s /\ j <= read.phase
        BY <1>1, <1>2, <1>6 DEF plan
      <4>2. /\ \A s \in Sources : read.cutoff[s] <= number
            /\ \A s \in read.whole : Supported(<<read.order.server, s>>, read.cutoff[s], steady, row, link, actor)
        BY <1>2, <1>3, <1>8, <2>1
      <4> QED
        BY <1>1, <4>1, <4>2, OnwardMoves
    <3> QED
      BY <2>1, <3>1
  <2>2. CASE new = read /\ ((place = "claim" /\ report.kind \notin Gone) \/ (place = "classify" /\ report.kind \in Gone))
    <3>1. Typed(read)
      <4>1. place = "claim" => report.kind \notin Gone
        BY <2>2
      <4> QED
        BY <1>1, <1>2, <1>6, <4>1 DEF Typed, Works, plan
    <3>2. read.report.kind \notin Gone => kea[Here(read)].kind \notin Gone
      <4>1. Here(read) = Now(a)
        BY <1>1, <1>2 DEF Here, plan
      <4> QED
        BY <1>2, <4>1
    <3>3. ASSUME NEW s \in whole
          PROVE  Pending(read, s) \/ Supported(<<me.order.server, s>>, me.cutoff[s], steady, row, link, actor)
      <4>1. s = s0 /\ place = "claim" => Pending(read, s)
        BY <1>1, <1>2 DEF Pending, plan
      <4>2. s \in me.whole => Supported(<<me.order.server, s>>, me.cutoff[s], steady, row, link, actor)
        BY <1>3
      <4>3. report.kind \in Gone => Supported(<<me.order.server, s>>, me.cutoff[s], steady, row, link, actor)
        BY <1>8
      <4> QED
        BY <1>5, <2>2, <4>1, <4>2, <4>3
    <3>4. InWorld(read, kea, number, steady, row, link, actor)
      BY <1>2, <1>3, <3>2, <3>3 DEF InWorld
    <3> QED
      BY <1>2, <2>2, <3>1, <3>4
  <2> QED
    BY <1>4, <2>1, <2>2
<1>10. Moved(a, new)
  BY <1>1, <1>9, SetMoves DEF Typed
<1>11. number' \in Nat /\ number <= number' /\ InWorld(new, kea, number', steady, row, link, actor)
  BY <1>1, <1>9
<1> QED
  BY <1>9, <1>10, <1>11, QuietStep

LEMMA ReadSnapshotKeeps == ASSUME IInv, NEW a \in Actors, ReadSnapshot(a) PROVE IInv'
<1> DEFINE me == actor[a]  report == kea[Now(a)]  whole == me.whole \union {Now(a)[2]}
           read(place) == [me EXCEPT !.whole = whole, !.report = report, !.fresh = TRUE, !.pc = place]
<1>1. /\ WorldOK /\ ActorsOK /\ me \in Local /\ Now(a) \in Owners /\ me.pc = "read"
      /\ UNCHANGED <<kea, row, link, born, number, refers, barrier, steady, rounds>>
  BY OfActor DEF ReadSnapshot
<1>2. report \in Reports /\ rounds' \in [Servers -> 0..2]
  BY <1>1 DEF WorldOK
<1>3. PICK new : /\ actor' = [actor EXCEPT ![a] = new]
                 /\ \/ new = Onward(read("claim")) /\ report.kind \in Gone
                    \/ new = read("claim") /\ report.kind \notin Gone
                    \/ new = read("classify") /\ report.kind \in Gone
  <2>1. [read("claim") EXCEPT !.pc = "classify"] = read("classify")
    BY <1>1 DEF Local
  <2>2. [me EXCEPT !.whole = @ \union {Now(a)[2]}, !.report = report, !.fresh = TRUE, !.pc = "claim"] = read("claim")
    OBVIOUS
  <2> DEFINE one == read("claim")  two == read("classify")
  <2> HIDE DEF report
  <2>3. Set(a, CASE report.kind = "absent" -> Onward(one)
                 [] report.kind = "inactive" /\ Cleans(me.order) -> [one EXCEPT !.pc = "classify"]
                 [] report.kind = "inactive" /\ ~Cleans(me.order) -> Onward(one)
                 [] OTHER -> one)
    BY <2>2 DEF ReadSnapshot, report
  <2>4. [one EXCEPT !.pc = "classify"] = two
    BY <2>1
  <2> HIDE DEF one, two, read
  <2>5. \/ Set(a, Onward(one)) /\ report.kind \in Gone
        \/ Set(a, one) /\ report.kind \notin Gone
        \/ Set(a, two) /\ report.kind \in Gone
    BY <2>3, <2>4 DEF Gone
  <2> QED
    BY <2>5 DEF Set, one, two
<1> HIDE DEF report, whole, me
<1>4. CASE new = read("classify") /\ report.kind \in Gone
  <2>1. IInv /\ actor[a].pc = "read" /\ report = kea[Now(a)] /\ whole = actor[a].whole \union {Now(a)[2]}
    BY <1>1 DEF me, report, whole
  <2>2. new = [actor[a] EXCEPT !.whole = whole, !.report = report, !.fresh = TRUE, !.pc = "classify"]
    BY <1>4 DEF me
  <2> HIDE DEF read
  <2> QED
    BY <1>1, <1>2, <1>3, <1>4, <2>1, <2>2, ReadMoves
<1>5. CASE (new = Onward(read("claim")) /\ report.kind \in Gone) \/ (new = read("claim") /\ report.kind \notin Gone)
  <2>1. IInv /\ actor[a].pc = "read" /\ report = kea[Now(a)] /\ whole = actor[a].whole \union {Now(a)[2]}
    BY <1>1 DEF me, report, whole
  <2>2. read("claim") = [actor[a] EXCEPT !.whole = whole, !.report = report, !.fresh = TRUE, !.pc = "claim"]
    BY DEF me
  <2> HIDE DEF read
  <2> QED
    BY <1>1, <1>2, <1>3, <1>5, <2>1, <2>2, ReadMoves
<1> QED
  BY <1>3, <1>4, <1>5

LEMMA ReadInPartKeeps == ASSUME IInv, NEW a \in Actors, ReadInPart(a) PROVE IInv'
<1> DEFINE me == actor[a]
           read(report) == [me EXCEPT !.whole = me.whole, !.report = report, !.fresh = TRUE, !.pc = "claim"]
<1>1. /\ me \in Local /\ Now(a) \in Owners /\ me.pc = "read" /\ WorldOK
      /\ UNCHANGED <<kea, row, link, born, number, refers, barrier, steady>> /\ rounds' \in [Servers -> 0..2]
  BY OfActor, RestartTyped DEF ReadInPart
<1>2. PICK report \in {Absent, kea[Now(a)]} :
         actor' = Restless([actor EXCEPT ![a] = IF report.kind \in Gone THEN Onward(read(report)) ELSE read(report)])
  <2>1. \A report : [me EXCEPT !.report = report, !.fresh = TRUE, !.pc = "claim"] = read(report)
    BY <1>1 DEF Local
  <2> HIDE DEF read
  <2> QED
    BY <2>1 DEF ReadInPart, Gone
<1> DEFINE new == IF report.kind \in Gone THEN Onward(read(report)) ELSE read(report)
<1>3. report \in Reports /\ (report = kea[Now(a)] \/ report.kind \in Gone)
  BY <1>1, ReportFacts DEF WorldOK
<1>4. actor' = Restless([actor EXCEPT ![a] = new])
  BY <1>2
<1>5. \/ new = Onward(read(report)) /\ report.kind \in Gone
      \/ new = read(report) /\ report.kind \notin Gone
  OBVIOUS
<1>6. read(report) = [actor[a] EXCEPT !.whole = actor[a].whole, !.report = report, !.fresh = TRUE, !.pc = "claim"]
  OBVIOUS
<1>7. actor[a].pc = "read"
  BY <1>1
<1> HIDE DEF new, read, me
<1> QED
  BY <1>1, <1>3, <1>4, <1>5, <1>6, <1>7, ReadMoves

------------------------------------------------------------------------------
(* The claims.                                                             *)

LEMMA NobodyElse ==
    ASSUME NEW a \in Actors, NEW place, IdentityFree(a, {Global, place})
    PROVE  \A b \in Actors \ {a} : actor[b].pc # "commit"
BY DEF IdentityFree, Locks

LEMMA EnterClaimKeeps == ASSUME IInv, NEW a \in Actors, EnterClaim(a) PROVE IInv'
<1> DEFINE me == actor[a]  o0 == Now(a)  found == RowsAt(Vrf[o0[1]])  old == LegacyRow(o0[1])
           new == [me EXCEPT !.pc = "commit", !.n = number + 1, !.found = found, !.old = old]
<1>1. /\ WorldOK /\ ActorsOK /\ me \in Local /\ Works(me) /\ InWorld(me, kea, number, steady, row, link, actor)
      /\ me.pc = "claim" /\ o0 = Here(me) /\ o0 \in Owners /\ o0[1] = me.order.server
      /\ UNCHANGED <<kea, row, link, born, refers, barrier, steady, rounds>> /\ number' = number + 1 /\ number \in Nat
  BY OfActor DEF EnterClaim, WorldOK
<1>2. \A i \in found : i \in Rows /\ row[i] # None /\ row[i].place = Vrf[o0[1]]
  BY DEF RowsAt
<1>3. \A i \in old : i \in Rows /\ row[i] # None /\ row[i].marked /\ \A q \in Owners : link[i][q] = None
  BY DEF LegacyRow, RowsAt, Linked
<1>4. actor' = [actor EXCEPT ![a] = new]
  BY DEF EnterClaim, Set
<1>5. /\ new \in Local /\ new.pc = "commit" /\ new.order = me.order /\ new.phase = me.phase /\ new.cutoff = me.cutoff
      /\ new.whole = me.whole /\ new.report = me.report /\ new.fresh = me.fresh /\ new.n = number + 1
      /\ new.found = found /\ new.old = old
  <2>1. found \subseteq Rows /\ old \subseteq Rows
    BY <1>2, <1>3
  <2>2. number + 1 \in Nat /\ me \in Local
    BY <1>1
  <2> HIDE DEF found, old, me
  <2> QED
    BY <2>1, <2>2 DEF Local
<1>6. \A i \in Rows : row[i] # None /\ row[i].place = Vrf[o0[1]] => i \in found
  BY DEF RowsAt
<1>7. Moved(a, new)
  BY <1>1, <1>4, <1>5, SetMoves
<1>8. \A b \in Actors \ {a} : actor[b].pc # "commit"
  BY NobodyElse DEF EnterClaim
<1> HIDE DEF new, me, found, old, o0
<1>9. Typed(new)
  BY <1>1, <1>5 DEF Typed, Works
<1>10. WorldOK'
  <2>1. number' \in Nat /\ number <= number' /\ rounds' \in [Servers -> 0..2]
    BY <1>1 DEF WorldOK
  <2> QED
    BY <1>1, <2>1, WorldStays
<1>11. Sustains
  <2>1. ASSUME NEW b \in Actors, NEW o, Committing(actor'[b], o) PROVE actor'[b].n = number + 1
    <3>1. b = a
      BY <1>7, <1>8, <2>1 DEF Moved, Follows, Committing
    <3> QED
      BY <1>5, <1>7, <3>1 DEF Moved, Follows
  <2>2. \A c \in 0..number : c <= number + 1
    BY <1>1
  <2> QED
    BY <1>1, <2>1, <2>2 DEF Sustains, Supported
<1>12. Holds(new, number', steady', row', link')
  <2>1. Here(new) = o0
    BY <1>1, <1>5 DEF Here
  <2>2. \A i \in Rows, q \in Owners : link[i][q] # None => link[i][q].n < number + 1
    <3> SUFFICES ASSUME NEW i \in Rows, NEW q \in Owners, link[i][q] # None PROVE link[i][q].n < number + 1
      OBVIOUS
    <3>1. link[i][q] \in Link /\ link[i][q].n <= number
      BY <1>1 DEF WorldOK, Links, Numbered
    <3> QED
      BY <1>1, <3>1, LinkFacts
  <2>3. \A s \in Sources : new.cutoff[s] <= number + 1
    <3>1. \A s \in Sources : me.cutoff[s] \in Nat /\ me.cutoff[s] <= number
      BY <1>1 DEF InWorld, Local
    <3> QED
      BY <1>1, <1>5, <3>1
  <2>4. steady[o0] => \E i \in found : Keeps(row[i], link[i][o0], o0, 0)
    <3> SUFFICES ASSUME steady[o0] PROVE \E i \in found : Keeps(row[i], link[i][o0], o0, 0)
      OBVIOUS
    <3>1. PICK i \in Rows : Keeps(row[i], link[i][o0], o0, 0)
      BY <1>1 DEF WorldOK, Kept
    <3>2. i \in found
      BY <1>6, <3>1 DEF Keeps
    <3> QED
      BY <3>1, <3>2
  <2>5. new.found = found /\ new.old = old /\ new.n = number + 1 /\ number' = number + 1 /\ number + 1 <= number + 1
        /\ new.order.server = o0[1]
    BY <1>1, <1>5
  <2>6. row' = row /\ link' = link /\ steady' = steady
    BY <1>1
  <2> QED
    BY <1>2, <1>3, <2>1, <2>2, <2>3, <2>4, <2>5, <2>6 DEF Holds
<1>13. InWorld(new, kea', number', steady', row', link', actor')
  <2>1. \A s \in Sources : new.cutoff[s] <= number'
    <3>1. \A s \in Sources : me.cutoff[s] \in Nat /\ me.cutoff[s] <= number
      BY <1>1 DEF InWorld, Local
    <3> QED
      BY <1>1, <1>5, <3>1
  <2>2. new.fresh /\ new.report.kind \notin Gone => kea'[Here(new)].kind \notin Gone
    BY <1>1, <1>5 DEF InWorld, Here
  <2>3. ASSUME NEW s \in new.whole
        PROVE  Pending(new, s) \/ Supported(<<new.order.server, s>>, new.cutoff[s], steady', row', link', actor')
    <3>1. s \in Sources /\ <<me.order.server, s>> \in Owners /\ me.cutoff[s] \in 0..number
      BY <1>1, <1>5, <2>3 DEF Local, InWorld, Owners
    <3>2. Pending(me, s) \/ Supported(<<me.order.server, s>>, me.cutoff[s], steady, row, link, actor)
      BY <1>1, <1>5, <2>3 DEF InWorld
    <3>3. Pending(me, s) => Pending(new, s)
      BY <1>5 DEF Pending
    <3> QED
      BY <1>5, <1>11, <3>1, <3>2, <3>3 DEF Sustains
  <2> QED
    BY <1>12, <2>1, <2>2, <2>3 DEF InWorld
<1>14. kea' = kea /\ number <= number'
  BY <1>1
<1> QED
  BY <1>7, <1>8, <1>9, <1>10, <1>11, <1>13, <1>14, StepKeeps

LEMMA FailKeeps == ASSUME IInv, NEW a \in Actors, RefuseRow(a) \/ RowFails(a) PROVE IInv'
<1> DEFINE me == actor[a]  failed == FailPhase(me)  new == Onward(failed)  s0 == Plan(me.order)[me.phase]
<1>1. /\ WorldOK /\ ActorsOK /\ me \in Local /\ Works(me) /\ InWorld(me, kea, number, steady, row, link, actor)
      /\ me.pc = "commit" /\ me.phase \in 1..Len(Plan(me.order)) /\ me.order \in Orders
      /\ UNCHANGED <<kea, row, link, born, number, refers, barrier, steady>> /\ rounds' \in [Servers -> 0..2]
  <2>1. /\ UNCHANGED <<kea, row, link, born, number, refers, barrier, steady>> /\ me.pc = "commit"
        /\ rounds' = rounds \/ rounds' = [s \in Servers |-> 0]
    BY DEF RefuseRow, RowFails
  <2> QED
    BY <2>1, OfActor, RestartTyped DEF WorldOK
<1>2. actor' = [actor EXCEPT ![a] = new] \/ actor' = Restless([actor EXCEPT ![a] = new])
  BY DEF RefuseRow, RowFails, Set
<1>3. /\ failed \in Local /\ failed.order = me.order /\ failed.phase = me.phase /\ failed.cutoff = me.cutoff
      /\ failed.whole = me.whole \ {s0}
  BY <1>1 DEF FailPhase, Local
<1> HIDE DEF failed, me, s0
<1>4. \A s \in failed.whole : \E j \in 1..Len(Plan(failed.order)) : Plan(failed.order)[j] = s /\ j <= failed.phase
  BY <1>1, <1>3 DEF Works
<1>5. /\ \A s \in Sources : failed.cutoff[s] <= number
      /\ \A s \in failed.whole : Supported(<<failed.order.server, s>>, failed.cutoff[s], steady, row, link, actor)
  <2>1. \A s \in failed.whole : ~Pending(me, s)
    BY <1>3 DEF Pending, s0
  <2> QED
    BY <1>1, <1>3, <2>1 DEF InWorld
<1>6. number' \in Nat /\ number <= number' /\ number' = number
  BY <1>1 DEF WorldOK
<1>7. Typed(new) /\ InWorld(new, kea, number', steady, row, link, actor) /\ new.pc # "commit"
  <2>1. failed.order \in Orders /\ failed.phase \in 1..Len(Plan(failed.order)) /\ number \in Nat
    BY <1>1, <1>3, <1>6
  <2>2. Typed(Onward(failed)) /\ InWorld(Onward(failed), kea, number, steady, row, link, actor)
        /\ Onward(failed).pc \in {"cutoff", "choose", "idle"}
    BY <1>3, <1>4, <1>5, <2>1, OnwardMoves
  <2> QED
    BY <1>6, <2>2
<1> HIDE DEF new
<1>8. Moved(a, new)
  BY <1>1, <1>2, <1>7, SetMoves DEF Typed
<1> QED
  BY <1>1, <1>6, <1>7, <1>8, QuietStep

\* A worker ends its claim, and nobody else is at one.
LEMMA AloneStep ==
    ASSUME IInv, NEW a \in Actors, actor[a].pc \in {"commit", "classify"}, \A b \in Actors \ {a} : actor[b].pc # "commit",
           Ends(a), UNCHANGED <<kea, number>>, WorldOK',
           \A o \in Owners, c \in 0..number : Supported(o, c, steady, row, link, actor)
           /\ steady'[o] => Kept(o, c, row', link'),
           actor[a].pc = "commit" /\ steady'[Now(a)] => Kept(Now(a), actor[a].cutoff[Now(a)[2]], row', link')
    PROVE  IInv'
<1> DEFINE me == actor[a]  new == Onward(me)
<1>1. /\ WorldOK /\ ActorsOK /\ me \in Local /\ Works(me) /\ InWorld(me, kea, number, steady, row, link, actor)
      /\ me.phase \in 1..Len(Plan(me.order)) /\ me.order \in Orders /\ number \in Nat /\ me.order.server \in Servers
      /\ Now(a)[2] = Plan(me.order)[me.phase] /\ Now(a) = <<me.order.server, Now(a)[2]>>
  BY OfActor DEF WorldOK
<1>2. \A s \in me.whole : \E j \in 1..Len(Plan(me.order)) : Plan(me.order)[j] = s /\ j <= me.phase
  BY <1>1 DEF Works
<1>3. \A s \in Sources : me.cutoff[s] <= number
  BY <1>1 DEF InWorld
<1>4. ASSUME Moved(a, new), new.pc # "commit", NEW o \in Owners, NEW c, steady'[o] => Kept(o, c, row', link')
      PROVE  Supported(o, c, steady', row', link', actor')
  <2>1. \A b \in Actors : ~Committing(actor'[b], o)
    BY <1>4 DEF Moved, Follows, Committing
  <2> QED
    BY <1>4, <2>1 DEF Supported
<1>5. new.pc \in {"cutoff", "choose", "idle"} /\ new \in Local
  <2>1. \E j \in 1..Len(Plan(me.order)) : TRUE
    BY <1>1
  <2> DEFINE none == [o \in Owners |-> FALSE]
  <2>2. \A s \in me.whole : Supported(<<me.order.server, s>>, me.cutoff[s], none, row, link, [b \in Actors |-> Idle])
    <3>1. \A s \in me.whole : <<me.order.server, s>> \in Owners
      BY <1>1 DEF Local, Owners
    <3>2. Idle.pc = "idle"
      BY DEF Idle
    <3> HIDE DEF me
    <3> QED
      BY <3>1, <3>2 DEF Supported, Committing
  <2> HIDE DEF none, me
  <2> QED
    BY <1>1, <1>2, <1>3, <2>2, OnwardMoves DEF Typed
<1>6. Moved(a, new)
  BY <1>1, EndsMoves
<1>7. Sustains
  BY <1>4, <1>5, <1>6 DEF Sustains
<1>8. ASSUME NEW s \in me.whole PROVE Supported(<<me.order.server, s>>, me.cutoff[s], steady', row', link', actor')
  <2>1. s \in Sources /\ <<me.order.server, s>> \in Owners /\ me.cutoff[s] \in 0..number
    BY <1>1, <1>3 DEF Local, Owners
  <2>2. CASE Pending(me, s)
    <3>1. me.pc = "commit" /\ Now(a) = <<me.order.server, s>> /\ s = Now(a)[2]
      BY <1>1, <2>2 DEF Pending
    <3>2. steady'[<<me.order.server, s>>] => Kept(<<me.order.server, s>>, me.cutoff[s], row', link')
      BY <3>1
    <3> QED
      BY <1>4, <1>5, <1>6, <2>1, <3>2
  <2>3. CASE Supported(<<me.order.server, s>>, me.cutoff[s], steady, row, link, actor)
    BY <1>7, <2>1, <2>3 DEF Sustains
  <2> QED
    BY <1>1, <2>2, <2>3 DEF InWorld
<1> HIDE DEF me
<1>9. Typed(Onward(me)) /\ InWorld(Onward(me), kea, number, steady', row', link', actor')
  BY <1>1, <1>2, <1>3, <1>8, OnwardMoves
<1>10. kea' = kea /\ number' = number /\ number <= number'
  BY <1>1
<1>11. Typed(new) /\ InWorld(new, kea', number', steady', row', link', actor')
  BY <1>9, <1>10
<1> HIDE DEF new
<1> QED
  BY <1>5, <1>6, <1>7, <1>10, <1>11, StepKeeps

LEMMA ClassifyKeeps == ASSUME IInv, NEW a \in Actors, Classify(a) PROVE IInv'
<1> DEFINE o0 == Now(a)
<1>1. /\ WorldOK /\ o0 \in Owners /\ actor[a].pc = "classify" /\ Ends(a)
      /\ UNCHANGED <<kea, row, born, number, refers, barrier, steady>> /\ rounds' \in [Servers -> 0..2]
  BY OfActor, RecountTyped DEF Classify, Set, Ends
<1>2. \A b \in Actors \ {a} : actor[b].pc # "commit"
  BY NobodyElse DEF Classify
<1>3. ASSUME NEW i \in Rows
      PROVE  /\ link'[i] \in Links
             /\ \A q \in Owners : /\ link'[i][q] = None <=> link[i][q] = None
                                  /\ link[i][q] # None => link'[i][q].n = link[i][q].n /\ link'[i][q].mark = link[i][q].mark
  <2> DEFINE ls == link[i]  own == [ls[o0] EXCEPT !.known = TRUE]
  <2>1. ls \in Links
    BY <1>1 DEF WorldOK
  <2>2. link'[i] = ls \/ (ls[o0] # None /\ link'[i] = [ls EXCEPT ![o0] = own])
    <3>1. link'[i] = IF /\ i \in RowsAt(Vrf[Now(a)[1]]) \union RowsAt(Global)
                        /\ ls[o0] # None
                     THEN [ls EXCEPT ![o0].known = TRUE] ELSE ls
      BY DEF Classify
    <3> HIDE DEF ls, o0
    <3> QED
      BY <3>1
  <2>3. ls[o0] # None => own \in Link /\ own # None /\ own.n = ls[o0].n /\ own.mark = ls[o0].mark
    <3>1. ls[o0] # None => ls[o0] \in Link
      BY <1>1, <2>1 DEF Links
    <3> HIDE DEF ls, o0
    <3> QED
      BY <3>1, NoneApart DEF Link
  <2> HIDE DEF ls, own, o0
  <2>4. CASE link'[i] = ls
    BY <2>1, <2>4 DEF ls
  <2>5. CASE ls[o0] # None /\ link'[i] = [ls EXCEPT ![o0] = own]
    <3>1. link'[i] \in Links /\ link'[i][o0] = own /\ \A q \in Owners \ {o0} : link'[i][q] = ls[q]
      BY <1>1, <2>1, <2>3, <2>5 DEF Links
    <3> QED
      BY <2>3, <2>5, <3>1 DEF ls
  <2> QED
    BY <2>2, <2>4, <2>5
<1>4. \A o \in Owners : \A c : Kept(o, c, row, link) => Kept(o, c, row', link')
  BY <1>1, <1>3 DEF Kept, Keeps
<1>5. WorldOK'
  <2>1. \A i \in Rows : Numbered(link'[i], number) /\ (row[i] = None => \A o \in Owners : link'[i][o] = None)
    BY <1>1, <1>3 DEF WorldOK, Numbered
  <2>2. link' \in [Rows -> Links]
    <3>1. \E f : link' = [i \in Rows |-> f[i]]
      <4>1. link' = [i \in Rows |-> link'[i]]
        BY DEF Classify
      <4> QED
        BY <4>1
    <3> QED
      BY <1>3, <3>1
  <2>3. \A o \in Owners : steady[o] => kea[o].kind \notin Gone /\ Kept(o, 0, row', link')
    BY <1>1, <1>4 DEF WorldOK
  <2> HIDE DEF o0
  <2>4. number' = number /\ steady' = steady /\ kea' = kea /\ row' = row
    BY <1>1
  <2>5. \A i \in Rows : Numbered(link'[i], number') /\ (row'[i] = None => \A o \in Owners : link'[i][o] = None)
    BY <2>1, <2>4
  <2>6. \A o \in Owners : steady'[o] => kea'[o].kind \notin Gone /\ Kept(o, 0, row', link')
    BY <2>3, <2>4
  <2> QED
    BY <1>1, <2>2, <2>5, <2>6 DEF WorldOK
<1>6. \A o \in Owners, c \in 0..number : Supported(o, c, steady, row, link, actor) /\ steady'[o] => Kept(o, c, row', link')
  BY <1>1, <1>4 DEF Supported
<1> HIDE DEF o0
<1> QED
  BY <1>1, <1>2, <1>5, <1>6, AloneStep

\* A claim under the locks: its number is the newest, and nobody else is at one.
LEMMA OfCommit ==
    ASSUME IInv, NEW a \in Actors, actor[a].pc = "commit"
    PROVE  /\ actor[a].n \in Nat /\ actor[a].n <= number /\ actor[a].cutoff[Now(a)[2]] <= actor[a].n
           /\ actor[a].report \in Reports /\ actor[a].report.kind \notin Gone
           /\ \A i \in Rows, q \in Owners : link[i][q] # None => link[i][q].n < actor[a].n
           /\ \A i \in actor[a].found : i \in Rows /\ row[i] # None /\ row[i].place = Vrf[Now(a)[1]]
           /\ \A i \in actor[a].old : i \in Rows /\ row[i] # None /\ row[i].marked /\ \A q \in Owners : link[i][q] = None
           /\ steady[Now(a)] => \E i \in actor[a].found : Keeps(row[i], link[i][Now(a)], Now(a), 0)
           /\ actor[a].fresh \in BOOLEAN /\ (actor[a].fresh => kea[Now(a)].kind \notin Gone)
           /\ \A b \in Actors \ {a} : actor[b].pc # "commit"
           /\ \A c : actor[a].fresh /\ Supported(Now(a), c, steady, row, link, actor) => c <= actor[a].n
<1> DEFINE me == actor[a]
<1>1. /\ me \in Local /\ Works(me) /\ InWorld(me, kea, number, steady, row, link, actor)
      /\ Now(a) = Here(me) /\ Now(a)[1] = me.order.server /\ Now(a)[2] \in Sources /\ me.pc = "commit"
  BY OfActor
<1>2. Holds(me, number, steady, row, link)
  BY <1>1 DEF InWorld
<1>3. me.report \in Reports /\ me.report.kind \notin Gone /\ me.n \in Nat /\ me.fresh \in BOOLEAN
      /\ me.found \subseteq Rows /\ me.old \subseteq Rows
  BY <1>1 DEF Works, Local
<1>4. me.fresh => kea[Now(a)].kind \notin Gone
  BY <1>1, <1>3 DEF InWorld
<1>5. \A b \in Actors \ {a} : actor[b].pc # "commit"
  BY DEF IInv, ActorsOK
<1>6. \A c : me.fresh /\ Supported(Now(a), c, steady, row, link, actor) => c <= me.n
  BY <1>1 DEF Supported, Committing
<1> HIDE DEF me
<1>7. /\ me.n <= number /\ me.cutoff[Now(a)[2]] <= me.n
      /\ \A i \in Rows, q \in Owners : link[i][q] # None => link[i][q].n < me.n
      /\ \A i \in me.found : row[i] # None /\ row[i].place = Vrf[Now(a)[1]]
      /\ \A i \in me.old : row[i] # None /\ row[i].marked /\ \A q \in Owners : link[i][q] = None
      /\ steady[Now(a)] => \E i \in me.found : Keeps(row[i], link[i][Now(a)], Now(a), 0)
  BY <1>1, <1>2 DEF Holds
<1> QED
  BY <1>3, <1>4, <1>5, <1>6, <1>7 DEF me

\* A link of a row counts for a claim under the locks.
LEMMA KeptBefore ==
    ASSUME IInv, NEW a \in Actors, actor[a].pc = "commit", NEW o \in Owners, NEW c \in Nat, Kept(o, c, row, link)
    PROVE  c <= actor[a].n
<1>1. PICK i \in Rows : link[i][o] # None /\ c <= link[i][o].n
  BY DEF Kept, Keeps
<1>2. link[i][o].n \in Nat
  BY <1>1, LinkFacts DEF IInv, WorldOK, Links
<1> QED
  BY <1>1, <1>2, OfCommit

LEMMA TargetFacts ==
    ASSUME NEW a \in Actors
    PROVE  /\ Target(a) = {} => actor[a].found = {}
           /\ Target(a) \subseteq actor[a].found \union actor[a].old
           /\ actor[a].found # {} => Target(a) = actor[a].found
BY DEF Target

\* The row that a claim of o makes, and its links.
Made(r, ls, o, n) ==
    /\ r \in Row /\ r # None /\ r.place = Vrf[o[1]] /\ r.marked /\ r.status # "deprecated"
    /\ ls \in Links /\ ls[o] # None /\ ls[o].n = n /\ ls[o].mark = None /\ \A q \in Owners \ {o} : ls[q] = None

LEMMA NewRowFacts ==
    ASSUME NEW o \in Owners, NEW facts \in Facts, NEW n \in Nat
    PROVE  Made(NewRow(o, facts), StoreLink(NoLinks, o, facts, None, n, FALSE), o, n)
<1> DEFINE r == NewRow(o, facts)  ls == StoreLink(NoLinks, o, facts, None, n, FALSE)
           status == Status({o[2]})  place == Vrf[o[1]]
<1>1. status \in Statuses /\ status # "deprecated"
  BY OwnerKinds, StatusFacts
<1>2. place \in {Global, Elsewhere} \union {Vrf[s] : s \in Servers}
  BY OwnerKinds, VrfFacts
<1>3. facts.name \in {f.name : f \in Facts} \union {NoName} /\ facts.len \in {f.len : f \in Facts}
  OBVIOUS
<1>4. r = [place |-> place, status |-> status, marked |-> TRUE, room |-> 3, name |-> facts.name, len |-> facts.len]
  BY DEF NewRow
<1> HIDE DEF r, ls, status, place, Statuses
<1>5. r \in Row /\ r.place = place /\ r.marked /\ r.status = status
  BY <1>1, <1>2, <1>3, <1>4 DEF Row
<1>6. Written(ls, NoLinks, o, None, n)
  <2>1. facts \in Facts \union {None} /\ None \in Nat \union {None} /\ FALSE \in BOOLEAN
    OBVIOUS
  <2> QED
    BY <2>1, NoLinksTyped, StoreFacts DEF ls
<1> QED
  BY <1>1, <1>5, <1>6, NoLinksTyped, NoneApart DEF r, ls, place, Written, Made

\* A new row takes the claim.
LEMMA CommitCreateKeeps == ASSUME IInv, NEW a \in Actors, CommitCreate(a) PROVE IInv'
<1> DEFINE o0 == Now(a)  me == actor[a]  facts == me.report.facts  j == born + 1
<1>1. /\ WorldOK /\ o0 \in Owners /\ o0[1] \in Servers /\ o0[2] \in Sources /\ me.pc = "commit"
      /\ Ends(a) /\ me.found = {}
      /\ UNCHANGED <<kea, number, refers, barrier>> /\ rounds' \in [Servers -> 0..2] /\ number \in Nat
  BY OfActor, TargetFacts, OwnerKinds, RecountTyped DEF CommitCreate, Set, Ends, WorldOK
<1>2. /\ me.n \in Nat /\ me.n <= number /\ me.cutoff[o0[2]] <= me.n /\ me.report \in Reports
      /\ me.fresh \in BOOLEAN /\ (me.fresh => kea[o0].kind \notin Gone)
      /\ \A b \in Actors \ {a} : actor[b].pc # "commit"
      /\ \A c : me.fresh /\ Supported(o0, c, steady, row, link, actor) => c <= me.n
  BY <1>1, OfCommit
<1>3. ~steady[o0]
  BY <1>1, OfCommit
<1>4. CASE me.report.kind # "facts"
  <2>1. UNCHANGED <<born, row, link, steady>>
    BY <1>4 DEF CommitCreate
  <2>2. WorldOK'
    <3>1. number' \in Nat /\ number <= number' /\ rounds' \in [Servers -> 0..2]
      BY <1>1 DEF WorldOK
    <3> QED
      BY <1>1, <2>1, <3>1, WorldStays
  <2>3. \A o \in Owners, c \in 0..number : Supported(o, c, steady, row, link, actor) /\ steady'[o] => Kept(o, c, row', link')
    BY <2>1 DEF Supported
  <2>4. ~steady'[Now(a)]
    BY <1>3, <2>1
  <2> QED
    BY <1>1, <1>2, <2>2, <2>3, <2>4, AloneStep
<1>5. CASE me.report.kind = "facts"
  <2> DEFINE r == NewRow(o0, facts)  ls == StoreLink(NoLinks, o0, facts, None, me.n, FALSE)
  <2>1. /\ j \in Rows /\ born' = j /\ row' = [row EXCEPT ![j] = r] /\ link' = [link EXCEPT ![j] = ls]
        /\ steady' = [steady EXCEPT ![o0] = me.fresh]
    BY <1>5 DEF CommitCreate
  <2>2. facts \in Facts
    BY <1>2, <1>5, ReportFacts
  <2>3. Made(r, ls, o0, me.n)
    BY <1>1, <1>2, <2>2, NewRowFacts
  <2> HIDE DEF r, ls, o0, me, facts, j
  <2>4. /\ r \in Row /\ r # None /\ r.place = Vrf[o0[1]] /\ r.marked /\ r.status # "deprecated"
        /\ ls \in Links /\ ls[o0] # None /\ ls[o0].n = me.n /\ ls[o0].mark = None /\ \A q \in Owners \ {o0} : ls[q] = None
    BY <2>3 DEF Made
  <2>5. row[j] = None /\ \A o \in Owners : link[j][o] = None
    <3>1. ~(j <= born)
      BY <1>1 DEF WorldOK, j
    <3> QED
      BY <1>1, <2>1, <3>1 DEF WorldOK
  <2>6. /\ row' \in [Rows -> Row \union {None}] /\ row'[j] = r /\ \A i \in Rows \ {j} : row'[i] = row[i]
        /\ link' \in [Rows -> Links] /\ link'[j] = ls /\ \A i \in Rows \ {j} : link'[i] = link[i]
        /\ steady' \in [Owners -> BOOLEAN] /\ steady'[o0] = me.fresh /\ \A o \in Owners \ {o0} : steady'[o] = steady[o]
    BY <1>1, <1>2, <2>1, <2>4 DEF WorldOK
  <2>7. ASSUME NEW c \in Nat, c <= me.n PROVE Kept(o0, c, row', link')
    BY <2>1, <2>4, <2>6, <2>7 DEF Kept, Keeps
  <2>8. ASSUME NEW o \in Owners, NEW c, Kept(o, c, row, link) PROVE Kept(o, c, row', link')
    <3>1. PICK i \in Rows : Keeps(row[i], link[i][o], o, c)
      BY <2>8 DEF Kept
    <3>2. i # j
      BY <2>5, <3>1 DEF Keeps
    <3> QED
      BY <2>6, <3>1, <3>2 DEF Kept
  <2>9. WorldOK'
    <3>1. \A i \in Rows : Numbered(link'[i], number) /\ (row'[i] = None => \A o \in Owners : link'[i][o] = None)
      <4>1. Numbered(ls, number)
        BY <1>2, <2>4 DEF Numbered
      <4> QED
        BY <1>1, <2>4, <2>6, <4>1 DEF WorldOK
    <3>2. \A o \in Owners : steady'[o] => kea[o].kind \notin Gone /\ Kept(o, 0, row', link')
      <4>1. steady'[o0] => kea[o0].kind \notin Gone /\ Kept(o0, 0, row', link')
        BY <1>2, <2>6, <2>7
      <4>2. \A o \in Owners : steady[o] => kea[o].kind \notin Gone /\ Kept(o, 0, row, link)
        BY <1>1 DEF WorldOK
      <4> QED
        BY <2>6, <2>8, <4>1, <4>2
    <3>3. born' \in 0..Cardinality(Rows) /\ \A i \in Rows : row'[i] # None => i <= born'
      <4>1. born \in Nat /\ Rows = 1..Cardinality(Rows) /\ Cardinality(Rows) \in Nat
        BY <1>1, OwnershipAssumption, FS_CardinalityType DEF WorldOK
      <4>2. \A i \in Rows : row[i] # None => i <= born
        BY <1>1 DEF WorldOK
      <4> QED
        BY <2>1, <2>6, <4>1, <4>2 DEF j
    <3>4. number' = number /\ kea' = kea
      BY <1>1
    <3> QED
      BY <1>1, <2>6, <3>1, <3>2, <3>3, <3>4 DEF WorldOK
  <2>10. ASSUME NEW o \in Owners, NEW c \in 0..number, Supported(o, c, steady, row, link, actor), steady'[o]
         PROVE  Kept(o, c, row', link')
    <3>1. CASE o = o0
      <4>1. me.fresh /\ Supported(o0, c, steady, row, link, actor)
        BY <2>6, <2>10, <3>1
      <4>2. c <= me.n /\ c \in Nat
        BY <1>2, <4>1
      <4> QED
        BY <2>7, <3>1, <4>2
    <3>2. CASE o # o0
      BY <2>6, <2>8, <2>10, <3>2 DEF Supported
    <3> QED
      BY <3>1, <3>2
  <2>11. steady'[Now(a)] => Kept(Now(a), actor[a].cutoff[Now(a)[2]], row', link')
    <3>1. me.cutoff[o0[2]] \in Nat
      BY <1>1, OfActor DEF me, Local
    <3> QED
      BY <1>2, <2>7, <3>1 DEF o0, me
  <2>12. actor[a].pc = "commit" /\ Ends(a) /\ UNCHANGED <<kea, number>>
    BY <1>1 DEF me
  <2> QED
    BY <1>2, <2>9, <2>10, <2>11, <2>12, AloneStep
<1> QED
  BY <1>4, <1>5

\* The only row of the target: one that the claim found, or the legacy row when it found none.
LEMMA OneTarget ==
    ASSUME NEW a \in Actors, actor[a].found \subseteq Rows, actor[a].old \subseteq Rows, Cardinality(Target(a)) = 1
    PROVE  \E i \in Rows : /\ Target(a) = {i} /\ (CHOOSE j \in Target(a) : TRUE) = i
                           /\ i \in actor[a].found \/ (i \in actor[a].old /\ actor[a].found = {})
                           /\ \A j \in actor[a].found : j = i
<1>1. Target(a) \subseteq Rows /\ IsFiniteSet(Rows)
  BY OwnershipAssumption, TargetFacts
<1>2. IsFiniteSet(Target(a))
  BY <1>1, FS_Subset
<1>3. PICK i : Target(a) = {i}
  BY <1>2, FS_Singleton
<1>4. i \in Rows /\ (CHOOSE j \in {i} : TRUE) = i
  BY <1>1, <1>3
<1> QED
  BY <1>3, <1>4, TargetFacts DEF Target

LEMMA CommitClaimKeeps == ASSUME IInv, NEW a \in Actors, CommitClaim(a) PROVE IInv'
<1> DEFINE o0 == Now(a)  me == actor[a]
<1>1. /\ WorldOK /\ ActorsOK /\ o0 \in Owners /\ o0[1] \in Servers /\ o0[2] \in Sources /\ me.pc = "commit" /\ me \in Local
      /\ Ends(a) /\ Cardinality(Target(a)) = 1
      /\ UNCHANGED <<kea, born, number, refers, barrier>> /\ rounds' \in [Servers -> 0..2] /\ number \in Nat
  BY OfActor, OwnerKinds, RecountTyped DEF CommitClaim, Set, Ends, WorldOK
<1>2. /\ me.n \in Nat /\ me.n <= number /\ me.cutoff[o0[2]] <= me.n /\ me.report \in Reports /\ me.report.kind \notin Gone
      /\ \A i \in Rows, q \in Owners : link[i][q] # None => link[i][q].n < me.n
      /\ me.fresh \in BOOLEAN /\ (me.fresh => kea[o0].kind \notin Gone)
      /\ \A b \in Actors \ {a} : actor[b].pc # "commit"
      /\ \A c : me.fresh /\ Supported(o0, c, steady, row, link, actor) => c <= me.n
  BY <1>1, OfCommit
<1>3. /\ \A i \in me.found : i \in Rows /\ row[i] # None /\ row[i].place = Vrf[o0[1]]
      /\ \A i \in me.old : i \in Rows /\ row[i] # None /\ row[i].marked /\ \A q \in Owners : link[i][q] = None
      /\ steady[o0] => \E i \in me.found : Keeps(row[i], link[i][o0], o0, 0)
  BY <1>1, OfCommit
<1>4. PICK i \in Rows : /\ (CHOOSE j \in Target(a) : TRUE) = i
                        /\ i \in me.found \/ (i \in me.old /\ me.found = {})
                        /\ \A j \in me.found : j = i
  BY <1>1, <1>3, OneTarget
<1> DEFINE done == ClaimRow(a, o0, i)
<1>5. /\ row' = [row EXCEPT ![i] = done.row] /\ link' = [link EXCEPT ![i] = done.links]
      /\ steady' = IF done.outcome = "applied" THEN [steady EXCEPT ![o0] = me.fresh] ELSE steady
  BY <1>4 DEF CommitClaim
<1>6. row[i] \in Row /\ row[i] # None /\ link[i] \in Links
  BY <1>1, <1>3, <1>4 DEF WorldOK
<1>7. /\ done.row \in Row /\ done.row.place = Vrf[o0[1]] /\ done.links \in Links
      /\ \A q \in Owners : done.links[q] # None =>
            \/ done.links[q] = link[i][q]
            \/ /\ q = o0 /\ done.links[o0].n = me.n
               /\ done.links[o0].mark # None => link[i][o0] # None /\ done.links[o0].mark = link[i][o0].mark
      /\ done.outcome = "applied" => Keeps(done.row, done.links[o0], o0, me.n)
      /\ \A q \in Owners \ {o0} : \A c : row[i].place = Vrf[o0[1]] /\ Keeps(row[i], link[i][q], q, c) =>
            Keeps(done.row, done.links[q], q, c)
      /\ \A c : Keeps(row[i], link[i][o0], o0, c) => Keeps(done.row, done.links[o0], o0, me.n)
  <2>1. /\ o0 \in Owners /\ row[i] \in Row /\ link[i] \in Links /\ actor[a].n \in Nat /\ actor[a].report \in Reports
        /\ actor[a].report.kind \notin Gone
    BY <1>1, <1>2, <1>6
  <2>2. Claimed(a, o0, i, done)
    BY <2>1, ClaimRowFacts
  <2> HIDE DEF done, o0
  <2> QED
    BY <2>2 DEF Claimed
<1>8. actor[a].pc = "commit" /\ Ends(a) /\ UNCHANGED <<kea, number>>
  BY <1>1
<1>9. me.cutoff[o0[2]] \in Nat
  BY <1>1 DEF Local
<1> HIDE DEF done, o0, me
<1>10. done.row # None
  BY <1>7, NoneApart
<1>11. /\ row' \in [Rows -> Row \union {None}] /\ row'[i] = done.row /\ \A j \in Rows \ {i} : row'[j] = row[j]
       /\ link' \in [Rows -> Links] /\ link'[i] = done.links /\ \A j \in Rows \ {i} : link'[j] = link[j]
  BY <1>1, <1>5, <1>7 DEF WorldOK
<1>12. /\ steady' \in [Owners -> BOOLEAN] /\ \A o \in Owners \ {o0} : steady'[o] = steady[o]
       /\ \/ done.outcome = "applied" /\ steady'[o0] = me.fresh
          \/ done.outcome # "applied" /\ steady'[o0] = steady[o0]
  <2>1. CASE done.outcome = "applied"
    <3>1. steady' = [steady EXCEPT ![o0] = me.fresh]
      BY <1>5, <2>1
    <3> QED
      BY <1>1, <1>2, <2>1, <3>1 DEF WorldOK
  <2>2. CASE done.outcome # "applied"
    <3>1. steady' = steady
      BY <1>5, <2>2
    <3> QED
      BY <1>1, <2>2, <3>1 DEF WorldOK
  <2> QED
    BY <2>1, <2>2
<1>13. ASSUME steady'[o0], NEW c \in Nat, c <= me.n PROVE Kept(o0, c, row', link')
  <2>1. Keeps(done.row, done.links[o0], o0, me.n)
    <3>1. CASE done.outcome = "applied"
      BY <1>7, <3>1
    <3>2. CASE done.outcome # "applied"
      <4>1. steady[o0]
        BY <1>12, <1>13, <3>2
      <4>2. Keeps(row[i], link[i][o0], o0, 0)
        BY <1>3, <1>4, <4>1
      <4> QED
        BY <1>7, <4>2
    <3> QED
      BY <3>1, <3>2
  <2>2. done.links[o0].n \in Nat /\ done.links[o0] # None
    BY <1>1, <1>7, <2>1, LinkFacts DEF Keeps, Links
  <2>3. Keeps(done.row, done.links[o0], o0, c)
    BY <1>2, <1>13, <2>1, <2>2 DEF Keeps
  <2> QED
    BY <1>11, <2>3 DEF Kept
<1>14. ASSUME NEW o \in Owners \ {o0}, NEW c, Kept(o, c, row, link) PROVE Kept(o, c, row', link')
  <2>1. PICK j \in Rows : Keeps(row[j], link[j][o], o, c)
    BY <1>14 DEF Kept
  <2>2. CASE j # i
    BY <1>11, <2>1, <2>2 DEF Kept
  <2>3. CASE j = i
    <3>1. i \notin me.old
      BY <1>3, <2>1, <2>3 DEF Keeps
    <3>2. row[i].place = Vrf[o0[1]]
      BY <1>3, <1>4, <3>1
    <3>3. Keeps(done.row, done.links[o], o, c)
      BY <1>7, <2>1, <2>3, <3>2
    <3> QED
      BY <1>11, <3>3 DEF Kept
  <2> QED
    BY <2>2, <2>3
<1>15. WorldOK'
  <2>1. \A j \in Rows : Numbered(link'[j], number)
    <3>1. Numbered(done.links, number)
      <4> SUFFICES ASSUME NEW q \in Owners, done.links[q] # None
                   PROVE  done.links[q].n <= number /\ (done.links[q].mark # None => done.links[q].mark <= number)
        BY DEF Numbered
      <4>1. Numbered(link[i], number)
        BY <1>1 DEF WorldOK
      <4>2. CASE done.links[q] = link[i][q]
        BY <4>1, <4>2 DEF Numbered
      <4>3. CASE /\ q = o0 /\ done.links[o0].n = me.n
                 /\ done.links[o0].mark # None => link[i][o0] # None /\ done.links[o0].mark = link[i][o0].mark
        BY <1>2, <4>1, <4>3 DEF Numbered
      <4> QED
        BY <1>7, <4>2, <4>3
    <3> QED
      BY <1>1, <1>11, <3>1 DEF WorldOK
  <2>2. \A j \in Rows : row'[j] = None => \A o \in Owners : link'[j][o] = None
    BY <1>1, <1>10, <1>11 DEF WorldOK
  <2>3. \A o \in Owners : steady'[o] => kea[o].kind \notin Gone /\ Kept(o, 0, row', link')
    <3>1. \A o \in Owners : steady[o] => kea[o].kind \notin Gone /\ Kept(o, 0, row, link)
      BY <1>1 DEF WorldOK
    <3>2. steady'[o0] => kea[o0].kind \notin Gone
      BY <1>1, <1>2, <1>12, <3>1
    <3>3. 0 \in Nat /\ 0 <= me.n
      BY <1>2
    <3> QED
      BY <1>12, <1>13, <1>14, <3>1, <3>2, <3>3
  <2>4. \A j \in Rows : row'[j] # None => j <= born
    BY <1>1, <1>6, <1>11 DEF WorldOK
  <2>5. number' = number /\ kea' = kea /\ born' = born
    BY <1>1
  <2> QED
    BY <1>1, <1>11, <1>12, <2>1, <2>2, <2>3, <2>4, <2>5 DEF WorldOK
<1>16. ASSUME NEW o \in Owners, NEW c \in 0..number, Supported(o, c, steady, row, link, actor), steady'[o]
       PROVE  Kept(o, c, row', link')
  <2>1. CASE o = o0
    <3>1. c <= me.n /\ c \in Nat
      <4>1. CASE me.fresh
        BY <1>1, <1>2, <1>16, <2>1, <4>1
      <4>2. CASE steady[o0]
        BY <1>1, <1>8, <1>16, <2>1, <4>2, KeptBefore DEF Supported, me
      <4> QED
        BY <1>12, <1>16, <2>1, <4>1, <4>2
    <3> QED
      BY <1>13, <1>16, <2>1, <3>1
  <2>2. CASE o # o0
    BY <1>12, <1>14, <1>16, <2>2 DEF Supported
  <2> QED
    BY <2>1, <2>2
<1>17. steady'[Now(a)] => Kept(Now(a), actor[a].cutoff[Now(a)[2]], row', link')
  BY <1>2, <1>9, <1>13 DEF o0, me
<1>18. \A b \in Actors \ {a} : actor[b].pc # "commit"
  BY <1>2
<1> QED
  BY <1>8, <1>15, <1>16, <1>17, <1>18, AloneStep

------------------------------------------------------------------------------
(* The cleanups.                                                           *)

LEMMA OfCleanup ==
    ASSUME IInv, NEW a \in Actors, actor[a].pc \in {"choose", "clean"}
    PROVE  /\ \A s \in actor[a].whole : Supported(<<actor[a].order.server, s>>, actor[a].cutoff[s], steady, row, link, actor)
           /\ \A s \in Sources : actor[a].cutoff[s] <= number
BY OfActor DEF InWorld, Pending

LEMMA NextCleanupKeeps ==
    ASSUME IInv, NEW a \in Actors, actor[a].pc \in {"choose", "clean"}, NextCleanup(a, actor[a]),
           UNCHANGED <<kea, row, link, born, number, refers, barrier, steady>>
    PROVE  IInv'
<1> DEFINE me == actor[a]  next == [me EXCEPT !.phase = me.phase + 1, !.pc = "choose", !.todo = {}]
<1>1. /\ WorldOK /\ ActorsOK /\ me \in Local /\ Works(me) /\ InWorld(me, kea, number, steady, row, link, actor)
      /\ me.phase \in 1..Len(Plan(me.order)) /\ me.order \in Orders /\ me.order.server \in Servers
      /\ number' \in Nat /\ number <= number' /\ number' = number
  BY OfActor DEF WorldOK
<1>2. CASE me.phase < Len(Plan(me.order))
  <2>1. actor' = [actor EXCEPT ![a] = next] /\ rounds' = rounds
    BY <1>2 DEF NextCleanup, Set
  <2>2. me.phase + 1 \in 1..Len(Plan(me.order)) /\ me.phase + 1 \in 1..2
    <3>1. \A i \in 1..2, j \in Nat : j \in 1..i /\ j < i => j + 1 \in 1..i /\ j + 1 \in 1..2
      OBVIOUS
    <3>2. Len(Plan(me.order)) \in 1..2 /\ me.phase \in Nat
      BY <1>1, PlanFacts DEF Local
    <3> QED
      BY <1>1, <1>2, <3>1, <3>2
  <2>3. /\ next \in Local /\ next.pc = "choose" /\ next.order = me.order /\ next.phase = me.phase + 1
        /\ next.cutoff = me.cutoff /\ next.whole = me.whole /\ next.report = me.report /\ next.fresh = me.fresh
    BY <1>1, <2>2 DEF Local
  <2> HIDE DEF next
  <2>4. Typed(next)
    BY <1>1, <2>2, <2>3 DEF Typed, Works
  <2>5. InWorld(next, kea, number', steady, row, link, actor)
    <3>1. next.report.kind \in Gone
      BY <1>1, <2>3 DEF Works
    <3> QED
      BY <1>1, <2>3, <3>1, OfCleanup DEF InWorld
  <2>6. Moved(a, next)
    BY <1>1, <2>1, <2>3, SetMoves
  <2>7. rounds' \in [Servers -> 0..2]
    BY <1>1, <2>1 DEF WorldOK
  <2> QED
    BY <1>1, <2>3, <2>4, <2>5, <2>6, <2>7, QuietStep
<1>3. CASE ~(me.phase < Len(Plan(me.order)))
  <2>1. Done(a, me)
    BY <1>3 DEF NextCleanup
  <2>2. actor' = [actor EXCEPT ![a] = Idle] /\ Idle.pc = "idle" /\ Idle \in Local
    BY <2>1, IdleGood DEF Done, Set, Typed, Idle
  <2>3. rounds' \in [Servers -> 0..2]
    <3> DEFINE server == me.order.server
    <3>1. server \in Servers /\ rounds \in [Servers -> 0..2] /\ me.base \in 0..2
      BY <1>1 DEF WorldOK, Local
    <3>2. \/ rounds' = rounds
          \/ rounds' = [rounds EXCEPT ![server] = rounds[server] + 1] /\ rounds[server] = me.base /\ me.base < 2
      BY <2>1 DEF Done, Counts
    <3> HIDE DEF server, me
    <3>3. rounds[server] = me.base /\ me.base < 2 => rounds[server] + 1 \in 0..2
      BY <3>1
    <3> QED
      BY <3>1, <3>2, <3>3
  <2>4. Typed(Idle) /\ InWorld(Idle, kea, number', steady, row, link, actor)
    BY <1>1, IdleGood
  <2>5. Moved(a, Idle)
    BY <1>1, <2>2, SetMoves
  <2> QED
    BY <1>1, <2>2, <2>3, <2>4, <2>5, QuietStep
<1> QED
  BY <1>2, <1>3

LEMMA ChooseStaleKeeps == ASSUME IInv, NEW a \in Actors, ChooseStale(a) PROVE IInv'
<1> DEFINE me == actor[a]  new == [me EXCEPT !.pc = "clean", !.todo = Candidates(a), !.refs = refers]
<1>1. /\ WorldOK /\ ActorsOK /\ me \in Local /\ Works(me) /\ InWorld(me, kea, number, steady, row, link, actor)
      /\ me.pc = "choose" /\ Now(a)[2] = Plan(me.order)[me.phase]
      /\ UNCHANGED <<kea, row, link, born, number, refers, barrier, steady>>
      /\ number' \in Nat /\ number <= number' /\ number' = number
  BY OfActor DEF ChooseStale, WorldOK
<1>2. CASE NextCleanup(a, me)
  BY <1>1, <1>2, NextCleanupKeeps
<1>3. CASE Set(a, new) /\ UNCHANGED rounds /\ Now(a)[2] \in me.whole
  <2>1. Candidates(a) \in SUBSET [row: Rows, place: {Global, Elsewhere} \union {Vrf[s] : s \in Servers}]
    <3>1. \A j \in Rows : row[j] # None => row[j].place \in {Global, Elsewhere} \union {Vrf[s] : s \in Servers}
      BY <1>1, RowFacts DEF WorldOK, Places
    <3> QED
      BY <3>1 DEF Candidates
  <2>2. refers \in SUBSET Rows
    BY <1>1 DEF WorldOK
  <2>3. /\ new \in Local /\ new.pc = "clean" /\ new.order = me.order /\ new.phase = me.phase
        /\ new.cutoff = me.cutoff /\ new.whole = me.whole /\ new.report = me.report /\ new.fresh = me.fresh
    <3> DEFINE todo == Candidates(a)
    <3> HIDE DEF todo, me
    <3> QED
      BY <1>1, <2>1, <2>2 DEF Local, todo
  <2> HIDE DEF new
  <2>4. Typed(new)
    BY <1>1, <1>3, <2>3 DEF Typed, Works
  <2>5. InWorld(new, kea, number', steady, row, link, actor)
    <3>1. new.report.kind \in Gone
      BY <1>1, <2>3 DEF Works
    <3> QED
      BY <1>1, <2>3, <3>1, OfCleanup DEF InWorld
  <2>6. Moved(a, new)
    BY <1>1, <1>3, <2>3, SetMoves DEF Set
  <2>7. rounds' \in [Servers -> 0..2]
    BY <1>1, <1>3 DEF WorldOK
  <2> QED
    BY <1>1, <2>3, <2>4, <2>5, <2>6, <2>7, QuietStep
<1> QED
  BY <1>2, <1>3 DEF ChooseStale

\* A candidate is done.
LEMMA CandidateDone ==
    ASSUME IInv, NEW a \in Actors, actor[a].pc = "clean", NEW c
    PROVE  LET new == [actor[a] EXCEPT !.todo = @ \ {c}]
           IN  /\ Typed(new) /\ new.pc = "clean" /\ new.report.kind \in Gone /\ new.order = actor[a].order
               /\ new.whole = actor[a].whole /\ new.cutoff = actor[a].cutoff
<1> DEFINE me == actor[a]  new == [me EXCEPT !.todo = me.todo \ {c}]
<1>1. me \in Local /\ Works(me) /\ me.pc = "clean"
  BY OfActor
<1> HIDE DEF me
<1>2. /\ new \in Local /\ new.pc = "clean" /\ new.order = me.order /\ new.phase = me.phase
      /\ new.cutoff = me.cutoff /\ new.whole = me.whole /\ new.report = me.report
  BY <1>1 DEF Local
<1> HIDE DEF new
<1>3. Typed(new) /\ new.report.kind \in Gone
  BY <1>1, <1>2 DEF Typed, Works
<1> QED
  BY <1>2, <1>3 DEF new, me

LEMMA CandidateInWorld ==
    ASSUME IInv, NEW a \in Actors, actor[a].pc = "clean", NEW new, new.pc = "clean", new.report.kind \in Gone,
           new.order = actor[a].order, new.whole = actor[a].whole, new.cutoff = actor[a].cutoff,
           NEW std, NEW rw, NEW lk, NEW ws,
           \A o \in Owners, c \in 0..number : Supported(o, c, steady, row, link, actor) => Supported(o, c, std, rw, lk, ws)
    PROVE  InWorld(new, kea, number, std, rw, lk, ws)
<1> DEFINE me == actor[a]
<1>1. /\ me \in Local /\ me.order.server \in Servers
      /\ \A s \in me.whole : Supported(<<me.order.server, s>>, me.cutoff[s], steady, row, link, actor)
      /\ \A s \in Sources : me.cutoff[s] <= number
  BY OfActor, OfCleanup
<1>2. \A s \in me.whole : s \in Sources /\ <<me.order.server, s>> \in Owners /\ me.cutoff[s] \in 0..number
  BY <1>1 DEF Local, Owners
<1> QED
  BY <1>1, <1>2 DEF InWorld

LEMMA CleanFailsKeeps == ASSUME IInv, NEW a \in Actors, NEW c, CleanFails(a, c) PROVE IInv'
<1> DEFINE new == [actor[a] EXCEPT !.todo = actor[a].todo \ {c}]
<1>1. /\ WorldOK /\ ActorsOK /\ actor[a].pc = "clean"
      /\ UNCHANGED <<kea, row, link, born, number, refers, barrier, steady>> /\ rounds' \in [Servers -> 0..2]
      /\ number' \in Nat /\ number <= number' /\ number' = number
  BY OfActor, RestartTyped DEF CleanFails, WorldOK
<1>2. actor' = Restless([actor EXCEPT ![a] = new])
  BY DEF CleanFails
<1>3. /\ Typed(new) /\ new.pc = "clean" /\ new.report.kind \in Gone /\ new.order = actor[a].order
      /\ new.whole = actor[a].whole /\ new.cutoff = actor[a].cutoff
  BY <1>1, CandidateDone
<1> HIDE DEF new
<1>4. InWorld(new, kea, number', steady, row, link, actor)
  BY <1>1, <1>3, CandidateInWorld
<1>5. Moved(a, new)
  BY <1>1, <1>2, <1>3, SetMoves DEF Typed
<1> QED
  BY <1>1, <1>3, <1>4, <1>5, QuietStep

LEMMA EndCleanupKeeps == ASSUME IInv, NEW a \in Actors, EndCleanup(a) PROVE IInv'
BY NextCleanupKeeps DEF EndCleanup

\* A claim under the locks keeps what it found when nobody touches the rows it locked.
LEMMA HoldsStays ==
    ASSUME IInv, NEW b \in Actors, actor[b].pc = "commit", number' \in Nat, number <= number',
           \A i \in actor[b].found \union actor[b].old : row'[i] = row[i],
           \A i \in actor[b].found : link'[i][Here(actor[b])] = link[i][Here(actor[b])],
           \A i \in Rows, q \in Owners : link'[i][q] # None => link[i][q] # None /\ link'[i][q].n = link[i][q].n,
           \A o \in Owners : steady'[o] => steady[o]
    PROVE  Holds(actor[b], number', steady', row', link')
<1> DEFINE l == actor[b]
<1>1. /\ Holds(l, number, steady, row, link) /\ l \in Local /\ Here(l) \in Owners /\ number \in Nat
  BY OfActor DEF InWorld, WorldOK
<1>2. l.found \subseteq Rows /\ l.old \subseteq Rows /\ l.n \in Nat
  BY <1>1 DEF Local
<1> HIDE DEF l
<1>3. l.n <= number'
  BY <1>1, <1>2 DEF Holds
<1>4. /\ \A i \in l.found : row'[i] # None /\ row'[i].place = Vrf[l.order.server]
      /\ \A i \in l.old : row'[i] # None /\ row'[i].marked
  BY <1>1 DEF Holds, l
<1>5. \A i \in l.old, q \in Owners : link'[i][q] = None
  BY <1>1, <1>2 DEF Holds
<1>6. \A i \in Rows, q \in Owners : link'[i][q] # None => link'[i][q].n < l.n
  BY <1>1 DEF Holds
<1>7. steady'[Here(l)] => \E i \in l.found : Keeps(row'[i], link'[i][Here(l)], Here(l), 0)
  <2> SUFFICES ASSUME steady'[Here(l)] PROVE \E i \in l.found : Keeps(row'[i], link'[i][Here(l)], Here(l), 0)
    OBVIOUS
  <2>1. PICK i \in l.found : Keeps(row[i], link[i][Here(l)], Here(l), 0)
    BY <1>1 DEF Holds
  <2>2. row'[i] = row[i] /\ link'[i][Here(l)] = link[i][Here(l)]
    BY DEF l
  <2> QED
    BY <2>1, <2>2
<1>8. \A s \in Sources : l.cutoff[s] <= l.n
  BY <1>1 DEF Holds
<1> QED
  BY <1>3, <1>4, <1>5, <1>6, <1>7, <1>8 DEF Holds, l

LEMMA CleanOneKeeps == ASSUME IInv, NEW a \in Actors, NEW c \in actor[a].todo, CleanOne(a, c) PROVE IInv'
<1> DEFINE me == actor[a]  o0 == Now(a)  cutoff == me.cutoff[o0[2]]  i == c.row
           new == [me EXCEPT !.todo = me.todo \ {c}]
           done == StaleLink(o0, i, cutoff, LastLinksGo(me), me.refs)
<1>1. /\ WorldOK /\ ActorsOK /\ me \in Local /\ Works(me) /\ me.pc = "clean" /\ o0 \in Owners /\ o0[2] \in me.whole
      /\ o0[2] \in Sources /\ o0 = <<me.order.server, o0[2]>> /\ i \in Rows /\ cutoff \in Nat /\ cutoff <= number
      /\ number \in Nat /\ UNCHANGED <<kea, born, number, refers, barrier, budget, steady>> /\ rounds' \in [Servers -> 0..2]
      /\ actor' = [actor EXCEPT ![a] = new]
  <2>1. me \in Local /\ Works(me) /\ me.pc = "clean" /\ o0[2] = Plan(me.order)[me.phase] /\ o0[2] \in Sources
    BY OfActor DEF CleanOne
  <2>2. me.todo \subseteq [row: Rows, place: {Global, Elsewhere} \union {Vrf[s] : s \in Servers}]
    BY <2>1 DEF Local
  <2>3. me.cutoff \in [Sources -> Nat] /\ me.cutoff[o0[2]] <= number
    BY <2>1, OfCleanup DEF Local
  <2>4. o0[2] \in me.whole
    BY <2>1 DEF Works
  <2> QED
    BY <2>1, <2>2, <2>3, <2>4, OfActor, RecountTyped DEF CleanOne, Set, WorldOK
<1>2. \/ UNCHANGED <<row, link>>
      \/ /\ row[i] # None /\ link[i][o0] # None /\ link[i][o0].n < cutoff
         /\ row' = [row EXCEPT ![i] = done.row] /\ link' = [link EXCEPT ![i] = done.links]
  BY DEF CleanOne, StillStale
<1>3. /\ Typed(new) /\ new.pc = "clean" /\ new.report.kind \in Gone /\ new.order = me.order
      /\ new.whole = me.whole /\ new.cutoff = me.cutoff
  BY <1>1, CandidateDone
<1>4. i \notin LockedRows
  BY DEF CleanOne
<1> HIDE DEF new
<1>5. Moved(a, new)
  BY <1>1, <1>3, SetMoves DEF Typed
<1>6. number' \in Nat /\ number <= number' /\ rounds' \in [Servers -> 0..2]
  BY <1>1 DEF WorldOK
<1>7. CASE UNCHANGED <<row, link>>
  <2>1. InWorld(new, kea, number', steady, row, link, actor)
    BY <1>1, <1>3, CandidateInWorld
  <2> QED
    BY <1>1, <1>3, <1>5, <1>6, <1>7, <2>1, QuietStep
<1>8. CASE /\ row[i] # None /\ link[i][o0] # None /\ link[i][o0].n < cutoff
           /\ row' = [row EXCEPT ![i] = done.row] /\ link' = [link EXCEPT ![i] = done.links]
  <2>1. row[i] \in Row /\ link[i] \in Links /\ link[i][o0].n \in Nat
    BY <1>1, <1>8, LinkFacts DEF WorldOK, Links
  <2>2. Cleaned(o0, i, cutoff, done)
    BY <1>1, <1>8, <2>1, StaleFacts
  <2>3. Supported(o0, cutoff, steady, row, link, actor)
    BY <1>1, OfCleanup
  <2> HIDE DEF done, o0, cutoff, i, me
  <2>4. /\ row' \in [Rows -> Row \union {None}] /\ row'[i] = done.row /\ \A j \in Rows \ {i} : row'[j] = row[j]
        /\ link' \in [Rows -> Links] /\ link'[i] = done.links /\ \A j \in Rows \ {i} : link'[j] = link[j]
    BY <1>1, <1>8, <2>2 DEF WorldOK, Cleaned
  <2>5. ASSUME NEW o \in Owners, NEW d \in Nat, steady[o], Kept(o, d, row, link) PROVE Kept(o, d, row', link')
    <3>1. PICK w \in Rows : Keeps(row[w], link[w][o], o, d)
      BY <2>5 DEF Kept
    <3>2. CASE w # i
      BY <2>4, <3>1, <3>2 DEF Kept
    <3>3. CASE w = i /\ o # o0
      <4>1. Keeps(done.row, done.links[o], o, d)
        BY <2>2, <3>1, <3>3 DEF Cleaned
      <4> QED
        BY <1>1, <2>4, <4>1 DEF Kept
    <3>4. CASE w = i /\ o = o0
      <4>1. PICK v \in Rows : Keeps(row[v], link[v][o], o, cutoff)
        BY <2>3, <2>5, <3>4 DEF Supported, Kept
      <4>2. d <= link[i][o].n /\ cutoff <= link[v][o].n /\ link[v][o] # None
        BY <3>1, <3>4, <4>1 DEF Keeps
      <4>3. link[v][o].n \in Nat
        BY <1>1, <4>2, LinkFacts DEF WorldOK, Links
      <4>4. v # i
        BY <1>1, <1>8, <2>1, <3>4, <4>2
      <4>5. d <= link[v][o].n
        BY <1>1, <1>8, <2>1, <3>4, <4>2, <4>3
      <4>6. Keeps(row[v], link[v][o], o, d)
        BY <4>1, <4>5 DEF Keeps
      <4> QED
        BY <2>4, <4>4, <4>6 DEF Kept
    <3> QED
      BY <3>2, <3>3, <3>4
  <2>6. WorldOK'
    <3>1. \A j \in Rows : Numbered(link'[j], number)
      <4>1. Numbered(done.links, number)
        <5> SUFFICES ASSUME NEW q \in Owners, done.links[q] # None
                     PROVE  done.links[q].n <= number /\ (done.links[q].mark # None => done.links[q].mark <= number)
          BY DEF Numbered
        <5>1. /\ link[i][q] # None /\ done.links[q].n = link[i][q].n
              /\ done.links[q].mark # None => done.links[q].mark \in {cutoff, link[i][q].mark}
          BY <2>2 DEF Cleaned
        <5>2. Numbered(link[i], number)
          BY <1>1 DEF WorldOK
        <5>3. link[i][q].n <= number /\ (link[i][q].mark # None => link[i][q].mark <= number)
          BY <5>1, <5>2 DEF Numbered
        <5> QED
          BY <1>1, <5>1, <5>3
      <4> QED
        BY <1>1, <2>4, <4>1 DEF WorldOK
    <3>2. \A j \in Rows : row'[j] = None => \A o \in Owners : link'[j][o] = None
      BY <1>1, <2>2, <2>4 DEF WorldOK, Cleaned
    <3>3. \A o \in Owners : steady[o] => kea[o].kind \notin Gone /\ Kept(o, 0, row', link')
      <4>1. \A o \in Owners : steady[o] => kea[o].kind \notin Gone /\ Kept(o, 0, row, link)
        BY <1>1 DEF WorldOK
      <4> QED
        BY <2>5, <4>1
    <3>4. \A j \in Rows : row'[j] # None => j <= born
      BY <1>1, <1>8, <2>4 DEF WorldOK
    <3>5. number' = number /\ kea' = kea /\ born' = born /\ steady' = steady /\ refers' = refers /\ barrier' = barrier
          /\ rounds' \in [Servers -> 0..2]
      BY <1>1
    <3> QED
      BY <1>1, <2>4, <3>1, <3>2, <3>3, <3>4, <3>5 DEF WorldOK
  <2>7. Retracts
    BY <1>1, <1>3, <1>5, MovedRetracts
  <2>8. \A o \in Owners, d \in 0..number : Supported(o, d, steady, row, link, actor)
        => Supported(o, d, steady', row', link', actor')
    <3>1. \A d \in 0..number : d \in Nat
      BY <1>1
    <3> QED
      BY <1>1, <2>5, <2>7, <3>1, SupportedStays
  <2>9. Sustains
    BY <2>8 DEF Sustains
  <2>10. InWorld(new, kea, number', steady', row', link', actor')
    <3>1. InWorld(new, kea, number, steady', row', link', actor')
      BY <1>1, <1>3, <2>8, CandidateInWorld DEF me
    <3> QED
      BY <1>1, <3>1
  <2>11. ASSUME NEW b \in Actors \ {a}, actor[b].pc = "commit" PROVE Holds(actor[b], number', steady', row', link')
    <3>1. actor[b].found \subseteq Rows /\ actor[b].old \subseteq Rows
      BY OfActor DEF Local
    <3>2. i \notin actor[b].found /\ i \notin actor[b].old
      BY <1>4, <2>11 DEF LockedRows
    <3>3. \A j \in actor[b].found \union actor[b].old : row'[j] = row[j] /\ link'[j] = link[j]
      BY <2>4, <3>1, <3>2
    <3>4. \A j \in Rows, q \in Owners : link'[j][q] # None => link[j][q] # None /\ link'[j][q].n = link[j][q].n
      BY <2>2, <2>4 DEF Cleaned
    <3>5. \A o \in Owners : steady'[o] => steady[o]
      BY <1>1
    <3> QED
      BY <1>6, <2>11, <3>3, <3>4, <3>5, HoldsStays
  <2>12. kea' = kea /\ new.pc # "commit"
    BY <1>1, <1>3
  <2> QED
    BY <1>5, <1>3, <1>6, <2>6, <2>9, <2>10, <2>11, <2>12, StepKeeps
<1> QED
  BY <1>2, <1>7, <1>8

------------------------------------------------------------------------------
(* Kea, the operators and the DHCP plugin.                                 *)

\* Nobody moves; what the row keeps, and the claim under the locks, stay.
LEMMA OutsideStep ==
    ASSUME IInv, WorldOK', number' = number, actor' \in [Actors -> Local],
           \A b \in Actors : /\ Follows(actor[b], actor'[b])
                             /\ actor'[b].pc # "idle" /\ actor'[b].fresh /\ actor[b].report.kind \notin Gone =>
                                   kea'[Here(actor[b])].kind \notin Gone,
           \A o \in Owners : steady'[o] => steady[o],
           \A o \in Owners, c \in 0..number : steady'[o] /\ Kept(o, c, row, link) => Kept(o, c, row', link'),
           \A b \in Actors : actor[b].pc = "commit" => Holds(actor[b], number', steady', row', link')
    PROVE  IInv'
<1>1. WorldOK /\ ActorsOK /\ number \in Nat /\ number' \in Nat /\ number <= number'
  BY DEF IInv, WorldOK
<1>2. Retracts
  <2>1. \A b \in Actors : \A o : Committing(actor'[b], o) => Committing(actor[b], o) /\ actor'[b].n = actor[b].n
    BY <1>1, FollowsFacts DEF ActorsOK, Follows
  <2> QED
    BY <2>1 DEF Retracts
<1>3. \A o \in Owners, c \in 0..number : Supported(o, c, steady, row, link, actor)
      => Supported(o, c, steady', row', link', actor')
  BY <1>2, SupportedStays
<1>4. Sustains
  BY <1>3 DEF Sustains
<1>5. \A b \in Actors : Typed(actor'[b]) /\ InWorld(actor'[b], kea', number', steady', row', link', actor')
  BY <1>1, <1>4, FollowerKeeps
<1>6. \A b, c \in Actors : actor'[b].pc = "commit" /\ actor'[c].pc = "commit" => b = c
  BY <1>1 DEF ActorsOK, Follows
<1>7. ActorsOK'
  BY <1>5, <1>6 DEF ActorsOK
<1> QED
  BY <1>7 DEF IInv

LEMMA RestlessFollows ==
    ASSUME ActorsOK, NEW local \in [Actors -> Local], \A b \in Actors : Follows(actor[b], local[b]), actor' = Restless(local)
    PROVE  actor' \in [Actors -> Local] /\ \A b \in Actors : Follows(actor[b], actor'[b])
<1>1. \A b \in Actors : actor'[b] = [local[b] EXCEPT !.quiet = FALSE]
  BY DEF Restless
<1>2. \A b \in Actors : Follows(local[b], actor'[b])
  BY <1>1, CalmFollows
<1>3. \A b \in Actors : actor'[b] \in Local /\ Follows(actor[b], actor'[b])
  BY <1>2 DEF Follows
<1>4. actor' = [b \in Actors |-> actor'[b]]
  BY DEF Restless
<1> QED
  BY <1>3, <1>4

LEMMA KeaMovesKeeps == ASSUME IInv, NEW o \in Owners, NEW report \in Reports, KeaMoves(o, report) PROVE IInv'
<1> DEFINE gone == report.kind \in {"absent", "inactive"}
           Hit(b) == gone /\ actor[b].pc # "idle" /\ actor[b].order.server = o[1]
           lost(b) == [actor[b] EXCEPT !.held = actor[b].held \ {o[2]},
                                       !.fresh = actor[b].fresh /\ Plan(actor[b].order)[actor[b].phase] # o[2]]
           local == [b \in Actors |-> IF Hit(b) THEN lost(b) ELSE actor[b]]
<1>1. /\ WorldOK /\ ActorsOK /\ UNCHANGED <<row, link, born, number, refers, barrier>>
      /\ kea' = [kea EXCEPT ![o] = report] /\ rounds' \in [Servers -> 0..2] /\ number \in Nat
      /\ steady' = [steady EXCEPT ![o] = steady[o] /\ ~gone]
  BY RestartTyped DEF KeaMoves, IInv, WorldOK
<1>2. actor' = Restless(local)
  BY DEF KeaMoves
<1>3. ASSUME NEW b \in Actors
      PROVE  /\ local[b] \in Local /\ Follows(actor[b], local[b])
             /\ Hit(b) => local[b].fresh = (actor[b].fresh /\ Plan(actor[b].order)[actor[b].phase] # o[2])
  <2>1. actor[b] \in Local
    BY <1>1 DEF ActorsOK
  <2>2. CASE Hit(b)
    <3> DEFINE held == actor[b].held \ {o[2]}  fresh == actor[b].fresh /\ Plan(actor[b].order)[actor[b].phase] # o[2]
               l2 == [actor[b] EXCEPT !.held = held, !.fresh = fresh]  l == actor[b]
    <3>1. local[b] = l2
      BY <2>2
    <3>2. held \in SUBSET Sources /\ fresh \in BOOLEAN /\ (fresh => l.fresh)
      BY <2>1 DEF Local
    <3> HIDE DEF held, fresh, l
    <3>3. l2 = [l EXCEPT !.held = held, !.fresh = fresh]
      BY DEF l
    <3>4. /\ l2 \in Local /\ l2.pc = l.pc /\ l2.order = l.order /\ l2.phase = l.phase /\ l2.cutoff = l.cutoff
          /\ l2.whole = l.whole /\ l2.report = l.report /\ l2.n = l.n /\ l2.found = l.found
          /\ l2.old = l.old /\ l2.fresh = fresh
      BY <2>1, <3>2, <3>3 DEF Local, l
    <3> HIDE DEF l2, local
    <3>5. Follows(l, l2)
      BY <3>2, <3>4 DEF Follows
    <3> QED
      BY <3>1, <3>4, <3>5 DEF l, fresh
  <2>3. CASE ~Hit(b)
    BY <2>1, <2>3, CalmFollows
  <2> QED
    BY <2>2, <2>3
<1>4. local \in [Actors -> Local] /\ \A b \in Actors : Follows(actor[b], local[b])
  BY <1>3
<1>5. \A b \in Actors : actor'[b].fresh = local[b].fresh
  BY <1>2, <1>3 DEF Restless, Local
<1>6. \A b \in Actors : Hit(b) => actor'[b].fresh = (actor[b].fresh /\ Plan(actor[b].order)[actor[b].phase] # o[2])
  BY <1>3, <1>5
<1> HIDE DEF local
<1>7. actor' \in [Actors -> Local] /\ \A b \in Actors : Follows(actor[b], actor'[b])
  BY <1>1, <1>2, <1>4, RestlessFollows
<1>8. /\ kea' \in [Owners -> Reports] /\ kea'[o] = report /\ \A q \in Owners \ {o} : kea'[q] = kea[q]
      /\ steady' \in [Owners -> BOOLEAN] /\ (steady'[o] => steady[o] /\ ~gone)
         /\ \A q \in Owners \ {o} : steady'[q] = steady[q]
  <2> HIDE DEF gone
  <2>1. (steady[o] /\ ~gone) \in BOOLEAN
    OBVIOUS
  <2> HIDE DEF Reports, Owners
  <2> QED
    BY <1>1, <2>1 DEF WorldOK
<1>9. WorldOK'
  <2>1. \A q \in Owners : steady'[q] => kea'[q].kind \notin Gone /\ Kept(q, 0, row, link)
    BY <1>1, <1>8 DEF WorldOK, Gone
  <2> HIDE DEF Links, Reports, Owners
  <2> QED
    BY <1>1, <1>8, <2>1 DEF WorldOK
<1>10. ASSUME NEW b \in Actors, actor'[b].pc # "idle", actor'[b].fresh, actor[b].report.kind \notin Gone
       PROVE  kea'[Here(actor[b])].kind \notin Gone
  <2>1. actor[b].pc # "idle" /\ actor[b].fresh
    BY <1>7, <1>10 DEF Follows
  <2>2. Here(actor[b]) \in Owners /\ kea[Here(actor[b])].kind \notin Gone
    BY <1>10, <2>1, OfActor DEF InWorld
  <2>3. CASE Here(actor[b]) = o
    <3>1. actor[b].order.server = o[1] /\ Plan(actor[b].order)[actor[b].phase] = o[2]
      BY <2>3 DEF Here
    <3>2. ~gone
      BY <1>6, <1>10, <2>1, <3>1
    <3> QED
      BY <1>8, <2>3, <3>2 DEF Gone
  <2> QED
    BY <1>8, <2>2, <2>3
<1>11. \A q \in Owners : steady'[q] => steady[q]
  BY <1>8
<1>12. ASSUME NEW b \in Actors, actor[b].pc = "commit" PROVE Holds(actor[b], number', steady', row', link')
  <2>1. number' \in Nat /\ number <= number'
    BY <1>1
  <2> QED
    BY <1>1, <1>11, <1>12, <2>1, HoldsStays
<1> QED
  BY <1>1, <1>7, <1>9, <1>10, <1>11, <1>12, OutsideStep

\* What every edit does.
LEMMA EditFacts ==
    ASSUME IInv, NEW kind, Edit(kind)
    PROVE  /\ WorldOK /\ ActorsOK /\ UNCHANGED <<kea, number>> /\ rounds' \in [Servers -> 0..2]
           /\ number \in Nat /\ number' \in Nat /\ number <= number'
           /\ actor' \in [Actors -> Local] /\ \A b \in Actors : Follows(actor[b], actor'[b])
           /\ \A b \in Actors : actor'[b].pc # "idle" /\ actor'[b].fresh /\ actor[b].report.kind \notin Gone =>
                 kea'[Here(actor[b])].kind \notin Gone
<1> DEFINE local == [b \in Actors |-> [actor[b] EXCEPT !.held = IF kind \in {"refer", "barrier"} THEN @ ELSE {}]]
<1>1. /\ WorldOK /\ ActorsOK /\ UNCHANGED <<kea, number>> /\ rounds' \in [Servers -> 0..2] /\ number \in Nat
      /\ actor' = Restless(local)
  BY RestartTyped DEF Edit, IInv, WorldOK
<1>2. local \in [Actors -> Local] /\ \A b \in Actors : Follows(actor[b], local[b])
  <2>1. \A b \in Actors : actor[b] \in Local
    BY <1>1 DEF ActorsOK
  <2>2. \A b \in Actors : actor[b].held \in SUBSET Sources /\ {} \in SUBSET Sources
    BY <2>1 DEF Local
  <2> QED
    BY <2>1, <2>2, HeldFollows
<1> HIDE DEF local
<1>3. actor' \in [Actors -> Local] /\ \A b \in Actors : Follows(actor[b], actor'[b])
  BY <1>1, <1>2, RestlessFollows
<1>4. ASSUME NEW b \in Actors, actor'[b].pc # "idle", actor'[b].fresh, actor[b].report.kind \notin Gone
      PROVE  kea'[Here(actor[b])].kind \notin Gone
  <2>1. actor[b].pc # "idle" /\ actor[b].fresh
    BY <1>3, <1>4 DEF Follows
  <2> QED
    BY <1>1, <1>4, <2>1, OfActor DEF InWorld
<1> QED
  BY <1>1, <1>3, <1>4

\* An edit that leaves the rows and the links.
LEMMA ApartKeeps ==
    ASSUME IInv, NEW kind, Edit(kind), UNCHANGED <<row, link, born, steady>>, refers' \in SUBSET Rows, barrier' \in BOOLEAN
    PROVE  IInv'
<1>1. /\ WorldOK /\ ActorsOK /\ UNCHANGED <<kea, number>> /\ rounds' \in [Servers -> 0..2]
      /\ number \in Nat /\ number' \in Nat /\ number <= number'
      /\ actor' \in [Actors -> Local] /\ \A b \in Actors : Follows(actor[b], actor'[b])
      /\ \A b \in Actors : actor'[b].pc # "idle" /\ actor'[b].fresh /\ actor[b].report.kind \notin Gone =>
            kea'[Here(actor[b])].kind \notin Gone
  BY EditFacts
<1>2. WorldOK'
  <2> HIDE DEF Links, Reports, Owners
  <2> QED
    BY <1>1 DEF WorldOK
<1>3. ASSUME NEW b \in Actors, actor[b].pc = "commit" PROVE Holds(actor[b], number', steady', row', link')
  BY <1>1, <1>3, HoldsStays
<1> QED
  BY <1>1, <1>2, <1>3, OutsideStep

LEMMA CreateKeeps == ASSUME IInv, Create PROVE IInv'
<1> DEFINE j == born + 1
<1>1. /\ WorldOK /\ ActorsOK /\ UNCHANGED <<kea, number>> /\ rounds' \in [Servers -> 0..2]
      /\ number \in Nat /\ number' \in Nat /\ number <= number'
      /\ actor' \in [Actors -> Local] /\ \A b \in Actors : Follows(actor[b], actor'[b])
      /\ \A b \in Actors : actor'[b].pc # "idle" /\ actor'[b].fresh /\ actor[b].report.kind \notin Gone =>
            kea'[Here(actor[b])].kind \notin Gone
  BY EditFacts DEF Create
<1>2. PICK r \in Row : row' = [row EXCEPT ![j] = r]
  <2>1. PICK place \in {Global} \union {Vrf[s] : s \in Servers}, marked \in BOOLEAN, f \in Facts :
           row' = [row EXCEPT ![j] = [place |-> place, status |-> "active", marked |-> marked, room |-> 3,
                                      name |-> f.name, len |-> f.len]]
    BY DEF Create
  <2> DEFINE r == [place |-> place, status |-> "active", marked |-> marked, room |-> 3, name |-> f.name, len |-> f.len]
  <2>2. r \in Row
    BY DEF Row, Statuses
  <2> HIDE DEF r
  <2> QED
    BY <2>1, <2>2 DEF r
<1>3. j \in Rows /\ born' = j /\ UNCHANGED <<link, refers, barrier, steady>>
  BY DEF Create
<1>4. row[j] = None /\ born \in Nat /\ Rows = 1..Cardinality(Rows) /\ Cardinality(Rows) \in Nat
  BY <1>1, <1>3, OwnershipAssumption, FS_CardinalityType DEF WorldOK
<1> HIDE DEF j
<1>5. /\ row' \in [Rows -> Row \union {None}] /\ row'[j] = r /\ \A i \in Rows \ {j} : row'[i] = row[i]
  BY <1>1, <1>2, <1>3 DEF WorldOK
<1>6. ASSUME NEW o \in Owners, NEW c, Kept(o, c, row, link) PROVE Kept(o, c, row', link')
  <2>1. PICK i \in Rows : Keeps(row[i], link[i][o], o, c)
    BY <1>6 DEF Kept
  <2>2. i # j
    BY <1>4, <2>1 DEF Keeps
  <2> QED
    BY <1>3, <1>5, <2>1, <2>2 DEF Kept
<1>7. WorldOK'
  <2>1. \A i \in Rows : Numbered(link[i], number) /\ (row'[i] = None => \A o \in Owners : link[i][o] = None)
    BY <1>1, <1>5, NoneApart DEF WorldOK
  <2>2. \A o \in Owners : steady[o] => kea[o].kind \notin Gone /\ Kept(o, 0, row', link')
    BY <1>1, <1>6 DEF WorldOK
  <2>3. born' \in 0..Cardinality(Rows) /\ \A i \in Rows : row'[i] # None => i <= born'
    <3>1. \A i \in Rows : row[i] # None => i <= born
      BY <1>1 DEF WorldOK
    <3> QED
      BY <1>3, <1>4, <1>5, <3>1 DEF j
  <2> HIDE DEF Links, Reports, Owners
  <2>4. number' = number /\ link' = link /\ steady' = steady /\ kea' = kea /\ refers' = refers /\ barrier' = barrier
    BY <1>1, <1>3
  <2> QED
    BY <1>1, <1>5, <2>1, <2>2, <2>3, <2>4 DEF WorldOK
<1>8. ASSUME NEW b \in Actors, actor[b].pc = "commit" PROVE Holds(actor[b], number', steady', row', link')
  <2>1. \A i \in actor[b].found \union actor[b].old : i \in Rows /\ row[i] # None
    BY <1>8, OfCommit
  <2>2. \A i \in actor[b].found \union actor[b].old : row'[i] = row[i]
    BY <1>4, <1>5, <2>1
  <2> QED
    BY <1>1, <1>3, <1>8, <2>2, HoldsStays
<1> QED
  BY <1>1, <1>3, <1>6, <1>7, <1>8, OutsideStep

\* An operator changes or deletes one row that no claim has locked.
LEMMA TouchKeeps ==
    ASSUME IInv, NEW kind, Edit(kind), NEW i \in Rows, row[i] # None, i \notin LockedRows, NEW r \in Row \union {None},
           row' = [row EXCEPT ![i] = r], Touched(i), UNCHANGED <<born, refers, barrier>>,
           link' = link \/ link' = [link EXCEPT ![i] = NoLinks],
           r = None => link' = [link EXCEPT ![i] = NoLinks]
    PROVE  IInv'
<1>1. /\ WorldOK /\ ActorsOK /\ UNCHANGED <<kea, number>> /\ rounds' \in [Servers -> 0..2]
      /\ number \in Nat /\ number' \in Nat /\ number <= number'
      /\ actor' \in [Actors -> Local] /\ \A b \in Actors : Follows(actor[b], actor'[b])
      /\ \A b \in Actors : actor'[b].pc # "idle" /\ actor'[b].fresh /\ actor[b].report.kind \notin Gone =>
            kea'[Here(actor[b])].kind \notin Gone
  BY EditFacts
<1>2. NoLinks \in Links /\ \A o \in Owners : NoLinks[o] = None
  BY NoLinksTyped
<1>3. /\ row' \in [Rows -> Row \union {None}] /\ row'[i] = r /\ \A j \in Rows \ {i} : row'[j] = row[j]
      /\ link' \in [Rows -> Links] /\ \A j \in Rows \ {i} : link'[j] = link[j]
      /\ link'[i] = link[i] \/ link'[i] = NoLinks
      /\ r = None => link'[i] = NoLinks
  BY <1>1, <1>2 DEF WorldOK
<1>4. /\ steady' \in [Owners -> BOOLEAN] /\ \A o \in Owners : steady'[o] => steady[o] /\ link[i][o] = None
  BY <1>1 DEF Touched, WorldOK
<1>5. ASSUME NEW o \in Owners, NEW c, steady'[o], Kept(o, c, row, link) PROVE Kept(o, c, row', link')
  <2>1. PICK j \in Rows : Keeps(row[j], link[j][o], o, c)
    BY <1>5 DEF Kept
  <2>2. j # i
    BY <1>4, <1>5, <2>1 DEF Keeps
  <2> QED
    BY <1>3, <2>1, <2>2 DEF Kept
<1>6. WorldOK'
  <2>1. \A j \in Rows : Numbered(link'[j], number) /\ (row'[j] = None => \A o \in Owners : link'[j][o] = None)
    BY <1>1, <1>2, <1>3 DEF WorldOK, Numbered
  <2>2. \A o \in Owners : steady'[o] => kea[o].kind \notin Gone /\ Kept(o, 0, row', link')
    BY <1>1, <1>4, <1>5 DEF WorldOK
  <2>3. \A j \in Rows : row'[j] # None => j <= born
    BY <1>1, <1>3 DEF WorldOK
  <2> HIDE DEF Links, Reports, Owners
  <2>4. number' = number /\ kea' = kea /\ born' = born /\ refers' = refers /\ barrier' = barrier
    BY <1>1
  <2> QED
    <3>1. row' \in [Rows -> Row \union {None}] /\ link' \in [Rows -> Links] /\ steady' \in [Owners -> BOOLEAN]
      BY <1>3, <1>4
    <3>2. \A j \in Rows : Numbered(link'[j], number') /\ (row'[j] = None => \A o \in Owners : link'[j][o] = None)
      BY <2>1, <2>4
    <3>3. \A o \in Owners : steady'[o] => kea'[o].kind \notin Gone /\ Kept(o, 0, row', link')
      BY <2>2, <2>4
    <3>4. /\ kea' \in [Owners -> Reports] /\ born' \in 0..Cardinality(Rows) /\ number' \in Nat
          /\ refers' \subseteq Rows /\ barrier' \in BOOLEAN /\ rounds' \in [Servers -> 0..2]
      BY <1>1, <2>4 DEF WorldOK
    <3> QED
      BY <2>3, <3>1, <3>2, <3>3, <3>4 DEF WorldOK
<1>7. ASSUME NEW b \in Actors, actor[b].pc = "commit" PROVE Holds(actor[b], number', steady', row', link')
  <2>1. actor[b].found \subseteq Rows /\ actor[b].old \subseteq Rows
    BY OfActor DEF Local
  <2>2. i \notin actor[b].found /\ i \notin actor[b].old
    BY <1>7 DEF LockedRows
  <2>3. \A j \in actor[b].found \union actor[b].old : row'[j] = row[j] /\ link'[j] = link[j]
    BY <1>3, <2>1, <2>2
  <2>4. \A j \in Rows, q \in Owners : link'[j][q] # None => link[j][q] # None /\ link'[j][q].n = link[j][q].n
    BY <1>2, <1>3
  <2>5. \A o \in Owners : steady'[o] => steady[o]
    BY <1>4
  <2> QED
    BY <1>1, <1>7, <2>3, <2>4, <2>5, HoldsStays
<1>8. \A o \in Owners : steady'[o] => steady[o]
  BY <1>4
<1>9. \A o \in Owners, c \in 0..number : steady'[o] /\ Kept(o, c, row, link) => Kept(o, c, row', link')
  BY <1>5
<1> QED
  BY <1>1, <1>6, <1>7, <1>8, <1>9, OutsideStep

LEMMA RewriteKeeps == ASSUME IInv, NEW kind, NEW i \in Rows, NEW r \in Row, Rewrite(kind, i, r) PROVE IInv'
<1>1. r # None
  BY NoneApart
<1> QED
  BY <1>1, TouchKeeps DEF Rewrite

LEMMA OperatorKeeps == ASSUME IInv, Operator PROVE IInv'
<1>1. WorldOK /\ ActorsOK
  BY DEF IInv
<1>2. ASSUME NEW i \in Rows, row[i] # None
      PROVE  /\ [row[i] EXCEPT !.marked = FALSE] \in Row /\ [row[i] EXCEPT !.marked = TRUE] \in Row
             /\ [row[i] EXCEPT !.place = Elsewhere] \in Row
  <2>1. row[i] \in Row
    BY <1>1, <1>2 DEF WorldOK
  <2> QED
    BY <2>1 DEF Row
<1>3. CASE FlipBarrier
  <2>1. barrier' \in BOOLEAN /\ refers' \in SUBSET Rows /\ Edit("barrier") /\ UNCHANGED <<row, link, born, steady>>
    BY <1>1, <1>3 DEF FlipBarrier, WorldOK
  <2> QED
    BY <2>1, ApartKeeps
<1>4. ASSUME NEW i \in Rows, Refer(i) PROVE IInv'
  <2>1. barrier' \in BOOLEAN /\ refers' \in SUBSET Rows /\ Edit("refer") /\ UNCHANGED <<row, link, born, steady>>
    BY <1>1, <1>4 DEF Refer, WorldOK
  <2> QED
    BY <2>1, ApartKeeps
<1>5. ASSUME NEW i \in Rows, Release(i) \/ MarkAgain(i) \/ MoveAway(i) PROVE IInv'
  <2>1. row[i] # None
    BY <1>5 DEF Release, MarkAgain, MoveAway, Rewrite
  <2> QED
    BY <1>2, <1>5, <2>1, RewriteKeeps DEF Release, MarkAgain, MoveAway
<1>6. ASSUME NEW i \in Rows, Delete(i) PROVE IInv'
  <2>1. None \in Row \union {None}
    OBVIOUS
  <2> QED
    BY <1>6, <2>1, TouchKeeps DEF Delete
<1>7. ASSUME NEW s \in Servers, DropServer(s) PROVE IInv'
  <2>1. /\ UNCHANGED <<kea, number>> /\ rounds' \in [Servers -> 0..2]
        /\ number \in Nat /\ number' \in Nat /\ number <= number'
        /\ actor' \in [Actors -> Local] /\ \A b \in Actors : Follows(actor[b], actor'[b])
        /\ \A b \in Actors : actor'[b].pc # "idle" /\ actor'[b].fresh /\ actor[b].report.kind \notin Gone =>
              kea'[Here(actor[b])].kind \notin Gone
    BY <1>7, EditFacts DEF DropServer
  <2>2. /\ link' = [i \in Rows |-> [o \in Owners |-> IF o[1] = s THEN None ELSE link[i][o]]]
        /\ steady' = [o \in Owners |-> steady[o] /\ o[1] # s]
        /\ UNCHANGED <<row, born, refers, barrier>>
        /\ \A b \in Actors : actor[b].pc # "idle" => actor[b].order.server # s
    BY <1>7 DEF DropServer
  <2>3. /\ \A i \in Rows, o \in Owners : link'[i][o] = IF o[1] = s THEN None ELSE link[i][o]
        /\ \A o \in Owners : steady'[o] => steady[o] /\ o[1] # s
    BY <2>2
  <2>4. link' \in [Rows -> Links] /\ steady' \in [Owners -> BOOLEAN]
    <3>1. \A i \in Rows : link[i] \in [Owners -> Link \union {None}]
      BY <1>1 DEF WorldOK, Links
    <3>2. \A i \in Rows : [o \in Owners |-> IF o[1] = s THEN None ELSE link[i][o]] \in [Owners -> Link \union {None}]
      BY <3>1
    <3>3. [o \in Owners |-> steady[o] /\ o[1] # s] \in [Owners -> BOOLEAN]
      BY <1>1 DEF WorldOK
    <3> QED
      BY <2>2, <3>2, <3>3 DEF Links
  <2>5. ASSUME NEW o \in Owners, NEW c, steady'[o], Kept(o, c, row, link) PROVE Kept(o, c, row', link')
    <3>1. PICK j \in Rows : Keeps(row[j], link[j][o], o, c)
      BY <2>5 DEF Kept
    <3> QED
      BY <2>2, <2>3, <2>5, <3>1 DEF Kept
  <2>6. WorldOK'
    <3>1. \A j \in Rows : Numbered(link'[j], number) /\ (row[j] = None => \A o \in Owners : link'[j][o] = None)
      BY <1>1, <2>3 DEF WorldOK, Numbered
    <3>2. \A o \in Owners : steady'[o] => kea[o].kind \notin Gone /\ Kept(o, 0, row', link')
      BY <1>1, <2>3, <2>5 DEF WorldOK
    <3> HIDE DEF Links, Reports, Owners
    <3>3. number' = number /\ kea' = kea /\ born' = born /\ row' = row /\ refers' = refers /\ barrier' = barrier
      BY <2>1, <2>2
    <3> QED
      BY <1>1, <2>1, <2>4, <3>1, <3>2, <3>3 DEF WorldOK
  <2>7. ASSUME NEW b \in Actors, actor[b].pc = "commit" PROVE Holds(actor[b], number', steady', row', link')
    <3>1. /\ actor[b].found \subseteq Rows /\ Here(actor[b]) \in Owners /\ Here(actor[b])[1] # s
      <4>1. actor[b].pc # "idle" /\ actor[b] \in Local
        BY <2>7, OfActor
      <4>2. Here(actor[b])[1] = actor[b].order.server /\ Here(actor[b]) \in Owners
        BY <4>1, OfActor
      <4> QED
        BY <2>2, <4>1, <4>2 DEF Local
    <3>2. \A j \in actor[b].found : link'[j][Here(actor[b])] = link[j][Here(actor[b])]
      BY <2>3, <3>1
    <3>3. \A j \in Rows, q \in Owners : link'[j][q] # None => link[j][q] # None /\ link'[j][q].n = link[j][q].n
      BY <2>3
    <3>4. \A j \in actor[b].found \union actor[b].old : row'[j] = row[j]
      BY <2>2
    <3>5. \A o \in Owners : steady'[o] => steady[o]
      BY <2>3
    <3> QED
      BY <2>1, <2>7, <3>2, <3>3, <3>4, <3>5, HoldsStays
  <2>8. \A o \in Owners : steady'[o] => steady[o]
    BY <2>3
  <2>9. \A o \in Owners, c \in 0..number : steady'[o] /\ Kept(o, c, row, link) => Kept(o, c, row', link')
    BY <2>5
  <2> QED
    BY <2>1, <2>6, <2>7, <2>8, <2>9, OutsideStep
<1> QED
  BY <1>3, <1>4, <1>5, <1>6, <1>7, CreateKeeps DEF Operator

------------------------------------------------------------------------------
(* The invariant, and the theorems.                                        *)

\* At the start the rows are the first keys, and their links are older than every run.
LEMMA StartCount ==
    ASSUME NEW rw \in [Rows -> Row \union {None}], \A i, j \in Rows : rw[i] # None /\ j < i => rw[j] # None
    PROVE  LET used == {i \in Rows : rw[i] # None}
           IN  Cardinality(used) \in 0..Cardinality(Rows) /\ \A i \in used : i <= Cardinality(used)
<1> DEFINE used == {i \in Rows : rw[i] # None}
<1>1. IsFiniteSet(Rows) /\ Rows = 1..Cardinality(Rows) /\ Cardinality(Rows) \in Nat
  BY OwnershipAssumption, FS_CardinalityType
<1>2. used \subseteq Rows
  OBVIOUS
<1>3. IsFiniteSet(used) /\ Cardinality(used) <= Cardinality(Rows) /\ Cardinality(used) \in Nat
  BY <1>1, <1>2, FS_Subset, FS_CardinalityType
<1>4. ASSUME NEW i \in used PROVE i <= Cardinality(used)
  <2>1. i \in Nat /\ 1 <= i /\ i <= Cardinality(Rows)
    BY <1>1, <1>4
  <2>2. 1..i \subseteq used
    <3> SUFFICES ASSUME NEW j \in 1..i PROVE j \in used
      OBVIOUS
    <3>1. j \in Rows
      BY <1>1, <2>1
    <3>2. j = i \/ j < i
      BY <2>1
    <3> QED
      BY <1>4, <3>1, <3>2
  <2>3. Cardinality(1..i) = i /\ IsFiniteSet(1..i)
    BY <2>1, FS_Interval
  <2> DEFINE low == 1..i
  <2> HIDE DEF low, used
  <2>4. Cardinality(low) <= Cardinality(used)
    BY <1>3, <2>2, FS_Subset DEF low
  <2> QED
    BY <2>3, <2>4 DEF low
<1> QED
  BY <1>1, <1>3, <1>4

LEMMA IInvInit == ASSUME Init PROVE IInv
<1>1. PICK start \in StartRows : row = start.row /\ link = start.link
  BY DEF Init
<1>2. /\ row \in [Rows -> Row \union {None}]
      /\ \A i, j \in Rows : row[i] # None /\ j < i => row[j] # None
      /\ link \in [Rows -> [Owners -> Link \union {None}]]
      /\ \A i \in Rows : \A o \in Linked(link[i]) :
            row[i] # None /\ link[i][o].n = 0 /\ link[i][o].mark \in {0, None}
  BY <1>1, StartAssumption
<1>3. born \in 0..Cardinality(Rows) /\ \A i \in Rows : row[i] # None => i <= born
  <2>1. LET used == {i \in Rows : row[i] # None}
        IN  Cardinality(used) \in 0..Cardinality(Rows) /\ \A i \in used : i <= Cardinality(used)
    BY <1>2, StartCount
  <2>2. born = Cardinality({i \in Rows : row[i] # None})
    BY DEF Init
  <2> QED
    BY <2>1, <2>2
<1>4. \A i \in Rows : Numbered(link[i], 0) /\ (row[i] = None => \A o \in Owners : link[i][o] = None)
  <2>1. 0 <= 0
    OBVIOUS
  <2> QED
    BY <1>2, <2>1 DEF Numbered, Linked
<1>5. /\ kea \in [Owners -> Reports] /\ number = 0 /\ refers = {} /\ barrier = FALSE
      /\ actor = [a \in Actors |-> Idle] /\ steady = [o \in Owners |-> FALSE] /\ rounds = [s \in Servers |-> 0]
  BY OwnershipAssumption DEF Init
<1>6. WorldOK
  <2>1. \A i \in Rows : Numbered(link[i], number)
    BY <1>4, <1>5
  <2>2. \A o \in Owners : ~steady[o]
    BY <1>5
  <2>3. steady \in [Owners -> BOOLEAN]
    BY <1>5
  <2>4. rounds \in [Servers -> 0..2]
    BY <1>5, RestartTyped
  <2>5. link \in [Rows -> Links]
    BY <1>2 DEF Links
  <2> HIDE DEF Links, Reports, Owners
  <2> QED
    BY <1>2, <1>3, <1>4, <1>5, <2>1, <2>2, <2>3, <2>4, <2>5 DEF WorldOK
<1>7. ActorsOK
  <2>1. \A a \in Actors : actor[a] = Idle
    BY <1>5
  <2>2. Idle.pc = "idle"
    BY DEF Idle
  <2>3. Typed(Idle) /\ InWorld(Idle, kea, number, steady, row, link, actor)
    BY <1>5, IdleGood
  <2>4. Idle \in Local
    BY <2>3 DEF Typed
  <2> HIDE DEF Idle, Local
  <2> QED
    BY <1>5, <2>1, <2>2, <2>3, <2>4 DEF ActorsOK
<1> QED
  BY <1>6, <1>7 DEF IInv

LEMMA WorkKeeps == ASSUME IInv, NEW a \in Actors, Work(a) PROVE IInv'
BY TakeCutoffKeeps, ReadSnapshotKeeps, ReadInPartKeeps, EnterClaimKeeps, FailKeeps, CommitCreateKeeps, CommitClaimKeeps,
   ClassifyKeeps, ChooseStaleKeeps, EndCleanupKeeps, CleanOneKeeps, CleanFailsKeeps DEF Work

LEMMA IInvNext == IInv /\ [Next]_vars => IInv'
<1> SUFFICES ASSUME IInv, [Next]_vars PROVE IInv'
  OBVIOUS
<1>1. ASSUME NEW m \in Moves, KeaMoves(m.owner, m.report) PROVE IInv'
  <2>1. m.owner \in Owners /\ m.report \in Reports
    BY <1>1, OwnershipAssumption
  <2> QED
    BY <1>1, <2>1, KeaMovesKeeps
<1>2. CASE UNCHANGED vars
  <2>1. WorldOK'
    BY <1>2 DEF IInv, WorldOK, vars, Kept
  <2>2. ActorsOK'
    <3>1. UNCHANGED <<kea, row, link, number, steady, actor>>
      BY <1>2 DEF vars
    <3>2. ActorsOK
      BY DEF IInv
    <3> QED
      BY <3>1, <3>2 DEF ActorsOK
  <2> QED
    BY <2>1, <2>2 DEF IInv
<1>3. CASE Finished
  BY <1>2, <1>3 DEF Finished
<1>4. CASE Operator
  BY <1>4, OperatorKeeps
<1>5. ASSUME NEW a \in Actors, Work(a) PROVE IInv'
  BY <1>5, WorkKeeps
<1>6. ASSUME NEW a \in Actors, NEW order \in Orders, Start(a, order) PROVE IInv'
  BY <1>6, StartKeeps
<1> QED
  BY <1>1, <1>2, <1>3, <1>4, <1>5, <1>6 DEF Next

LEMMA IInvAlways == Spec => []IInv
<1> QED
  BY IInvInit, IInvNext, PTL DEF Spec

\* Every variable keeps its type, no link names a row that is gone, and no number of a link, a cutoff or a mark is ahead of
\* the confirmation sequence, whatever the workers, Kea and the operators do (ipam_reconciliation.py).
THEOREM TypeCorrect == Spec => []TypeOK
<1>1. ASSUME IInv PROVE TypeOK
  <2>1. WorldOK /\ ActorsOK
    BY <1>1 DEF IInv
  <2>2. ASSUME NEW i \in Rows
        PROVE  DOMAIN link[i] = Owners /\ \A o \in Linked(link[i]) :
                  /\ row[i] # None
                  /\ link[i][o] \in Link
                  /\ link[i][o].n <= number /\ (link[i][o].mark # None => link[i][o].mark <= number)
    <3>1. link[i] \in Links /\ Numbered(link[i], number) /\ (row[i] = None => \A o \in Owners : link[i][o] = None)
      BY <2>1 DEF WorldOK
    <3> QED
      BY <3>1 DEF Links, Linked, Numbered
  <2>3. \A a \in Actors : actor[a] \in Local /\ \A s \in Sources : actor[a].cutoff[s] <= number
    BY <2>1 DEF ActorsOK, Typed, InWorld
  <2> HIDE DEF Links, Reports, Owners, Local, Row
  <2> QED
    BY <2>1, <2>2, <2>3 DEF TypeOK, WorldOK
<1> QED
  BY <1>1, IInvAlways, PTL

\* A record that Kea reported without a gap since a claim of it was applied keeps its object: no cleanup of any Server, run
\* or source removes, deprecates or unlinks it (the cutoff of read_leases and _run_phase against _remove_stale_link).
THEOREM ReportedStays == Spec => []KeptWhileReported
<1>1. ASSUME IInv PROVE KeptWhileReported
  <2> SUFFICES ASSUME NEW o \in Owners, steady[o]
               PROVE  \E i \in RowsAt(Vrf[o[1]]) :
                         /\ row[i].marked /\ row[i].status # "deprecated"
                         /\ link[i][o] # None /\ link[i][o].mark = None
    BY DEF KeptWhileReported
  <2>1. Kept(o, 0, row, link)
    BY <1>1 DEF IInv, WorldOK
  <2> QED
    BY <2>1 DEF Kept, Keeps, RowsAt
<1> QED
  BY <1>1, IInvAlways, PTL

------------------------------------------------------------------------------
(* What a step may do to the rows.                                         *)

\* Only the edits of operators count in the budget of the edits.
BudgetOK == "edits" \in DOMAIN budget /\ budget.edits \in 0..MaxEdits

LEMMA EditSpends ==
    ASSUME BudgetOK, NEW kind, Edit(kind)
    PROVE  BudgetOK' /\ budget'.edits # budget.edits /\ budget'.edits # MaxEdits
BY OwnershipAssumption DEF BudgetOK, Edit

\* A step is an edit, or a claim or a cleanup that writes one row, or it leaves the rows.
LEMMA RowSteps ==
    ASSUME BudgetOK, [Next]_vars
    PROVE  \/ \E kind : Edit(kind)
           \/ /\ BudgetOK' /\ budget'.edits = budget.edits
              /\ \/ row' = row
                 \/ \E a \in Actors : CommitCreate(a) \/ CommitClaim(a) \/ \E c \in actor[a].todo : CleanOne(a, c)
<1> DEFINE Spent == BudgetOK' /\ budget'.edits = budget.edits
<1>1. UNCHANGED budget => Spent
  BY DEF BudgetOK
<1>2. Disturb => Spent
  BY DEF BudgetOK, Disturb
<1>3. ASSUME NEW a \in Actors, Work(a)
      PROVE  Spent /\ (row' = row \/ CommitCreate(a) \/ CommitClaim(a) \/ \E c \in actor[a].todo : CleanOne(a, c))
  <2>1. CASE TakeCutoff(a) \/ ReadSnapshot(a) \/ EnterClaim(a) \/ RefuseRow(a) \/ Classify(a) \/ ChooseStale(a)
             \/ EndCleanup(a)
    BY <1>1, <2>1 DEF TakeCutoff, ReadSnapshot, EnterClaim, RefuseRow, Classify, ChooseStale, EndCleanup
  <2>2. CASE ReadInPart(a) \/ RowFails(a) \/ \E c \in actor[a].todo : CleanFails(a, c)
    BY <1>2, <2>2 DEF ReadInPart, RowFails, CleanFails
  <2>3. CASE CommitCreate(a) \/ CommitClaim(a)
    BY <1>1, <2>3 DEF CommitCreate, CommitClaim
  <2>4. CASE \E c \in actor[a].todo : CleanOne(a, c)
    BY <1>1, <2>4 DEF CleanOne
  <2> QED
    BY <1>3, <2>1, <2>2, <2>3, <2>4 DEF Work
<1>4. ASSUME NEW a \in Actors, NEW order \in Orders, Start(a, order) PROVE Spent /\ row' = row
  BY <1>4 DEF Start, BudgetOK
<1>5. ASSUME NEW m \in Moves, KeaMoves(m.owner, m.report) PROVE Spent /\ row' = row
  BY <1>5 DEF KeaMoves, BudgetOK
<1>6. CASE Operator
  BY <1>6 DEF Operator, Create, FlipBarrier, Release, MarkAgain, MoveAway, Rewrite, Delete, Refer, DropServer
<1>7. CASE UNCHANGED vars
  BY <1>1, <1>7 DEF vars
<1> QED
  BY <1>3, <1>4, <1>5, <1>6, <1>7 DEF Next, Finished

LEMMA BudgetAlways == Spec => []BudgetOK
<1>1. Init => BudgetOK
  BY OwnershipAssumption DEF Init, BudgetOK
<1>2. BudgetOK /\ [Next]_vars => BudgetOK'
  BY RowSteps, EditSpends
<1> QED
  BY <1>1, <1>2, PTL DEF Spec

\* A cleanup writes one row, in its place, and leaves a row without the marker.
LEMMA CleanWrites ==
    ASSUME IInv, NEW a \in Actors, NEW c \in actor[a].todo, CleanOne(a, c)
    PROVE  \A i \in Rows : /\ row'[i] # None => row[i] # None /\ row'[i].place = row[i].place
                           /\ row[i] # None /\ ~row[i].marked => row'[i] = row[i]
<1> DEFINE me == actor[a]  o0 == Now(a)  cutoff == me.cutoff[o0[2]]  j == c.row
           done == StaleLink(o0, j, cutoff, LastLinksGo(me), me.refs)
<1>1. WorldOK /\ me \in Local /\ o0 \in Owners /\ cutoff \in Nat /\ j \in Rows
  <2>1. me \in Local /\ o0 \in Owners /\ o0[2] \in Sources /\ WorldOK
    BY OfActor DEF CleanOne
  <2>2. me.todo \subseteq [row: Rows, place: {Global, Elsewhere} \union {Vrf[s] : s \in Servers}]
        /\ me.cutoff \in [Sources -> Nat]
    BY <2>1 DEF Local
  <2> QED
    BY <2>1, <2>2
<1>2. row' = row \/ (row[j] # None /\ link[j][o0] # None /\ row' = [row EXCEPT ![j] = done.row])
  BY DEF CleanOne, StillStale
<1>3. row[j] # None /\ link[j][o0] # None => Cleaned(o0, j, cutoff, done)
  BY <1>1, StaleFacts DEF WorldOK
<1> HIDE DEF done, o0, me, cutoff, j
<1>4. row[j] # None /\ link[j][o0] # None =>
         (~row[j].marked => done.row = row[j]) /\ (done.row # None => done.row.place = row[j].place)
  BY <1>3 DEF Cleaned
<1> QED
  BY <1>1, <1>2, <1>4 DEF WorldOK

\* A claim writes one row that has the marker, or that it found in the VRF. It comes into the VRF.
LEMMA ClaimWrites ==
    ASSUME IInv, NEW a \in Actors, CommitClaim(a)
    PROVE  \E i \in Rows : /\ row[i] # None /\ row' = [row EXCEPT ![i] = row'[i]]
                           /\ row'[i] # None /\ row'[i].place = Vrf[actor[a].order.server]
                           /\ \/ row[i].place = Vrf[actor[a].order.server] \/ (row[i].marked /\ actor[a].found = {})
                           /\ ~row[i].marked /\ actor[a].order.kind # "force" => row'[i] = row[i]
<1> DEFINE o0 == Now(a)  me == actor[a]
<1>1. WorldOK /\ o0 \in Owners /\ o0[1] = me.order.server /\ me.pc = "commit" /\ me \in Local /\ Cardinality(Target(a)) = 1
  BY OfActor DEF CommitClaim
<1>2. /\ me.n \in Nat /\ me.report \in Reports /\ me.report.kind \notin Gone
      /\ \A i \in me.found : i \in Rows /\ row[i] # None /\ row[i].place = Vrf[o0[1]]
      /\ \A i \in me.old : i \in Rows /\ row[i] # None /\ row[i].marked
  BY <1>1, OfCommit
<1>3. PICK i \in Rows : /\ (CHOOSE j \in Target(a) : TRUE) = i
                        /\ i \in me.found \/ (i \in me.old /\ me.found = {})
  BY <1>1, <1>2, OneTarget
<1> DEFINE done == ClaimRow(a, o0, i)
<1>4. row' = [row EXCEPT ![i] = done.row]
  BY <1>3 DEF CommitClaim
<1>5. row[i] \in Row /\ link[i] \in Links /\ row[i] # None
  BY <1>1, <1>2, <1>3 DEF WorldOK
<1>6. Claimed(a, o0, i, done)
  BY <1>1, <1>2, <1>5, ClaimRowFacts
<1> HIDE DEF done, o0
<1>7. done.row \in Row /\ done.row.place = Vrf[o0[1]]
      /\ (~row[i].marked /\ me.order.kind # "force" => done.row = [row[i] EXCEPT !.place = Vrf[o0[1]]])
  BY <1>6 DEF Claimed
<1> HIDE DEF me
<1>8. row'[i] = done.row /\ done.row # None /\ row' = [row EXCEPT ![i] = row'[i]]
  BY <1>1, <1>4, <1>7, NoneApart DEF WorldOK
<1>9. row[i].place = Vrf[o0[1]] \/ (row[i].marked /\ me.found = {})
  BY <1>2, <1>3
<1>10. row[i].place = Vrf[o0[1]] => [row[i] EXCEPT !.place = Vrf[o0[1]]] = row[i]
  BY <1>5 DEF Row
<1>11. row[i].marked \in BOOLEAN
  BY <1>5, RowFacts
<1> QED
  BY <1>1, <1>5, <1>7, <1>8, <1>9, <1>10, <1>11 DEF me

\* A row without the marker, also one that an operator released while a run had chosen it, is changed only by operators and by
\* a forced claim (_is_owned_description in _claim and _remove_stale_link).
THEOREM CuratedStays == Spec => CuratedUntouched
<1> DEFINE Step(i) == (row[i] # None /\ ~row[i].marked /\ row'[i] # row[i]) =>
                         \/ budget'.edits # budget.edits
                         \/ \E a \in Actors : actor[a] # actor'[a] /\ actor[a].order.kind = "force"
<1>1. ASSUME IInv, BudgetOK, [Next]_vars, NEW i \in Rows PROVE Step(i)
  <2>1. ASSUME NEW a \in Actors, CommitCreate(a) PROVE row[i] # None => row'[i] = row[i]
    <3>1. row' = row \/ (born + 1 \in Rows /\ \E r : row' = [row EXCEPT ![born + 1] = r])
      BY <2>1 DEF CommitCreate
    <3>2. row \in [Rows -> Row \union {None}] /\ born \in Nat /\ \A j \in Rows : row[j] # None => j <= born
      BY <1>1 DEF IInv, WorldOK
    <3> QED
      BY <3>1, <3>2
  <2>2. ASSUME NEW a \in Actors, CommitClaim(a), row[i] # None, ~row[i].marked, row'[i] # row[i]
        PROVE  actor[a] # actor'[a] /\ actor[a].order.kind = "force"
    <3>1. PICK j \in Rows : /\ row' = [row EXCEPT ![j] = row'[j]]
                            /\ ~row[j].marked /\ actor[a].order.kind # "force" => row'[j] = row[j]
      BY <1>1, <2>2, ClaimWrites
    <3>2. row \in [Rows -> Row \union {None}]
      BY <1>1 DEF IInv, WorldOK
    <3>3. actor[a].order.kind = "force"
      BY <2>2, <3>1, <3>2
    <3>4. actor[a].pc = "commit" /\ Ends(a)
      BY <1>1, <2>2 DEF CommitClaim, Set, Ends
    <3>5. actor'[a].pc # "commit"
      BY <1>1, <3>4, EndsLeaves
    <3> QED
      BY <3>3, <3>4, <3>5
  <2>3. ASSUME NEW a \in Actors, NEW c \in actor[a].todo, CleanOne(a, c), row[i] # None,
               ~row[i].marked PROVE row'[i] = row[i]
    BY <1>1, <2>3, CleanWrites
  <2> QED
    BY <1>1, <2>1, <2>2, <2>3, RowSteps, EditSpends
<1>2. IInv /\ BudgetOK /\ [Next]_vars => [\A i \in Rows : Step(i)]_vars
  BY <1>1
<1> HIDE DEF Step
<1>3. Spec => [][\A i \in Rows : Step(i)]_vars
  BY <1>2, IInvAlways, BudgetAlways, PTL DEF Spec
<1> QED
  BY <1>3 DEF CuratedUntouched, Step

\* While no operator has edited, a claim under the locks has found every row of its identity.
Found(l) == budget.edits = MaxEdits /\ l.pc = "commit" => RowsAt(Vrf[l.order.server]) \subseteq l.found
FoundAll == \A b \in Actors : Found(actor[b])

\* A worker comes to the locks only by entering a claim.
LEMMA NotEntering ==
    ASSUME IInv, NEW a \in Actors, NEW new \in Local, new.pc # "commit",
           actor' = [actor EXCEPT ![a] = new] \/ actor' = Restless([actor EXCEPT ![a] = new])
    PROVE  \A b \in Actors : actor'[b].pc = "commit" =>
              actor[b].pc = "commit" /\ actor'[b].found = actor[b].found /\ actor'[b].order = actor[b].order
<1>1. Moved(a, new)
  BY SetMoves DEF IInv
<1> QED
  BY <1>1 DEF Moved, Follows

LEMMA NextCleanupLeaves ==
    ASSUME IInv, NEW a \in Actors, actor[a].pc \in {"choose", "clean"}, NextCleanup(a, actor[a])
    PROVE  \E new \in Local : new.pc # "commit" /\ actor' = [actor EXCEPT ![a] = new]
<1> DEFINE me == actor[a]  next == [me EXCEPT !.phase = me.phase + 1, !.pc = "choose", !.todo = {}]
<1>1. me \in Local /\ Len(Plan(me.order)) \in 1..2 /\ me.phase \in 1..2
  BY OfActor, PlanFacts DEF Local
<1>2. CASE me.phase < Len(Plan(me.order))
  <2>1. actor' = [actor EXCEPT ![a] = next]
    BY <1>2 DEF NextCleanup, Set
  <2>2. me.phase + 1 \in 1..2
    <3>1. \A i, j \in 1..2 : j < i => j + 1 \in 1..2
      OBVIOUS
    <3> QED
      BY <1>1, <1>2, <3>1
  <2>3. next \in Local /\ next.pc = "choose"
    BY <1>1, <2>2 DEF Local
  <2> QED
    BY <2>1, <2>3
<1>3. CASE ~(me.phase < Len(Plan(me.order)))
  <2>1. actor' = [actor EXCEPT ![a] = Idle]
    BY <1>3 DEF NextCleanup, Done, Set
  <2>2. Idle.pc = "idle" /\ Idle \in Local
    BY IdleGood DEF Typed, Idle
  <2> QED
    BY <2>1, <2>2
<1> QED
  BY <1>2, <1>3

\* What a step does to the worker that takes it.
LEMMA WorkMoves ==
    ASSUME IInv, NEW a \in Actors, Work(a), ~EnterClaim(a)
    PROVE  \E new \in Local : /\ new.pc # "commit"
                              /\ actor' = [actor EXCEPT ![a] = new] \/ actor' = Restless([actor EXCEPT ![a] = new])
<1> DEFINE me == actor[a]
           Leaves == \E new \in Local : /\ new.pc # "commit"
                                        /\ actor' = [actor EXCEPT ![a] = new] \/ actor' = Restless([actor EXCEPT ![a] = new])
<1>1. /\ me \in Local /\ WorldOK
      /\ me.pc # "idle" => me.order \in Orders /\ Now(a) \in Owners /\ Now(a)[2] \in Sources /\ number \in Nat
  BY OfActor DEF WorldOK
<1>2. CASE TakeCutoff(a)
  <2> DEFINE s0 == Now(a)[2]
             one == [me EXCEPT !.pc = "read"]  two == [me EXCEPT !.pc = "read", !.cutoff[s0] = number + 1]
  <2>1. actor' = [actor EXCEPT ![a] = one] \/ actor' = [actor EXCEPT ![a] = two]
    BY <1>2 DEF TakeCutoff, Set
  <2>2. s0 \in Sources /\ number + 1 \in Nat
    BY <1>1, <1>2 DEF TakeCutoff
  <2> HIDE DEF s0, me
  <2>3. one \in Local /\ one.pc = "read"
    BY <1>1 DEF Local
  <2>4. two \in Local /\ two.pc = "read"
    BY <1>1, <2>2 DEF Local
  <2> QED
    BY <2>1, <2>3, <2>4 DEF me
<1>3. ASSUME NEW whole \in SUBSET Sources, NEW report \in Reports, NEW place \in {"claim", "classify"}, me.order \in Orders
      PROVE  LET read == [me EXCEPT !.whole = whole, !.report = report, !.fresh = TRUE, !.pc = place]
             IN  read \in Local /\ read.pc # "commit" /\ Onward(read) \in Local /\ Onward(read).pc # "commit"
  <2> DEFINE read == [me EXCEPT !.whole = whole, !.report = report, !.fresh = TRUE, !.pc = place]
  <2>1. read \in Local /\ read.pc = place /\ read.order = me.order
    BY <1>1, <1>3 DEF Local
  <2> HIDE DEF read
  <2>2. Onward(read) \in Local /\ Onward(read).pc # "commit"
    BY <1>3, <2>1, OnwardLeaves
  <2> QED
    BY <2>1, <2>2 DEF read
<1>4. CASE ReadSnapshot(a)
  <2> DEFINE whole == me.whole \union {Now(a)[2]}  report == kea[Now(a)]
             read == [me EXCEPT !.whole = whole, !.report = report, !.fresh = TRUE, !.pc = "claim"]
             other == [me EXCEPT !.whole = whole, !.report = report, !.fresh = TRUE, !.pc = "classify"]
  <2>1. whole \in SUBSET Sources /\ report \in Reports /\ me.order \in Orders
    BY <1>1, <1>4 DEF ReadSnapshot, Local, WorldOK
  <2>2. actor' = [actor EXCEPT ![a] = Onward(read)] \/ actor' = [actor EXCEPT ![a] = read]
        \/ actor' = [actor EXCEPT ![a] = other]
    <3>1. [read EXCEPT !.pc = "classify"] = other
      BY <1>1 DEF Local
    <3>2. Set(a, CASE report.kind = "absent" -> Onward(read)
                   [] report.kind = "inactive" /\ Cleans(me.order) -> [read EXCEPT !.pc = "classify"]
                   [] report.kind = "inactive" /\ ~Cleans(me.order) -> Onward(read)
                   [] OTHER -> read)
      BY <1>4 DEF ReadSnapshot
    <3> HIDE DEF read, other, report
    <3> QED
      BY <3>1, <3>2 DEF Set
  <2> HIDE DEF whole, report
  <2>3. read \in Local /\ read.pc # "commit" /\ Onward(read) \in Local /\ Onward(read).pc # "commit"
    BY <1>3, <2>1
  <2>4. other \in Local /\ other.pc # "commit"
    BY <1>3, <2>1
  <2> QED
    BY <2>2, <2>3, <2>4
<1>5. CASE ReadInPart(a)
  <2> DEFINE read(report) == [me EXCEPT !.whole = me.whole, !.report = report, !.fresh = TRUE, !.pc = "claim"]
  <2>1. PICK report \in {Absent, kea[Now(a)]} :
           actor' = Restless([actor EXCEPT ![a] = IF report.kind \in Gone THEN Onward(read(report)) ELSE read(report)])
    <3>1. \A report : [me EXCEPT !.report = report, !.fresh = TRUE, !.pc = "claim"] = read(report)
      BY <1>1 DEF Local
    <3> HIDE DEF read
    <3> QED
      BY <1>5, <3>1 DEF ReadInPart, Gone
  <2>2. report \in Reports /\ me.order \in Orders /\ me.whole \in SUBSET Sources
    BY <1>1, <1>5, ReportFacts DEF ReadInPart, Local, WorldOK
  <2>3. /\ read(report) \in Local /\ read(report).pc # "commit"
        /\ Onward(read(report)) \in Local /\ Onward(read(report)).pc # "commit"
    BY <1>3, <2>2
  <2> HIDE DEF read
  <2> QED
    BY <2>1, <2>3
<1>6. CASE RefuseRow(a) \/ RowFails(a)
  <2>1. me.pc = "commit"
    BY <1>6 DEF RefuseRow, RowFails
  <2>2. FailPhase(me) \in Local /\ FailPhase(me).order = me.order
    BY <1>1 DEF FailPhase, Local
  <2>3. Onward(FailPhase(me)) \in Local /\ Onward(FailPhase(me)).pc # "commit"
    BY <1>1, <2>1, <2>2, OnwardLeaves
  <2> QED
    BY <1>6, <2>3 DEF RefuseRow, RowFails, Set
<1>7. CASE CommitCreate(a) \/ CommitClaim(a) \/ Classify(a)
  <2>1. me.pc \in {"commit", "classify"} /\ Ends(a)
    BY <1>7 DEF CommitCreate, CommitClaim, Classify, Set, Ends
  <2> QED
    BY <2>1, EndsLeaves
<1>8. CASE ChooseStale(a)
  <2> DEFINE todo == Candidates(a)  new == [me EXCEPT !.pc = "clean", !.todo = todo, !.refs = refers]
  <2>1. CASE actor' = [actor EXCEPT ![a] = new]
    <3>1. todo \in SUBSET [row: Rows, place: {Global, Elsewhere} \union {Vrf[s] : s \in Servers}]
      <4>1. \A j \in Rows : row[j] # None => row[j].place \in {Global, Elsewhere} \union {Vrf[s] : s \in Servers}
        BY <1>1, RowFacts DEF WorldOK, Places
      <4> QED
        BY <4>1 DEF Candidates
    <3>2. refers \in SUBSET Rows
      BY <1>1 DEF WorldOK
    <3> HIDE DEF todo, me
    <3>3. new \in Local /\ new.pc = "clean"
      BY <1>1, <3>1, <3>2 DEF Local
    <3> QED
      BY <2>1, <3>3
  <2>2. CASE NextCleanup(a, me)
    BY <1>8, <2>2, NextCleanupLeaves DEF ChooseStale
  <2> QED
    BY <1>8, <2>1, <2>2 DEF ChooseStale, Set
<1>9. CASE EndCleanup(a)
  BY <1>9, NextCleanupLeaves DEF EndCleanup
<1>10. ASSUME NEW c \in actor[a].todo, CleanOne(a, c) \/ CleanFails(a, c) PROVE Leaves
  <2> DEFINE new == [me EXCEPT !.todo = me.todo \ {c}]
  <2>1. me.pc = "clean" /\ (actor' = [actor EXCEPT ![a] = new] \/ actor' = Restless([actor EXCEPT ![a] = new]))
    BY <1>10 DEF CleanOne, CleanFails, Set
  <2>2. Typed(new) /\ new.pc = "clean"
    BY <2>1, CandidateDone
  <2> HIDE DEF new
  <2> QED
    BY <2>1, <2>2 DEF Typed
<1> QED
  BY <1>2, <1>4, <1>5, <1>6, <1>7, <1>8, <1>9, <1>10 DEF Work

LEMMA CommitsFrom ==
    ASSUME IInv, BudgetOK, [Next]_vars, budget'.edits = MaxEdits, NEW b \in Actors, actor'[b].pc = "commit"
    PROVE  \/ EnterClaim(b)
           \/ actor[b].pc = "commit" /\ actor'[b].found = actor[b].found /\ actor'[b].order = actor[b].order
<1> DEFINE Stays == actor[b].pc = "commit" /\ actor'[b].found = actor[b].found /\ actor'[b].order = actor[b].order
<1>1. ASSUME NEW a \in Actors, Work(a) PROVE EnterClaim(b) \/ Stays
  <2>1. CASE EnterClaim(a)
    <3>1. a # b => actor'[b] = actor[b]
      BY <2>1 DEF EnterClaim, Set, IInv, ActorsOK
    <3> QED
      BY <2>1, <3>1
  <2>2. CASE ~EnterClaim(a)
    BY <1>1, <2>2, WorkMoves, NotEntering
  <2> QED
    BY <2>1, <2>2
<1>2. ASSUME NEW a \in Actors, NEW order \in Orders, Start(a, order) PROVE Stays
  <2>1. \E held, quiet : actor' = [actor EXCEPT ![a] = [Idle EXCEPT !.pc = "cutoff", !.order = order, !.held = held,
                                                                   !.quiet = quiet, !.base = rounds[order.server]]]
    BY <1>2 DEF Start, Set
  <2>2. actor'[a].pc = "cutoff" /\ \A c \in Actors \ {a} : actor'[c] = actor[c]
    BY <2>1 DEF Idle, IInv, ActorsOK
  <2> QED
    BY <2>2
<1>3. ASSUME NEW m \in Moves, KeaMoves(m.owner, m.report) PROVE Stays
  <2> DEFINE local == [c \in Actors |->
                IF m.report.kind \in {"absent", "inactive"} /\ actor[c].pc # "idle" /\ actor[c].order.server = m.owner[1]
                THEN [actor[c] EXCEPT !.held = @ \ {m.owner[2]},
                        !.fresh = @ /\ Plan(actor[c].order)[actor[c].phase] # m.owner[2]]
                ELSE actor[c]]
  <2>1. actor' = Restless(local)
    BY <1>3 DEF KeaMoves
  <2>2. actor[b] \in Local
    BY DEF IInv, ActorsOK
  <2>3. local[b].pc = actor[b].pc /\ local[b].found = actor[b].found /\ local[b].order = actor[b].order
    BY <2>2 DEF Local
  <2>4. actor'[b] = [local[b] EXCEPT !.quiet = FALSE]
    BY <2>1 DEF Restless
  <2> HIDE DEF local
  <2>5. actor'[b].pc = local[b].pc /\ actor'[b].found = local[b].found /\ actor'[b].order = local[b].order
    BY <2>4
  <2> QED
    BY <2>3, <2>5
<1>4. CASE Operator
  <2>1. \E kind : Edit(kind)
    BY <1>4 DEF Operator, Create, FlipBarrier, Release, MarkAgain, MoveAway, Rewrite, Delete, Refer, DropServer
  <2> QED
    BY <2>1, EditSpends
<1>5. CASE UNCHANGED vars
  BY <1>5 DEF vars
<1> QED
  BY <1>1, <1>2, <1>3, <1>4, <1>5 DEF Next, Finished

\* Without an edit, only a claim brings rows to a place.
LEMMA FewerRows ==
    ASSUME NEW place, \A i \in Rows : row'[i] # None => row[i] # None /\ row'[i].place = row[i].place
    PROVE  RowsAt(place)' \subseteq RowsAt(place)
BY DEF RowsAt

\* A worker that ends its claim is not at the locks any more.
LEMMA CommitEnds ==
    ASSUME IInv, NEW a \in Actors, CommitCreate(a) \/ CommitClaim(a)
    PROVE  actor[a].pc = "commit" /\ \A b \in Actors : actor'[b].pc # "commit"
<1>1. actor[a].pc = "commit" /\ Ends(a) /\ actor \in [Actors -> Local]
  BY DEF CommitCreate, CommitClaim, Set, Ends, IInv, ActorsOK
<1>2. actor'[a].pc # "commit" /\ \A b \in Actors \ {a} : actor'[b] = actor[b]
  BY <1>1, EndsLeaves
<1>3. \A b \in Actors \ {a} : actor[b].pc # "commit"
  BY <1>1, OfCommit
<1> QED
  BY <1>1, <1>2, <1>3

LEMMA FoundNext == ASSUME IInv, BudgetOK, FoundAll, [Next]_vars PROVE FoundAll'
<1> SUFFICES ASSUME NEW b \in Actors, budget'.edits = MaxEdits, actor'[b].pc = "commit",
                    NEW i \in Rows, row'[i] # None, row'[i].place = Vrf[actor'[b].order.server]
             PROVE  i \in actor'[b].found
  BY DEF FoundAll, Found, RowsAt
<1>1. budget.edits = MaxEdits /\ (\/ row' = row
                                  \/ \E a \in Actors : CommitCreate(a) \/ CommitClaim(a)
                                     \/ \E c \in actor[a].todo : CleanOne(a, c))
  BY RowSteps, EditSpends
<1>2. \A a \in Actors : ~CommitCreate(a) /\ ~CommitClaim(a)
  BY CommitEnds
<1>3. row[i] # None /\ row'[i].place = row[i].place
  BY <1>1, <1>2, CleanWrites
<1>4. CASE EnterClaim(b)
  <2>1. /\ actor'[b].found = RowsAt(Vrf[Now(b)[1]]) /\ actor'[b].order = actor[b].order
        /\ Now(b)[1] = actor[b].order.server
    <3>1. actor[b] \in Local /\ actor \in [Actors -> Local] /\ Now(b)[1] = actor[b].order.server
      BY DEF IInv, ActorsOK, Now
    <3>2. actor' = [actor EXCEPT ![b] = [actor[b] EXCEPT !.pc = "commit", !.n = number + 1,
                               !.found = RowsAt(Vrf[Now(b)[1]]), !.old = LegacyRow(Now(b)[1])]]
      BY <1>4 DEF EnterClaim, Set
    <3> QED
      BY <3>1, <3>2 DEF Local
  <2> QED
    BY <1>3, <2>1 DEF RowsAt
<1>5. CASE actor[b].pc = "commit" /\ actor'[b].found = actor[b].found /\ actor'[b].order = actor[b].order
  <2>1. RowsAt(Vrf[actor[b].order.server]) \subseteq actor[b].found
    BY <1>1, <1>5 DEF FoundAll, Found
  <2> QED
    BY <1>3, <1>5, <2>1 DEF RowsAt
<1> QED
  BY <1>4, <1>5, CommitsFrom

LEMMA FoundAlways == Spec => []FoundAll
<1>1. Init => FoundAll
  <2>1. Idle.pc # "commit"
    BY DEF Idle
  <2> QED
    BY <2>1 DEF Init, FoundAll, Found
<1> QED
  BY <1>1, FoundNext, IInvAlways, BudgetAlways, PTL DEF Spec

\* Two workers never make two rows for one identity, also while one of them moves the legacy row of the global table into the
\* VRF of the Servers (_lock_identity): while no operator edits, a place gets a row only when it has none.
THEOREM OneObjectEach == Spec => OneObjectPerIdentity
<1> DEFINE Step(place) == (budget'.edits = MaxEdits /\ Cardinality(RowsAt(place)') > Cardinality(RowsAt(place))) =>
                             RowsAt(place) = {} /\ Cardinality(RowsAt(place)') = 1
<1>1. ASSUME IInv, BudgetOK, FoundAll, [Next]_vars, NEW place, budget'.edits = MaxEdits
      PROVE  \/ RowsAt(place)' \subseteq RowsAt(place)
             \/ RowsAt(place) = {} /\ \E i : RowsAt(place)' = {i}
  <2>1. WorldOK /\ row \in [Rows -> Row \union {None}]
    BY <1>1 DEF IInv, WorldOK
  <2>2. budget.edits = MaxEdits /\ (\/ row' = row
                                    \/ \E a \in Actors : CommitCreate(a) \/ CommitClaim(a)
                                       \/ \E c \in actor[a].todo : CleanOne(a, c))
    BY <1>1, RowSteps, EditSpends
  <2>3. CASE row' = row
    BY <2>3 DEF RowsAt
  <2>4. ASSUME NEW a \in Actors, NEW c \in actor[a].todo, CleanOne(a, c) PROVE RowsAt(place)' \subseteq RowsAt(place)
    BY <1>1, <2>4, CleanWrites, FewerRows
  <2>5. ASSUME NEW a \in Actors, actor[a].pc = "commit", actor[a].found = {} PROVE RowsAt(Vrf[actor[a].order.server]) = {}
    BY <1>1, <2>2, <2>5 DEF FoundAll, Found
  <2>6. ASSUME NEW a \in Actors, CommitCreate(a)
        PROVE  RowsAt(place)' \subseteq RowsAt(place) \/ (RowsAt(place) = {} /\ \E i : RowsAt(place)' = {i})
    <3>1. actor[a].pc = "commit" /\ actor[a].found = {} /\ Now(a)[1] = actor[a].order.server
      BY <2>6, TargetFacts DEF CommitCreate, Now
    <3>2. RowsAt(Vrf[actor[a].order.server]) = {}
      BY <2>5, <3>1
    <3> DEFINE j == born + 1  r == NewRow(Now(a), actor[a].report.facts)
    <3>3. row' = row \/ (j \in Rows /\ row' = [row EXCEPT ![j] = r])
      BY <2>6 DEF CommitCreate
    <3>4. r.place = Vrf[actor[a].order.server]
      BY <3>1 DEF NewRow
    <3> HIDE DEF r, j
    <3>5. CASE j \in Rows /\ row' = [row EXCEPT ![j] = r]
      <4>1. row'[j] = r /\ \A i \in Rows \ {j} : row'[i] = row[i]
        BY <2>1, <3>5
      <4>2. CASE place = Vrf[actor[a].order.server]
        <5>1. RowsAt(place)' \subseteq {j}
          BY <3>2, <4>1, <4>2 DEF RowsAt
        <5> QED
          BY <3>2, <4>2, <5>1
      <4>3. CASE place # Vrf[actor[a].order.server]
        BY <3>4, <4>1, <4>3 DEF RowsAt
      <4> QED
        BY <4>2, <4>3
    <3> QED
      BY <2>3, <3>3, <3>5
  <2>7. ASSUME NEW a \in Actors, CommitClaim(a)
        PROVE  RowsAt(place)' \subseteq RowsAt(place) \/ (RowsAt(place) = {} /\ \E i : RowsAt(place)' = {i})
    <3> DEFINE v == Vrf[actor[a].order.server]
    <3>1. PICK i \in Rows : /\ row[i] # None /\ row' = [row EXCEPT ![i] = row'[i]]
                            /\ row'[i].place = v
                            /\ row[i].place = v \/ actor[a].found = {}
      BY <1>1, <2>7, ClaimWrites
    <3>2. \A j \in Rows \ {i} : row'[j] = row[j]
      BY <2>1, <3>1
    <3>3. CASE row[i].place = v \/ place # v
      BY <3>1, <3>2, <3>3 DEF RowsAt
    <3>4. CASE actor[a].found = {} /\ place = v
      <4>1. RowsAt(place) = {}
        BY <2>5, <2>7, <3>4 DEF CommitClaim
      <4>2. RowsAt(place)' \subseteq {i}
        BY <3>2, <4>1 DEF RowsAt
      <4> QED
        BY <4>1, <4>2
    <3> QED
      BY <3>1, <3>3, <3>4
  <2> QED
    BY <2>2, <2>3, <2>4, <2>6, <2>7
<1>2. ASSUME IInv, BudgetOK, FoundAll, [Next]_vars, NEW place PROVE Step(place)
  <2> SUFFICES ASSUME budget'.edits = MaxEdits, Cardinality(RowsAt(place)') > Cardinality(RowsAt(place))
               PROVE  RowsAt(place) = {} /\ Cardinality(RowsAt(place)') = 1
    OBVIOUS
  <2> DEFINE old == RowsAt(place)  new == RowsAt(place)'
  <2>1. IsFiniteSet(old)
    <3>1. old \subseteq Rows
      BY DEF RowsAt
    <3> QED
      BY <3>1, OwnershipAssumption, FS_Subset
  <2>2. new \subseteq old \/ (old = {} /\ \E i : new = {i})
    BY <1>1, <1>2
  <2>3. Cardinality(new) > Cardinality(old)
    OBVIOUS
  <2> HIDE DEF old, new
  <2>4. ~(new \subseteq old)
    <3>1. new \subseteq old => Cardinality(new) <= Cardinality(old) /\ IsFiniteSet(new)
      BY <2>1, FS_Subset
    <3>2. IsFiniteSet(new) => Cardinality(new) \in Nat /\ Cardinality(old) \in Nat
      BY <2>1, FS_CardinalityType
    <3> QED
      BY <2>3, <3>1, <3>2
  <2>5. \A i : Cardinality({i}) = 1
    BY FS_Singleton
  <2> QED
    BY <2>2, <2>4, <2>5 DEF old, new
<1>3. IInv /\ BudgetOK /\ FoundAll /\ [Next]_vars =>
         [\A place \in {Vrf[s] : s \in Servers} :
            (budget'.edits = MaxEdits /\ Cardinality(RowsAt(place)') > Cardinality(RowsAt(place))) =>
               RowsAt(place) = {} /\ Cardinality(RowsAt(place)') = 1]_vars
  BY <1>2
<1> QED
  BY <1>3, IInvAlways, BudgetAlways, FoundAlways, PTL DEF Spec, OneObjectPerIdentity

------------------------------------------------------------------------------
(* A run retires no object that a source has reported since the run began. *)

At(rw, place) == {i \in Rows : rw[i] # None /\ rw[i].place = place}

\* A source that the run of a worker has found reported since it began.
Holding(l, o) == l.pc # "idle" /\ o[1] = l.order.server /\ o[2] \in l.held

\* The worker read all of o, and has its claim behind it: its cleanup takes the links that are older than its cutoff.
Past(l, o) == l.pc # "idle" /\ o[1] = l.order.server /\ o[2] \in l.whole /\ ~Pending(l, o[2])

\* No cleanup of o takes a link with number n.
Newer(o, n, ws) == \A b \in Actors : Past(ws[b], o) => ws[b].cutoff[o[2]] <= n

\* Row i is the only one in the VRF, and it is linked to o.
Shows(o, i, rw, lk) ==
    /\ At(rw, Vrf[o[1]]) = {i} /\ rw[i].marked
    /\ lk[i][o] # None /\ (lk[i][o].mark # None => lk[i][o].mark < lk[i][o].n)

\* What a claim of o has confirmed, and claims under the locks have found.
Confirmed(o, i, rw, lk, ws) ==
    /\ Shows(o, i, rw, lk) /\ Newer(o, lk[i][o].n, ws)
    /\ \A b \in Actors : ws[b].pc = "commit" /\ Vrf[ws[b].order.server] = Vrf[o[1]] => ws[b].found = {i}

\* The claim of o that a worker is about to write will confirm it.
Confirming(l, o, rw, lk, ws) ==
    /\ l.found = At(rw, Vrf[o[1]]) /\ Newer(o, l.n, ws)
    /\ \A i \in l.found : lk[i][o] # None /\ lk[i][o].mark # None => lk[i][o].mark < l.n

HeldOK(l, o, k, rw, lk, ws) ==
    /\ k[o].kind \notin Gone
    /\ l.pc = "commit" /\ Here(l) = o => Confirming(l, o, rw, lk, ws)
    /\ Past(l, o) => \E i \in Rows : Confirmed(o, i, rw, lk, ws)

HInv == \A a \in Actors, o \in Owners : Holding(actor[a], o) => HeldOK(actor[a], o, kea, row, link, actor)

\* A step that neither brings a worker to the locks nor takes it past a source that is reported.
Calm(l, l2, k) ==
    l2.pc # "idle" =>
        \/ l.pc = "idle" /\ l2.pc # "commit" /\ l2.whole = {}
        \/ /\ l.pc # "idle" /\ l2.order = l.order /\ l2.held \subseteq l.held
           /\ l2.pc = "commit" => l.pc = "commit" /\ l2.phase = l.phase /\ l2.n = l.n /\ l2.found = l.found
           /\ \A o \in Owners : Past(l2, o) =>
                 k[o].kind \in Gone \/ (Past(l, o) /\ l2.cutoff[o[2]] = l.cutoff[o[2]])
AllCalm == \A b \in Actors : Calm(actor[b], actor'[b], kea')
StillReported == \A b \in Actors, o \in Owners : Holding(actor'[b], o) => kea'[o].kind \notin Gone

LEMMA NewerStays ==
    ASSUME AllCalm, NEW o \in Owners, kea'[o].kind \notin Gone, NEW n, Newer(o, n, actor)
    PROVE  Newer(o, n, actor')
<1> SUFFICES ASSUME NEW b \in Actors, Past(actor'[b], o) PROVE actor'[b].cutoff[o[2]] <= n
  BY DEF Newer
<1>1. Calm(actor[b], actor'[b], kea') /\ actor'[b].pc # "idle" /\ actor'[b].whole # {}
  BY DEF AllCalm, Past
<1>2. Past(actor[b], o) /\ actor'[b].cutoff[o[2]] = actor[b].cutoff[o[2]]
  BY <1>1 DEF Calm
<1> QED
  BY <1>2 DEF Newer

\* What such a step leaves when it leaves the confirmed rows, and the rows that claims under the locks have found.
LEMMA HeldStays ==
    ASSUME HInv, AllCalm, StillReported,
           \A o \in Owners, i \in Rows : Confirmed(o, i, row, link, actor) =>
              Shows(o, i, row', link') /\ link'[i][o].n = link[i][o].n,
           \A b \in Actors, o \in Owners : actor[b].pc = "commit" /\ Confirming(actor[b], o, row, link, actor) /\ Here(actor[b]) = o =>
              /\ At(row', Vrf[o[1]]) = At(row, Vrf[o[1]])
              /\ \A i \in actor[b].found : link'[i][o] # None /\ link'[i][o].mark # None =>
                    link[i][o] # None /\ link[i][o].mark = link'[i][o].mark
    PROVE  HInv'
<1> SUFFICES ASSUME NEW a \in Actors, NEW o \in Owners, Holding(actor'[a], o)
             PROVE  HeldOK(actor'[a], o, kea', row', link', actor')
  BY DEF HInv
<1> DEFINE l == actor[a]  l2 == actor'[a]
<1>1. kea'[o].kind \notin Gone /\ Calm(l, l2, kea') /\ l2.pc # "idle"
  BY DEF StillReported, AllCalm, Holding
<1>2. CASE l.pc = "idle" /\ l2.pc # "commit" /\ l2.whole = {}
  BY <1>1, <1>2 DEF HeldOK, Past
<1>3. CASE /\ l.pc # "idle" /\ l2.order = l.order /\ l2.held \subseteq l.held
           /\ l2.pc = "commit" => l.pc = "commit" /\ l2.phase = l.phase /\ l2.n = l.n /\ l2.found = l.found
           /\ Past(l2, o) => Past(l, o)
  <2>1. HeldOK(l, o, kea, row, link, actor)
    BY <1>3 DEF HInv, Holding
  <2>2. ASSUME l2.pc = "commit", Here(l2) = o PROVE Confirming(l2, o, row', link', actor')
    <3>1. l.pc = "commit" /\ Here(l) = o /\ l2.n = l.n /\ l2.found = l.found
      BY <1>3, <2>2 DEF Here
    <3>2. Confirming(l, o, row, link, actor)
      BY <2>1, <3>1 DEF HeldOK
    <3>3. Newer(o, l.n, actor')
      BY <1>1, <3>2, NewerStays DEF Confirming
    <3>4. /\ At(row', Vrf[o[1]]) = At(row, Vrf[o[1]])
          /\ \A i \in l.found : link'[i][o] # None /\ link'[i][o].mark # None =>
                link[i][o] # None /\ link[i][o].mark = link'[i][o].mark
      BY <3>1, <3>2
    <3> HIDE DEF l, l2
    <3> QED
      BY <3>1, <3>2, <3>3, <3>4 DEF Confirming
  <2>3. ASSUME Past(l2, o) PROVE \E i \in Rows : Confirmed(o, i, row', link', actor')
    <3>1. PICK i \in Rows : Confirmed(o, i, row, link, actor)
      BY <1>3, <2>1, <2>3 DEF HeldOK
    <3>2. Shows(o, i, row', link') /\ link'[i][o].n = link[i][o].n
      BY <3>1
    <3>3. Newer(o, link'[i][o].n, actor')
      BY <1>1, <3>1, <3>2, NewerStays DEF Confirmed
    <3>4. ASSUME NEW b \in Actors, actor'[b].pc = "commit", Vrf[actor'[b].order.server] = Vrf[o[1]] PROVE actor'[b].found = {i}
      <4>1. actor[b].pc = "commit" /\ actor'[b].order = actor[b].order /\ actor'[b].found = actor[b].found
        BY <3>4 DEF AllCalm, Calm
      <4> QED
        BY <3>1, <3>4, <4>1 DEF Confirmed
    <3> QED
      BY <3>2, <3>3, <3>4 DEF Confirmed
  <2> QED
    BY <1>1, <2>2, <2>3 DEF HeldOK
<1> QED
  BY <1>1, <1>2, <1>3 DEF Calm

\* The rows stay, and the links up to what they say of the classification.
LEMMA HeldQuiet ==
    ASSUME HInv, AllCalm, StillReported, row' = row,
           \A i \in Rows, q \in Owners : /\ link'[i][q] # None <=> link[i][q] # None
                                         /\ link[i][q] # None => link'[i][q].n = link[i][q].n /\ link'[i][q].mark = link[i][q].mark
    PROVE  HInv'
<1>1. ASSUME NEW o \in Owners, NEW i \in Rows, Confirmed(o, i, row, link, actor)
      PROVE  Shows(o, i, row', link') /\ link'[i][o].n = link[i][o].n
  BY <1>1 DEF Confirmed, Shows
<1>2. ASSUME NEW b \in Actors, NEW o \in Owners, Confirming(actor[b], o, row, link, actor)
      PROVE  /\ At(row', Vrf[o[1]]) = At(row, Vrf[o[1]])
             /\ \A i \in actor[b].found : link'[i][o] # None /\ link'[i][o].mark # None =>
                   link[i][o] # None /\ link[i][o].mark = link'[i][o].mark
  <2>1. actor[b].found \subseteq Rows
    BY <1>2 DEF Confirming, At
  <2> QED
    BY <2>1
<1> QED
  BY <1>1, <1>2, HeldStays

\* What a worker holds and what its cleanup takes do not depend on the rest of its local state.
Alike(l, l2) ==
    /\ l2.pc = l.pc /\ l2.order = l.order /\ l2.phase = l.phase /\ l2.cutoff = l.cutoff /\ l2.whole = l.whole
    /\ l2.n = l.n /\ l2.found = l.found /\ l2.held = l.held

LEMMA AlikeCalm == ASSUME NEW l, NEW new, NEW l2, NEW k, Calm(l, new, k), Alike(new, l2) PROVE Calm(l, l2, k)
<1>1. \A o : Past(l2, o) => Past(new, o)
  BY DEF Alike, Past, Pending
<1> QED
  BY <1>1 DEF Calm, Alike

\* A step of one worker, with or without a fault, that is calm for it.
LEMMA HeldSet ==
    ASSUME IInv, HInv, NEW a \in Actors, NEW new \in Local, Calm(actor[a], new, kea), kea' = kea,
           actor' = [actor EXCEPT ![a] = new] \/ actor' = Restless([actor EXCEPT ![a] = new]),
           actor[a].pc = "idle" => \A s \in new.held : kea[<<new.order.server, s>>].kind \notin Gone
    PROVE  AllCalm /\ StillReported
<1> DEFINE local == [actor EXCEPT ![a] = new]
<1>1. actor \in [Actors -> Local] /\ local \in [Actors -> Local] /\ local[a] = new /\ \A b \in Actors \ {a} : local[b] = actor[b]
  BY DEF IInv, ActorsOK
<1> HIDE DEF local
<1>2. ASSUME NEW b \in Actors PROVE Alike(local[b], actor'[b])
  <2>1. local[b] \in Local
    BY <1>1
  <2>2. actor'[b] \in {local[b], [local[b] EXCEPT !.quiet = FALSE]}
    BY <1>1 DEF Restless, local
  <2> QED
    BY <2>1, <2>2 DEF Alike, Local
<1>3. ASSUME NEW b \in Actors PROVE Calm(actor[b], local[b], kea)
  BY <1>1 DEF Calm
<1>4. AllCalm
  BY <1>2, <1>3, AlikeCalm DEF AllCalm
<1>5. ASSUME NEW b \in Actors, NEW o \in Owners, Holding(actor'[b], o) PROVE kea'[o].kind \notin Gone
  <2>1. Holding(local[b], o)
    BY <1>2, <1>5 DEF Alike, Holding
  <2>2. Holding(actor[b], o) => kea[o].kind \notin Gone
    BY DEF HInv, HeldOK
  <2>3. o = <<o[1], o[2]>>
    BY OwnerKinds
  <2>4. Holding(actor[b], o) \/ (b = a /\ actor[a].pc = "idle")
    BY <1>1, <1>3, <2>1 DEF Holding, Calm
  <2> QED
    BY <1>1, <2>1, <2>2, <2>3, <2>4 DEF Holding
<1> QED
  BY <1>4, <1>5 DEF StillReported

\* A worker that stays in its run takes no source as read whole, but for those that are gone.
LEMMA CalmMove ==
    ASSUME NEW l, NEW new, NEW k, l.pc # "idle", new.pc # "commit",
           new.pc # "idle" =>
              /\ new.order = l.order /\ new.held \subseteq l.held
              /\ \A s \in new.whole : \/ Pending(new, s) \/ k[<<l.order.server, s>>].kind \in Gone
                                      \/ s \in l.whole /\ ~Pending(l, s) /\ new.cutoff[s] = l.cutoff[s]
    PROVE  Calm(l, new, k)
<1> SUFFICES ASSUME new.pc # "idle", NEW o \in Owners, Past(new, o)
             PROVE  k[o].kind \in Gone \/ (Past(l, o) /\ new.cutoff[o[2]] = l.cutoff[o[2]])
  BY DEF Calm
<1>1. o = <<l.order.server, o[2]>> /\ o[2] \in new.whole /\ ~Pending(new, o[2])
  BY OwnerKinds DEF Past
<1> QED
  BY <1>1 DEF Past

\* A worker that ends a phase keeps its run.
LEMMA OnwardFacts ==
    ASSUME NEW me \in Local, me.order \in Orders
    PROVE  /\ Onward(me) \in Local /\ Onward(me).pc \in {"cutoff", "choose", "idle"}
           /\ Onward(me).pc # "idle" => /\ Onward(me).order = me.order /\ Onward(me).held = me.held
                                        /\ Onward(me).whole = me.whole /\ Onward(me).cutoff = me.cutoff
           /\ me.order.kind = "force" => Onward(me).pc = "idle"
<1>1. Onward(me) \in Local
  BY OnwardLeaves
<1>2. CASE me.phase < Len(Plan(me.order))
  <2>1. Onward(me) = [me EXCEPT !.phase = me.phase + 1, !.pc = "cutoff", !.report = Absent, !.found = {}, !.old = {}]
    BY <1>2 DEF Onward
  <2>2. me.order.kind # "force"
    <3>1. me.order.kind = "force" => Plan(me.order) = <<me.order.source>>
      BY DEF Plan
    <3>2. me.order.kind = "force" => Len(Plan(me.order)) = 1
      BY <3>1
    <3>3. me.phase \in 1..2 /\ \A i \in 1..2 : ~(i < 1)
      BY DEF Local
    <3> HIDE DEF Plan
    <3> QED
      BY <1>2, <3>2, <3>3
  <2> QED
    BY <1>1, <2>1, <2>2 DEF Local
<1>3. CASE ~(me.phase < Len(Plan(me.order))) /\ Cleans(me.order)
  <2>1. Onward(me) = [me EXCEPT !.phase = 1, !.pc = "choose", !.report = Absent, !.found = {}, !.old = {}]
    BY <1>3 DEF Onward
  <2> QED
    BY <1>1, <1>3, <2>1 DEF Local, Cleans
<1>4. CASE ~(me.phase < Len(Plan(me.order))) /\ ~Cleans(me.order)
  BY <1>1, <1>4 DEF Onward, Idle
<1> QED
  BY <1>2, <1>3, <1>4

\* A worker that ends a phase forgets no source that it read before it.
LEMMA CalmOnward ==
    ASSUME NEW l \in Local, l.pc # "idle", NEW me \in Local, me.order = l.order, me.order \in Orders,
           me.held \subseteq l.held, me.cutoff = l.cutoff, NEW k,
           \A s \in me.whole : k[<<l.order.server, s>>].kind \in Gone \/ (s \in l.whole /\ ~Pending(l, s))
    PROVE  Calm(l, Onward(me), k)
<1> DEFINE new == Onward(me)
<1>1. new.pc \in {"cutoff", "choose", "idle"}
      /\ (new.pc # "idle" => new.order = me.order /\ new.held = me.held /\ new.whole = me.whole /\ new.cutoff = me.cutoff)
  BY OnwardFacts
<1> HIDE DEF new
<1>2. Calm(l, new, k)
  BY <1>1, CalmMove
<1> QED
  BY <1>2 DEF new

\* One calm worker, and the rows and links stay.
LEMMA HeldWork ==
    ASSUME IInv, HInv, NEW a \in Actors, NEW new \in Local, Calm(actor[a], new, kea), actor[a].pc # "idle",
           UNCHANGED <<kea, row, link>>,
           actor' = [actor EXCEPT ![a] = new] \/ actor' = Restless([actor EXCEPT ![a] = new])
    PROVE  HInv'
<1>1. AllCalm /\ StillReported
  BY HeldSet
<1> QED
  BY <1>1, HeldQuiet

LEMMA CutoffHolds == ASSUME IInv, HInv, NEW a \in Actors, TakeCutoff(a) PROVE HInv'
<1> DEFINE me == actor[a]  s0 == Now(a)[2]
<1>1. /\ me \in Local /\ Works(me) /\ me.pc = "cutoff" /\ s0 = Plan(me.order)[me.phase] /\ s0 \in Sources
      /\ me.phase \in 1..Len(Plan(me.order)) /\ me.order \in Orders /\ number + 1 \in Nat
      /\ UNCHANGED <<kea, row, link>>
  BY OfActor DEF TakeCutoff, WorldOK
<1>2. \E new \in Local :
         /\ actor' = [actor EXCEPT ![a] = new]
         /\ new.pc = "read" /\ new.order = me.order /\ new.held = me.held /\ new.whole = me.whole
         /\ \A s \in Sources \ {s0} : new.cutoff[s] = me.cutoff[s]
  <2> DEFINE taken == [me EXCEPT !.pc = "read", !.cutoff[s0] = number + 1]  same == [me EXCEPT !.pc = "read"]
  <2>1. actor' = [actor EXCEPT ![a] = taken] \/ actor' = [actor EXCEPT ![a] = same]
    BY DEF TakeCutoff, Set
  <2>2. /\ taken \in Local /\ taken.pc = "read" /\ taken.order = me.order /\ taken.held = me.held
        /\ taken.whole = me.whole /\ \A s \in Sources \ {s0} : taken.cutoff[s] = me.cutoff[s]
    BY <1>1 DEF Local
  <2>3. same \in Local /\ same.pc = "read" /\ same.order = me.order /\ same.held = me.held
        /\ same.whole = me.whole /\ same.cutoff = me.cutoff
    BY <1>1 DEF Local
  <2> HIDE DEF taken, same, me, s0
  <2> QED
    BY <2>1, <2>2, <2>3
<1>3. ASSUME NEW s \in me.whole PROVE s \in Sources \ {s0}
  <2>1. \E j \in 1..Len(Plan(me.order)) : Plan(me.order)[j] = s /\ j < me.phase
    BY <1>1 DEF Works
  <2> QED
    BY <1>1, <2>1, PlanFacts
<1>4. \A s : ~Pending(me, s)
  BY <1>1 DEF Pending
<1> QED
  BY <1>1, <1>2, <1>3, <1>4, CalmMove, HeldWork

LEMMA ReadHolds == ASSUME IInv, HInv, NEW a \in Actors, ReadSnapshot(a) \/ ReadInPart(a) PROVE HInv'
<1> DEFINE me == actor[a]  s0 == Now(a)[2]
<1>1. /\ me \in Local /\ me.pc = "read" /\ s0 = Plan(me.order)[me.phase] /\ s0 \in Sources /\ me.order \in Orders
      /\ Now(a) = <<me.order.server, s0>> /\ kea[Now(a)] \in Reports /\ Absent \in Reports
      /\ UNCHANGED <<kea, row, link>>
  BY OfActor, ReportFacts DEF ReadSnapshot, ReadInPart, WorldOK
<1>2. \A s : ~Pending(me, s)
  BY <1>1 DEF Pending
<1>3. CASE ReadSnapshot(a)
  <2> DEFINE report == kea[Now(a)]
             read == [me EXCEPT !.whole = @ \union {Now(a)[2]}, !.report = report, !.fresh = TRUE, !.pc = "claim"]
             sorted == [read EXCEPT !.pc = "classify"]
  <2>1. \/ actor' = [actor EXCEPT ![a] = Onward(read)] /\ report.kind \in Gone
        \/ actor' = [actor EXCEPT ![a] = sorted] /\ report.kind \in Gone
        \/ actor' = [actor EXCEPT ![a] = read]
    BY <1>3 DEF ReadSnapshot, Set, Gone
  <2>2. /\ read \in Local /\ read.pc = "claim" /\ read.order = me.order /\ read.phase = me.phase /\ read.held = me.held
        /\ read.cutoff = me.cutoff /\ read.whole = me.whole \union {s0}
    BY <1>1 DEF Local
  <2>3. /\ sorted \in Local /\ sorted.pc = "classify" /\ sorted.order = me.order /\ sorted.held = me.held
        /\ sorted.cutoff = me.cutoff /\ sorted.whole = me.whole \union {s0}
    BY <2>2 DEF Local
  <2> HIDE DEF read, sorted, me, s0, report
  <2>4. Pending(read, s0)
    BY <1>1, <2>2 DEF Pending, me
  <2>5. CASE actor' = [actor EXCEPT ![a] = read]
    <3>1. Calm(me, read, kea)
      BY <1>1, <1>2, <2>2, <2>4, CalmMove
    <3> QED
      BY <1>1, <2>2, <2>5, <3>1, HeldWork DEF me
  <2>6. CASE actor' = [actor EXCEPT ![a] = sorted] /\ report.kind \in Gone
    <3>1. Calm(me, sorted, kea)
      BY <1>1, <1>2, <2>3, <2>6, CalmMove DEF report
    <3> QED
      BY <1>1, <2>3, <2>6, <3>1, HeldWork DEF me
  <2>7. CASE actor' = [actor EXCEPT ![a] = Onward(read)] /\ report.kind \in Gone
    <3>1. Calm(me, Onward(read), kea) /\ Onward(read) \in Local
      BY <1>1, <1>2, <2>2, <2>7, CalmOnward, OnwardFacts DEF report
    <3> QED
      BY <1>1, <2>7, <3>1, HeldWork DEF me
  <2> QED
    BY <2>1, <2>5, <2>6, <2>7
<1>4. CASE ReadInPart(a)
  <2>1. PICK report \in {Absent, kea[Now(a)]} :
           LET part == [me EXCEPT !.report = report, !.fresh = TRUE, !.pc = "claim"]
           IN  \E new \in {part, Onward(part)} : actor' = Restless([actor EXCEPT ![a] = new])
    BY <1>4 DEF ReadInPart
  <2> DEFINE part == [me EXCEPT !.report = report, !.fresh = TRUE, !.pc = "claim"]
  <2>2. /\ part \in Local /\ part.pc = "claim" /\ part.order = me.order /\ part.held = me.held
        /\ part.cutoff = me.cutoff /\ part.whole = me.whole
    BY <1>1 DEF Local
  <2>3. \E new \in {part, Onward(part)} : actor' = Restless([actor EXCEPT ![a] = new])
    BY <2>1
  <2> HIDE DEF part, me
  <2>4. Calm(me, part, kea)
    BY <1>1, <1>2, <2>2, CalmMove
  <2>5. Calm(me, Onward(part), kea) /\ Onward(part) \in Local
    BY <1>1, <1>2, <2>2, CalmOnward, OnwardFacts
  <2> QED
    BY <1>1, <2>2, <2>3, <2>4, <2>5, HeldWork DEF me
<1> QED
  BY <1>3, <1>4

LEMMA FailHolds == ASSUME IInv, HInv, NEW a \in Actors, RefuseRow(a) \/ RowFails(a) PROVE HInv'
<1> DEFINE me == actor[a]  s0 == Now(a)[2]  failed == FailPhase(me)
<1>1. /\ me \in Local /\ me.pc = "commit" /\ s0 = Plan(me.order)[me.phase] /\ s0 \in Sources /\ me.order \in Orders
      /\ UNCHANGED <<kea, row, link>>
      /\ actor' = [actor EXCEPT ![a] = Onward(failed)] \/ actor' = Restless([actor EXCEPT ![a] = Onward(failed)])
  BY OfActor DEF RefuseRow, RowFails, Set
<1>2. /\ failed \in Local /\ failed.order = me.order /\ failed.held = me.held /\ failed.cutoff = me.cutoff
      /\ failed.whole = me.whole \ {s0}
  BY <1>1 DEF Local, FailPhase
<1> HIDE DEF failed
<1>3. \A s \in failed.whole : s \in me.whole /\ ~Pending(me, s)
  BY <1>1, <1>2 DEF Pending
<1> HIDE DEF me
<1>4. Calm(me, Onward(failed), kea) /\ Onward(failed) \in Local
  BY <1>1, <1>2, <1>3, CalmOnward, OnwardFacts
<1> QED
  BY <1>1, <1>4, HeldWork DEF me

LEMMA ClassifyHolds == ASSUME IInv, HInv, NEW a \in Actors, Classify(a) PROVE HInv'
<1> DEFINE me == actor[a]
<1>1. me \in Local /\ me.pc = "classify" /\ me.order \in Orders /\ kea' = kea /\ row' = row
      /\ actor' = [actor EXCEPT ![a] = Onward(me)] /\ Now(a) \in Owners /\ WorldOK
  BY OfActor DEF Classify, Set
<1>2. \A s : ~Pending(me, s)
  BY <1>1 DEF Pending
<1>3. Calm(me, Onward(me), kea) /\ Onward(me) \in Local
  BY <1>1, <1>2, CalmOnward, OnwardFacts
<1>4. AllCalm /\ StillReported
  BY <1>1, <1>3, HeldSet
<1>5. ASSUME NEW i \in Rows, NEW q \in Owners
      PROVE  /\ link'[i][q] # None <=> link[i][q] # None
             /\ link[i][q] # None => link'[i][q].n = link[i][q].n /\ link'[i][q].mark = link[i][q].mark
  <2> DEFINE known == [link[i] EXCEPT ![Now(a)].known = TRUE]
  <2>1. link'[i] = link[i] \/ (link[i][Now(a)] # None /\ link'[i] = known)
    BY DEF Classify
  <2>2. CASE link[i][Now(a)] # None /\ link'[i] = known
    <3>1. link[i] \in Links /\ link[i][Now(a)] \in Link
      BY <1>1, <2>2 DEF WorldOK, Links
    <3>2. known[q] = link[i][q] \/ known[q] = [link[i][q] EXCEPT !.known = TRUE]
      BY <3>1 DEF Links
    <3>3. q = Now(a) => [link[i][q] EXCEPT !.known = TRUE] \in Link
      BY <3>1 DEF Link
    <3>4. q # Now(a) => known[q] = link[i][q]
      BY <3>1 DEF Links
    <3> QED
      BY <2>2, <3>1, <3>2, <3>3, <3>4, NoneApart DEF Link
  <2> QED
    BY <2>1, <2>2
<1> QED
  BY <1>1, <1>4, <1>5, HeldQuiet

LEMMA CleanupHolds ==
    ASSUME IInv, HInv, NEW a \in Actors, ChooseStale(a) \/ EndCleanup(a) \/ \E c \in actor[a].todo : CleanFails(a, c)
    PROVE  HInv'
<1> DEFINE me == actor[a]
<1>1. /\ me \in Local /\ me.pc \in {"choose", "clean"} /\ me.order \in Orders /\ UNCHANGED <<kea, row, link>>
  BY OfActor DEF ChooseStale, EndCleanup, CleanFails
<1>2. \A s : ~Pending(me, s)
  BY <1>1 DEF Pending
<1>3. ASSUME NEW new, new.pc # "commit",
             new.pc # "idle" => new.order = me.order /\ new.held = me.held /\ new.whole = me.whole /\ new.cutoff = me.cutoff
      PROVE  Calm(me, new, kea)
  BY <1>1, <1>2, <1>3, CalmMove
<1>4. ASSUME NextCleanup(a, me) PROVE HInv'
  <2> DEFINE next == [me EXCEPT !.phase = me.phase + 1, !.pc = "choose", !.todo = {}]
  <2>1. \E new \in Local : new.pc # "commit" /\ actor' = [actor EXCEPT ![a] = new]
    BY <1>1, <1>4, NextCleanupLeaves
  <2>2. actor' = [actor EXCEPT ![a] = next] \/ actor' = [actor EXCEPT ![a] = Idle]
    BY <1>4 DEF NextCleanup, Done, Set
  <2>3. /\ next.pc = "choose" /\ next.order = me.order /\ next.held = me.held /\ next.whole = me.whole
        /\ next.cutoff = me.cutoff
    BY <1>1 DEF Local
  <2>4. Idle.pc = "idle"
    BY DEF Idle
  <2>5. actor'[a] \in Local /\ actor' = [actor EXCEPT ![a] = actor'[a]] /\ actor'[a] \in {next, Idle}
    BY <2>1, <2>2 DEF IInv, ActorsOK
  <2> HIDE DEF next, me
  <2>6. Calm(me, actor'[a], kea)
    BY <1>3, <2>3, <2>4, <2>5
  <2> QED
    BY <1>1, <2>5, <2>6, HeldWork DEF me
<1>5. CASE ChooseStale(a) /\ ~NextCleanup(a, me)
  <2> DEFINE chosen == [me EXCEPT !.pc = "clean", !.todo = Candidates(a), !.refs = refers]
  <2>1. actor' = [actor EXCEPT ![a] = chosen]
    BY <1>5 DEF ChooseStale, Set
  <2>2. /\ chosen.pc # "commit" /\ chosen.order = me.order /\ chosen.held = me.held /\ chosen.whole = me.whole
        /\ chosen.cutoff = me.cutoff
    BY <1>1 DEF Local
  <2>3. \E new \in Local : actor' = [actor EXCEPT ![a] = new] \/ actor' = Restless([actor EXCEPT ![a] = new])
    <3>1. Work(a) /\ ~EnterClaim(a)
      BY <1>1, <1>5 DEF Work, EnterClaim
    <3> QED
      BY <3>1, WorkMoves
  <2>4. actor'[a] \in Local
    BY <2>3, SetMoves DEF IInv, Moved
  <2> HIDE DEF chosen, me
  <2>5. chosen \in Local
    BY <2>1, <2>4 DEF IInv, ActorsOK
  <2>6. Calm(me, chosen, kea)
    BY <1>3, <2>2
  <2> QED
    BY <1>1, <2>1, <2>5, <2>6, HeldWork DEF me
<1>6. ASSUME NEW c \in actor[a].todo, CleanFails(a, c) PROVE HInv'
  <2> DEFINE new == [me EXCEPT !.todo = me.todo \ {c}]
  <2>1. me.pc = "clean" /\ actor' = Restless([actor EXCEPT ![a] = new])
    BY <1>6 DEF CleanFails
  <2>2. Typed(new)
    BY <2>1, CandidateDone
  <2>3. new.pc # "commit" /\ new.order = me.order /\ new.held = me.held /\ new.whole = me.whole /\ new.cutoff = me.cutoff
    BY <1>1, <2>1 DEF Local
  <2> HIDE DEF new, me
  <2>4. Calm(me, new, kea) /\ new \in Local
    BY <1>3, <2>2, <2>3 DEF Typed
  <2> QED
    BY <1>1, <2>1, <2>4, HeldWork DEF me
<1> QED
  BY <1>4, <1>5, <1>6 DEF EndCleanup

\* A run begins.
LEMMA StartHolds == ASSUME IInv, HInv, NEW a \in Actors, NEW order \in Orders, Start(a, order) PROVE HInv'
<1> DEFINE held == {s \in Sources : kea[<<order.server, s>>].kind \notin {"absent", "inactive"}}
           quiet == \A b \in Actors : actor[b].pc = "idle" \/ actor[b].quiet
           new == [Idle EXCEPT !.pc = "cutoff", !.order = order, !.held = held, !.quiet = quiet, !.base = rounds[order.server]]
<1>1. actor' = [actor EXCEPT ![a] = new] /\ actor[a].pc = "idle" /\ UNCHANGED <<kea, row, link>>
  BY DEF Start, Set
<1>2. rounds[order.server] \in 0..2 /\ held \in SUBSET Sources /\ quiet \in BOOLEAN
  BY PlanFacts DEF IInv, WorldOK
<1> HIDE DEF held, quiet
<1>3. new \in Local /\ new.pc = "cutoff" /\ new.order = order /\ new.held = held /\ new.whole = {}
  BY <1>2, IdleGood DEF Typed, Local, Idle
<1>4. \A s \in new.held : kea[<<new.order.server, s>>].kind \notin Gone
  BY <1>3 DEF held, Gone
<1> HIDE DEF new
<1>5. Calm(actor[a], new, kea)
  BY <1>1, <1>3 DEF Calm
<1>6. AllCalm /\ StillReported
  BY <1>1, <1>3, <1>4, <1>5, HeldSet
<1> QED
  BY <1>1, <1>6, HeldQuiet

\* A worker comes to the locks: what it finds there is all there is.
LEMMA EnterHolds == ASSUME IInv, HInv, NEW a \in Actors, EnterClaim(a) PROVE HInv'
<1> DEFINE me == actor[a]  found == RowsAt(Vrf[Now(a)[1]])  old == LegacyRow(Now(a)[1])
           new == [me EXCEPT !.pc = "commit", !.n = number + 1, !.found = found, !.old = old]
<1>1. /\ WorldOK /\ me \in Local /\ me.pc = "claim" /\ Now(a) = Here(me) /\ Now(a)[1] = me.order.server
      /\ actor' = [actor EXCEPT ![a] = new] /\ actor \in [Actors -> Local] /\ UNCHANGED <<kea, row, link>>
      /\ number \in Nat
  BY OfActor DEF EnterClaim, Set, WorldOK, ActorsOK
<1>2. /\ new.pc = "commit" /\ new.order = me.order /\ new.phase = me.phase /\ new.cutoff = me.cutoff
      /\ new.whole = me.whole /\ new.held = me.held /\ new.n = number + 1 /\ new.found = found
  BY <1>1 DEF Local
<1>3. actor'[a] = new /\ \A b \in Actors \ {a} : actor'[b] = actor[b] /\ actor[b].pc # "commit"
  BY <1>1, NobodyElse DEF EnterClaim
<1> HIDE DEF new, found, old, me
<1>4. \A b \in Actors, o \in Owners : /\ Holding(actor'[b], o) <=> Holding(actor[b], o)
                                      /\ Past(actor'[b], o) <=> Past(actor[b], o)
                                      /\ actor'[b].cutoff = actor[b].cutoff
  BY <1>1, <1>2, <1>3 DEF Holding, Past, Pending, me
<1>5. \A o \in Owners : \A n : Newer(o, n, actor) <=> Newer(o, n, actor')
  BY <1>4 DEF Newer
<1>6. \A b \in Actors, s \in Sources : actor[b].cutoff[s] <= number /\ actor[b].cutoff[s] \in Nat
  BY DEF IInv, ActorsOK, InWorld, Local
<1>7. \A o \in Owners : Newer(o, number + 1, actor')
  <2>1. \A b \in Actors, s \in Sources : actor[b].cutoff[s] <= number + 1
    BY <1>1, <1>6
  <2> QED
    BY <1>4, <2>1, OwnerKinds DEF Newer
<1>8. \A i \in Rows, o \in Owners : link[i][o] # None /\ link[i][o].mark # None => link[i][o].mark < number + 1
  <2>1. \A i \in Rows, o \in Owners : link[i][o] # None /\ link[i][o].mark # None =>
           link[i][o].mark <= number /\ link[i][o].mark \in Nat
    BY <1>1, LinkFacts DEF WorldOK, Numbered, Links
  <2> QED
    BY <1>1, <2>1
<1>9. found = At(row, Vrf[me.order.server]) /\ found \subseteq Rows
  BY <1>1 DEF found, RowsAt, At
<1> SUFFICES ASSUME NEW b \in Actors, NEW o \in Owners, Holding(actor'[b], o)
             PROVE  HeldOK(actor'[b], o, kea, row, link, actor')
  BY <1>1 DEF HInv
<1>10. HeldOK(actor[b], o, kea, row, link, actor)
  BY <1>4 DEF HInv
<1>11. ASSUME actor'[b].pc = "commit", Here(actor'[b]) = o PROVE Confirming(actor'[b], o, row, link, actor')
  <2>1. actor'[b] = new /\ o[1] = me.order.server
    BY <1>2, <1>3, <1>11 DEF Here
  <2> QED
    BY <1>2, <1>7, <1>8, <1>9, <2>1 DEF Confirming
<1>12. ASSUME Past(actor'[b], o) PROVE \E i \in Rows : Confirmed(o, i, row, link, actor')
  <2>1. PICK i \in Rows : Confirmed(o, i, row, link, actor)
    BY <1>4, <1>10, <1>12 DEF HeldOK
  <2>2. ASSUME NEW c \in Actors, actor'[c].pc = "commit", Vrf[actor'[c].order.server] = Vrf[o[1]] PROVE actor'[c].found = {i}
    <3>1. actor'[c] = new /\ found = At(row, Vrf[o[1]])
      BY <1>2, <1>3, <1>9, <2>2
    <3> QED
      BY <1>2, <2>1, <3>1 DEF Confirmed, Shows
  <2> QED
    BY <1>5, <2>1, <2>2 DEF Confirmed
<1> QED
  BY <1>10, <1>11, <1>12 DEF HeldOK

------------------------------------------------------------------------------
(* The steps that write rows or links.                                     *)

\* A write of row j leaves row i alone in its place.
Spares(rw, rw2, j, p, i) ==
    /\ At(rw, p) = {i} /\ \A x \in Rows \ {j} : rw2[x] = rw[x]
    /\ j # i => rw2[j] = None \/ rw2[j].place # p
    /\ j = i => rw2[i] # None /\ rw2[i].place = p

LEMMA AtStays == ASSUME NEW rw, NEW rw2, NEW j, NEW p, NEW i \in Rows, Spares(rw, rw2, j, p, i) PROVE At(rw2, p) = {i}
<1> USE DEF Spares
<1>1. \A x \in Rows : x \in At(rw, p) <=> x = i
  BY DEF At
<1>2. rw[i] # None /\ rw[i].place = p
  BY <1>1 DEF At
<1>3. ASSUME NEW x \in At(rw2, p) PROVE x = i
  <2>1. x \in Rows /\ rw2[x] # None /\ rw2[x].place = p
    BY <1>3 DEF At
  <2>2. x # j => x \in At(rw, p)
    BY <2>1 DEF At
  <2> QED
    BY <1>1, <2>1, <2>2
<1>4. i \in At(rw2, p)
  BY <1>2 DEF At
<1> QED
  BY <1>3, <1>4

LEMMA CleanOneHolds == ASSUME IInv, HInv, NEW a \in Actors, NEW c \in actor[a].todo, CleanOne(a, c) PROVE HInv'
<1> DEFINE me == actor[a]  o0 == Now(a)  cutoff == me.cutoff[o0[2]]  j == c.row  new == [me EXCEPT !.todo = me.todo \ {c}]
           done == StaleLink(o0, j, cutoff, LastLinksGo(me), me.refs)
<1>1. /\ WorldOK /\ me \in Local /\ Works(me) /\ me.pc = "clean" /\ o0 \in Owners /\ o0[2] \in me.whole /\ j \in Rows
      /\ o0[1] = me.order.server /\ cutoff \in Nat /\ kea' = kea /\ actor' = [actor EXCEPT ![a] = new]
      /\ link \in [Rows -> Links] /\ row \in [Rows -> Row \union {None}]
  <2>1. me \in Local /\ o0 \in Owners /\ o0[2] \in Sources /\ WorldOK /\ Works(me) /\ me.pc = "clean"
        /\ o0[1] = me.order.server /\ o0[2] = Plan(me.order)[me.phase]
    BY OfActor DEF CleanOne
  <2>2. me.todo \subseteq [row: Rows, place: {Global, Elsewhere} \union {Vrf[s] : s \in Servers}]
        /\ me.cutoff \in [Sources -> Nat]
    BY <2>1 DEF Local
  <2> QED
    BY <2>1, <2>2 DEF CleanOne, Set, Works, WorldOK
<1>2. AllCalm /\ StillReported
  <2>1. Typed(new) /\ new.pc = "clean" /\ new.order = me.order /\ new.whole = me.whole /\ new.cutoff = me.cutoff
    BY <1>1, CandidateDone
  <2>2. new.held = me.held
    BY <1>1 DEF Local
  <2> HIDE DEF new
  <2>3. Calm(me, new, kea) /\ new \in Local
    BY <1>1, <2>1, <2>2, CalmMove DEF Pending, Typed
  <2> QED
    BY <1>1, <2>3, HeldSet
<1>3. \/ row' = row /\ link' = link
      \/ /\ row[j] # None /\ row[j].place = c.place /\ link[j][o0] # None /\ link[j][o0].n < cutoff
         /\ row' = [row EXCEPT ![j] = done.row] /\ link' = [link EXCEPT ![j] = done.links]
  BY DEF CleanOne, StillStale
<1>4. row[j] # None /\ link[j][o0] # None => Cleaned(o0, j, cutoff, done)
  BY <1>1, StaleFacts
<1>5. /\ j \notin LockedRows /\ \A b \in Actors \ {a} : Locks(b) \cap {c.place} = {}
  BY DEF CleanOne, IdentityFree
<1> HIDE DEF done, o0, cutoff, j, me, new
<1>6. CASE row' = row /\ link' = link
  BY <1>2, <1>6, HeldQuiet
<1>7. CASE /\ row[j] # None /\ row[j].place = c.place /\ link[j][o0] # None /\ link[j][o0].n < cutoff
           /\ row' = [row EXCEPT ![j] = done.row] /\ link' = [link EXCEPT ![j] = done.links]
  <2>1. /\ row'[j] = done.row /\ link'[j] = done.links
        /\ \A i \in Rows \ {j} : row'[i] = row[i] /\ link'[i] = link[i]
        /\ done.row # None => done.row.place = row[j].place
    BY <1>1, <1>4, <1>7 DEF Cleaned
  <2>2. ASSUME NEW o \in Owners, NEW i \in Rows, Confirmed(o, i, row, link, actor)
        PROVE  Shows(o, i, row', link') /\ link'[i][o].n = link[i][o].n
    <3>1. /\ At(row, Vrf[o[1]]) = {i} /\ row[i] # None /\ row[i].place = Vrf[o[1]] /\ row[i].marked /\ link[i][o] # None
          /\ (link[i][o].mark # None => link[i][o].mark < link[i][o].n) /\ Newer(o, link[i][o].n, actor)
      <4>1. At(row, Vrf[o[1]]) = {i}
        BY <2>2 DEF Confirmed, Shows
      <4>2. i \in At(row, Vrf[o[1]])
        BY <4>1
      <4>3. row[i] # None /\ row[i].place = Vrf[o[1]]
        BY <4>2 DEF At
      <4> QED
        BY <2>2, <4>1, <4>3 DEF Confirmed, Shows
    <3>3. i = j => o # o0
      <4>1. Past(me, o0)
        BY <1>1 DEF Past, Pending
      <4>2. o = o0 => cutoff <= link[i][o].n
        BY <3>1, <4>1 DEF Newer, cutoff, me
      <4>3. link[i][o].n \in Nat
        BY <1>1, <3>1, LinkFacts DEF Links
      <4> QED
        BY <1>1, <1>7, <4>2, <4>3
    <3>4. row'[i] # None /\ row'[i].place = row[i].place /\ row'[i].marked /\ link'[i][o] = link[i][o]
      <4>1. CASE i = j
        BY <1>4, <1>7, <2>1, <3>1, <3>3, <4>1 DEF Cleaned
      <4>2. CASE i # j
        BY <2>1, <3>1, <4>2
      <4> QED
        BY <4>1, <4>2
    <3>5. At(row', Vrf[o[1]]) = {i}
      <4>1. j # i => row[j].place # Vrf[o[1]]
        BY <1>1, <1>7, <3>1 DEF At
      <4>2. Spares(row, row', j, Vrf[o[1]], i)
        BY <2>1, <3>1, <3>4, <4>1 DEF Spares
      <4> QED
        BY <4>2, AtStays
    <3> QED
      BY <3>1, <3>4, <3>5 DEF Shows
  <2>3. ASSUME NEW b \in Actors, NEW o \in Owners, actor[b].pc = "commit", Confirming(actor[b], o, row, link, actor), Here(actor[b]) = o
        PROVE  /\ At(row', Vrf[o[1]]) = At(row, Vrf[o[1]])
               /\ \A i \in actor[b].found : link'[i][o] # None /\ link'[i][o].mark # None =>
                     link[i][o] # None /\ link[i][o].mark = link'[i][o].mark
    <3>1. b # a /\ o[1] = actor[b].order.server
      BY <1>1, <2>3 DEF Here, me
    <3>2. c.place # Vrf[o[1]]
      BY <1>5, <2>3, <3>1 DEF Locks
    <3>3. At(row', Vrf[o[1]]) = At(row, Vrf[o[1]])
      BY <1>7, <2>1, <3>2 DEF At
    <3>4. actor[b].found \subseteq Rows \ {j}
      BY <1>5, <2>3 DEF LockedRows, Confirming, At
    <3> QED
      BY <2>1, <3>3, <3>4
  <2> QED
    BY <1>2, <2>2, <2>3, HeldStays
<1> QED
  BY <1>3, <1>6, <1>7

\* What the end of a claim leaves of the worker.
LEMMA EndsFacts ==
    ASSUME IInv, NEW a \in Actors, actor[a].pc # "idle", Ends(a)
    PROVE  /\ \A b \in Actors \ {a} : actor'[b] = actor[b]
           /\ actor'[a].pc \in {"cutoff", "choose", "idle"}
           /\ actor'[a].pc # "idle" => /\ actor'[a].order = actor[a].order /\ actor'[a].held \subseteq actor[a].held
                                       /\ actor'[a].whole = actor[a].whole /\ actor'[a].cutoff = actor[a].cutoff
           /\ actor[a].order.kind = "force" => actor'[a].pc = "idle"
<1> DEFINE me == actor[a]
<1>1. me \in Local /\ me.order \in Orders /\ actor \in [Actors -> Local]
  BY OfActor DEF ActorsOK
<1>2. /\ Unlinked(me) \in Local /\ Unlinked(me).order = me.order /\ Unlinked(me).held \subseteq me.held
      /\ Unlinked(me).whole = me.whole /\ Unlinked(me).cutoff = me.cutoff
  BY <1>1 DEF Unlinked, Local
<1>3. PICK local \in {me, Unlinked(me)} : actor' = [actor EXCEPT ![a] = Onward(local)]
  BY DEF Ends
<1>4. actor'[a] = Onward(local) /\ \A b \in Actors \ {a} : actor'[b] = actor[b]
  BY <1>1, <1>3
<1>5. local \in Local /\ local.order = me.order /\ local.held \subseteq me.held /\ local.whole = me.whole /\ local.cutoff = me.cutoff
  BY <1>1, <1>2
<1> HIDE DEF me
<1>6. /\ Onward(local).pc \in {"cutoff", "choose", "idle"}
      /\ Onward(local).pc # "idle" => /\ Onward(local).order = local.order /\ Onward(local).held = local.held
                                      /\ Onward(local).whole = local.whole /\ Onward(local).cutoff = local.cutoff
      /\ local.order.kind = "force" => Onward(local).pc = "idle"
  BY <1>1, <1>5, OnwardFacts
<1> QED
  BY <1>4, <1>5, <1>6 DEF me

\* A claim that leaves the confirmed rows, and confirms its own owner while the worker holds it.
LEMMA EndsHolds ==
    ASSUME IInv, HInv, NEW a \in Actors, actor[a].pc = "commit", Ends(a), kea' = kea,
           \A o \in Owners, i \in Rows : Confirmed(o, i, row, link, actor) =>
              /\ Shows(o, i, row', link') /\ link'[i][o].n \in {link[i][o].n, actor[a].n}
              /\ o = Now(a) => link'[i][o].n = actor[a].n,
           Confirming(actor[a], Now(a), row, link, actor) /\ Holding(actor'[a], Now(a)) =>
              \E i \in Rows : Shows(Now(a), i, row', link') /\ link'[i][Now(a)].n = actor[a].n
    PROVE  HInv'
<1> DEFINE me == actor[a]  o0 == Now(a)
<1>1. /\ WorldOK /\ me \in Local /\ o0 \in Owners /\ o0 = Here(me) /\ o0[1] = me.order.server
      /\ o0[2] = Plan(me.order)[me.phase] /\ me.n \in Nat /\ me.cutoff[o0[2]] <= me.n
      /\ \A i \in Rows, q \in Owners : link[i][q] # None => link[i][q].n < me.n /\ link[i][q].n \in Nat
      /\ \A b \in Actors \ {a} : actor[b].pc # "commit"
  <2>1. \A i \in Rows, q \in Owners : link[i][q] # None => link[i][q].n \in Nat
    BY OfActor, LinkFacts DEF WorldOK, Links
  <2> QED
    BY <2>1, OfActor, OfCommit
<1>2. /\ \A b \in Actors \ {a} : actor'[b] = actor[b]
      /\ actor'[a].pc \in {"cutoff", "choose", "idle"}
      /\ actor'[a].pc # "idle" => /\ actor'[a].order = me.order /\ actor'[a].held \subseteq me.held
                                  /\ actor'[a].whole = me.whole /\ actor'[a].cutoff = me.cutoff
  BY EndsFacts
<1> HIDE DEF me, o0
<1>3. \A b \in Actors : actor'[b].pc # "commit"
  BY <1>1, <1>2
<1>4. \A b \in Actors, o \in Owners : Holding(actor'[b], o) => Holding(actor[b], o)
  BY <1>2 DEF Holding, me
<1>5. ASSUME NEW b \in Actors, NEW o \in Owners, Past(actor'[b], o)
      PROVE  actor'[b].cutoff = actor[b].cutoff /\ (Past(actor[b], o) \/ (b = a /\ o = o0))
  <2>1. CASE b = a
    <3>1. actor'[a].pc # "idle" /\ o[1] = me.order.server /\ o[2] \in me.whole /\ actor'[b].cutoff = actor[b].cutoff
      BY <1>2, <1>5, <2>1 DEF Past, me
    <3>2. Pending(me, o[2]) => o[2] = o0[2]
      BY <1>1 DEF Pending
    <3>3. o = <<o[1], o[2]>> /\ o0 = <<o0[1], o0[2]>>
      BY <1>1, OwnerKinds
    <3> QED
      BY <1>1, <2>1, <3>1, <3>2, <3>3 DEF Past, me
  <2>2. CASE b # a
    BY <1>2, <1>5, <2>2
  <2> QED
    BY <2>1, <2>2
<1>6. \A b \in Actors, s \in Sources : actor[b].cutoff[s] \in Nat
  BY DEF IInv, ActorsOK, Local
<1>7. ASSUME NEW o \in Owners, NEW n \in Nat, NEW m \in {n, me.n}, n <= me.n, Newer(o, n, actor), o = o0 => m = me.n
      PROVE  Newer(o, m, actor')
  <2> SUFFICES ASSUME NEW b \in Actors, Past(actor'[b], o) PROVE actor'[b].cutoff[o[2]] <= m
    BY DEF Newer
  <2>1. actor[b].cutoff[o[2]] \in Nat /\ o[2] \in Sources /\ n <= m /\ m \in Nat
    BY <1>1, <1>6, <1>7, OwnerKinds
  <2>2. CASE Past(actor[b], o)
    <3>1. actor[b].cutoff[o[2]] <= n
      BY <1>7, <2>2 DEF Newer
    <3> QED
      BY <1>5, <2>1, <3>1
  <2>3. CASE b = a /\ o = o0
    BY <1>1, <1>5, <1>7, <2>3 DEF me
  <2> QED
    BY <1>5, <2>2, <2>3
<1> SUFFICES ASSUME NEW b \in Actors, NEW o \in Owners, Holding(actor'[b], o)
             PROVE  HeldOK(actor'[b], o, kea, row', link', actor')
  BY DEF HInv
<1>8. HeldOK(actor[b], o, kea, row, link, actor)
  BY <1>4 DEF HInv
<1>9. ASSUME Past(actor'[b], o) PROVE \E i \in Rows : Confirmed(o, i, row', link', actor')
  <2>1. CASE Past(actor[b], o)
    <3>1. PICK i \in Rows : Confirmed(o, i, row, link, actor)
      BY <1>8, <2>1 DEF HeldOK
    <3> DEFINE n == link[i][o].n  m == link'[i][o].n
    <3>2. Shows(o, i, row', link') /\ m \in {n, me.n} /\ (o = o0 => m = me.n)
      BY <3>1 DEF me, o0
    <3>3. n \in Nat /\ n <= me.n /\ Newer(o, n, actor)
      <4>1. link[i][o] # None /\ Newer(o, n, actor)
        BY <3>1 DEF Confirmed, Shows
      <4> QED
        BY <1>1, <4>1
    <3> HIDE DEF n, m
    <3>4. Newer(o, m, actor')
      BY <1>7, <3>2, <3>3
    <3> QED
      BY <1>3, <3>2, <3>4 DEF Confirmed, m
  <2>2. CASE ~Past(actor[b], o)
    <3>1. b = a /\ o = o0
      BY <1>5, <1>9, <2>2
    <3>2. Confirming(me, o0, row, link, actor)
      BY <1>1, <1>8, <3>1 DEF HeldOK, me
    <3>3. PICK i \in Rows : Shows(o0, i, row', link') /\ link'[i][o0].n = me.n
      BY <3>1, <3>2 DEF me, o0
    <3>4. Newer(o0, me.n, actor')
      BY <1>1, <1>7, <3>2 DEF Confirming
    <3> QED
      BY <1>3, <3>1, <3>3, <3>4 DEF Confirmed
  <2> QED
    BY <2>1, <2>2
<1> QED
  BY <1>3, <1>8, <1>9 DEF HeldOK

\* The worker that found no link after its claim does not hold the source.
LEMMA UnlinkedHolds ==
    ASSUME IInv, NEW a \in Actors, actor[a].pc # "idle", actor' = [actor EXCEPT ![a] = Onward(Unlinked(actor[a]))]
    PROVE  ~Holding(actor'[a], Now(a))
<1> DEFINE me == actor[a]
<1>1. me \in Local /\ me.order \in Orders /\ actor \in [Actors -> Local] /\ Now(a)[2] = Plan(me.order)[me.phase]
  BY OfActor DEF ActorsOK
<1>2. Unlinked(me) \in Local /\ Unlinked(me).order = me.order /\ Unlinked(me).held = me.held \ {Now(a)[2]}
  BY <1>1 DEF Unlinked, Local
<1>3. actor'[a] = Onward(Unlinked(me))
  BY <1>1
<1> HIDE DEF me
<1>4. Onward(Unlinked(me)).pc # "idle" => Onward(Unlinked(me)).held = Unlinked(me).held
  BY <1>1, <1>2, OnwardFacts
<1> QED
  BY <1>2, <1>3, <1>4 DEF Holding

LEMMA CommitCreateHolds == ASSUME IInv, HInv, NEW a \in Actors, CommitCreate(a) PROVE HInv'
<1> DEFINE me == actor[a]  o0 == Now(a)  facts == me.report.facts
           r == NewRow(o0, facts)  ls == StoreLink(NoLinks, o0, facts, None, me.n, FALSE)
<1>1. /\ WorldOK /\ me.pc = "commit" /\ me.found = {} /\ Ends(a) /\ kea' = kea /\ o0 \in Owners /\ o0[1] = me.order.server
      /\ me.n \in Nat /\ me.report \in Reports /\ o0 = Here(me)
      /\ row \in [Rows -> Row \union {None}] /\ link \in [Rows -> Links]
  BY OfActor, OfCommit, TargetFacts DEF CommitCreate, Ends, Set, WorldOK
<1>2. ASSUME NEW o \in Owners, NEW i \in Rows, Confirmed(o, i, row, link, actor)
      PROVE  Vrf[o[1]] # Vrf[o0[1]] /\ o # o0 /\ Shows(o, i, row, link)
  BY <1>1, <1>2 DEF Confirmed
<1>3. CASE me.report.kind # "facts"
  <2>1. row' = row /\ link' = link /\ actor' = [actor EXCEPT ![a] = Onward(Unlinked(me))]
    BY <1>3 DEF CommitCreate, Set
  <2>2. ~Holding(actor'[a], o0)
    BY <1>1, <2>1, UnlinkedHolds
  <2> QED
    BY <1>1, <1>2, <2>1, <2>2, EndsHolds
<1>4. CASE me.report.kind = "facts"
  <2>1. PICK j \in Rows : j = born + 1 /\ row' = [row EXCEPT ![j] = r] /\ link' = [link EXCEPT ![j] = ls]
    BY <1>4 DEF CommitCreate
  <2>2. facts \in Facts
    BY <1>1, <1>4, ReportFacts
  <2>3. Made(r, ls, o0, me.n)
    BY <1>1, <2>2, NewRowFacts
  <2> HIDE DEF r, ls, o0, me
  <2>4. row'[j] = r /\ link'[j] = ls /\ \A i \in Rows \ {j} : row'[i] = row[i] /\ link'[i] = link[i]
    BY <1>1, <2>1
  <2>5. row[j] = None
    BY <1>1, <2>1 DEF WorldOK
  <2>6. ASSUME NEW o \in Owners, NEW i \in Rows, Confirmed(o, i, row, link, actor)
        PROVE  Shows(o, i, row', link') /\ link'[i][o].n = link[i][o].n
    <3>1. Vrf[o[1]] # Vrf[o0[1]] /\ Shows(o, i, row, link)
      BY <1>2, <2>6
    <3>2. i # j
      <4>1. i \in At(row, Vrf[o[1]])
        BY <3>1 DEF Shows
      <4> QED
        BY <2>5, <4>1 DEF At
    <3>3. At(row', Vrf[o[1]]) = {i}
      <4>1. Spares(row, row', j, Vrf[o[1]], i)
        BY <2>3, <2>4, <3>1, <3>2 DEF Made, Shows, Spares
      <4> QED
        BY <4>1, AtStays
    <3> QED
      BY <2>4, <3>1, <3>2, <3>3 DEF Shows
  <2>7. Confirming(me, o0, row, link, actor) => Shows(o0, j, row', link') /\ link'[j][o0].n = me.n
    <3>1. ASSUME Confirming(me, o0, row, link, actor) PROVE At(row', Vrf[o0[1]]) = {j}
      <4>1. At(row, Vrf[o0[1]]) = {}
        BY <1>1, <3>1 DEF Confirming
      <4>2. \A x \in Rows \ {j} : ~(row'[x] # None /\ row'[x].place = Vrf[o0[1]])
        BY <2>4, <4>1 DEF At
      <4>3. j \in At(row', Vrf[o0[1]])
        BY <2>1, <2>3, <2>4 DEF At, Made
      <4> QED
        BY <4>2, <4>3 DEF At
    <3> QED
      BY <2>3, <2>4, <3>1 DEF Shows, Made
  <2> QED
    BY <1>1, <1>2, <2>1, <2>6, <2>7, EndsHolds DEF me, o0
<1> QED
  BY <1>3, <1>4

\* A row with the marker gets the link of the claim. A row without it gets one only from a forced claim.
LEMMA ClaimLinks ==
    ASSUME NEW a \in Actors, NEW o \in Owners, NEW i \in Rows, row[i] \in Row, link[i] \in Links,
           actor[a].n \in Nat, actor[a].report \in Reports, actor[a].report.kind \notin Gone
    PROVE  /\ row[i].marked => Applied(ClaimRow(a, o, i), o, [row[i] EXCEPT !.place = Vrf[o[1]]], link[i], actor[a].n)
           /\ ~row[i].marked /\ actor[a].order.kind # "force" => ClaimRow(a, o, i).links = NoLinks
<1> DEFINE r == [row[i] EXCEPT !.place = Vrf[o[1]]]
<1>1. r \in Row /\ r.marked = row[i].marked
  <2>1. Vrf[o[1]] \in {Global, Elsewhere} \union {Vrf[s] : s \in Servers}
    BY VrfFacts, OwnerKinds
  <2> QED
    BY <2>1 DEF Row
<1>2. row[i].marked => ClaimRow(a, o, i) = ApplyClaim(o, actor[a].report, r, link[i], actor[a].n)
  BY <1>1 DEF ClaimRow, Owned
<1>3. ~row[i].marked /\ actor[a].order.kind # "force" => ClaimRow(a, o, i).links = NoLinks
  BY <1>1 DEF ClaimRow, Owned, Result
<1> HIDE DEF r
<1>4. Applied(ApplyClaim(o, actor[a].report, r, link[i], actor[a].n), o, r, link[i], actor[a].n)
  BY <1>1, ApplyFacts
<1> QED
  BY <1>2, <1>3, <1>4 DEF r
LEMMA CommitClaimHolds == ASSUME IInv, HInv, NEW a \in Actors, CommitClaim(a) PROVE HInv'
<1> DEFINE me == actor[a]  o0 == Now(a)
<1>1. /\ WorldOK /\ me.pc = "commit" /\ kea' = kea /\ o0 \in Owners /\ o0[1] = me.order.server /\ o0 = Here(me)
      /\ me.n \in Nat /\ me.report \in Reports /\ me.report.kind \notin Gone /\ Cardinality(Target(a)) = 1
      /\ \A i \in Rows, q \in Owners : link[i][q] # None => link[i][q].n < me.n
      /\ me.found \subseteq Rows /\ \A i \in me.found : row[i] # None /\ row[i].place = Vrf[o0[1]]
      /\ me.old \subseteq Rows /\ \A i \in me.old : row[i] # None /\ \A q \in Owners : link[i][q] = None
      /\ row \in [Rows -> Row \union {None}] /\ link \in [Rows -> Links]
  BY OfActor, OfCommit DEF CommitClaim, WorldOK
<1>2. PICK i0 \in Rows : /\ (CHOOSE x \in Target(a) : TRUE) = i0
                         /\ i0 \in me.found \/ (i0 \in me.old /\ me.found = {})
                         /\ \A x \in me.found : x = i0
  BY <1>1, OneTarget
<1> DEFINE done == ClaimRow(a, o0, i0)  r == [row[i0] EXCEPT !.place = Vrf[o0[1]]]
<1>3. /\ row' = [row EXCEPT ![i0] = done.row] /\ link' = [link EXCEPT ![i0] = done.links]
      /\ actor' = [actor EXCEPT ![a] = Onward(IF done.links[o0] = None THEN Unlinked(me) ELSE me)]
  BY <1>2 DEF CommitClaim, Set
<1>4. row[i0] \in Row /\ link[i0] \in Links /\ row[i0].marked \in BOOLEAN
  BY <1>1, <1>2, RowFacts
<1>5. done.row # None /\ done.row.place = Vrf[o0[1]]
  <2>1. Claimed(a, o0, i0, done)
    BY <1>1, <1>4, ClaimRowFacts
  <2> QED
    BY <2>1, NoneApart DEF Claimed
<1>6. /\ row[i0].marked => Applied(done, o0, r, link[i0], me.n)
      /\ ~row[i0].marked /\ me.order.kind # "force" => done.links[o0] = None
  BY <1>1, <1>4, ClaimLinks, NoLinksTyped
<1>7. r.marked = row[i0].marked
  BY <1>4 DEF Row
<1>8. Ends(a)
  BY <1>3 DEF Ends
<1> HIDE DEF done, r, o0, me
<1>9. /\ row'[i0] = done.row /\ link'[i0] = done.links
      /\ \A i \in Rows \ {i0} : row'[i] = row[i] /\ link'[i] = link[i]
  BY <1>1, <1>2, <1>3
<1>10. row[i0].marked =>
         /\ row'[i0].marked /\ link'[i0][o0] # None /\ link'[i0][o0].n = me.n
         /\ link'[i0][o0].mark # None => link[i0][o0] # None /\ link'[i0][o0].mark = link[i0][o0].mark
         /\ \A q \in Owners \ {o0} : link[i0][q] # None /\ ~MarkedAndUnconfirmed(link[i0][q]) => link'[i0][q] = link[i0][q]
  BY <1>6, <1>7, <1>9 DEF Applied
<1>11. ASSUME NEW o \in Owners, NEW i \in Rows, Confirmed(o, i, row, link, actor)
       PROVE  /\ Shows(o, i, row', link') /\ link'[i][o].n \in {link[i][o].n, me.n}
              /\ o = o0 => link'[i][o].n = me.n
  <2>1. Shows(o, i, row, link) /\ i \in At(row, Vrf[o[1]])
    BY <1>11 DEF Confirmed, Shows
  <2>2. row[i] # None /\ row[i].place = Vrf[o[1]] /\ row[i].marked /\ link[i][o] # None
    BY <2>1 DEF At, Shows
  <2>3. CASE Vrf[o[1]] = Vrf[o0[1]]
    <3>1. i = i0
      <4>1. me.found = {i}
        BY <1>1, <1>11, <2>3 DEF Confirmed, me
      <4> QED
        BY <1>2, <4>1
    <3>2. At(row', Vrf[o[1]]) = {i}
      <4>1. Spares(row, row', i, Vrf[o[1]], i)
        BY <1>5, <1>9, <2>1, <2>3, <3>1 DEF Shows, Spares
      <4> QED
        BY <4>1, AtStays
    <3>3. link[i][o].mark # None => link[i][o].mark < link[i][o].n
      BY <2>1 DEF Shows
    <3>4. link[i][o].n \in Nat /\ link[i][o].mark \in Nat \union {None} /\ link[i][o].n < me.n
      BY <1>1, <1>2, <2>2, LinkFacts DEF Links
    <3>5. CASE o = o0
      <4>1. link'[i][o].mark # None => link'[i][o].mark < link'[i][o].n
        BY <1>1, <1>10, <2>2, <3>1, <3>3, <3>4, <3>5, NoneApart
      <4> QED
        BY <1>10, <2>2, <3>1, <3>2, <3>5, <4>1 DEF Shows
    <3>6. CASE o # o0
      <4>1. ~MarkedAndUnconfirmed(link[i][o])
        BY <3>3, <3>4 DEF MarkedAndUnconfirmed
      <4>2. link'[i][o] = link[i][o] /\ row'[i].marked
        BY <1>10, <2>2, <3>1, <3>6, <4>1
      <4> QED
        BY <2>2, <3>2, <3>3, <3>6, <4>2 DEF Shows
    <3> QED
      BY <3>5, <3>6
  <2>4. CASE Vrf[o[1]] # Vrf[o0[1]]
    <3>1. i # i0 /\ o # o0
      BY <1>1, <1>2, <2>2, <2>4
    <3>2. At(row', Vrf[o[1]]) = {i}
      <4>1. Spares(row, row', i0, Vrf[o[1]], i)
        BY <1>5, <1>9, <2>1, <2>4, <3>1 DEF Shows, Spares
      <4> QED
        BY <4>1, AtStays
    <3> QED
      BY <1>9, <2>1, <3>1, <3>2 DEF Shows
  <2> QED
    BY <2>3, <2>4
<1>12. ASSUME Confirming(me, o0, row, link, actor), Holding(actor'[a], o0)
       PROVE  Shows(o0, i0, row', link') /\ link'[i0][o0].n = me.n
  <2>1. actor[a].pc # "idle"
    BY <1>1 DEF me
  <2>2. done.links[o0] # None
    BY <1>3, <1>12, <2>1, UnlinkedHolds DEF me, o0
  <2>3. row[i0].marked
    <3>1. me.order.kind # "force"
      BY <1>8, <1>12, <2>1, EndsFacts DEF Holding, me
    <3> QED
      BY <1>4, <1>6, <2>2, <3>1
  <2>4. At(row', Vrf[o0[1]]) = {i0}
    <3>1. \A x \in Rows \ {i0} : ~(row'[x] # None /\ row'[x].place = Vrf[o0[1]])
      <4>1. \A x \in Rows : row[x] # None /\ row[x].place = Vrf[o0[1]] => x \in me.found
        BY <1>12 DEF Confirming, At
      <4> QED
        BY <1>2, <1>9, <4>1
    <3>2. i0 \in At(row', Vrf[o0[1]])
      BY <1>5, <1>9 DEF At
    <3> QED
      BY <3>1, <3>2 DEF At
  <2>5. link'[i0][o0].mark # None => link'[i0][o0].mark < me.n
    BY <1>1, <1>2, <1>10, <1>12, <2>3 DEF Confirming
  <2> QED
    BY <1>10, <2>3, <2>4, <2>5 DEF Shows
<1> QED
  BY <1>1, <1>8, <1>11, <1>12, EndsHolds DEF me, o0

------------------------------------------------------------------------------
(* Kea and the operators.                                                  *)

\* A step that takes sources from what the workers hold, and leaves the rows and the links.
LEMMA LostHolds ==
    ASSUME IInv, HInv, UNCHANGED <<row, link>>, NEW local, actor' = Restless(local),
           \A b \in Actors : /\ local[b] \in Local /\ local[b].held \subseteq actor[b].held
                             /\ local[b].pc = actor[b].pc /\ local[b].order = actor[b].order /\ local[b].phase = actor[b].phase
                             /\ local[b].cutoff = actor[b].cutoff /\ local[b].whole = actor[b].whole
                             /\ local[b].n = actor[b].n /\ local[b].found = actor[b].found,
           \A b \in Actors, o \in Owners : Holding(local[b], o) => kea'[o].kind \notin Gone
    PROVE  HInv'
<1>1. ASSUME NEW b \in Actors PROVE Alike(local[b], actor'[b])
  BY DEF Restless, Alike, Local
<1>2. ASSUME NEW b \in Actors PROVE Calm(actor[b], local[b], kea')
  <2>1. \A o : Past(local[b], o) => Past(actor[b], o)
    BY DEF Past, Pending
  <2> QED
    BY <2>1 DEF Calm
<1>3. AllCalm
  BY <1>1, <1>2, AlikeCalm DEF AllCalm
<1>4. StillReported
  BY <1>1 DEF StillReported, Holding, Alike
<1> QED
  BY <1>3, <1>4, HeldQuiet

LEMMA KeaMovesHolds == ASSUME IInv, HInv, NEW o \in Owners, NEW report \in Reports, KeaMoves(o, report) PROVE HInv'
<1> DEFINE gone == report.kind \in {"absent", "inactive"}
           Hit(b) == gone /\ actor[b].pc # "idle" /\ actor[b].order.server = o[1]
           held(b) == actor[b].held \ {o[2]}
           fresh(b) == actor[b].fresh /\ Plan(actor[b].order)[actor[b].phase] # o[2]
           local == [b \in Actors |-> IF Hit(b) THEN [actor[b] EXCEPT !.held = held(b), !.fresh = fresh(b)] ELSE actor[b]]
<1>1. /\ UNCHANGED <<row, link>> /\ kea' = [kea EXCEPT ![o] = report] /\ actor' = Restless(local)
  BY DEF KeaMoves
<1>2. ASSUME NEW b \in Actors
      PROVE  /\ local[b] \in Local /\ local[b].held = IF Hit(b) THEN actor[b].held \ {o[2]} ELSE actor[b].held
             /\ local[b].pc = actor[b].pc /\ local[b].order = actor[b].order /\ local[b].phase = actor[b].phase
             /\ local[b].cutoff = actor[b].cutoff /\ local[b].whole = actor[b].whole
             /\ local[b].n = actor[b].n /\ local[b].found = actor[b].found
  <2>1. actor[b] \in Local
    BY DEF IInv, ActorsOK
  <2>2. held(b) \in SUBSET Sources /\ fresh(b) \in BOOLEAN
    BY <2>1 DEF Local
  <2> HIDE DEF fresh, Hit
  <2>3. local[b] = IF Hit(b) THEN [actor[b] EXCEPT !.held = held(b), !.fresh = fresh(b)] ELSE actor[b]
    OBVIOUS
  <2> HIDE DEF local, held
  <2>4. CASE Hit(b)
    <3> DEFINE l == actor[b]  l2 == [l EXCEPT !.held = held(b), !.fresh = fresh(b)]
    <3>1. /\ l2 \in Local /\ l2.pc = l.pc /\ l2.order = l.order /\ l2.phase = l.phase /\ l2.cutoff = l.cutoff
          /\ l2.whole = l.whole /\ l2.n = l.n /\ l2.found = l.found /\ l2.held = held(b)
      BY <2>1, <2>2 DEF Local
    <3> HIDE DEF l2
    <3> QED
      BY <2>3, <2>4, <3>1 DEF l2, held
  <2> QED
    BY <2>1, <2>3, <2>4
<1> HIDE DEF local
<1>3. ASSUME NEW b \in Actors, NEW q \in Owners, Holding(local[b], q) PROVE kea'[q].kind \notin Gone
  <2>1. Holding(actor[b], q) /\ (Hit(b) => q[2] # o[2])
    BY <1>2, <1>3 DEF Holding
  <2>2. kea[q].kind \notin Gone
    BY <2>1 DEF HInv, HeldOK
  <2>3. q = o => ~gone
    BY <2>1 DEF Holding
  <2> QED
    BY <1>1, <2>2, <2>3 DEF IInv, WorldOK, Gone
<1> QED
  BY <1>1, <1>2, <1>3, LostHolds

LEMMA OperatorHolds == ASSUME IInv, HInv, Operator PROVE HInv'
<1>1. ASSUME NEW kind, Edit(kind), kind \notin {"refer", "barrier"} PROVE HInv'
  <2> DEFINE local == [b \in Actors |-> [actor[b] EXCEPT !.held = {}]]
  <2>1. actor' = Restless(local)
    BY <1>1 DEF Edit
  <2>2. ASSUME NEW b \in Actors PROVE actor'[b].held = {}
    <3>1. actor[b] \in Local
      BY DEF IInv, ActorsOK
    <3>2. actor'[b] = [[actor[b] EXCEPT !.held = {}] EXCEPT !.quiet = FALSE]
      BY <2>1 DEF Restless
    <3> QED
      BY <3>1, <3>2 DEF Local
  <2> QED
    BY <2>2 DEF HInv, Holding
<1>2. ASSUME NEW kind \in {"refer", "barrier"}, Edit(kind), UNCHANGED <<row, link>> PROVE HInv'
  <2> DEFINE local == [b \in Actors |-> [actor[b] EXCEPT !.held = actor[b].held]]
  <2>1. actor' = Restless(local) /\ kea' = kea
    BY <1>2 DEF Edit
  <2>2. ASSUME NEW b \in Actors PROVE local[b] = actor[b] /\ actor[b] \in Local
    BY DEF IInv, ActorsOK, Local
  <2>3. \A b \in Actors, o \in Owners : Holding(actor[b], o) => kea'[o].kind \notin Gone
    BY <2>1 DEF HInv, HeldOK
  <2> HIDE DEF local
  <2> QED
    BY <1>2, <2>1, <2>2, <2>3, LostHolds
<1>3. CASE FlipBarrier \/ \E i \in Rows : Refer(i)
  BY <1>2, <1>3 DEF FlipBarrier, Refer
<1>4. CASE Create \/ (\E i \in Rows : Release(i) \/ MarkAgain(i) \/ MoveAway(i) \/ Delete(i)) \/ \E s \in Servers : DropServer(s)
  BY <1>1, <1>4 DEF Create, Release, MarkAgain, MoveAway, Rewrite, Delete, DropServer
<1> QED
  BY <1>3, <1>4 DEF Operator

LEMMA HInvNext == IInv /\ HInv /\ [Next]_vars => HInv'
<1> SUFFICES ASSUME IInv, HInv, [Next]_vars PROVE HInv'
  OBVIOUS
<1>1. ASSUME NEW a \in Actors, Work(a) PROVE HInv'
  <2>1. CASE TakeCutoff(a) \/ ReadSnapshot(a) \/ ReadInPart(a) \/ EnterClaim(a) \/ RefuseRow(a) \/ RowFails(a)
    BY <2>1, CutoffHolds, ReadHolds, EnterHolds, FailHolds
  <2>2. CASE CommitCreate(a) \/ CommitClaim(a) \/ Classify(a)
    BY <2>2, CommitCreateHolds, CommitClaimHolds, ClassifyHolds
  <2>3. CASE ChooseStale(a) \/ EndCleanup(a) \/ \E c \in actor[a].todo : CleanOne(a, c) \/ CleanFails(a, c)
    BY <2>3, CleanupHolds, CleanOneHolds
  <2> QED
    BY <1>1, <2>1, <2>2, <2>3 DEF Work
<1>2. ASSUME NEW m \in Moves, KeaMoves(m.owner, m.report) PROVE HInv'
  <2>1. m.owner \in Owners /\ m.report \in Reports
    BY OwnershipAssumption
  <2> QED
    BY <1>2, <2>1, KeaMovesHolds
<1>3. CASE UNCHANGED vars
  BY <1>3 DEF vars, HInv
<1> QED
  BY <1>1, <1>2, <1>3, StartHolds, OperatorHolds DEF Next, Finished

LEMMA HInvAlways == Spec => []HInv
<1>1. Init => HInv
  <2>1. Idle.pc = "idle"
    BY DEF Idle
  <2> QED
    BY <2>1 DEF Init, HInv, Holding
<1> QED
  BY <1>1, HInvNext, IInvAlways, PTL DEF Spec

\* A cleanup retires a row for the last link, and only after it read all that its Server synchronizes.
LEMMA RetireFacts ==
    ASSUME NEW o \in Owners, NEW i \in Rows, row[i] \in Row, link[i] \in Links, NEW cutoff, NEW lastGo, NEW refs,
           LET done == StaleLink(o, i, cutoff, lastGo, refs)
           IN  done.row = None \/ (row[i].status # "deprecated" /\ done.row.status = "deprecated")
    PROVE  lastGo /\ \A q \in Owners \ {o} : link[i][q] = None
<1> DEFINE r == row[i]  ls == link[i]  rest == [ls EXCEPT ![o] = None]  others == Linked(rest)
           done == StaleLink(o, i, cutoff, lastGo, refs)
<1>1. \/ done = Result(r, NoLinks, "conflict") \/ done = Result(r, ls, "kept")
      \/ done = Result(Restatus(r, rest), rest, "unlinked") \/ done = Result(r, rest, "unlinked")
      \/ others = {} /\ ~(~lastGo /\ \A q \in others : q[1] # o[1])
  <2> HIDE DEF rest, others, r, ls
  <2> QED
    BY DEF StaleLink, r, ls, rest, others
<1>2. r # None /\ (Restatus(r, rest).status = "deprecated" => r.status = "deprecated") /\ Restatus(r, rest) # None
  <2> HIDE DEF rest, r, ls
  <2>1. r \in Row /\ rest \in Links
    BY DEF r, rest, ls, Links
  <2>2. CASE LiveSources(rest) = {}
    BY <2>1, <2>2, NoneApart DEF Restatus
  <2>3. CASE LiveSources(rest) # {}
    <3> DEFINE status == Status(LiveSources(rest))  name == NewName(r, ImpliedName(rest))
    <3>1. status \in Statuses /\ status # "deprecated"
      BY <2>3, LiveSourcesIn, StatusFacts
    <3>2. name \in {f.name : f \in Facts} \union {NoName}
      BY <2>1, ImpliedNameTyped, NewNameTyped
    <3>3. Restatus(r, rest) = [r EXCEPT !.status = status, !.name = name]
      BY <2>3 DEF Restatus
    <3> HIDE DEF status, name, Statuses
    <3>4. Restatus(r, rest).status = status /\ Restatus(r, rest) \in Row
      BY <2>1, <3>1, <3>2, <3>3 DEF Row
    <3> QED
      BY <2>1, <3>1, <3>4, NoneApart
  <2> QED
    BY <2>2, <2>3
<1>3. done.row = None \/ (r.status # "deprecated" /\ done.row.status = "deprecated")
  OBVIOUS
<1> HIDE DEF done, r, ls, rest, others
<1>4. others = {} /\ lastGo
  <2>1. done.row \in {r, Restatus(r, rest)} => FALSE
    BY <1>2, <1>3
  <2> QED
    BY <1>1, <2>1 DEF Result
<1> QED
  BY <1>4 DEF others, rest, ls, Linked

\* A claim deprecates no row.
LEMMA ClaimStatus ==
    ASSUME NEW a \in Actors, NEW o \in Owners, NEW i \in Rows, row[i] \in Row, link[i] \in Links,
           actor[a].n \in Nat, actor[a].report \in Reports, actor[a].report.kind \notin Gone
    PROVE  /\ ClaimRow(a, o, i).row # None
           /\ ClaimRow(a, o, i).row.status = "deprecated" => row[i].status = "deprecated"
<1> DEFINE r == [row[i] EXCEPT !.place = Vrf[o[1]]]  done == ClaimRow(a, o, i)
<1>1. r \in Row /\ r.status = row[i].status
  <2>1. Vrf[o[1]] \in {Global, Elsewhere} \union {Vrf[s] : s \in Servers}
    BY VrfFacts, OwnerKinds
  <2> QED
    BY <2>1 DEF Row
<1>2. \/ \E ls \in Links : done = ApplyClaim(o, actor[a].report, r, ls, actor[a].n)
      \/ done.row = r
  BY NoLinksTyped DEF ClaimRow, Result
<1> HIDE DEF r, done
<1>3. \A ls \in Links : Applied(ApplyClaim(o, actor[a].report, r, ls, actor[a].n), o, r, ls, actor[a].n)
  BY <1>1, ApplyFacts
<1>4. done.row \in Row /\ (done.row = r \/ done.row.status # "deprecated")
  BY <1>1, <1>2, <1>3 DEF Applied
<1> QED
  BY <1>1, <1>4, NoneApart DEF done

LEMMA ClaimKeepsStatus ==
    ASSUME IInv, NEW a \in Actors, CommitClaim(a)
    PROVE  \A i \in Rows : row[i] # None =>
              row'[i] # None /\ (row'[i].status = "deprecated" => row[i].status = "deprecated")
<1> DEFINE me == actor[a]  o0 == Now(a)
<1>1. /\ o0 \in Owners /\ me.n \in Nat /\ me.report \in Reports /\ me.report.kind \notin Gone /\ Cardinality(Target(a)) = 1
      /\ me.found \subseteq Rows /\ \A i \in me.found : row[i] # None
      /\ me.old \subseteq Rows /\ \A i \in me.old : row[i] # None
      /\ row \in [Rows -> Row \union {None}] /\ link \in [Rows -> Links]
  BY OfActor, OfCommit DEF CommitClaim, WorldOK
<1>2. PICK i0 \in Rows : /\ (CHOOSE x \in Target(a) : TRUE) = i0
                         /\ i0 \in me.found \/ (i0 \in me.old /\ me.found = {})
  BY <1>1, OneTarget
<1>3. row' = [row EXCEPT ![i0] = ClaimRow(a, o0, i0).row]
  BY <1>2 DEF CommitClaim
<1>4. row[i0] \in Row /\ link[i0] \in Links
  BY <1>1, <1>2
<1>5. /\ ClaimRow(a, o0, i0).row # None
      /\ ClaimRow(a, o0, i0).row.status = "deprecated" => row[i0].status = "deprecated"
  BY <1>1, <1>4, ClaimStatus
<1> HIDE DEF me, o0
<1> QED
  BY <1>1, <1>3, <1>5

\* A run removes or deprecates the object of its VRF only when no source that its Server synchronizes reported the address all
\* the time since the run began (_last_links_go and the cutoff of _remove_stale_link).
THEOREM RetiredRightly == Spec => RetiredWhenUnreported
<1> DEFINE Step(i, a) == (Retired(i) /\ actor[a] # actor'[a] /\ budget'.edits = budget.edits
                            /\ row[i].place = Vrf[actor[a].order.server]) =>
                            actor[a].held \cap Synchronized(actor[a].order.server) = {}
<1>1. ASSUME IInv, BudgetOK, HInv, [Next]_vars, NEW i \in Rows, NEW a \in Actors PROVE Step(i, a)
  <2> SUFFICES ASSUME Retired(i), actor[a] # actor'[a], budget'.edits = budget.edits,
                      row[i].place = Vrf[actor[a].order.server],
                      NEW s \in actor[a].held \cap Synchronized(actor[a].order.server)
               PROVE  FALSE
    OBVIOUS
  <2>1. row' # row /\ row[i] # None /\ row[i] \in Row
    BY <1>1 DEF Retired, IInv, WorldOK
  <2>2. PICK b \in Actors : CommitCreate(b) \/ CommitClaim(b) \/ \E c \in actor[b].todo : CleanOne(b, c)
    BY <1>1, <2>1, RowSteps, EditSpends
  <2>3. b = a
    BY <1>1, <2>2 DEF CommitCreate, CommitClaim, CleanOne, Set, IInv, ActorsOK
  <2>4. ~CommitCreate(a)
    <3>1. ASSUME CommitCreate(a), row' # row PROVE \E x : x \in Rows /\ ~(x <= born) /\ \A y \in Rows \ {x} : row'[y] = row[y]
      <4>1. born + 1 \in Rows /\ \E r : row' = [row EXCEPT ![born + 1] = r]
        BY <3>1 DEF CommitCreate
      <4>2. ~(born + 1 <= born)
        BY <1>1 DEF IInv, WorldOK
      <4> QED
        BY <1>1, <4>1, <4>2 DEF IInv, WorldOK
    <3> QED
      BY <1>1, <2>1, <3>1 DEF Retired, IInv, WorldOK
  <2>5. ~CommitClaim(a)
    BY <1>1, ClaimKeepsStatus DEF Retired
  <2>6. PICK c \in actor[a].todo : CleanOne(a, c)
    BY <2>2, <2>3, <2>4, <2>5
  <2> DEFINE me == actor[a]  o0 == Now(a)  cutoff == me.cutoff[o0[2]]  o == <<me.order.server, s>>
             done == StaleLink(o0, c.row, cutoff, LastLinksGo(me), me.refs)
  <2>7. /\ me \in Local /\ Works(me) /\ me.pc = "clean" /\ o0 \in Owners /\ o0[1] = me.order.server /\ me.order.server \in Servers
        /\ o0[2] = Plan(me.order)[me.phase] /\ o0[2] \in me.whole /\ o0[2] \in Sources /\ cutoff \in Nat
    BY <1>1, <2>6, OfActor DEF CleanOne, Works, Local
  <2>8. i = c.row /\ done.row = row'[i] /\ link[i][o0] # None /\ link[i][o0].n < cutoff
    <3>1. row' = row \/ (row' = [row EXCEPT ![c.row] = done.row] /\ link[c.row][o0] # None /\ link[c.row][o0].n < cutoff)
      BY <2>6 DEF CleanOne, StillStale
    <3> HIDE DEF done, o0, cutoff
    <3>2. row \in [Rows -> Row \union {None}]
      BY <1>1 DEF IInv, WorldOK
    <3>3. i # c.row => row'[i] = row[i]
      BY <2>1, <3>1, <3>2
    <3>4. i = c.row
      BY <2>1, <3>3 DEF Retired
    <3> QED
      BY <2>1, <3>1, <3>2, <3>4
  <2>9. LastLinksGo(me) /\ \A q \in Owners \ {o0} : link[i][q] = None
    <3>1. done.row = None \/ (row[i].status # "deprecated" /\ done.row.status = "deprecated")
      BY <2>8 DEF Retired
    <3> QED
      BY <1>1, <2>1, <2>7, <2>8, <3>1, RetireFacts DEF IInv, WorldOK
  <2> HIDE DEF done, me, o0, cutoff
  <2>10. o \in Owners /\ s \in me.whole /\ s \in me.held
    BY <2>7, <2>9 DEF LastLinksGo, Synchronized, Sources, Owners, me
  <2>11. PICK k \in Rows : Confirmed(o, k, row, link, actor)
    <3>1. Holding(me, o) /\ Past(me, o)
      BY <2>7, <2>10 DEF Holding, Past, Pending
    <3> QED
      BY <1>1, <2>10, <3>1 DEF HInv, HeldOK, me
  <2>12. i = k
    <3>1. i \in At(row, Vrf[o[1]])
      BY <2>1 DEF At, me
    <3>2. At(row, Vrf[o[1]]) = {k}
      BY <2>11 DEF Confirmed, Shows
    <3> QED
      BY <3>1, <3>2
  <2>13. o = o0 /\ Newer(o, link[i][o].n, actor)
    BY <2>9, <2>10, <2>11, <2>12 DEF Confirmed, Shows
  <2>14. Past(me, o0)
    BY <2>7 DEF Past, Pending
  <2>15. cutoff <= link[i][o0].n
    BY <2>13, <2>14 DEF Newer, cutoff, me
  <2>16. link[i][o0].n \in Nat
    BY <1>1, <2>7, <2>8, LinkFacts DEF IInv, WorldOK, Links
  <2> QED
    BY <2>7, <2>8, <2>15, <2>16
<1>2. IInv /\ BudgetOK /\ HInv /\ [Next]_vars =>
         [\A i \in Rows, a \in Actors :
            (Retired(i) /\ actor[a] # actor'[a] /\ budget'.edits = budget.edits
               /\ row[i].place = Vrf[actor[a].order.server]) =>
                  actor[a].held \cap Synchronized(actor[a].order.server) = {}]_vars
  BY <1>1
<1> QED
  BY <1>2, IInvAlways, BudgetAlways, HInvAlways, PTL DEF Spec, RetiredWhenUnreported
====
