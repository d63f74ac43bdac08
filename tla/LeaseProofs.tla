----------------------------- MODULE LeaseProofs -----------------------------
(* Theorems about the Leases of Kea: what the requests of LeaseEdits write   *)
(* and claim, and what the reads of LeaseReads hold, for every set of        *)
(* addresses, pages and clients, for every file, size of a page and cap, and *)
(* however often the Leases change while a request or a read is under way;  *)
(* and what a page of Leases offers, by the lookups of LeaseBadges.         *)
EXTENDS LeaseEdits, Sequences, FiniteSetTheorems, TLAPS

CONSTANTS Last, Kinds, Raws, PerPage, Caps, Limit, Faulty, MaxChanges    \* LeaseReads
VARIABLES table, read, changes

Reading == INSTANCE LeaseReads

----------------------------------------------------------------------------
(* LeaseEdits: the invariant.                                              *)

EditType == [client: Clients \union {Keep}, name: Names \union {Keep}, life: Lives \union {Keep}]

\* The Leases that a change is about were shown, and the one it was compared
\* with agrees with what was shown wherever that matters.
ChangeOK(m) ==
    /\ m.pc = "form" => m.shown.at \in Addresses
    /\ m.pc \in {"check", "update", "delete"} =>
          (\A s \in m.todo : s.at \in Addresses) /\ m.edit \in EditType \union {NoEdit}
    /\ m.pc \in {"update", "delete"} =>
          m.shown \in m.todo /\ m.fresh \in Lease /\ Conflicts(m.shown, m.fresh, m.edit) = {}
    /\ m.pc = "update" => m.edit # NoEdit

\* A row of a file waits, was created, or failed.
RowsOK(m) ==
    /\ m.pc = "add" => m.rows \subseteq Requests /\ m.rows \intersect (m.created \union m.failed) = {}
    /\ m.pc = "imported" => m.rows = {}
    /\ m.pc \in {"add", "imported"} => m.created \intersect m.failed = {}
    /\ m.pc = "readback" => m.request \in Requests

\* A claim holds a Lease of the client that was asked for.
ClaimOK(m) ==
    /\ m.pc \in {"claim", "claimed"} => m.lease \in Lease /\ m.lease.client = m.client
    /\ m.pc = "claimed" =>
          m.lease.state = "assigned" /\ (m.lease.life # Infinite => m.time <= m.lease.cltt + m.lease.life)

PageOK(m) == ChangeOK(m) /\ RowsOK(m) /\ ClaimOK(m)

IInv ==
    /\ lease \in [Addresses -> Lease \union {None}]
    /\ now \in 0..MaxTime
    /\ DOMAIN page = Pages
    /\ \A p \in Pages : PageOK(page[p])

LEMMA InitOK == Init => IInv
BY EditsAssumption DEF Init, IInv, PageOK, ChangeOK, RowsOK, ClaimOK, Idle

\* A step of a page leaves the others alone.
LEMMA Goes ==
    ASSUME IInv, NEW p \in Pages, NEW me, PageOK(me), Go(p, me)
    PROVE  DOMAIN page' = Pages /\ \A q \in Pages : PageOK(page'[q])
BY DEF IInv, Go

LEMMA ReadsOK ==
    ASSUME IInv, NEW p \in Pages, NEW me, PageOK(me), Reads(p, me)
    PROVE  IInv'
<1>1. Go(p, me) /\ UNCHANGED <<lease, now>>
  BY DEF Reads
<1>2. DOMAIN page' = Pages /\ \A q \in Pages : PageOK(page'[q])
  BY <1>1, Goes
<1> QED
  BY <1>1, <1>2 DEF IInv

LEMMA OtherOK == ASSUME NEW m, m.pc \in {"idle", "deleted"} PROVE PageOK(m)
BY DEF PageOK, ChangeOK, RowsOK, ClaimOK

LEMMA IdleOK == PageOK(Idle)
BY OtherOK DEF Idle

----------------------------------------------------------------------------
(* LeaseEdits: the steps of a page.                                                    *)

LEMMA OpenOK == ASSUME IInv, NEW p \in Pages, NEW a \in Addresses, Open(p, a) PROVE IInv'
<1>1. PageOK([pc |-> "form", shown |-> [at |-> a, facts |-> Shown(lease[a])]])
  BY DEF PageOK, ChangeOK, RowsOK, ClaimOK
<1> QED
  BY <1>1, ReadsOK DEF Open

LEMMA SyncRowOK == ASSUME IInv, NEW p \in Pages, NEW a \in Addresses, SyncRow(p, a) PROVE IInv'
<1> DEFINE me == [pc |-> "claim", at |-> a, lease |-> lease[a], client |-> lease[a].client]
<1>1. lease[a] \in Lease
  BY DEF IInv, SyncRow
<1>2. PageOK(me)
  BY <1>1 DEF PageOK, ChangeOK, RowsOK, ClaimOK
<1>3. Reads(p, me)
  BY DEF SyncRow
<1> QED
  BY <1>2, <1>3, ReadsOK

LEMMA SubmitEditOK == ASSUME IInv, NEW p \in Pages, SubmitEdit(p) PROVE IInv'
<1>1. PICK edit \in Edits(page[p].shown.facts) :
        Reads(p, [pc |-> "check", todo |-> {page[p].shown}, edit |-> edit, gone |-> {}])
  BY DEF SubmitEdit
<1>2. edit \in EditType
  BY DEF Edits, EditType
<1>3. page[p].shown.at \in Addresses
  BY DEF SubmitEdit, IInv, PageOK, ChangeOK
<1> DEFINE me == [pc |-> "check", todo |-> {page[p].shown}, edit |-> edit, gone |-> {}]
<1>4. PageOK(me)
  BY <1>2, <1>3 DEF PageOK, ChangeOK, RowsOK, ClaimOK
<1> QED
  BY <1>1, <1>4, ReadsOK

LEMMA SubmitDeleteOK == ASSUME IInv, NEW p \in Pages, SubmitDelete(p) PROVE IInv'
<1>1. PICK selected \in SUBSET {a \in Addresses : lease[a] # None} :
        Reads(p, [pc |-> "check", todo |-> {[at |-> a, facts |-> Shown(lease[a])] : a \in selected},
                  edit |-> NoEdit, gone |-> {}])
  BY DEF SubmitDelete
<1> DEFINE me == [pc |-> "check", todo |-> {[at |-> a, facts |-> Shown(lease[a])] : a \in selected},
                  edit |-> NoEdit, gone |-> {}]
<1>2. PageOK(me)
  BY DEF PageOK, ChangeOK, RowsOK, ClaimOK
<1> QED
  BY <1>1, <1>2, ReadsOK

\* The rest of the list is as before.
LEMMA SkipOK ==
    ASSUME NEW m, PageOK(m), m.pc \in {"check", "update", "delete"}, NEW s
    PROVE  PageOK(Skip(m, s))
BY IdleOK DEF Skip, PageOK, ChangeOK, RowsOK, ClaimOK, Idle

LEMMA CheckOK == ASSUME IInv, NEW p \in Pages, Check(p) PROVE IInv'
<1> DEFINE me == page[p]
<1>1. me.pc = "check" /\ PageOK(me)
  BY DEF Check, IInv
<1>2. PICK shown \in me.todo :
        LET fresh == lease[shown.at]
        IN  Reads(p, IF fresh = None THEN Skip(me, shown)
                     ELSE IF Conflicts(shown, fresh, me.edit) # {} THEN Skip(me, shown)
                     ELSE [pc |-> IF me.edit = NoEdit THEN "delete" ELSE "update", todo |-> me.todo, edit |-> me.edit,
                           gone |-> me.gone, shown |-> shown, fresh |-> fresh])
  BY DEF Check
<1> DEFINE fresh == lease[shown.at]
           agreed == [pc |-> IF me.edit = NoEdit THEN "delete" ELSE "update", todo |-> me.todo, edit |-> me.edit,
                      gone |-> me.gone, shown |-> shown, fresh |-> fresh]
<1>3. PageOK(Skip(me, shown))
  BY <1>1, SkipOK
<1>4. fresh \in Lease \union {None}
  BY <1>1 DEF IInv, PageOK, ChangeOK
<1>5. ASSUME fresh # None, Conflicts(shown, fresh, me.edit) = {}
      PROVE  PageOK(agreed)
  BY <1>1, <1>4, <1>5 DEF PageOK, ChangeOK, RowsOK, ClaimOK
<1> QED
  BY <1>2, <1>3, <1>5, ReadsOK

LEMMA CheckFailsOK == ASSUME IInv, NEW p \in Pages, CheckFails(p) PROVE IInv'
<1>1. page[p].pc = "check" /\ PageOK(page[p])
  BY DEF CheckFails, IInv
<1>2. PICK shown \in page[p].todo : Go(p, Skip(page[p], shown))
  BY DEF CheckFails
<1>3. PageOK(Skip(page[p], shown))
  BY <1>1, SkipOK
<1>4. DOMAIN page' = Pages /\ \A q \in Pages : PageOK(page'[q])
  BY <1>2, <1>3, Goes
<1> QED
  BY <1>4 DEF CheckFails, IInv

LEMMA RefusedOK == ASSUME IInv, NEW p \in Pages, Refused(p) PROVE IInv'
BY IdleOK, ReadsOK DEF Refused

LEMMA CloseOK == ASSUME IInv, NEW p \in Pages, Close(p) PROVE IInv'
BY IdleOK, ReadsOK DEF Close

\* What an update sends, and what Kea then holds.
Sent(me) ==
    LET body == Body(me.shown, me.fresh, me.edit)
        cltt == Expiration(me.fresh, me.edit)
    IN  [client |-> body.client, name |-> body.name, life |-> body.life, kept |-> body.kept,
         state |-> body.state, cltt |-> IF cltt = Keep THEN now ELSE cltt]

LEMMA SentOK == ASSUME IInv, NEW p \in Pages, page[p].pc = "update" PROVE Sent(page[p]) \in Lease
<1> DEFINE me == page[p]
<1>1. me.fresh \in Lease /\ (me.edit \in EditType \/ me.edit = NoEdit) /\ me.edit # NoEdit
  BY DEF IInv, PageOK, ChangeOK
<1>2. me.edit \in EditType
  BY <1>1
<1>3. now \in 0..MaxTime
  BY DEF IInv
<1> QED
  BY <1>1, <1>2, <1>3 DEF Sent, Body, Expiration, Lease, EditType

LEMMA UpdateOK == ASSUME IInv, NEW p \in Pages, Update(p) PROVE IInv'
<1>1. lease' = [lease EXCEPT ![page[p].shown.at] = Sent(page[p])] /\ Go(p, Idle) /\ now' = now
  BY DEF Update, Sent
<1>2. Sent(page[p]) \in Lease
  BY SentOK DEF Update
<1>3. DOMAIN page' = Pages /\ \A q \in Pages : PageOK(page'[q])
  BY <1>1, IdleOK, Goes
<1> QED
  BY <1>1, <1>2, <1>3 DEF IInv

LEMMA DeleteOK == ASSUME IInv, NEW p \in Pages, Delete(p) PROVE IInv'
<1> DEFINE me == page[p]
           a == me.shown.at
<1>1. me.pc = "delete" /\ PageOK(me)
  BY DEF Delete, IInv
<1>2. PICK gone :
        /\ lease' = [lease EXCEPT ![a] = None]
        /\ Go(p, IF me.todo = {me.shown} THEN [pc |-> "deleted", gone |-> gone]
                 ELSE [pc |-> "check", todo |-> me.todo \ {me.shown}, edit |-> me.edit, gone |-> gone])
        /\ now' = now
  BY DEF Delete
<1>3. PageOK([pc |-> "deleted", gone |-> gone])
  BY OtherOK
<1> DEFINE rest == [pc |-> "check", todo |-> me.todo \ {me.shown}, edit |-> me.edit, gone |-> gone]
<1>4. PageOK(rest)
  BY <1>1 DEF PageOK, ChangeOK, RowsOK, ClaimOK
<1>5. DOMAIN page' = Pages /\ \A q \in Pages : PageOK(page'[q])
  BY <1>2, <1>3, <1>4, Goes
<1> QED
  BY <1>2, <1>5 DEF IInv

LEMMA StartAddOK == ASSUME IInv, NEW p \in Pages, StartAdd(p) PROVE IInv'
<1>1. PICK request \in Requests, sync \in BOOLEAN :
        Reads(p, [pc |-> "add", rows |-> {request}, single |-> TRUE, sync |-> sync, created |-> {}, failed |-> {}])
  BY DEF StartAdd
<1> DEFINE me == [pc |-> "add", rows |-> {request}, single |-> TRUE, sync |-> sync, created |-> {}, failed |-> {}]
<1>2. PageOK(me)
  BY DEF PageOK, ChangeOK, RowsOK, ClaimOK
<1> QED
  BY <1>1, <1>2, ReadsOK

LEMMA StartImportOK == ASSUME IInv, NEW p \in Pages, StartImport(p) PROVE IInv'
<1>1. PICK rows \in Imports :
        Reads(p, [pc |-> "add", rows |-> rows, single |-> FALSE, sync |-> FALSE, created |-> {}, failed |-> {}])
  BY DEF StartImport
<1> DEFINE me == [pc |-> "add", rows |-> rows, single |-> FALSE, sync |-> FALSE, created |-> {}, failed |-> {}]
<1>2. PageOK(me)
  BY EditsAssumption DEF PageOK, ChangeOK, RowsOK, ClaimOK
<1> QED
  BY <1>1, <1>2, ReadsOK

\* A row that was tried does not wait any more.
LEMMA AfterRowOK ==
    ASSUME NEW m, PageOK(m), m.pc = "add", NEW request \in m.rows, NEW result
    PROVE  PageOK(AfterRow(m, request, result))
<1>1. request \in Requests /\ request \notin m.created \union m.failed
  BY DEF PageOK, RowsOK
<1> DEFINE created == IF Confirmed(result) THEN m.created \union {request} ELSE m.created
           failed == Failed(m, request, result)
           next == [pc |-> IF m.rows = {request} THEN "imported" ELSE "add", rows |-> m.rows \ {request},
                    single |-> FALSE, sync |-> FALSE, created |-> created, failed |-> failed]
           back == [pc |-> "readback", request |-> request, sync |-> m.sync]
<1>2. created \intersect failed = {} /\ (created \union failed) \intersect (m.rows \ {request}) = {}
  BY <1>1 DEF PageOK, RowsOK, Failed
<1>3. PageOK(next)
  <2> HIDE DEF created, failed
  <2> QED
    BY <1>2 DEF PageOK, ChangeOK, RowsOK, ClaimOK
<1>4. PageOK(back)
  BY <1>1 DEF PageOK, ChangeOK, RowsOK, ClaimOK
<1> QED
  BY <1>3, <1>4, IdleOK DEF AfterRow

LEMMA AddOK == ASSUME IInv, NEW p \in Pages, Add(p) PROVE IInv'
<1>1. page[p].pc = "add" /\ PageOK(page[p])
  BY DEF Add, IInv
<1>2. PICK request \in page[p].rows :
        \E result \in IF lease[request.at] # None THEN {"refused"} ELSE {"created", "lost"},
           name \in IF request.name = Keep THEN Names ELSE {request.name},
           life \in IF request.life = Keep THEN Lives ELSE {request.life} :
           /\ lease' = IF result = "refused" THEN lease
                       ELSE [lease EXCEPT ![request.at] =
                               [client |-> request.client, name |-> name, life |-> life, kept |-> 0, cltt |-> now,
                                state |-> "assigned"]]
           /\ Go(p, AfterRow(page[p], request, result))
  BY ZenonT(60) DEF Add
<1>3. request \in Requests
  BY <1>1 DEF PageOK, RowsOK
<1>4. PICK result \in IF lease[request.at] # None THEN {"refused"} ELSE {"created", "lost"},
           name \in IF request.name = Keep THEN Names ELSE {request.name},
           life \in IF request.life = Keep THEN Lives ELSE {request.life} :
           /\ lease' = IF result = "refused" THEN lease
                       ELSE [lease EXCEPT ![request.at] =
                               [client |-> request.client, name |-> name, life |-> life, kept |-> 0, cltt |-> now,
                                state |-> "assigned"]]
           /\ Go(p, AfterRow(page[p], request, result))
  BY <1>2, Zenon
<1> DEFINE new == [client |-> request.client, name |-> name, life |-> life, kept |-> 0, cltt |-> now, state |-> "assigned"]
<1>5. new \in Lease
  BY <1>3, EditsAssumption DEF Requests, Lease, IInv
<1>6. PageOK(AfterRow(page[p], request, result))
  BY <1>1, AfterRowOK
<1>7. DOMAIN page' = Pages /\ \A q \in Pages : PageOK(page'[q])
  BY <1>4, <1>6, Goes
<1>8. lease' \in [Addresses -> Lease \union {None}]
  <2> HIDE DEF new
  <2> QED
    BY <1>4, <1>5 DEF IInv, new
<1> QED
  BY <1>7, <1>8 DEF Add, IInv

LEMMA ReadBackOK == ASSUME IInv, NEW p \in Pages, ReadBack(p) PROVE IInv'
<1> DEFINE me == page[p]
           l == lease[me.request.at]
           claim == [pc |-> "claim", at |-> me.request.at, lease |-> l, client |-> me.request.client]
<1>1. me.pc = "readback" /\ PageOK(me)
  BY DEF ReadBack, IInv
<1>2. me.request.at \in Addresses
  BY <1>1 DEF PageOK, RowsOK, Requests
<1>3. l \in Lease \union {None}
  BY <1>2 DEF IInv
<1>4. ASSUME l # None, ~Mismatch(me.request, l) PROVE PageOK(claim)
  BY <1>3, <1>4 DEF PageOK, ChangeOK, RowsOK, ClaimOK, Mismatch
<1> QED
  BY <1>4, IdleOK, ReadsOK DEF ReadBack

\* A current Lease has not ended.
LEMMA ClaimStepOK == ASSUME IInv, NEW p \in Pages, Claim(p) PROVE IInv'
<1> DEFINE me == page[p]
           claimed == [pc |-> "claimed", at |-> me.at, lease |-> me.lease, client |-> me.client, time |-> now]
<1>1. me.pc = "claim" /\ PageOK(me)
  BY DEF Claim, IInv
<1>2. me.lease \in Lease /\ me.lease.client = me.client
  BY <1>1 DEF PageOK, ClaimOK
<1>3. ASSUME Claimable(me.lease)
      PROVE  me.lease.state = "assigned" /\ (me.lease.life # Infinite => now <= me.lease.cltt + me.lease.life)
  <2>0. now \in 0..MaxTime /\ MaxTime \in Nat /\ Lives \subseteq Nat \union {Infinite}
    BY EditsAssumption DEF IInv
  <2>1. me.lease.cltt \in Nat /\ me.lease.life \in Nat \union {Infinite} /\ now \in Nat
    <3>1. me.lease.cltt \in 0..MaxTime /\ me.lease.life \in Lives
      BY <1>2 DEF Lease
    <3>2. me.lease.life \in Nat \union {Infinite}
      BY <2>0, <3>1
    <3>3. me.lease.cltt \in Nat /\ now \in Nat
      <4> HIDE DEF me
      <4> QED
        BY <2>0, <3>1, SMT
    <3> QED
      BY <3>2, <3>3
  <2> QED
    BY <1>3, <2>1 DEF Claimable, IsCurrent, Ended
<1>4. ASSUME Claimable(me.lease) PROVE PageOK(claimed)
  BY <1>2, <1>3, <1>4 DEF PageOK, ChangeOK, RowsOK, ClaimOK
<1> QED
  BY <1>4, IdleOK, ReadsOK DEF Claim

----------------------------------------------------------------------------
(* Every step.                                                             *)

LEMMA WorldOK == ASSUME IInv, (\E a \in Addresses : ClientChanges(a)) \/ Tick \/ UNCHANGED vars PROVE IInv'
<1>1. CASE \E a \in Addresses : ClientChanges(a)
  BY <1>1 DEF ClientChanges, IInv
<1>2. CASE Tick
  BY <1>2, EditsAssumption DEF Tick, IInv
<1>3. CASE UNCHANGED vars
  BY <1>3 DEF vars, IInv
<1> QED
  BY <1>1, <1>2, <1>3

LEMMA StepOK == IInv /\ [Next]_vars => IInv'
<1> SUFFICES ASSUME IInv, [Next]_vars PROVE IInv'
  OBVIOUS
<1>1. ASSUME NEW p \in Pages, NEW a \in Addresses, Open(p, a) \/ SyncRow(p, a) PROVE IInv'
  BY <1>1, OpenOK, SyncRowOK
<1>2. ASSUME NEW p \in Pages,
             SubmitEdit(p) \/ SubmitDelete(p) \/ Check(p) \/ CheckFails(p) \/ Update(p) \/ Refused(p) \/ Delete(p)
      PROVE  IInv'
  BY <1>2, SubmitEditOK, SubmitDeleteOK, CheckOK, CheckFailsOK, UpdateOK, RefusedOK, DeleteOK
<1>3. ASSUME NEW p \in Pages, StartAdd(p) \/ StartImport(p) \/ Add(p) \/ ReadBack(p) \/ Claim(p) \/ Close(p)
      PROVE  IInv'
  BY <1>3, StartAddOK, StartImportOK, AddOK, ReadBackOK, ClaimStepOK, CloseOK
<1> QED
  BY <1>1, <1>2, <1>3, WorldOK DEF Next

LEMMA IInvAlways == Spec => []IInv
BY InitOK, StepOK, PTL DEF Spec

(* The Leases, the time and the pages keep their types, and no row of a    *)
(* file is both created and failed.                                        *)
THEOREM TypeCorrect == Spec => []TypeOK
<1>1. IInv => TypeOK
  BY DEF IInv, TypeOK, PageOK, RowsOK
<1> QED
  BY <1>1, IInvAlways, PTL

(* A Sync claims a Lease of the client that was asked for, which has not   *)
(* ended, whatever happened since the request.                             *)
THEOREM ClaimsCorrect == Spec => []ClaimsRequested
<1>1. IInv => ClaimsRequested
  BY DEF IInv, ClaimsRequested, PageOK, ClaimOK
<1> QED
  BY <1>1, IInvAlways, PTL

----------------------------------------------------------------------------
(* What a change writes.                                                   *)

\* Only the page itself leaves a change.
LEMMA OwnStep ==
    ASSUME IInv, [Next]_vars, NEW p \in Pages, Changing(p)
    PROVE  Update(p) \/ Delete(p)
<1>0. page'[p] # page[p] /\ lease' # lease
  BY DEF Changing, Undisturbed
<1>1. PICK q \in Pages :
        \/ \E a \in Addresses : Open(q, a) \/ SyncRow(q, a)
        \/ SubmitEdit(q) \/ SubmitDelete(q) \/ Check(q) \/ CheckFails(q) \/ Update(q) \/ Refused(q) \/ Delete(q)
        \/ StartAdd(q) \/ StartImport(q) \/ Add(q) \/ ReadBack(q) \/ Claim(q) \/ Close(q)
  BY <1>0 DEF Next, vars, ClientChanges, Tick
<1>2. Update(q) \/ Delete(q) \/ Add(q)
  <2>1. ASSUME NEW me, Reads(q, me) PROVE FALSE
    BY <2>1, <1>0 DEF Reads
  <2> QED
    BY <1>0, <1>1, <2>1 DEF Open, SyncRow, SubmitEdit, SubmitDelete, Check, CheckFails, Refused, StartAdd, StartImport,
       ReadBack, Claim, Close
<1>3. PICK me : Go(q, me)
  BY <1>2 DEF Update, Delete, Add
<1>4. q = p
  BY <1>0, <1>3 DEF Go, IInv
<1>5. page[p].pc \in {"update", "delete"}
  BY DEF Changing, Undisturbed
<1> QED
  BY <1>2, <1>4, <1>5 DEF Add

SeenStep ==
    \A p \in Pages : Changing(p) =>
        LET me == page[p]
            was == lease[me.shown.at]
        IN  /\ was.client = me.shown.facts.client
            /\ \A f \in Written(me.edit) : was[f] = me.shown.facts[f]

\* The fresh Lease has no conflict with what was shown, and is still there.
LEMMA SeenOK == IInv /\ [Next]_vars => SeenStep
<1> SUFFICES ASSUME IInv, NEW p \in Pages, Changing(p)
             PROVE  /\ lease[page[p].shown.at].client = page[p].shown.facts.client
                    /\ \A f \in Written(page[p].edit) : lease[page[p].shown.at][f] = page[p].shown.facts[f]
  BY DEF SeenStep
<1> DEFINE me == page[p]
<1>1. lease[me.shown.at] = me.fresh /\ Conflicts(me.shown, me.fresh, me.edit) = {}
  BY DEF Changing, Undisturbed, IInv, PageOK, ChangeOK
<1>2. \A f \in Compared(me.edit) : Shown(me.fresh)[f] = me.shown.facts[f]
  BY <1>1 DEF Conflicts
<1>3. Compared(me.edit) \subseteq Facts /\ "client" \in Compared(me.edit) /\ Written(me.edit) \subseteq Compared(me.edit)
  BY DEF Compared, Written, Facts
<1>4. \A f \in Compared(me.edit) : me.fresh[f] = me.shown.facts[f]
  BY <1>2, <1>3 DEF Shown
<1> QED
  BY <1>1, <1>3, <1>4

KeptStep ==
    \A p \in Pages : Changing(p) /\ page[p].pc = "update" =>
        LET me == page[p]
            was == lease[me.shown.at]
            is == lease'[me.shown.at]
        IN  /\ \A f \in Facts : is[f] = IF f \in Written(me.edit) THEN me.edit[f] ELSE was[f]
            /\ is.kept = was.kept /\ is.state = was.state
            /\ is.cltt = IF "life" \in Written(me.edit) THEN now ELSE was.cltt

\* What an update sends differs from the fresh Lease only where it is written.
LEMMA SentKeeps ==
    ASSUME NEW me, me.fresh \in Lease
    PROVE  /\ \A f \in Facts : Sent(me)[f] = IF f \in Written(me.edit) THEN me.edit[f] ELSE me.fresh[f]
           /\ Sent(me).kept = me.fresh.kept /\ Sent(me).state = me.fresh.state
           /\ Sent(me).cltt = IF "life" \in Written(me.edit) THEN now ELSE me.fresh.cltt
<1>1. me.fresh.cltt # Keep
  BY EditsAssumption DEF Lease
<1>2. \A f \in Facts : f \in Written(me.edit) <=> me.edit[f] # Keep
  BY DEF Written
<1>3. Facts = {"client", "name", "life"}
  BY DEF Facts
<1>4. /\ Sent(me).client = IF me.edit.client = Keep THEN me.fresh.client ELSE me.edit.client
      /\ Sent(me).name = IF me.edit.name = Keep THEN me.fresh.name ELSE me.edit.name
      /\ Sent(me).life = IF me.edit.life = Keep THEN me.fresh.life ELSE me.edit.life
      /\ Sent(me).kept = me.fresh.kept /\ Sent(me).state = me.fresh.state
      /\ Sent(me).cltt = IF me.edit.life = Keep THEN me.fresh.cltt ELSE now
  BY <1>1 DEF Sent, Body, Expiration
<1> QED
  BY <1>2, <1>3, <1>4

LEMMA KeptOK == IInv /\ [Next]_vars => KeptStep
<1> SUFFICES ASSUME IInv, [Next]_vars, NEW p \in Pages, Changing(p), page[p].pc = "update"
             PROVE  LET me == page[p]
                        was == lease[me.shown.at]
                        is == lease'[me.shown.at]
                    IN  /\ \A f \in Facts : is[f] = IF f \in Written(me.edit) THEN me.edit[f] ELSE was[f]
                        /\ is.kept = was.kept /\ is.state = was.state
                        /\ is.cltt = IF "life" \in Written(me.edit) THEN now ELSE was.cltt
  BY DEF KeptStep
<1> DEFINE me == page[p]
<1>1. Update(p)
  BY OwnStep DEF Delete
<1>2. lease' = [lease EXCEPT ![me.shown.at] = Sent(me)]
  BY <1>1 DEF Update, Sent
<1>3. me.shown.at \in Addresses /\ me.fresh \in Lease /\ lease[me.shown.at] = me.fresh
  BY DEF Changing, Undisturbed, IInv, PageOK, ChangeOK
<1>4. lease'[me.shown.at] = Sent(me)
  BY <1>2, <1>3 DEF IInv
<1> QED
  BY <1>3, <1>4, SentKeeps

(* An edit or a delete hits only a Lease that still is what its page       *)
(* showed, and an edit writes what was entered and keeps the rest as Kea   *)
(* holds it.                                                               *)
THEOREM WritesAsSeen == Spec => WrittenAsSeen
<1>1. IInv /\ [Next]_vars =>
        \A p \in Pages : Changing(p) =>
          LET me == page[p]
              was == lease[me.shown.at]
          IN  /\ was.client = me.shown.facts.client
              /\ \A f \in Written(me.edit) : was[f] = me.shown.facts[f]
  BY SeenOK DEF SeenStep
<1>2. IInv /\ [Next]_vars =>
        \A p \in Pages : Changing(p) /\ page[p].pc = "update" =>
          LET me == page[p]
              was == lease[me.shown.at]
              is == lease'[me.shown.at]
          IN  /\ \A f \in Facts : is[f] = IF f \in Written(me.edit) THEN me.edit[f] ELSE was[f]
              /\ is.kept = was.kept /\ is.state = was.state
              /\ is.cltt = IF "life" \in Written(me.edit) THEN now ELSE was.cltt
  BY KeptOK DEF KeptStep
<1> QED
  BY <1>1, <1>2, IInvAlways, PTL DEF Spec, WrittenAsSeen, SeenBeforeWritten, UnwrittenKept

----------------------------------------------------------------------------
(* LeaseReads: the ranks in a set of addresses.                            *)

\* Reading has a Cardinality of its own.
LEMMA Same == \A S : Reading!Cardinality(S) = Cardinality(S)
BY DEF Reading!Cardinality, Cardinality

Ranks(S) == [a \in S |-> Reading!Rank(a, S)]

LEMMA RankOK ==
    ASSUME NEW S \in SUBSET Nat, IsFiniteSet(S)
    PROVE  Ranks(S) \in Bijection(S, 1..Cardinality(S))
<1> DEFINE Below(a) == {b \in S : b <= a}
<1>1. ASSUME NEW a \in S PROVE IsFiniteSet(Below(a)) /\ Cardinality(Below(a)) \in 1..Cardinality(S)
  <2>1. Below(a) \in SUBSET S /\ Below(a) # {}
    OBVIOUS
  <2>2. IsFiniteSet(Below(a)) /\ Cardinality(Below(a)) <= Cardinality(S)
    BY <2>1, FS_Subset
  <2>3. Cardinality(Below(a)) \in Nat /\ Cardinality(Below(a)) # 0 /\ Cardinality(S) \in Nat
    BY <2>1, <2>2, FS_CardinalityType, FS_EmptySet
  <2> QED
    BY <2>2, <2>3
<1>2. ASSUME NEW a \in S, NEW b \in S, a < b PROVE Cardinality(Below(a)) < Cardinality(Below(b))
  <2>1. Below(a) \in SUBSET Below(b) /\ b \in Below(b) /\ b \notin Below(a)
    <3>1. a \in Nat /\ b \in Nat
      OBVIOUS
    <3>2. ~(b <= a) /\ b <= b
      BY <3>1, <1>2
    <3>3. \A c \in S : c \in Nat /\ (c <= a => c <= b)
      BY <3>1, <1>2
    <3> QED
      BY <3>2, <3>3
  <2>2. Cardinality(Below(a)) <= Cardinality(Below(b))
        /\ (Cardinality(Below(b)) = Cardinality(Below(a)) => Below(b) = Below(a))
    BY <1>1, <2>1, FS_Subset
  <2> HIDE DEF Below
  <2>3. Cardinality(Below(a)) # Cardinality(Below(b))
    BY <2>1, <2>2
  <2>4. Cardinality(Below(a)) \in Nat /\ Cardinality(Below(b)) \in Nat
    BY <1>1
  <2> QED
    BY <2>2, <2>3, <2>4
<1>3. Ranks(S) = [a \in S |-> Cardinality(Below(a))]
  BY Same DEF Ranks, Reading!Rank
<1>4. Ranks(S) \in [S -> 1..Cardinality(S)]
  <2> HIDE DEF Below
  <2> QED
    BY <1>1, <1>3
<1>5. ASSUME NEW a \in S, NEW b \in S, Ranks(S)[a] = Ranks(S)[b] PROVE a = b
  <2>1. Cardinality(Below(a)) = Cardinality(Below(b)) /\ Cardinality(Below(a)) \in Nat
    BY <1>1, <1>3, <1>5
  <2>2. ~(a < b) /\ ~(b < a)
    BY <1>2, <2>1
  <2> QED
    BY <2>2
<1>6. Ranks(S) \in Injection(S, 1..Cardinality(S))
  BY <1>4, <1>5 DEF Injection, IsInjective
<1>7. Cardinality(S) \in Nat
  BY FS_CardinalityType
<1>8. IsFiniteSet(1..Cardinality(S)) /\ Cardinality(1..Cardinality(S)) = Cardinality(S)
  BY <1>7, FS_Interval
<1>9. Ranks(S) \in Surjection(S, 1..Cardinality(S))
  BY <1>6, <1>8, FS_Injection
<1> QED
  BY <1>6, <1>9 DEF Bijection


\* The first ones of a set, in the order of their ranks.
FirstSet(S, limit) == {a \in S : Reading!Rank(a, S) <= limit}
InOrder(S) == [i \in 1..Cardinality(S) |-> CHOOSE a \in S : Reading!Rank(a, S) = i]

LEMMA OrderOK ==
    ASSUME NEW S \in SUBSET Nat, IsFiniteSet(S)
    PROVE  /\ \A i \in 1..Cardinality(S) : InOrder(S)[i] \in S /\ Reading!Rank(InOrder(S)[i], S) = i
           /\ \A a \in S : \E i \in 1..Cardinality(S) : InOrder(S)[i] = a
<1>1. Ranks(S) \in Injection(S, 1..Cardinality(S)) /\ Ranks(S) \in Surjection(S, 1..Cardinality(S))
  BY RankOK DEF Bijection
<1>2. \A a \in S : Ranks(S)[a] = Reading!Rank(a, S)
  BY DEF Ranks
<1> HIDE DEF Ranks
<1>3. \A i \in 1..Cardinality(S) : \E a \in S : Reading!Rank(a, S) = i
  BY <1>1, <1>2 DEF Surjection
<1>4. \A a, b \in S : Reading!Rank(a, S) = Reading!Rank(b, S) => a = b
  BY <1>1, <1>2 DEF Injection, IsInjective
<1>5. \A a \in S : Reading!Rank(a, S) \in 1..Cardinality(S)
  BY <1>1, <1>2 DEF Injection
<1>6. ASSUME NEW i \in 1..Cardinality(S)
      PROVE  InOrder(S)[i] \in S /\ Reading!Rank(InOrder(S)[i], S) = i
  BY <1>3 DEF InOrder
<1>7. ASSUME NEW a \in S PROVE \E i \in 1..Cardinality(S) : InOrder(S)[i] = a
  BY <1>4, <1>5, <1>6
<1> QED
  BY <1>6, <1>7

\* What is below one of the first ones is one of them.
LEMMA Downwards ==
    ASSUME NEW S \in SUBSET Nat, IsFiniteSet(S), NEW limit \in Nat,
           NEW a \in FirstSet(S, limit), NEW c \in S, c <= a
    PROVE  c \in FirstSet(S, limit)
<1> DEFINE Below == {d \in S : d <= a}
           B == {d \in S : d <= c}
<1>1. a \in S /\ Reading!Rank(a, S) <= limit
  BY DEF FirstSet
<1>2. IsFiniteSet(Below)
  <2>1. Below \in SUBSET S
    OBVIOUS
  <2> QED
    BY <2>1, FS_Subset
<1>3. B \in SUBSET Below
  <2>1. \A d \in S : d <= c => d <= a
    BY <1>1
  <2> QED
    BY <2>1
<1>4. Cardinality(B) <= Cardinality(Below) /\ IsFiniteSet(B)
  BY <1>2, <1>3, FS_Subset
<1>5. Reading!Rank(c, S) = Cardinality(B) /\ Reading!Rank(a, S) = Cardinality(Below)
  BY Same DEF Reading!Rank
<1>6. Cardinality(B) \in Nat /\ Cardinality(Below) \in Nat
  BY <1>2, <1>4, FS_CardinalityType
<1> HIDE DEF B, Below
<1>7. Reading!Rank(c, S) <= limit
  BY <1>1, <1>4, <1>5, <1>6
<1> QED
  BY <1>7 DEF FirstSet

LEMMA FirstOK ==
    ASSUME NEW S \in SUBSET Nat, IsFiniteSet(S), NEW limit \in Nat
    PROVE  /\ IsFiniteSet(FirstSet(S, limit)) /\ FirstSet(S, limit) \in SUBSET S
           /\ Cardinality(FirstSet(S, limit)) < limit => FirstSet(S, limit) = S
<1> DEFINE F == FirstSet(S, limit)
           n == Cardinality(S)
<1>1. F \in SUBSET S
  BY DEF FirstSet
<1>2. IsFiniteSet(F)
  BY <1>1, FS_Subset
<1>3. Ranks(S) \in Bijection(S, 1..n) /\ n \in Nat
  BY RankOK, FS_CardinalityType
<1>4. \A a \in S : Reading!Rank(a, S) \in 1..n
  BY <1>3 DEF Bijection, Injection, Ranks
<1>5. \A i \in 1..n : \E a \in S : Reading!Rank(a, S) = i
  BY <1>3 DEF Bijection, Surjection, Ranks
<1>6. ASSUME F # S, limit # 0 PROVE Cardinality(F) >= limit
  <2>1. PICK b \in S : b \notin F
    BY <1>1, <1>6
  <2>2. limit \in 1..n
    <3>1. ~(Reading!Rank(b, S) <= limit) /\ Reading!Rank(b, S) \in 1..n
      BY <1>4, <2>1 DEF FirstSet
    <3> QED
      BY <1>3, <1>6, <3>1
  <2>3. PICK a \in S : Reading!Rank(a, S) = limit
    BY <1>5, <2>2
  <2> DEFINE Below == {c \in S : c <= a}
  <2>4. Cardinality(Below) = limit
    BY <2>3, Same DEF Reading!Rank
  <2>5. a \in F
    BY <2>3 DEF FirstSet
  <2>6. Below \in SUBSET F
    BY <2>5, Downwards
  <2> HIDE DEF Below, F
  <2>7. Cardinality(Below) <= Cardinality(F)
    BY <1>2, <2>6, FS_Subset
  <2> QED
    BY <2>4, <2>7
<1>7. Cardinality(F) \in Nat
  BY <1>2, FS_CardinalityType
<1> QED
  BY <1>1, <1>2, <1>6, <1>7

----------------------------------------------------------------------------
(* The records of a page.                                                  *)

LeaseType == [address: 1..Last, kind: Kinds, state: Reading!States]
EntryType == [at: 1..Last, raw: Raws]

TableOK == table \in [1..Last -> Raws \union {None}]

\* A sequence of records of the table.
PageOf(entries, n) ==
    /\ n \in Nat /\ DOMAIN entries = 1..n /\ Len(entries) = n
    /\ \A i \in 1..n : entries[i] \in EntryType /\ entries[i].raw = table[entries[i].at]

LEMMA EntriesOK ==
    ASSUME TableOK, NEW n \in Nat, NEW s \in [1..n -> 1..Last], \A i \in 1..n : table[s[i]] # None
    PROVE  PageOf(Reading!Entries(s), n) /\ \A i \in 1..n : Reading!Entries(s)[i].at = s[i]
<1> DEFINE e == [i \in 1..n |-> [at |-> s[i], raw |-> table[s[i]]]]
<1>1. Reading!Entries(s) = e
  BY DEF Reading!Entries
<1>2. \A i \in 1..n : e[i] \in EntryType /\ e[i].at = s[i] /\ e[i].raw = table[e[i].at]
  BY DEF TableOK, EntryType
<1>3. DOMAIN e = 1..n /\ e \in Seq(EntryType)
  BY <1>2
<1>4. Len(e) = n
  BY <1>3
<1> QED
  BY <1>1, <1>2, <1>3, <1>4 DEF PageOf

\* A record is used, or its kind is diagnosed.
LEMMA UsedOK ==
    ASSUME Reading!ReadsAssumption, NEW entries, NEW n, PageOf(entries, n)
    PROVE  /\ Reading!UsedRecords(entries) \subseteq LeaseType /\ Reading!Diagnosed(entries) \subseteq Kinds
           /\ \A i \in 1..n : \/ Reading!Lease(entries[i].at, entries[i].raw) \in Reading!UsedRecords(entries)
                             \/ entries[i].raw.kind \in Reading!Diagnosed(entries)
<1>1. \A raw \in Raws : /\ raw.kind \in Kinds /\ raw.state \in Reading!States
                        /\ Reading!ExcludedKinds(raw) \subseteq Kinds /\ raw.kind \in Reading!ExcludedKinds(raw)
  BY DEF Reading!ReadsAssumption, Reading!ExcludedKinds
<1>2. \A i \in 1..n : entries[i].at \in 1..Last /\ entries[i].raw \in Raws
  BY DEF PageOf, EntryType
<1>3. \A i \in 1..n : Reading!Lease(entries[i].at, entries[i].raw) \in LeaseType
  BY <1>1, <1>2 DEF Reading!Lease, LeaseType
<1>4. DOMAIN entries = 1..n
  BY DEF PageOf
<1>5. Reading!UsedRecords(entries) \subseteq LeaseType
  BY <1>3, <1>4 DEF Reading!UsedRecords
<1>6. Reading!Diagnosed(entries) \subseteq Kinds
  BY <1>1, <1>2, <1>4 DEF Reading!Diagnosed
<1>7. ASSUME NEW i \in 1..n
      PROVE  \/ Reading!Lease(entries[i].at, entries[i].raw) \in Reading!UsedRecords(entries)
             \/ entries[i].raw.kind \in Reading!Diagnosed(entries)
  <2>1. CASE Reading!Usable(entries[i].raw) /\ ~Reading!Repeated(entries, i)
    BY <2>1, <1>4 DEF Reading!UsedRecords
  <2>2. CASE ~(Reading!Usable(entries[i].raw) /\ ~Reading!Repeated(entries, i))
    BY <2>2, <1>1, <1>2, <1>4 DEF Reading!Diagnosed
  <2> QED
    BY <2>1, <2>2
<1> QED
  BY <1>5, <1>6, <1>7

----------------------------------------------------------------------------
(* What Kea answers.                                                       *)

\* A page holds the records after its cursor, up to where the next one begins.
Covers(entries, n, cursor, limit) ==
    LET next == Reading!NextCursor(entries, limit)
    IN  \A a \in Reading!After(cursor) : (next = None \/ a <= next) => \E i \in 1..n : entries[i].at = a

LEMMA AfterOK == ASSUME Last \in Nat, NEW c PROVE Reading!After(c) \in SUBSET Nat /\ IsFiniteSet(Reading!After(c))
<1>1. Reading!After(c) \in SUBSET (1..Last)
  BY DEF Reading!After, Reading!Table
<1>2. IsFiniteSet(1..Last)
  BY FS_Interval
<1> QED
  BY <1>1, <1>2, FS_Subset

LEMMA FirstAfterIs == ASSUME NEW c, NEW limit PROVE Reading!FirstAfter(c, limit) = InOrder(FirstSet(Reading!After(c), limit))
BY Same DEF Reading!FirstAfter, InOrder, FirstSet

LEMMA FetchOK ==
    ASSUME Reading!ReadsAssumption, TableOK, NEW cursor \in Nat, NEW limit \in Nat \ {0}
    PROVE  \E n \in Nat :
              LET s == Reading!FirstAfter(cursor, limit)
              IN  /\ s \in [1..n -> 1..Last] /\ PageOf(Reading!Entries(s), n) /\ Len(s) = n
                  /\ n < limit => \A a \in Reading!After(cursor) : \E i \in 1..n : s[i] = a
                  /\ Reading!PageOk(Reading!Entries(s), cursor, limit) => Covers(Reading!Entries(s), n, cursor, limit)
<1> DEFINE S == Reading!After(cursor)
           F == FirstSet(S, limit)
           n == Cardinality(F)
           s == Reading!FirstAfter(cursor, limit)
           e == Reading!Entries(s)
<1>0. Last \in Nat /\ None \notin Nat
  BY DEF Reading!ReadsAssumption
<1>1. S \in SUBSET Nat /\ IsFiniteSet(S)
  BY <1>0, AfterOK
<1>2. IsFiniteSet(F) /\ F \in SUBSET S /\ (n < limit => F = S)
  BY <1>1, FirstOK
<1>3. n \in Nat
  BY <1>2, FS_CardinalityType
<1>4. s = InOrder(F)
  BY FirstAfterIs
<1>5. \A a \in S : a \in 1..Last /\ table[a] # None
  BY DEF Reading!After, Reading!Table
<1>6. (\A i \in 1..n : s[i] \in F) /\ (\A a \in F : \E i \in 1..n : s[i] = a)
  BY <1>1, <1>2, <1>4, OrderOK
<1>7. s \in [1..n -> 1..Last] /\ (\A i \in 1..n : table[s[i]] # None)
  BY <1>2, <1>4, <1>5, <1>6 DEF InOrder
<1>8. PageOf(e, n) /\ \A i \in 1..n : e[i].at = s[i]
  BY <1>3, <1>7, EntriesOK
<1>9. n < limit => \A a \in S : \E i \in 1..n : s[i] = a
  BY <1>2, <1>6
<1>10. Len(s) = n
  BY <1>3, <1>7
<1>11. ASSUME Reading!PageOk(e, cursor, limit), NEW a \in S,
              Reading!NextCursor(e, limit) = None \/ a <= Reading!NextCursor(e, limit)
       PROVE  \E i \in 1..n : e[i].at = a
  <2>1. Len(e) = n /\ n <= limit /\ (n = limit => Reading!RawAddress(e[limit]) # None)
    BY <1>8, <1>11 DEF PageOf, Reading!PageOk
  <2>2. CASE n < limit
    BY <2>2, <1>8, <1>9
  <2>3. CASE n = limit
    <3>1. Reading!NextCursor(e, limit) = e[limit].at /\ limit \in 1..n
      BY <2>1, <2>3, <1>3 DEF Reading!NextCursor, Reading!RawAddress
    <3>2. e[limit].at = s[limit] /\ s[limit] \in F
      BY <3>1, <1>6, <1>8
    <3>3. a <= s[limit]
      BY <1>0, <1>1, <1>2, <1>11, <3>1, <3>2
    <3>4. a \in F
      BY <1>1, <3>2, <3>3, Downwards
    <3> QED
      BY <3>4, <1>6, <1>8
  <2> QED
    BY <2>1, <2>2, <2>3, <1>3
<1>12. Reading!PageOk(e, cursor, limit) => Covers(e, n, cursor, limit)
  BY <1>11 DEF Covers
<1> QED
  BY <1>3, <1>7, <1>8, <1>9, <1>10, <1>12

----------------------------------------------------------------------------
(* The invariant of a read.                                                *)

Running == {"pages", "page", "probe", "exact", "measure", "search"}
RunType ==
    [pc: Running, odd: BOOLEAN, scope: {"all", "one", "any", "assigned", "declined"}, held: SUBSET LeaseType,
     at: 0..Last, left: SUBSET Kinds, cursor: Nat \union {None}, cap: Caps \union {None}, count: Nat,
     records: SUBSET LeaseType, excluded: SUBSET Kinds]

\* A read holds a Lease, or says that it left out its kind.
Got(r, l) == l \in r.records \/ l.kind \in r.excluded

\* Kea's pages were read up to the cursor.
PagesRead(r) ==
    r.pc \in {"pages", "probe"} =>
        /\ ~Faulty => \A l \in r.held : l.address <= r.cursor => Got(r, l)
        /\ r.cap # None => r.count <= r.cap /\ (r.pc = "pages" => r.count < r.cap)

\* An address was looked up for the kinds that are not left.
LookedUp(r) == r.pc = "exact" => \A l \in r.held : l.address = r.at => l.kind \in r.left \/ Got(r, l)

ScopeOK(r) ==
    /\ r.pc \in {"pages", "page", "probe"} => r.scope = "all" /\ r.cursor \in Nat
    /\ r.pc = "exact" => r.scope = "one" /\ r.at \in 1..Last
    /\ r.pc \in {"measure", "search"} => r.scope \in {"any", "assigned", "declined"}
    /\ r.pc \notin {"pages", "probe"} => r.cap = None
    /\ r.pc = "probe" => r.cap # None

RunOK(r) == r \in RunType /\ ScopeOK(r) /\ PagesRead(r) /\ LookedUp(r)

InScopeOf(r, l) == r.scope \in {"all", "any", l.state} \/ (r.scope = "one" /\ r.at = l.address)

CapsOK(r, covers) ==
    /\ covers => r.cursor = None
    /\ r.cap # None /\ ~covers => r.cursor # None
    /\ r.cap # None => r.count <= r.cap
    /\ r.scope \in Reading!States \union {"any"} /\ Limit # None => r.count <= Limit

MissesNothing(r, covers) == ~Faulty /\ covers => \A l \in r.held : InScopeOf(r, l) => Got(r, l)

ReadInv ==
    /\ TableOK
    /\ read.pc \in Running \union {"idle", "done", "failed"}
    /\ read.pc \in Running => RunOK(read) /\ read.held \subseteq Reading!Present
    /\ ~Faulty => Reading!NothingMissed
    /\ Reading!CapsHold

LEMMA PresentOK == ASSUME Reading!ReadsAssumption, TableOK PROVE Reading!Present \subseteq LeaseType
BY DEF Reading!ReadsAssumption, TableOK, Reading!Present, Reading!Table, Reading!Lease, LeaseType

\* A Lease that Kea holds is the record of its address.
LEMMA HeldIs ==
    ASSUME NEW l \in Reading!Present
    PROVE  /\ l.address \in 1..Last /\ table[l.address] # None
           /\ l = Reading!Lease(l.address, table[l.address])
           /\ l.kind = table[l.address].kind /\ l.state = table[l.address].state
BY DEF Reading!Present, Reading!Table, Reading!Lease

LEMMA ReadInitOK == ASSUME Reading!ReadsAssumption, Reading!Init PROVE ReadInv
BY DEF Reading!Init, Reading!Idle, Reading!Table, ReadInv, TableOK, Running, Reading!NothingMissed, Reading!CapsHold

\* A read goes on.
LEMMA GoesOK ==
    ASSUME ReadInv, NEW r, RunOK(r), r.held = read.held, read.pc \in Running, Reading!Goes(r)
    PROVE  ReadInv'
<1>1. read' = r /\ table' = table
  BY DEF Reading!Goes
<1>2. r.pc \in Running
  BY DEF RunOK, RunType
<1>3. RunOK(read)'
  BY <1>1 DEF RunOK, ScopeOK, PagesRead, LookedUp, Got, RunType, LeaseType, Reading!States
<1> QED
  BY <1>1, <1>2, <1>3 DEF ReadInv, TableOK, Reading!Present, Reading!Table, Reading!Lease, Running,
     Reading!NothingMissed, Reading!CapsHold

LEMMA FailOK == ASSUME ReadInv, Reading!Fail PROVE ReadInv'
BY DEF Reading!Fail, Reading!Goes, ReadInv, TableOK, Running, Reading!NothingMissed, Reading!CapsHold

LEMMA EndOK ==
    ASSUME ReadInv, NEW r, NEW covers \in BOOLEAN, CapsOK(r, covers), MissesNothing(r, covers), Reading!End(r, covers)
    PROVE  ReadInv'
<1>1. CASE Reading!Fail
  BY <1>1, FailOK
<1> DEFINE done == [pc |-> "done", scope |-> r.scope, held |-> r.held, at |-> r.at, cap |-> r.cap, count |-> r.count,
                    records |-> r.records, excluded |-> r.excluded, covers |-> covers, next |-> r.cursor]
<1>2. CASE Reading!Goes(done)
  <2>1. read' = done /\ table' = table
    BY <1>2 DEF Reading!Goes
  <2>2. (~Faulty => Reading!NothingMissed)'
    BY <2>1 DEF MissesNothing, InScopeOf, Got, Reading!NothingMissed, Reading!InScope
  <2>3. Reading!CapsHold'
    BY <2>1 DEF CapsOK, Reading!CapsHold, Reading!States
  <2> QED
    BY <2>1, <2>2, <2>3 DEF ReadInv, TableOK, Running
<1> QED
  BY <1>1, <1>2 DEF Reading!End, Reading!Fail

----------------------------------------------------------------------------
(* The steps of a read.                                                    *)

LEMMA NewReadOK ==
    ASSUME Reading!ReadsAssumption, ReadInv
    PROVE  /\ \A cap \in Caps : RunOK([Reading!NewRead("pages", "all") EXCEPT !.cap = cap])
           /\ \A c \in 0..Last : RunOK([Reading!NewRead("page", "all") EXCEPT !.cursor = c])
           /\ \A a \in 1..Last : RunOK([Reading!NewRead("exact", "one") EXCEPT !.at = a])
           /\ \A pc \in {"search", "measure"}, state \in {"any", "assigned", "declined"} : RunOK(Reading!NewRead(pc, state))
<1>1. Last \in Nat /\ Caps \subseteq (Nat \ {0}) \union {None} /\ None \notin Nat
  BY DEF Reading!ReadsAssumption
<1>2. Reading!Present \subseteq LeaseType
  BY PresentOK DEF ReadInv
<1>3. \A l \in LeaseType : l.address \in 1..Last /\ l.kind \in Kinds /\ ~(l.address <= 0)
  BY <1>1 DEF LeaseType
<1> DEFINE new(pc, scope, at, cursor, cap) ==
      [pc |-> pc, odd |-> FALSE, scope |-> scope, held |-> Reading!Present, at |-> at, left |-> Kinds,
       cursor |-> cursor, cap |-> cap, count |-> 0, records |-> {}, excluded |-> {}]
<1>4. ASSUME NEW cap \in Caps
      PROVE  RunOK([Reading!NewRead("pages", "all") EXCEPT !.cap = cap])
  <2> DEFINE old == new("pages", "all", 0, 0, None)
             r == [old EXCEPT !.cap = cap]
  <2>1. [Reading!NewRead("pages", "all") EXCEPT !.cap = cap] = r
    BY DEF Reading!NewRead, Reading!Start
  <2>2. r \in RunType
    <3>1. old \in RunType
      BY <1>1, <1>2 DEF RunType, Running
    <3> HIDE DEF old
    <3> QED
      BY <1>1, <3>1 DEF RunType
  <2>3. /\ r.pc = "pages" /\ r.scope = "all" /\ r.at = 0 /\ r.cursor = 0 /\ r.cap = cap /\ r.count = 0
        /\ r.left = Kinds /\ r.held = Reading!Present
    OBVIOUS
  <2> HIDE DEF r
  <2>4. RunOK(r)
    BY <1>1, <1>2, <1>3, <2>2, <2>3 DEF RunOK, ScopeOK, PagesRead, LookedUp, Got
  <2> QED
    BY <2>1, <2>4
<1>5. ASSUME NEW c \in 0..Last
      PROVE  RunOK([Reading!NewRead("page", "all") EXCEPT !.cursor = c])
  <2> DEFINE old == new("page", "all", 0, 0, None)
             r == [old EXCEPT !.cursor = c]
  <2>1. [Reading!NewRead("page", "all") EXCEPT !.cursor = c] = r
    BY DEF Reading!NewRead, Reading!Start
  <2>2. r \in RunType
    <3>1. old \in RunType
      BY <1>1, <1>2 DEF RunType, Running
    <3> HIDE DEF old
    <3> QED
      BY <1>1, <3>1 DEF RunType
  <2>3. /\ r.pc = "page" /\ r.scope = "all" /\ r.at = 0 /\ r.cursor = c /\ r.cap = None /\ r.count = 0
        /\ r.left = Kinds /\ r.held = Reading!Present
    OBVIOUS
  <2> HIDE DEF r
  <2>4. RunOK(r)
    BY <1>1, <1>2, <1>3, <2>2, <2>3 DEF RunOK, ScopeOK, PagesRead, LookedUp, Got
  <2> QED
    BY <2>1, <2>4
<1>6. ASSUME NEW a \in 1..Last
      PROVE  RunOK([Reading!NewRead("exact", "one") EXCEPT !.at = a])
  <2> DEFINE old == new("exact", "one", 0, 0, None)
             r == [old EXCEPT !.at = a]
  <2>1. [Reading!NewRead("exact", "one") EXCEPT !.at = a] = r
    BY DEF Reading!NewRead, Reading!Start
  <2>2. r \in RunType
    <3>1. old \in RunType
      BY <1>1, <1>2 DEF RunType, Running
    <3> HIDE DEF old
    <3> QED
      BY <1>1, <3>1 DEF RunType
  <2>3. /\ r.pc = "exact" /\ r.scope = "one" /\ r.at = a /\ r.cursor = 0 /\ r.cap = None /\ r.count = 0
        /\ r.left = Kinds /\ r.held = Reading!Present
    OBVIOUS
  <2> HIDE DEF r
  <2>4. RunOK(r)
    BY <1>1, <1>2, <1>3, <2>2, <2>3 DEF RunOK, ScopeOK, PagesRead, LookedUp, Got
  <2> QED
    BY <2>1, <2>4
<1>7. ASSUME NEW pc \in {"search", "measure"}, NEW state \in {"any", "assigned", "declined"}
      PROVE  RunOK(Reading!NewRead(pc, state))
  <2>1. Reading!NewRead(pc, state) = new(pc, state, 0, 0, None)
    BY DEF Reading!NewRead, Reading!Start
  <2>2. RunOK(new(pc, state, 0, 0, None))
    BY <1>1, <1>2, <1>3 DEF RunOK, ScopeOK, PagesRead, LookedUp, Got, RunType, Running
  <2> QED
    BY <2>1, <2>2
<1> QED
  BY <1>4, <1>5, <1>6, <1>7

LEMMA BeginOK ==
    ASSUME ReadInv, NEW r, RunOK(r), r.held = Reading!Present, Reading!Begin(r)
    PROVE  ReadInv'
<1>1. read' = r /\ table' = table
  BY DEF Reading!Begin
<1>2. r.pc \in Running
  BY DEF RunOK, RunType
<1>3. RunOK(read)'
  BY <1>1 DEF RunOK, ScopeOK, PagesRead, LookedUp, Got, RunType, LeaseType, Reading!States
<1> QED
  BY <1>1, <1>2, <1>3 DEF ReadInv, TableOK, Reading!Present, Reading!Table, Reading!Lease, Running,
     Reading!NothingMissed, Reading!CapsHold

LEMMA StartOK ==
    ASSUME Reading!ReadsAssumption, ReadInv,
           Reading!StartAll \/ Reading!StartPage \/ Reading!StartExact \/ Reading!StartSearch
    PROVE  ReadInv'
<1>1. CASE Reading!StartAll
  <2>1. PICK cap \in Caps : Reading!Begin([Reading!NewRead("pages", "all") EXCEPT !.cap = cap])
    BY <1>1 DEF Reading!StartAll
  <2>2. [Reading!NewRead("pages", "all") EXCEPT !.cap = cap].held = Reading!Present
    BY DEF Reading!NewRead
  <2> QED
    BY <2>1, <2>2, NewReadOK, BeginOK
<1>2. CASE Reading!StartPage
  <2>1. PICK c \in {Reading!Start} \union Reading!Table :
          Reading!Begin([Reading!NewRead("page", "all") EXCEPT !.cursor = c])
    BY <1>2 DEF Reading!StartPage
  <2>2. c \in 0..Last
    BY <2>1 DEF Reading!Start, Reading!Table, Reading!ReadsAssumption
  <2>3. [Reading!NewRead("page", "all") EXCEPT !.cursor = c].held = Reading!Present
    BY DEF Reading!NewRead
  <2> QED
    BY <2>1, <2>2, <2>3, NewReadOK, BeginOK
<1>3. CASE Reading!StartExact
  <2>1. PICK a \in 1..Last : Reading!Begin([Reading!NewRead("exact", "one") EXCEPT !.at = a])
    BY <1>3 DEF Reading!StartExact, Reading!Table
  <2>2. [Reading!NewRead("exact", "one") EXCEPT !.at = a].held = Reading!Present
    BY DEF Reading!NewRead
  <2> QED
    BY <2>1, <2>2, NewReadOK, BeginOK
<1>4. CASE Reading!StartSearch
  <2>1. PICK pc \in {"search", "measure"}, state \in {"any", "assigned", "declined"} :
          Reading!Begin(Reading!NewRead(pc, state))
    BY <1>4 DEF Reading!StartSearch
  <2>2. Reading!NewRead(pc, state).held = Reading!Present
    BY DEF Reading!NewRead
  <2> QED
    BY <2>1, <2>2, NewReadOK, BeginOK
<1> QED
  BY <1>1, <1>2, <1>3, <1>4

LEMMA ProbeOK == ASSUME Reading!ReadsAssumption, ReadInv, Reading!Probe PROVE ReadInv'
<1>1. /\ RunOK(read) /\ read.pc = "probe" /\ read.held \subseteq Reading!Present /\ TableOK
      /\ read.scope = "all" /\ read.cap # None /\ read.cursor \in Nat /\ read.count <= read.cap
  BY DEF Reading!Probe, ReadInv, Running, RunOK, ScopeOK, PagesRead
<1>2. PICK n \in Nat : LET s == Reading!FirstAfter(read.cursor, 1)
                        IN  /\ s \in [1..n -> 1..Last] /\ PageOf(Reading!Entries(s), n) /\ Len(s) = n
                            /\ n < 1 => \A a \in Reading!After(read.cursor) : \E i \in 1..n : s[i] = a
                            /\ Reading!PageOk(Reading!Entries(s), read.cursor, 1)
                                => Covers(Reading!Entries(s), n, read.cursor, 1)
  <2>1. 1 \in Nat \ {0} /\ read.cursor \in Nat /\ TableOK
    BY <1>1
  <2> QED
    BY <2>1, FetchOK, Zenon
<1> DEFINE r == [read EXCEPT !.cursor = None]
<1>3. r.pc = read.pc /\ r.scope = "all" /\ r.held = read.held /\ r.cap = read.cap /\ r.count = read.count /\ r.cursor = None
      /\ r.records = read.records /\ r.excluded = read.excluded
  BY <1>1 DEF RunOK, RunType
<1>4. ASSUME n = 0 PROVE CapsOK(r, TRUE) /\ MissesNothing(r, TRUE)
  <2>1. Reading!After(read.cursor) = {}
    BY <1>2, <1>4
  <2>2. \A l \in read.held : l.address <= read.cursor
    BY <1>1, <2>1, HeldIs DEF Reading!After, Reading!Table
  <2>3. MissesNothing(r, TRUE)
    BY <1>1, <1>3, <2>2 DEF MissesNothing, Got, RunOK, PagesRead
  <2>4. CapsOK(r, TRUE)
    BY <1>1, <1>3 DEF CapsOK, Reading!States
  <2> QED
    BY <2>3, <2>4
<1>5. CapsOK(read, FALSE) /\ MissesNothing(read, FALSE)
  BY <1>1 DEF CapsOK, MissesNothing, Reading!States, Reading!ReadsAssumption
<1>6. CASE n = 0
  <2>1. Reading!End(r, TRUE)
    BY <1>2, <1>6 DEF Reading!Probe
  <2> QED
    BY <2>1, <1>4, <1>6, EndOK
<1>7. CASE n # 0
  <2>1. Reading!End(read, FALSE)
    BY <1>2, <1>7 DEF Reading!Probe
  <2> QED
    BY <2>1, <1>5, EndOK
<1> QED
  BY <1>6, <1>7

LEMMA LookUpOK == ASSUME Reading!ReadsAssumption, ReadInv, Reading!LookUp PROVE ReadInv'
<1> DEFINE a == read.at
           kind == CHOOSE k \in read.left : TRUE
           raw == table[a]
           found == raw # None /\ raw.kind = kind
           r == [read EXCEPT !.left = @ \ {kind},
                             !.records = IF found /\ Reading!Usable(raw) THEN @ \union {Reading!Lease(a, raw)} ELSE @,
                             !.excluded = IF found /\ ~Reading!Usable(raw) THEN @ \union Reading!ExcludedKinds(raw) ELSE @]
           e == [r EXCEPT !.cursor = None]
<1>1. /\ read \in RunType /\ read.pc = "exact" /\ read.held \subseteq Reading!Present /\ TableOK
      /\ read.scope = "one" /\ read.cap = None /\ LookedUp(read)
      /\ a \in 1..Last
  BY DEF Reading!LookUp, ReadInv, Running, RunOK, ScopeOK
<1>2. /\ r.pc = "exact" /\ r.scope = "one" /\ r.at = a /\ r.cap = None /\ r.held = read.held /\ r.left = read.left \ {kind}
      /\ r.records = IF found /\ Reading!Usable(raw) THEN read.records \union {Reading!Lease(a, raw)} ELSE read.records
      /\ r.excluded = IF found /\ ~Reading!Usable(raw) THEN read.excluded \union Reading!ExcludedKinds(raw) ELSE read.excluded
  BY <1>1 DEF RunType
<1>3. ASSUME found
      PROVE  /\ Reading!Lease(a, raw) \in LeaseType
             /\ Reading!ExcludedKinds(raw) \subseteq Kinds /\ raw.kind \in Reading!ExcludedKinds(raw)
  <2>1. raw \in Raws
    BY <1>1, <1>3 DEF TableOK
  <2>2. raw.kind \in Kinds /\ raw.state \in Reading!States
    BY <2>1 DEF Reading!ReadsAssumption
  <2> HIDE DEF raw, a
  <2> QED
    BY <1>1, <2>2 DEF Reading!Lease, LeaseType, Reading!ExcludedKinds
<1>4. ASSUME NEW l \in read.held, l.address = a PROVE l.kind \in r.left \/ Got(r, l)
  <2>1. raw # None /\ l = Reading!Lease(a, raw) /\ l.kind = raw.kind
    BY <1>1, <1>4, HeldIs
  <2>2. l.kind \in read.left \/ Got(read, l)
    BY <1>1, <1>4 DEF LookedUp
  <2>3. CASE l.kind # kind
    <3> HIDE DEF r, raw, a, kind
    <3> QED
      BY <1>2, <2>2, <2>3 DEF Got
  <2>4. CASE l.kind = kind
    <3>1. found
      BY <2>1, <2>4
    <3>2. raw.kind \in Reading!ExcludedKinds(raw)
      BY <1>3, <3>1
    <3> HIDE DEF r, raw, a, kind
    <3> QED
      BY <1>2, <2>1, <2>4, <3>1, <3>2 DEF Got
  <2> QED
    BY <2>3, <2>4
<1>5. r \in RunType
  <2>1. r.records \in SUBSET LeaseType /\ r.excluded \in SUBSET Kinds
    <3>1. read.records \in SUBSET LeaseType /\ read.excluded \in SUBSET Kinds
      BY <1>1 DEF RunType
    <3> HIDE DEF r, raw, a, kind
    <3> QED
      BY <1>2, <1>3, <3>1
  <2>2. r = [read EXCEPT !.left = r.left, !.records = r.records, !.excluded = r.excluded]
    <3> DEFINE rec == IF found /\ Reading!Usable(raw) THEN read.records \union {Reading!Lease(a, raw)} ELSE read.records
               ex == IF found /\ ~Reading!Usable(raw) THEN read.excluded \union Reading!ExcludedKinds(raw) ELSE read.excluded
    <3>1. r = [read EXCEPT !.left = read.left \ {kind}, !.records = rec, !.excluded = ex]
      BY <1>1 DEF RunType
    <3> HIDE DEF rec, ex, kind, raw, a
    <3> HIDE DEF r
    <3> QED
      BY <1>2, <3>1 DEF rec, ex
  <2>3. r.left \in SUBSET Kinds
    BY <1>1, <1>2 DEF RunType
  <2> HIDE DEF r
  <2> QED
    BY <1>1, <2>1, <2>2, <2>3 DEF RunType
<1>6. RunOK(r)
  <2> HIDE DEF r, kind, raw
  <2> QED
    BY <1>1, <1>2, <1>4, <1>5 DEF RunOK, ScopeOK, PagesRead, LookedUp
<1>7. CASE r.left = {}
  <2>1. Reading!End(e, TRUE)
    BY <1>7 DEF Reading!LookUp
  <2>2. e.scope = "one" /\ e.at = a /\ e.cursor = None /\ e.cap = None /\ e.held = read.held
        /\ e.records = r.records /\ e.excluded = r.excluded
    <3> HIDE DEF r
    <3> QED
      BY <1>2, <1>5 DEF RunType
  <2>3. CapsOK(e, TRUE)
    BY <2>2 DEF CapsOK, Reading!States
  <2>4. MissesNothing(e, TRUE)
    <3>1. ASSUME NEW l \in e.held, InScopeOf(e, l) PROVE Got(e, l)
      <4> HIDE DEF e
      <4>1. l.address = a \/ l.state \in {"one"}
        BY <2>2, <3>1 DEF InScopeOf
      <4>2. l.state \in Reading!States
        BY <1>1, <2>2 DEF RunType, LeaseType
      <4>3. l.address = a
        BY <4>1, <4>2 DEF Reading!States
      <4>4. l.kind \in r.left \/ Got(r, l)
        BY <1>4, <2>2, <4>3
      <4> HIDE DEF r
      <4> QED
        BY <1>7, <2>2, <4>4 DEF Got
    <3> QED
      BY <3>1 DEF MissesNothing
  <2> HIDE DEF e
  <2> QED
    BY <2>1, <2>3, <2>4, EndOK
<1>8. CASE r.left # {}
  <2>1. Reading!Goes(r)
    BY <1>8 DEF Reading!LookUp
  <2>2. read.pc \in Running /\ r.held = read.held
    BY <1>1, <1>2 DEF Running
  <2> HIDE DEF r
  <2> QED
    BY <2>1, <2>2, <1>6, GoesOK
<1> QED
  BY <1>7, <1>8

LEMMA MeasureOK == ASSUME ReadInv, Reading!Measure PROVE ReadInv'
<1>1. RunOK(read) /\ read.pc = "measure"
  BY DEF Reading!Measure, ReadInv, Running
<1> DEFINE r == [read EXCEPT !.pc = "search"]
<1>2. RunOK(r) /\ r.held = read.held /\ read.pc \in Running
  BY <1>1 DEF RunOK, RunType, Running, ScopeOK, PagesRead, LookedUp, Got
<1>3. Reading!Fail \/ Reading!Goes(r)
  BY DEF Reading!Measure
<1> HIDE DEF r
<1> QED
  BY <1>2, <1>3, FailOK, GoesOK

LEMMA SearchOK == ASSUME Reading!ReadsAssumption, ReadInv, Reading!Search PROVE ReadInv'
<1> DEFINE A == {a \in Reading!Table : table[a] # None /\ read.scope \in {"any", table[a].state}}
           n == Cardinality(A)
           e == Reading!Entries(InOrder(A))
           r == [read EXCEPT !.cursor = None, !.count = Len(e), !.records = Reading!UsedRecords(e),
                             !.excluded = Reading!Diagnosed(e)]
<1>1. /\ read \in RunType /\ read.pc = "search" /\ read.held \subseteq Reading!Present /\ TableOK
      /\ read.scope \in {"any", "assigned", "declined"} /\ read.cap = None
  BY DEF Reading!Search, ReadInv, Running, RunOK, ScopeOK
<1>2. Last \in Nat
  BY DEF Reading!ReadsAssumption
<1>3. A \in SUBSET (1..Last) /\ A \in SUBSET Nat /\ IsFiniteSet(A)
  <2>1. A \in SUBSET (1..Last)
    BY DEF Reading!Table
  <2>2. IsFiniteSet(1..Last)
    BY <1>2, FS_Interval
  <2> HIDE DEF A
  <2>3. IsFiniteSet(A)
    BY <2>1, <2>2, FS_Subset
  <2> QED
    BY <1>2, <2>1, <2>3
<1>4. n \in Nat
  BY <1>3, FS_CardinalityType
<1>5. (\A i \in 1..n : InOrder(A)[i] \in A) /\ (\A a \in A : \E i \in 1..n : InOrder(A)[i] = a)
  BY <1>3, OrderOK
<1>6. \A a \in A : table[a] # None
  OBVIOUS
<1>7. InOrder(A) \in [1..n -> 1..Last] /\ \A i \in 1..n : table[InOrder(A)[i]] # None
  <2> HIDE DEF A
  <2> QED
    BY <1>3, <1>5, <1>6 DEF InOrder
<1>8. PageOf(e, n) /\ \A i \in 1..n : e[i].at = InOrder(A)[i]
  BY <1>1, <1>4, <1>7, EntriesOK
<1>9. /\ Reading!UsedRecords(e) \subseteq LeaseType /\ Reading!Diagnosed(e) \subseteq Kinds
      /\ \A i \in 1..n : \/ Reading!Lease(e[i].at, e[i].raw) \in Reading!UsedRecords(e)
                        \/ e[i].raw.kind \in Reading!Diagnosed(e)
  BY <1>8, UsedOK
<1>10. Reading!Fail \/ (~Reading!TooBroad(Len(e)) /\ Reading!End(r, TRUE))
  <2>1. e = Reading!Entries([i \in 1..Reading!Cardinality(A) |-> CHOOSE a \in A : Reading!Rank(a, A) = i])
    BY Same DEF InOrder
  <2> QED
    BY <2>1 DEF Reading!Search
<1>11. CASE Reading!Fail
  BY <1>11, FailOK
<1>12. CASE ~Reading!TooBroad(Len(e)) /\ Reading!End(r, TRUE)
  <2>1. /\ r.cursor = None /\ r.count = Len(e) /\ r.records = Reading!UsedRecords(e) /\ r.excluded = Reading!Diagnosed(e)
        /\ r.scope = read.scope /\ r.held = read.held /\ r.cap = None
    <3> HIDE DEF e
    <3> QED
      BY <1>1 DEF RunType
  <2>2. Len(e) \in Nat
    BY <1>8 DEF PageOf
  <2>3. CapsOK(r, TRUE)
    <3>1. Limit # None => Len(e) <= Limit
      BY <1>12, <2>2 DEF Reading!TooBroad, Reading!ReadsAssumption
    <3> HIDE DEF r, e
    <3> QED
      BY <2>1, <3>1 DEF CapsOK
  <2>4. ASSUME NEW l \in r.held, InScopeOf(r, l) PROVE Got(r, l)
    <3>1. /\ l.address \in 1..Last /\ table[l.address] # None /\ l = Reading!Lease(l.address, table[l.address])
          /\ l.kind = table[l.address].kind /\ l.state = table[l.address].state
      BY <1>1, <2>1, <2>4, HeldIs
    <3>2. read.scope \in {"any", table[l.address].state}
      BY <1>1, <2>1, <2>4, <3>1 DEF InScopeOf
    <3>3. l.address \in A
      BY <3>1, <3>2 DEF Reading!Table
    <3>4. PICK i \in 1..n : InOrder(A)[i] = l.address
      BY <1>5, <3>3
    <3>5. e[i].at = l.address /\ e[i].raw = table[l.address]
      BY <1>8, <3>4 DEF PageOf
    <3> HIDE DEF r, e, A, n
    <3> QED
      BY <1>9, <2>1, <3>1, <3>5 DEF Got
  <2> HIDE DEF r
  <2>5. MissesNothing(r, TRUE)
    BY <2>4 DEF MissesNothing
  <2> QED
    BY <1>12, <2>3, <2>5, EndOK
<1> QED
  BY <1>10, <1>11, <1>12

\* What one page of Kea adds to a read.
LEMMA PageReadOK ==
    ASSUME Reading!ReadsAssumption, TableOK, NEW cursor \in Nat, NEW limit \in Nat \ {0},
           NEW s \in {Reading!FirstAfter(cursor, limit)} \union Reading!Disordered
    PROVE  \E n \in Nat :
              /\ PageOf(Reading!Entries(s), n)
              /\ ~Faulty /\ Reading!PageOk(Reading!Entries(s), cursor, limit)
                    => Covers(Reading!Entries(s), n, cursor, limit)
<1>1. CASE s = Reading!FirstAfter(cursor, limit)
  BY <1>1, FetchOK
<1>2. CASE s \in Reading!Disordered
  <2>1. Faulty
    BY <1>2 DEF Reading!Disordered
  <2>2. PICK n \in 1..2 : s \in [1..n -> 1..Last]
    BY <1>2, <2>1 DEF Reading!Disordered, Reading!Table
  <2>3. \A i \in DOMAIN s : table[s[i]] # None
    BY <1>2, <2>1 DEF Reading!Disordered
  <2>4. n \in Nat /\ DOMAIN s = 1..n
    BY <2>2
  <2>5. PageOf(Reading!Entries(s), n)
    BY <2>2, <2>3, <2>4, EntriesOK
  <2> QED
    BY <2>1, <2>4, <2>5
<1> QED
  BY <1>1, <1>2

LEMMA LimitOK ==
    ASSUME Reading!ReadsAssumption, RunOK(read), read.pc \in {"pages", "page"}
    PROVE  /\ Reading!PageLimit(read) \in Nat \ {0}
           /\ read.cap # None => read.cap \in Nat /\ Reading!PageLimit(read) <= read.cap - read.count
<1>1. read.cap \in Caps \union {None} /\ read.count \in Nat /\ (read.cap # None => read.count < read.cap)
  BY DEF RunOK, RunType, ScopeOK, PagesRead
<1>2. PerPage \in Nat \ {0} /\ Caps \subseteq (Nat \ {0}) \union {None}
  BY DEF Reading!ReadsAssumption
<1>3. CASE read.cap = None
  BY <1>2, <1>3 DEF Reading!PageLimit
<1>4. CASE read.cap # None
  <2>1. read.cap \in Nat /\ read.count \in Nat /\ read.count < read.cap
    BY <1>1, <1>2, <1>4
  <2> QED
    BY <1>2, <1>4, <2>1 DEF Reading!PageLimit, Reading!Least
<1> QED
  BY <1>3, <1>4

LEMMA FetchPageOK == ASSUME Reading!ReadsAssumption, ReadInv, Reading!FetchPage PROVE ReadInv'
<1> DEFINE limit == Reading!PageLimit(read)
<1>1. /\ RunOK(read) /\ read \in RunType /\ read.pc \in {"pages", "page"} /\ read.held \subseteq Reading!Present /\ TableOK
      /\ read.scope = "all" /\ read.cursor \in Nat /\ PagesRead(read) /\ (read.pc = "page" => read.cap = None)
  BY DEF Reading!FetchPage, ReadInv, Running, RunOK, ScopeOK
<1>2. limit \in Nat \ {0} /\ (read.cap # None => read.cap \in Nat /\ limit <= read.cap - read.count)
  BY <1>1, LimitOK
<1>3. PICK s \in {Reading!FirstAfter(read.cursor, limit)} \union Reading!Disordered :
        LET entries == Reading!Entries(s)
            next == Reading!NextCursor(entries, limit)
            merged == [read EXCEPT !.odd = ~@, !.cursor = next,
                                   !.count = IF read.cap = None THEN 0 ELSE @ + Len(entries),
                                   !.records = @ \union Reading!UsedRecords(entries),
                                   !.excluded = @ \union Reading!Diagnosed(entries)]
        IN  IF ~Reading!PageOk(entries, read.cursor, limit) THEN Reading!Fail
            ELSE IF read.pc = "page" THEN Reading!End(merged, read.cursor = Reading!Start /\ next = None)
            ELSE IF next = None THEN Reading!End(merged, TRUE)
            ELSE Reading!Goes(IF Reading!AtCap(merged) THEN [merged EXCEPT !.pc = "probe"] ELSE merged)
  BY Zenon DEF Reading!FetchPage
<1> DEFINE entries == Reading!Entries(s)
           next == Reading!NextCursor(entries, limit)
           merged == [read EXCEPT !.odd = ~@, !.cursor = next,
                                  !.count = IF read.cap = None THEN 0 ELSE @ + Len(entries),
                                  !.records = @ \union Reading!UsedRecords(entries),
                                  !.excluded = @ \union Reading!Diagnosed(entries)]
<1>4. PICK n \in Nat :
        /\ PageOf(entries, n)
        /\ ~Faulty /\ Reading!PageOk(entries, read.cursor, limit) => Covers(entries, n, read.cursor, limit)
  <2> HIDE DEF limit
  <2>1. TableOK /\ read.cursor \in Nat /\ limit \in Nat \ {0}
    BY <1>1, <1>2
  <2>2. s \in {Reading!FirstAfter(read.cursor, limit)} \union Reading!Disordered
    OBVIOUS
  <2> QED
    BY <2>1, <2>2, PageReadOK, Zenon
<1>5. /\ Reading!UsedRecords(entries) \subseteq LeaseType /\ Reading!Diagnosed(entries) \subseteq Kinds
      /\ \A i \in 1..n : \/ Reading!Lease(entries[i].at, entries[i].raw) \in Reading!UsedRecords(entries)
                        \/ entries[i].raw.kind \in Reading!Diagnosed(entries)
  BY <1>4, UsedOK
<1>6. CASE ~Reading!PageOk(entries, read.cursor, limit)
  BY <1>3, <1>6, FailOK
<1>7. CASE Reading!PageOk(entries, read.cursor, limit)
  <2>1. Len(entries) = n /\ n <= limit /\ (n = limit => Reading!RawAddress(entries[limit]) # None)
    BY <1>4, <1>7 DEF PageOf, Reading!PageOk
  <2>2. next \in Nat \union {None}
    <3>1. CASE n = limit
      <4>1. limit \in 1..n
        BY <1>2, <3>1
      <4>2. entries[limit].at \in 1..Last
        BY <1>4, <4>1 DEF PageOf, EntryType
      <4>3. next = entries[limit].at
        BY <2>1, <3>1 DEF Reading!NextCursor, Reading!RawAddress
      <4> QED
        BY <4>2, <4>3
    <3>2. CASE n # limit
      BY <2>1, <3>2 DEF Reading!NextCursor
    <3> QED
      BY <3>1, <3>2
  <2> DEFINE count == IF read.cap = None THEN 0 ELSE read.count + n
  <2>3. /\ merged \in RunType /\ merged.pc = read.pc /\ merged.scope = "all" /\ merged.held = read.held
        /\ merged.cap = read.cap /\ merged.cursor = next /\ merged.count = count
        /\ merged.records = read.records \union Reading!UsedRecords(entries)
        /\ merged.excluded = read.excluded \union Reading!Diagnosed(entries)
    <3>1. count \in Nat
      BY <1>1 DEF RunType
    <3> HIDE DEF next, entries
    <3> QED
      BY <1>1, <1>5, <2>1, <2>2, <3>1 DEF RunType
  <2>4. read.cap # None => count <= read.cap
    <3>1. read.count \in Nat
      BY <1>1 DEF RunType
    <3> HIDE DEF limit
    <3> QED
      BY <1>2, <2>1, <3>1
  <2> HIDE DEF merged, count
  <2>5. ASSUME NEW l \in read.held, ~Faulty, l.address > read.cursor, next = None \/ l.address <= next
        PROVE  Got(merged, l)
    <3>1. /\ l.address \in 1..Last /\ table[l.address] # None /\ l = Reading!Lease(l.address, table[l.address])
          /\ l.kind = table[l.address].kind
      BY <1>1, HeldIs
    <3>2. l.address \in Reading!After(read.cursor)
      BY <2>5, <3>1 DEF Reading!After, Reading!Table
    <3>3. PICK i \in 1..n : entries[i].at = l.address
      BY <1>4, <1>7, <2>5, <3>2 DEF Covers
    <3>4. entries[i].raw = table[l.address]
      BY <1>4, <3>3 DEF PageOf
    <3> HIDE DEF entries
    <3> QED
      BY <1>5, <2>3, <3>1, <3>3, <3>4 DEF Got
  <2>6. ASSUME NEW l, Got(read, l) PROVE Got(merged, l)
    BY <2>3, <2>6 DEF Got
  <2>7. \A l \in read.held : l.address \in 1..Last
    BY <1>1, HeldIs
  <2>8. Last \in Nat /\ None \notin Nat
    BY DEF Reading!ReadsAssumption
  <2> HIDE DEF entries, next, limit
  <2>9. CASE read.pc = "page"
    <3>1. Reading!End(merged, read.cursor = Reading!Start /\ next = None)
      BY <1>3, <1>7, <2>9 DEF merged, entries, next, limit
    <3>2. CapsOK(merged, read.cursor = Reading!Start /\ next = None)
      BY <1>1, <2>3, <2>9 DEF CapsOK, Reading!States
    <3>3. MissesNothing(merged, read.cursor = Reading!Start /\ next = None)
      <4>1. ASSUME ~Faulty, read.cursor = 0, next = None, NEW l \in read.held PROVE Got(merged, l)
        <5>1. l.address > read.cursor
          BY <2>7, <2>8, <4>1
        <5> QED
          BY <2>5, <4>1, <5>1
      <4> QED
        BY <2>3, <4>1 DEF MissesNothing, Reading!Start
    <3>4. (read.cursor = Reading!Start /\ next = None) \in BOOLEAN
      OBVIOUS
    <3> QED
      BY <3>1, <3>2, <3>3, <3>4, EndOK
  <2>10. CASE read.pc = "pages" /\ next = None
    <3>1. Reading!End(merged, TRUE)
      BY <1>3, <1>7, <2>10 DEF merged, entries, next, limit
    <3>2. CapsOK(merged, TRUE)
      BY <2>3, <2>4, <2>10 DEF CapsOK, Reading!States
    <3>3. MissesNothing(merged, TRUE)
      <4>1. ASSUME ~Faulty, NEW l \in read.held PROVE Got(merged, l)
        <5>1. CASE l.address <= read.cursor
          BY <1>1, <2>6, <2>10, <4>1, <5>1 DEF PagesRead
        <5>2. CASE l.address > read.cursor
          BY <2>5, <2>10, <4>1, <5>2
        <5> QED
          BY <1>1, <2>7, <2>8, <5>1, <5>2
      <4> QED
        BY <2>3, <4>1 DEF MissesNothing
    <3> QED
      BY <3>1, <3>2, <3>3, EndOK
  <2>11. CASE read.pc = "pages" /\ next # None
    <3>1. next \in Nat
      BY <2>2, <2>11
    <3> DEFINE r == IF Reading!AtCap(merged) THEN [merged EXCEPT !.pc = "probe"] ELSE merged
    <3>2. Reading!Goes(r)
      BY <1>3, <1>7, <2>11 DEF merged, entries, next, limit
    <3>3. /\ r \in RunType /\ r.pc = (IF Reading!AtCap(merged) THEN "probe" ELSE "pages") /\ r.scope = "all"
          /\ r.held = read.held /\ r.cap = read.cap /\ r.cursor = next /\ r.count = count
          /\ r.records = merged.records /\ r.excluded = merged.excluded
      BY <2>3, <2>11 DEF RunType, Running
    <3>4. Reading!AtCap(merged) <=> read.cap # None /\ count >= read.cap
      BY <2>3 DEF Reading!AtCap
    <3> HIDE DEF r
    <3>5. ASSUME ~Faulty, NEW l \in read.held, l.address <= next PROVE Got(r, l)
      <4>1. Got(merged, l)
        <5>1. CASE l.address <= read.cursor
          BY <1>1, <2>6, <2>11, <3>5, <5>1 DEF PagesRead
        <5>2. CASE l.address > read.cursor
          BY <2>5, <2>11, <3>5, <5>2
        <5> QED
          BY <1>1, <2>7, <2>8, <5>1, <5>2
      <4> QED
        BY <3>3, <4>1 DEF Got
    <3>6. read.cap # None => count <= read.cap /\ (r.pc = "pages" => count < read.cap)
      <4>1. count \in Nat /\ (read.cap # None => read.cap \in Nat)
        BY <1>2, <2>3 DEF RunType
      <4> QED
        BY <2>4, <3>3, <3>4, <4>1
    <3>7. RunOK(r)
      BY <3>1, <3>3, <3>4, <3>5, <3>6 DEF RunOK, ScopeOK, PagesRead, LookedUp
    <3>8. read.pc \in Running
      BY <1>1 DEF Running
    <3> QED
      BY <3>2, <3>3, <3>7, <3>8, GoesOK
  <2> QED
    BY <1>1, <2>9, <2>10, <2>11
<1> QED
  BY <1>6, <1>7

\* A Lease that a read holds to be steady is one that Kea held all the time.
LEMMA LeaseChangesOK == ASSUME Reading!ReadsAssumption, ReadInv, NEW a \in 1..Last, Reading!LeaseChanges(a) PROVE ReadInv'
<1>1. TableOK'
  BY DEF Reading!LeaseChanges, ReadInv, TableOK
<1>2. CASE read.pc \in {"idle", "done", "failed"}
  <2>1. read' = read
    BY <1>2 DEF Reading!LeaseChanges
  <2> QED
    BY <1>1, <1>2, <2>1 DEF ReadInv, Running, Reading!NothingMissed, Reading!InScope, Reading!CapsHold
<1>3. CASE read.pc \notin {"idle", "done", "failed"}
  <2>1. read' = [read EXCEPT !.held = @ \intersect Reading!Present']
    BY <1>3 DEF Reading!LeaseChanges
  <2>2. read.pc \in Running /\ RunOK(read)
    BY <1>3 DEF ReadInv
  <2> DEFINE held == read.held \intersect Reading!Present'
             r == [read EXCEPT !.held = held]
  <2>3. RunOK(r)
    <3>1. held \subseteq read.held
      OBVIOUS
    <3> HIDE DEF held
    <3>2. /\ r \in RunType /\ r.held = held /\ r.pc = read.pc /\ r.scope = read.scope /\ r.at = read.at /\ r.left = read.left
          /\ r.cursor = read.cursor /\ r.cap = read.cap /\ r.count = read.count /\ r.records = read.records
          /\ r.excluded = read.excluded
      BY <2>2, <3>1 DEF RunOK, RunType
    <3> HIDE DEF r
    <3> QED
      BY <2>2, <3>1, <3>2 DEF RunOK, ScopeOK, PagesRead, LookedUp, Got
  <2>4. read' = r
    BY <2>1
  <2>5. r.held \subseteq Reading!Present' /\ r.pc \in Running
    BY <2>2 DEF RunOK, RunType
  <2> HIDE DEF r
  <2>6. RunOK(read)'
    BY <2>3, <2>4 DEF RunOK, ScopeOK, PagesRead, LookedUp, Got, RunType, LeaseType, Reading!States
  <2> QED
    BY <1>1, <2>4, <2>5, <2>6 DEF ReadInv, Running, Reading!NothingMissed, Reading!CapsHold
<1> QED
  BY <1>2, <1>3

LEMMA ReadStepOK == Reading!ReadsAssumption /\ ReadInv /\ [Reading!Next]_Reading!vars => ReadInv'
<1> SUFFICES ASSUME Reading!ReadsAssumption, ReadInv, [Reading!Next]_Reading!vars PROVE ReadInv'
  OBVIOUS
<1>1. CASE Reading!Lost
  BY <1>1, FailOK DEF Reading!Lost
<1>2. CASE Reading!Close
  BY <1>2 DEF Reading!Close, Reading!Idle, ReadInv, TableOK, Running, Reading!NothingMissed, Reading!CapsHold
<1>3. CASE UNCHANGED Reading!vars
  BY <1>3 DEF Reading!vars, ReadInv, TableOK, RunOK, ScopeOK, PagesRead, LookedUp, Got, RunType, LeaseType, Reading!States,
     Reading!Present, Reading!Table, Reading!Lease, Reading!NothingMissed, Reading!InScope, Reading!CapsHold
<1>4. CASE \E a \in Reading!Table : Reading!LeaseChanges(a)
  BY <1>4, LeaseChangesOK DEF Reading!Table
<1>5. CASE Reading!Steps
  BY <1>5, FetchPageOK, ProbeOK, LookUpOK, MeasureOK, SearchOK DEF Reading!Steps
<1> QED
  BY <1>1, <1>2, <1>3, <1>4, <1>5, StartOK DEF Reading!Next

LEMMA ReadInvAlways == ASSUME Reading!ReadsAssumption PROVE Reading!Spec => []ReadInv
<1>1. Reading!Init => ReadInv
  BY ReadInitOK
<1>2. ReadInv /\ [Reading!Next]_Reading!vars => ReadInv'
  BY ReadStepOK
<1> QED
  BY <1>1, <1>2, PTL DEF Reading!Spec

(* A read of the pages, of an address or of a Subnet that says that it     *)
(* covers its scope holds every Lease that Kea held all the time, or names *)
(* its kind, when Kea answers in order.                                    *)
THEOREM ReadsComplete ==
    ASSUME Reading!ReadsAssumption, ~Faulty
    PROVE  Reading!Spec => []Reading!NothingMissed
<1>1. ReadInv => Reading!NothingMissed
  BY DEF ReadInv
<1> QED
  BY <1>1, ReadInvAlways, PTL

(* A read that stops at a cap says so and holds the place to go on from,   *)
(* and no read holds more than its cap or its limit, whatever Kea answers. *)
THEOREM ReadsCapped ==
    ASSUME Reading!ReadsAssumption
    PROVE  Reading!Spec => []Reading!CapsHold
<1>1. ReadInv => Reading!CapsHold
  BY DEF ReadInv
<1> QED
  BY <1>1, ReadInvAlways, PTL

------------------------------------------------------------------------------
(* What a page offers for each Lease (LeaseBadges): the inductive invariant  *)
(* says what the answers of the lookups are worth while Reservations change. *)

CONSTANTS Rows, Address, SubnetOf, Carried, Foreign, Subnets, Identities, Hardware, Threads, Global     \* LeaseBadges
VARIABLES host, task, memo, lock, asked, stays

Badges == INSTANCE LeaseBadges

BadgeAnswers ==
    [kind : {"reservation"}, key : Badges!Keys, held : Badges!Hosts] \union [kind : {"absent", "unknown", "hookless"}]
BadgeTasks == [pc : {"queued", "allocation", "enter", "asking", "done"}, todo : Seq(Badges!Keys), answer : BadgeAnswers]

\* The keys of a row: those of its identities, in its Subnet and Global.
BadgeOfRow(r, k) == k \in Badges!Keys /\ k[1] \in {SubnetOf[r], Global} /\ k[2] \in Badges!Range(Carried[r])

\* An answer says what Kea has for a key that did not change.
BadgeTrueTo(answer) == answer.kind = "reservation" /\ answer.key \in stays => host[answer.key] # None
    /\ answer.held = host[answer.key]
BadgeAbsentFor(k) == host[k] = None \/ k \notin stays

\* What a lookup of a key found.
BadgeMemoOK == \A k \in Badges!Keys :
    /\ memo[k].kind = "reservation" => memo[k].key = k
    /\ BadgeTrueTo(memo[k])
    /\ memo[k] = Badges!Absent => BadgeAbsentFor(k)

\* The keys that can match the row and that it has passed had no Reservation.
BadgePassed(r, k) == ~\E i \in 1..Len(task[r].todo) : task[r].todo[i] = k
BadgeRowOK(r) ==
    /\ task[r].pc \in {"enter", "asking"} =>
          /\ SubnetOf[r] # None /\ task[r].todo # <<>>
          /\ \A i \in 1..Len(task[r].todo) : BadgeOfRow(r, task[r].todo[i])
          /\ \A k \in stays : Badges!Matches(r, k) => ~BadgePassed(r, k)
    /\ task[r].pc = "allocation" => SubnetOf[r] # None
    /\ task[r].pc = "done" /\ task[r].answer = Badges!Absent => \A k \in stays : ~Badges!Matches(r, k)
    /\ task[r].pc = "done" /\ task[r].answer.kind = "reservation" =>
          BadgeTrueTo(task[r].answer) /\ (task[r].answer.key \in stays => Badges!Matches(r, task[r].answer.key))

BadgePageOK ==
    \/ page = <<>>
    \/ /\ \A r \in Rows : task[r].pc = "done"
       /\ page = [r \in Rows |-> [create |-> Badges!Create(r), sync |-> Badges!Sync(r)]]

BadgeTypes == host \in [Badges!Keys -> Badges!Hosts] /\ task \in [Rows -> BadgeTasks]
    /\ memo \in [Badges!Keys -> BadgeAnswers] /\ stays \subseteq Badges!Keys

BadgeIInv == BadgeTypes /\ BadgeMemoOK /\ (\A r \in Rows : BadgeRowOK(r)) /\ BadgePageOK

LEMMA BadgeAnswersIs ==
    /\ Badges!Absent \in BadgeAnswers /\ Badges!Unknown \in BadgeAnswers /\ Badges!Hookless \in BadgeAnswers
    /\ Badges!Unknown # Badges!Absent /\ Badges!Hookless # Badges!Absent
    /\ Badges!Absent.kind = "absent" /\ Badges!Unknown.kind = "unknown" /\ Badges!Hookless.kind = "hookless"
    /\ \A x \in BadgeAnswers : x.kind = "reservation" => x # Badges!Absent /\ x # Badges!Unknown /\ x # Badges!Hookless
    /\ \A x \in BadgeAnswers : x.kind # "reservation" => x \in {Badges!Absent, Badges!Unknown, Badges!Hookless}
BY DEF BadgeAnswers, Badges!Absent, Badges!Unknown, Badges!Hookless

LEMMA BadgeInitIInv == Badges!BadgesAssumption /\ Badges!Init => BadgeIInv
<1> SUFFICES ASSUME Badges!BadgesAssumption, Badges!Init PROVE BadgeIInv
  OBVIOUS
<1>1. Badges!Queued \in BadgeTasks /\ Badges!Queued.pc = "queued"
  BY BadgeAnswersIs DEF Badges!Queued, BadgeTasks
<1>2. BadgeTypes
  BY <1>1, BadgeAnswersIs DEF Badges!Init, BadgeTypes
<1>3. BadgeMemoOK
  BY BadgeAnswersIs DEF Badges!Init, BadgeMemoOK, BadgeTrueTo
<1>4. \A r \in Rows : BadgeRowOK(r)
  BY <1>1 DEF Badges!Init, BadgeRowOK
<1>5. page = <<>>
  BY DEF Badges!Init
<1>6. BadgePageOK
  BY <1>5 DEF BadgePageOK
<1> QED
  BY <1>2, <1>3, <1>4, <1>6 DEF BadgeIInv

\* A step of a row that leaves what Kea has.
LEMMA BadgeOwnStep ==
    ASSUME BadgeIInv, NEW r \in Rows, task[r].pc # "done", NEW new \in BadgeTasks, task' = [task EXCEPT ![r] = new],
           UNCHANGED <<host, page, stays>>, memo' \in [Badges!Keys -> BadgeAnswers], BadgeMemoOK', BadgeRowOK(r)'
    PROVE  BadgeIInv'
<1>1. task' \in [Rows -> BadgeTasks] /\ \A q \in Rows : q # r => task'[q] = task[q]
  BY DEF BadgeIInv, BadgeTypes
<1>2. ASSUME NEW q \in Rows PROVE BadgeRowOK(q)'
  <2>1. CASE q = r
    BY <2>1
  <2>2. CASE q # r
    <3>1. BadgeRowOK(q) /\ task'[q] = task[q]
      BY <1>1, <2>2 DEF BadgeIInv
    <3> QED
      BY <3>1 DEF BadgeRowOK, BadgePassed, Badges!Matches, BadgeTrueTo
  <2> QED
    BY <2>1, <2>2
<1>3. BadgePageOK'
  BY DEF BadgeIInv, BadgePageOK
<1> QED
  BY <1>1, <1>2, <1>3 DEF BadgeIInv, BadgeTypes

\* What Kea answers is true, and no answer means no Reservation.
LEMMA BadgeAnswerIs ==
    ASSUME BadgeIInv, NEW k \in Badges!Keys
    PROVE  /\ Badges!Answer(k) \in BadgeAnswers /\ BadgeTrueTo(Badges!Answer(k))
              /\ (Badges!Answer(k) = Badges!Absent <=> host[k] = None)
           /\ Badges!Answer(k).kind = "reservation" => Badges!Answer(k).key = k
<1>1. Badges!Found(k) \in BadgeAnswers /\ Badges!Found(k).kind = "reservation" /\ Badges!Found(k).key = k
      /\ Badges!Found(k).held = host[k]
  BY DEF Badges!Found, BadgeAnswers, BadgeIInv, BadgeTypes
<1> HIDE DEF BadgeAnswers
<1>2. CASE host[k] = None
  BY <1>2, BadgeAnswersIs DEF Badges!Answer, BadgeTrueTo
<1>3. CASE host[k] # None /\ host[k] = Badges!Bad
  BY <1>3, BadgeAnswersIs DEF Badges!Answer, BadgeTrueTo
<1>4. CASE host[k] # None /\ host[k] # Badges!Bad
  <2>1. Badges!Answer(k) = Badges!Found(k)
    BY <1>4 DEF Badges!Answer
  <2>2. Badges!Found(k) # Badges!Absent
    BY <1>1, BadgeAnswersIs
  <2> QED
    BY <2>1, <2>2, <1>1, <1>4 DEF BadgeTrueTo
<1> QED
  BY <1>2, <1>3, <1>4

LEMMA BadgeLookupsIs ==
    ASSUME Badges!BadgesAssumption, NEW r \in Rows, SubnetOf[r] # None
    PROVE  /\ Badges!Lookups(r) \in Seq(Badges!Keys)
              /\ \A i \in 1..Len(Badges!Lookups(r)) : BadgeOfRow(r, Badges!Lookups(r)[i])
           /\ \A k : BadgeOfRow(r, k) => \E i \in 1..Len(Badges!Lookups(r)) : Badges!Lookups(r)[i] = k
<1> DEFINE n == Len(Carried[r])
           l == [i \in 1..2 * n |-> IF i <= n THEN <<SubnetOf[r], Carried[r][i]>> ELSE <<Global, Carried[r][i - n]>>]
<1>1. Carried[r] \in Seq(Identities) /\ SubnetOf[r] \in Subnets /\ n \in Nat
  BY DEF Badges!BadgesAssumption
<1>2. \A i \in 1..n : Carried[r][i] \in Identities /\ Carried[r][i] \in Badges!Range(Carried[r])
  BY <1>1 DEF Badges!Range
<1>3. \A i \in 1..2 * n : l[i] \in Badges!Keys /\ l[i][1] \in {SubnetOf[r], Global} /\ l[i][2] \in Badges!Range(Carried[r])
  <2> SUFFICES ASSUME NEW i \in 1..2 * n PROVE l[i] \in Badges!Keys /\ l[i][1] \in {SubnetOf[r], Global}
                      /\ l[i][2] \in Badges!Range(Carried[r])
    OBVIOUS
  <2>1. CASE i <= n
    <3>1. l[i] = <<SubnetOf[r], Carried[r][i]>> /\ i \in 1..n
      BY <2>1, <1>1
    <3> QED
      BY <3>1, <1>1, <1>2 DEF Badges!Keys, Badges!Scopes
  <2>2. CASE ~(i <= n)
    <3>1. l[i] = <<Global, Carried[r][i - n]>> /\ i - n \in 1..n
      BY <2>2, <1>1
    <3> QED
      BY <3>1, <1>1, <1>2 DEF Badges!Keys, Badges!Scopes
  <2> QED
    BY <2>1, <2>2
<1>4. Badges!Lookups(r) = l
  BY DEF Badges!Lookups
<1>5. l \in Seq(Badges!Keys) /\ Len(l) = 2 * n
  <2> DEFINE m == 2 * n
  <2>1. m \in Nat
    BY <1>1
  <2>2. l \in [1..m -> Badges!Keys]
    BY <1>3
  <2> HIDE DEF l, m
  <2>3. l \in Seq(Badges!Keys) /\ Len(l) = m
    BY <2>1, <2>2
  <2> QED
    BY <2>3 DEF m
<1>6. ASSUME NEW k, BadgeOfRow(r, k) PROVE \E i \in 1..2 * n : l[i] = k
  <2>1. PICK i \in 1..n : Carried[r][i] = k[2]
    BY <1>6, <1>1 DEF BadgeOfRow, Badges!Range
  <2>2. k = <<k[1], k[2]>> /\ k[1] \in {SubnetOf[r], Global}
    BY <1>6 DEF BadgeOfRow, Badges!Keys
  <2>3. CASE k[1] = SubnetOf[r]
    <3>1. i \in 1..2 * n /\ l[i] = <<SubnetOf[r], Carried[r][i]>>
      BY <1>1, <2>1
    <3> QED
      BY <3>1, <2>1, <2>2, <2>3
  <2>4. CASE k[1] = Global
    <3>1. i + n \in 1..2 * n /\ ~(i + n <= n) /\ (i + n) - n = i
      BY <1>1, <2>1
    <3>2. l[i + n] = <<Global, Carried[r][i]>>
      BY <3>1
    <3> QED
      BY <3>1, <3>2, <2>1, <2>2, <2>4
  <2> QED
    BY <2>2, <2>3, <2>4
<1> HIDE DEF l
<1> QED
  BY <1>3, <1>4, <1>5, <1>6 DEF BadgeOfRow

\* A row ends with an answer, or goes on with the keys that are left.
LEMMA BadgeContinueStep ==
    ASSUME BadgeIInv, NEW r \in Rows, task[r].pc \in {"allocation", "enter", "asking"}, SubnetOf[r] # None,
           NEW todo \in Seq(Badges!Keys), \A i \in 1..Len(todo) : BadgeOfRow(r, todo[i]),
           NEW answer \in BadgeAnswers, Badges!Continue(r, todo, answer), UNCHANGED <<host, page, stays>>,
           memo' \in [Badges!Keys -> BadgeAnswers], BadgeMemoOK',
           answer.kind = "reservation" => BadgeTrueTo(answer) /\ (answer.key \in stays => Badges!Matches(r, answer.key)),
           answer = Badges!Absent => \A k \in stays : Badges!Matches(r, k) => \E i \in 1..Len(todo) : todo[i] = k
    PROVE  BadgeIInv'
<1>1. \A k : Badges!Matches(r, k)' = Badges!Matches(r, k)
  BY DEF Badges!Matches
<1>2. ASSUME NEW final \in BadgeAnswers, Badges!Done(r, final),
             final = Badges!Absent => \A k \in stays : ~Badges!Matches(r, k),
             final.kind = "reservation" => BadgeTrueTo(final) /\ (final.key \in stays => Badges!Matches(r, final.key))
      PROVE  BadgeIInv'
  <2> DEFINE new == [pc |-> "done", todo |-> <<>>, answer |-> final]
  <2>1. new \in BadgeTasks /\ new.pc = "done" /\ new.answer = final /\ task' = [task EXCEPT ![r] = new]
    BY <1>2 DEF BadgeTasks, Badges!Done
  <2>2. task'[r] = new
    BY <2>1 DEF BadgeIInv, BadgeTypes
  <2> HIDE DEF new
  <2>3. BadgeTrueTo(final) => (final.kind = "reservation" /\ final.key \in stays' => host'[final.key] # None
        /\ final.held = host'[final.key])
    BY DEF BadgeTrueTo
  <2>4. BadgeRowOK(r)'
    BY <2>1, <2>2, <2>3, <1>1, <1>2 DEF BadgeRowOK, BadgeTrueTo
  <2> QED
    BY <2>1, <2>4, BadgeOwnStep
<1>3. CASE answer # Badges!Absent
  <2>1. Badges!Done(r, answer)
    BY <1>3 DEF Badges!Continue
  <2> QED
    BY <2>1, <1>3, <1>2
<1>4. CASE answer = Badges!Absent /\ todo = <<>>
  <2>1. Badges!Done(r, Badges!Without(r)) /\ Badges!Without(r) \in BadgeAnswers /\ Badges!Without(r).kind # "reservation"
    BY <1>4, BadgeAnswersIs DEF Badges!Continue, Badges!Without
  <2>2. \A k \in stays : ~Badges!Matches(r, k)
    BY <1>4
  <2> QED
    BY <2>1, <2>2, <1>2
<1>5. CASE answer = Badges!Absent /\ todo # <<>>
  <2> DEFINE new == [pc |-> "enter", todo |-> todo, answer |-> Badges!Unknown]
  <2>1. task' = [task EXCEPT ![r] = new]
    BY <1>5 DEF Badges!Continue
  <2>2. new \in BadgeTasks /\ new.pc = "enter" /\ new.todo = todo
    BY BadgeAnswersIs DEF BadgeTasks
  <2>3. task'[r] = new
    BY <2>1 DEF BadgeIInv, BadgeTypes
  <2> HIDE DEF new
  <2>4. BadgeRowOK(r)'
    BY <2>2, <2>3, <1>1, <1>5 DEF BadgeRowOK, BadgePassed, BadgeOfRow
  <2> QED
    BY <2>1, <2>2, <2>4, BadgeOwnStep
<1> QED
  BY <1>3, <1>4, <1>5

LEMMA BadgeTakeStep == ASSUME BadgeIInv, NEW r \in Rows, Badges!Take(r) PROVE BadgeIInv'
<1>1. task[r].pc = "queued" /\ task[r] \in BadgeTasks /\ UNCHANGED <<host, memo, page, stays>>
  BY DEF Badges!Take, BadgeIInv, BadgeTypes
<1>2. memo' \in [Badges!Keys -> BadgeAnswers] /\ BadgeMemoOK'
  BY <1>1 DEF BadgeIInv, BadgeTypes, BadgeMemoOK, BadgeTrueTo, BadgeAbsentFor
<1>3. CASE SubnetOf[r] = None
  <2> DEFINE new == [pc |-> "done", todo |-> <<>>, answer |-> Badges!Unknown]
  <2>1. task' = [task EXCEPT ![r] = new]
    BY <1>3 DEF Badges!Take, Badges!Done
  <2>2. new \in BadgeTasks /\ new.pc = "done" /\ new.answer = Badges!Unknown
    BY BadgeAnswersIs DEF BadgeTasks
  <2>3. task'[r] = new
    BY <2>1 DEF BadgeIInv, BadgeTypes
  <2> HIDE DEF new
  <2>4. BadgeRowOK(r)'
    BY <2>2, <2>3, BadgeAnswersIs DEF BadgeRowOK
  <2> QED
    BY <1>1, <1>2, <2>1, <2>2, <2>4, BadgeOwnStep
<1>4. CASE SubnetOf[r] # None
  <2> DEFINE new == [task[r] EXCEPT !.pc = "allocation"]
  <2>1. task' = [task EXCEPT ![r] = new]
    BY <1>4 DEF Badges!Take
  <2>2. new \in BadgeTasks /\ new.pc = "allocation"
    BY <1>1 DEF BadgeTasks
  <2>3. task'[r] = new
    BY <2>1 DEF BadgeIInv, BadgeTypes
  <2> HIDE DEF new
  <2>4. BadgeRowOK(r)'
    BY <2>2, <2>3, <1>4 DEF BadgeRowOK
  <2> QED
    BY <1>1, <1>2, <2>1, <2>2, <2>4, BadgeOwnStep
<1> QED
  BY <1>3, <1>4

LEMMA BadgeAskAllocationStep ==
    ASSUME Badges!BadgesAssumption, BadgeIInv, NEW r \in Rows, Badges!AskAllocation(r)
    PROVE  BadgeIInv'
<1> DEFINE h == CHOOSE k \in Badges!Holder(r) : TRUE
           answer == IF Badges!Holder(r) = {} THEN Badges!Absent ELSE Badges!Answer(h)
<1>1. task[r].pc = "allocation" /\ Badges!Continue(r, Badges!Lookups(r), answer) /\ UNCHANGED <<host, memo, page, stays>>
  BY DEF Badges!AskAllocation
<1>2. SubnetOf[r] # None
  BY <1>1 DEF BadgeIInv, BadgeRowOK
<1>3. memo' \in [Badges!Keys -> BadgeAnswers] /\ BadgeMemoOK'
  BY <1>1 DEF BadgeIInv, BadgeTypes, BadgeMemoOK, BadgeTrueTo, BadgeAbsentFor
<1>4. CASE Badges!Holder(r) = {}
  <2>1. answer = Badges!Absent /\ answer.kind # "reservation" /\ answer \in BadgeAnswers
    BY <1>4, BadgeAnswersIs
  <2> HIDE DEF answer
  <2>2. ASSUME NEW k \in stays, Badges!Matches(r, k) PROVE \E i \in 1..Len(Badges!Lookups(r)) : Badges!Lookups(r)[i] = k
    <3>1. k \in Badges!Keys
      BY DEF BadgeIInv, BadgeTypes
    <3>2. ~(k[1] = SubnetOf[r] /\ Address[r] \in host[k])
      BY <3>1, <2>2, <1>4 DEF Badges!Holder, Badges!Matches
    <3>3. BadgeOfRow(r, k)
      BY <3>1, <3>2, <2>2 DEF Badges!Matches, BadgeOfRow
    <3> QED
      BY <3>3, <1>2, BadgeLookupsIs
  <2> QED
    BY <1>1, <1>2, <1>3, <2>1, <2>2, BadgeLookupsIs, BadgeContinueStep
<1>5. CASE Badges!Holder(r) # {}
  <2>1. h \in Badges!Holder(r) /\ answer = Badges!Answer(h)
    BY <1>5
  <2> HIDE DEF h, answer
  <2>2. h \in Badges!Keys /\ host[h] # None /\ Badges!Matches(r, h)
    BY <2>1 DEF Badges!Holder, Badges!Matches
  <2>3. answer \in BadgeAnswers /\ answer # Badges!Absent /\ BadgeTrueTo(answer)
        /\ (answer.kind = "reservation" => answer.key = h)
    BY <2>1, <2>2, BadgeAnswerIs
  <2> QED
    BY <1>1, <1>2, <1>3, <2>2, <2>3, BadgeLookupsIs, BadgeContinueStep
<1> QED
  BY <1>4, <1>5

LEMMA BadgeDoneStep ==
    ASSUME BadgeIInv, NEW r \in Rows, task[r].pc # "done", NEW answer \in {Badges!Unknown, Badges!Hookless},
           Badges!Done(r, answer),
           UNCHANGED <<host, memo, page, stays>>
    PROVE  BadgeIInv'
<1> DEFINE new == [pc |-> "done", todo |-> <<>>, answer |-> answer]
<1>1. new \in BadgeTasks /\ new.pc = "done" /\ new.answer = answer /\ task' = [task EXCEPT ![r] = new]
  BY BadgeAnswersIs DEF BadgeTasks, Badges!Done
<1>2. task'[r] = new
  BY <1>1 DEF BadgeIInv, BadgeTypes
<1> HIDE DEF new
<1>3. memo' \in [Badges!Keys -> BadgeAnswers] /\ BadgeMemoOK'
  BY DEF BadgeIInv, BadgeTypes, BadgeMemoOK, BadgeTrueTo, BadgeAbsentFor
<1>4. BadgeRowOK(r)'
  BY <1>1, <1>2, BadgeAnswersIs DEF BadgeRowOK
<1> QED
  BY <1>1, <1>3, <1>4, BadgeOwnStep

\* What the head of the lookups leaves.
LEMMA BadgeHeadIs ==
    ASSUME BadgeIInv, NEW r \in Rows, task[r].pc \in {"enter", "asking"}
    PROVE  /\ SubnetOf[r] # None /\ BadgeOfRow(r, Head(task[r].todo)) /\ Head(task[r].todo) \in Badges!Keys
           /\ Tail(task[r].todo) \in Seq(Badges!Keys)
              /\ \A i \in 1..Len(Tail(task[r].todo)) : BadgeOfRow(r, Tail(task[r].todo)[i])
           /\ \A k \in stays : Badges!Matches(r, k) =>
                 k = Head(task[r].todo) \/ \E i \in 1..Len(Tail(task[r].todo)) : Tail(task[r].todo)[i] = k
<1> DEFINE todo == task[r].todo
<1>1. /\ SubnetOf[r] # None /\ todo \in Seq(Badges!Keys) /\ todo # <<>> /\ \A i \in 1..Len(todo) : BadgeOfRow(r, todo[i])
      /\ \A k \in stays : Badges!Matches(r, k) => \E i \in 1..Len(todo) : todo[i] = k
  BY DEF BadgeIInv, BadgeTypes, BadgeTasks, BadgeRowOK, BadgePassed
<1> HIDE DEF todo
<1>2. /\ Len(todo) \in Nat \ {0} /\ Head(todo) = todo[1] /\ Tail(todo) \in Seq(Badges!Keys)
         /\ Len(Tail(todo)) = Len(todo) - 1
      /\ \A i \in 1..Len(Tail(todo)) : Tail(todo)[i] = todo[i + 1]
  BY <1>1
<1>3. BadgeOfRow(r, Head(todo)) /\ Head(todo) \in Badges!Keys
  BY <1>1, <1>2 DEF BadgeOfRow
<1>4. \A i \in 1..Len(Tail(todo)) : BadgeOfRow(r, Tail(todo)[i])
  BY <1>1, <1>2
<1>5. ASSUME NEW k \in stays, Badges!Matches(r, k) PROVE k = Head(todo) \/ \E i \in 1..Len(Tail(todo)) : Tail(todo)[i] = k
  <2>1. PICK i \in 1..Len(todo) : todo[i] = k
    BY <1>1, <1>5
  <2>2. CASE i = 1
    BY <2>1, <2>2, <1>2
  <2>3. CASE i # 1
    <3>1. i - 1 \in 1..Len(Tail(todo)) /\ (i - 1) + 1 = i
      BY <2>1, <2>3, <1>2
    <3> QED
      BY <3>1, <2>1, <1>2
  <2> QED
    BY <2>2, <2>3
<1> QED
  BY <1>1, <1>2, <1>3, <1>4, <1>5 DEF todo

\* The answer to the head of the lookups is what the row goes on with.
LEMMA BadgeAnsweredStep ==
    ASSUME BadgeIInv, NEW r \in Rows, task[r].pc \in {"enter", "asking"}, NEW answer \in BadgeAnswers,
           Badges!Continue(r, Tail(task[r].todo), answer), UNCHANGED <<host, page, stays>>,
           memo' \in [Badges!Keys -> BadgeAnswers], BadgeMemoOK',
           BadgeTrueTo(answer), answer.kind = "reservation" => answer.key = Head(task[r].todo),
           answer = Badges!Absent => BadgeAbsentFor(Head(task[r].todo))
    PROVE  BadgeIInv'
<1> DEFINE k == Head(task[r].todo)
           todo == Tail(task[r].todo)
<1>1. /\ SubnetOf[r] # None /\ BadgeOfRow(r, k) /\ k \in Badges!Keys /\ todo \in Seq(Badges!Keys)
         /\ \A i \in 1..Len(todo) : BadgeOfRow(r, todo[i])
      /\ \A q \in stays : Badges!Matches(r, q) => q = k \/ \E i \in 1..Len(todo) : todo[i] = q
  BY BadgeHeadIs
<1>2. Badges!Continue(r, todo, answer) /\ (answer.kind = "reservation" => answer.key = k)
      /\ (answer = Badges!Absent => BadgeAbsentFor(k))
  OBVIOUS
<1> HIDE DEF k, todo
<1>3. answer = Badges!Absent => \A q \in stays : Badges!Matches(r, q) => \E i \in 1..Len(todo) : todo[i] = q
  BY <1>1, <1>2 DEF BadgeAbsentFor, Badges!Matches
<1>4. answer.kind = "reservation" => BadgeTrueTo(answer) /\ (answer.key \in stays => Badges!Matches(r, answer.key))
  BY <1>1, <1>2 DEF BadgeTrueTo, Badges!Matches, BadgeOfRow
<1> QED
  BY <1>1, <1>2, <1>3, <1>4, BadgeContinueStep

LEMMA BadgeShareStep == ASSUME BadgeIInv, NEW r \in Rows, Badges!Share(r) PROVE BadgeIInv'
<1> DEFINE k == Head(task[r].todo)
<1>1. task[r].pc = "enter" /\ Badges!Continue(r, Tail(task[r].todo), memo[k]) /\ UNCHANGED <<host, memo, page, stays>>
  BY DEF Badges!Share
<1>2. k \in Badges!Keys
  BY <1>1, BadgeHeadIs
<1>3. memo[k] \in BadgeAnswers /\ BadgeTrueTo(memo[k]) /\ (memo[k].kind = "reservation" => memo[k].key = k)
      /\ (memo[k] = Badges!Absent => BadgeAbsentFor(k))
  BY <1>2 DEF BadgeIInv, BadgeTypes, BadgeMemoOK
<1>4. memo' \in [Badges!Keys -> BadgeAnswers] /\ BadgeMemoOK'
  BY <1>1 DEF BadgeIInv, BadgeTypes, BadgeMemoOK, BadgeTrueTo, BadgeAbsentFor
<1> QED
  BY <1>1, <1>3, <1>4, BadgeAnsweredStep

LEMMA BadgeEnterStep == ASSUME BadgeIInv, NEW r \in Rows, Badges!Enter(r) PROVE BadgeIInv'
<1> DEFINE new == [task[r] EXCEPT !.pc = "asking"]
<1>1. task[r].pc = "enter" /\ task' = [task EXCEPT ![r] = new] /\ UNCHANGED <<host, memo, page, stays>>
      /\ task[r] \in BadgeTasks
  BY DEF Badges!Enter, BadgeIInv, BadgeTypes
<1>2. new \in BadgeTasks /\ new.pc = "asking" /\ new.todo = task[r].todo
  BY <1>1 DEF BadgeTasks
<1>3. task'[r] = new
  BY <1>1 DEF BadgeIInv, BadgeTypes
<1> HIDE DEF new
<1>4. memo' \in [Badges!Keys -> BadgeAnswers] /\ BadgeMemoOK'
  BY <1>1 DEF BadgeIInv, BadgeTypes, BadgeMemoOK, BadgeTrueTo, BadgeAbsentFor
<1>5. BadgeRowOK(r)'
  <2>1. BadgeRowOK(r)
    BY DEF BadgeIInv
  <2> QED
    BY <2>1, <1>1, <1>2, <1>3 DEF BadgeRowOK, BadgePassed, BadgeOfRow, Badges!Matches
<1> QED
  BY <1>1, <1>2, <1>4, <1>5, BadgeOwnStep

LEMMA BadgeResolveStep ==
    ASSUME BadgeIInv, NEW r \in Rows, task[r].pc = "asking", NEW answer \in BadgeAnswers, Badges!Resolve(r, answer),
           UNCHANGED <<host, page, stays>>,
           BadgeTrueTo(answer), answer.kind = "reservation" => answer.key = Head(task[r].todo),
           answer = Badges!Absent => BadgeAbsentFor(Head(task[r].todo))
    PROVE  BadgeIInv'
<1> DEFINE k == Head(task[r].todo)
<1>1. memo' = [memo EXCEPT ![k] = answer] /\ Badges!Continue(r, Tail(task[r].todo), answer)
  BY DEF Badges!Resolve, Badges!Kept
<1>2. k \in Badges!Keys
  BY BadgeHeadIs
<1>3. memo' \in [Badges!Keys -> BadgeAnswers] /\ memo'[k] = answer /\ \A q \in Badges!Keys : q # k => memo'[q] = memo[q]
  BY <1>1, <1>2 DEF BadgeIInv, BadgeTypes
<1>4. /\ BadgeTrueTo(answer) => (answer.kind = "reservation" /\ answer.key \in stays' => host'[answer.key] # None
         /\ answer.held = host'[answer.key])
      /\ \A q \in Badges!Keys : BadgeTrueTo(memo[q]) =>
            (memo[q].kind = "reservation" /\ memo[q].key \in stays' => host'[memo[q].key] # None
            /\ memo[q].held = host'[memo[q].key])
  BY DEF BadgeTrueTo
<1>5. answer.kind = "reservation" => answer.key = k
  OBVIOUS
<1>6. answer = Badges!Absent => BadgeAbsentFor(k)
  OBVIOUS
<1> HIDE DEF k
<1>7. BadgeMemoOK'
  <2> SUFFICES ASSUME NEW q \in Badges!Keys
               PROVE  /\ memo'[q].kind = "reservation" => memo'[q].key = q
                      /\ BadgeTrueTo(memo[q])'
                      /\ memo'[q] = Badges!Absent => BadgeAbsentFor(q)'
    BY DEF BadgeMemoOK
  <2>1. CASE q = k
    BY <2>1, <1>3, <1>4, <1>5, <1>6 DEF BadgeTrueTo, BadgeAbsentFor
  <2>2. CASE q # k
    BY <2>2, <1>3, <1>4 DEF BadgeIInv, BadgeMemoOK, BadgeTrueTo, BadgeAbsentFor
  <2> QED
    BY <2>1, <2>2
<1> QED
  BY <1>1, <1>3, <1>7, BadgeAnsweredStep

LEMMA BadgeAskIdentityStep == ASSUME BadgeIInv, NEW r \in Rows, Badges!AskIdentity(r) PROVE BadgeIInv'
<1> DEFINE k == Head(task[r].todo)
<1>1. task[r].pc = "asking" /\ Badges!Resolve(r, Badges!Answer(k)) /\ UNCHANGED <<host, page, stays>>
  BY DEF Badges!AskIdentity
<1>2. k \in Badges!Keys
  BY <1>1, BadgeHeadIs
<1>3. Badges!Answer(k) \in BadgeAnswers /\ BadgeTrueTo(Badges!Answer(k))
      /\ (Badges!Answer(k) = Badges!Absent => BadgeAbsentFor(k))
         /\ (Badges!Answer(k).kind = "reservation" => Badges!Answer(k).key = k)
  BY <1>2, BadgeAnswerIs DEF BadgeAbsentFor
<1> QED
  BY <1>1, <1>3, BadgeResolveStep

LEMMA BadgeIdentityFailsStep == ASSUME BadgeIInv, NEW r \in Rows, Badges!IdentityFails(r) PROVE BadgeIInv'
<1>1. PICK answer \in {Badges!Unknown, Badges!Hookless} : Badges!Resolve(r, answer)
  BY DEF Badges!IdentityFails
<1>2. answer \in BadgeAnswers /\ answer # Badges!Absent /\ answer.kind # "reservation"
  BY <1>1, BadgeAnswersIs
<1>3. BadgeTrueTo(answer)
  BY <1>2 DEF BadgeTrueTo
<1>4. task[r].pc = "asking" /\ UNCHANGED <<host, page, stays>>
  BY DEF Badges!IdentityFails
<1> QED
  BY <1>1, <1>2, <1>3, <1>4, BadgeResolveStep

LEMMA BadgeAllocationFailsStep == ASSUME BadgeIInv, NEW r \in Rows, Badges!AllocationFails(r) PROVE BadgeIInv'
BY BadgeDoneStep DEF Badges!AllocationFails

LEMMA BadgeShowStep == ASSUME BadgeIInv, Badges!Show PROVE BadgeIInv'
<1>1. /\ \A r \in Rows : task[r].pc = "done"
      /\ page' = [r \in Rows |-> [create |-> Badges!Create(r), sync |-> Badges!Sync(r)]]
         /\ UNCHANGED <<host, task, memo, stays>>
  BY DEF Badges!Show
<1>2. \A r \in Rows : Badges!Create(r)' = Badges!Create(r) /\ Badges!Sync(r)' = Badges!Sync(r)
  BY <1>1 DEF Badges!Create, Badges!Sync, Badges!HostCmds, Badges!Moves, Badges!Stale
<1>3. BadgePageOK'
  BY <1>1, <1>2 DEF BadgePageOK
<1>4. BadgeTypes' /\ BadgeMemoOK'
  BY <1>1 DEF BadgeIInv, BadgeTypes, BadgeMemoOK, BadgeTrueTo, BadgeAbsentFor
<1>5. \A r \in Rows : BadgeRowOK(r)'
  BY <1>1 DEF BadgeIInv, BadgeRowOK, BadgePassed, BadgeOfRow, Badges!Matches, BadgeTrueTo
<1> QED
  BY <1>3, <1>4, <1>5 DEF BadgeIInv

LEMMA BadgeReservationStep == ASSUME BadgeIInv, NEW k \in Badges!Keys, Badges!ReservationChanges(k) PROVE BadgeIInv'
<1>1. PICK h \in Badges!Hosts : host' = [host EXCEPT ![k] = h]
  BY DEF Badges!ReservationChanges
<1>2. page = <<>> /\ stays' = stays \ {k} /\ UNCHANGED <<task, memo, page>>
  BY DEF Badges!ReservationChanges
<1>3. host' \in [Badges!Keys -> Badges!Hosts] /\ \A q \in stays' : host'[q] = host[q] /\ q \in stays /\ q \in Badges!Keys
  BY <1>1, <1>2 DEF BadgeIInv, BadgeTypes
<1>4. BadgeTypes'
  BY <1>2, <1>3 DEF BadgeIInv, BadgeTypes
<1>5. BadgeMemoOK'
  BY <1>2, <1>3 DEF BadgeIInv, BadgeMemoOK, BadgeTrueTo, BadgeAbsentFor
<1>6. \A r \in Rows, q \in stays' : Badges!Matches(r, q)' = Badges!Matches(r, q)
  BY <1>3 DEF Badges!Matches
<1>7. ASSUME NEW r \in Rows PROVE BadgeRowOK(r)'
  <2>1. BadgeRowOK(r)
    BY DEF BadgeIInv
  <2> QED
    BY <2>1, <1>2, <1>3, <1>6 DEF BadgeRowOK, BadgePassed, BadgeOfRow, BadgeTrueTo
<1>8. BadgePageOK'
  BY <1>2 DEF BadgePageOK
<1> QED
  BY <1>4, <1>5, <1>7, <1>8 DEF BadgeIInv

LEMMA BadgeNextStep == ASSUME Badges!BadgesAssumption, BadgeIInv, [Badges!Next]_Badges!vars PROVE BadgeIInv'
<1>1. ASSUME NEW r \in Rows, Badges!Thread(r) PROVE BadgeIInv'
  BY <1>1, BadgeTakeStep, BadgeAskAllocationStep, BadgeAllocationFailsStep, BadgeShareStep, BadgeEnterStep,
     BadgeAskIdentityStep, BadgeIdentityFailsStep DEF Badges!Thread
<1>2. ASSUME NEW k \in Badges!Keys, Badges!ReservationChanges(k) PROVE BadgeIInv'
  BY <1>2, BadgeReservationStep
<1>3. CASE Badges!Show
  BY <1>3, BadgeShowStep
<1>4. CASE UNCHANGED Badges!vars
  <2>1. UNCHANGED <<host, task, memo, page, stays>>
    BY <1>4 DEF Badges!vars
  <2>2. BadgeTypes' /\ BadgeMemoOK'
    BY <2>1 DEF BadgeIInv, BadgeTypes, BadgeMemoOK, BadgeTrueTo, BadgeAbsentFor
  <2>3. \A r \in Rows : BadgeRowOK(r)'
    BY <2>1 DEF BadgeIInv, BadgeRowOK, BadgePassed, BadgeOfRow, Badges!Matches, BadgeTrueTo
  <2>4. BadgePageOK'
    BY <2>1 DEF BadgeIInv, BadgePageOK, Badges!Create, Badges!Sync, Badges!HostCmds, Badges!Moves, Badges!Stale
  <2> QED
    BY <2>2, <2>3, <2>4 DEF BadgeIInv
<1> QED
  BY <1>1, <1>2, <1>3, <1>4 DEF Badges!Next

LEMMA BadgeIInvAlways == ASSUME Badges!BadgesAssumption PROVE Badges!Spec => []BadgeIInv
<1>1. Badges!Init => BadgeIInv
  BY BadgeInitIInv
<1>2. BadgeIInv /\ [Badges!Next]_Badges!vars => BadgeIInv'
  BY BadgeNextStep
<1> QED
  BY <1>1, <1>2, PTL DEF Badges!Spec

LEMMA BadgeAgreeOK == ASSUME BadgeIInv PROVE Badges!OffersAgree
<1> SUFFICES ASSUME NEW r \in DOMAIN page, NEW k \in stays, Badges!Matches(r, k)
             PROVE  /\ ~page[r].create
                    /\ page[r].sync /\ k[1] # Global /\ host[k] \notin {{}, Badges!Bad} =>
                          \/ Address[r] \in host[k]
                          \/ \E j \in Badges!Keys \ {k} : Badges!Matches(r, j) \/ j \notin stays
  BY DEF Badges!OffersAgree
<1>1. page # <<>>
  OBVIOUS
<1>2. r \in Rows /\ task[r].pc = "done" /\ page[r] = [create |-> Badges!Create(r), sync |-> Badges!Sync(r)]
  BY <1>1 DEF BadgeIInv, BadgePageOK
<1>3. k \in Badges!Keys /\ task[r].answer \in BadgeAnswers /\ BadgeRowOK(r)
  BY <1>2 DEF BadgeIInv, BadgeTypes, BadgeTasks
<1>4. task[r].answer # Badges!Absent
  BY <1>2, <1>3 DEF BadgeRowOK
<1> DEFINE create == Badges!Create(r)
           sync == Badges!Sync(r)
<1>51. page[r] = [create |-> create, sync |-> sync]
  BY <1>2
<1>52. ~create /\ (sync => Badges!HostCmds /\ task[r].answer # Badges!Unknown /\ ~Badges!Moves(r, task[r].answer))
  BY <1>4 DEF Badges!Create, Badges!Sync
<1> HIDE DEF create, sync
<1>5. ~page[r].create /\ (page[r].sync => Badges!HostCmds /\ task[r].answer # Badges!Unknown
      /\ ~Badges!Moves(r, task[r].answer))
  <2>1. page[r].create = create /\ page[r].sync = sync
    BY <1>51
  <2> QED
    BY <2>1, <1>52, Zenon
<1>6. ASSUME page[r].sync, k[1] # Global, host[k] \notin {{}, Badges!Bad}, Address[r] \notin host[k],
             \A j \in Badges!Keys \ {k} : ~Badges!Matches(r, j) /\ j \in stays
      PROVE  FALSE
  <2> DEFINE answer == task[r].answer
  <2>1. Badges!HostCmds /\ answer # Badges!Unknown /\ ~Badges!Moves(r, answer)
    BY <1>5, <1>6
  <2>2. answer # Badges!Hookless
    BY <2>1, <1>2 DEF Badges!HostCmds
  <2>3. answer.kind = "reservation"
    BY <2>1, <2>2, <1>3, <1>4, BadgeAnswersIs
  <2>4. answer.key \in Badges!Keys
    BY <2>3, <1>3 DEF BadgeAnswers
  <2>5. answer.key \in stays
    BY <2>4, <1>6
  <2>6. BadgeTrueTo(answer) /\ Badges!Matches(r, answer.key)
    BY <2>3, <2>5, <1>2, <1>3 DEF BadgeRowOK
  <2>7. answer.key = k
    BY <2>4, <2>6, <1>6
  <2>8. answer.held = host[k]
    BY <2>3, <2>5, <2>6, <2>7 DEF BadgeTrueTo
  <2> QED
    BY <2>1, <2>3, <2>7, <2>8, <1>6 DEF Badges!Moves
<1> QED
  BY <1>5, <1>6

\* The page offers a new Reservation for a Lease only when no Reservation of its allocation or of one of its identities
\* stood in Kea while the page was read, and Sync only when no such Reservation moves the Lease to another allocation, in
\* whatever order the threads ask, fail and share their lookups (_set_lease_reservation_fields, _enrich_leases_with_badges).
THEOREM OffersTrue == ASSUME Badges!BadgesAssumption PROVE Badges!Spec => []Badges!OffersAgree
<1>1. BadgeIInv => Badges!OffersAgree
  BY BadgeAgreeOK
<1> QED
  BY <1>1, BadgeIInvAlways, PTL
==============================================================================
