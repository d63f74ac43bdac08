------------------------------ MODULE LeaseEdits ------------------------------
(* The requests that change Leases in Kea (views/leases.py: edit, delete and *)
(* add; views/sync_views.py: the CSV import and the Sync button; kea.py:     *)
(* lease_update, lease_delete, lease_add). A request holds no lock: a change *)
(* reads the Lease again, compares it with what its page showed, and sends   *)
(* one command. Clients renew, lose and take Leases at any time, and Kea     *)
(* takes a client's change between the read and the command too.             *)
EXTENDS Naturals, FiniteSets

CONSTANTS
    Addresses, Pages,
    Clients,        \* what binds a Lease: its client, its Subnet, its kind and prefix length
    Names,          \* hostnames
    Lives,          \* valid lifetimes
    Infinite,       \* the lifetime that never ends
    Keep, None,
    Imports,        \* the files that operators import: a set of rows at their lines
    MaxKept,        \* bounds the fields that the plugin does not know
    MaxTime, MaxClients, MaxFaults   \* bounds the time, the changes of clients, and lost replies

VARIABLES lease, now, page, budget

vars == <<lease, now, page, budget>>

\* kept stands for the fields that the plugin does not know, cltt for the
\* time of the client's last transaction.
Lease == [client: Clients, name: Names, life: Lives, kept: 0..MaxKept, cltt: 0..MaxTime, state: {"assigned", "other"}]

\* What a request asks for. Kea supplies what it leaves open.
Requests == [at: Addresses, client: Clients, name: Names \union {Keep}, life: Lives \union {Keep}]

ASSUME EditsAssumption ==
    /\ Lives \subseteq Nat \union {Infinite} /\ Infinite \notin Nat
    /\ Keep \notin Nat \union Lives \union Clients \union Names /\ None \notin Lease
    /\ Imports \subseteq SUBSET Requests /\ {MaxKept, MaxTime} \subseteq Nat

Idle == [pc |-> "idle"]

Init ==
    /\ now = 0
    /\ lease \in [Addresses -> {None} \union {l \in Lease : l.cltt = 0 /\ l.kept = 0 /\ l.state = "assigned"}]
    /\ page = [p \in Pages |-> Idle]
    /\ budget = [clients |-> MaxClients, faults |-> MaxFaults]

Spend(kind) == budget[kind] > 0 /\ budget' = [budget EXCEPT ![kind] = @ - 1]
Go(p, me) == page' = [page EXCEPT ![p] = me]
Reads(p, me) == Go(p, me) /\ UNCHANGED <<lease, now, budget>>

\* A lifetime ends when its last second is past.
Ended(l) == l.life # Infinite /\ l.cltt + l.life < now
IsCurrent(l) == ~Ended(l) /\ l.state = "assigned"

Facts == {"client", "name", "life"}
Shown(l) == [f \in Facts |-> l[f]]

----------------------------------------------------------------------------
(* An edit and a delete.                                                   *)

Open(p, a) ==
    /\ page[p] = Idle /\ lease[a] # None
    /\ Reads(p, [pc |-> "form", shown |-> [at |-> a, facts |-> Shown(lease[a])]])

\* What an operator submits writes only what differs from the form.
Written(edit) == {f \in Facts : edit[f] # Keep}
Edits(facts) ==
    {e \in [client: Clients \union {Keep}, name: Names \union {Keep}, life: Lives \union {Keep}] :
        /\ Written(e) # {} /\ Cardinality(Written(e)) <= 2
        /\ \A f \in Written(e) : e[f] # facts[f]}

SubmitEdit(p) ==
    /\ page[p].pc = "form"
    /\ \E edit \in Edits(page[p].shown.facts) :
          Reads(p, [pc |-> "check", todo |-> {page[p].shown}, edit |-> edit, gone |-> {}])

\* The list of selected Leases, each with what the list showed.
NoEdit == [f \in Facts |-> Keep]
SubmitDelete(p) ==
    /\ page[p] = Idle
    /\ \E selected \in SUBSET {a \in Addresses : lease[a] # None} :
          /\ selected # {}
          /\ Reads(p, [pc |-> "check", todo |-> {[at |-> a, facts |-> Shown(lease[a])] : a \in selected},
                       edit |-> NoEdit, gone |-> {}])

Compared(edit) == {"client"} \union Written(edit)

Conflicts(shown, fresh, edit) == {f \in Compared(edit) : Shown(fresh)[f] # shown.facts[f]}

\* An update that writes no lifetime keeps the end of the fresh Lease.
Expiration(fresh, edit) == IF edit.life = Keep THEN fresh.cltt ELSE Keep

\* Mutant: the body holds what the form showed.
BodyOfForm(shown, fresh, edit) ==
    [client |-> IF edit.client = Keep THEN shown.facts.client ELSE edit.client,
     name |-> IF edit.name = Keep THEN shown.facts.name ELSE edit.name,
     life |-> IF edit.life = Keep THEN shown.facts.life ELSE edit.life,
     kept |-> fresh.kept, state |-> fresh.state]
\* The body is the fresh one with the written fields. A cleared name also clears
\* the flags of its FQDN, which no property reads; they are left out.
Body(shown, fresh, edit) ==
    [client |-> IF edit.client = Keep THEN fresh.client ELSE edit.client,
     name |-> IF edit.name = Keep THEN fresh.name ELSE edit.name,
     life |-> IF edit.life = Keep THEN fresh.life ELSE edit.life,
     kept |-> fresh.kept, state |-> fresh.state]

\* The rest of a bulk delete goes on after a Lease that was not deleted.
Skip(me, shown) ==
    IF me.todo = {shown} THEN Idle ELSE [pc |-> "check", todo |-> me.todo \ {shown}, edit |-> me.edit, gone |-> me.gone]

\* The fresh read of one target.
Check(p) ==
    /\ page[p].pc = "check"
    /\ \E shown \in page[p].todo :
          LET me == page[p]
              fresh == lease[shown.at]
          IN  Reads(p, IF fresh = None THEN Skip(me, shown)
                       ELSE IF Conflicts(shown, fresh, me.edit) # {} THEN Skip(me, shown)
                       ELSE [pc |-> IF me.edit = NoEdit THEN "delete" ELSE "update", todo |-> me.todo, edit |-> me.edit,
                             gone |-> me.gone, shown |-> shown, fresh |-> fresh])

\* A read fails.
CheckFails(p) ==
    /\ page[p].pc = "check" /\ Spend("faults")
    /\ \E shown \in page[p].todo : Go(p, Skip(page[p], shown))
    /\ UNCHANGED <<lease, now>>

\* Kea updates the Lease that it holds, and creates none.
Update(p) ==
    /\ page[p].pc = "update" /\ lease[page[p].shown.at] # None
    /\ LET me == page[p]
           body == Body(me.shown, me.fresh, me.edit)
           cltt == Expiration(me.fresh, me.edit)
       IN  lease' = [lease EXCEPT ![me.shown.at] =
                       [client |-> body.client, name |-> body.name, life |-> body.life, kept |-> body.kept,
                        state |-> body.state, cltt |-> IF cltt = Keep THEN now ELSE cltt]]
    /\ Go(p, Idle)
    /\ UNCHANGED <<now, budget>>

\* Kea refuses the update: the Lease is gone, or changes as Kea writes it.
Refused(p) == page[p].pc = "update" /\ Reads(p, Idle)

\* Kea deletes what is at the address. Its answer tells whether it held a
\* Lease, and an answer can be lost.
Delete(p) ==
    /\ page[p].pc = "delete"
    /\ \E answered \in BOOLEAN :
          LET me == page[p]
              a == me.shown.at
              held == lease[a] # None
              gone == IF answered /\ held THEN me.gone \union {a} ELSE me.gone
          IN  /\ lease' = [lease EXCEPT ![a] = None]
              /\ Go(p, IF me.todo = {me.shown} THEN [pc |-> "deleted", gone |-> gone]
                       ELSE [pc |-> "check", todo |-> me.todo \ {me.shown}, edit |-> me.edit, gone |-> gone])
              /\ IF answered THEN UNCHANGED budget ELSE Spend("faults")
    /\ UNCHANGED now

----------------------------------------------------------------------------
(* New Leases.                                                             *)

StartAdd(p) ==
    /\ page[p] = Idle
    /\ \E request \in Requests, sync \in BOOLEAN :
          Reads(p, [pc |-> "add", rows |-> {request}, single |-> TRUE, sync |-> sync, created |-> {}, failed |-> {}])

\* A file with a row that is not a valid request sends none of its rows.
StartImport(p) ==
    /\ page[p] = Idle
    /\ \E rows \in Imports :
          Reads(p, [pc |-> "add", rows |-> rows, single |-> FALSE, sync |-> FALSE, created |-> {}, failed |-> {}])

Confirmed(result) == result = "created"

Failed(me, request, result) == IF Confirmed(result) THEN me.failed ELSE me.failed \union {request}

AfterRow(me, request, result) ==
    LET created == IF Confirmed(result) THEN me.created \union {request} ELSE me.created
    IN  IF me.single THEN IF Confirmed(result) THEN [pc |-> "readback", request |-> request, sync |-> me.sync] ELSE Idle
        ELSE [pc |-> IF me.rows = {request} THEN "imported" ELSE "add", rows |-> me.rows \ {request},
              single |-> FALSE, sync |-> FALSE, created |-> created, failed |-> Failed(me, request, result)]

\* Kea refuses an address that is in use, or adds the Lease; a reply can be
\* lost. A row that fails does not stop an import.
Add(p) ==
    /\ page[p].pc = "add"
    /\ \E request \in page[p].rows :
       LET me == page[p]
       IN  \E result \in IF lease[request.at] # None THEN {"refused"} ELSE {"created", "lost"},
              name \in IF request.name = Keep THEN Names ELSE {request.name},
              life \in IF request.life = Keep THEN Lives ELSE {request.life} :
              /\ lease' = IF result = "refused" THEN lease
                          ELSE [lease EXCEPT ![request.at] =
                                  [client |-> request.client, name |-> name, life |-> life, kept |-> 0, cltt |-> now,
                                   state |-> "assigned"]]
              /\ IF result = "lost" THEN Spend("faults") ELSE UNCHANGED budget
              /\ Go(p, AfterRow(me, request, result))
    /\ UNCHANGED now

Mismatch(request, l) == l.client # request.client \/ (request.name # Keep /\ l.name # request.name)

\* The new Lease is read back. Without a match there is nothing to claim.
ReadBack(p) ==
    /\ page[p].pc = "readback"
    /\ LET me == page[p]
           l == lease[me.request.at]
       IN  Reads(p, IF ~me.sync \/ l = None THEN Idle
                    ELSE IF Mismatch(me.request, l) THEN Idle
                    ELSE [pc |-> "claim", at |-> me.request.at, lease |-> l, client |-> me.request.client])

\* The Sync button of a row reads the Lease that the list showed.
SyncRow(p, a) ==
    /\ page[p] = Idle /\ lease[a] # None
    /\ Reads(p, [pc |-> "claim", at |-> a, lease |-> lease[a], client |-> lease[a].client])

\* Mutant: the state of a Lease tells whether it is current.
StateIsCurrent(l) == l.state = "assigned"
Claimable(l) == IsCurrent(l)

\* The claim itself is in IpamOwnership.
Claim(p) ==
    /\ page[p].pc = "claim"
    /\ Reads(p, IF Claimable(page[p].lease)
                THEN [pc |-> "claimed", at |-> page[p].at, lease |-> page[p].lease, client |-> page[p].client, time |-> now]
                ELSE Idle)

Close(p) == page[p].pc \in {"deleted", "imported", "claimed", "form"} /\ Reads(p, Idle)

----------------------------------------------------------------------------
(* Clients and time.                                                       *)

\* A client takes, renews, changes or releases a Lease. Another hook can
\* change what the plugin does not know.
ClientChanges(a) ==
    /\ Spend("clients")
    /\ \E l \in Lease \union {None} :
          /\ l # lease[a] /\ (l # None => l.cltt = now)
          /\ lease' = [lease EXCEPT ![a] = l]
    /\ UNCHANGED <<now, page>>

Tick == now < MaxTime /\ now' = now + 1 /\ UNCHANGED <<lease, page, budget>>

Next ==
    \/ \E p \in Pages, a \in Addresses : Open(p, a) \/ SyncRow(p, a)
    \/ \E p \in Pages : SubmitEdit(p) \/ SubmitDelete(p) \/ Check(p) \/ CheckFails(p) \/ Update(p) \/ Refused(p) \/ Delete(p)
    \/ \E p \in Pages : StartAdd(p) \/ StartImport(p) \/ Add(p) \/ ReadBack(p) \/ Claim(p) \/ Close(p)
    \/ \E a \in Addresses : ClientChanges(a)
    \/ Tick

Spec == Init /\ [][Next]_vars

----------------------------------------------------------------------------
(* Properties.                                                             *)

TypeOK ==
    /\ lease \in [Addresses -> Lease \union {None}]
    /\ now \in 0..MaxTime
    /\ \A p \in Pages : page[p].pc = "imported" => page[p].rows = {} /\ page[p].created \intersect page[p].failed = {}

\* A change whose target is as its fresh read found it.
Undisturbed(p) == page[p].pc \in {"update", "delete"} /\ lease[page[p].shown.at] = page[p].fresh
Changing(p) == Undisturbed(p) /\ page'[p].pc \in {"idle", "deleted", "check"} /\ lease' # lease

(* A change replaces nothing that the operator did not see: the Lease is   *)
(* still the one that the page showed, and each fact that the change       *)
(* writes still has the shown value, unless a client changes it between    *)
(* the fresh read and the command (lease_edit_conflicts, _checked_lease).  *)
SeenBeforeWritten ==
    [][\A p \in Pages : Changing(p) =>
          LET me == page[p]
              was == lease[me.shown.at]
          IN  /\ was.client = me.shown.facts.client
              /\ \A f \in Written(me.edit) : was[f] = me.shown.facts[f]]_vars

(* What an edit does not write stays as Kea holds it: a renewal after the  *)
(* form was shown, a lifetime that the client got meanwhile, and the       *)
(* fields that the plugin does not know. Only an edit that writes the      *)
(* lifetime starts it anew (_edited_arguments).                            *)
UnwrittenKept ==
    [][\A p \in Pages : Changing(p) /\ page[p].pc = "update" =>
          LET me == page[p]
              was == lease[me.shown.at]
              is == lease'[me.shown.at]
          IN  /\ \A f \in Facts : is[f] = IF f \in Written(me.edit) THEN me.edit[f] ELSE was[f]
              /\ is.kept = was.kept /\ is.state = was.state
              /\ is.cltt = IF "life" \in Written(me.edit) THEN now ELSE was.cltt]_vars

\* An edit writes what the operator saw and entered, and nothing else.
WrittenAsSeen == SeenBeforeWritten /\ UnwrittenKept

(* What a claim brings into IPAM is a Lease of the client that the         *)
(* operator asked for, whose lifetime had not ended when it was claimed,   *)
(* however long the request took and whoever took the address meanwhile    *)
(* (creation_mismatches, is_current).                                      *)
ClaimsRequested ==
    \A p \in Pages : page[p].pc = "claimed" =>
        LET me == page[p]
        IN  /\ me.lease.client = me.client /\ me.lease.state = "assigned"
            /\ me.lease.life # Infinite => me.time <= me.lease.cltt + me.lease.life
=============================================================================
