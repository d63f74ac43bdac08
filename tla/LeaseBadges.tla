----------------------------- MODULE LeaseBadges -----------------------------
(* One page of Leases with what it offers for each row                      *)
(* (views/leases.py, _enrich_leases_with_badges): the threads of a pool look *)
(* up the Reservation of each row, by its allocation and then by each of its *)
(* identities, and share the lookups of identities. Reservations change      *)
(* meanwhile. How the Leases were read is in LeaseReads.                     *)
EXTENDS Naturals, Sequences, FiniteSets, Functions

CONSTANTS
    Rows,           \* the Leases of the page
    Address,        \* Address[r]: the allocation of the row
    SubnetOf,       \* SubnetOf[r]: its Subnet, None when the page cannot verify it
    Carried,        \* Carried[r]: the sequence of its identities
    Foreign,        \* the rows with an identifier that no Reservation can hold
    Subnets, Identities, Addresses,
    Hardware,       \* the identities that are hardware addresses
    Threads,        \* the threads of the pool
    MaxChanges, MaxFaults,  \* bound the changes of Reservations and the failed commands
    Global, None

Scopes == Subnets \union {Global}
Keys == Scopes \X Identities

\* What the constants are.
BadgesAssumption ==
    /\ Address \in [Rows -> Addresses] /\ SubnetOf \in [Rows -> Subnets \union {None}] /\ Foreign \subseteq Rows
    /\ Hardware \subseteq Identities
    /\ Carried \in [Rows -> Seq(Identities)] /\ {Threads, MaxChanges, MaxFaults} \subseteq Nat

VARIABLES
    host,           \* Kea: the allocations of the Reservation of each key, None without one
    task,           \* the lookups of each row
    memo,           \* _results and _failures of _IdentityLookups
    lock,           \* which row holds the lock of a key
    asked,          \* how often each key was asked of Kea
    page,           \* what the page offers, empty until it is shown
    stays,          \* the keys whose Reservation did not change since the page began
    budget

vars == <<host, task, memo, lock, asked, page, stays, budget>>

\* A Reservation of a Subnet that Kea answers and the plugin cannot read.
Bad == {"bad"}
\* One without allocations of the kind of the row: it holds options only, or
\* allocations of the other kind, and a row gets the same offers for both.
Hosts == {None} \union {Bad} \union SUBSET Addresses

Found(k) == [kind |-> "reservation", key |-> k, held |-> host[k]]
Absent == [kind |-> "absent"]
Unknown == [kind |-> "unknown"]
Hookless == [kind |-> "hookless"]

\* Kea gives an address of a Subnet to one Reservation.
Unique(h) == \A s \in Subnets : \A i, j \in Identities :
    i # j /\ h[<<s, i>>] # None /\ h[<<s, j>>] # None => h[<<s, i>>] \intersect h[<<s, j>>] \subseteq Bad

Queued == [pc |-> "queued", todo |-> <<>>, answer |-> Unknown]
Init ==
    /\ host \in {h \in [Keys -> Hosts] : Unique(h)} /\ task = [r \in Rows |-> Queued] /\ memo = [k \in Keys |-> Unknown]
    /\ lock = [k \in Keys |-> None] /\ asked = [k \in Keys |-> 0] /\ page = <<>> /\ stays = Keys
    /\ budget = [changes |-> MaxChanges, faults |-> MaxFaults]

----------------------------------------------------------------------------
(* The lookups of one row.                                                 *)

Running == {r \in Rows : task[r].pc \notin {"queued", "done"}}

\* The identities in the Subnet, then those without one.
Lookups(r) ==
    LET n == Len(Carried[r])
    IN  [i \in 1..2 * n |-> IF i <= n THEN <<SubnetOf[r], Carried[r][i]>> ELSE <<Global, Carried[r][i - n]>>]

Done(r, answer) == task' = [task EXCEPT ![r] = [pc |-> "done", todo |-> <<>>, answer |-> answer]]
\* An identifier that no Reservation can hold leaves the answer open.
Without(r) == IF r \in Foreign THEN Unknown ELSE Absent
\* A found Reservation and a failed lookup end the row; without one, the next
\* identity is due.
Continue(r, todo, answer) ==
    IF answer # Absent THEN Done(r, answer)
    ELSE IF todo = <<>> THEN Done(r, Without(r))
    ELSE task' = [task EXCEPT ![r] = [pc |-> "enter", todo |-> todo, answer |-> Unknown]]

Take(r) ==
    /\ task[r].pc = "queued" /\ Cardinality(Running) < Threads
    /\ IF SubnetOf[r] = None THEN Done(r, Unknown) ELSE task' = [task EXCEPT ![r].pc = "allocation"]
    /\ UNCHANGED <<host, memo, lock, asked, page, stays, budget>>

\* What Kea answers to a key, and to an allocation in its Subnet.
Answer(k) == IF host[k] = None THEN Absent ELSE IF host[k] = Bad THEN Unknown ELSE Found(k)
Holder(r) == {k \in Keys : k[1] = SubnetOf[r] /\ host[k] # None /\ Address[r] \in host[k]}

AskAllocation(r) ==
    /\ task[r].pc = "allocation"
    /\ Continue(r, Lookups(r), IF Holder(r) = {} THEN Absent ELSE Answer(CHOOSE k \in Holder(r) : TRUE))
    /\ UNCHANGED <<host, memo, lock, asked, page, stays, budget>>

\* Kea does not answer, or it has no command for Reservations.
AllocationFails(r) ==
    /\ task[r].pc = "allocation" /\ budget.faults > 0 /\ budget' = [budget EXCEPT !.faults = @ - 1]
    /\ \E answer \in {Unknown, Hookless} : Done(r, answer)
    /\ UNCHANGED <<host, memo, lock, asked, page, stays>>

Free(k) == lock[k] = None

Known(k) == asked[k] > 0 /\ lock[k] = None

\* The row waits for the key, and uses the answer of another row.
Share(r) ==
    /\ task[r].pc = "enter"
    /\ LET k == Head(task[r].todo) IN Known(k) /\ Continue(r, Tail(task[r].todo), memo[k])
    /\ UNCHANGED <<host, memo, lock, asked, page, stays, budget>>

Enter(r) ==
    /\ task[r].pc = "enter"
    /\ LET k == Head(task[r].todo)
       IN  /\ ~Known(k) /\ Free(k)
           /\ lock' = [lock EXCEPT ![k] = r] /\ asked' = [asked EXCEPT ![k] = @ + 1]
    /\ task' = [task EXCEPT ![r].pc = "asking"]
    /\ UNCHANGED <<host, memo, page, stays, budget>>

\* Mutant: a failed lookup is kept as one that found nothing.
FailureIsAbsent(answer) == IF answer \in {Unknown, Hookless} THEN Absent ELSE answer
Kept(answer) == answer

Release(k, answer) == lock' = [lock EXCEPT ![k] = None]

Resolve(r, answer) ==
    LET k == Head(task[r].todo)
    IN  /\ memo' = [memo EXCEPT ![k] = Kept(answer)] /\ Release(k, answer)
        /\ Continue(r, Tail(task[r].todo), Kept(answer))

AskIdentity(r) ==
    /\ task[r].pc = "asking"
    /\ Resolve(r, Answer(Head(task[r].todo)))
    /\ UNCHANGED <<host, asked, page, stays, budget>>

IdentityFails(r) ==
    /\ task[r].pc = "asking" /\ budget.faults > 0 /\ budget' = [budget EXCEPT !.faults = @ - 1]
    /\ \E answer \in {Unknown, Hookless} : Resolve(r, answer)
    /\ UNCHANGED <<host, asked, page, stays>>

----------------------------------------------------------------------------
(* What the page offers for a row.                                         *)

HostCmds == \A r \in Rows : task[r].answer # Hookless
\* The Reservation of a Subnet gives the client another allocation.
Moves(r, answer) ==
    answer.kind = "reservation" /\ answer.key[1] # Global /\ answer.held # {} /\ Address[r] \notin answer.held
\* The reserved allocation is leased to another client.
Stale(r, answer) ==
    /\ answer.kind = "reservation" /\ Address[r] \in answer.held
    /\ answer.key[2] \in Hardware /\ answer.key[2] \notin Range(Carried[r]) /\ Range(Carried[r]) \intersect Hardware # {}

Create(r) == HostCmds /\ task[r].answer = Absent
Sync(r) == HostCmds /\ task[r].answer # Unknown /\ ~Moves(r, task[r].answer) /\ ~Stale(r, task[r].answer)

Show ==
    /\ page = <<>> /\ \A r \in Rows : task[r].pc = "done"
    /\ page' = [r \in Rows |-> [create |-> Create(r), sync |-> Sync(r)]]
    /\ UNCHANGED <<host, task, memo, lock, asked, stays, budget>>

ReservationChanges(k) ==
    /\ page = <<>> /\ budget.changes > 0 /\ budget' = [budget EXCEPT !.changes = @ - 1]
    /\ \E h \in Hosts \ {host[k]} : host' = [host EXCEPT ![k] = h] /\ Unique(host')
    /\ stays' = stays \ {k}
    /\ UNCHANGED <<task, memo, lock, asked, page>>

Thread(r) ==
    \/ Take(r) \/ AskAllocation(r) \/ AllocationFails(r) \/ Share(r) \/ Enter(r) \/ AskIdentity(r) \/ IdentityFails(r)

Next ==
    \/ \E r \in Rows : Thread(r)
    \/ \E k \in Keys : ReservationChanges(k)
    \/ Show

\* A thread goes on: a command is answered or times out.
Spec == Init /\ [][Next]_vars /\ (\A r \in Rows : WF_vars(Thread(r))) /\ WF_vars(Show)

----------------------------------------------------------------------------
(* Properties.                                                             *)

Matches(r, k) ==
    /\ host[k] # None
    /\ \/ k[1] = SubnetOf[r] /\ Address[r] \in host[k]
       \/ k[1] \in {SubnetOf[r], Global} /\ k[2] \in Range(Carried[r])

(* The page offers a new Reservation for a Lease only when no Reservation   *)
(* of its allocation or of one of its identities stood in Kea while the page *)
(* was read, and Sync only when no such Reservation moves the Lease to       *)
(* another allocation (_set_lease_reservation_fields): a failed or shared    *)
(* lookup is never taken for an answer.                                      *)
OffersAgree ==
    \A r \in DOMAIN page : \A k \in stays :
        Matches(r, k) =>
            /\ ~page[r].create
            /\ page[r].sync /\ k[1] # Global /\ host[k] \notin {{}, Bad} =>
                  \/ Address[r] \in host[k]
                  \/ \E j \in Keys \ {k} : Matches(r, j) \/ j \notin stays

(* The threads of the pool never wait on each other for good: the page is   *)
(* shown (_fetch_reservations_for_leases waits for every row).              *)
PageShown == <>(page # <<>>)
=============================================================================
