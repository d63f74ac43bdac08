----------------------------- MODULE MetadataScope -----------------------------
(* The key that serializes what changes an imported DHCP object or its        *)
(* mapping (dhcp_mapping_lifecycle.py): imports and edits write such a target *)
(* under the key, and a deletion of an object that targets refer to takes it  *)
(* only when its probe finds such a target. A transaction sees what is        *)
(* committed and applies its own writes at its commit.                        *)
EXTENDS Naturals, FiniteSets

CONSTANTS
    Targets,        \* Subnets and Reservations of the DHCP plugin
    Endpoints,      \* the objects that they refer to: Prefixes, addresses, Tags
    Workers,
    Kinds,          \* of "import", "edit" and "delete", those that may run
    MaxOps,         \* bounds the operations
    None

ASSUME MetadataAssumption == Kinds \subseteq {"import", "edit", "delete"} /\ MaxOps \in Nat /\ None \notin Endpoints \union Workers

VARIABLES
    exists,         \* the endpoints
    ref,            \* the endpoint of each target, None without one
    key,            \* who holds the advisory lock
    lock,           \* who holds the row lock of each endpoint
    op,             \* the operation of each worker
    budget

vars == <<exists, ref, key, lock, op, budget>>

Idle == [kind |-> "idle", pc |-> "idle", nested |-> FALSE, end |-> None, target |-> None, first |-> None, cleared |-> {}]
Init ==
    /\ exists = Endpoints /\ ref \in [Targets -> Endpoints \union {None}] /\ key = None
    /\ lock = [e \in Endpoints |-> None] /\ op = [w \in Workers |-> Idle] /\ budget = MaxOps

\* The committed targets that refer to an endpoint.
Referring(e) == {t \in Targets : ref[t] = e}
Holds(w) == key = w
Free(w, e) == lock[e] \in {None, w}
LocksOf(w) == {e \in Endpoints : lock[e] = w}

\* The end of a transaction gives up what it holds.
Release(w) ==
    /\ lock' = [e \in Endpoints |-> IF lock[e] = w THEN None ELSE lock[e]]
    /\ key' = IF key = w THEN None ELSE key
\* A refusal undoes the transaction.
Refuse(w) == Release(w) /\ op' = [op EXCEPT ![w] = Idle] /\ UNCHANGED <<exists, ref, budget>>
At(w, pc) == op[w].pc = pc
Goto(w, pc) == op' = [op EXCEPT ![w].pc = pc]

----------------------------------------------------------------------------
(* The steps of an operation.                                              *)

\* An import is the outermost transaction, an edit is part of the transaction
\* of its request, and a deletion may be either. Before it enters, a caller in
\* a transaction can have locked a row.
Begin(w, kind, nested, e, t, first) ==
    /\ At(w, "idle") /\ budget > 0 /\ budget' = budget - 1
    /\ kind = "import" => ~nested
    /\ kind = "edit" => nested
    /\ ~nested => first = None
    /\ kind = "delete" => e # None
    /\ op' = [op EXCEPT ![w] = [kind |-> kind, pc |-> IF first = None THEN "enter" ELSE "first", nested |-> nested,
                                end |-> e, target |-> t, first |-> first, cleared |-> {}]]
    /\ UNCHANGED <<exists, ref, key, lock>>

LockFirst(w) ==
    /\ At(w, "first") /\ Free(w, op[w].first)
    /\ lock' = [lock EXCEPT ![op[w].first] = w] /\ Goto(w, "enter")
    /\ UNCHANGED <<exists, ref, key, budget>>

\* The probe of a deletion: its effect reaches a target.
ProtectedEffect(e) == Referring(e) # {}
Enter(w) ==
    /\ At(w, "enter")
    /\ Goto(w, IF op[w].kind = "delete" /\ ~ProtectedEffect(op[w].end) THEN "fence" ELSE "key")
    /\ UNCHANGED <<exists, ref, key, lock, budget>>

TakeKey(w) ==
    /\ At(w, "key") /\ (key = None \/ Holds(w)) /\ key' = w
    /\ Goto(w, IF op[w].kind = "delete" THEN "remove" ELSE "write")
    /\ UNCHANGED <<exists, ref, lock, budget>>
\* Mutant: every transaction waits for the key.
AlwaysWaits(w) == TRUE
\* Only the outermost transaction waits for the key.
MayWait(w) == ~op[w].nested
Contention(w) == At(w, "key") /\ key \notin {None, w} /\ ~MayWait(w) /\ Refuse(w)

\* A deletion without the key locks the row.
LockRow(w) ==
    /\ At(w, "fence") /\ Free(w, op[w].end)
    /\ lock' = [lock EXCEPT ![op[w].end] = w] /\ Goto(w, "recheck")
    /\ UNCHANGED <<exists, ref, key, budget>>
\* Mutant: what the probe found is enough.
Trusted(e) == FALSE
\* A target refers to it since the probe.
StaleGate(e) == Referring(e) # {}
Recheck(w) ==
    /\ At(w, "recheck")
    /\ \/ StaleGate(op[w].end) /\ Refuse(w)
       \/ ~StaleGate(op[w].end) /\ Goto(w, "remove") /\ UNCHANGED <<exists, ref, key, lock, budget>>

\* The native deletion takes the row lock, and the references that it sees.
Remove(w) ==
    /\ At(w, "remove") /\ Free(w, op[w].end)
    /\ lock' = [lock EXCEPT ![op[w].end] = w]
    /\ op' = [op EXCEPT ![w].pc = "commit", ![w].cleared = Referring(op[w].end)]
    /\ UNCHANGED <<exists, ref, key, budget>>

\* An import or edit chooses an endpoint that exists, or none.
Write(w) ==
    /\ At(w, "write")
    /\ op' = [op EXCEPT ![w].pc = "commit", ![w].end = IF @ \in exists THEN @ ELSE None]
    /\ UNCHANGED <<exists, ref, key, lock, budget>>

\* The database checks a new reference at the commit, and waits for the lock of
\* its row; a lost row is refused.
CommitWrite(w) ==
    /\ At(w, "commit") /\ op[w].kind # "delete"
    /\ LET e == op[w].end
       IN  /\ e # None => Free(w, e)
           /\ \/ e \notin exists \union {None} /\ Refuse(w)
              \/ /\ e \in exists \union {None} /\ ref' = [ref EXCEPT ![op[w].target] = e]
                 /\ Release(w) /\ op' = [op EXCEPT ![w] = Idle] /\ UNCHANGED <<exists, budget>>
CommitDelete(w) ==
    /\ At(w, "commit") /\ op[w].kind = "delete"
    /\ exists' = exists \ {op[w].end}
    /\ ref' = [t \in Targets |-> IF t \in op[w].cleared THEN None ELSE ref[t]]
    /\ Release(w) /\ op' = [op EXCEPT ![w] = Idle] /\ UNCHANGED budget

----------------------------------------------------------------------------
(* The database ends a deadlock by failing one of its transactions.        *)

\* Who a worker waits for.
WaitsForRow(w, e) == {lock[e]} \ {None, w}
WaitsFor(w) ==
    CASE At(w, "key") /\ MayWait(w) -> {key} \ {None, w}
      [] At(w, "first") -> WaitsForRow(w, op[w].first)
      [] At(w, "fence") \/ At(w, "remove") -> WaitsForRow(w, op[w].end)
      [] At(w, "commit") /\ op[w].kind # "delete" /\ op[w].end # None -> WaitsForRow(w, op[w].end)
      [] OTHER -> {}
Reach(w) ==
    LET n == Cardinality(Workers)
        reach[i \in 1..n] == IF i = 1 THEN WaitsFor(w) ELSE reach[i - 1] \union UNION {WaitsFor(u) : u \in reach[i - 1]}
    IN  reach[n]
Deadlocked(w) == w \in Reach(w)
LockError(w) == Deadlocked(w) /\ Refuse(w)

Step(w) == LockFirst(w) \/ Enter(w) \/ TakeKey(w) \/ Contention(w) \/ LockRow(w) \/ Recheck(w) \/ Remove(w)
           \/ Write(w) \/ CommitWrite(w) \/ CommitDelete(w) \/ LockError(w)
Start(w) == \E kind \in Kinds, nested \in BOOLEAN, e \in Endpoints \union {None}, t \in Targets, first \in Endpoints \union {None} :
    Begin(w, kind, nested, e, t, first)
Next == \E w \in Workers : Start(w) \/ Step(w)
Spec == Init /\ [][Next]_vars

----------------------------------------------------------------------------
(* Properties.                                                             *)

\* The state is of its types; a lock and the key belong to an operation that is
\* under way; and no target refers to an endpoint that is gone.
TypeOK ==
    /\ exists \subseteq Endpoints /\ key \in Workers \union {None} /\ lock \in [Endpoints -> Workers \union {None}]
    /\ \A w \in Workers : At(w, "idle") => key # w /\ LocksOf(w) = {}
    /\ \A t \in Targets : ref[t] \in exists \union {None}

\* A committed reference of a target changes only by a transaction that holds
\* the key, so that it has its history: a deletion whose probe found no target
\* never takes the reference that an import committed since (deletion_scope,
\* _fence).
ProtectedUnderKey ==
    [][\A t \in Targets : ref'[t] # ref[t] => key # None /\ At(key, "commit") /\ op'[key] = Idle]_vars

\* Who waits for the key keeps nobody waiting, neither for a row nor for the key,
\* so that no cycle of waits goes through the key and PostgreSQL need not fail
\* an import for it; a caller that can hold row locks is refused instead
\* (metadata_scope).
KeyWaitsAlone == \A w, u \in Workers : At(w, "key") /\ MayWait(w) => w \notin WaitsFor(u)
=============================================================================
