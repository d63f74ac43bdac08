------------------------- MODULE MetadataScopeProofs -------------------------
(***************************************************************************)
(* Theorems about MetadataScope, for every value of its constants: types   *)
(* and the key that every change of a mapped target needs; and about what  *)
(* relies on that key: the imports of ImportReservations and ImportSettings, *)
(* and the merges and reverts of MappingReplay.                            *)
(***************************************************************************)
EXTENDS MetadataScope, Sequences, SequenceTheorems, TLAPS

------------------------------------------------------------------------------
(* The inductive invariant.                                                *)

Operations ==
    [kind : {"idle", "import", "edit", "delete"},
     pc : {"idle", "first", "enter", "key", "fence", "recheck", "remove", "write", "commit"},
     nested : BOOLEAN, end : Endpoints \union {None}, target : Targets, first : Endpoints \union {None},
     cleared : SUBSET Targets]

\* The state is of its types.
Types ==
    /\ exists \subseteq Endpoints /\ key \in Workers \union {None} /\ lock \in [Endpoints -> Workers \union {None}]
    /\ ref \in [Targets -> Endpoints \union {None}] /\ budget \in Nat
    /\ op \in [Workers -> Operations \union {Idle}]

\* A worker without an operation has given up the key and its locks.
IdleHoldsNothing == \A w \in Workers : At(w, "idle") => key # w /\ LocksOf(w) = {}

\* What each step of an operation relies on: a write has the key; a deletion has a row to delete, and before it
\* removes the row it either has the key, or the row lock over a row that no target refers to.
Relies(w) ==
    /\ op[w].pc \in {"enter", "key", "fence", "recheck", "remove", "commit"}
       /\ op[w].kind = "delete" => op[w].end \in Endpoints
    /\ At(w, "first") => op[w].first \in Endpoints /\ (op[w].kind = "delete" => op[w].end \in Endpoints)
    /\ At(w, "write") => op[w].kind # "delete" /\ key = w
    /\ At(w, "commit") /\ op[w].kind # "delete" => key = w
    /\ op[w].pc \in {"fence", "recheck", "remove"} => op[w].kind = "delete"
    /\ At(w, "recheck") => lock[op[w].end] = w
    /\ At(w, "remove") /\ key # w => lock[op[w].end] = w /\ Referring(op[w].end) = {}
    /\ At(w, "commit") /\ op[w].kind = "delete" =>
         lock[op[w].end] = w /\ op[w].cleared = Referring(op[w].end) /\ (key = w \/ op[w].cleared = {})

\* No target refers to an endpoint that is gone.
NoDangling == \A t \in Targets : ref[t] \in exists \union {None}

IInv == Types /\ IdleHoldsNothing /\ (\A w \in Workers : Relies(w)) /\ NoDangling

LEMMA IInvTypes == IInv => TypeOK
BY DEF IInv, Types, IdleHoldsNothing, NoDangling, TypeOK

------------------------------------------------------------------------------
(* What the steps do to the locks and to the operations.                   *)

\* An operation moves on: the other workers keep theirs.
LEMMA GotoMoves ==
    ASSUME Types, NEW w \in Workers, NEW place \in {"first", "enter", "key", "fence", "recheck", "remove", "write",
           "commit"},
           Goto(w, place), ~At(w, "idle")
    PROVE  /\ op' \in [Workers -> Operations \union {Idle}]
           /\ op'[w] = [op[w] EXCEPT !.pc = place] /\ op[w] \in Operations /\ op'[w].pc = place
           /\ op'[w].kind = op[w].kind /\ op'[w].end = op[w].end /\ op'[w].first = op[w].first
           /\ \A u \in Workers : u # w => op'[u] = op[u]
<1>1. op[w] \in Operations
  BY DEF Types, At, Idle
<1>2. [op[w] EXCEPT !.pc = place] \in Operations
  BY <1>1 DEF Operations
<1> QED
  BY <1>1, <1>2 DEF Types, Goto, Operations

\* The end of a transaction.
LEMMA ReleaseFrees ==
    ASSUME Types, NEW w \in Workers, Release(w)
    PROVE  /\ lock' \in [Endpoints -> Workers \union {None}] /\ key' \in Workers \union {None}
           /\ key' # w /\ LocksOf(w)' = {}
           /\ \A u \in Workers : u # w => (key' = u <=> key = u) /\ \A e \in Endpoints : lock'[e] = u <=> lock[e] = u
<1>1. None \notin Workers
  BY MetadataAssumption
<1> QED
  BY <1>1 DEF Release, Types, LocksOf

\* A worker takes the lock of a row that is free or its own.
LEMMA RowTaken ==
    ASSUME Types, NEW w \in Workers, NEW e \in Endpoints, Free(w, e), lock' = [lock EXCEPT ![e] = w]
    PROVE  /\ lock' \in [Endpoints -> Workers \union {None}] /\ lock'[e] = w
           /\ \A u \in Workers : u # w => \A a \in Endpoints : lock'[a] = u <=> lock[a] = u
BY MetadataAssumption DEF Types, Free

\* What a step of a worker leaves to the others: their operation, the key and the locks that they hold, and the
\* references to what they have locked, unless it holds the key.
Apart(w) ==
    \A u \in Workers : u # w =>
        /\ op'[u] = op[u] /\ (key' = u <=> key = u)
        /\ \A e \in Endpoints :
             /\ lock'[e] = u <=> lock[e] = u
             /\ lock[e] = u => \/ Referring(e)' = Referring(e)
                               \/ key = w /\ Referring(e)' \subseteq Referring(e)

LEMMA OthersKept ==
    ASSUME Types, NEW w \in Workers, NEW u \in Workers, u # w, Apart(w), Relies(u),
           At(u, "idle") => key # u /\ LocksOf(u) = {}
    PROVE  Relies(u)' /\ (At(u, "idle")' => key' # u /\ LocksOf(u)' = {})
<1>1. op'[u] = op[u] /\ (key' = u <=> key = u) /\ \A e \in Endpoints : lock'[e] = u <=> lock[e] = u
  BY DEF Apart
<1>2. \A e \in Endpoints : lock[e] = u => \/ Referring(e)' = Referring(e)
                                          \/ key # u /\ Referring(e)' \subseteq Referring(e)
  BY DEF Apart
<1>3. At(u, "remove") /\ key # u => Referring(op[u].end)' = {}
  BY <1>1, <1>2 DEF Relies, At, Referring
<1>4. At(u, "commit") /\ op[u].kind = "delete" => op[u].cleared = Referring(op[u].end)'
  BY <1>1, <1>2 DEF Relies, At, Referring
<1>5. LocksOf(u)' = LocksOf(u)
  BY <1>1 DEF LocksOf
<1>6. Relies(u)'
  BY <1>1, <1>3, <1>4 DEF Relies, At, Referring
<1> QED
  BY <1>1, <1>5, <1>6 DEF At

\* So a step keeps the invariant when it keeps it for its own worker.
LEMMA OwnSuffices ==
    ASSUME IInv, NEW w \in Workers, Apart(w), Types', NoDangling', Relies(w)',
           At(w, "idle")' => key' # w /\ LocksOf(w)' = {}
    PROVE  IInv'
BY OthersKept DEF IInv, IdleHoldsNothing

\* A refusal keeps it.
LEMMA RefuseKeeps == ASSUME IInv, NEW w \in Workers, Refuse(w) PROVE IInv'
<1>1. Types' /\ op'[w] = Idle
  BY ReleaseFrees DEF IInv, Refuse, Types
<1>2. Apart(w)
  BY ReleaseFrees DEF IInv, Refuse, Types, Apart, Referring
<1>3. Relies(w)'
  BY <1>1 DEF Relies, At, Idle
<1>4. NoDangling'
  BY DEF IInv, NoDangling, Refuse
<1>5. key' # w /\ LocksOf(w)' = {}
  BY ReleaseFrees DEF IInv, Refuse
<1> QED
  BY <1>1, <1>2, <1>3, <1>4, <1>5, OwnSuffices

------------------------------------------------------------------------------
(* Every action keeps the invariant.                                       *)

LEMMA BeginKeeps ==
    ASSUME IInv, NEW w \in Workers, NEW kind \in Kinds, NEW nested \in BOOLEAN, NEW e \in Endpoints \union {None},
           NEW t \in Targets, NEW first \in Endpoints \union {None}, Begin(w, kind, nested, e, t, first)
    PROVE  IInv'
<1> DEFINE new == [kind |-> kind, pc |-> IF first = None THEN "enter" ELSE "first", nested |-> nested,
                   end |-> e, target |-> t, first |-> first, cleared |-> {}]
<1>1. new \in Operations /\ new.pc \in {"first", "enter"} /\ (new.pc = "first" => new.first \in Endpoints)
  BY MetadataAssumption DEF Operations
<1>2. new.kind = "delete" => new.end \in Endpoints
  BY DEF Begin
<1>3. op' = [op EXCEPT ![w] = new]
  BY DEF Begin
<1> HIDE DEF new
<1>4. Types'
  BY <1>1, <1>3, SMTT(30) DEF Begin, IInv, Types
<1>5. op'[w] = new
  BY <1>3 DEF IInv, Types
<1>6. Apart(w)
  BY <1>3 DEF Begin, IInv, Types, Apart, Referring
<1>7. Relies(w)' /\ ~At(w, "idle")'
  BY <1>1, <1>2, <1>5 DEF Relies, At
<1>8. NoDangling'
  BY DEF IInv, Begin, NoDangling
<1> QED
  BY <1>4, <1>6, <1>7, <1>8, OwnSuffices

\* A step that only moves on and keeps the locks, the key and the references.
LEMMA MoveKeeps ==
    ASSUME IInv, NEW w \in Workers, ~At(w, "idle"), UNCHANGED <<exists, ref, key, lock, budget>>,
           NEW place \in {"first", "enter", "key", "fence", "recheck", "remove", "write", "commit"},
           Goto(w, place), Relies(w)'
    PROVE  IInv'
<1>1. Types'
  BY GotoMoves DEF IInv, Types
<1>2. Apart(w)
  BY GotoMoves DEF IInv, Apart, Referring
<1>3. NoDangling'
  BY DEF IInv, NoDangling
<1>4. ~At(w, "idle")'
  BY GotoMoves DEF IInv, At
<1> QED
  BY <1>1, <1>2, <1>3, <1>4, OwnSuffices

LEMMA LockFirstKeeps == ASSUME IInv, NEW w \in Workers, LockFirst(w) PROVE IInv'
<1>1. /\ Goto(w, "enter") /\ ~At(w, "idle") /\ op[w].first \in Endpoints /\ Relies(w)
      /\ op[w].kind = "delete" => op[w].end \in Endpoints
  BY DEF LockFirst, At, IInv, Relies
<1>2. lock' = [lock EXCEPT ![op[w].first] = w]
  BY DEF LockFirst
<1>3. Types'
  BY <1>1, <1>2, GotoMoves DEF LockFirst, IInv, Types
<1>4. Apart(w)
  <2>1. \A u \in Workers : u # w => op'[u] = op[u]
    BY <1>1, GotoMoves DEF IInv
  <2>2. \A u \in Workers : u # w => \A e \in Endpoints : lock'[e] = u <=> lock[e] = u
    BY <1>1, <1>2, RowTaken DEF LockFirst, IInv
  <2> QED
    BY <2>1, <2>2 DEF LockFirst, Apart, Referring
<1>5. Relies(w)' /\ ~At(w, "idle")'
  BY <1>1, GotoMoves DEF IInv, Relies, At
<1>6. NoDangling'
  BY DEF LockFirst, IInv, NoDangling
<1> QED
  BY <1>3, <1>4, <1>5, <1>6, OwnSuffices

LEMMA EnterKeeps == ASSUME IInv, NEW w \in Workers, Enter(w) PROVE IInv'
<1> DEFINE place == IF op[w].kind = "delete" /\ ~ProtectedEffect(op[w].end) THEN "fence" ELSE "key"
<1>1. Goto(w, place) /\ ~At(w, "idle") /\ Relies(w) /\ UNCHANGED <<exists, ref, key, lock, budget>>
  BY DEF Enter, At, IInv
<1>2. Relies(w)'
  BY <1>1, GotoMoves DEF Enter, IInv, Relies, At
<1> QED
  BY <1>1, <1>2, MoveKeeps

LEMMA TakeKeyKeeps == ASSUME IInv, NEW w \in Workers, TakeKey(w) PROVE IInv'
<1> DEFINE place == IF op[w].kind = "delete" THEN "remove" ELSE "write"
<1>1. Goto(w, place) /\ ~At(w, "idle") /\ Relies(w)
  BY DEF TakeKey, At, IInv
<1>2. Types'
  BY <1>1, GotoMoves DEF TakeKey, IInv, Types
<1>3. Apart(w)
  <2>1. \A u \in Workers : u # w => op'[u] = op[u]
    BY <1>1, GotoMoves DEF IInv
  <2>2. \A u \in Workers : u # w => (key' = u <=> key = u)
    BY MetadataAssumption DEF TakeKey, Holds
  <2> QED
    BY <2>1, <2>2 DEF TakeKey, Apart, Referring
<1>4. Relies(w)' /\ ~At(w, "idle")'
  BY <1>1, GotoMoves DEF TakeKey, IInv, Relies, At
<1>5. NoDangling'
  BY DEF TakeKey, IInv, NoDangling
<1> QED
  BY <1>2, <1>3, <1>4, <1>5, OwnSuffices

LEMMA LockRowKeeps == ASSUME IInv, NEW w \in Workers, LockRow(w) PROVE IInv'
<1>1. Goto(w, "recheck") /\ ~At(w, "idle") /\ Relies(w) /\ op[w].kind = "delete" /\ op[w].end \in Endpoints
  BY DEF LockRow, At, IInv, Relies
<1>2. lock' = [lock EXCEPT ![op[w].end] = w]
  BY DEF LockRow
<1>3. Types'
  BY <1>1, <1>2, GotoMoves DEF LockRow, IInv, Types
<1>4. Apart(w)
  <2>1. \A u \in Workers : u # w => op'[u] = op[u]
    BY <1>1, GotoMoves DEF IInv
  <2>2. \A u \in Workers : u # w => \A e \in Endpoints : lock'[e] = u <=> lock[e] = u
    BY <1>1, <1>2, RowTaken DEF LockRow, IInv
  <2> QED
    BY <2>1, <2>2 DEF LockRow, Apart, Referring
<1>5. Relies(w)' /\ ~At(w, "idle")'
  BY <1>1, <1>2, GotoMoves DEF IInv, Types, Relies, At
<1>6. NoDangling'
  BY DEF LockRow, IInv, NoDangling
<1> QED
  BY <1>3, <1>4, <1>5, <1>6, OwnSuffices

LEMMA RecheckKeeps == ASSUME IInv, NEW w \in Workers, Recheck(w) PROVE IInv'
<1>1. CASE Refuse(w)
  BY <1>1, RefuseKeeps
<1>2. CASE ~StaleGate(op[w].end) /\ Goto(w, "remove") /\ UNCHANGED <<exists, ref, key, lock, budget>>
  <2>1. ~At(w, "idle") /\ Relies(w)
    BY DEF Recheck, At, IInv
  <2>2. /\ op'[w].pc = "remove" /\ op'[w].kind = "delete" /\ op'[w].end = op[w].end
        /\ op[w].end \in Endpoints /\ lock[op[w].end] = w /\ Referring(op[w].end) = {}
    BY <1>2, <2>1, GotoMoves DEF Recheck, StaleGate, IInv, Relies, At
  <2>3. Relies(w)'
    BY <1>2, <2>2 DEF Relies, At, Referring
  <2> QED
    BY <1>2, <2>1, <2>3, MoveKeeps
<1> QED
  BY <1>1, <1>2 DEF Recheck

LEMMA RemoveKeeps == ASSUME IInv, NEW w \in Workers, Remove(w) PROVE IInv'
<1> DEFINE new == [op[w] EXCEPT !.pc = "commit", !.cleared = Referring(op[w].end)]
<1>1. op[w] \in Operations /\ Relies(w) /\ op[w].kind = "delete" /\ op[w].end \in Endpoints
  BY SMTT(30) DEF Remove, At, IInv, Types, Relies, Idle
<1>2. new \in Operations /\ new.kind = "delete" /\ new.pc = "commit" /\ new.end = op[w].end
      /\ new.cleared = Referring(op[w].end)
  BY <1>1 DEF Operations, Referring
<1>3. lock' = [lock EXCEPT ![op[w].end] = w] /\ op' = [op EXCEPT ![w] = new] /\ UNCHANGED <<exists, ref, key, budget>>
  BY DEF Remove, IInv, Types
<1> HIDE DEF new
<1>4. Types' /\ op'[w] = new
  BY <1>1, <1>2, <1>3 DEF IInv, Types
<1>5. Apart(w)
  BY <1>1, <1>3, MetadataAssumption DEF Remove, IInv, Types, Apart, Free, Referring
<1>6. Relies(w)' /\ ~At(w, "idle")'
  <2> DEFINE end == op[w].end
  <2>1. /\ op'[w].pc = "commit" /\ op'[w].kind = "delete" /\ op'[w].end = end /\ op'[w].cleared = Referring(end)
        /\ end \in Endpoints
    BY <1>1, <1>2, <1>4
  <2>2. lock'[end] = w
    BY <1>3, <2>1 DEF IInv, Types
  <2>3. op'[w].cleared = {t \in Targets : ref'[t] = op'[w].end}
    BY <1>3, <2>1 DEF Referring
  <2>4. key = w \/ Referring(end) = {}
    BY <1>1 DEF Remove, Relies, At
  <2> HIDE DEF end
  <2> QED
    BY <1>3, <2>1, <2>2, <2>3, <2>4 DEF Relies, At, Referring
<1>7. NoDangling'
  BY <1>3 DEF IInv, NoDangling
<1> QED
  BY <1>4, <1>5, <1>6, <1>7, OwnSuffices

LEMMA WriteKeeps == ASSUME IInv, NEW w \in Workers, Write(w) PROVE IInv'
<1> DEFINE new == [op[w] EXCEPT !.pc = "commit", !.end = IF @ \in exists THEN @ ELSE None]
<1>1. op[w] \in Operations /\ Relies(w) /\ op[w].kind # "delete" /\ key = w
  BY DEF Write, At, IInv, Types, Relies, Idle
<1>2. new \in Operations /\ new.kind # "delete" /\ new.pc = "commit"
  BY <1>1 DEF Operations
<1>3. op' = [op EXCEPT ![w] = new] /\ UNCHANGED <<exists, ref, key, lock, budget>>
  BY DEF Write, IInv, Types
<1> HIDE DEF new
<1>4. Types' /\ op'[w] = new
  BY <1>2, <1>3 DEF IInv, Types
<1>5. Apart(w)
  BY <1>3 DEF IInv, Types, Apart, Referring
<1>6. Relies(w)' /\ ~At(w, "idle")'
  BY <1>1, <1>2, <1>3, <1>4 DEF Relies, At
<1>7. NoDangling'
  BY <1>3 DEF IInv, NoDangling
<1> QED
  BY <1>4, <1>5, <1>6, <1>7, OwnSuffices

LEMMA CommitWriteKeeps == ASSUME IInv, NEW w \in Workers, CommitWrite(w) PROVE IInv'
<1>1. CASE Refuse(w)
  BY <1>1, RefuseKeeps
<1>2. CASE ~Refuse(w)
  <2> DEFINE e == op[w].end
  <2>1. /\ e \in exists \union {None} /\ ref' = [ref EXCEPT ![op[w].target] = e]
        /\ Release(w) /\ op' = [op EXCEPT ![w] = Idle] /\ UNCHANGED <<exists, budget>>
        /\ e # None => lock[e] \in {None, w}
    BY <1>2 DEF CommitWrite, Free
  <2>2. op[w] \in Operations /\ Relies(w) /\ key = w
    BY DEF CommitWrite, At, IInv, Types, Relies, Idle
  <2>3. Types' /\ op'[w] = Idle
    BY <2>1, <2>2, ReleaseFrees DEF IInv, Types, Operations
  <2>4. ASSUME NEW u \in Workers, u # w, NEW a \in Endpoints, lock[a] = u
        PROVE  Referring(a)' \subseteq Referring(a)
    BY <2>1, <2>4, MetadataAssumption DEF IInv, Types, Referring
  <2>5. Apart(w)
    BY <2>1, <2>2, <2>4, ReleaseFrees DEF IInv, Types, Apart
  <2>6. Relies(w)' /\ key' # w /\ LocksOf(w)' = {}
    BY <2>1, <2>3, ReleaseFrees DEF IInv, Relies, At, Idle
  <2>7. NoDangling'
    BY <2>1 DEF IInv, Types, NoDangling
  <2> QED
    BY <2>3, <2>5, <2>6, <2>7, OwnSuffices
<1> QED
  BY <1>1, <1>2

LEMMA CommitDeleteKeeps == ASSUME IInv, NEW w \in Workers, CommitDelete(w) PROVE IInv'
<1>1. op[w] \in Operations /\ Relies(w) /\ op[w].end \in Endpoints /\ lock[op[w].end] = w
      /\ op[w].cleared = Referring(op[w].end)
  BY DEF CommitDelete, At, IInv, Types, Relies, Idle
<1>2. /\ exists' = exists \ {op[w].end} /\ Release(w) /\ op' = [op EXCEPT ![w] = Idle] /\ UNCHANGED budget
      /\ ref' = [t \in Targets |-> IF t \in op[w].cleared THEN None ELSE ref[t]]
  BY DEF CommitDelete
<1>3. Types' /\ op'[w] = Idle
  BY <1>2, ReleaseFrees DEF IInv, Types
<1>4. ASSUME NEW u \in Workers, u # w, NEW a \in Endpoints, lock[a] = u
      PROVE  Referring(a)' = Referring(a)
  BY <1>1, <1>2, <1>4, MetadataAssumption DEF IInv, Types, Referring
<1>5. Apart(w)
  BY <1>2, <1>4, ReleaseFrees DEF IInv, Types, Apart
<1>6. Relies(w)' /\ key' # w /\ LocksOf(w)' = {}
  BY <1>2, <1>3, ReleaseFrees DEF IInv, Relies, At, Idle
<1>7. NoDangling'
  BY <1>1, <1>2 DEF IInv, Types, NoDangling, Referring
<1> QED
  BY <1>3, <1>5, <1>6, <1>7, OwnSuffices

LEMMA StepKeeps == ASSUME IInv, NEW w \in Workers, Step(w) PROVE IInv'
BY LockFirstKeeps, EnterKeeps, TakeKeyKeeps, LockRowKeeps, RecheckKeeps, RemoveKeeps, WriteKeeps, CommitWriteKeeps,
   CommitDeleteKeeps, RefuseKeeps DEF Step, Contention, LockError

LEMMA IInvInit == Init => IInv
<1> SUFFICES ASSUME Init PROVE IInv
  OBVIOUS
<1>1. Types
  BY MetadataAssumption DEF Init, Types
<1>2. IdleHoldsNothing
  BY MetadataAssumption DEF Init, IdleHoldsNothing, LocksOf
<1>3. \A w \in Workers : Relies(w)
  BY DEF Init, Relies, At, Idle
<1>4. NoDangling
  BY DEF Init, NoDangling
<1> QED
  BY <1>1, <1>2, <1>3, <1>4 DEF IInv

LEMMA IInvNext == IInv /\ [Next]_vars => IInv'
<1> SUFFICES ASSUME IInv, [Next]_vars PROVE IInv'
  OBVIOUS
<1>1. CASE Next
  BY <1>1, BeginKeeps, StepKeeps DEF Next, Start
<1>2. CASE UNCHANGED vars
  BY <1>2 DEF vars, IInv, Types, IdleHoldsNothing, Relies, NoDangling, At, LocksOf, Referring
<1> QED
  BY <1>1, <1>2

\* The types; a lock and the key belong to an operation that is under way; and no target refers to an endpoint that is
\* gone, whatever imports, edits and deletions did at the same time.
THEOREM TypeCorrect == Spec => []TypeOK
BY IInvInit, IInvNext, IInvTypes, PTL DEF Spec

------------------------------------------------------------------------------
(* A reference changes under the key.                                      *)

\* The step that changes a committed reference is a commit of the holder of the key.
LEMMA ChangesUnderKey ==
    ASSUME IInv, [Next]_vars, NEW t \in Targets, ref'[t] # ref[t]
    PROVE  key # None /\ At(key, "commit") /\ op'[key] = Idle
<1>1. PICK w \in Workers : Start(w) \/ Step(w)
  BY DEF vars, Next
<1>2. CommitWrite(w) \/ CommitDelete(w)
  <2>1. ~Start(w)
    BY DEF Start, Begin
  <2>2. ~Contention(w) /\ ~LockError(w) /\ ~Recheck(w)
    BY DEF Contention, LockError, Recheck, Refuse
  <2> QED
    BY <1>1, <2>1, <2>2 DEF Step, LockFirst, Enter, TakeKey, LockRow, Remove, Write
<1>3. Relies(w) /\ At(w, "commit") /\ op' = [op EXCEPT ![w] = Idle]
  BY <1>2 DEF IInv, CommitWrite, CommitDelete, Refuse
<1>4. key = w
  BY <1>2, <1>3 DEF IInv, Types, Relies, CommitWrite, CommitDelete, At
<1> QED
  BY <1>3, <1>4, MetadataAssumption DEF IInv, Types

\* A committed reference of a target changes only by the commit of a transaction that holds the key, so that it has its
\* history: a deletion that probed before an import committed is refused by the second look under the row lock
\* (deletion_scope, _fence).
THEOREM KeyProtects == Spec => ProtectedUnderKey
<1>1. IInv /\ [Next]_vars =>
        [\A t \in Targets : ref'[t] # ref[t] => key # None /\ At(key, "commit") /\ op'[key] = Idle]_vars
  BY ChangesUnderKey
<1> QED
  BY <1>1, IInvInit, IInvNext, PTL DEF Spec, ProtectedUnderKey

------------------------------------------------------------------------------
(* Nobody waits for a worker that waits for the key.                       *)

\* Until it asks for the key, a worker does not have it, and an outermost transaction locks no row before.
Unlocked(w) ==
    /\ ~op[w].nested => op[w].first = None /\ ~At(w, "first")
    /\ op[w].pc \in {"first", "enter", "key"} => key # w
    /\ op[w].pc \in {"enter", "key"} /\ ~op[w].nested => \A e \in Endpoints : lock[e] # w
WaitIInv == \A w \in Workers : Unlocked(w)

\* The step of one worker gives the key and the locks to no other.
LEMMA OthersGetNothing ==
    ASSUME IInv, NEW w \in Workers, Start(w) \/ Step(w), NEW u \in Workers \ {w}
    PROVE  /\ op'[u] = op[u] /\ (key' = u => key = u)
           /\ \A e \in Endpoints : lock'[e] = u => lock[e] = u
<1>1. u # None /\ w # None
  BY MetadataAssumption
<1>2. CASE Start(w)
  BY <1>2 DEF Start, Begin, IInv, Types
<1>3. CASE LockFirst(w) \/ Enter(w) \/ TakeKey(w) \/ LockRow(w) \/ Remove(w) \/ Write(w)
  BY <1>3 DEF LockFirst, Enter, TakeKey, LockRow, Remove, Write, Goto, IInv, Types
<1>4. CASE Contention(w) \/ Recheck(w) \/ CommitWrite(w) \/ CommitDelete(w) \/ LockError(w)
  BY <1>1, <1>4 DEF Contention, Recheck, CommitWrite, CommitDelete, LockError, Refuse, Release, Goto, IInv, Types
<1> QED
  BY <1>2, <1>3, <1>4 DEF Step

\* The worker that takes the step.
LEMMA OwnUnlocked == ASSUME IInv, WaitIInv, NEW w \in Workers, Start(w) \/ Step(w) PROVE Unlocked(w)'
<1>1. Unlocked(w) /\ op \in [Workers -> Operations \union {Idle}] /\ w # None
  BY MetadataAssumption DEF WaitIInv, IInv, Types
<1>2. CASE Start(w)
  <2>1. PICK kind \in Kinds, nested \in BOOLEAN, e \in Endpoints \union {None}, t \in Targets,
             first \in Endpoints \union {None} : Begin(w, kind, nested, e, t, first)
    BY <1>2 DEF Start
  <2>2. key # w /\ \A x \in Endpoints : lock[x] # w
    BY <2>1 DEF Begin, IInv, IdleHoldsNothing, LocksOf
  <2>3. op'[w] = [kind |-> kind, pc |-> IF first = None THEN "enter" ELSE "first", nested |-> nested,
                  end |-> e, target |-> t, first |-> first, cleared |-> {}]
    BY <1>1, <2>1 DEF Begin
  <2>4. key' = key /\ lock' = lock /\ (~nested => first = None)
    BY <2>1 DEF Begin
  <2> QED
    BY <2>2, <2>3, <2>4 DEF Unlocked, At
<1>3. CASE LockFirst(w)
  <2>1. op'[w] = [op[w] EXCEPT !.pc = "enter"] /\ key' = key /\ At(w, "first") /\ op[w] \in Operations
    BY <1>1, <1>3 DEF LockFirst, Goto, At, Idle
  <2>2. op[w].nested
    BY <1>1, <2>1 DEF Unlocked, Operations
  <2> QED
    BY <1>1, <2>1, <2>2 DEF Unlocked, At, Operations
<1>4. CASE Enter(w)
  <2>1. PICK place \in {"fence", "key"} : Goto(w, place)
    BY <1>4 DEF Enter
  <2>2. op'[w] = [op[w] EXCEPT !.pc = place] /\ op[w] \in Operations /\ op[w].pc = "enter" /\ UNCHANGED <<key, lock>>
    BY <1>1, <1>4, <2>1 DEF Enter, Goto, At, Idle
  <2> QED
    BY <1>1, <2>2 DEF Unlocked, At, Operations
<1>5. CASE TakeKey(w) \/ LockRow(w) \/ Remove(w) \/ Write(w)
  <2>1. op[w] \in Operations
    BY <1>1, <1>5 DEF TakeKey, LockRow, Remove, Write, At, Idle
  <2>2. op'[w].nested = op[w].nested /\ op'[w].first = op[w].first
        /\ op'[w].pc \in {"remove", "write", "recheck", "commit"}
    BY <1>1, <1>5, <2>1 DEF TakeKey, LockRow, Remove, Write, Goto, Operations
  <2> QED
    BY <1>1, <2>2 DEF Unlocked, At
<1>6. CASE Contention(w) \/ Recheck(w) \/ CommitWrite(w) \/ CommitDelete(w) \/ LockError(w)
  <2>1. CASE op' = [op EXCEPT ![w] = Idle]
    BY <1>1, <2>1 DEF Unlocked, At, Idle
  <2>2. CASE Recheck(w) /\ Goto(w, "remove")
    <3>1. op[w] \in Operations
      BY <1>1, <2>2 DEF Recheck, At, Idle
    <3>2. op'[w] = [op[w] EXCEPT !.pc = "remove"]
      BY <1>1, <2>2 DEF Goto
    <3> QED
      BY <1>1, <3>1, <3>2 DEF Unlocked, At, Operations
  <2> QED
    BY <1>6, <2>1, <2>2 DEF Contention, Recheck, CommitWrite, CommitDelete, LockError, Refuse
<1> QED
  BY <1>2, <1>3, <1>4, <1>5, <1>6 DEF Step

LEMMA WaitIInvNext == IInv /\ WaitIInv /\ [Next]_vars => WaitIInv'
<1> SUFFICES ASSUME IInv, WaitIInv, [Next]_vars PROVE WaitIInv'
  OBVIOUS
<1>1. CASE UNCHANGED vars
  BY <1>1 DEF vars, WaitIInv, Unlocked, At
<1>2. ASSUME NEW w \in Workers, Start(w) \/ Step(w), NEW u \in Workers PROVE Unlocked(u)'
  <2>1. CASE u = w
    BY <1>2, <2>1, OwnUnlocked
  <2>2. CASE u # w
    BY <1>2, <2>2, OthersGetNothing DEF WaitIInv, Unlocked, At
  <2> QED
    BY <2>1, <2>2
<1> QED
  BY <1>1, <1>2 DEF Next, WaitIInv

\* Nobody waits for a worker that has neither the key nor a row.
LEMMA NobodyWaits ==
    ASSUME IInv, WaitIInv, NEW w \in Workers, NEW u \in Workers, At(w, "key"), MayWait(w)
    PROVE  w \notin WaitsFor(u)
<1>1. key # w /\ \A e \in Endpoints : lock[e] # w
  BY DEF WaitIInv, Unlocked, At, MayWait
<1>2. /\ At(u, "first") => op[u].first \in Endpoints
      /\ At(u, "fence") \/ At(u, "remove") => op[u].end \in Endpoints
  BY DEF IInv, Relies, At
<1>3. At(u, "commit") /\ op[u].end # None => op[u].end \in Endpoints
  BY DEF IInv, Types, Operations, Idle, At
<1> QED
  BY <1>1, <1>2, <1>3 DEF WaitsFor, WaitsForRow

\* No cycle of waits goes through the key: whoever waits for it holds neither a row nor the key, whatever the others hold
\* and wait for (metadata_scope).
THEOREM KeyWaitsSafely == Spec => []KeyWaitsAlone
<1>1. Init => WaitIInv
  BY MetadataAssumption DEF Init, WaitIInv, Unlocked, At, Idle
<1>2. IInv /\ WaitIInv => KeyWaitsAlone
  BY NobodyWaits DEF KeyWaitsAlone
<1> QED
  BY <1>1, <1>2, WaitIInvNext, IInvInit, IInvNext, PTL DEF Spec

------------------------------------------------------------------------------
(* The import of the Reservations (ImportReservations): the inductive      *)
(* invariant says what a run has read of each family, and what of that     *)
(* still holds when it writes.                                             *)

CONSTANTS Hosts, FamilyOf, ScopeOf, IdentOf, Subnets, FamilyOfSubnet, Curated, SubnetStates, HostStates, Legacy, Runs,
    MaxChanges, MaxFaults, MaxStarts, Global     \* ImportReservations
VARIABLES subnet, host, enabled, linked, row, pd, run, known

Imports == INSTANCE ImportReservations

ImportSubnetValues == {"absent", "good", "bad"}
ImportHostValues == {None, "plain", "prefix", "bad"}
ImportPartial(S, T) == UNION {[D -> T] : D \in SUBSET S}

ImportLocal == [pc : {"idle", "next", "cutoff", "hosts", "write", "published"}, todo : Seq(Imports!Families),
          conf : ImportPartial(Subnets, ImportSubnetValues),
          snap : [hosts : ImportPartial(Hosts, ImportHostValues), truncated : BOOLEAN],
          fresh : SUBSET Hosts, stable : SUBSET (Hosts \union Subnets), clean : SUBSET Imports!Families, failed : BOOLEAN,
          imported : SUBSET (Hosts \union Subnets)]

\* What a run has read is what Kea reported of one family: its Subnets, and its Reservations when every page came.
ImportReadAs(me, sub, hst) ==
    /\ me.pc \in {"cutoff", "hosts", "write"} =>
          /\ me.todo # <<>>
          /\ me.conf \in [Imports!SubnetsOf(Head(me.todo)) -> ImportSubnetValues]
          /\ \A s \in Imports!SubnetsOf(Head(me.todo)) \intersect me.stable : me.conf[s] = sub[s]
    /\ me.pc = "write" => DOMAIN me.snap.hosts \subseteq Imports!HostsOf(Head(me.todo))
    /\ me.pc = "write" /\ ~me.snap.truncated =>
          /\ DOMAIN me.snap.hosts = Imports!HostsOf(Head(me.todo))
          /\ \A h \in Imports!HostsOf(Head(me.todo)) \intersect me.stable : me.snap.hosts[h] = hst[h]
ImportReadOK(w) == ImportReadAs(run[w], subnet, host)

\* A Prefix that an import confirmed after the cutoff of another one is fresh in that, one confirmed before is in what
\* that reads.
ImportPrefixSafe(w) ==
    run[w].pc = "write" /\ ~run[w].snap.truncated =>
        \A h \in known \intersect DOMAIN run[w].snap.hosts : h \in run[w].fresh \/ run[w].snap.hosts[h] = "prefix"

\* A family counts as clean when all that stayed in it was imported.
ImportCleanOK(w) == \A f \in run[w].clean :
    /\ \A h \in Imports!HostsOf(f) \intersect run[w].stable : host[h] # None => h \in run[w].imported
    /\ \A s \in Imports!SubnetsOf(f) \intersect run[w].stable : subnet[s] # "bad"
       /\ (subnet[s] = "good" => s \in run[w].imported)

\* The row of a Reservation is linked to it.
ImportRowOK == \A h \in Hosts : row[h] # None => row[h].link = h

ImportTypes ==
    /\ host \in [Hosts -> ImportHostValues] /\ subnet \in [Subnets -> ImportSubnetValues]
       /\ enabled \subseteq Imports!Families
    /\ linked \subseteq Subnets /\ known \subseteq Hosts /\ pd \subseteq Hosts
    /\ run \in [Runs -> ImportLocal]
    /\ row \in [Imports!Pks -> {None} \union [link : Hosts \union {None}, holds : SUBSET Imports!Families]]

ImportIInv == /\ ImportTypes /\ ImportRowOK
              /\ \A h \in known : host[h] = "prefix" /\ h \in pd
              /\ \A w \in Runs : ImportReadOK(w) /\ ImportPrefixSafe(w) /\ ImportCleanOK(w)

LEMMA ImportVersionsType == ASSUME NEW S PROVE Imports!Versions(S) \in Seq(Imports!Families)
<1>1. <<>> \in Seq(Imports!Families) /\ <<4>> \in Seq(Imports!Families) /\ <<6>> \in Seq(Imports!Families)
  BY DEF Imports!Families
<1>2. (IF 4 \in S THEN <<4>> ELSE <<>>) \in Seq(Imports!Families)
  BY <1>1, Zenon
<1>3. (IF 6 \in S THEN <<6>> ELSE <<>>) \in Seq(Imports!Families)
  BY <1>1, Zenon
<1> QED
  BY <1>2, <1>3 DEF Imports!Versions

LEMMA ImportReadKept ==
    ASSUME NEW me, NEW new, NEW sub, NEW hst, NEW sub2, NEW hst2, ImportReadAs(me, sub, hst),
           new.pc = me.pc, new.todo = me.todo, new.conf = me.conf, new.snap = me.snap, new.stable \subseteq me.stable,
           \A s \in new.stable \intersect Subnets : sub2[s] = sub[s],
           \A h \in new.stable \intersect Hosts : hst2[h] = hst[h]
    PROVE  ImportReadAs(new, sub2, hst2)
<1>1. \A f : Imports!SubnetsOf(f) \subseteq Subnets /\ Imports!HostsOf(f) \subseteq Hosts
  BY DEF Imports!SubnetsOf, Imports!HostsOf
<1> QED
  BY <1>1 DEF ImportReadAs

\* What the invariant says of one run, as a predicate of what it speaks of.
ImportSameRun(w) == UNCHANGED <<run[w], subnet, host, known>>
LEMMA ImportSameRunOK ==
    ASSUME NEW w, ImportSameRun(w), ImportReadOK(w), ImportPrefixSafe(w), ImportCleanOK(w)
    PROVE  ImportReadOK(w)' /\ ImportPrefixSafe(w)' /\ ImportCleanOK(w)'
<1>1. ImportReadOK(w)'
  BY DEF ImportSameRun, ImportReadOK
<1>2. ImportPrefixSafe(w)'
  BY DEF ImportSameRun, ImportPrefixSafe
<1>3. ImportCleanOK(w)'
  BY DEF ImportSameRun, ImportCleanOK, Imports!SubnetsOf, Imports!HostsOf
<1> QED
  BY <1>1, <1>2, <1>3

LEMMA ImportIdleType == Imports!Idle \in ImportLocal
<1>1. Imports!Nothing \in [{} -> ImportSubnetValues] /\ Imports!Nothing \in [{} -> ImportHostValues]
  BY DEF Imports!Nothing
<1>2. Imports!Nothing \in ImportPartial(Subnets, ImportSubnetValues)
      /\ Imports!Nothing \in ImportPartial(Hosts, ImportHostValues)
  BY <1>1 DEF ImportPartial
<1>3. <<>> \in Seq(Imports!Families)
  OBVIOUS
<1>4. Imports!Unread \in [hosts : ImportPartial(Hosts, ImportHostValues), truncated : BOOLEAN]
  BY <1>2 DEF Imports!Unread
<1> QED
  BY <1>2, <1>3, <1>4 DEF Imports!Idle, ImportLocal

LEMMA ImportInitIInv == Imports!ReservationsAssumption /\ Imports!Init => ImportIInv
<1> SUFFICES ASSUME Imports!ReservationsAssumption, Imports!Init PROVE ImportIInv
  OBVIOUS
<1>1. run = [w \in Runs |-> Imports!Idle] /\ Imports!Idle \in ImportLocal
  BY ImportIdleType DEF Imports!Init
<1>2. ImportTypes
  BY <1>1 DEF Imports!Init, ImportTypes, ImportSubnetValues, ImportHostValues
<1>3. ImportRowOK
  BY DEF Imports!Init, ImportRowOK, Imports!Pks, Imports!ReservationsAssumption
<1>4. ASSUME NEW w \in Runs PROVE ImportReadOK(w) /\ ImportPrefixSafe(w) /\ ImportCleanOK(w)
  BY <1>1 DEF ImportReadOK, ImportReadAs, ImportPrefixSafe, ImportCleanOK, Imports!Idle
<1> QED
  BY <1>2, <1>3, <1>4 DEF ImportIInv, Imports!Init

\* A step of one run alone.
LEMMA ImportOwnStep ==
    ASSUME ImportIInv, NEW w \in Runs, NEW new \in ImportLocal, run' = [run EXCEPT ![w] = new],
           UNCHANGED <<Imports!Kea, Imports!Rows>>,
           ImportReadOK(w)', ImportPrefixSafe(w)', ImportCleanOK(w)'
    PROVE  ImportIInv'
<1>1. run' \in [Runs -> ImportLocal] /\ \A u \in Runs : u # w => run'[u] = run[u]
  BY DEF ImportIInv, ImportTypes
<1>2. UNCHANGED <<subnet, host, enabled, linked, row, pd, known>>
  BY DEF Imports!Kea, Imports!Rows
<1>3. ImportTypes' /\ ImportRowOK'
  BY <1>1, <1>2 DEF ImportIInv, ImportTypes, ImportRowOK
<1>4. ASSUME NEW u \in Runs PROVE ImportReadOK(u)' /\ ImportPrefixSafe(u)' /\ ImportCleanOK(u)'
  <2>1. CASE u = w
    BY <2>1
  <2>2. CASE u # w
    BY <2>2, <1>1, <1>2, ImportSameRunOK DEF ImportIInv, ImportSameRun
  <2> QED
    BY <2>1, <2>2
<1> QED
  BY <1>2, <1>3, <1>4 DEF ImportIInv

LEMMA ImportStartStep ==
    ASSUME Imports!ReservationsAssumption, ImportIInv, NEW w \in Runs, Imports!Start(w)
    PROVE  ImportIInv'
<1> DEFINE new == [Imports!Idle EXCEPT !.pc = "next", !.stable = Hosts \union Subnets, !.todo = Imports!Versions(enabled)]
<1>1. run' = [run EXCEPT ![w] = new] /\ UNCHANGED <<Imports!Kea, Imports!Rows>>
  BY DEF Imports!Start
<1>2. new \in ImportLocal /\ new.pc = "next" /\ new.clean = {}
  BY ImportIdleType, ImportVersionsType DEF ImportLocal, Imports!Idle
<1>3. run'[w] = new
  BY <1>1 DEF ImportIInv, ImportTypes
<1> HIDE DEF new
<1>4. ImportReadOK(w)' /\ ImportPrefixSafe(w)' /\ ImportCleanOK(w)'
  BY <1>2, <1>3 DEF ImportReadOK, ImportReadAs, ImportPrefixSafe, ImportCleanOK
<1> QED
  BY <1>1, <1>2, <1>4, ImportOwnStep

LEMMA ImportConfStep == ASSUME ImportIInv, NEW w \in Runs, Imports!ReadConfig(w) PROVE ImportIInv'
<1> DEFINE me == run[w]
           f == Head(me.todo)
           conf == [s \in Imports!SubnetsOf(f) |-> subnet[s]]
<1>1. me \in ImportLocal /\ me.todo # <<>> /\ me.pc = "next" /\ UNCHANGED <<Imports!Kea, Imports!Rows>>
  BY DEF ImportIInv, ImportTypes, Imports!ReadConfig
<1>2. Tail(me.todo) \in Seq(Imports!Families)
  BY <1>1 DEF ImportLocal
<1>3. CASE run' = [run EXCEPT ![w].pc = "cutoff", ![w].conf = conf]
  <2> DEFINE new == [me EXCEPT !.pc = "cutoff", !.conf = conf]
  <2>1. conf \in [Imports!SubnetsOf(f) -> ImportSubnetValues] /\ \A s \in Imports!SubnetsOf(f) : conf[s] = subnet[s]
    BY DEF ImportIInv, ImportTypes, Imports!SubnetsOf
  <2>2. conf \in ImportPartial(Subnets, ImportSubnetValues)
    BY <2>1 DEF ImportPartial, Imports!SubnetsOf
  <2>3. run' = [run EXCEPT ![w] = new]
    BY <1>3
  <2>4. /\ new \in ImportLocal /\ new.pc = "cutoff" /\ new.clean = me.clean /\ new.stable = me.stable
           /\ new.imported = me.imported
        /\ new.todo = me.todo /\ new.conf = conf
    BY <1>1, <2>2 DEF ImportLocal
  <2>5. run'[w] = new
    BY <2>3 DEF ImportIInv, ImportTypes
  <2>6. UNCHANGED <<subnet, host>>
    BY <1>1 DEF Imports!Kea
  <2>7. ImportCleanOK(w)
    BY DEF ImportIInv
  <2> HIDE DEF new, conf
  <2>8. ImportReadOK(w)'
    <3>1. new.todo = me.todo /\ new.todo # <<>> /\ new.conf = conf /\ new.pc = "cutoff"
      BY <1>1, <2>4
    <3> QED
      BY <3>1, <2>1, <2>5, <2>6 DEF ImportReadOK, ImportReadAs, Imports!SubnetsOf
  <2>9. ImportPrefixSafe(w)'
    BY <2>4, <2>5 DEF ImportPrefixSafe
  <2>10. ImportCleanOK(w)'
    BY <2>4, <2>5, <2>6, <2>7 DEF ImportCleanOK, Imports!SubnetsOf, Imports!HostsOf
  <2> QED
    BY <1>1, <2>3, <2>4, <2>8, <2>9, <2>10, ImportOwnStep
<1>4. CASE run' = [run EXCEPT ![w].todo = Tail(@)]
  <2> DEFINE new == [me EXCEPT !.todo = Tail(@)]
  <2>1. run' = [run EXCEPT ![w] = new]
    BY <1>4
  <2>2. /\ new \in ImportLocal /\ new.pc = "next" /\ new.clean = me.clean /\ new.stable = me.stable
           /\ new.imported = me.imported
    BY <1>1, <1>2 DEF ImportLocal
  <2>3. run'[w] = new
    BY <2>1 DEF ImportIInv, ImportTypes
  <2>4. UNCHANGED <<subnet, host>>
    BY <1>1 DEF Imports!Kea
  <2>5. ImportCleanOK(w)
    BY DEF ImportIInv
  <2> HIDE DEF new
  <2>6. ImportReadOK(w)' /\ ImportPrefixSafe(w)' /\ ImportCleanOK(w)'
    BY <2>2, <2>3, <2>4, <2>5 DEF ImportReadOK, ImportReadAs, ImportPrefixSafe, ImportCleanOK, Imports!SubnetsOf,
       Imports!HostsOf
  <2> QED
    BY <1>1, <2>1, <2>2, <2>6, ImportOwnStep
<1> QED
  BY <1>3, <1>4 DEF Imports!ReadConfig

LEMMA ImportCutoffStep == ASSUME ImportIInv, NEW w \in Runs, Imports!TakeCutoff(w) PROVE ImportIInv'
<1> DEFINE me == run[w]
           new == [me EXCEPT !.pc = "hosts", !.fresh = {}]
<1>1. me \in ImportLocal /\ me.pc = "cutoff" /\ UNCHANGED <<Imports!Kea, Imports!Rows>> /\ run' = [run EXCEPT ![w] = new]
  BY DEF ImportIInv, ImportTypes, Imports!TakeCutoff
<1>2. /\ new \in ImportLocal /\ new.pc = "hosts" /\ new.clean = me.clean /\ new.stable = me.stable
         /\ new.imported = me.imported
      /\ new.todo = me.todo /\ new.conf = me.conf
  BY <1>1 DEF ImportLocal
<1>3. run'[w] = new
  BY <1>1 DEF ImportIInv, ImportTypes
<1>4. UNCHANGED <<subnet, host>>
  BY <1>1 DEF Imports!Kea
<1>5. ImportCleanOK(w) /\ ImportReadOK(w)
  BY DEF ImportIInv
<1>6. /\ me.todo # <<>> /\ me.conf \in [Imports!SubnetsOf(Head(me.todo)) -> ImportSubnetValues]
      /\ \A s \in Imports!SubnetsOf(Head(me.todo)) \intersect me.stable : me.conf[s] = subnet[s]
  BY <1>1, <1>5 DEF ImportReadOK, ImportReadAs
<1> HIDE DEF new
<1>7. ImportReadOK(w)'
  <2>1. ImportReadAs(new, subnet, host)
    BY <1>2, <1>6 DEF ImportReadAs
  <2> QED
    BY <2>1, <1>3, <1>4 DEF ImportReadOK
<1>8. ImportPrefixSafe(w)'
  BY <1>2, <1>3 DEF ImportPrefixSafe
<1>9. ImportCleanOK(w)'
  BY <1>2, <1>3, <1>4, <1>5 DEF ImportCleanOK, Imports!SubnetsOf, Imports!HostsOf
<1> QED
  BY <1>1, <1>2, <1>7, <1>8, <1>9, ImportOwnStep

LEMMA ImportHostsStep == ASSUME ImportIInv, NEW w \in Runs, Imports!ReadHosts(w) PROVE ImportIInv'
<1> DEFINE me == run[w]
           f == Head(me.todo)
           all == [h \in Imports!HostsOf(f) |-> host[h]]
<1>1. me \in ImportLocal /\ me.pc = "hosts" /\ UNCHANGED <<Imports!Kea, Imports!Rows>>
  BY DEF ImportIInv, ImportTypes, Imports!ReadHosts
<1>2. all \in [Imports!HostsOf(f) -> ImportHostValues] /\ \A h \in Imports!HostsOf(f) : all[h] = host[h]
  BY DEF ImportIInv, ImportTypes, Imports!HostsOf
<1>3. PICK snap : /\ run' = [run EXCEPT ![w] = [me EXCEPT !.pc = "write", !.snap = snap]]
                  /\ \/ snap = [hosts |-> all, truncated |-> FALSE]
                     \/ \E kept \in SUBSET DOMAIN all :
                          snap = [hosts |-> [h \in DOMAIN all |-> IF h \in kept THEN all[h] ELSE None], truncated |-> TRUE]
                     \/ snap = Imports!Unread
  <2> HIDE DEF all
  <2>1. CASE run' = [run EXCEPT ![w].pc = "write", ![w].snap = [hosts |-> all, truncated |-> FALSE]]
    BY <2>1
  <2>2. ASSUME NEW kept \in SUBSET DOMAIN all,
               run' = [run EXCEPT ![w].pc = "write",
                    ![w].snap = [hosts |-> [h \in DOMAIN all |-> IF h \in kept THEN all[h] ELSE None], truncated |-> TRUE]]
        PROVE \E snap : /\ run' = [run EXCEPT ![w] = [me EXCEPT !.pc = "write", !.snap = snap]]
                  /\ \/ snap = [hosts |-> all, truncated |-> FALSE]
                     \/ \E k \in SUBSET DOMAIN all :
                          snap = [hosts |-> [h \in DOMAIN all |-> IF h \in k THEN all[h] ELSE None], truncated |-> TRUE]
                     \/ snap = Imports!Unread
    BY <2>2
  <2>3. CASE run' = [run EXCEPT ![w].pc = "write", ![w].snap = Imports!Unread]
    BY <2>3
  <2> QED
    BY <2>1, <2>2, <2>3 DEF Imports!ReadHosts, all
<1> DEFINE new == [me EXCEPT !.pc = "write", !.snap = snap]
<1>4. \E D \in SUBSET Hosts : /\ D \subseteq Imports!HostsOf(f) /\ snap.hosts \in [D -> ImportHostValues] /\ snap.truncated \in BOOLEAN
                              /\ snap = [hosts |-> snap.hosts, truncated |-> snap.truncated]
                              /\ ~snap.truncated => snap.hosts = all
  <2>0. Imports!HostsOf(f) \in SUBSET Hosts /\ None \in ImportHostValues /\ DOMAIN all = Imports!HostsOf(f)
    BY DEF Imports!HostsOf, ImportHostValues
  <2>1. CASE snap = [hosts |-> all, truncated |-> FALSE]
    BY <2>0, <2>1, <1>2
  <2>2. CASE \E kept \in SUBSET DOMAIN all :
              snap = [hosts |-> [h \in DOMAIN all |-> IF h \in kept THEN all[h] ELSE None], truncated |-> TRUE]
    BY <2>0, <2>2, <1>2
  <2>3. CASE snap = Imports!Unread
    <3>1. Imports!Nothing \in [{} -> ImportHostValues] /\ {} \in SUBSET Hosts /\ {} \subseteq Imports!HostsOf(f)
      BY DEF Imports!Nothing
    <3>2. snap.hosts = Imports!Nothing /\ snap.truncated = TRUE
      BY <2>3 DEF Imports!Unread
    <3> QED
      BY <3>1, <3>2, <2>3 DEF Imports!Unread
  <2> QED
    BY <1>3, <2>1, <2>2, <2>3
<1>5. snap \in [hosts : ImportPartial(Hosts, ImportHostValues), truncated : BOOLEAN]
  BY <1>4 DEF ImportPartial
<1>6. /\ new \in ImportLocal /\ new.pc = "write" /\ new.clean = me.clean /\ new.stable = me.stable
         /\ new.imported = me.imported
      /\ new.todo = me.todo /\ new.conf = me.conf /\ new.snap = snap
  BY <1>1, <1>5 DEF ImportLocal
<1>7. run'[w] = new
  BY <1>3 DEF ImportIInv, ImportTypes
<1>8. UNCHANGED <<subnet, host, known>>
  BY <1>1 DEF Imports!Kea, Imports!Rows
<1>9. ImportCleanOK(w) /\ ImportReadOK(w) /\ \A h \in known : host[h] = "prefix"
  BY DEF ImportIInv
<1>10. DOMAIN snap.hosts \subseteq Imports!HostsOf(f)
       /\ (~snap.truncated => DOMAIN snap.hosts = Imports!HostsOf(f)
          /\ \A h \in Imports!HostsOf(f) : snap.hosts[h] = host[h])
  BY <1>2, <1>4
<1>11. run' = [run EXCEPT ![w] = new]
  BY <1>3
<1> HIDE DEF new, all
<1>12. ImportReadOK(w)'
  <2>1. /\ me.todo # <<>> /\ me.conf \in [Imports!SubnetsOf(f) -> ImportSubnetValues]
        /\ \A s \in Imports!SubnetsOf(f) \intersect me.stable : me.conf[s] = subnet[s]
    BY <1>1, <1>9 DEF ImportReadOK, ImportReadAs
  <2>2. run'[w].todo = me.todo /\ run'[w].conf = me.conf /\ run'[w].stable = me.stable /\ run'[w].snap = snap
        /\ run'[w].pc = "write"
    BY <1>6, <1>7
  <2> QED
    BY <2>1, <2>2, <1>8, <1>10 DEF ImportReadOK, ImportReadAs, Imports!SubnetsOf, Imports!HostsOf
<1>13. ImportPrefixSafe(w)'
  BY <1>6, <1>7, <1>8, <1>9, <1>10 DEF ImportPrefixSafe
<1>14. ImportCleanOK(w)'
  BY <1>6, <1>7, <1>8, <1>9 DEF ImportCleanOK, Imports!SubnetsOf, Imports!HostsOf
<1> QED
  BY <1>1, <1>6, <1>11, <1>12, <1>13, <1>14, ImportOwnStep

LEMMA ImportStopStep == ASSUME ImportIInv, NEW w \in Runs, Imports!Stop(w) PROVE ImportIInv'
<1>1. run' = [run EXCEPT ![w] = Imports!Idle] /\ UNCHANGED <<Imports!Kea, Imports!Rows>>
  BY DEF Imports!Stop
<1>2. run'[w] = Imports!Idle
  BY <1>1 DEF ImportIInv, ImportTypes
<1>3. ImportReadOK(w)' /\ ImportPrefixSafe(w)' /\ ImportCleanOK(w)'
  BY <1>2 DEF ImportReadOK, ImportReadAs, ImportPrefixSafe, ImportCleanOK, Imports!Idle
<1> QED
  BY <1>1, <1>3, ImportIdleType, ImportOwnStep

LEMMA ImportPublishStep == ASSUME ImportIInv, NEW w \in Runs, Imports!Publish(w) PROVE ImportIInv'
<1>1. UNCHANGED <<Imports!Kea, Imports!Rows>>
  BY DEF Imports!Publish
<1>2. CASE run' = [run EXCEPT ![w] = Imports!Idle]
  <2>1. run'[w] = Imports!Idle
    BY <1>2 DEF ImportIInv, ImportTypes
  <2>2. ImportReadOK(w)' /\ ImportPrefixSafe(w)' /\ ImportCleanOK(w)'
    BY <2>1 DEF ImportReadOK, ImportReadAs, ImportPrefixSafe, ImportCleanOK, Imports!Idle
  <2> QED
    BY <1>1, <1>2, <2>2, ImportIdleType, ImportOwnStep
<1>3. CASE run' = [run EXCEPT ![w].pc = "published"]
  <2> DEFINE me == run[w]
             new == [me EXCEPT !.pc = "published"]
  <2>1. me \in ImportLocal /\ run' = [run EXCEPT ![w] = new]
    BY <1>3 DEF ImportIInv, ImportTypes
  <2>2. new \in ImportLocal /\ new.pc = "published" /\ new.clean = me.clean /\ new.stable = me.stable
        /\ new.imported = me.imported
    BY <2>1 DEF ImportLocal
  <2>3. run'[w] = new
    BY <2>1 DEF ImportIInv, ImportTypes
  <2>4. UNCHANGED <<subnet, host>> /\ ImportCleanOK(w)
    BY <1>1 DEF Imports!Kea, ImportIInv
  <2> HIDE DEF new
  <2>5. ImportReadOK(w)' /\ ImportPrefixSafe(w)'
    BY <2>2, <2>3 DEF ImportReadOK, ImportReadAs, ImportPrefixSafe
  <2>6. ImportCleanOK(w)'
    BY <2>2, <2>3, <2>4 DEF ImportCleanOK, Imports!SubnetsOf, Imports!HostsOf
  <2> QED
    BY <1>1, <2>1, <2>2, <2>5, <2>6, ImportOwnStep
<1> QED
  BY <1>2, <1>3 DEF Imports!Publish

\* What changes in Kea is no longer stable for any run.
LEMMA ImportTouchedStep ==
    ASSUME ImportIInv, NEW x, Imports!Touched(x)
    PROVE  /\ run' \in [Runs -> ImportLocal]
           /\ \A w \in Runs : run'[w] = [run[w] EXCEPT !.stable = @ \ {x}]
           /\ \A w \in Runs : /\ run'[w].stable = run[w].stable \ {x}
                             /\ run'[w].pc = run[w].pc /\ run'[w].todo = run[w].todo /\ run'[w].conf = run[w].conf
                             /\ run'[w].snap = run[w].snap /\ run'[w].fresh = run[w].fresh /\ run'[w].clean = run[w].clean
                             /\ run'[w].imported = run[w].imported
<1>1. run \in [Runs -> ImportLocal]
  BY DEF ImportIInv, ImportTypes
<1>0. \A l \in ImportLocal : LET new == [l EXCEPT !.stable = @ \ {x}] IN
                   /\ new.stable = l.stable \ {x}
                   /\ new.pc = l.pc /\ new.todo = l.todo /\ new.conf = l.conf
                   /\ new.snap = l.snap /\ new.fresh = l.fresh /\ new.clean = l.clean
                   /\ new.imported = l.imported
  BY DEF ImportLocal
<1>2. \A w \in Runs : run'[w] = [run[w] EXCEPT !.stable = @ \ {x}]
  BY DEF Imports!Touched
<1>3. \A w \in Runs : [run[w] EXCEPT !.stable = @ \ {x}] \in ImportLocal
  BY <1>1 DEF ImportLocal
<1>4. run' \in [Runs -> ImportLocal]
  BY <1>2, <1>3 DEF Imports!Touched
<1>5. \A w \in Runs : /\ run'[w].stable = run[w].stable \ {x}
                   /\ run'[w].pc = run[w].pc /\ run'[w].todo = run[w].todo /\ run'[w].conf = run[w].conf
                   /\ run'[w].snap = run[w].snap /\ run'[w].fresh = run[w].fresh /\ run'[w].clean = run[w].clean
                   /\ run'[w].imported = run[w].imported
  <2> TAKE w \in Runs
  <2>1. run[w] \in ImportLocal /\ run'[w] = [run[w] EXCEPT !.stable = @ \ {x}]
    BY <1>1, <1>2
  <2> QED
    BY <2>1, <1>0
<1> QED
  BY <1>2, <1>4, <1>5

LEMMA ImportHostStep == ASSUME Imports!ReservationsAssumption, ImportIInv, Imports!HostChanges PROVE ImportIInv'
<1>1. PICK x \in Hosts, v \in ImportHostValues : host' = [host EXCEPT ![x] = v] /\ known' = known \ {x} /\ Imports!Touched(x)
  BY DEF Imports!HostChanges, Imports!ReservationsAssumption, ImportHostValues
<1>2. UNCHANGED <<subnet, enabled, linked, row, pd>>
  BY DEF Imports!HostChanges
<1>3. v \in ImportHostValues
  OBVIOUS
<1>4. host' \in [Hosts -> ImportHostValues] /\ \A h \in Hosts : h # x => host'[h] = host[h]
  BY <1>1, <1>3 DEF ImportIInv, ImportTypes
<1>5. run' \in [Runs -> ImportLocal] /\ \A w \in Runs :
            /\ run'[w].stable = run[w].stable \ {x}
            /\ run'[w].pc = run[w].pc /\ run'[w].todo = run[w].todo /\ run'[w].conf = run[w].conf
            /\ run'[w].snap = run[w].snap /\ run'[w].fresh = run[w].fresh /\ run'[w].clean = run[w].clean
            /\ run'[w].imported = run[w].imported
  BY <1>1, ImportTouchedStep
<1>6. ImportTypes' /\ ImportRowOK'
  BY <1>1, <1>2, <1>4, <1>5 DEF ImportIInv, ImportTypes, ImportRowOK
<1>7. \A h \in known' : host'[h] = "prefix" /\ h \in pd'
  BY <1>1, <1>2, <1>4 DEF ImportIInv, ImportTypes
<1>8. ASSUME NEW w \in Runs PROVE ImportReadOK(w)' /\ ImportPrefixSafe(w)' /\ ImportCleanOK(w)'
  <2>1. ImportReadOK(w) /\ ImportPrefixSafe(w) /\ ImportCleanOK(w)
    BY DEF ImportIInv
  <2>2. ImportReadOK(w)'
    BY <2>1, <1>2, <1>4, <1>5, ImportReadKept DEF ImportReadOK
  <2>3. ImportPrefixSafe(w)'
    BY <2>1, <1>1, <1>5 DEF ImportPrefixSafe
  <2>4. ImportCleanOK(w)'
    BY <2>1, <1>2, <1>4, <1>5 DEF ImportCleanOK, Imports!SubnetsOf, Imports!HostsOf
  <2> QED
    BY <2>2, <2>3, <2>4
<1> QED
  BY <1>6, <1>7, <1>8 DEF ImportIInv

LEMMA ImportSubnetStep == ASSUME Imports!ReservationsAssumption, ImportIInv, Imports!SubnetChanges PROVE ImportIInv'
<1>1. PICK x \in Subnets, v \in ImportSubnetValues : subnet' = [subnet EXCEPT ![x] = v] /\ Imports!Touched(x)
  BY DEF Imports!SubnetChanges, Imports!ReservationsAssumption, ImportSubnetValues
<1>2. UNCHANGED <<host, enabled, linked, row, pd, known>>
  BY DEF Imports!SubnetChanges, Imports!Rows
<1>3. v \in ImportSubnetValues
  OBVIOUS
<1>4. subnet' \in [Subnets -> ImportSubnetValues] /\ \A s \in Subnets : s # x => subnet'[s] = subnet[s]
  BY <1>1, <1>3 DEF ImportIInv, ImportTypes
<1>5. run' \in [Runs -> ImportLocal] /\ \A w \in Runs :
            /\ run'[w].stable = run[w].stable \ {x}
            /\ run'[w].pc = run[w].pc /\ run'[w].todo = run[w].todo /\ run'[w].conf = run[w].conf
            /\ run'[w].snap = run[w].snap /\ run'[w].fresh = run[w].fresh /\ run'[w].clean = run[w].clean
            /\ run'[w].imported = run[w].imported
  BY <1>1, ImportTouchedStep
<1>6. ImportTypes' /\ ImportRowOK'
  BY <1>1, <1>2, <1>4, <1>5 DEF ImportIInv, ImportTypes, ImportRowOK
<1>7. \A h \in known' : host'[h] = "prefix" /\ h \in pd'
  BY <1>1, <1>2, <1>4 DEF ImportIInv, ImportTypes
<1>8. ASSUME NEW w \in Runs PROVE ImportReadOK(w)' /\ ImportPrefixSafe(w)' /\ ImportCleanOK(w)'
  <2>1. ImportReadOK(w) /\ ImportPrefixSafe(w) /\ ImportCleanOK(w)
    BY DEF ImportIInv
  <2>2. ImportReadOK(w)'
    BY <2>1, <1>2, <1>4, <1>5, ImportReadKept DEF ImportReadOK
  <2>3. ImportPrefixSafe(w)'
    BY <2>1, <1>2, <1>5 DEF ImportPrefixSafe
  <2>4. ImportCleanOK(w)'
    BY <2>1, <1>2, <1>4, <1>5 DEF ImportCleanOK, Imports!SubnetsOf, Imports!HostsOf
  <2> QED
    BY <2>2, <2>3, <2>4
<1> QED
  BY <1>6, <1>7, <1>8 DEF ImportIInv

LEMMA ImportOperatorStep == ASSUME ImportIInv, Imports!EditServer \/ Imports!DeleteRow PROVE ImportIInv'
<1>1. UNCHANGED <<subnet, host, linked, pd, known, run>>
  BY DEF Imports!EditServer, Imports!DeleteRow, Imports!Kea, Imports!Rows
<1>2. enabled' \subseteq Imports!Families
  BY DEF Imports!EditServer, Imports!DeleteRow, Imports!Kea, ImportIInv, ImportTypes
<1>3. ImportRowOK'
  <2>1. CASE Imports!EditServer
    BY <2>1 DEF Imports!EditServer, Imports!Rows, ImportIInv, ImportRowOK
  <2>2. CASE Imports!DeleteRow
    BY <2>2 DEF Imports!DeleteRow, ImportIInv, ImportRowOK, ImportTypes
  <2> QED
    BY <2>1, <2>2
<1>6. row' \in [Imports!Pks -> {None} \union [link : Hosts \union {None}, holds : SUBSET Imports!Families]]
  BY DEF Imports!EditServer, Imports!DeleteRow, Imports!Rows, ImportIInv, ImportTypes
<1>4. ImportTypes'
  BY <1>1, <1>2, <1>6 DEF ImportIInv, ImportTypes
<1>5. ASSUME NEW w \in Runs PROVE ImportReadOK(w)' /\ ImportPrefixSafe(w)' /\ ImportCleanOK(w)'
  BY <1>1, ImportSameRunOK DEF ImportIInv, ImportSameRun
<1> QED
  BY <1>1, <1>3, <1>4, <1>5 DEF ImportIInv

(* A transaction.                                                          *)

\* What one transaction reads and writes.
ImportSure(w, failing) == IF Global \in failing THEN {} ELSE Imports!Confirmed(run[w].conf, run[w].snap, failing)
ImportGone(w, failing) == IF Global \in failing THEN {} ELSE Imports!Retired(w, run[w].conf, run[w].snap, failing)

LEMMA ImportReadableIs ==
    ASSUME ImportIInv, NEW w \in Runs, run[w].pc = "write", NEW failing
    PROVE  LET conf == run[w].conf
               snap == run[w].snap
               f == Head(run[w].todo)
           IN  /\ Imports!Imported(conf, snap, failing) \subseteq Imports!Readable(snap)
                  /\ Imports!Readable(snap) \subseteq Imports!HostsOf(f)
               /\ ImportSure(w, failing) \subseteq Imports!Imported(conf, snap, failing)
               /\ Imports!LinkedAfter(conf, failing) \subseteq Subnets /\ linked \subseteq Imports!LinkedAfter(conf, failing)
<1>1. ImportReadOK(w) /\ linked \subseteq Subnets
  BY DEF ImportIInv, ImportTypes
<1>2. Imports!Readable(run[w].snap) \subseteq Imports!HostsOf(Head(run[w].todo))
  BY <1>1 DEF ImportReadOK, ImportReadAs, Imports!Readable
<1>3. Imports!LinkedAfter(run[w].conf, failing) \subseteq Subnets
      /\ linked \subseteq Imports!LinkedAfter(run[w].conf, failing)
  BY <1>1 DEF ImportReadOK, ImportReadAs, Imports!LinkedAfter, Imports!SubnetsOf
<1> QED
  BY <1>2, <1>3 DEF Imports!Imported, ImportSure, Imports!Confirmed

\* No transaction retires a Prefix that Kea has kept since it was confirmed.
LEMMA ImportKeepsKnown ==
    ASSUME Imports!ReservationsAssumption, ImportIInv, NEW w \in Runs, run[w].pc = "write", NEW failing
    PROVE  known \intersect ImportGone(w, failing) = {}
<1> DEFINE conf == run[w].conf
           snap == run[w].snap
<1> SUFFICES ASSUME NEW h \in known, h \in ImportGone(w, failing) PROVE FALSE
  OBVIOUS
<1>1. Imports!Complete(conf, snap, failing) /\ h \in DOMAIN snap.hosts /\ h \notin run[w].fresh
      /\ h \notin Imports!Confirmed(conf, snap, failing)
  BY DEF ImportGone, Imports!Retired, Imports!Unconfirmed
<1>2. ~snap.truncated /\ {g \in DOMAIN snap.hosts : snap.hosts[g] # None} = Imports!Imported(conf, snap, failing)
  BY <1>1 DEF Imports!Complete
<1>3. snap.hosts[h] = "prefix"
  BY <1>1, <1>2 DEF ImportIInv, ImportPrefixSafe
<1>4. "prefix" # None => h \in Imports!Imported(conf, snap, failing)
  BY <1>1, <1>2, <1>3
<1>5. h \in Imports!Imported(conf, snap, failing)
  BY <1>4 DEF Imports!ReservationsAssumption
<1> QED
  BY <1>1, <1>3, <1>5 DEF Imports!Confirmed

\* The rows after a transaction: each one of a Reservation is linked to it.
LEMMA ImportRowsAfter ==
    ASSUME Imports!ReservationsAssumption, ImportTypes, ImportRowOK, NEW hosts \in SUBSET Hosts
    PROVE  LET new == Imports!Upserted(hosts)
           IN  /\ new \in [Imports!Pks -> {None} \union [link : Hosts \union {None}, holds : SUBSET Imports!Families]]
               /\ \A p \in Imports!Pks : row[p] # None /\ new[p] # None => row[p].link \in {None, new[p].link}
               /\ \A h \in Hosts : new[h] # None => new[h].link = h
<1> DEFINE new == Imports!Upserted(hosts)
<1>1. \A p \in Imports!Pks : new[p] = IF \E h \in hosts : Imports!Target(h) = p
                              THEN LET h == CHOOSE x \in hosts : Imports!Target(x) = p IN [link |-> h,
                                         holds |-> Imports!Holds(h)]
                              ELSE row[p]
  BY DEF Imports!Upserted
<1>2. ASSUME NEW h \in hosts, NEW p \in Imports!Pks, Imports!Target(h) = p
      PROVE  /\ row[p] # None => row[p].link \in {None, h}
             /\ p \in Hosts => p = h
  <2> DEFINE own == {q \in Imports!Pks : row[q] # None /\ row[q].link = h}
  <2>1. IdentOf[h] \in Imports!Idents /\ IdentOf[h] \in Imports!Pks /\ h \in Imports!Pks
    BY DEF Imports!Idents, Imports!Pks
  <2>2. CASE own # {}
    <3>1. p \in own
      BY <1>2, <2>2 DEF Imports!Target
    <3> QED
      BY <3>1 DEF ImportRowOK
  <2>3. CASE own = {} /\ ScopeOf[h] = Global /\ Imports!Unlinked(IdentOf[h])
    <3>1. p = IdentOf[h]
      BY <1>2, <2>3 DEF Imports!Target
    <3> QED
      BY <3>1, <2>1, <2>3 DEF Imports!Unlinked, Imports!ReservationsAssumption
  <2>4. CASE own = {} /\ ~(ScopeOf[h] = Global /\ Imports!Unlinked(IdentOf[h]))
    <3>1. p = h
      BY <1>2, <2>4 DEF Imports!Target
    <3> QED
      BY <3>1, <2>1, <2>4 DEF ImportRowOK
  <2> QED
    BY <2>2, <2>3, <2>4
<1>3. \A h \in Hosts : Imports!Holds(h) \in SUBSET Imports!Families
  BY DEF Imports!Holds, Imports!ReservationsAssumption
<1>4. ASSUME NEW p \in Imports!Pks
      PROVE  /\ new[p] \in {None} \union [link : Hosts \union {None}, holds : SUBSET Imports!Families]
             /\ row[p] # None /\ new[p] # None => row[p].link \in {None, new[p].link}
             /\ p \in Hosts /\ new[p] # None => new[p].link = p
  <2>1. CASE \E h \in hosts : Imports!Target(h) = p
    <3>1. PICK h \in hosts : Imports!Target(h) = p /\ new[p] = [link |-> h, holds |-> Imports!Holds(h)]
      BY <2>1, <1>1
    <3>2. [link |-> h, holds |-> Imports!Holds(h)] \in [link : Hosts \union {None}, holds : SUBSET Imports!Families]
      BY <1>3
    <3>3. new[p].link = h
      BY <3>1
    <3> QED
      BY <3>1, <3>2, <3>3, <1>2
  <2>2. CASE ~\E h \in hosts : Imports!Target(h) = p
    <3>1. new[p] = row[p]
      BY <2>2, <1>1
    <3> QED
      BY <3>1 DEF ImportTypes, ImportRowOK, Imports!Pks
  <2> QED
    BY <2>1, <2>2
<1>5. new = [p \in Imports!Pks |-> new[p]]
  BY DEF Imports!Upserted
<1> QED
  BY <1>4, <1>5 DEF Imports!Pks

LEMMA ImportWriteStep ==
    ASSUME Imports!ReservationsAssumption, ImportIInv, NEW w \in Runs, Imports!Write(w)
    PROVE  ImportIInv' /\ Imports!KeepsRows
<1>0. PICK failing : Imports!Commit(w, failing)
  BY DEF Imports!Write
<1> DEFINE me == run[w]
           conf == me.conf
           snap == me.snap
           f == Head(me.todo)
           sure == ImportSure(w, failing)
           gone == ImportGone(w, failing)
           imp == Imports!Imported(conf, snap, failing)
           link2 == Imports!LinkedAfter(conf, failing)
           new == [me EXCEPT !.pc = "next", !.todo = Tail(@), !.conf = Imports!Nothing, !.snap = Imports!Unread,
             !.fresh = {},
                       !.imported = @ \union imp \union (link2 \intersect Imports!SubnetsOf(f)),
                       !.clean = IF Imports!Clean(conf, snap, failing) THEN @ \union {f} ELSE @,
                       !.failed = @ \/ ~Imports!Clean(conf, snap, failing)]
<1>1. /\ me \in ImportLocal /\ me.pc = "write" /\ UNCHANGED <<subnet, host, enabled>>
      /\ ImportReadOK(w) /\ ImportPrefixSafe(w) /\ ImportCleanOK(w)
  BY DEF ImportIInv, ImportTypes, Imports!Write, Imports!Kea
<1>2. /\ linked' = link2 /\ row' = Imports!Upserted(imp)
      /\ pd' = (pd \ gone) \union sure
      /\ known' = known \union {h \in sure \intersect me.stable : host[h] = "prefix"}
      /\ run' = [u \in Runs |-> IF u # w THEN [run[u] EXCEPT !.fresh = @ \union sure] ELSE new]
  BY <1>0 DEF Imports!Commit, ImportSure, ImportGone
<1>3. /\ imp \subseteq Imports!Readable(snap) /\ Imports!Readable(snap) \subseteq Imports!HostsOf(f)
         /\ Imports!HostsOf(f) \subseteq Hosts
      /\ sure \subseteq imp /\ link2 \subseteq Subnets /\ linked \subseteq link2
  BY <1>1, ImportReadableIs DEF Imports!HostsOf
<1>4. known \intersect gone = {}
  BY <1>1, ImportKeepsKnown
<1> HIDE DEF sure, gone, imp, link2
<1>5. /\ row' \in [Imports!Pks -> {None} \union [link : Hosts \union {None}, holds : SUBSET Imports!Families]]
      /\ Imports!KeepsRows /\ ImportRowOK'
  <2>1. imp \in SUBSET Hosts /\ ImportTypes /\ ImportRowOK
    BY <1>3 DEF ImportIInv
  <2>2. LET rows == Imports!Upserted(imp)
           IN  /\ rows \in [Imports!Pks -> {None} \union [link : Hosts \union {None}, holds : SUBSET Imports!Families]]
               /\ \A p \in Imports!Pks : row[p] # None /\ rows[p] # None => row[p].link \in {None, rows[p].link}
               /\ \A h \in Hosts : rows[h] # None => rows[h].link = h
    BY <2>1, ImportRowsAfter
  <2> QED
    BY <2>2, <1>2 DEF Imports!KeepsRows, ImportRowOK
<1>6. f \in Imports!Families /\ Tail(me.todo) \in Seq(Imports!Families)
  BY <1>1 DEF ImportReadOK, ImportReadAs, ImportLocal
<1>7. /\ new \in ImportLocal /\ new.pc = "next" /\ new.stable = me.stable
      /\ new.imported = me.imported \union imp \union (link2 \intersect Imports!SubnetsOf(f))
      /\ new.clean = IF Imports!Clean(conf, snap, failing) THEN me.clean \union {f} ELSE me.clean
  <2>1. Imports!Nothing \in ImportPartial(Subnets, ImportSubnetValues)
        /\ Imports!Unread \in [hosts : ImportPartial(Hosts, ImportHostValues), truncated : BOOLEAN]
    BY ImportIdleType DEF Imports!Idle, ImportLocal
  <2>2. imp \union (link2 \intersect Imports!SubnetsOf(f)) \subseteq Hosts \union Subnets
    BY <1>3
  <2>3. me.clean \union {f} \in SUBSET Imports!Families
    BY <1>1, <1>6 DEF ImportLocal
  <2>4. (me.failed \/ ~Imports!Clean(conf, snap, failing)) \in BOOLEAN
    OBVIOUS
  <2> QED
    BY <1>1, <1>6, <2>1, <2>2, <2>3, <2>4 DEF ImportLocal
<1>8. /\ run' \in [Runs -> ImportLocal] /\ run'[w] = new
      /\ \A u \in Runs : u # w =>
            /\ run'[u].fresh = run[u].fresh \union sure
            /\ run'[u].pc = run[u].pc /\ run'[u].todo = run[u].todo /\ run'[u].conf = run[u].conf
            /\ run'[u].snap = run[u].snap /\ run'[u].stable = run[u].stable /\ run'[u].clean = run[u].clean
            /\ run'[u].imported = run[u].imported
  <2> HIDE DEF new
  <2>1. \A u \in Runs : u # w => run'[u] = [run[u] EXCEPT !.fresh = @ \union sure]
    BY <1>2
  <2>2. ASSUME NEW l \in ImportLocal
        PROVE  LET l2 == [l EXCEPT !.fresh = @ \union sure]
               IN  /\ l2 \in ImportLocal /\ l2.fresh = l.fresh \union sure
                   /\ l2.pc = l.pc /\ l2.todo = l.todo /\ l2.conf = l.conf
                   /\ l2.snap = l.snap /\ l2.stable = l.stable /\ l2.clean = l.clean
                   /\ l2.imported = l.imported
    <3>1. sure \subseteq Hosts
      BY <1>3
    <3> QED
      BY <3>1 DEF ImportLocal
  <2>3. \A u \in Runs : run[u] \in ImportLocal
    BY DEF ImportIInv, ImportTypes
  <2>4. ASSUME NEW u \in Runs, u # w
        PROVE  /\ run'[u] \in ImportLocal
            /\ run'[u].fresh = run[u].fresh \union sure
            /\ run'[u].pc = run[u].pc /\ run'[u].todo = run[u].todo /\ run'[u].conf = run[u].conf
            /\ run'[u].snap = run[u].snap /\ run'[u].stable = run[u].stable /\ run'[u].clean = run[u].clean
            /\ run'[u].imported = run[u].imported
    <3>1. run[u] \in ImportLocal /\ run'[u] = [run[u] EXCEPT !.fresh = @ \union sure]
      BY <2>1, <2>3, <2>4
    <3> QED
      BY <3>1, <2>2
  <2>5. run'[w] = new
    BY <1>2
  <2>6. run' \in [Runs -> ImportLocal]
    <3>1. \A u \in Runs : run'[u] \in ImportLocal
      BY <2>4, <2>5, <1>7
    <3>2. run' = [u \in Runs |-> run'[u]]
      BY <1>2
    <3> QED
      BY <3>1, <3>2
  <2> QED
    BY <2>4, <2>5, <2>6
<1> HIDE DEF new
<1>9. ImportTypes'
  <2>1. known' \subseteq Hosts /\ pd' \subseteq Hosts
    BY <1>2, <1>3 DEF ImportIInv, ImportTypes
  <2> QED
    BY <2>1, <1>1, <1>2, <1>3, <1>5, <1>8 DEF ImportIInv, ImportTypes
<1>10. \A h \in known' : host'[h] = "prefix" /\ h \in pd'
  BY <1>1, <1>2, <1>4 DEF ImportIInv
<1>11. ASSUME NEW u \in Runs, u # w PROVE ImportReadOK(u)' /\ ImportPrefixSafe(u)' /\ ImportCleanOK(u)'
  <2>1. ImportReadOK(u) /\ ImportPrefixSafe(u) /\ ImportCleanOK(u)
    BY DEF ImportIInv
  <2>2. ImportReadOK(u)'
    BY <2>1, <1>1, <1>8, <1>11, ImportReadKept DEF ImportReadOK
  <2>3. ImportPrefixSafe(u)'
    BY <2>1, <1>2, <1>8, <1>11 DEF ImportPrefixSafe
  <2>4. ImportCleanOK(u)'
    BY <2>1, <1>1, <1>8, <1>11 DEF ImportCleanOK, Imports!SubnetsOf, Imports!HostsOf
  <2> QED
    BY <2>2, <2>3, <2>4
<1>12. ImportReadOK(w)' /\ ImportPrefixSafe(w)'
  BY <1>7, <1>8 DEF ImportReadOK, ImportReadAs, ImportPrefixSafe
<1>13. ImportCleanOK(w)'
  <2>1. CASE ~Imports!Clean(conf, snap, failing)
    BY <2>1, <1>1, <1>7, <1>8 DEF ImportCleanOK, Imports!SubnetsOf, Imports!HostsOf
  <2>2. CASE Imports!Clean(conf, snap, failing)
    <3>1. ~snap.truncated /\ {h \in DOMAIN snap.hosts : snap.hosts[h] # None} = imp
      BY <2>2 DEF Imports!Clean, Imports!Complete, imp
    <3>2. \A s \in Imports!SubnetsOf(f) \intersect me.stable : subnet[s] # "bad" /\ (subnet[s] = "good" => s \in link2)
      <4> TAKE s \in Imports!SubnetsOf(f) \intersect me.stable
      <4>1. s \in DOMAIN conf /\ conf[s] = subnet[s]
        BY <1>1 DEF ImportReadOK, ImportReadAs
      <4>2. conf[s] # "bad" /\ failing = {}
        BY <4>1, <2>2 DEF Imports!Clean
      <4> QED
        BY <4>1, <4>2 DEF Imports!LinkedAfter, link2
    <3>3. \A h \in Imports!HostsOf(f) \intersect me.stable : host[h] # None => h \in imp
      BY <3>1, <1>1 DEF ImportReadOK, ImportReadAs
    <3>4. run'[w].clean = me.clean \union {f} /\ run'[w].stable = me.stable
          /\ run'[w].imported = me.imported \union imp \union (link2 \intersect Imports!SubnetsOf(f))
      BY <2>2, <1>7, <1>8
    <3> QED
      BY <3>2, <3>3, <3>4, <1>1 DEF ImportCleanOK, Imports!SubnetsOf, Imports!HostsOf
  <2> QED
    BY <2>1, <2>2
<1> QED
  BY <1>5, <1>9, <1>10, <1>11, <1>12, <1>13 DEF ImportIInv

LEMMA ImportNextStep ==
    ASSUME Imports!ReservationsAssumption, ImportIInv, [Imports!Next]_Imports!vars
    PROVE  ImportIInv' /\ (Imports!KeepsRows \/ UNCHANGED Imports!vars)
<1>1. ASSUME NEW w \in Runs, Imports!Step(w) PROVE ImportIInv' /\ Imports!KeepsRows
  <2>1. CASE Imports!Write(w)
    BY <2>1, ImportWriteStep
  <2>2. CASE ~Imports!Write(w)
    <3>1. ImportIInv'
      BY <1>1, <2>2, ImportStartStep, ImportConfStep, ImportCutoffStep, ImportHostsStep, ImportStopStep,
         ImportPublishStep DEF Imports!Step
    <3>2. row' = row
      BY <1>1, <2>2 DEF Imports!Step, Imports!Start, Imports!ReadConfig, Imports!TakeCutoff, Imports!ReadHosts,
         Imports!Stop, Imports!Publish, Imports!Rows
    <3> QED
      BY <3>1, <3>2 DEF Imports!KeepsRows
  <2> QED
    BY <2>1, <2>2
<1>2. CASE Imports!HostChanges \/ Imports!SubnetChanges \/ Imports!EditServer
  <2>1. row' = row
    BY <1>2 DEF Imports!HostChanges, Imports!SubnetChanges, Imports!EditServer, Imports!Rows
  <2> QED
    BY <1>2, <2>1, ImportHostStep, ImportSubnetStep, ImportOperatorStep DEF Imports!KeepsRows
<1>3. CASE Imports!DeleteRow
  <2>1. \A p \in Imports!Pks : row'[p] \in {row[p], None}
    BY <1>3 DEF Imports!DeleteRow, ImportIInv, ImportTypes
  <2> QED
    BY <1>3, <2>1, ImportOperatorStep DEF Imports!KeepsRows
<1>4. CASE UNCHANGED Imports!vars
  <2>1. UNCHANGED <<subnet, host, enabled, linked, row, pd, known, run>>
    BY <1>4 DEF Imports!vars
  <2>2. ImportTypes' /\ ImportRowOK'
    BY <2>1 DEF ImportIInv, ImportTypes, ImportRowOK
  <2>3. \A w \in Runs : ImportReadOK(w)' /\ ImportPrefixSafe(w)' /\ ImportCleanOK(w)'
    BY <2>1, ImportSameRunOK DEF ImportIInv, ImportSameRun
  <2> QED
    BY <1>4, <2>1, <2>2, <2>3 DEF ImportIInv
<1> QED
  BY <1>1, <1>2, <1>3, <1>4 DEF Imports!Next

LEMMA ImportIInvAlways == ASSUME Imports!ReservationsAssumption PROVE Imports!Spec => []ImportIInv
<1>1. Imports!Init => ImportIInv
  BY ImportInitIInv
<1>2. ImportIInv /\ [Imports!Next]_Imports!vars => ImportIInv'
  BY ImportNextStep
<1> QED
  BY <1>1, <1>2, PTL DEF Imports!Spec

\* A delegated Prefix that an import confirmed keeps its ownership link for as long as Kea keeps it: neither an import that
\* read older Reservations nor one that left a Reservation out retires it, whatever else fails and however the imports
\* overlap (DelegatedPrefixPhase).
THEOREM PrefixesStay == ASSUME Imports!ReservationsAssumption PROVE Imports!Spec => []Imports!PrefixKept
<1>1. ImportIInv => Imports!PrefixKept
  BY DEF ImportIInv, Imports!PrefixKept
<1> QED
  BY <1>1, ImportIInvAlways, PTL

\* No import takes a row of the DHCP plugin from the Reservation that is linked to it (_unlinked).
THEOREM RowsStay == ASSUME Imports!ReservationsAssumption PROVE Imports!Spec => [][Imports!KeepsRows]_Imports!vars
<1>1. ImportIInv /\ [Imports!Next]_Imports!vars => [Imports!KeepsRows]_Imports!vars
  BY ImportNextStep
<1> QED
  BY <1>1, ImportIInvAlways, PTL DEF Imports!Spec

LEMMA ImportPublishWhole ==
    ASSUME ImportIInv, [Imports!Next]_Imports!vars PROVE Imports!PublishesWhole
<1> SUFFICES ASSUME NEW w \in Runs, run[w].pc = "next", run'[w].pc = "published"
             PROVE  /\ enabled # {}
                    /\ \A h \in run[w].stable \intersect Hosts : FamilyOf[h] \in enabled
                       /\ host[h] # None => h \in run[w].imported
                    /\ \A s \in run[w].stable \intersect Subnets :
                          FamilyOfSubnet[s] \in enabled => subnet[s] # "bad" /\ (subnet[s] = "good" => s \in run[w].imported)
  BY DEF Imports!PublishesWhole
<1>1. \A u \in Runs : run[u] \in ImportLocal
  BY DEF ImportIInv, ImportTypes
<1>2. ASSUME ~Imports!Publish(w) PROVE FALSE
  <2>1. CASE UNCHANGED run
    BY <2>1
  <2>2. ASSUME NEW x, Imports!Touched(x) PROVE FALSE
    <3>1. run'[w].pc = run[w].pc
      BY <2>2, ImportTouchedStep
    <3> QED
      BY <3>1
  <2>3. ASSUME NEW u \in Runs, u # w, Imports!Step(u) PROVE FALSE
    <3>1. CASE Imports!Write(u)
      <4>1. PICK sure : run'[w] = [run[w] EXCEPT !.fresh = @ \union sure]
        BY <2>3, <3>1 DEF Imports!Write, Imports!Commit
      <4> QED
        BY <4>1, <1>1 DEF ImportLocal
    <3>2. CASE ~Imports!Write(u)
      <4>1. run'[w] = run[w]
        BY <2>3, <3>2 DEF ImportIInv, ImportTypes, Imports!Step, Imports!Start, Imports!ReadConfig, Imports!TakeCutoff,
           Imports!ReadHosts, Imports!Stop, Imports!Publish
      <4> QED
        BY <4>1
    <3> QED
      BY <3>1, <3>2
  <2>4. ASSUME Imports!Step(w) PROVE FALSE
    <3>1. CASE Imports!ReadConfig(w)
      <4>1. run'[w].pc \in {"next", "cutoff"}
        <5> DEFINE conf == [s \in Imports!SubnetsOf(Head(run[w].todo)) |-> subnet[s]]
        <5>1. \/ run' = [run EXCEPT ![w] = [run[w] EXCEPT !.pc = "cutoff", !.conf = conf]]
              \/ run' = [run EXCEPT ![w] = [run[w] EXCEPT !.todo = Tail(@)]]
          BY <3>1 DEF Imports!ReadConfig
        <5> HIDE DEF conf
        <5>2. run'[w] \in {[run[w] EXCEPT !.pc = "cutoff", !.conf = conf], [run[w] EXCEPT !.todo = Tail(@)]}
          BY <5>1 DEF ImportIInv, ImportTypes
        <5> QED
          BY <5>2, <1>1 DEF ImportLocal
      <4> QED
        BY <4>1
    <3>2. CASE ~Imports!ReadConfig(w)
      BY <2>4, <3>2, <1>2 DEF Imports!Step, Imports!Start, Imports!TakeCutoff, Imports!ReadHosts, Imports!Write, Imports!Stop
    <3> QED
      BY <3>1, <3>2
  <2> QED
    BY <2>1, <2>2, <2>3, <2>4 DEF Imports!Next, Imports!HostChanges, Imports!SubnetChanges, Imports!EditServer,
       Imports!DeleteRow, Imports!vars
<1>3. Imports!Publish(w)
  BY <1>2
<1>4. Imports!Covers(w)
  <2>1. CASE run' = [run EXCEPT ![w] = Imports!Idle]
    <3>1. run'[w] = Imports!Idle
      BY <2>1 DEF ImportIInv, ImportTypes
    <3> QED
      BY <3>1 DEF Imports!Idle
  <2> QED
    BY <1>3, <2>1 DEF Imports!Publish
<1>5. ImportCleanOK(w)
  BY DEF ImportIInv
<1> QED
  BY <1>4, <1>5 DEF Imports!Covers, ImportCleanOK, Imports!HostsOf, Imports!SubnetsOf

\* An import publishes its receipt only when every Subnet and Reservation that Kea kept throughout it, in every family that
\* the Server imports, was readable and was imported (complete_import_observation).
THEOREM ReceiptsWhole == ASSUME Imports!ReservationsAssumption PROVE Imports!Spec => [][Imports!PublishesWhole]_Imports!vars
<1>1. ImportIInv /\ [Imports!Next]_Imports!vars => [Imports!PublishesWhole]_Imports!vars
  BY ImportPublishWhole
<1> QED
  BY <1>1, ImportIInvAlways, PTL DEF Imports!Spec

------------------------------------------------------------------------------
(* The merge of a branch and its revert (MappingReplay): the inductive      *)
(* invariant relates what the branch copied, what it has and what main     *)
(* had before the merge.                                                   *)

CONSTANTS Mappings, Sources, Values, MaxBranch, MaxMain     \* MappingReplay
VARIABLES main, base, branch, whole, phase, before, quiet, clock

Replays == INSTANCE MappingReplay

ReplayDatabases == [target : [Targets -> Replays!TargetRows \union {None}], server : BOOLEAN, ends : SUBSET Endpoints,
              mapping : [Mappings -> Replays!MappingRows \union {None}]]

\* A mapping points at the row that it was recorded for.
ReplayMeans(db) == \A m \in Mappings : db.mapping[m] # None =>
    /\ db.target[db.mapping[m].target] # None
    /\ db.target[db.mapping[m].target].generation = db.mapping[m].seen

\* A target refers to what exists.
ReplaySound(db) == \A t \in Targets : db.target[t] # None => db.target[t].end \in db.ends \union {None}

\* A branch can only delete mappings, each one with its target, and makes no rows.
ReplayBranchOK ==
    /\ \A t \in Targets : base.target[t] # None
    /\ \A t \in Targets : branch.target[t] # None => branch.target[t].generation = base.target[t].generation
    /\ \A m \in Mappings : branch.mapping[m] =
          IF base.mapping[m] # None /\ branch.target[base.mapping[m].target] = None THEN None ELSE base.mapping[m]
    /\ branch.ends \subseteq base.ends

\* What a merge leaves of main: before is main before it.
ReplayMergeOK ==
    /\ \A m \in Mappings : IF base.mapping[m] # branch.mapping[m] THEN before.mapping[m] = base.mapping[m]
                                                                  ELSE main.mapping[m] = before.mapping[m]
    /\ \A t \in Targets : Replays!MappedTo(before, t) # {} =>
          IF base.target[t] # branch.target[t] THEN before.target[t] = base.target[t] /\ main.target[t] = branch.target[t]
                                               ELSE main.target[t] = before.target[t]

ReplayTypes ==
    /\ {main, base, branch} \subseteq ReplayDatabases /\ clock \in Nat
    /\ whole \in BOOLEAN /\ quiet \in BOOLEAN /\ phase \in {"open", "merged", "reverted"}
    /\ phase # "open" => before \in ReplayDatabases

ReplayIInv ==
    /\ ReplayTypes /\ ReplayMeans(main) /\ ReplayMeans(base) /\ ReplaySound(main) /\ ReplayBranchOK
    /\ phase = "merged" /\ quiet => ReplayMeans(before) /\ ReplayMergeOK
    /\ Replays!RevertRestores

LEMMA ReplayInitIInv == Replays!ReplayAssumption /\ Replays!Init => ReplayIInv
<1> SUFFICES ASSUME Replays!ReplayAssumption, Replays!Init PROVE ReplayIInv
  OBVIOUS
<1>1. PICK ends \in [Targets -> Endpoints \union {None}], v \in Values, t \in Targets, s \in Sources, m \in Mappings :
          main = [target |-> [u \in Targets |-> Replays!Target(1, v, ends[u])], server |-> TRUE, ends |-> Endpoints,
                  mapping |-> [n \in Mappings |-> IF n = m THEN Replays!Mapping(1, s, t, 1) ELSE None]]
  BY DEF Replays!Init
<1>2. \A u \in Targets : Replays!Target(1, v, ends[u]) \in Replays!TargetRows /\ Replays!Target(1, v, ends[u]).generation = 1
                         /\ Replays!Target(1, v, ends[u]).end \in Endpoints \union {None}
  BY DEF Replays!Target, Replays!TargetRows
<1>3. Replays!Mapping(1, s, t, 1) \in Replays!MappingRows /\ Replays!Mapping(1, s, t, 1).target = t
      /\ Replays!Mapping(1, s, t, 1).seen = 1
  BY DEF Replays!Mapping, Replays!MappingRows
<1>4. \A u \in Targets : Replays!Target(1, v, ends[u]) # None
  BY <1>2 DEF Replays!ReplayAssumption
<1>5. /\ main.target = [u \in Targets |-> Replays!Target(1, v, ends[u])] /\ main.ends = Endpoints
      /\ main.mapping = [n \in Mappings |-> IF n = m THEN Replays!Mapping(1, s, t, 1) ELSE None]
      /\ main \in ReplayDatabases
  BY <1>1, <1>2, <1>3 DEF ReplayDatabases
<1>6. ReplayMeans(main) /\ ReplaySound(main)
  BY <1>2, <1>3, <1>4, <1>5 DEF ReplayMeans, ReplaySound
<1>7. base = main /\ branch = main /\ phase = "open"
  BY DEF Replays!Init
<1>8. ReplayBranchOK
  BY <1>3, <1>4, <1>5, <1>7 DEF ReplayBranchOK
<1> QED
  BY <1>5, <1>6, <1>7, <1>8 DEF ReplayIInv, ReplayTypes, Replays!Init, Replays!RevertRestores

\* The rows of a database after the changes that operators make.
LEMMA ReplayWithoutTargetIs ==
    ASSUME Replays!ReplayAssumption, NEW db \in ReplayDatabases, NEW t \in Targets
    PROVE  LET new == Replays!WithoutTarget(db, t)
           IN  /\ new \in ReplayDatabases /\ new.ends = db.ends
               /\ \A u \in Targets : new.target[u] = IF u = t THEN None ELSE db.target[u]
               /\ \A m \in Mappings : new.mapping[m] = IF db.mapping[m] # None
                  /\ db.mapping[m].target = t THEN None ELSE db.mapping[m]
<1> DEFINE targets == [db.target EXCEPT ![t] = None]
           mappings == [m \in Mappings |-> IF m \in Replays!MappedTo(db, t) THEN None ELSE db.mapping[m]]
           new == Replays!WithoutTarget(db, t)
<1>1. targets \in [Targets -> Replays!TargetRows \union {None}]
      /\ mappings \in [Mappings -> Replays!MappingRows \union {None}]
  BY DEF ReplayDatabases
<1>2. new = [db EXCEPT !.target = targets, !.mapping = mappings]
  BY DEF Replays!WithoutTarget
<1>3. new \in ReplayDatabases /\ new.ends = db.ends /\ new.target = targets /\ new.mapping = mappings
  <2> HIDE DEF targets, mappings, new
  <2> QED
    BY <1>1, <1>2 DEF ReplayDatabases
<1>4. \A u \in Targets : targets[u] = IF u = t THEN None ELSE db.target[u]
  BY DEF ReplayDatabases
<1>5. \A m \in Mappings : mappings[m] = IF db.mapping[m] # None /\ db.mapping[m].target = t THEN None ELSE db.mapping[m]
  BY DEF Replays!MappedTo
<1> QED
  BY <1>3, <1>4, <1>5

LEMMA ReplayWithoutEndpointIs ==
    ASSUME NEW db \in ReplayDatabases, NEW e \in Endpoints, None \notin Replays!TargetRows
    PROVE  LET new == Replays!WithoutEndpoint(db, e)
           IN  /\ new \in ReplayDatabases /\ new.ends = db.ends \ {e} /\ new.mapping = db.mapping
               /\ \A u \in Targets :
                    /\ new.target[u] = None <=> db.target[u] = None
                    /\ db.target[u] # None => /\ new.target[u].generation = db.target[u].generation
                                              /\ new.target[u].end = IF db.target[u].end = e THEN None ELSE db.target[u].end
                    /\ db.target[u] = None \/ db.target[u].end # e => new.target[u] = db.target[u]
<1> DEFINE targets == [t \in Targets |->
             IF db.target[t] # None /\ db.target[t].end = e THEN [db.target[t] EXCEPT !.end = None] ELSE db.target[t]]
           new == Replays!WithoutEndpoint(db, e)
<1>1. \A r \in Replays!TargetRows : LET n == [r EXCEPT !.end = None] IN n \in Replays!TargetRows
      /\ n.generation = r.generation /\ n.end = None
  BY DEF Replays!TargetRows
<1>2. \A t \in Targets : db.target[t] \in Replays!TargetRows \union {None}
  BY DEF ReplayDatabases
<1>3. targets \in [Targets -> Replays!TargetRows \union {None}]
  BY <1>1, <1>2
<1>4. new = [db EXCEPT !.ends = @ \ {e}, !.target = targets]
  BY DEF Replays!WithoutEndpoint
<1>5. new \in ReplayDatabases /\ new.ends = db.ends \ {e} /\ new.mapping = db.mapping /\ new.target = targets
  <2> HIDE DEF targets, new
  <2> QED
    BY <1>3, <1>4 DEF ReplayDatabases
<1>6. ASSUME NEW u \in Targets
      PROVE  /\ targets[u] = None <=> db.target[u] = None
             /\ db.target[u] # None => /\ targets[u].generation = db.target[u].generation
                                       /\ targets[u].end = IF db.target[u].end = e THEN None ELSE db.target[u].end
             /\ db.target[u] = None \/ db.target[u].end # e => targets[u] = db.target[u]
  BY <1>1, <1>2
<1> QED
  BY <1>5, <1>6

LEMMA ReplayEditedIs ==
    ASSUME NEW db \in ReplayDatabases, None \notin Replays!TargetRows, NEW t \in Targets, db.target[t] # None,
           NEW new \in Replays!Edited(db, t)
    PROVE  /\ new \in ReplayDatabases /\ new.ends = db.ends /\ new.mapping = db.mapping
           /\ \A u \in Targets : u # t => new.target[u] = db.target[u]
           /\ new.target[t] # None /\ new.target[t].generation = db.target[t].generation
           /\ new.target[t].end \in db.ends \union {None, db.target[t].end}
<1>1. PICK r : /\ new = [db EXCEPT !.target[t] = r]
               /\ \/ \E v \in Values : r = [db.target[t] EXCEPT !.value = v]
                  \/ \E e \in db.ends \union {None} : r = [db.target[t] EXCEPT !.end = e]
  BY DEF Replays!Edited
<1>2. db.target[t] \in Replays!TargetRows /\ db.ends \subseteq Endpoints
  BY DEF ReplayDatabases
<1>3. r \in Replays!TargetRows /\ r.generation = db.target[t].generation /\ r.end \in db.ends \union {None, db.target[t].end}
  BY <1>1, <1>2 DEF Replays!TargetRows
<1>4. [db.target EXCEPT ![t] = r] \in [Targets -> Replays!TargetRows \union {None}]
  BY <1>3 DEF ReplayDatabases
<1>5. new = [db EXCEPT !.target = [db.target EXCEPT ![t] = r]]
  BY <1>1
<1>6. new.target = [db.target EXCEPT ![t] = r] /\ new \in ReplayDatabases /\ new.ends = db.ends /\ new.mapping = db.mapping
  BY <1>4, <1>5 DEF ReplayDatabases
<1> QED
  BY <1>3, <1>6 DEF ReplayDatabases

LEMMA ReplayBranchStep ==
    ASSUME Replays!ReplayAssumption, ReplayIInv, Replays!BranchEdits \/ Replays!BranchDeletes
           \/ Replays!BranchDeletesEndpoint
    PROVE  ReplayIInv'
<1>1. UNCHANGED <<main, base, whole, phase, before, quiet, clock>> /\ phase = "open"
  BY DEF Replays!BranchEdits, Replays!BranchDeletes, Replays!BranchDeletesEndpoint, Replays!InBranch
<1>2. /\ branch \in ReplayDatabases /\ base \in ReplayDatabases /\ None \notin Replays!TargetRows
         /\ None \notin Replays!MappingRows /\ ReplayBranchOK
  BY DEF ReplayIInv, ReplayTypes, Replays!ReplayAssumption
<1>3. branch' \in ReplayDatabases /\ ReplayBranchOK'
  <2>1. CASE Replays!BranchEdits
    <3>1. PICK t \in Targets : branch.target[t] # None /\ branch' \in Replays!Edited(branch, t)
      BY <2>1 DEF Replays!BranchEdits, Replays!InBranch
    <3> DEFINE new == branch'
    <3>2. /\ new \in ReplayDatabases /\ new.ends = branch.ends /\ new.mapping = branch.mapping
          /\ \A u \in Targets : u # t => new.target[u] = branch.target[u]
          /\ new.target[t] # None /\ new.target[t].generation = branch.target[t].generation
      <4> HIDE DEF new
      <4> QED
        BY <3>1, <1>2, ReplayEditedIs DEF new
    <3>3. \A u \in Targets : new.target[u] = None <=> branch.target[u] = None
      BY <3>1, <3>2
    <3>4. \A m \in Mappings : base.mapping[m] # None => base.mapping[m].target \in Targets
      BY <1>2 DEF ReplayDatabases, Replays!MappingRows
    <3> QED
      BY <3>1, <3>2, <3>3, <3>4, <1>1, <1>2 DEF ReplayBranchOK
  <2>2. CASE Replays!BranchDeletes
    <3>1. PICK t \in Targets : branch.target[t] # None /\ branch' = Replays!WithoutTarget(branch, t)
      BY <2>2 DEF Replays!BranchDeletes, Replays!InBranch
    <3> DEFINE new == Replays!WithoutTarget(branch, t)
    <3>2. /\ new \in ReplayDatabases /\ new.ends = branch.ends
          /\ \A u \in Targets : new.target[u] = IF u = t THEN None ELSE branch.target[u]
          /\ \A m \in Mappings : new.mapping[m] = IF branch.mapping[m] # None
             /\ branch.mapping[m].target = t THEN None ELSE branch.mapping[m]
      BY <1>2, ReplayWithoutTargetIs
    <3> HIDE DEF new
    <3>3. \A m \in Mappings : base.mapping[m] # None => base.mapping[m].target \in Targets
      BY <1>2 DEF ReplayDatabases, Replays!MappingRows
    <3>4. branch' = new
      BY <3>1 DEF new
    <3>5. \A u \in Targets : new.target[u] # None => new.target[u].generation = base.target[u].generation
      BY <3>2, <1>2 DEF ReplayBranchOK
    <3>6. ASSUME NEW m \in Mappings
          PROVE  new.mapping[m] = IF base.mapping[m] # None
                 /\ new.target[base.mapping[m].target] = None THEN None ELSE base.mapping[m]
      <4>1. branch.mapping[m] = IF base.mapping[m] # None
            /\ branch.target[base.mapping[m].target] = None THEN None ELSE base.mapping[m]
        BY <1>2 DEF ReplayBranchOK
      <4> QED
        BY <4>1, <3>2, <3>3
    <3> QED
      BY <3>2, <3>4, <3>5, <3>6, <1>1, <1>2 DEF ReplayBranchOK
  <2>3. CASE Replays!BranchDeletesEndpoint
    <3>1. PICK e \in branch.ends : branch' = Replays!WithoutEndpoint(branch, e)
      BY <2>3 DEF Replays!BranchDeletesEndpoint, Replays!InBranch
    <3> DEFINE new == Replays!WithoutEndpoint(branch, e)
    <3>2. e \in Endpoints
      BY <1>2 DEF ReplayDatabases
    <3>3. /\ new \in ReplayDatabases /\ new.ends = branch.ends \ {e} /\ new.mapping = branch.mapping
          /\ \A u \in Targets :
                    /\ new.target[u] = None <=> branch.target[u] = None
                    /\ branch.target[u] # None => new.target[u].generation = branch.target[u].generation
      BY <1>2, <3>2, ReplayWithoutEndpointIs
    <3> HIDE DEF new
    <3>4. \A m \in Mappings : base.mapping[m] # None => base.mapping[m].target \in Targets
      BY <1>2 DEF ReplayDatabases, Replays!MappingRows
    <3>5. branch' = new
      BY <3>1 DEF new
    <3> QED
      BY <3>3, <3>4, <3>5, <1>1, <1>2 DEF ReplayBranchOK
  <2> QED
    BY <2>1, <2>2, <2>3
<1>4. ReplayTypes' /\ ReplayMeans(main)' /\ ReplayMeans(base)' /\ ReplaySound(main)'
  BY <1>1, <1>3 DEF ReplayIInv, ReplayTypes, ReplayMeans, ReplaySound
<1> QED
  BY <1>1, <1>3, <1>4 DEF ReplayIInv, Replays!RevertRestores

\* What operators and imports do in main.
LEMMA ReplayInMainStep ==
    ASSUME ReplayIInv, NEW db \in ReplayDatabases, Replays!InMain(db), ReplayMeans(db), ReplaySound(db), clock' \in Nat
    PROVE  ReplayIInv'
<1>1. main' = db /\ quiet' = FALSE /\ UNCHANGED <<base, branch, whole, phase, before>>
  BY DEF Replays!InMain
<1>2. ReplayTypes' /\ ReplayBranchOK'
  BY <1>1 DEF ReplayIInv, ReplayTypes, ReplayBranchOK
<1>3. ReplayMeans(main)' /\ ReplayMeans(base)' /\ ReplaySound(main)'
  BY <1>1 DEF ReplayIInv, ReplayMeans, ReplaySound
<1> QED
  BY <1>1, <1>2, <1>3 DEF ReplayIInv, Replays!RevertRestores

LEMMA ReplayMainStep ==
    ASSUME Replays!ReplayAssumption, ReplayIInv,
           Replays!MainEdits \/ Replays!MainDeletes \/ Replays!MainDeletesEndpoint \/ Replays!MainCreates
           \/ Replays!ImportObserves \/ Replays!ServerGoes
    PROVE  ReplayIInv'
<1>1. /\ main \in ReplayDatabases /\ None \notin Replays!TargetRows /\ None \notin Replays!MappingRows
         /\ ReplayMeans(main) /\ ReplaySound(main) /\ clock \in Nat
      /\ None \notin Endpoints
  BY DEF ReplayIInv, ReplayTypes, Replays!ReplayAssumption
<1>0. \A m \in Mappings : main.mapping[m] # None => main.mapping[m].target \in Targets
      /\ main.mapping[m] \in Replays!MappingRows
  BY <1>1 DEF ReplayDatabases, Replays!MappingRows
<1>2. CASE Replays!MainEdits
  <2>1. PICK t, db : t \in Targets /\ main.target[t] # None /\ db \in Replays!Edited(main, t) /\ Replays!InMain(db)
        /\ UNCHANGED clock
    BY <1>2 DEF Replays!MainEdits
  <2>2. /\ db \in ReplayDatabases /\ db.ends = main.ends /\ db.mapping = main.mapping
        /\ \A u \in Targets : u # t => db.target[u] = main.target[u]
        /\ db.target[t] # None /\ db.target[t].generation = main.target[t].generation
        /\ db.target[t].end \in main.ends \union {None, main.target[t].end}
    BY <2>1, <1>1, ReplayEditedIs
  <2>3. ReplayMeans(db)
    BY <2>2, <1>0, <1>1 DEF ReplayMeans
  <2>4. ReplaySound(db)
    BY <2>1, <2>2, <1>1 DEF ReplaySound
  <2> QED
    BY <2>1, <2>2, <2>3, <2>4, <1>1, ReplayInMainStep
<1>3. CASE Replays!MainDeletes
  <2>1. PICK t \in Targets : Replays!InMain(Replays!WithoutTarget(main, t)) /\ UNCHANGED clock
    BY <1>3 DEF Replays!MainDeletes
  <2> DEFINE db == Replays!WithoutTarget(main, t)
  <2>2. /\ db \in ReplayDatabases /\ db.ends = main.ends
        /\ \A u \in Targets : db.target[u] = IF u = t THEN None ELSE main.target[u]
        /\ \A m \in Mappings : db.mapping[m] = IF main.mapping[m] # None
           /\ main.mapping[m].target = t THEN None ELSE main.mapping[m]
    BY <1>1, ReplayWithoutTargetIs
  <2>3. Replays!InMain(db)
    BY <2>1
  <2> HIDE DEF db
  <2>4. ReplayMeans(db)
    BY <2>2, <1>0, <1>1 DEF ReplayMeans
  <2>5. ReplaySound(db)
    BY <2>2, <1>1 DEF ReplaySound
  <2> QED
    BY <2>1, <2>2, <2>3, <2>4, <2>5, <1>1, ReplayInMainStep
<1>4. CASE Replays!MainDeletesEndpoint
  <2>1. PICK e \in main.ends : Replays!InMain(Replays!WithoutEndpoint(main, e)) /\ UNCHANGED clock
    BY <1>4 DEF Replays!MainDeletesEndpoint
  <2> DEFINE db == Replays!WithoutEndpoint(main, e)
  <2>2. e \in Endpoints
    BY <1>1 DEF ReplayDatabases
  <2>3. /\ db \in ReplayDatabases /\ db.ends = main.ends \ {e} /\ db.mapping = main.mapping
        /\ \A u \in Targets :
              /\ db.target[u] = None <=> main.target[u] = None
              /\ main.target[u] # None => /\ db.target[u].generation = main.target[u].generation
                                          /\ db.target[u].end = IF main.target[u].end = e THEN None ELSE main.target[u].end
    BY <1>1, <2>2, ReplayWithoutEndpointIs
  <2>4. Replays!InMain(db)
    BY <2>1
  <2> HIDE DEF db
  <2>5. ReplayMeans(db)
    BY <2>3, <1>0, <1>1 DEF ReplayMeans
  <2>6. ReplaySound(db)
    BY <2>3, <1>1 DEF ReplaySound
  <2> QED
    BY <2>1, <2>3, <2>4, <2>5, <2>6, <1>1, ReplayInMainStep
<1>5. CASE Replays!MainCreates
  <2>1. PICK t \in Targets, v \in Values : /\ main.target[t] = None /\ clock' = clock + 1
                                           /\ Replays!InMain([main EXCEPT !.target[t] = Replays!Target(clock + 1, v, None)])
    BY <1>5 DEF Replays!MainCreates
  <2> DEFINE r == Replays!Target(clock + 1, v, None)
             db == [main EXCEPT !.target[t] = r]
  <2>2. r \in Replays!TargetRows /\ r.end = None /\ r # None
    BY <1>1 DEF Replays!Target, Replays!TargetRows
  <2>3. Replays!InMain(db)
    BY <2>1
  <2> HIDE DEF r
  <2>4. db \in ReplayDatabases /\ db.ends = main.ends /\ db.mapping = main.mapping
        /\ \A u \in Targets : db.target[u] = IF u = t THEN r ELSE main.target[u]
    BY <2>2, <1>1 DEF ReplayDatabases
  <2> HIDE DEF db
  <2>5. ReplayMeans(db)
    BY <2>1, <2>4, <1>0, <1>1 DEF ReplayMeans
  <2>6. ReplaySound(db)
    BY <2>2, <2>4, <1>1 DEF ReplaySound
  <2> QED
    BY <2>1, <2>3, <2>4, <2>5, <2>6, <1>1, ReplayInMainStep
<1>6. CASE Replays!ImportObserves
  <2>1. PICK s \in Sources, t \in Targets, m \in Mappings :
          /\ main.target[t] # None /\ clock' = clock + 1
          /\ Replays!InMain([main EXCEPT !.mapping[m] =
                 Replays!Mapping(IF @ = None THEN clock + 1 ELSE @.generation, s, t, main.target[t].generation)])
    BY <1>6 DEF Replays!ImportObserves
  <2> DEFINE g == IF main.mapping[m] = None THEN clock + 1 ELSE main.mapping[m].generation
             r == Replays!Mapping(g, s, t, main.target[t].generation)
             db == [main EXCEPT !.mapping[m] = r]
  <2>2. g \in Nat /\ main.target[t].generation \in Nat
    BY <2>1, <1>0, <1>1 DEF ReplayDatabases, Replays!TargetRows, Replays!MappingRows
  <2>3. r \in Replays!MappingRows /\ r.target = t /\ r.seen = main.target[t].generation
    BY <2>2 DEF Replays!Mapping, Replays!MappingRows
  <2>4. Replays!InMain(db)
    BY <2>1
  <2> HIDE DEF r
  <2>5. db \in ReplayDatabases /\ db.ends = main.ends /\ db.target = main.target
        /\ \A n \in Mappings : db.mapping[n] = IF n = m THEN r ELSE main.mapping[n]
    BY <2>3, <1>1 DEF ReplayDatabases
  <2> HIDE DEF db
  <2>6. ReplayMeans(db)
    BY <2>1, <2>3, <2>5, <1>1 DEF ReplayMeans
  <2>7. ReplaySound(db)
    BY <2>5, <1>1 DEF ReplaySound
  <2> QED
    BY <2>1, <2>4, <2>5, <2>6, <2>7, <1>1, ReplayInMainStep
<1>7. CASE Replays!ServerGoes
  <2> DEFINE db == [main EXCEPT !.server = FALSE, !.mapping = [m \in Mappings |-> None]]
  <2>1. Replays!InMain(db) /\ UNCHANGED clock
    BY <1>7 DEF Replays!ServerGoes
  <2>2. db \in ReplayDatabases /\ db.ends = main.ends /\ db.target = main.target /\ \A m \in Mappings : db.mapping[m] = None
    BY <1>1 DEF ReplayDatabases
  <2> HIDE DEF db
  <2>3. ReplayMeans(db) /\ ReplaySound(db)
    BY <2>2, <1>1 DEF ReplayMeans, ReplaySound
  <2> QED
    BY <2>1, <2>2, <2>3, <1>1, ReplayInMainStep
<1> QED
  BY <1>2, <1>3, <1>4, <1>5, <1>6, <1>7

\* What a replay makes of each row.
LEMMA ReplayedIs ==
    ASSUME None \notin Replays!TargetRows, main \in ReplayDatabases, NEW from \in ReplayDatabases, NEW to \in ReplayDatabases
    PROVE  LET new == Replays!Replayed(from, to)
               Kept(t) == t \notin Replays!ChangedTargets(from, to)
           IN  /\ new \in ReplayDatabases /\ new.ends = (main.ends \ Replays!Deleted(from, to)) \union (to.ends \ from.ends)
               /\ \A t \in Targets :
                    /\ Kept(t) =>
                          /\ new.target[t] = None <=> main.target[t] = None
                          /\ main.target[t] # None =>
                                /\ new.target[t].generation = main.target[t].generation
                                /\ new.target[t].end = IF main.target[t].end \in Replays!Deleted(from,
                                   to) THEN None ELSE main.target[t].end
                                /\ main.target[t].end \notin Replays!Deleted(from, to) => new.target[t] = main.target[t]
                    /\ ~Kept(t) =>
                          /\ new.target[t] = None <=> to.target[t] = None
                          /\ to.target[t] # None =>
                                /\ new.target[t].end = to.target[t].end
                                /\ IF main.target[t] = None THEN new.target[t] = to.target[t]
                                   ELSE /\ new.target[t].generation = main.target[t].generation
                                        /\ main.target[t].generation = to.target[t].generation
                                           => new.target[t] = to.target[t]
               /\ \A m \in Mappings : new.mapping[m] =
                     IF m \in Replays!ChangedMappings(from, to) THEN to.mapping[m]
                     ELSE IF main.mapping[m] # None
                          /\ new.target[main.mapping[m].target] = None THEN None ELSE main.mapping[m]
<1> DEFINE Row(t) == IF t \in Replays!ChangedTargets(from, to)
                     THEN IF to.target[t] # None /\ main.target[t] # None
                          THEN [to.target[t] EXCEPT !.generation = main.target[t].generation] ELSE to.target[t]
                     ELSE IF main.target[t] # None
                          /\ main.target[t].end \in Replays!Deleted(from, to) THEN [main.target[t] EXCEPT !.end = None]
                     ELSE main.target[t]
           targets == [t \in Targets |-> Row(t)]
           Mapped(m) == IF m \in Replays!ChangedMappings(from, to) THEN to.mapping[m]
                        ELSE IF main.mapping[m] # None
                             /\ targets[main.mapping[m].target] = None THEN None ELSE main.mapping[m]
           mappings == [m \in Mappings |-> Mapped(m)]
           new == Replays!Replayed(from, to)
<1>1. new = [target |-> targets, server |-> main.server,
      ends |-> (main.ends \ Replays!Deleted(from, to)) \union (to.ends \ from.ends),
             mapping |-> mappings]
  BY DEF Replays!Replayed
<1>2. \A t \in Targets : main.target[t] \in Replays!TargetRows \union {None}
      /\ to.target[t] \in Replays!TargetRows \union {None}
  BY DEF ReplayDatabases
<1>3. \A r \in Replays!TargetRows : LET n == [r EXCEPT !.end = None] IN n \in Replays!TargetRows
      /\ n.generation = r.generation /\ n.end = None
  BY DEF Replays!TargetRows
<1>4. \A r \in Replays!TargetRows, g \in Nat : LET n == [r EXCEPT !.generation = g]
                                     IN n \in Replays!TargetRows /\ n.generation = g /\ n.end = r.end
                                        /\ (g = r.generation => n = r)
  BY DEF Replays!TargetRows
<1>5. \A t \in Targets : main.target[t] # None => main.target[t].generation \in Nat
  BY <1>2 DEF Replays!TargetRows
<1>6. ASSUME NEW t \in Targets
      PROVE  /\ Row(t) \in Replays!TargetRows \union {None}
             /\ t \notin Replays!ChangedTargets(from, to) =>
                          /\ Row(t) = None <=> main.target[t] = None
                          /\ main.target[t] # None =>
                                /\ Row(t).generation = main.target[t].generation
                                /\ Row(t).end = IF main.target[t].end \in Replays!Deleted(from,
                                   to) THEN None ELSE main.target[t].end
                                /\ main.target[t].end \notin Replays!Deleted(from, to) => Row(t) = main.target[t]
             /\ t \in Replays!ChangedTargets(from, to) =>
                          /\ Row(t) = None <=> to.target[t] = None
                          /\ to.target[t] # None =>
                                /\ Row(t).end = to.target[t].end
                                /\ IF main.target[t] = None THEN Row(t) = to.target[t]
                                   ELSE /\ Row(t).generation = main.target[t].generation
                                        /\ main.target[t].generation = to.target[t].generation => Row(t) = to.target[t]
  <2>1. CASE t \notin Replays!ChangedTargets(from, to)
    BY <2>1, <1>2, <1>3
  <2>2. CASE t \in Replays!ChangedTargets(from, to)
    BY <2>2, <1>2, <1>4, <1>5
  <2> QED
    BY <2>1, <2>2
<1>7. targets \in [Targets -> Replays!TargetRows \union {None}] /\ \A t \in Targets : targets[t] = Row(t)
  BY <1>6
<1>8. mappings \in [Mappings -> Replays!MappingRows \union {None}] /\ \A m \in Mappings : mappings[m] = Mapped(m)
  <2> HIDE DEF targets
  <2>1. \A m \in Mappings : Mapped(m) \in Replays!MappingRows \union {None}
    BY DEF ReplayDatabases
  <2> QED
    BY <2>1
<1>9. new.target = targets /\ new.mapping = mappings
      /\ new.ends = (main.ends \ Replays!Deleted(from, to)) \union (to.ends \ from.ends)
      /\ new \in ReplayDatabases
  <2> HIDE DEF targets, mappings, new
  <2> QED
    BY <1>1, <1>7, <1>8 DEF ReplayDatabases, Replays!Deleted
<1>10. \A m \in Mappings : new.mapping[m] =
                     IF m \in Replays!ChangedMappings(from, to) THEN to.mapping[m]
                     ELSE IF main.mapping[m] # None
                          /\ new.target[main.mapping[m].target] = None THEN None ELSE main.mapping[m]
  BY <1>8, <1>9
<1> HIDE DEF Row, targets, mappings, new
<1> QED
  BY <1>6, <1>7, <1>9, <1>10 DEF new

\* What a validated replay does not touch: the mappings that did not change between its states, and the mapped targets that
\* did not; the other ones were as its first state has them.
LEMMA ReplayKeepsMapped ==
    ASSUME Replays!ReplayAssumption, ReplayIInv, NEW from \in ReplayDatabases, NEW to \in ReplayDatabases,
           Replays!Validated(from, to)
    PROVE  LET new == Replays!Replayed(from, to)
           IN  /\ \A m \in Mappings : m \notin Replays!ChangedMappings(from, to) => new.mapping[m] = main.mapping[m]
               /\ \A t \in Targets : Replays!MappedTo(main, t) # {} =>
                     IF t \in Replays!ChangedTargets(from,
                     to) THEN main.target[t] = from.target[t] ELSE new.target[t] = main.target[t]
<1> DEFINE new == Replays!Replayed(from, to)
<1>1. main \in ReplayDatabases /\ None \notin Replays!TargetRows /\ None \notin Replays!MappingRows
      /\ None \notin Endpoints /\ ReplayMeans(main) /\ ReplaySound(main)
  BY DEF ReplayIInv, ReplayTypes, Replays!ReplayAssumption
<1>2. /\ \A t \in Targets : t \notin Replays!ChangedTargets(from, to) =>
          /\ new.target[t] = None <=> main.target[t] = None
          /\ main.target[t] # None /\ main.target[t].end \notin Replays!Deleted(from, to) => new.target[t] = main.target[t]
      /\ \A t \in Targets : t \in Replays!ChangedTargets(from, to) => (new.target[t] = None <=> to.target[t] = None)
      /\ \A m \in Mappings : new.mapping[m] =
                     IF m \in Replays!ChangedMappings(from, to) THEN to.mapping[m]
                     ELSE IF main.mapping[m] # None
                          /\ new.target[main.mapping[m].target] = None THEN None ELSE main.mapping[m]
  BY <1>1, ReplayedIs
<1> HIDE DEF new
<1>4. /\ Replays!Associated(from, to) /\ Replays!CurrentState(from, to)
      /\ \A m \in Mappings : main.mapping[m] # None => main.mapping[m].target \in Targets
  BY <1>1 DEF Replays!Validated, ReplayDatabases, Replays!MappingRows
<1>5. ASSUME NEW m \in Mappings, m \notin Replays!ChangedMappings(from, to)
      PROVE  new.mapping[m] = main.mapping[m]
  <2> DEFINE t == main.mapping[m].target
  <2>1. CASE main.mapping[m] = None
    BY <2>1, <1>2, <1>5
  <2>2. CASE main.mapping[m] # None
    <3>1. t \in Targets /\ m \in Replays!MappedTo(main, t) /\ main.target[t] # None
      BY <2>2, <1>1, <1>4, <1>5 DEF Replays!MappedTo, ReplayMeans
    <3>2. ASSUME new.target[t] = None PROVE FALSE
      <4>1. t \in Replays!ChangedTargets(from, to) /\ to.target[t] = None
        BY <3>1, <3>2, <1>2
      <4>2. t \in Replays!Destructive(from, to) /\ t \in Replays!Affected(from, to)
        BY <4>1 DEF Replays!Destructive, Replays!Affected
      <4> QED
        BY <4>1, <4>2, <3>1, <1>4, <1>5 DEF Replays!Associated
    <3> QED
      BY <3>2, <1>2, <1>5
  <2> QED
    BY <2>1, <2>2
<1>6. ASSUME NEW t \in Targets, Replays!MappedTo(main, t) # {}
      PROVE  IF t \in Replays!ChangedTargets(from,
             to) THEN main.target[t] = from.target[t] ELSE new.target[t] = main.target[t]
  <2>1. PICK m : m \in Replays!MappedTo(main, t)
    BY <1>6
  <2>2. main.target[t] # None
    BY <2>1, <1>1 DEF Replays!MappedTo, ReplayMeans
  <2>3. CASE t \in Replays!ChangedTargets(from, to)
    <3>1. t \in Replays!Affected(from, to) /\ t \in Replays!Protected(from, to)
      BY <2>3, <1>6 DEF Replays!Affected, Replays!Protected
    <3> QED
      BY <2>3, <3>1, <1>4 DEF Replays!CurrentState, Replays!Unchanged
  <2>4. CASE t \notin Replays!ChangedTargets(from, to)
    <3>1. ASSUME main.target[t].end \in Replays!Deleted(from, to) PROVE FALSE
      <4>1. main.target[t].end \in main.ends
        BY <3>1, <2>2, <1>1 DEF ReplaySound, Replays!Deleted, ReplayDatabases
      <4>2. t \in Replays!Affected(from, to)
        BY <3>1, <4>1, <2>2 DEF Replays!Affected
      <4> QED
        BY <4>2, <2>1, <2>4, <1>4 DEF Replays!Associated
    <3> QED
      BY <2>2, <2>4, <3>1, <1>2
  <2> QED
    BY <2>3, <2>4
<1> QED
  BY <1>5, <1>6 DEF new

LEMMA ReplayKeepsNewer ==
    ASSUME Replays!ReplayAssumption, ReplayIInv, NEW from \in ReplayDatabases, NEW to \in ReplayDatabases,
           Replays!Validated(from, to), main' = Replays!Replayed(from, to)
    PROVE  Replays!LeavesNewer(from, to)
<1> DEFINE new == Replays!Replayed(from, to)
<1>1. /\ \A m \in Mappings : m \notin Replays!ChangedMappings(from, to) => new.mapping[m] = main.mapping[m]
      /\ \A t \in Targets : Replays!MappedTo(main, t) # {} =>
            IF t \in Replays!ChangedTargets(from,
            to) THEN main.target[t] = from.target[t] ELSE new.target[t] = main.target[t]
  BY ReplayKeepsMapped
<1>2. main' = new /\ Replays!CurrentState(from, to)
  BY DEF Replays!Validated
<1> HIDE DEF new
<1> QED
  BY <1>1, <1>2 DEF Replays!LeavesNewer, Replays!CurrentState

\* A mapping is the same row with the same target, so it was recorded for the same row.
LEMMA ReplaySameSeen ==
    ASSUME NEW r \in Replays!MappingRows, NEW q \in Replays!MappingRows, Replays!SameMapping(r, q)
    PROVE  r.target = q.target /\ (r.seen = q.seen => r = q)
<1>1. [r EXCEPT !.seen = 0] = [q EXCEPT !.seen = 0]
  BY DEF Replays!SameMapping
<1>2. r = [generation |-> r.generation, source |-> r.source, target |-> r.target, seen |-> r.seen]
      /\ q = [generation |-> q.generation, source |-> q.source, target |-> q.target, seen |-> q.seen]
  BY DEF Replays!MappingRows
<1>3. r.generation = q.generation /\ r.source = q.source /\ r.target = q.target
  <2>1. \A x \in Replays!MappingRows : LET y == [x EXCEPT !.seen = 0]
                              IN y.generation = x.generation /\ y.source = x.source /\ y.target = x.target
    BY DEF Replays!MappingRows
  <2> QED
    BY <2>1, <1>1
<1> QED
  BY <1>2, <1>3

\* A replay keeps that mappings mean their targets and that targets refer to what exists, if the mappings that come back
\* come with their targets.
LEMMA ReplayMergedMeans ==
    ASSUME Replays!ReplayAssumption, ReplayIInv, NEW from \in ReplayDatabases, NEW to \in ReplayDatabases,
           Replays!Validated(from, to), ReplayMeans(to),
           \A m \in Replays!ChangedMappings(from, to) : to.mapping[m] # None =>
               to.mapping[m].target \in Replays!ChangedTargets(from, to) /\ from.target[to.mapping[m].target] = None
    PROVE  LET new == Replays!Replayed(from, to) IN new \in ReplayDatabases /\ ReplayMeans(new) /\ ReplaySound(new)
<1> DEFINE new == Replays!Replayed(from, to)
<1>1. main \in ReplayDatabases /\ None \notin Replays!TargetRows /\ None \notin Replays!MappingRows
      /\ None \notin Endpoints /\ ReplayMeans(main) /\ ReplaySound(main)
  BY DEF ReplayIInv, ReplayTypes, Replays!ReplayAssumption
<1>2. /\ new \in ReplayDatabases /\ new.ends = (main.ends \ Replays!Deleted(from, to)) \union (to.ends \ from.ends)
      /\ \A t \in Targets : t \notin Replays!ChangedTargets(from, to) =>
            /\ new.target[t] = None <=> main.target[t] = None
            /\ main.target[t] # None =>
                  /\ new.target[t].generation = main.target[t].generation
                  /\ new.target[t].end = IF main.target[t].end \in Replays!Deleted(from,
                     to) THEN None ELSE main.target[t].end
      /\ \A t \in Targets : t \in Replays!ChangedTargets(from, to) =>
            /\ new.target[t] = None <=> to.target[t] = None
            /\ to.target[t] # None =>
                  /\ new.target[t].end = to.target[t].end
                  /\ IF main.target[t] = None THEN new.target[t] = to.target[t]
                     ELSE new.target[t].generation = main.target[t].generation
      /\ \A m \in Mappings : new.mapping[m] =
                     IF m \in Replays!ChangedMappings(from, to) THEN to.mapping[m]
                     ELSE IF main.mapping[m] # None
                          /\ new.target[main.mapping[m].target] = None THEN None ELSE main.mapping[m]
  BY <1>1, ReplayedIs
<1> HIDE DEF new
<1>3. /\ \A m \in Mappings : main.mapping[m] # None => main.mapping[m].target \in Targets
      /\ \A m \in Mappings : to.mapping[m] # None => to.mapping[m].target \in Targets
      /\ Replays!CurrentState(from, to) /\ Replays!Native(from, to)
  BY <1>1 DEF Replays!Validated, ReplayDatabases, Replays!MappingRows
<1>4. ASSUME NEW m \in Mappings, new.mapping[m] # None
      PROVE  /\ new.target[new.mapping[m].target] # None
             /\ new.target[new.mapping[m].target].generation = new.mapping[m].seen
  <2>1. CASE m \in Replays!ChangedMappings(from, to)
    <3> DEFINE t == to.mapping[m].target
    <3>1. new.mapping[m] = to.mapping[m] /\ to.mapping[m] # None
      BY <2>1, <1>2, <1>4
    <3>2. t \in Targets /\ t \in Replays!ChangedTargets(from, to) /\ from.target[t] = None
      BY <2>1, <3>1, <1>3
    <3>3. to.target[t] # None /\ to.target[t].generation = to.mapping[m].seen
      BY <3>1 DEF ReplayMeans
    <3>4. main.target[t] = None
      BY <3>2, <1>3 DEF Replays!Native
    <3> QED
      BY <3>1, <3>2, <3>3, <3>4, <1>2
  <2>2. CASE m \notin Replays!ChangedMappings(from, to)
    <3> DEFINE t == main.mapping[m].target
    <3>1. new.mapping[m] = main.mapping[m] /\ main.mapping[m] # None /\ new.target[t] # None
      BY <2>2, <1>2, <1>4
    <3>2. t \in Targets /\ main.target[t] # None /\ main.target[t].generation = main.mapping[m].seen
      BY <3>1, <1>1, <1>3 DEF ReplayMeans
    <3> QED
      BY <3>1, <3>2, <1>2
  <2> QED
    BY <2>1, <2>2
<1>5. ASSUME NEW t \in Targets, new.target[t] # None PROVE new.target[t].end \in new.ends \union {None}
  <2>1. CASE t \in Replays!ChangedTargets(from, to)
    BY <2>1, <1>2, <1>3, <1>5 DEF Replays!Native
  <2>2. CASE t \notin Replays!ChangedTargets(from, to)
    BY <2>2, <1>1, <1>2, <1>5 DEF ReplaySound
  <2> QED
    BY <2>1, <2>2
<1>6. new \in ReplayDatabases /\ ReplayMeans(new) /\ ReplaySound(new)
  BY <1>2, <1>4, <1>5 DEF ReplayMeans, ReplaySound
<1> QED
  BY <1>6 DEF new

LEMMA ReplayMergeStep ==
    ASSUME Replays!ReplayAssumption, ReplayIInv, Replays!Merge
    PROVE  ReplayIInv' /\ Replays!KeepsNewer
<1> DEFINE new == Replays!Replayed(base, branch)
<1>1. /\ phase = "open" /\ Replays!Validated(base, branch) /\ main' = new /\ before' = main /\ phase' = "merged"
         /\ quiet' = TRUE
      /\ UNCHANGED <<base, branch, whole, clock>>
  BY DEF Replays!Merge
<1>2. /\ main \in ReplayDatabases /\ base \in ReplayDatabases /\ branch \in ReplayDatabases /\ ReplayBranchOK
         /\ ReplayMeans(base) /\ ReplayMeans(main)
      /\ None \notin Replays!TargetRows /\ None \notin Replays!MappingRows
  BY DEF ReplayIInv, ReplayTypes, Replays!ReplayAssumption
<1>3. /\ \A m \in Mappings : branch.mapping[m] # base.mapping[m] =>
            /\ branch.mapping[m] = None /\ base.mapping[m] # None /\ base.mapping[m].target \in Targets
            /\ branch.target[base.mapping[m].target] = None
      /\ \A m \in Mappings : branch.mapping[m] # None => branch.mapping[m] = base.mapping[m]
         /\ branch.target[branch.mapping[m].target] # None
      /\ \A m \in Mappings : base.mapping[m] # None => base.mapping[m].target \in Targets
  BY <1>2 DEF ReplayBranchOK, ReplayDatabases, Replays!MappingRows
<1>4. ReplayMeans(branch)
  BY <1>2, <1>3 DEF ReplayMeans, ReplayBranchOK
<1>5. \A m \in Replays!ChangedMappings(base, branch) : branch.mapping[m] = None
  BY <1>3 DEF Replays!ChangedMappings
<1>6. new \in ReplayDatabases /\ ReplayMeans(new) /\ ReplaySound(new)
  BY <1>1, <1>2, <1>4, <1>5, ReplayMergedMeans
<1>7. /\ \A m \in Mappings : m \notin Replays!ChangedMappings(base, branch) => new.mapping[m] = main.mapping[m]
      /\ \A t \in Targets : Replays!MappedTo(main, t) # {} =>
            IF t \in Replays!ChangedTargets(base,
            branch) THEN main.target[t] = base.target[t] ELSE new.target[t] = main.target[t]
  BY <1>1, <1>2, ReplayKeepsMapped
<1>8. \A t \in Targets : t \in Replays!ChangedTargets(base, branch) =>
            /\ new.target[t] = None <=> branch.target[t] = None
            /\ branch.target[t] # None /\ main.target[t] # None /\ main.target[t].generation = branch.target[t].generation =>
                  new.target[t] = branch.target[t]
  BY <1>2, ReplayedIs
<1>9. Replays!KeepsNewer
  <2>1. Replays!LeavesNewer(base, branch)
    BY <1>1, <1>2, ReplayKeepsNewer
  <2> QED
    BY <2>1, <1>1 DEF Replays!KeepsNewer
<1> HIDE DEF new
<1>10. ASSUME NEW m \in Mappings, base.mapping[m] # branch.mapping[m] PROVE main.mapping[m] = base.mapping[m]
  <2> DEFINE t == base.mapping[m].target
  <2>1. /\ m \in Replays!ChangedMappings(base, branch) /\ base.mapping[m] # None /\ t \in Targets /\ branch.target[t] = None
        /\ base.target[t] # None
    BY <1>3, <1>10, <1>2 DEF Replays!ChangedMappings, ReplayBranchOK
  <2>2. Replays!SameMapping(main.mapping[m], base.mapping[m])
    BY <2>1, <1>1 DEF Replays!Validated, Replays!CurrentState
  <2>3. main.mapping[m] \in Replays!MappingRows /\ base.mapping[m] \in Replays!MappingRows
    BY <2>1, <2>2, <1>2 DEF ReplayDatabases, Replays!SameMapping
  <2>4. main.mapping[m].target = t
    BY <2>2, <2>3, ReplaySameSeen
  <2>5. Replays!MappedTo(main, t) # {} /\ t \in Replays!ChangedTargets(base, branch)
    BY <2>1, <2>2, <2>4 DEF Replays!MappedTo, Replays!ChangedTargets, Replays!SameMapping
  <2>6. main.target[t] = base.target[t]
    BY <2>1, <2>5, <1>7
  <2>7. main.mapping[m].seen = base.mapping[m].seen
    BY <2>1, <2>2, <2>4, <2>6, <1>2 DEF ReplayMeans, Replays!SameMapping
  <2> QED
    BY <2>2, <2>3, <2>7, ReplaySameSeen
<1>11. ASSUME NEW t \in Targets, Replays!MappedTo(main, t) # {}
       PROVE  IF base.target[t] # branch.target[t] THEN main.target[t] = base.target[t] /\ new.target[t] = branch.target[t]
                                                   ELSE new.target[t] = main.target[t]
  <2>1. CASE base.target[t] # branch.target[t]
    <3>1. t \in Replays!ChangedTargets(base, branch)
      BY <2>1 DEF Replays!ChangedTargets
    <3>2. main.target[t] = base.target[t] /\ base.target[t] # None
      BY <3>1, <1>2, <1>7, <1>11 DEF ReplayBranchOK
    <3>3. branch.target[t] # None => main.target[t].generation = branch.target[t].generation
      BY <3>2, <1>2 DEF ReplayBranchOK
    <3> QED
      BY <2>1, <3>1, <3>2, <3>3, <1>8
  <2>2. CASE base.target[t] = branch.target[t]
    BY <2>2, <1>7, <1>11 DEF Replays!ChangedTargets
  <2> QED
    BY <2>1, <2>2
<1>12. ReplayMergeOK'
  <2>1. ASSUME NEW m \in Mappings
        PROVE  IF base.mapping[m] # branch.mapping[m] THEN main.mapping[m] = base.mapping[m] ELSE new.mapping[m] = main.mapping[m]
    BY <1>7, <1>10 DEF Replays!ChangedMappings
  <2>2. \A t \in Targets : Replays!MappedTo(before, t)' = Replays!MappedTo(main, t)
    BY <1>1 DEF Replays!MappedTo
  <2> QED
    BY <1>1, <1>11, <2>1, <2>2 DEF ReplayMergeOK
<1>13. ReplayTypes' /\ ReplayMeans(main)' /\ ReplayMeans(base)' /\ ReplaySound(main)' /\ ReplayBranchOK'
       /\ ReplayMeans(before)'
  BY <1>1, <1>2, <1>6 DEF ReplayIInv, ReplayTypes, ReplayMeans, ReplaySound, ReplayBranchOK
<1> QED
  BY <1>1, <1>9, <1>12, <1>13 DEF ReplayIInv, Replays!RevertRestores

LEMMA ReplayRevertStep ==
    ASSUME Replays!ReplayAssumption, ReplayIInv, Replays!Revert
    PROVE  ReplayIInv' /\ Replays!KeepsNewer
<1> DEFINE new == Replays!Replayed(branch, base)
<1>1. /\ phase = "merged" /\ Replays!Validated(branch, base) /\ main' = new /\ phase' = "reverted"
      /\ UNCHANGED <<base, branch, whole, before, quiet, clock>>
  BY DEF Replays!Revert
<1>2. /\ main \in ReplayDatabases /\ base \in ReplayDatabases /\ branch \in ReplayDatabases /\ before \in ReplayDatabases
      /\ ReplayBranchOK /\ ReplayMeans(base) /\ ReplayMeans(main)
      /\ None \notin Replays!TargetRows /\ None \notin Replays!MappingRows
  BY <1>1 DEF ReplayIInv, ReplayTypes, Replays!ReplayAssumption
<1>3. \A m \in Mappings : branch.mapping[m] # base.mapping[m] =>
            /\ branch.mapping[m] = None /\ base.mapping[m] # None /\ base.mapping[m].target \in Targets
            /\ branch.target[base.mapping[m].target] = None /\ base.target[base.mapping[m].target] # None
  BY <1>2 DEF ReplayBranchOK, ReplayDatabases, Replays!MappingRows
<1>4. \A m \in Replays!ChangedMappings(branch, base) : base.mapping[m] # None =>
               base.mapping[m].target \in Replays!ChangedTargets(branch, base)
               /\ branch.target[base.mapping[m].target] = None
  BY <1>3 DEF Replays!ChangedMappings, Replays!ChangedTargets
<1>5. new \in ReplayDatabases /\ ReplayMeans(new) /\ ReplaySound(new)
  BY <1>1, <1>2, <1>4, ReplayMergedMeans
<1>6. Replays!KeepsNewer
  <2>1. Replays!LeavesNewer(branch, base)
    BY <1>1, <1>2, ReplayKeepsNewer
  <2> QED
    BY <2>1, <1>1 DEF Replays!KeepsNewer
<1>7. \A m \in Mappings : new.mapping[m] = IF m \in Replays!ChangedMappings(branch,
      base) THEN base.mapping[m] ELSE main.mapping[m]
  <2>1. \A m \in Mappings : m \notin Replays!ChangedMappings(branch, base) => new.mapping[m] = main.mapping[m]
    BY <1>1, <1>2, ReplayKeepsMapped
  <2>2. \A m \in Mappings : m \in Replays!ChangedMappings(branch, base) => new.mapping[m] = base.mapping[m]
    BY <1>2, ReplayedIs
  <2> QED
    BY <2>1, <2>2
<1>8. \A t \in Targets :
        /\ t \notin Replays!ChangedTargets(branch, base) =>
              (main.target[t] # None /\ main.target[t].end \notin Replays!Deleted(branch, base)
              => new.target[t] = main.target[t])
        /\ t \in Replays!ChangedTargets(branch, base) =>
              (base.target[t] # None =>
                IF main.target[t] = None THEN new.target[t] = base.target[t]
                ELSE main.target[t].generation = base.target[t].generation => new.target[t] = base.target[t])
  BY <1>2, ReplayedIs
<1>9. Replays!Deleted(branch, base) = {}
  BY <1>2 DEF Replays!Deleted, ReplayBranchOK
<1> HIDE DEF new
<1>10. ASSUME quiet
       PROVE  /\ new.mapping = before.mapping
              /\ \A t \in Targets : Replays!MappedTo(before, t) # {} => new.target[t] = before.target[t]
  <2>1. ReplayMeans(before) /\ ReplayMergeOK
    BY <1>1, <1>10 DEF ReplayIInv
  <2>2. \A m \in Mappings : new.mapping[m] = before.mapping[m]
    BY <2>1, <1>7 DEF ReplayMergeOK, Replays!ChangedMappings
  <2>3. new.mapping = before.mapping
    BY <2>2, <1>2, <1>5 DEF ReplayDatabases
  <2>4. ASSUME NEW t \in Targets, Replays!MappedTo(before, t) # {} PROVE new.target[t] = before.target[t]
    <3>1. before.target[t] # None
      BY <2>1, <2>4 DEF Replays!MappedTo, ReplayMeans
    <3>2. CASE base.target[t] # branch.target[t]
      <4>1. before.target[t] = base.target[t] /\ main.target[t] = branch.target[t]
            /\ t \in Replays!ChangedTargets(branch, base)
        BY <2>1, <2>4, <3>2 DEF ReplayMergeOK, Replays!ChangedTargets
      <4>2. main.target[t] # None => main.target[t].generation = base.target[t].generation
        BY <4>1, <1>2 DEF ReplayBranchOK
      <4> QED
        BY <3>1, <4>1, <4>2, <1>8
    <3>3. CASE base.target[t] = branch.target[t]
      <4>1. main.target[t] = before.target[t] /\ t \notin Replays!ChangedTargets(branch, base)
        BY <2>1, <2>4, <3>3 DEF ReplayMergeOK, Replays!ChangedTargets
      <4> QED
        BY <3>1, <4>1, <1>8, <1>9
    <3> QED
      BY <3>2, <3>3
  <2> QED
    BY <2>3, <2>4
<1>11. Replays!RevertRestores'
  <2>1. \A t \in Targets : Replays!MappedTo(before, t)' = Replays!MappedTo(before, t)
    BY <1>1 DEF Replays!MappedTo
  <2> QED
    BY <1>1, <1>10, <2>1 DEF Replays!RevertRestores
<1>12. ReplayTypes' /\ ReplayMeans(main)' /\ ReplayMeans(base)' /\ ReplaySound(main)' /\ ReplayBranchOK'
  BY <1>1, <1>2, <1>5 DEF ReplayIInv, ReplayTypes, ReplayMeans, ReplaySound, ReplayBranchOK
<1> QED
  BY <1>1, <1>6, <1>11, <1>12 DEF ReplayIInv

LEMMA ReplayNextStep ==
    ASSUME Replays!ReplayAssumption, ReplayIInv, [Replays!Next]_Replays!vars
    PROVE  ReplayIInv' /\ Replays!KeepsNewer
<1>1. CASE Replays!BranchEdits \/ Replays!BranchDeletes \/ Replays!BranchDeletesEndpoint
  <2>1. phase' = phase
    BY <1>1 DEF Replays!BranchEdits, Replays!BranchDeletes, Replays!BranchDeletesEndpoint, Replays!InBranch
  <2> QED
    BY <1>1, <2>1, ReplayBranchStep DEF Replays!KeepsNewer
<1>2. CASE Replays!MainEdits \/ Replays!MainDeletes \/ Replays!MainDeletesEndpoint \/ Replays!MainCreates
           \/ Replays!ImportObserves \/ Replays!ServerGoes
  <2>1. phase' = phase
    BY <1>2 DEF Replays!MainEdits, Replays!MainDeletes, Replays!MainDeletesEndpoint, Replays!MainCreates,
       Replays!ImportObserves, Replays!ServerGoes, Replays!InMain
  <2> QED
    BY <1>2, <2>1, ReplayMainStep DEF Replays!KeepsNewer
<1>3. CASE Replays!Merge
  BY <1>3, ReplayMergeStep
<1>4. CASE Replays!Revert
  BY <1>4, ReplayRevertStep
<1>5. CASE UNCHANGED Replays!vars
  BY <1>5 DEF Replays!vars, ReplayIInv, ReplayTypes, ReplayMeans, ReplaySound, ReplayBranchOK, ReplayMergeOK,
     Replays!MappedTo, Replays!RevertRestores, Replays!KeepsNewer
<1> QED
  BY <1>1, <1>2, <1>3, <1>4, <1>5 DEF Replays!Next

LEMMA ReplayIInvAlways == ASSUME Replays!ReplayAssumption PROVE Replays!Spec => []ReplayIInv
<1>1. Replays!Init => ReplayIInv
  BY ReplayInitIInv
<1>2. ReplayIInv /\ [Replays!Next]_Replays!vars => ReplayIInv'
  BY ReplayNextStep
<1> QED
  BY <1>1, <1>2, PTL DEF Replays!Spec

\* A mapping of main points at the row that it was recorded for, also after deletions, primary keys that come back, merges
\* and reverts (prepare_replay).
THEOREM MappingsMean == ASSUME Replays!ReplayAssumption PROVE Replays!Spec => []Replays!MappingsMeanTheirTarget
<1>1. ReplayIInv => Replays!MappingsMeanTheirTarget
  BY DEF ReplayIInv, ReplayMeans, Replays!MappingsMeanTheirTarget
<1> QED
  BY <1>1, ReplayIInvAlways, PTL

\* A revert gives main back every mapping, and every target that was mapped, as they were before the merge, when main did
\* not change in between (prepare_replay).
THEOREM RevertsRestore == ASSUME Replays!ReplayAssumption PROVE Replays!Spec => []Replays!RevertRestores
<1>1. ReplayIInv => Replays!RevertRestores
  BY DEF ReplayIInv
<1> QED
  BY <1>1, ReplayIInvAlways, PTL

\* A merge and a revert leave alone every mapping, and every mapped target, that is no longer as the branch saw it, also where
\* they would only change it on the way, with an endpoint or a target that they delete (prepare_replay).
THEOREM ReplaysSpare == ASSUME Replays!ReplayAssumption PROVE Replays!Spec => [][Replays!KeepsNewer]_Replays!vars
<1>1. ReplayIInv /\ [Replays!Next]_Replays!vars => [Replays!KeepsNewer]_Replays!vars
  BY ReplayNextStep
<1> QED
  BY <1>1, ReplayIInvAlways, PTL DEF Replays!Spec

------------------------------------------------------------------------------
(* ImportSettings: the settings, the options and the Pools of an import.  *)

CONSTANTS Configs, Ids, Spaces, Codes, Data, Ranges, Standard, Refused, DHCPServer
VARIABLES kea, server, options, custom, pools

Settings == INSTANCE ImportSettings

\* A configuration as an import uses it.
SettingsParsedOK(f, conf) ==
    /\ conf \in Settings!ParsedConfiguration /\ Settings!ConfigOK(f, conf)
    /\ \A c, d \in conf.children : c.id = d.id => c = d

\* MirrorsWhenAlone and RowsShown of one family, over the rows that are given.
SettingsEffectiveAt(srv, rws, k) == IF rws[k] = None THEN None ELSE IF rws[k].value = None THEN srv ELSE rws[k].value
SettingsMirrorsAt(srv, rws, f, conf, families, failed) ==
    /\ \A c \in Settings!Written(f, conf, failed) : c.value # None => SettingsEffectiveAt(srv, rws, <<f, c.id>>) = c.value
    /\ Settings!Primary(f, families) /\ DHCPServer \notin failed /\ conf.value # None => srv = conf.value
SettingsNewAt(cst, f, conf, failed) ==
    {d \in conf.defs \ (Standard \union cst \union failed) : \E o \in Settings!Reported(f, conf,
    failed) : Settings!Key(o) = d}
SettingsResolvedAt(cst, f, conf, failed) ==
    {o \in Settings!Reported(f, conf, failed) : Settings!Key(o) \in Standard \union cst \union SettingsNewAt(cst, f, conf,
    failed) /\ o.data \notin Refused}
SettingsRowsAt(opts, cst, pls, f, conf, failed) ==
    /\ \A n \in SettingsResolvedAt(cst, f, conf, failed) : n.space = f
       => {o \in opts : o.at = n.at /\ Settings!Key(o) = Settings!Key(n)} = {n}
    /\ Settings!WrittenPools(f, conf, failed) \subseteq pls

LEMMA SettingsFewer ==
    ASSUME NEW f, NEW conf, NEW failing, NEW failed, failing \subseteq failed
    PROVE  /\ Settings!Written(f, conf, failed) \subseteq Settings!Written(f, conf, failing)
           /\ Settings!Reported(f, conf, failed) \subseteq Settings!Reported(f, conf, failing)
           /\ Settings!WrittenPools(f, conf, failed) \subseteq Settings!WrittenPools(f, conf, failing)
<1>1. Settings!Written(f, conf, failed) \subseteq Settings!Written(f, conf, failing)
  BY DEF Settings!Written
<1>2. Settings!Reported(f, conf, failed) \subseteq Settings!Reported(f, conf, failing)
  BY <1>1 DEF Settings!Reported
<1>3. ASSUME NEW p \in Settings!WrittenPools(f, conf, failed) PROVE p \in Settings!WrittenPools(f, conf, failing)
  <2>1. PICK c \in Settings!Written(f, conf,
        failed) : p \in {<<<<f, c.id>>, r>> : r \in {x \in c.pools : <<f, x>> \notin failed}}
    BY <1>3 DEF Settings!WrittenPools
  <2>2. PICK r \in c.pools : <<f, r>> \notin failed /\ p = <<<<f, c.id>>, r>>
    BY <2>1
  <2>3. c \in Settings!Written(f, conf, failing) /\ <<f, r>> \notin failing
    BY <1>1, <2>1, <2>2
  <2> QED
    BY <2>2, <2>3 DEF Settings!WrittenPools
<1> QED
  BY <1>1, <1>2, <1>3

\* The configuration reports an option once for each row.
LEMMA SettingsReportedOnce ==
    ASSUME Settings!SettingsAssumption, NEW f \in Settings!Families, NEW conf, SettingsParsedOK(f, conf), NEW failing,
           NEW o \in Settings!Reported(f, conf, failing), NEW n \in Settings!Reported(f, conf, failing)
    PROVE  /\ o.at = n.at /\ Settings!Key(o) = Settings!Key(n) => o = n
           /\ o.space \notin Settings!Families \ {f} /\ Settings!Key(o)[1] = o.space
<1>1. ASSUME NEW p \in Settings!Reported(f, conf, failing)
      PROVE  \/ \E d \in conf.options : p = [at |-> DHCPServer, space |-> d.space, code |-> d.code, data |-> d.data]
             \/ \E c \in conf.children, d \in UNION {x.options : x \in conf.children} :
                    d \in c.options /\ p = [at |-> <<f, c.id>>, space |-> d.space, code |-> d.code, data |-> d.data]
  <2>1. CASE p \in {[at |-> DHCPServer, space |-> d.space, code |-> d.code, data |-> d.data] : d \in conf.options}
    BY <2>1
  <2>2. CASE p \in UNION {{[at |-> <<f, c.id>>, space |-> d.space, code |-> d.code, data |-> d.data] : d \in c.options} :
                            c \in Settings!Written(f, conf, failing)}
    <3>1. PICK c \in Settings!Written(f, conf, failing) :
              p \in {[at |-> <<f, c.id>>, space |-> d.space, code |-> d.code, data |-> d.data] : d \in c.options}
      BY <2>2
    <3>2. PICK d \in c.options : p = [at |-> <<f, c.id>>, space |-> d.space, code |-> d.code, data |-> d.data]
      BY <3>1
    <3>3. c \in conf.children /\ d \in UNION {x.options : x \in conf.children}
      BY <3>1 DEF Settings!Written
    <3> QED
      BY <3>2, <3>3
  <2> QED
    BY <1>1, <2>1, <2>2 DEF Settings!Reported
<1>2. /\ conf.options \subseteq Settings!OptionData /\ \A c \in conf.children : c.options \subseteq Settings!OptionData
         /\ <<f, c.id>> \in Settings!Children
      /\ DHCPServer \notin Settings!Children
  BY DEF SettingsParsedOK, Settings!ParsedConfiguration, Settings!Child, Settings!SettingsAssumption, Settings!Children
<1>3. /\ Settings!InSpaces(f, conf.options) /\ Settings!Distinct(conf.options)
         /\ \A c \in conf.children : Settings!InSpaces(f, c.options) /\ Settings!Distinct(c.options)
      /\ \A c, d \in conf.children : c.id = d.id => c = d
  BY DEF SettingsParsedOK, Settings!ConfigOK
<1>4. ASSUME NEW p \in Settings!Reported(f, conf, failing) PROVE p.space \notin Settings!Families \ {f}
             /\ Settings!Key(p)[1] = p.space
  <2>1. CASE \E d \in conf.options : p = [at |-> DHCPServer, space |-> d.space, code |-> d.code, data |-> d.data]
    BY <2>1, <1>3 DEF Settings!InSpaces, Settings!Key
  <2>2. CASE \E c \in conf.children, d \in UNION {x.options : x \in conf.children} :
                    d \in c.options /\ p = [at |-> <<f, c.id>>, space |-> d.space, code |-> d.code, data |-> d.data]
    BY <2>2, <1>3 DEF Settings!InSpaces, Settings!Key
  <2> QED
    BY <1>1, <2>1, <2>2
<1>5. ASSUME o.at = n.at, Settings!Key(o) = Settings!Key(n) PROVE o = n
  <2>1. CASE o.at = DHCPServer
    <3>1. PICK d \in conf.options : o = [at |-> DHCPServer, space |-> d.space, code |-> d.code, data |-> d.data]
      BY <2>1, <1>1, <1>2
    <3>2. PICK e \in conf.options : n = [at |-> DHCPServer, space |-> e.space, code |-> e.code, data |-> e.data]
      BY <2>1, <1>1, <1>2, <1>5
    <3>3. d.space = e.space /\ d.code = e.code
      BY <3>1, <3>2, <1>5 DEF Settings!Key
    <3> QED
      BY <3>1, <3>2, <3>3, <1>3 DEF Settings!Distinct
  <2>2. CASE o.at # DHCPServer
    <3>1. PICK c \in conf.children, d \in UNION {x.options : x \in conf.children} :
              d \in c.options /\ o = [at |-> <<f, c.id>>, space |-> d.space, code |-> d.code, data |-> d.data]
      BY <2>2, <1>1
    <3>2. PICK b \in conf.children, e \in UNION {x.options : x \in conf.children} :
              e \in b.options /\ n = [at |-> <<f, b.id>>, space |-> e.space, code |-> e.code, data |-> e.data]
      BY <2>2, <1>1, <1>5
    <3>3. c.id = b.id
      BY <3>1, <3>2, <1>5
    <3>4. c = b /\ d.space = e.space /\ d.code = e.code
      BY <3>1, <3>2, <3>3, <1>3, <1>5 DEF Settings!Key
    <3> QED
      BY <3>1, <3>2, <3>4, <1>3 DEF Settings!Distinct
  <2> QED
    BY <2>1, <2>2
<1> QED
  BY <1>4, <1>5

\* The transaction of a family shows its configuration.
LEMMA SettingsCommitShows ==
    ASSUME Settings!SettingsAssumption, NEW f \in Settings!Families, NEW conf, SettingsParsedOK(f, conf), NEW families,
           NEW failing, NEW failed,
           failing \subseteq failed,
           server' = Settings!ServerValue(f, conf, families, failing),
           row' = Settings!WrittenRows(f, conf, families, failing),
           custom' = custom \union Settings!NewDefinitions(f, conf, failing),
           options' = (options \ Settings!Replaced(Settings!Resolved(f, conf, failing))) \union Settings!Resolved(f, conf,
           failing),
           pools' = Settings!WithPools(f, conf, failing)
    PROVE  SettingsMirrorsAt(server', row', f, conf, families, failed)
           /\ SettingsRowsAt(options', custom', pools', f, conf, failed)
<1>1. ASSUME NEW c \in Settings!Written(f, conf, failed),
             c.value # None PROVE SettingsEffectiveAt(server', row', <<f, c.id>>) = c.value
  <2>1. c \in Settings!Written(f, conf, failing) /\ c \in conf.children
    BY SettingsFewer DEF Settings!Written
  <2>2. c.value \in Values \union {None} /\ <<f, c.id>> \in Settings!Children
    BY <2>1 DEF SettingsParsedOK, Settings!ParsedConfiguration, Settings!Child, Settings!Children
  <2>3. Settings!Named(f, conf, c.id) = c
    BY <2>1 DEF Settings!Named, SettingsParsedOK
  <2> DEFINE v == Settings!Override(c.value, server')
  <2>4. row'[<<f, c.id>>] = Settings!Row(v)
    BY <2>1, <2>2, <2>3 DEF Settings!WrittenRows, Settings!Diffed
  <2>5. v = (IF c.value # server' THEN c.value ELSE None)
    BY DEF Settings!Override
  <2> HIDE DEF v
  <2>6. Settings!Row(v) \in [value : Values \union {None}] /\ Settings!Row(v).value = v
    BY <2>2, <2>5 DEF Settings!Row
  <2>7. Settings!Row(v) # None
    BY <2>6 DEF Settings!SettingsAssumption
  <2> QED
    BY <2>4, <2>5, <2>6, <2>7, <1>1 DEF SettingsEffectiveAt
<1>2. Settings!Primary(f, families) /\ DHCPServer \notin failed /\ conf.value # None => server' = conf.value
  BY DEF Settings!ServerValue
<1>3. ASSUME NEW n \in SettingsResolvedAt(custom', f, conf, failed) PROVE n \in Settings!Resolved(f, conf, failing)
  <2>1. n \in Settings!Reported(f, conf, failing) /\ n.data \notin Refused
    BY SettingsFewer DEF SettingsResolvedAt
  <2>2. CASE Settings!Key(n) \in SettingsNewAt(custom', f, conf, failed)
    <3>1. Settings!Key(n) \in Settings!NewDefinitions(f, conf, failing)
      BY <2>2, SettingsFewer DEF SettingsNewAt, Settings!NewDefinitions
    <3> QED
      BY <2>2, <3>1 DEF SettingsNewAt
  <2>3. CASE Settings!Key(n) \notin SettingsNewAt(custom', f, conf, failed)
    <3>1. Settings!Key(n) \in Standard \union custom \union Settings!NewDefinitions(f, conf, failing)
      BY <2>3 DEF SettingsResolvedAt
    <3> QED
      BY <3>1, <2>1 DEF Settings!Resolved
  <2> QED
    BY <2>2, <2>3
<1>4. ASSUME NEW n \in Settings!Resolved(f, conf, failing) PROVE {o \in options' : o.at = n.at
             /\ Settings!Key(o) = Settings!Key(n)} = {n}
  <2> DEFINE new == Settings!Resolved(f, conf, failing)
  <2>1. new \subseteq Settings!Reported(f, conf, failing)
    BY DEF Settings!Resolved
  <2>2. options' = (options \ Settings!Replaced(new)) \union new
    OBVIOUS
  <2> HIDE DEF new
  <2>3. n \in new
    BY DEF new
  <2>4. ASSUME NEW o \in options', o.at = n.at, Settings!Key(o) = Settings!Key(n) PROVE o = n
    <3>1. CASE o \in new
      BY <3>1, <2>1, <2>3, <2>4, SettingsReportedOnce
    <3>2. CASE o \notin new
      <4>1. o \in options /\ o \notin Settings!Replaced(new)
        BY <3>2, <2>2
      <4> QED
        BY <4>1, <2>3, <2>4 DEF Settings!Replaced, Settings!SameOption
    <3> QED
      BY <3>1, <3>2
  <2> QED
    BY <2>2, <2>3, <2>4
<1>5. Settings!WrittenPools(f, conf, failed) \subseteq pools'
  BY SettingsFewer DEF Settings!WithPools
<1> QED
  BY <1>1, <1>2, <1>3, <1>4, <1>5 DEF SettingsMirrorsAt, SettingsRowsAt

\* The transaction of the other family leaves what is shown, unless it is the primary one.
LEMMA SettingsCommitKeeps ==
    ASSUME Settings!SettingsAssumption, NEW f \in Settings!Families, NEW g \in Settings!Families, f # g, NEW conf,
           NEW other, SettingsParsedOK(f, conf), SettingsParsedOK(g, other),
           NEW families, ~Settings!Primary(g, families), NEW failing, NEW earlier, NEW failed, earlier \subseteq failed,
           SettingsMirrorsAt(server, row, f, conf, families, earlier),
           SettingsRowsAt(options, custom, pools, f, conf, earlier),
           server' = Settings!ServerValue(g, other, families, failing),
           row' = Settings!WrittenRows(g, other, families, failing),
           custom' = custom \union Settings!NewDefinitions(g, other, failing),
           options' = (options \ Settings!Replaced(Settings!Resolved(g, other, failing))) \union Settings!Resolved(g,
           other, failing),
           pools' = Settings!WithPools(g, other, failing)
    PROVE  SettingsMirrorsAt(server', row', f, conf, families, failed)
           /\ SettingsRowsAt(options', custom', pools', f, conf, failed)
<1>1. server # None => server' = server
  BY DEF Settings!ServerValue
<1>2. ASSUME NEW c \in Settings!Written(f, conf, failed),
             c.value # None PROVE SettingsEffectiveAt(server', row', <<f, c.id>>) = c.value
  <2>1. c \in Settings!Written(f, conf, earlier) /\ c \in conf.children
    BY SettingsFewer DEF Settings!Written
  <2>2. <<f, c.id>> \in Settings!Children
    BY <2>1 DEF SettingsParsedOK, Settings!ParsedConfiguration, Settings!Child, Settings!Children
  <2>3. row'[<<f, c.id>>] = row[<<f, c.id>>]
    BY <2>2 DEF Settings!WrittenRows
  <2>4. SettingsEffectiveAt(server, row, <<f, c.id>>) = c.value
    BY <2>1, <1>2 DEF SettingsMirrorsAt
  <2> QED
    BY <2>3, <2>4, <1>1, <1>2 DEF SettingsEffectiveAt
<1>3. Settings!Primary(f, families) /\ DHCPServer \notin failed /\ conf.value # None => server' = conf.value
  BY <1>1 DEF SettingsMirrorsAt
<1>4. ASSUME NEW n \in SettingsResolvedAt(custom', f, conf, failed),
             n.space = f PROVE n \in SettingsResolvedAt(custom, f, conf, earlier)
  <2>1. n \in Settings!Reported(f, conf, earlier) /\ n \in Settings!Reported(f, conf, failed) /\ n.data \notin Refused
    BY SettingsFewer DEF SettingsResolvedAt
  <2>2. CASE Settings!Key(n) \in SettingsNewAt(custom', f, conf, failed)
    <3>1. Settings!Key(n) \in SettingsNewAt(custom, f, conf, earlier)
      BY <2>2, SettingsFewer DEF SettingsNewAt
    <3> QED
      BY <3>1, <2>1 DEF SettingsResolvedAt
  <2>3. CASE Settings!Key(n) \notin SettingsNewAt(custom', f, conf, failed)
    <3>1. Settings!Key(n) \in Standard \union custom \union Settings!NewDefinitions(g, other, failing)
      BY <2>3 DEF SettingsResolvedAt
    <3>2. \A d \in Settings!NewDefinitions(g, other, failing) : d[1] \notin Settings!Families \ {g}
      BY DEF Settings!NewDefinitions, SettingsParsedOK, Settings!ConfigOK
    <3>3. Settings!Key(n)[1] = f
      BY <2>1, <1>4, SettingsReportedOnce
    <3>4. Settings!Key(n) \in Standard \union custom
      BY <3>1, <3>2, <3>3
    <3> QED
      BY <3>4, <2>1 DEF SettingsResolvedAt
  <2> QED
    BY <2>2, <2>3
<1>5. ASSUME NEW n \in SettingsResolvedAt(custom', f, conf, failed), n.space = f
      PROVE  {o \in options' : o.at = n.at /\ Settings!Key(o) = Settings!Key(n)} = {n}
  <2> DEFINE new == Settings!Resolved(g, other, failing)
  <2>1. new \subseteq Settings!Reported(g, other, failing)
    BY DEF Settings!Resolved
  <2>2. options' = (options \ Settings!Replaced(new)) \union new
    OBVIOUS
  <2> HIDE DEF new
  <2>3. {o \in options : o.at = n.at /\ Settings!Key(o) = Settings!Key(n)} = {n}
    BY <1>4, <1>5 DEF SettingsRowsAt
  <2>4. Settings!Key(n)[1] = f
    <3>1. n \in Settings!Reported(f, conf, failed)
      BY DEF SettingsResolvedAt
    <3> QED
      BY <3>1, <1>5, SettingsReportedOnce
  <2>5. \A p \in new : Settings!Key(p) # Settings!Key(n)
    <3> SUFFICES ASSUME NEW p \in new PROVE Settings!Key(p) # Settings!Key(n)
      OBVIOUS
    <3>1. p \in Settings!Reported(g, other, failing)
      BY <2>1
    <3>2. p.space \notin Settings!Families \ {g} /\ Settings!Key(p)[1] = p.space
      BY <3>1, SettingsReportedOnce
    <3> QED
      BY <3>2, <2>4
  <2>6. n \in options /\ n \notin Settings!Replaced(new)
    BY <2>3, <2>5 DEF Settings!Replaced, Settings!SameOption
  <2> QED
    BY <2>2, <2>3, <2>5, <2>6
<1>6. Settings!WrittenPools(f, conf, failed) \subseteq pools'
  BY SettingsFewer DEF Settings!WithPools, SettingsRowsAt
<1> QED
  BY <1>2, <1>3, <1>5, <1>6 DEF SettingsMirrorsAt, SettingsRowsAt

------------------------------------------------------------------------------
(* The runs.                                                               *)

SettingsTodos == {<<>>, <<4>>, <<6>>, <<4, 6>>}
SettingsRunners == [pc : {"idle", "next", "write", "done"}, families : SUBSET Settings!Families, todo : SettingsTodos,
            confs : [Settings!Families -> Settings!ParsedConfiguration \union {None}],
            failed : SUBSET ({DHCPServer} \union (Settings!Families \X (Ids \union Ranges)) \union Settings!Definitions),
            alone : BOOLEAN]

\* A run reads and writes its families in their order.
SettingsMeOK(me) ==
    /\ \A f \in Settings!Families : me.confs[f] # None => SettingsParsedOK(f, me.confs[f])
    /\ me.pc = "write" => me.todo # <<>> /\ me.confs[Head(me.todo)] # None
    /\ me.todo \in {<<4>>, <<4, 6>>} \/ me.confs[4] # None => 4 \in me.families
    /\ me.todo \in {<<4>>, <<4, 6>>} => me.confs[6] = None /\ (me.pc = "next" => me.confs[4] = None)
    /\ me.todo = <<6>> /\ me.pc = "next" => me.confs[6] = None

\* The families that a run has written.
SettingsCommitted(me) == {f \in Settings!Families : me.confs[f] # None /\ ~(me.pc = "write" /\ Head(me.todo) = f)}

\* The rows show what a run wrote.
SettingsShownAt(me, srv, rws, opts, cst, pls) == \A f \in SettingsCommitted(me) :
    /\ SettingsMirrorsAt(srv, rws, f, me.confs[f], me.families, me.failed)
    /\ SettingsRowsAt(opts, cst, pls, f, me.confs[f], me.failed)

\* An import that is alone runs alone, and the rows show what it wrote.
SettingsGoing(pc) == pc \in {"next", "write"}
SettingsAloneOK(w) == (SettingsGoing(run[w].pc) \/ run[w].pc = "done") /\ run[w].alone =>
    /\ \A u \in Runs \ {w} : ~SettingsGoing(run[u].pc)
    /\ SettingsShownAt(run[w], server, row, options, custom, pools)

SettingsTypes ==
    /\ kea \in [Settings!Families -> Settings!Configuration] /\ \A f \in Settings!Families : kea[f] \in Configs[f]
    /\ enabled \subseteq Settings!Families
    /\ run \in [Runs -> SettingsRunners]

SettingsIInv == SettingsTypes /\ (\A w \in Runs : SettingsMeOK(run[w]) /\ SettingsAloneOK(w))

LEMMA SettingsTodoIs ==
    /\ \A t \in SettingsTodos : t # <<>> => Head(t) \in Settings!Families /\ Tail(t) \in SettingsTodos
    /\ Head(<<4>>) = 4 /\ Head(<<6>>) = 6 /\ Head(<<4, 6>>) = 4 /\ Tail(<<4>>) = <<>> /\ Tail(<<6>>) = <<>>
       /\ Tail(<<4, 6>>) = <<6>>
    /\ <<4>> # <<>> /\ <<6>> # <<>> /\ <<4, 6>> # <<>> /\ <<4>> # <<6>> /\ <<4, 6>> # <<4>> /\ <<4, 6>> # <<6>>
BY DEF SettingsTodos, Settings!Families

LEMMA SettingsBothIs == <<4>> \o <<6>> = <<4, 6>>
<1> DEFINE s == <<4>>
           t == <<6>>
           r == <<4, 6>>
<1>1. s \in Seq(Nat) /\ t \in Seq(Nat) /\ r \in Seq(Nat) /\ Len(s) = 1 /\ Len(t) = 1 /\ Len(r) = 2
  OBVIOUS
<1>2. s[1] = 4 /\ t[1] = 6 /\ r[1] = 4 /\ r[2] = 6
  OBVIOUS
<1> HIDE DEF s, t, r
<1>3. s \o t \in Seq(Nat) /\ Len(s \o t) = 2
  <2>1. s \o t \in Seq(Nat) /\ Len(s \o t) = Len(s) + Len(t)
    BY <1>1, ConcatProperties
  <2> QED
    BY <2>1, <1>1
<1>4. (s \o t)[1] = 4
  BY <1>1, <1>2, ConcatProperties
<1>5. (s \o t)[2] = 6
  <2>1. 2 \in 1 .. Len(s) + Len(t) /\ ~(2 <= Len(s)) /\ 2 - Len(s) = 1
    BY <1>1
  <2>2. (s \o t)[2] = t[2 - Len(s)]
    BY <1>1, <2>1, ConcatProperties
  <2> QED
    BY <2>1, <2>2, <1>2
<1>6. \A i \in 1 .. 2 : i = 1 \/ i = 2
  OBVIOUS
<1>7. s \o t = r
  BY <1>1, <1>2, <1>3, <1>4, <1>5, <1>6, SeqEqual
<1> QED
  BY <1>7 DEF s, t, r

LEMMA SettingsVersionsType ==
    ASSUME NEW families \in SUBSET Settings!Families
    PROVE  /\ Settings!Versions(families) \in SettingsTodos
           /\ Settings!Versions(families) \in {<<4>>, <<4, 6>>} => 4 \in families
<1>1. CASE 4 \in families /\ 6 \in families
  <2>1. Settings!Versions(families) = <<4>> \o <<6>>
    BY <1>1 DEF Settings!Versions
  <2> QED
    BY <2>1, SettingsBothIs, <1>1, SettingsTodoIs DEF SettingsTodos
<1>2. CASE 4 \in families /\ 6 \notin families
  <2>1. Settings!Versions(families) = <<4>>
    BY <1>2 DEF Settings!Versions
  <2> QED
    BY <2>1, <1>2, SettingsTodoIs DEF SettingsTodos
<1>3. CASE 4 \notin families /\ 6 \in families
  <2>1. Settings!Versions(families) = <<6>>
    BY <1>3 DEF Settings!Versions
  <2> QED
    BY <2>1, <1>3, SettingsTodoIs DEF SettingsTodos
<1>4. CASE 4 \notin families /\ 6 \notin families
  <2>1. Settings!Versions(families) = <<>>
    BY <1>4 DEF Settings!Versions
  <2> QED
    BY <2>1, <1>4, SettingsTodoIs DEF SettingsTodos
<1> QED
  BY <1>1, <1>2, <1>3, <1>4

LEMMA SettingsIdleType == Settings!SettingsAssumption => Settings!Idle \in SettingsRunners /\ Settings!Idle.pc = "idle" /\ Settings!Idle.confs = [f \in Settings!Families |-> None] /\ Settings!Idle.todo = <<>>
                     /\ ~Settings!Idle.alone
BY DEF Settings!Idle, SettingsRunners, SettingsTodos

LEMMA SettingsInitIInv == Settings!SettingsAssumption /\ Settings!Init => SettingsIInv
<1> SUFFICES ASSUME Settings!SettingsAssumption, Settings!Init PROVE SettingsIInv
  OBVIOUS
<1>1. \A w \in Runs : run[w] = Settings!Idle
  BY DEF Settings!Init
<1>2. SettingsTypes
  BY SettingsIdleType DEF Settings!Init, SettingsTypes, Settings!SettingsAssumption
<1>3. ASSUME NEW w \in Runs PROVE SettingsMeOK(run[w]) /\ SettingsAloneOK(w)
  <2>1. run[w] = Settings!Idle
    BY <1>1
  <2>2. SettingsAloneOK(w)
    BY <2>1, SettingsIdleType DEF SettingsAloneOK, SettingsGoing
  <2>3. SettingsMeOK(run[w])
    BY <2>1, SettingsIdleType, SettingsTodoIs DEF SettingsMeOK, Settings!Families
  <2> QED
    BY <2>2, <2>3
<1> QED
  BY <1>2, <1>3 DEF SettingsIInv
LEMMA SettingsItemsAre ==
    ASSUME NEW f \in Settings!Families, NEW conf \in Settings!ParsedConfiguration
    PROVE  Settings!Items(f, conf) \subseteq {DHCPServer} \union (Settings!Families \X (Ids \union Ranges)) \union Settings!Definitions
<1>1. \A c \in conf.children : c.id \in Ids /\ c.pools \subseteq Ranges
  BY DEF Settings!ParsedConfiguration, Settings!Child
<1>2. conf.defs \subseteq Settings!Definitions
  BY DEF Settings!ParsedConfiguration
<1>3. \A r \in UNION {c.pools : c \in conf.children} : r \in Ranges
  BY <1>1
<1> QED
  BY <1>1, <1>2, <1>3 DEF Settings!Items

LEMMA SettingsParsedIs ==
    ASSUME Settings!SettingsAssumption, NEW f \in Settings!Families, NEW conf \in Configs[f]
    PROVE  SettingsParsedOK(f, Settings!Parsed(conf)) /\ Settings!Parsed(conf) # None
<1>1. conf \in Settings!Configuration /\ Settings!ConfigOK(f, conf)
  BY DEF Settings!SettingsAssumption
<1> DEFINE p == Settings!Parsed(conf)
<1>2. /\ p.value = conf.value /\ p.options = conf.options /\ p.defs = conf.defs /\ p.children = {c \in conf.children : c.ok}
      /\ p = [value |-> p.value, options |-> p.options, defs |-> p.defs, children |-> p.children]
  BY DEF Settings!Parsed
<1> HIDE DEF p
<1>3. conf.value \in Values \union {None} /\ conf.options \subseteq Settings!OptionData
      /\ conf.defs \subseteq Settings!Definitions /\ conf.children \subseteq Settings!Child
  BY <1>1 DEF Settings!Configuration, Settings!Definitions
<1>4. p.children \subseteq conf.children /\ p.children \subseteq Settings!Child /\ \A c \in p.children : c.ok
  BY <1>2, <1>3
<1>5. p \in Settings!ParsedConfiguration
  BY <1>2, <1>3, <1>4 DEF Settings!ParsedConfiguration
<1>6. p # None
  BY <1>5 DEF Settings!ParsedConfiguration, Settings!SettingsAssumption
<1>7. Settings!ConfigOK(f, p)
  BY <1>1, <1>2, <1>4 DEF Settings!ConfigOK
<1>8. \A c, d \in p.children : c.id = d.id => c = d
  BY <1>1, <1>4 DEF Settings!ConfigOK
<1> QED
  BY <1>5, <1>6, <1>7, <1>8 DEF SettingsParsedOK, p

\* A step of an import disturbs no import that is alone: that one runs alone.
LEMMA SettingsOthersAlone ==
    ASSUME Settings!SettingsAssumption, SettingsIInv, NEW w \in Runs, SettingsGoing(run[w].pc), NEW u \in Runs, u # w,
           run'[u] = run[u]
    PROVE  SettingsMeOK(run'[u]) /\ SettingsAloneOK(u)'
<1>1. SettingsMeOK(run[u]) /\ SettingsAloneOK(u)
  BY DEF SettingsIInv
<1>2. ~((SettingsGoing(run[u].pc) \/ run[u].pc = "done") /\ run[u].alone)
  BY <1>1 DEF SettingsAloneOK
<1> QED
  BY <1>1, <1>2 DEF SettingsAloneOK

LEMMA SettingsStartStep ==
    ASSUME Settings!SettingsAssumption, SettingsIInv, NEW w \in Runs, Settings!Start(w)
    PROVE  SettingsIInv'
<1> DEFINE others == \E u \in Runs \ {w} : SettingsGoing(run[u].pc)
           me == [Settings!Idle EXCEPT !.pc = "next", !.families = enabled, !.todo = Settings!Versions(enabled),
             !.alone = ~others]
<1>1. run' = [Settings!Disturbed(run) EXCEPT ![w] = me] /\ UNCHANGED <<kea, enabled, server, row, options, custom, pools>>
  BY DEF Settings!Start, Settings!rows, Settings!Active, SettingsGoing
<1>2. enabled \in SUBSET Settings!Families /\ run \in [Runs -> SettingsRunners]
  BY DEF SettingsIInv, SettingsTypes
<1>3. Settings!Versions(enabled) \in SettingsTodos /\ (Settings!Versions(enabled) \in {<<4>>, <<4, 6>>} => 4 \in enabled)
  BY <1>2, SettingsVersionsType
<1>4. others \in BOOLEAN
  OBVIOUS
<1> DEFINE o == others
<1> HIDE DEF others
<1>5. me \in SettingsRunners
  BY <1>2, <1>3, <1>4, SettingsIdleType DEF SettingsRunners
<1>6. me.pc = "next" /\ me.families = enabled /\ me.todo = Settings!Versions(enabled) /\ me.alone = ~others
  BY SettingsIdleType DEF SettingsRunners
<1>7. \A f \in Settings!Families : me.confs[f] = None
  BY SettingsIdleType DEF SettingsRunners
<1> HIDE DEF me
<1>8. run'[w] = me
  BY <1>1, <1>2 DEF Settings!Disturbed
<1>9. \A u \in Runs \ {w} : run'[u] = [run[u] EXCEPT !.alone = FALSE]
  BY <1>1, <1>2 DEF Settings!Disturbed
<1>10. SettingsTypes'
  <2>1. \A u \in Runs : [run[u] EXCEPT !.alone = FALSE] \in SettingsRunners
    BY <1>2 DEF SettingsRunners
  <2>2. Settings!Disturbed(run) \in [Runs -> SettingsRunners]
    BY <2>1 DEF Settings!Disturbed
  <2>3. run' \in [Runs -> SettingsRunners]
    BY <2>2, <1>1, <1>5
  <2> QED
    BY <2>3, <1>1 DEF SettingsIInv, SettingsTypes
<1>11. SettingsMeOK(me)
  BY <1>3, <1>6, <1>7, SettingsTodoIs DEF SettingsMeOK, Settings!Families
<1>12. SettingsAloneOK(w)'
  <2>1. SettingsCommitted(me) = {}
    BY <1>7 DEF SettingsCommitted
  <2>2. ASSUME me.alone, NEW u \in Runs \ {w} PROVE ~SettingsGoing(run'[u].pc)
    <3>1. ~SettingsGoing(run[u].pc)
      BY <2>2, <1>6 DEF others
    <3> QED
      BY <3>1, <1>9, <1>2 DEF SettingsRunners
  <2> QED
    BY <2>1, <2>2, <1>8 DEF SettingsAloneOK, SettingsShownAt
<1>13. ASSUME NEW u \in Runs \ {w} PROVE SettingsMeOK(run'[u]) /\ SettingsAloneOK(u)'
  <2>1. run[u] \in SettingsRunners
    BY <1>2
  <2>2. /\ run'[u].pc = run[u].pc /\ run'[u].families = run[u].families /\ run'[u].todo = run[u].todo
           /\ run'[u].confs = run[u].confs
        /\ ~run'[u].alone
    BY <2>1, <1>9 DEF SettingsRunners
  <2>3. SettingsMeOK(run[u])
    BY DEF SettingsIInv
  <2> QED
    BY <2>2, <2>3 DEF SettingsMeOK, SettingsAloneOK
<1> QED
  BY <1>8, <1>10, <1>11, <1>12, <1>13 DEF SettingsIInv

LEMMA SettingsReadStep ==
    ASSUME Settings!SettingsAssumption, SettingsIInv, NEW w \in Runs, Settings!Read(w)
    PROVE  SettingsIInv'
<1> DEFINE me == run[w]
           f == Head(run[w].todo)
<1>1. me.pc = "next" /\ me.todo # <<>> /\ UNCHANGED <<kea, enabled, server, row, options, custom, pools>>
  BY DEF Settings!Read, Settings!rows
<1>2. me \in SettingsRunners /\ SettingsMeOK(me) /\ SettingsAloneOK(w) /\ run \in [Runs -> SettingsRunners]
  BY DEF SettingsIInv, SettingsTypes
<1>3. f \in Settings!Families /\ Tail(me.todo) \in SettingsTodos
  BY <1>1, <1>2, SettingsTodoIs DEF SettingsRunners
<1>4. kea[f] \in Configs[f]
  BY <1>3 DEF SettingsIInv, SettingsTypes
<1>5. SettingsParsedOK(f, Settings!Parsed(kea[f])) /\ Settings!Parsed(kea[f]) # None
  BY <1>3, <1>4, SettingsParsedIs
<1>6. \/ run' = [run EXCEPT ![w].pc = "write", ![w].confs[f] = Settings!Parsed(kea[f])]
      \/ run' = [run EXCEPT ![w].todo = Tail(@)]
  BY DEF Settings!Read
<1>7. \A u \in Runs \ {w} : run'[u] = run[u]
  BY <1>6, <1>2
<1>8. \A u \in Runs \ {w} : SettingsMeOK(run'[u]) /\ SettingsAloneOK(u)'
  BY <1>1, <1>7, SettingsOthersAlone DEF SettingsGoing
<1>9. ASSUME run' = [run EXCEPT ![w].pc = "write", ![w].confs[f] = Settings!Parsed(kea[f])] PROVE SettingsIInv'
  <2> DEFINE now == [run[w] EXCEPT !.pc = "write", !.confs[f] = Settings!Parsed(kea[f])]
  <2>1. run'[w] = now
    BY <1>9, <1>2
  <2>2. /\ now.pc = "write" /\ now.families = me.families /\ now.todo = me.todo /\ now.failed = me.failed
           /\ now.alone = me.alone
        /\ now.confs = [me.confs EXCEPT ![f] = Settings!Parsed(kea[f])] /\ now \in SettingsRunners
    BY <1>2, <1>3, <1>5 DEF SettingsRunners, SettingsParsedOK
  <2>3. now.confs[f] = Settings!Parsed(kea[f]) /\ \A g \in Settings!Families \ {f} : now.confs[g] = me.confs[g]
    BY <2>2, <1>2, <1>3 DEF SettingsRunners
  <2> HIDE DEF now, me
  <2>4. f = Head(now.todo) /\ f = Head(me.todo)
    BY <2>2 DEF me
  <2> HIDE DEF f
  <2>5. SettingsMeOK(now)
    <3>1. \A g \in Settings!Families : now.confs[g] # None => SettingsParsedOK(g, now.confs[g])
      BY <2>3, <1>2, <1>5 DEF SettingsMeOK
    <3>2. me.todo \in SettingsTodos
      BY <1>2 DEF SettingsRunners
    <3>3. CASE me.todo \in {<<4>>, <<4, 6>>}
      <4>1. f = 4
        BY <3>3, <2>4, SettingsTodoIs
      <4>2. now.confs[6] = None /\ 4 \in now.families
        BY <4>1, <3>3, <2>2, <2>3, <1>2 DEF SettingsMeOK, Settings!Families
      <4> QED
        BY <3>1, <4>1, <4>2, <2>2, <2>3, <2>4, <1>1, <1>5 DEF SettingsMeOK
    <3>4. CASE me.todo = <<6>>
      <4>1. f = 6
        BY <3>4, <2>4, SettingsTodoIs
      <4>2. now.confs[4] = me.confs[4]
        BY <4>1, <2>3 DEF Settings!Families
      <4>3. now.confs[4] # None => 4 \in now.families
        BY <4>2, <2>2, <1>2 DEF SettingsMeOK
      <4>4. now.todo \notin {<<4>>, <<4, 6>>}
        BY <3>4, <2>2, SettingsTodoIs
      <4> QED
        BY <3>1, <4>3, <4>4, <2>2, <2>3, <2>4, <1>1, <1>5 DEF SettingsMeOK
    <3> QED
      BY <3>2, <3>3, <3>4, <1>1 DEF SettingsTodos
  <2>6. SettingsCommitted(now) \subseteq SettingsCommitted(me) \ {f}
    BY <2>2, <2>3, <2>4, <1>1 DEF SettingsCommitted
  <2>7. SettingsShownAt(me, server, row, options, custom, pools) => SettingsShownAt(now, server, row, options, custom, pools)
    BY <2>2, <2>3, <2>6 DEF SettingsShownAt, SettingsCommitted
  <2>8. now.alone => /\ \A u \in Runs \ {w} : ~SettingsGoing(run[u].pc)
                     /\ SettingsShownAt(me, server, row, options, custom, pools)
    BY <2>2, <1>1, <1>2 DEF SettingsAloneOK, SettingsGoing, me
  <2>9. SettingsAloneOK(w)'
    BY <2>1, <2>7, <2>8, <1>1, <1>7 DEF SettingsAloneOK
  <2>10. SettingsTypes'
    <3>1. run' \in [Runs -> SettingsRunners]
      BY <1>2, <1>7, <1>9, <2>1, <2>2
    <3> QED
      BY <3>1, <1>1 DEF SettingsIInv, SettingsTypes
  <2> QED
    BY <2>1, <2>5, <2>9, <2>10, <1>8 DEF SettingsIInv
<1>10. ASSUME run' = [run EXCEPT ![w].todo = Tail(@)] PROVE SettingsIInv'
  <2> DEFINE now == [run[w] EXCEPT !.todo = Tail(@)]
  <2>1. run'[w] = now
    BY <1>10, <1>2
  <2>2. /\ now.pc = "next" /\ now.families = me.families /\ now.todo = Tail(me.todo) /\ now.failed = me.failed
           /\ now.alone = me.alone
        /\ now.confs = me.confs /\ now \in SettingsRunners
    BY <1>1, <1>2, <1>3 DEF SettingsRunners
  <2> HIDE DEF now, me
  <2>5. SettingsMeOK(now)
    <3>1. me.todo \in {<<4>>, <<6>>, <<4, 6>>}
      BY <1>1, <1>2 DEF SettingsRunners, SettingsTodos
    <3>2. CASE me.todo = <<4, 6>>
      BY <3>2, <2>2, <1>2, SettingsTodoIs DEF SettingsMeOK
    <3>3. CASE me.todo # <<4, 6>>
      <4>1. now.todo = <<>>
        BY <3>1, <3>3, <2>2, SettingsTodoIs
      <4> QED
        BY <4>1, <2>2, <1>2, SettingsTodoIs DEF SettingsMeOK
    <3> QED
      BY <3>2, <3>3
  <2>6. SettingsCommitted(now) = SettingsCommitted(me)
    BY <2>2, <1>1 DEF SettingsCommitted
  <2>7. SettingsShownAt(me, server, row, options, custom, pools) => SettingsShownAt(now, server, row, options, custom, pools)
    BY <2>2, <2>6 DEF SettingsShownAt
  <2>8. now.alone => /\ \A u \in Runs \ {w} : ~SettingsGoing(run[u].pc)
                     /\ SettingsShownAt(me, server, row, options, custom, pools)
    BY <2>2, <1>1, <1>2 DEF SettingsAloneOK, SettingsGoing, me
  <2>9. SettingsAloneOK(w)'
    BY <2>1, <2>7, <2>8, <1>1, <1>7 DEF SettingsAloneOK
  <2>10. SettingsTypes'
    <3>1. run' \in [Runs -> SettingsRunners]
      BY <1>2, <1>7, <1>10, <2>1, <2>2
    <3> QED
      BY <3>1, <1>1 DEF SettingsIInv, SettingsTypes
  <2> QED
    BY <2>1, <2>5, <2>9, <2>10, <1>8 DEF SettingsIInv
<1> QED
  BY <1>6, <1>9, <1>10

LEMMA SettingsWriteStep ==
    ASSUME Settings!SettingsAssumption, SettingsIInv, NEW w \in Runs, Settings!Write(w)
    PROVE  SettingsIInv'
<1> DEFINE me == run[w]
           f == Head(run[w].todo)
<1>1. me.pc = "write" /\ UNCHANGED <<kea, enabled>>
  BY DEF Settings!Write
<1>2. me \in SettingsRunners /\ SettingsMeOK(me) /\ SettingsAloneOK(w) /\ run \in [Runs -> SettingsRunners]
  BY DEF SettingsIInv, SettingsTypes
<1>3. me.todo # <<>> /\ me.confs[f] # None
  BY <1>1, <1>2 DEF SettingsMeOK
<1>4. f \in Settings!Families /\ Tail(me.todo) \in SettingsTodos
  BY <1>2, <1>3, SettingsTodoIs DEF SettingsRunners
<1>5. SettingsParsedOK(f, me.confs[f]) /\ me.confs[f] \in Settings!ParsedConfiguration
  BY <1>2, <1>3, <1>4 DEF SettingsMeOK, SettingsParsedOK
<1>6. PICK failing \in {{}} \union {{i} : i \in Settings!Items(f, me.confs[f])} :
          /\ Settings!Commit(w, failing)
          /\ run' = [run EXCEPT ![w].pc = "next", ![w].todo = Tail(@), ![w].failed = @ \union failing]
  BY DEF Settings!Write
<1>7. failing \subseteq {DHCPServer} \union (Settings!Families \X (Ids \union Ranges)) \union Settings!Definitions
  BY <1>4, <1>5, <1>6, SettingsItemsAre
<1> DEFINE now == [run[w] EXCEPT !.pc = "next", !.todo = Tail(@), !.failed = @ \union failing]
<1>8. run'[w] = now /\ \A u \in Runs \ {w} : run'[u] = run[u]
  BY <1>6, <1>2
<1>9. /\ now.pc = "next" /\ now.families = me.families /\ now.todo = Tail(me.todo) /\ now.failed = me.failed \union failing
      /\ now.alone = me.alone /\ now.confs = me.confs
  BY <1>2 DEF SettingsRunners
<1>10. now \in SettingsRunners
  BY <1>2, <1>4, <1>7 DEF SettingsRunners
<1>11. /\ server' = Settings!ServerValue(f, me.confs[f], me.families, failing)
       /\ row' = Settings!WrittenRows(f, me.confs[f], me.families, failing)
       /\ custom' = custom \union Settings!NewDefinitions(f, me.confs[f], failing)
       /\ options' = (options \ Settings!Replaced(Settings!Resolved(f, me.confs[f], failing))) \union Settings!Resolved(f,
          me.confs[f], failing)
       /\ pools' = Settings!WithPools(f, me.confs[f], failing)
  BY <1>6 DEF Settings!Commit
<1>12. SettingsAloneOK(w)
  BY <1>2
<1>13. me.alone => /\ \A u \in Runs \ {w} : ~SettingsGoing(run[u].pc)
                   /\ SettingsShownAt(me, server, row, options, custom, pools)
  BY <1>12, <1>1 DEF SettingsAloneOK, SettingsGoing
<1> HIDE DEF now, me
<1>14. f = Head(me.todo)
  BY DEF me
<1> HIDE DEF f
<1>15. me.todo \in {<<4>>, <<6>>, <<4, 6>>}
  BY <1>2, <1>3 DEF SettingsRunners, SettingsTodos
<1>16. SettingsMeOK(now)
  <2>1. CASE me.todo = <<4, 6>>
    <3>1. now.todo = <<6>>
      BY <2>1, <1>9, SettingsTodoIs
    <3> QED
      BY <2>1, <3>1, <1>2, <1>9, SettingsTodoIs DEF SettingsMeOK
  <2>2. CASE me.todo # <<4, 6>>
    <3>1. now.todo = <<>>
      BY <1>9, <1>15, <2>2, SettingsTodoIs
    <3> QED
      BY <3>1, <1>2, <1>9, SettingsTodoIs DEF SettingsMeOK
  <2> QED
    BY <2>1, <2>2
<1>17. ASSUME SettingsShownAt(me, server, row, options, custom, pools)
       PROVE  SettingsShownAt(now, server', row', options', custom', pools')
  <2> SUFFICES ASSUME NEW g \in SettingsCommitted(now)
               PROVE  /\ SettingsMirrorsAt(server', row', g, me.confs[g], me.families, me.failed \union failing)
                      /\ SettingsRowsAt(options', custom', pools', g, me.confs[g], me.failed \union failing)
    BY <1>9 DEF SettingsShownAt
  <2>1. g \in Settings!Families /\ me.confs[g] # None
    BY <1>9 DEF SettingsCommitted
  <2>2. CASE g = f
    BY <2>2, <1>4, <1>5, <1>11, SettingsCommitShows
  <2>3. CASE g # f
    <3>1. g = 4 /\ f = 6
      <4>1. CASE f = 4
        <5>1. me.todo \in {<<4>>, <<4, 6>>}
          BY <4>1, <1>14, <1>15, SettingsTodoIs
        <5>2. me.confs[6] = None
          BY <5>1, <1>2 DEF SettingsMeOK
        <5> QED
          BY <5>2, <4>1, <2>1, <2>3 DEF Settings!Families
      <4> QED
        BY <4>1, <1>4, <2>1, <2>3 DEF Settings!Families
    <3>2. ~Settings!Primary(f, me.families)
      BY <3>1, <2>1, <1>2 DEF SettingsMeOK, Settings!Primary
    <3>3. g \in SettingsCommitted(me)
      BY <2>1, <2>3, <1>14 DEF SettingsCommitted
    <3>4. /\ SettingsMirrorsAt(server, row, g, me.confs[g], me.families, me.failed)
          /\ SettingsRowsAt(options, custom, pools, g, me.confs[g], me.failed)
      BY <3>3, <1>17 DEF SettingsShownAt
    <3>5. SettingsParsedOK(g, me.confs[g])
      BY <2>1, <1>2 DEF SettingsMeOK
    <3>6. me.failed \subseteq me.failed \union failing
      OBVIOUS
    <3> QED
      BY <3>2, <3>4, <3>5, <3>6, <2>1, <2>3, <1>4, <1>5, <1>11, SettingsCommitKeeps
  <2> QED
    BY <2>2, <2>3
<1>18. SettingsAloneOK(w)'
  BY <1>8, <1>9, <1>13, <1>17 DEF SettingsAloneOK
<1>19. SettingsTypes'
  <2>1. run' \in [Runs -> SettingsRunners]
    BY <1>2, <1>6, <1>8, <1>10
  <2> QED
    BY <2>1, <1>1 DEF SettingsIInv, SettingsTypes
<1>20. \A u \in Runs \ {w} : SettingsMeOK(run'[u]) /\ SettingsAloneOK(u)'
  BY <1>1, <1>8, SettingsOthersAlone DEF SettingsGoing, me
<1> QED
  BY <1>8, <1>16, <1>18, <1>19, <1>20 DEF SettingsIInv

LEMMA SettingsStopStep ==
    ASSUME Settings!SettingsAssumption, SettingsIInv, NEW w \in Runs, Settings!Stop(w)
    PROVE  SettingsIInv'
<1>1. run[w].pc = "write" /\ run' = [run EXCEPT ![w] = Settings!Idle] /\ UNCHANGED <<kea, enabled>>
  BY DEF Settings!Stop
<1>2. run \in [Runs -> SettingsRunners]
  BY DEF SettingsIInv, SettingsTypes
<1>3. run'[w] = Settings!Idle /\ \A u \in Runs \ {w} : run'[u] = run[u]
  BY <1>1, <1>2
<1>4. SettingsMeOK(run'[w]) /\ SettingsAloneOK(w)'
  <2>1. SettingsAloneOK(w)'
    BY <1>3, SettingsIdleType DEF SettingsAloneOK, SettingsGoing
  <2>2. SettingsMeOK(Settings!Idle)
    BY SettingsIdleType, SettingsTodoIs DEF SettingsMeOK, Settings!Families
  <2> QED
    BY <2>1, <2>2, <1>3
<1>5. \A u \in Runs \ {w} : SettingsMeOK(run'[u]) /\ SettingsAloneOK(u)'
  BY <1>1, <1>3, SettingsOthersAlone DEF SettingsGoing
<1>6. SettingsTypes'
  <2>1. run' \in [Runs -> SettingsRunners]
    BY <1>1, <1>2, SettingsIdleType
  <2> QED
    BY <2>1, <1>1 DEF SettingsIInv, SettingsTypes
<1> QED
  BY <1>4, <1>5, <1>6 DEF SettingsIInv

LEMMA SettingsFinishStep ==
    ASSUME Settings!SettingsAssumption, SettingsIInv, NEW w \in Runs, Settings!Finish(w)
    PROVE  SettingsIInv'
<1> DEFINE me == run[w]
           now == [run[w] EXCEPT !.pc = "done"]
<1>1. /\ run[w].pc = "next" /\ run[w].todo = <<>> /\ run' = [run EXCEPT ![w].pc = "done"]
      /\ UNCHANGED <<kea, enabled, server, row, options, custom, pools>>
  BY DEF Settings!Finish, Settings!rows
<1>2. me \in SettingsRunners /\ SettingsMeOK(me) /\ SettingsAloneOK(w) /\ run \in [Runs -> SettingsRunners]
  BY DEF SettingsIInv, SettingsTypes
<1>3. run'[w] = now /\ \A u \in Runs \ {w} : run'[u] = run[u]
  BY <1>1, <1>2
<1>4. /\ now.pc = "done" /\ now.families = me.families /\ now.todo = me.todo /\ now.failed = me.failed
         /\ now.alone = me.alone
      /\ now.confs = me.confs /\ now \in SettingsRunners
  BY <1>2 DEF SettingsRunners
<1>5. SettingsAloneOK(w)
  BY <1>2
<1>6. me.alone => /\ \A u \in Runs \ {w} : ~SettingsGoing(run[u].pc)
                  /\ SettingsShownAt(me, server, row, options, custom, pools)
  BY <1>5, <1>1 DEF SettingsAloneOK, SettingsGoing
<1>7. me.pc = "next" /\ me.todo = <<>>
  BY <1>1
<1> HIDE DEF me, now
<1>8. SettingsMeOK(now)
  BY <1>2, <1>4, <1>7, SettingsTodoIs DEF SettingsMeOK
<1>9. SettingsCommitted(now) = SettingsCommitted(me)
  BY <1>4, <1>7 DEF SettingsCommitted
<1>10. SettingsAloneOK(w)'
  <2>1. SettingsShownAt(me, server, row, options, custom, pools) => SettingsShownAt(now, server, row, options, custom, pools)
    BY <1>4, <1>9 DEF SettingsShownAt
  <2> QED
    BY <2>1, <1>1, <1>3, <1>4, <1>6 DEF SettingsAloneOK
<1>11. \A u \in Runs \ {w} : SettingsMeOK(run'[u]) /\ SettingsAloneOK(u)'
  BY <1>1, <1>3, SettingsOthersAlone DEF SettingsGoing
<1>12. SettingsTypes'
  <2>1. run' \in [Runs -> SettingsRunners]
    BY <1>1, <1>2, <1>3, <1>4
  <2> QED
    BY <2>1, <1>1 DEF SettingsIInv, SettingsTypes
<1> QED
  BY <1>3, <1>8, <1>10, <1>11, <1>12 DEF SettingsIInv

\* A change by Kea or an operator ends the isolation of every import.
LEMMA SettingsChangeStep ==
    ASSUME Settings!SettingsAssumption, SettingsIInv, Settings!KeaChanges \/ Settings!EditServerForm \/ Settings!EditRow
           \/ Settings!DeleteRow
    PROVE  SettingsIInv'
<1>1. run' = Settings!Disturbed(run)
  BY DEF Settings!KeaChanges, Settings!EditServerForm, Settings!EditRow, Settings!DeleteRow, Settings!Change
<1>2. SettingsTypes /\ run \in [Runs -> SettingsRunners]
  BY DEF SettingsIInv, SettingsTypes
<1>3. enabled' \subseteq Settings!Families
  BY <1>2 DEF Settings!KeaChanges, Settings!EditServerForm, Settings!EditRow, Settings!DeleteRow, SettingsTypes
<1>4. kea' \in [Settings!Families -> Settings!Configuration] /\ \A f \in Settings!Families : kea'[f] \in Configs[f]
  <2>1. CASE Settings!KeaChanges
    <3>1. PICK f \in Settings!Families : \E conf \in Configs[f] : kea' = [kea EXCEPT ![f] = conf]
      BY <2>1 DEF Settings!KeaChanges
    <3> QED
      BY <3>1, <1>2 DEF SettingsTypes, Settings!SettingsAssumption
  <2>2. CASE Settings!EditServerForm \/ Settings!EditRow \/ Settings!DeleteRow
    <3>1. kea' = kea
      BY <2>2 DEF Settings!EditServerForm, Settings!EditRow, Settings!DeleteRow
    <3> QED
      BY <3>1, <1>2 DEF SettingsTypes
  <2> QED
    BY <2>1, <2>2
<1>5. ASSUME NEW u \in Runs PROVE run'[u] \in SettingsRunners /\ SettingsMeOK(run'[u]) /\ SettingsAloneOK(u)'
  <2>1. run[u] \in SettingsRunners /\ run'[u] = [run[u] EXCEPT !.alone = FALSE]
    BY <1>1, <1>2 DEF Settings!Disturbed
  <2>2. /\ run'[u].pc = run[u].pc /\ run'[u].families = run[u].families /\ run'[u].todo = run[u].todo
           /\ run'[u].confs = run[u].confs
        /\ ~run'[u].alone /\ run'[u] \in SettingsRunners
    BY <2>1 DEF SettingsRunners
  <2>3. SettingsMeOK(run[u])
    BY DEF SettingsIInv
  <2> QED
    BY <2>2, <2>3 DEF SettingsMeOK, SettingsAloneOK
<1>6. SettingsTypes'
  BY <1>1, <1>3, <1>4, <1>5 DEF SettingsTypes, Settings!Disturbed
<1> QED
  BY <1>5, <1>6 DEF SettingsIInv

LEMMA SettingsStepIInv == Settings!SettingsAssumption /\ SettingsIInv /\ [Settings!Next]_Settings!vars => SettingsIInv'
<1> SUFFICES ASSUME Settings!SettingsAssumption, SettingsIInv, [Settings!Next]_Settings!vars PROVE SettingsIInv'
  OBVIOUS
<1>1. ASSUME NEW w \in Runs, Settings!Step(w) PROVE SettingsIInv'
  BY <1>1, SettingsStartStep, SettingsReadStep, SettingsWriteStep, SettingsStopStep, SettingsFinishStep DEF Settings!Step
<1>2. ASSUME UNCHANGED Settings!vars PROVE SettingsIInv'
  BY <1>2 DEF Settings!vars, Settings!rows, SettingsIInv, SettingsTypes, SettingsMeOK, SettingsAloneOK, SettingsParsedOK,
     SettingsGoing
<1> QED
  BY <1>1, <1>2, SettingsChangeStep DEF Settings!Next

LEMMA SettingsDoneShown == SettingsIInv => Settings!MirrorsWhenAlone /\ Settings!RowsShown
<1> SUFFICES ASSUME SettingsIInv, NEW w \in Settings!Undisturbed, NEW f \in Settings!ReadFamilies(w)
             PROVE  /\ SettingsMirrorsAt(server, row, f, run[w].confs[f], run[w].families, run[w].failed)
                    /\ SettingsRowsAt(options, custom, pools, f, run[w].confs[f], run[w].failed)
  BY DEF Settings!MirrorsWhenAlone, Settings!RowsShown, SettingsMirrorsAt, SettingsRowsAt, SettingsEffectiveAt,
     Settings!Effective, SettingsResolvedAt, Settings!Resolved, SettingsNewAt, Settings!NewDefinitions
<1>1. w \in Runs /\ run[w].pc = "done" /\ run[w].alone
  BY DEF Settings!Undisturbed
<1>2. f \in SettingsCommitted(run[w])
  BY <1>1 DEF Settings!ReadFamilies, SettingsCommitted
<1> QED
  BY <1>1, <1>2 DEF SettingsIInv, SettingsAloneOK, SettingsShownAt

\* After an import that nothing disturbed, each child that it wrote has, stored or inherited, the setting that Kea reports for it,
\* and the DHCPServer row has that of the primary family, also when some settings were refused (_apply_global_settings,
\* _inherited_settings_fields).
THEOREM ImportMirrors == ASSUME Settings!SettingsAssumption PROVE Settings!Spec => []Settings!MirrorsWhenAlone
  BY SettingsInitIInv, SettingsStepIInv, SettingsDoneShown, PTL DEF Settings!Spec

\* After such an import each option of a family that the DHCP plugin defines and accepts has one row, with the data that Kea
\* reports, and each Pool that could be claimed has its row (upsert_options, upsert_pools).
THEOREM ImportShowsRows == ASSUME Settings!SettingsAssumption PROVE Settings!Spec => []Settings!RowsShown
  BY SettingsInitIInv, SettingsStepIInv, SettingsDoneShown, PTL DEF Settings!Spec
==============================================================================
