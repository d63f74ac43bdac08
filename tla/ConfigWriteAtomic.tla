-------------------------- MODULE ConfigWriteAtomic --------------------------
(***************************************************************************)
(* ConfigWrite implements ConfigChange: under the lock, the steps of a     *)
(* change, its rollback and its persist step are one step of the abstract  *)
(* specification, the one that ends the operation.                         *)
(***************************************************************************)
EXTENDS ConfigWrite

\* The configuration without the unfinished change under the lock.
Committed == IF lock = None THEN running ELSE local[lock].base

Change == INSTANCE ConfigChange WITH
    config  <- Committed,
    request <- req,
    result  <- [op \in Ops |-> IF pc[op] = "done" THEN outcome[op] ELSE Unfinished]

\* Kea and the network fail, but nothing outside the lock writes, and the lock is not lost.
OnlyFaults == \A kind \in Disturbances \ {"fault"} : budget'[kind] = budget[kind]
AtomicSpec == Init /\ [][Next /\ OnlyFaults]_vars

\* Every Configuration Change is applied, rejected or unconfirmed as a whole.
AppliedAsAWhole == Change!Spec
==============================================================================
