------------------------------ MODULE SubnetIds ------------------------------
(***************************************************************************)
(* The Kea Subnet IDs, and the ID that NetBox allocates for a new Subnet.  *)
(***************************************************************************)
EXTENDS Integers

CONSTANT MaxId  \* the highest Subnet ID (MAX_SUBNET_ID)

ASSUME MaxIdAssumption == MaxId \in Nat \ {0}

Ids == 1..MaxId

\* Mutant: no bound on the ID above every used one.
UnboundedIds(used) == {id + 1 : id \in {i \in used \cup {0} : \A other \in used : other <= i}}

\* The ID above every used one, or else the lowest free one: a set with at most one ID.
AllocatedIds(used) ==
    LET above == {id \in Ids : \A other \in used : other < id}
        pool  == IF above # {} THEN above ELSE Ids \ used
    IN  {id \in pool : \A other \in pool : id <= other}
==============================================================================
