-------------------------- MODULE MCSubnetCatalogue --------------------------
(***************************************************************************)
(* Small instances of SubnetCatalogue: the Subnets of Kea, the changes and *)
(* the administrator's writes of each run.                                 *)
(***************************************************************************)
EXTENDS SubnetCatalogue, TLC

CONSTANTS n1, w1, w2, d1, d2, c1, c2

In(network, member) == [network |-> network, member |-> member]
Has(first, second) == <<first, second>>
Sets(id, subnet) == [id |-> id, subnet |-> subnet]

Symmetry == Permutations(Displays)

NoBudget == [kind \in Disturbances |-> 0]

------------------------------------------------------------------------------
(* Pages: two pages, and two changes of the Subnets that they show.        *)

PageSubnets == {Has(In(w1, None), None)}
PageEffects == (c1 :> Sets(1, In(w1, n1))) @@ (c2 :> Sets(2, In(w1, None)))
PageAdmin == {Sets(2, In(w2, None))}
PageBudget == [NoBudget EXCEPT !["fault"] = 1]

------------------------------------------------------------------------------
(* Scopes: a new Subnet is prepared, and a synchronization run starts,     *)
(* while the Subnets change their IDs, networks and Shared Networks.       *)

ScopeSubnets == {Has(In(w1, None), None), Has(In(w1, None), In(w2, n1))}
ScopeEffects == (c1 :> Sets(1, None)) @@ (c2 :> Sets(2, In(w1, None)))
ScopeAdmin == {Sets(2, In(w1, n1)), Sets(1, In(w2, None)), Sets(2, None)}
ScopeBudget == [NoBudget EXCEPT !["admin"] = 1, !["fault"] = 1, !["late"] = 1, !["cache"] = 1]

\* Stale: one invalidation fails, the first or the second of the change.
StaleEffects == c1 :> Sets(1, None)
StaleBudget == [NoBudget EXCEPT !["cache"] = 1]
==============================================================================
