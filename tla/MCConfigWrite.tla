---------------------------- MODULE MCConfigWrite ----------------------------
(***************************************************************************)
(* Small instances of ConfigWrite: the configurations, the requests and    *)
(* the administrator's commands of each run.                               *)
(***************************************************************************)
EXTENDS ConfigWriteAtomic, TLC

CONSTANTS a, b, n1, n2, w1, w2, p1, d1, v0, v1

\* A Subnet with the default values.
Plain(network, member) == [network |-> network, member |-> member, pools |-> {}, managed |-> v0, unshown |-> v0]

ConfigWith(subnets, nets) ==
    [subnets |-> [id \in Ids |-> IF id \in DOMAIN subnets THEN subnets[id] ELSE None],
     nets    |-> [name \in Names |-> IF name \in nets THEN v0 ELSE None],
     options |-> v0,
     defs    |-> {}]

Symmetry == Permutations(Ops)

NoBudget == [kind \in Disturbances |-> 0]

AddSubnet(id, network, shared) ==
    [kind |-> "add-subnet", id |-> id, network |-> network, shared |-> shared, pools |-> {}, managed |-> v1]
EditSubnet(id, shared, pools, managed) ==
    [kind |-> "edit-subnet", id |-> id, shared |-> shared, pools |-> pools, managed |-> managed]
DeleteSubnet(id) == [kind |-> "delete-subnet", id |-> id]
PoolRequest(kind, id) == [kind |-> kind, id |-> id, pool |-> p1]
SetSubnetOptions(id) == [kind |-> "set-subnet-options", id |-> id, managed |-> v0, unshown |-> v1]
SetServerOptions == [kind |-> "set-server-options", options |-> v1]
DefinitionRequest(kind) == [kind |-> kind, def |-> d1]
NetworkRequest(kind, name) == [kind |-> kind, name |-> name]
EditNetwork(name) == [kind |-> "edit-network", name |-> name, value |-> v1]

------------------------------------------------------------------------------
(* Moves: one Subnet between Shared Networks that can be deleted.           *)

MoveConfigs == {ConfigWith(<<Plain(w1, n1)>>, {n1, n2}), ConfigWith(<<Plain(w1, None)>>, {n1})}
MoveRequests ==
    {EditSubnet(1, n2, {}, v1), EditSubnet(1, None, {p1}, v1), NetworkRequest("delete-network", n2), DeleteSubnet(1)}
MoveAdmin ==
    {Leave(n1, 1), Join(n2, 1), NetworkDel(n1), SubnetDel(1), SubnetAdd(1, Plain(w2, None)), SubnetAdd(1, Plain(w1, None))}
MoveBudget == [NoBudget EXCEPT !["admin"] = 2, !["fault"] = 1]

------------------------------------------------------------------------------
(* Adds: two new Subnets and a delete compete for two Subnet IDs.           *)

AddConfigs == {ConfigWith(<<Plain(w1, None)>>, {n1}), ConfigWith([id \in {2} |-> Plain(w2, n1)], {n1})}
AddRequests == {AddSubnet(None, w1, n1), AddSubnet(None, w2, None), AddSubnet(1, w1, n1), DeleteSubnet(1)}
AddAdmin == {SubnetAdd(1, Plain(w2, None)), SubnetUpdate(1, Plain(w2, None)), SubnetDel(1), NetworkDel(n1)}
AddBudget == [NoBudget EXCEPT !["admin"] = 1, !["fault"] = 1, !["late"] = 1, !["restart"] = 1]

----------------------------------------------------------------------------------
(* Edits: read-modify-writes of the whole configuration, with a lost lock.  *)

EditConfigs == {[ConfigWith(<<Plain(w1, n1)>>, {n1}) EXCEPT !.defs = defs] : defs \in {{}, {d1}}}
EditRequests ==
    {SetSubnetOptions(1), SetServerOptions, DefinitionRequest("add-definition"), DefinitionRequest("delete-definition"),
     EditNetwork(n1), EditSubnet(1, n1, {p1}, v1)}
EditAdmin == {PoolAdd(1, w1, p1), NetworkDel(n1)}
EditBudget == [NoBudget EXCEPT !["admin"] = 1, !["fault"] = 1, !["lock-loss"] = 1]

------------------------------------------------------------------------------
(* Natives: single commands for Pools and Shared Networks beside an edit,   *)
(* with the unlocked persist of a Reservation mutation.                     *)

NativeConfigs == {ConfigWith(<<Plain(w1, n1)>>, {n1}), ConfigWith(<<[Plain(w1, n1) EXCEPT !.pools = {p1}]>>, {n1, n2})}
NativeRequests ==
    {NetworkRequest("add-network", n2), NetworkRequest("delete-network", n1), PoolRequest("add-pool", 1),
     PoolRequest("delete-pool", 1), SetSubnetOptions(1)}
NativeAdmin == {PoolAdd(1, w1, p1), SubnetDel(1), SubnetAdd(1, Plain(w2, None)), NetworkAdd(n1)}
NativeBudget == [NoBudget EXCEPT !["admin"] = 1, !["fault"] = 1, !["late"] = 1, !["other-persist"] = 1]

------------------------------------------------------------------------------
(* Atomic: every kind of request, with failures of Kea and of the network,  *)
(* and nothing outside NetBox that writes.                                   *)

AtomicConfigs == {ConfigWith(<<Plain(w1, n1)>>, {n1, n2}), ConfigWith(<<[Plain(w1, n1) EXCEPT !.pools = {p1}]>>, {n1})}
AtomicRequests ==
    {AddSubnet(None, w2, n2), EditSubnet(1, n2, {}, v1), EditSubnet(1, None, {p1}, v0), DeleteSubnet(1),
     PoolRequest("add-pool", 1), PoolRequest("delete-pool", 1), SetSubnetOptions(1), SetServerOptions,
     DefinitionRequest("add-definition"), EditNetwork(n1), NetworkRequest("add-network", n2),
     NetworkRequest("delete-network", n1)}
AtomicBudget == [NoBudget EXCEPT !["fault"] = 2]

------------------------------------------------------------------------------
(* Rollback: a change that adds a Subnet, and an administrator.             *)

RollbackConfigs == {ConfigWith(<<>>, {n1})}
RollbackRequests == {AddSubnet(1, w1, n1)}
RollbackAdmin == {PoolAdd(1, w1, p1), NetworkDel(n1)}
RollbackBudget == [NoBudget EXCEPT !["admin"] = 1, !["fault"] = 1]

\* Snapshot: a change that rolls back, the persist step of a Reservation mutation, and a restart.
SnapshotConfigs == {ConfigWith(<<Plain(w1, n1)>>, {n1, n2})}
SnapshotRequests == {EditSubnet(1, n2, {}, v1)}
SnapshotBudget == [NoBudget EXCEPT !["fault"] = 1, !["restart"] = 1, !["other-persist"] = 1]
==============================================================================
