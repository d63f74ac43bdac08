---------------------------- MODULE ConfigChange -----------------------------
(***************************************************************************)
(* What config_write promises (ADR 0005 and CONTEXT.md): a Configuration   *)
(* Change is applied, rejected or unconfirmed as a whole.  Each change     *)
(* takes effect in one step, whatever number of Kea commands it sends:     *)
(* ConfigWrite implements this while nothing outside NetBox disturbs it.   *)
(***************************************************************************)
EXTENDS KeaConfig

CONSTANTS Ops, Requests, InitialConfigs

VARIABLES
    config,  \* the configuration, with each change that ended and nothing of the others
    disk,    \* the configuration that survives a restart of Kea
    request, \* what each change does
    result   \* its application and persistence

vars == <<config, disk, request, result>>

Pending == [application |-> None, persistence |-> "not-requested"]

\* The Subnet id with the new values, and everything else as in c.
WithSubnet(c, id, subnet) == [c EXCEPT !.subnets[id] = subnet]

\* The configurations that r asks for when Kea has c.
Intended(r, c) ==
    CASE r.kind = "add-subnet" ->
            {WithSubnet(c, id, [network |-> r.network, member |-> r.shared, pools |-> r.pools,
                                managed |-> r.managed, unshown |-> Empty]) :
                id \in {i \in Ids : ~Present(c, i) /\ r.id \in {i, None}}}
      [] r.kind = "edit-subnet" ->
            {WithSubnet(c, r.id, [c.subnets[r.id] EXCEPT !.member = r.shared, !.pools = r.pools, !.managed = r.managed])}
      [] r.kind = "delete-subnet" -> {WithSubnet(c, r.id, None)}
      [] r.kind = "add-pool" -> {[c EXCEPT !.subnets[r.id].pools = @ \cup {r.pool}]}
      [] r.kind = "delete-pool" -> {[c EXCEPT !.subnets[r.id].pools = @ \ {r.pool}]}
      [] r.kind = "set-subnet-options" ->
            {[c EXCEPT !.subnets[r.id].managed = r.managed, !.subnets[r.id].unshown = r.unshown]}
      [] r.kind = "set-server-options" -> {[c EXCEPT !.options = r.options]}
      [] r.kind = "add-definition" -> {[c EXCEPT !.defs = @ \cup {r.def}]}
      [] r.kind = "delete-definition" -> {[c EXCEPT !.defs = @ \ {r.def}]}
      [] r.kind = "edit-network" -> {[c EXCEPT !.nets[r.name] = r.value]}
      [] r.kind = "add-network" -> {[c EXCEPT !.nets[r.name] = Empty]}
      [] r.kind = "delete-network" ->
            {[c EXCEPT !.nets[r.name] = None,
                       !.subnets = [id \in Ids |->
                            IF MemberOf(c, id, Part(c, <<"network", id>>), r.name)
                            THEN [c.subnets[id] EXCEPT !.member = None] ELSE c.subnets[id]]]}

\* Some steps of the change took effect: each part has its old value or the one that r asks for. A Subnet can be left
\* outside all Shared Networks.
Partly(r, old, new) ==
    \E goal \in Intended(r, old) \cup {old} : \A p \in Parts :
        Part(new, p) \in {Part(old, p), Part(goal, p)} \cup (IF p[1] = "member" THEN {None} ELSE {})

Init ==
    /\ config \in InitialConfigs
    /\ disk = config
    /\ request = [op \in Ops |-> None]
    /\ result = [op \in Ops |-> Pending]

Ask(op) ==
    /\ request[op] = None
    /\ \E r \in Requests : request' = [request EXCEPT ![op] = r]
    /\ UNCHANGED <<config, disk, result>>

End(op, application, persistence) ==
    /\ request[op] # None /\ result[op] = Pending
    /\ result' = [result EXCEPT ![op] = [application |-> application, persistence |-> persistence]]
    /\ UNCHANGED request

Reject(op) == End(op, "rejected", "not-requested") /\ UNCHANGED <<config, disk>>

\* A persisted change is on disk. A failed persist step can have written the disk copy.
Saved(persistence) ==
    CASE persistence = "persisted" -> disk' = config'
      [] persistence = "failed" -> disk' \in {disk, config'}
      [] persistence = "not-requested" -> disk' = disk

Finish(op) ==
    \E persistence \in {"persisted", "failed", "not-requested"} :
        /\ \/ End(op, "applied", persistence) /\ config' \in Intended(request[op], config)
           \/ End(op, "unknown", persistence) /\ Partly(request[op], config, config')
        /\ Saved(persistence)

Next == \E op \in Ops : Ask(op) \/ Reject(op) \/ Finish(op)

Spec == Init /\ [][Next]_vars
==============================================================================
