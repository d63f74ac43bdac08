------------------------------ MODULE KeaConfig ------------------------------
(***************************************************************************)
(* The configuration of one Kea daemon for one address family, and what    *)
(* the daemon does with the commands that KeaClient sends.  The daemon is  *)
(* external: Accepts and Result state what src/netbox_kea/kea.py and       *)
(* src/netbox_kea/config_write.py rely on.                                 *)
(*                                                                         *)
(* A Subnet keeps its network (the CIDR), its Shared Network (member), its *)
(* Pools, the DHCP Option values that the edit form shows (managed) and    *)
(* the other DHCP Option values, which only the options form shows         *)
(* (unshown).                                                              *)
(***************************************************************************)
EXTENDS SubnetIds

CONSTANTS
    Networks,     \* the CIDRs
    Names,        \* the names of the Shared Networks
    Pools,        \* the Pool ranges
    Definitions,  \* the Option Definitions
    Values,       \* the values of a field
    Empty,        \* the value of a field that a new object leaves out
    None          \* no Subnet, no Shared Network, nobody

Subnet == [network : Networks, member : Names \cup {None}, pools : SUBSET Pools,
           managed : Values, unshown : Values]

Config == [subnets : [Ids -> Subnet \cup {None}],
           nets    : [Names -> Values \cup {None}],
           options : Values,
           defs    : SUBSET Definitions]

ASSUME ConfigAssumption ==
    /\ Empty \in Values
    /\ None \notin Names \cup Values \cup Networks /\ None \notin Subnet \cup Config
    /\ \A pools \in SUBSET Pools : pools # None

Present(c, id) == c.subnets[id] # None
HasNetwork(c, name) == c.nets[name] # None

\* The Subnet that subnet{v}-get returns: its definition, without the membership.
Definition(subnet) == [subnet EXCEPT !.member = None]

\* id names the network and has the membership, as a fresh subnet{v}-list read shows it.
MemberOf(c, id, network, member) ==
    /\ Present(c, id)
    /\ c.subnets[id].network = network
    /\ c.subnets[id].member = member

------------------------------------------------------------------------------
(* The commands.  Each one is a record: `do` names the command.            *)

SubnetAdd(id, subnet)      == [do |-> "subnet-add", id |-> id, subnet |-> subnet]
SubnetDel(id)              == [do |-> "subnet-del", id |-> id]
SubnetUpdate(id, subnet)   == [do |-> "subnet-update", id |-> id, subnet |-> subnet]
Join(name, id)             == [do |-> "network-subnet-add", name |-> name, id |-> id]
Leave(name, id)            == [do |-> "network-subnet-del", name |-> name, id |-> id]
NetworkAdd(name)           == [do |-> "network-add", name |-> name]
NetworkDel(name)           == [do |-> "network-del", name |-> name]
PoolAdd(id, network, pool) == [do |-> "delta-add", id |-> id, network |-> network, pool |-> pool]
PoolDel(id, network, pool) == [do |-> "delta-del", id |-> id, network |-> network, pool |-> pool]
ConfigSet(config)          == [do |-> "config-set", config |-> config]

Commands ==
    [do : {"subnet-add", "subnet-update"}, id : Ids, subnet : Subnet]
    \cup [do : {"subnet-del"}, id : Ids]
    \cup [do : {"network-subnet-add", "network-subnet-del"}, name : Names, id : Ids]
    \cup [do : {"network-add", "network-del"}, name : Names]
    \cup [do : {"delta-add", "delta-del"}, id : Ids, network : Networks, pool : Pools]
    \cup [do : {"config-set"}, config : Config]

\* The configurations that config-test refuses: here a Subnet in a Shared Network that is not declared.
Sound(c) == \A id \in Ids : Present(c, id) /\ c.subnets[id].member # None => HasNetwork(c, c.subnets[id].member)

Accepts(c, cmd) ==
    CASE cmd.do = "subnet-add" ->
            /\ ~Present(c, cmd.id)
            /\ \A id \in Ids : Present(c, id) => c.subnets[id].network # cmd.subnet.network
      [] cmd.do = "subnet-del" -> Present(c, cmd.id)
      [] cmd.do = "subnet-update" -> Present(c, cmd.id)
      [] cmd.do = "network-subnet-add" -> Present(c, cmd.id) /\ HasNetwork(c, cmd.name)
      [] cmd.do = "network-subnet-del" -> Present(c, cmd.id) /\ c.subnets[cmd.id].member = cmd.name
      [] cmd.do = "network-add" -> ~HasNetwork(c, cmd.name)
      [] cmd.do = "network-del" -> HasNetwork(c, cmd.name)
      [] cmd.do = "delta-add" ->
            Present(c, cmd.id) /\ c.subnets[cmd.id].network = cmd.network /\ cmd.pool \notin c.subnets[cmd.id].pools
      [] cmd.do = "delta-del" ->
            Present(c, cmd.id) /\ c.subnets[cmd.id].network = cmd.network /\ cmd.pool \in c.subnets[cmd.id].pools
      [] cmd.do = "config-set" -> Sound(cmd.config)

\* The configuration after the daemon ran an accepted command.
Result(c, cmd) ==
    CASE cmd.do = "subnet-add" -> [c EXCEPT !.subnets[cmd.id] = cmd.subnet]
      [] cmd.do = "subnet-del" -> [c EXCEPT !.subnets[cmd.id] = None]
      [] cmd.do = "subnet-update" ->
            [c EXCEPT !.subnets[cmd.id] = [cmd.subnet EXCEPT !.member = c.subnets[cmd.id].member]]
      [] cmd.do = "network-subnet-add" -> [c EXCEPT !.subnets[cmd.id].member = cmd.name]
      [] cmd.do = "network-subnet-del" -> [c EXCEPT !.subnets[cmd.id].member = None]
      [] cmd.do = "network-add" -> [c EXCEPT !.nets[cmd.name] = Empty]
      [] cmd.do = "network-del" ->  \* the member Subnets stay, outside all Shared Networks
            [c EXCEPT !.nets[cmd.name] = None,
                      !.subnets = [id \in Ids |->
                          IF Present(c, id) /\ c.subnets[id].member = cmd.name
                          THEN [c.subnets[id] EXCEPT !.member = None]
                          ELSE c.subnets[id]]]
      [] cmd.do = "delta-add" -> [c EXCEPT !.subnets[cmd.id].pools = @ \cup {cmd.pool}]
      [] cmd.do = "delta-del" -> [c EXCEPT !.subnets[cmd.id].pools = @ \ {cmd.pool}]
      [] cmd.do = "config-set" -> cmd.config

------------------------------------------------------------------------------
(* The parts of a configuration that are written and compared on their own. *)

Fields == {"network", "member", "pools", "managed", "unshown"}
Parts  == (Fields \X Ids) \cup ({"net"} \X Names) \cup ({"server"} \X {"options", "defs"})

Part(c, p) ==
    CASE p[1] = "net" -> c.nets[p[2]]
      [] p[1] = "server" -> c[p[2]]
      [] OTHER -> IF Present(c, p[2]) THEN c.subnets[p[2]][p[1]] ELSE None
==============================================================================
