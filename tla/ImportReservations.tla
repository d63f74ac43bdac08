-------------------------- MODULE ImportReservations --------------------------
(* The Reservation half of a DHCP-plugin import (views/dhcp_plugin_sync.py,   *)
(* integrations/dhcp_plugin.py) and the receipt of a whole import             *)
(* (ipam_reconciliation.py, complete_import_observation). Each enabled        *)
(* version is read in two commands and written in one transaction, among      *)
(* other imports. The settings of the rows are in ImportSettings, the claims  *)
(* of the addresses in IpamOwnership.                                         *)
EXTENDS Naturals, Sequences, FiniteSets

CONSTANTS
    Hosts,          \* the identities of Reservations, each in its scope
    FamilyOf, ScopeOf, IdentOf,     \* of each host: its family, its Subnet or Global, its identifier
    Subnets, FamilyOfSubnet,
    Curated,        \* the hosts whose address an operator keeps in NetBox: no import attaches it
    SubnetStates, HostStates,       \* SubnetStates[s], HostStates[h]: what Kea can report
    Legacy,         \* the Global rows that an earlier release imported
    Runs, MaxChanges, MaxFaults, MaxStarts,     \* bound the changes, the failures and the imports
    Global, None

Families == {4, 6}
Idents == {IdentOf[h] : h \in Hosts}
\* A row is named for what created it: a host, or an identifier for a Global
\* row of an earlier release, which serves both families.
Pks == Hosts \union Idents

\* What the constants are.
ReservationsAssumption ==
    /\ FamilyOf \in [Hosts -> Families] /\ ScopeOf \in [Hosts -> Subnets \union {Global}]
    /\ FamilyOfSubnet \in [Subnets -> Families] /\ Curated \subseteq Hosts
    /\ SubnetStates \in [Subnets -> SUBSET {"absent", "good", "bad"}]
    /\ HostStates \in [Hosts -> SUBSET {None, "plain", "prefix", "bad"}]
    /\ None \notin {"plain", "prefix", "bad"} \union Hosts /\ Hosts \intersect Idents = {}
    /\ Legacy \subseteq Idents /\ {MaxChanges, MaxFaults, MaxStarts} \subseteq Nat
    /\ \A g, h \in Hosts : ScopeOf[g] = ScopeOf[h] /\ IdentOf[g] = IdentOf[h] /\ FamilyOf[g] = FamilyOf[h] => g = h

VARIABLES
    subnet, host,   \* Kea: the Subnets and Reservations, "good" or "plain" or "prefix", "bad" when malformed
    enabled,        \* the families that the Server imports, none when it does not import
    linked,         \* the Subnets with a row and a link
    row,            \* the rows of Reservations: the host that is linked and the families whose addresses it holds
    pd,             \* the ownership links of delegated Prefixes
    run,            \* the imports
    known,          \* the delegated Prefixes that Kea has kept since before they were confirmed
    budget

vars == <<subnet, host, enabled, linked, row, pd, run, known, budget>>

----------------------------------------------------------------------------
(* One Reservation and its row.                                            *)

\* A row that no link claims.
Unlinked(i) == row[i] # None /\ row[i].link = None
\* The row of the link, else one of an earlier release, else a new row.
Target(h) ==
    LET own == {p \in Pks : row[p] # None /\ row[p].link = h}
    IN  IF own # {} THEN CHOOSE p \in own : TRUE
        ELSE IF ScopeOf[h] = Global /\ Unlinked(IdentOf[h]) THEN IdentOf[h] ELSE h

\* A row holds the addresses of one family.
Holds(h) == IF h \in Curated THEN {} ELSE {FamilyOf[h]}
Upserted(hosts) ==
    [p \in Pks |-> IF \E h \in hosts : Target(h) = p
                   THEN LET h == CHOOSE x \in hosts : Target(x) = p IN [link |-> h, holds |-> Holds(h)]
                   ELSE row[p]]

----------------------------------------------------------------------------
(* What one version of an import writes: conf and snap are what Kea         *)
(* reported, failing are the Subnets and hosts whose write fails, and Global *)
(* when the whole phase of the delegated Prefixes fails.                    *)

Readable(snap) == {h \in DOMAIN snap.hosts : snap.hosts[h] \in {"plain", "prefix"}}
LinkedAfter(conf, failing) == linked \union {s \in DOMAIN conf : conf[s] = "good" /\ s \notin failing}
\* A Reservation whose Subnet has no row is left out.
Skipped(conf, snap, failing) ==
    {h \in Readable(snap) : ScopeOf[h] # Global /\ ScopeOf[h] \notin LinkedAfter(conf, failing)}
Imported(conf, snap, failing) == Readable(snap) \ (Skipped(conf, snap, failing) \union failing)

\* Mutant: a Reservation that was left out does not matter.
ReadWhole(conf, snap, failing) == ~snap.truncated
\* The phase of the delegated Prefixes is complete when nothing was left out.
Complete(conf, snap, failing) ==
    ~snap.truncated /\ {h \in DOMAIN snap.hosts : snap.hosts[h] # None} = Imported(conf, snap, failing)

Confirmed(conf, snap, failing) == {h \in Imported(conf, snap, failing) : snap.hosts[h] = "prefix"}
\* A link is stale when no import confirmed it since the cutoff.
Unconfirmed(w, snap) == DOMAIN snap.hosts \ run[w].fresh
Retired(w, conf, snap, failing) ==
    IF Complete(conf, snap, failing) THEN Unconfirmed(w, snap) \ Confirmed(conf, snap, failing) ELSE {}

\* Mutant: a malformed Subnet does not matter.
CleanWithout(conf, snap, failing) == failing = {} /\ Complete(conf, snap, failing)
\* The report that the receipt asks for.
Clean(conf, snap, failing) ==
    failing = {} /\ "bad" \notin {conf[s] : s \in DOMAIN conf} /\ Complete(conf, snap, failing)

----------------------------------------------------------------------------
(* The imports.                                                            *)

SubnetsOf(f) == {s \in Subnets : FamilyOfSubnet[s] = f}
HostsOf(f) == {h \in Hosts : FamilyOf[h] = f}
Nothing == [h \in {} |-> None]
Unread == [hosts |-> Nothing, truncated |-> TRUE]
Idle == [pc |-> "idle", todo |-> <<>>, conf |-> Nothing, snap |-> Unread, fresh |-> {}, stable |-> {},
         clean |-> {}, failed |-> FALSE, imported |-> {}]

Init ==
    /\ subnet \in {x \in [Subnets -> {"absent", "good", "bad"}] : \A s \in Subnets : x[s] \in SubnetStates[s]}
    /\ host \in {x \in [Hosts -> {None, "plain", "prefix", "bad"}] : \A h \in Hosts : x[h] \in HostStates[h]}
    /\ enabled \in (SUBSET Families) \ {{}} /\ linked = {} /\ pd = {} /\ known = {}
    /\ row = [p \in Pks |-> IF p \in Legacy THEN [link |-> None, holds |-> Families] ELSE None]
    /\ run = [w \in Runs |-> Idle]
    /\ budget = [changes |-> MaxChanges, faults |-> MaxFaults, starts |-> MaxStarts]

Spend(what) == budget[what] > 0 /\ budget' = [budget EXCEPT ![what] = @ - 1]
Kea == <<subnet, host, enabled>>
Rows == <<linked, row, pd, known>>

\* DHCPv4 comes first.
Versions(families) == (IF 4 \in families THEN <<4>> ELSE <<>>) \o (IF 6 \in families THEN <<6>> ELSE <<>>)

Start(w) ==
    /\ run[w].pc \in {"idle", "published"} /\ Spend("starts")
    /\ run' = [run EXCEPT ![w] = [Idle EXCEPT !.pc = "next", !.stable = Hosts \union Subnets,
                                  !.todo = Versions(enabled)]]
    /\ UNCHANGED <<Kea, Rows>>

\* A version whose configuration cannot be read is left out.
ReadConfig(w) ==
    /\ run[w].pc = "next" /\ run[w].todo # <<>>
    /\ LET f == Head(run[w].todo)
       IN  \/ /\ run' = [run EXCEPT ![w].pc = "cutoff", ![w].conf = [s \in SubnetsOf(f) |-> subnet[s]]]
              /\ UNCHANGED budget
           \/ Spend("faults") /\ run' = [run EXCEPT ![w].todo = Tail(@)]
    /\ UNCHANGED <<Kea, Rows>>

TakeCutoff(w) ==
    /\ run[w].pc = "cutoff" /\ run' = [run EXCEPT ![w].pc = "hosts", ![w].fresh = {}]
    /\ UNCHANGED <<Kea, Rows, budget>>

\* All Reservations, those before a page that failed, or none.
ReadHosts(w) ==
    /\ run[w].pc = "hosts"
    /\ LET all == [h \in HostsOf(Head(run[w].todo)) |-> host[h]]
       IN  \/ /\ run' = [run EXCEPT ![w].pc = "write", ![w].snap = [hosts |-> all, truncated |-> FALSE]]
              /\ UNCHANGED budget
           \/ /\ Spend("faults")
              /\ \E kept \in SUBSET DOMAIN all : run' = [run EXCEPT ![w].pc = "write",
                    ![w].snap = [hosts |-> [h \in DOMAIN all |-> IF h \in kept THEN all[h] ELSE None], truncated |-> TRUE]]
           \/ Spend("faults") /\ run' = [run EXCEPT ![w].pc = "write", ![w].snap = Unread]
    /\ UNCHANGED <<Kea, Rows>>

\* One transaction under the key of the mappings.
Commit(w, failing) ==
    LET conf == run[w].conf
        snap == run[w].snap
        sure == IF Global \in failing THEN {} ELSE Confirmed(conf, snap, failing)
        gone == IF Global \in failing THEN {} ELSE Retired(w, conf, snap, failing)
        f == Head(run[w].todo)
    IN  /\ linked' = LinkedAfter(conf, failing) /\ row' = Upserted(Imported(conf, snap, failing))
        /\ pd' = (pd \ gone) \union sure
        /\ known' = known \union {h \in sure \intersect run[w].stable : host[h] = "prefix"}
        /\ run' = [u \in Runs |->
              IF u # w THEN [run[u] EXCEPT !.fresh = @ \union sure]
              ELSE [run[w] EXCEPT !.pc = "next", !.todo = Tail(@), !.conf = Nothing, !.snap = Unread, !.fresh = {},
                       !.imported = @ \union Imported(conf, snap, failing) \union (LinkedAfter(conf, failing) \intersect SubnetsOf(f)),
                       !.clean = IF Clean(conf, snap, failing) THEN @ \union {f} ELSE @,
                       !.failed = @ \/ ~Clean(conf, snap, failing)]]

Write(w) ==
    /\ run[w].pc = "write"
    /\ \E failing \in {{}} \union {{x} : x \in DOMAIN run[w].conf \union Readable(run[w].snap) \union {Global}} :
          /\ IF failing = {} THEN UNCHANGED budget ELSE Spend("faults")
          /\ Commit(w, failing)
    /\ UNCHANGED Kea

\* A busy key or a lost reference undoes the transaction and ends the import.
Stop(w) ==
    /\ run[w].pc = "write" /\ Spend("faults") /\ run' = [run EXCEPT ![w] = Idle]
    /\ UNCHANGED <<Kea, Rows>>

\* Every version that the Server imports now was read.
Covers(w) == enabled # {} /\ enabled \subseteq run[w].clean
Publish(w) ==
    /\ run[w].pc = "next" /\ run[w].todo = <<>>
    /\ run' = IF ~run[w].failed /\ run[w].clean # {} /\ Covers(w)
              THEN [run EXCEPT ![w].pc = "published"] ELSE [run EXCEPT ![w] = Idle]
    /\ UNCHANGED <<Kea, Rows, budget>>

----------------------------------------------------------------------------
(* Kea and the operators.                                                  *)

Touched(x) == run' = [w \in Runs |-> [run[w] EXCEPT !.stable = @ \ {x}]]
HostChanges == \E h \in Hosts : \E s \in HostStates[h] :
    /\ s # host[h] /\ Spend("changes") /\ host' = [host EXCEPT ![h] = s] /\ known' = known \ {h} /\ Touched(h)
    /\ UNCHANGED <<subnet, enabled, linked, row, pd>>
SubnetChanges == \E s \in Subnets : \E x \in SubnetStates[s] :
    /\ x # subnet[s] /\ Spend("changes") /\ subnet' = [subnet EXCEPT ![s] = x] /\ Touched(s)
    /\ UNCHANGED <<host, enabled, Rows>>
EditServer == \E families \in SUBSET Families :
    /\ families # enabled /\ Spend("changes") /\ enabled' = families
    /\ UNCHANGED <<subnet, host, Rows, run>>
\* The deletion of a row takes its link.
DeleteRow == \E p \in Pks :
    /\ row[p] # None /\ Spend("changes") /\ row' = [row EXCEPT ![p] = None]
    /\ UNCHANGED <<Kea, linked, pd, known, run>>

Step(w) == Start(w) \/ ReadConfig(w) \/ TakeCutoff(w) \/ ReadHosts(w) \/ Write(w) \/ Stop(w) \/ Publish(w)
Next == (\E w \in Runs : Step(w)) \/ HostChanges \/ SubnetChanges \/ EditServer \/ DeleteRow
Spec == Init /\ [][Next]_vars

----------------------------------------------------------------------------
(* Properties.                                                             *)

\* No import takes a row from the Reservation that is linked to it: a Global
\* Reservation of the other family with the same identifier gets its own row
\* (_unlinked).
KeepsRows == \A p \in Pks : row[p] # None /\ row'[p] # None => row[p].link \in {None, row'[p].link}

\* A delegated Prefix that an import confirmed keeps its ownership link for as
\* long as Kea keeps it: neither an import that read older Reservations, nor
\* one that left a Reservation out, retires it (DelegatedPrefixPhase).
PrefixKept == known \subseteq pd

\* An import publishes its receipt only when every Subnet and Reservation that
\* Kea kept throughout it, in every family that the Server imports, was readable
\* and was imported (complete_import_observation).
PublishesWhole == \A w \in Runs : run[w].pc = "next" /\ run'[w].pc = "published" =>
    /\ enabled # {}
    /\ \A h \in run[w].stable \intersect Hosts : FamilyOf[h] \in enabled /\ host[h] # None => h \in run[w].imported
    /\ \A s \in run[w].stable \intersect Subnets :
          FamilyOfSubnet[s] \in enabled => subnet[s] # "bad" /\ (subnet[s] = "good" => s \in run[w].imported)
=============================================================================
