---------------------------- MODULE ImportSettings ----------------------------
(* The configuration half of a DHCP-plugin import (views/dhcp_plugin_sync.py, *)
(* mappers/kea_to_dhcp.py, integrations/dhcp_plugin.py): each enabled version *)
(* is read and written in turn into one DHCPServer row for both versions, the *)
(* rows of Subnets and client classes, their options and their Pools.         *)
(* Reservations are in ImportReservations, the key that serializes the writes *)
(* in MetadataScope.                                                          *)
EXTENDS Naturals, Sequences, FiniteSets

CONSTANTS
    Configs,        \* Configs[f]: the configurations that Kea can report for family f
    Ids,            \* the Subnets and client classes of a family
    Values,         \* of the one modelled setting
    Spaces, Codes, Data, Ranges,
    Standard,       \* the <<space, code>> that the DHCP plugin defines
    Refused,        \* option data that the DHCP plugin refuses
    Runs,
    MaxChanges, MaxFaults, MaxStarts,   \* bound the changes, the failures and the imports
    DHCPServer, None

Families == {4, 6}
Children == Families \X Ids

OptionData == [space : Spaces, code : Codes, data : Data]
Definitions == Spaces \X Codes
Child ==
    [id : Ids, ok : BOOLEAN, value : Values \union {None}, options : SUBSET OptionData, pools : SUBSET Ranges]
Configuration ==
    [broken : BOOLEAN, value : Values \union {None}, options : SUBSET OptionData, defs : SUBSET Definitions,
     children : SUBSET Child]
\* As an import keeps it.
ParsedConfiguration ==
    [value : Values \union {None}, options : SUBSET OptionData, defs : SUBSET Definitions, children : SUBSET Child]

\* The spaces 4 and 6 are those of the families: Kea uses one only for its family.
InSpaces(f, opts) == \A o \in opts : o.space \notin Families \ {f}
\* Kea has an option once in each place.
Distinct(opts) == \A o, p \in opts : o.space = p.space /\ o.code = p.code => o = p

\* What Kea can report: each Subnet and client class once.
ConfigOK(f, conf) ==
    /\ InSpaces(f, conf.options) /\ Distinct(conf.options)
    /\ \A d \in conf.defs : d[1] \notin Families \ {f}
    /\ \A c \in conf.children : InSpaces(f, c.options) /\ Distinct(c.options)
    /\ \A c, d \in conf.children : c.ok /\ d.ok /\ c.id = d.id => c = d

\* What the constants are.
SettingsAssumption ==
    /\ Families \subseteq Spaces /\ Standard \subseteq Definitions /\ Refused \subseteq Data
    /\ {MaxChanges, MaxFaults, MaxStarts} \subseteq Nat
    /\ \A f \in Families : Configs[f] \subseteq Configuration /\ \A conf \in Configs[f] : ConfigOK(f, conf)
    /\ DHCPServer \notin Children
    /\ None \notin [value : Values \union {None}]
    /\ None \notin ParsedConfiguration

VARIABLES
    kea,            \* Kea: the configuration of each family
    enabled,        \* dhcp4 and dhcp6 of the Server
    server,         \* the setting of the DHCPServer row, None when it is not set
    row,            \* the rows of the children
    options, custom, pools,     \* the rows of options, of custom definitions and of Pools
    run,            \* the imports
    budget

rows == <<server, row, options, custom, pools>>
vars == <<kea, enabled, rows, run, budget>>

Options == [at : Children \union {DHCPServer}, space : Spaces, code : Codes, data : Data]
\* A row with its own setting, None when it inherits that of the DHCPServer.
Row(value) == [value |-> value]

----------------------------------------------------------------------------
(* The configuration as the import uses it.                                *)

\* Malformed entries are dropped, those that are not are kept.
Parsed(conf) ==
    [value |-> conf.value, options |-> conf.options, defs |-> conf.defs,
     children |-> {c \in conf.children : c.ok}]

\* A malformed container or a failed command: the version is left out.
Unreadable(conf) == conf.broken

----------------------------------------------------------------------------
(* What one import of a family writes. Items of failing are those whose     *)
(* write the database refuses, or whose network cannot be claimed.          *)

\* DHCPv4, or the only family.
Primary(f, families) == f = 4 \/ 4 \notin families

\* The primary family mirrors its setting, the other one fills a gap. After a
\* failed save the children compare themselves with the stored setting.
ServerValue(f, conf, families, failing) ==
    IF conf.value # None /\ DHCPServer \notin failing /\ (Primary(f, families) \/ server = None)
    THEN conf.value ELSE server

\* Mutant: the children compare themselves with the setting that was not saved.
DiffedUnsaved(f, conf, families, failing) == ServerValue(f, conf, families, {})
\* What the children compare themselves with.
Diffed(f, conf, families, failing) == ServerValue(f, conf, families, failing)

\* A child stores a setting that differs from that of the DHCPServer.
Override(value, parent) == IF value # parent THEN value ELSE None

Written(f, conf, failing) == {c \in conf.children : <<f, c.id>> \notin failing}
Named(f, conf, id) == CHOOSE c \in conf.children : c.id = id
WrittenRows(f, conf, families, failing) ==
    [k \in Children |->
        IF k[1] = f /\ \E c \in Written(f, conf, failing) : c.id = k[2]
        THEN Row(Override(Named(f, conf, k[2]).value, Diffed(f, conf, families, failing)))
        ELSE row[k]]

\* The options of the rows that were written.
Reported(f, conf, failing) ==
    {[at |-> DHCPServer, space |-> o.space, code |-> o.code, data |-> o.data] : o \in conf.options}
    \union UNION {{[at |-> <<f, c.id>>, space |-> o.space, code |-> o.code, data |-> o.data] : o \in c.options} :
                  c \in Written(f, conf, failing)}

Key(o) == <<o.space, o.code>>
\* A definition of the configuration becomes a row when an option needs it.
NewDefinitions(f, conf, failing) ==
    {d \in conf.defs \ (Standard \union custom \union failing) : \E o \in Reported(f, conf, failing) : Key(o) = d}
Resolved(f, conf, failing) ==
    {o \in Reported(f, conf, failing) :
        Key(o) \in Standard \union custom \union NewDefinitions(f, conf, failing) /\ o.data \notin Refused}

\* One row for each definition of a parent.
SameOption(o, p) == o.at = p.at /\ Key(o) = Key(p)
Replaced(new) == {o \in options : \E n \in new : SameOption(o, n)}

WrittenPools(f, conf, failing) ==
    UNION {{<<<<f, c.id>>, r>> : r \in {x \in c.pools : <<f, x>> \notin failing}} : c \in Written(f, conf, failing)}

WithPools(f, conf, failing) == pools \union WrittenPools(f, conf, failing)

\* What the database or a claim can refuse.
Items(f, conf) ==
    {DHCPServer} \union {<<f, c.id>> : c \in conf.children} \union conf.defs
    \union {<<f, r>> : r \in UNION {c.pools : c \in conf.children}}

----------------------------------------------------------------------------
(* The imports.                                                            *)

Idle == [pc |-> "idle", families |-> {}, todo |-> <<>>, confs |-> [f \in Families |-> None], failed |-> {}, alone |-> FALSE]
Init ==
    /\ kea \in {k \in [Families -> UNION {Configs[f] : f \in Families}] : \A f \in Families : k[f] \in Configs[f]}
    /\ enabled \in (SUBSET Families) \ {{}}
    /\ server = None /\ row = [k \in Children |-> None] /\ options = {} /\ custom = {} /\ pools = {}
    /\ run = [w \in Runs |-> Idle]
    /\ budget = [changes |-> MaxChanges, faults |-> MaxFaults, starts |-> MaxStarts]

Spend(what) == budget[what] > 0 /\ budget' = [budget EXCEPT ![what] = @ - 1]
Active(w) == run[w].pc \in {"next", "write"}
Disturbed(runs) == [w \in Runs |-> [runs[w] EXCEPT !.alone = FALSE]]

\* DHCPv4 comes first.
Versions(families) == (IF 4 \in families THEN <<4>> ELSE <<>>) \o (IF 6 \in families THEN <<6>> ELSE <<>>)

Start(w) ==
    /\ ~Active(w) /\ Spend("starts")
    /\ LET others == \E u \in Runs \ {w} : Active(u)
       IN  run' = [Disturbed(run) EXCEPT ![w] =
              [Idle EXCEPT !.pc = "next", !.families = enabled, !.todo = Versions(enabled), !.alone = ~others]]
    /\ UNCHANGED <<kea, enabled, rows>>

\* One version is read. A version that cannot be read is left out.
Read(w) ==
    /\ run[w].pc = "next" /\ run[w].todo # <<>>
    /\ LET f == Head(run[w].todo)
       IN  \/ /\ ~Unreadable(kea[f])
              /\ run' = [run EXCEPT ![w].pc = "write", ![w].confs[f] = Parsed(kea[f])]
              /\ UNCHANGED budget
           \/ /\ run' = [run EXCEPT ![w].todo = Tail(@)]
              /\ IF Unreadable(kea[f]) THEN UNCHANGED budget ELSE Spend("faults")
    /\ UNCHANGED <<kea, enabled, rows>>

\* One transaction writes the version.
Commit(w, failing) ==
    LET f == Head(run[w].todo)
        conf == run[w].confs[f]
        new == Resolved(f, conf, failing)
    IN  /\ server' = ServerValue(f, conf, run[w].families, failing)
        /\ row' = WrittenRows(f, conf, run[w].families, failing)
        /\ custom' = custom \union NewDefinitions(f, conf, failing)
        /\ options' = (options \ Replaced(new)) \union new
        /\ pools' = WithPools(f, conf, failing)

\* The import goes on although the database refused some items.
Write(w) ==
    /\ run[w].pc = "write"
    /\ \E failing \in {{}} \union {{i} : i \in Items(Head(run[w].todo), run[w].confs[Head(run[w].todo)])} :
          /\ IF failing = {} THEN UNCHANGED budget ELSE Spend("faults")
          /\ Commit(w, failing)
          /\ run' = [run EXCEPT ![w].pc = "next", ![w].todo = Tail(@), ![w].failed = @ \union failing]
    /\ UNCHANGED <<kea, enabled>>

\* A busy key or a failed reference undoes the transaction, an event that
\* cannot be dispatched follows its commit. Both end the import.
Stop(w) ==
    /\ run[w].pc = "write" /\ Spend("faults")
    /\ run' = [run EXCEPT ![w] = Idle]
    /\ Commit(w, {}) \/ UNCHANGED rows
    /\ UNCHANGED <<kea, enabled>>

\* The families of an import that it read.
ReadFamilies(w) == {f \in Families : run[w].confs[f] # None}
Finish(w) ==
    /\ run[w].pc = "next" /\ run[w].todo = <<>>
    /\ run' = [run EXCEPT ![w].pc = "done"]
    /\ UNCHANGED <<kea, enabled, rows, budget>>

----------------------------------------------------------------------------
(* Kea and the operators.                                                  *)

Change == Spend("changes") /\ run' = Disturbed(run)
KeaChanges == \E f \in Families : \E conf \in Configs[f] :
    conf # kea[f] /\ Change /\ kea' = [kea EXCEPT ![f] = conf] /\ UNCHANGED <<enabled, rows>>
EditServerForm == \E families \in (SUBSET Families) \ {{}} :
    families # enabled /\ Change /\ enabled' = families /\ UNCHANGED <<kea, rows>>
EditRow == \E value \in Values \union {None} :
    value # server /\ Change /\ server' = value /\ UNCHANGED <<kea, enabled, row, options, custom, pools>>
Cascade(k) ==
    /\ row' = [row EXCEPT ![k] = None]
    /\ options' = {o \in options : o.at # k} /\ pools' = {p \in pools : p[1] # k}
\* The deletion of a row takes its link, its options and its Pools.
DeleteRow == \E k \in Children :
    /\ row[k] # None /\ Change /\ Cascade(k)
    /\ UNCHANGED <<kea, enabled, server, custom>>

Step(w) == Start(w) \/ Read(w) \/ Write(w) \/ Stop(w) \/ Finish(w)
Next == (\E w \in Runs : Step(w)) \/ KeaChanges \/ EditServerForm \/ EditRow \/ DeleteRow
Spec == Init /\ [][Next]_vars

----------------------------------------------------------------------------
(* Properties.                                                             *)

Effective(k) == IF row[k] = None THEN None ELSE IF row[k].value = None THEN server ELSE row[k].value

\* The imports that ended and that nothing disturbed, with the families they read.
Undisturbed == {w \in Runs : run[w].pc = "done" /\ run[w].alone}

\* One DHCPServer row serves both families and a child stores its setting only
\* where it differs from that row. After an undisturbed import every child that
\* was written still has, stored or inherited, the setting that Kea reports for
\* it, also when the settings of the DHCPServer could not be saved; and the
\* DHCPServer has that of the primary family (_apply_global_settings,
\* _inherited_settings_fields).
MirrorsWhenAlone == \A w \in Undisturbed : \A f \in ReadFamilies(w) :
    LET conf == run[w].confs[f]
    IN  /\ \A c \in Written(f, conf, run[w].failed) : c.value # None => Effective(<<f, c.id>>) = c.value
        /\ Primary(f, run[w].families) /\ DHCPServer \notin run[w].failed /\ conf.value # None => server = conf.value

\* After an undisturbed import every option in a space of its family that the
\* DHCP plugin defines and accepts has one row with the data that Kea reports,
\* and every Pool that could be claimed has its row (upsert_options, upsert_pools).
RowsShown == \A w \in Undisturbed : \A f \in ReadFamilies(w) :
    LET conf == run[w].confs[f]
    IN  /\ \A n \in Resolved(f, conf, run[w].failed) : n.space = f => {o \in options : o.at = n.at /\ Key(o) = Key(n)} = {n}
        /\ WrittenPools(f, conf, run[w].failed) \subseteq pools

=============================================================================
