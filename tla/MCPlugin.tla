------------------------------- MODULE MCPlugin -------------------------------
(***************************************************************************)
(* Side by side: a behaviour is the imports of settings (ImportSettings),  *)
(* of Reservations with a delegated Prefix or up to a receipt              *)
(* (ImportReservations), operations around the key of the mappings         *)
(* (MetadataScope), or a branch that is merged and reverted                *)
(* (MappingReplay). The variables of the other modules stay at an initial  *)
(* state.                                                                  *)
(***************************************************************************)
EXTENDS MetadataScope

CONSTANTS t1, e1, e2, w1, w2,                   \* MetadataScope
          v1, v2, s1, s2, c1, c2, d1, d2, d3, p1, DHCPServer,   \* ImportSettings
          g4, g6, h6, s6, i1, i2, Global,       \* ImportReservations
          mt1, mt2, m1, m2, me1                 \* MappingReplay

VARIABLES
    part,
    kea, enabled, server, row, options, custom, pools, run, left,     \* ImportSettings
    subnet, host, imported, linked, rows, pd, import, known, rest,              \* ImportReservations
    main, base, branch, whole, phase, before, quiet, clock, changes             \* MappingReplay

Conf(value, children, opts, defs) ==
    [broken |-> FALSE, value |-> value, children |-> children, options |-> opts, defs |-> defs]
Broken == [broken |-> TRUE, value |-> None, children |-> {}, options |-> {}, defs |-> {}]
Child(id, ok, value, opts, ranges) == [id |-> id, ok |-> ok, value |-> value, options |-> opts, pools |-> ranges]
Opt(space, code, data) == [space |-> space, code |-> code, data |-> data]
Value(value, own) == Conf(value, {Child(s1, TRUE, own, {}, {})}, {}, {})

\* The setting of a Subnet agrees with that of its family, differs, or is of a
\* class that reports none; DHCPv6 has a setting that DHCPv4 does not report.
SettingConfigs == [f \in {4, 6} |-> IF f = 4 THEN {Value(v1, v1), Value(v1, v2), Value(v2, None), Value(None, v2), Broken}
                                    ELSE {Value(v2, v2), Value(v2, v1)}]
Settings == INSTANCE ImportSettings WITH
    Configs <- SettingConfigs, Ids <- {s1}, Values <- {v1, v2}, Spaces <- {4, 6}, Codes <- {c1}, Data <- {d1}, Ranges <- {p1},
    Standard <- {}, Refused <- {}, Runs <- {1, 2}, MaxChanges <- 1, MaxFaults <- 1, MaxStarts <- 2, budget <- left

\* Options of the DHCPServer and of a Subnet, with a standard, a custom and no
\* definition, in the space of the family and in one that both share; a Pool.
OptionConfigs == [f \in {4, 6} |->
    {Conf(v1, {Child(s1, TRUE, v1, {Opt(f, c2, d1)}, {p1}), Child(s2, FALSE, v1, {}, {})}, {Opt(f, c1, d1), Opt(0, c2, d1)}, {<<f, c2>>}),
     Conf(v1, {Child(s1, TRUE, v1, {Opt(f, c2, d2), Opt(f, c1, d2)}, {})}, {Opt(f, c1, d2), Opt(0, c2, d3)}, {})}]
Options == INSTANCE ImportSettings WITH
    Configs <- OptionConfigs, Ids <- {s1, s2}, Values <- {v1}, Spaces <- {0, 4, 6}, Codes <- {c1, c2}, Data <- {d1, d2, d3},
    Ranges <- {p1}, Standard <- {<<4, c1>>, <<6, c1>>, <<0, c2>>}, Refused <- {d3},
    Runs <- {1, 2}, MaxChanges <- 1, MaxFaults <- 1, MaxStarts <- 2, budget <- left

\* A Global Reservation of each family with one identifier, and one in a Subnet.
Family == [h \in {g4, g6, h6} |-> IF h = g4 THEN 4 ELSE 6]
Scope == [h \in {g4, g6, h6} |-> IF h = h6 THEN s6 ELSE Global]
Ident == [h \in {g4, g6, h6} |-> IF h = h6 THEN i2 ELSE i1]
Of(f, hosts) == [h \in hosts |-> f[h]]

\* The Reservation of the Subnet has a Prefix or not, another is malformed.
Prefixes == INSTANCE ImportReservations WITH
    Hosts <- {g6, h6}, FamilyOf <- Of(Family, {g6, h6}), ScopeOf <- Of(Scope, {g6, h6}), IdentOf <- Of(Ident, {g6, h6}),
    Subnets <- {s6}, FamilyOfSubnet <- [s \in {s6} |-> 6], Curated <- {}, Legacy <- {},
    SubnetStates <- [s \in {s6} |-> {"absent", "good"}],
    HostStates <- [h \in {g6, h6} |-> IF h = h6 THEN {None, "plain", "prefix"} ELSE {None, "bad"}],
    Runs <- {1, 2}, MaxChanges <- 1, MaxFaults <- 1, MaxStarts <- 2,
    enabled <- imported, row <- rows, run <- import, budget <- rest
\* A Global Reservation of each family, and a row of an earlier release.
Rows == INSTANCE ImportReservations WITH
    Hosts <- {g4, g6}, FamilyOf <- Of(Family, {g4, g6}), ScopeOf <- Of(Scope, {g4, g6}), IdentOf <- Of(Ident, {g4, g6}),
    Subnets <- {s6}, FamilyOfSubnet <- [s \in {s6} |-> 6], Curated <- {g6}, Legacy <- {i1},
    SubnetStates <- [s \in {s6} |-> {"good"}], HostStates <- [h \in {g4, g6} |-> {None, "plain"}],
    Runs <- {1, 2}, MaxChanges <- 1, MaxFaults <- 1, MaxStarts <- 2,
    enabled <- imported, row <- rows, run <- import, budget <- rest
\* A Reservation of each family, and everything malformed at times.
Receipts == INSTANCE ImportReservations WITH
    Hosts <- {g4, h6}, FamilyOf <- Of(Family, {g4, h6}), ScopeOf <- Of(Scope, {g4, h6}), IdentOf <- Of(Ident, {g4, h6}),
    Subnets <- {s6}, FamilyOfSubnet <- [s \in {s6} |-> 6], Curated <- {}, Legacy <- {},
    SubnetStates <- [s \in {s6} |-> {"absent", "good", "bad"}], HostStates <- [h \in {g4, h6} |-> {None, "plain", "bad"}],
    Runs <- {1, 2}, MaxChanges <- 2, MaxFaults <- 1, MaxStarts <- 1,
    enabled <- imported, row <- rows, run <- import, budget <- rest

Replays == INSTANCE MappingReplay WITH
    Targets <- {mt1, mt2}, Mappings <- {m1, m2}, Endpoints <- {me1}, Sources <- {s1}, Values <- {v1, v2},
    MaxBranch <- 2, MaxMain <- 3, budget <- changes

ASSUME
    /\ Settings!SettingsAssumption /\ Options!SettingsAssumption
    /\ Prefixes!ReservationsAssumption /\ Receipts!ReservationsAssumption /\ Rows!ReservationsAssumption
    /\ Replays!ReplayAssumption

settingVars == <<kea, enabled, server, row, options, custom, pools, run, left>>
importVars == <<subnet, host, imported, linked, rows, pd, import, known, rest>>
replayVars == <<main, base, branch, whole, phase, before, quiet, clock, changes>>

NoOperation == Init /\ \A t \in Targets : ref[t] = None
NoSettings == Settings!Init /\ kea = [f \in {4, 6} |-> IF f = 4 THEN Broken ELSE Value(v2, v2)] /\ enabled = {4}
NoImport == Receipts!Init /\ subnet[s6] = "absent" /\ imported = {4} /\ \A h \in {g4, h6} : host[h] = None
\* Its rows and values are alike: the first mapping is m1 of mt1.
FirstMapping == main.mapping[m1] # None /\ main.mapping[m1].target = mt1 /\ main.target[mt1].value = v1
NoBranch == Replays!Init /\ FirstMapping /\ whole /\ \A t \in {mt1, mt2} : main.target[t].end = None

MCInit ==
    \/ part = "key" /\ Init /\ NoSettings /\ NoImport /\ NoBranch
    \/ part = "settings" /\ NoOperation /\ Settings!Init /\ NoImport /\ NoBranch
    \/ part = "options" /\ NoOperation /\ Options!Init /\ NoImport /\ NoBranch
    \/ part = "rows" /\ NoOperation /\ NoSettings /\ Rows!Init /\ NoBranch
    \/ part = "prefixes" /\ NoOperation /\ NoSettings /\ Prefixes!Init /\ NoBranch
    \/ part = "receipts" /\ NoOperation /\ NoSettings /\ Receipts!Init /\ NoBranch
    \/ part = "replay" /\ NoOperation /\ NoSettings /\ NoImport /\ Replays!Init /\ FirstMapping

MCNext ==
    /\ UNCHANGED part
    /\ IF part = "key" THEN Next ELSE UNCHANGED vars
    /\ \/ part = "settings" /\ Settings!Next
       \/ part = "options" /\ Options!Next
       \/ part \notin {"settings", "options"} /\ UNCHANGED settingVars
    /\ \/ part = "rows" /\ Rows!Next
       \/ part = "prefixes" /\ Prefixes!Next
       \/ part = "receipts" /\ Receipts!Next
       \/ part \notin {"rows", "prefixes", "receipts"} /\ UNCHANGED importVars
    /\ IF part = "replay" THEN Replays!Next ELSE UNCHANGED replayVars

MCSpec == MCInit /\ [][MCNext]_<<vars, settingVars, importVars, replayVars, part>>

\* After an undisturbed import every setting, option and Pool is as Kea reports it.
ShownWhenAlone == (part = "settings" => Settings!MirrorsWhenAlone) /\ (part = "options" => Options!RowsShown)

\* A confirmed Prefix keeps its link for as long as Kea keeps it.
PrefixKept == part = "prefixes" => Prefixes!PrefixKept

\* A receipt is published when all that stayed was imported, and no import takes a linked row.
WholeAndApart ==
    [][(part = "receipts" => Receipts!PublishesWhole) /\ (part = "rows" => Rows!KeepsRows)]_importVars

\* A mapping of main points at the row that it was recorded for, and a revert
\* gives main back what the merge changed.
MappingsHold == part = "replay" => Replays!MappingsMeanTheirTarget /\ Replays!RevertRestores

\* A replay leaves alone what changed in main since the branch.
NewerMainKept == [][part = "replay" => Replays!KeepsNewer]_replayVars
=============================================================================
