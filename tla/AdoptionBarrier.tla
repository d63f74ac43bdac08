-------------------------- MODULE AdoptionBarrier ---------------------------
(***************************************************************************)
(* The upgrade barrier of IPAM ownership (ipam_reconciliation.py).         *)
(* An object from before the upgrade gets adopted links. Its last link     *)
(* stays until every Server that can report the object completed a run of  *)
(* each workflow once, and that run is recorded as a receipt. Operators    *)
(* add, edit and delete Servers and change the settings meanwhile.         *)
(***************************************************************************)
EXTENDS Naturals, FiniteSets

CONSTANTS
    Servers,        \* the Servers that there can be
    None,
    Actors,         \* worker processes
    StartPresent,   \* the Servers that there are at the start
    StartSettings,  \* and their settings
    StartKea,       \* the owners whose Kea reports the object
    SettingChoices, ConfigChoices,      \* what an operator can save
    MaxOrders, MaxEdits, MaxFaults      \* bounds on what happens

SourceKinds == {"lease", "reservation"}
Workflows == {"job", "import"}
Owners == Servers \X SourceKinds
Flags == SourceKinds \union {"import"}

BarrierAssumption ==
    /\ StartPresent \subseteq Servers /\ StartSettings \in [Servers -> SUBSET Flags]
    /\ StartKea \subseteq Owners
    /\ SettingChoices \subseteq SUBSET Flags /\ ConfigChoices \subseteq SUBSET SourceKinds

VARIABLES
    kea,        \* the owners whose Kea reports the object
    config,     \* SyncConfig: the sources that the jobs synchronize
    present,    \* the Server rows
    setting,    \* their flags
    receipt,    \* ipam_initial_observations of each Server
    first,      \* ipam_first_complete_at of each Server is set
    link,       \* the owners that have an (adopted) link
    exists,     \* the object is there
    actor,
    form,       \* an open edit form of a Server: the row that it was opened with
    budget,
    settled     \* history: no setting changed since the first complete run

vars == <<kea, config, present, setting, receipt, first, link, exists, actor, form, budget, settled>>

Idle == [pc |-> "idle", server |-> None, workflow |-> "job", plan |-> {}, flags |-> {}, whole |-> {}, seen |-> {}, errors |-> FALSE]
NoReceipts == [w \in Workflows |-> {}]

Init ==
    /\ kea = StartKea
    /\ config = SourceKinds
    /\ present = StartPresent
    /\ setting = StartSettings
    /\ receipt = [s \in Servers |-> NoReceipts]
    /\ first = [s \in Servers |-> FALSE]
    /\ link = {}
    /\ exists = TRUE
    /\ actor = [a \in Actors |-> Idle]
    /\ form = None
    /\ budget = [orders |-> MaxOrders, edits |-> MaxEdits, faults |-> MaxFaults]
    /\ settled = [s \in Servers |-> FALSE]

EffectiveSources(flags, sources) ==
    [job |-> flags \cap sources, import |-> IF "import" \in flags THEN {"reservation"} ELSE {}]

\* Mutant: the import of the DHCP plugin is not waited for.
PendingJobs == {o \in present \X SourceKinds :
    o[2] \in EffectiveSources(setting[o[1]], config).job \ receipt[o[1]].job}

\* The owners that can report the object and were not observed yet.
PendingAdoptions == {o \in present \X SourceKinds : \E w \in Workflows :
    o[2] \in EffectiveSources(setting[o[1]], config)[w] \ receipt[o[1]][w]}

----------------------------------------------------------------------------
(* The workers: a job or an import of one Server.                          *)

Set(a, local) == actor' = [actor EXCEPT ![a] = local]

\* The settings are read once, at the start of the run.
Start(a, s, w) ==
    /\ actor[a].pc = "idle" /\ s \in present /\ budget.orders > 0
    /\ EffectiveSources(setting[s], config)[w] # {}
    /\ budget' = [budget EXCEPT !.orders = @ - 1]
    /\ Set(a, [Idle EXCEPT !.pc = "claim", !.server = s, !.workflow = w, !.flags = setting[s],
                           !.plan = EffectiveSources(setting[s], config)[w]])
    /\ UNCHANGED <<kea, config, present, setting, receipt, first, link, exists, form, settled>>

\* The cleanup that removes the object holds its identity lock, and both tables
\* in SHARE mode: no claim of the object and no change of the policy commits.
HoldsTables(b) == actor[b].pc = "remove"
TablesFree == \A b \in Actors : ~HoldsTables(b)
IdentityFree == \A b \in Actors : actor[b].pc # "remove"

\* The phases claim what they read. A failed read leaves its phase incomplete.
Claim(a) ==
    /\ actor[a].pc = "claim" /\ IdentityFree
    /\ actor[a].server \in present
    /\ \E failed \in SUBSET actor[a].plan :
          LET whole == actor[a].plan \ failed
              claimed == kea \cap ({actor[a].server} \X whole)
          IN  /\ failed # {} => budget.faults > 0
              /\ budget' = [budget EXCEPT !.faults = IF failed = {} THEN @ ELSE @ - 1]
              /\ link' = IF exists THEN link \union claimed ELSE link
              /\ Set(a, [actor[a] EXCEPT !.whole = whole, !.seen = kea,
                           !.pc = IF actor[a].workflow = "job" THEN "choose" ELSE "publish"])
    /\ UNCHANGED <<kea, config, present, setting, receipt, first, exists, form, settled>>

Stale(a) == (link \cap ({actor[a].server} \X actor[a].whole)) \ actor[a].seen

LastLinksGo(me) == "lease" \in me.whole /\ ("reservation" \in me.whole \/ "reservation" \notin me.flags)

\* A stale link goes at once beside another one. The last link of an adopted
\* object goes when no owner is pending; a busy table refuses the row.
Clean(a) ==
    /\ actor[a].pc = "choose" /\ IdentityFree
    /\ IF Stale(a) = {} THEN Set(a, [actor[a] EXCEPT !.pc = "publish"]) /\ UNCHANGED <<link, budget>>
       ELSE \E o \in Stale(a) :
              \/ /\ link \ {o} # {}
                 /\ LastLinksGo(actor[a]) \/ \E q \in link \ {o} : q[1] = o[1]
                 /\ link' = link \ {o}
                 /\ UNCHANGED <<actor, budget>>
              \/ /\ IF link \ {o} = {} THEN ~LastLinksGo(actor[a]) \/ PendingAdoptions # {}
                                       ELSE ~LastLinksGo(actor[a]) /\ \A q \in link \ {o} : q[1] # o[1]
                 /\ Set(a, [actor[a] EXCEPT !.pc = "publish"])
                 /\ UNCHANGED <<link, budget>>
              \/ /\ link \ {o} = {} /\ LastLinksGo(actor[a]) /\ PendingAdoptions = {}
                 /\ Set(a, [actor[a] EXCEPT !.pc = "remove"])
                 /\ UNCHANGED <<link, budget>>
              \/ /\ link \ {o} = {} /\ budget.faults > 0
                 /\ budget' = [budget EXCEPT !.faults = @ - 1]
                 /\ Set(a, [actor[a] EXCEPT !.pc = "publish", !.errors = TRUE])
                 /\ UNCHANGED link
    /\ UNCHANGED <<kea, config, present, setting, receipt, first, exists, form, settled>>

\* The lock of the object makes the decision and the removal one transaction.
Remove(a) ==
    /\ actor[a].pc = "remove"
    /\ link' = {} /\ exists' = FALSE
    /\ Set(a, [actor[a] EXCEPT !.pc = "publish"])
    /\ UNCHANGED <<kea, config, present, setting, receipt, first, form, budget, settled>>

Publishes(me) == me.whole = me.plan /\ ~me.errors

\* The row of the Server is locked and read again: a setting that was enabled
\* meanwhile was not observed.
Publish(a) ==
    LET me == actor[a]
        s == me.server
        scope == EffectiveSources(setting[s], config)
        observed == IF Publishes(me) THEN me.plan ELSE {}
        new == [receipt[s] EXCEPT ![me.workflow] = observed]
    IN  /\ me.pc = "publish"
        /\ IF s \in present /\ observed # {} /\ scope[me.workflow] # {} /\ scope[me.workflow] \subseteq observed
           THEN /\ TablesFree
                /\ receipt' = [receipt EXCEPT ![s] = new]
                /\ first' = [first EXCEPT ![s] = @ \/ \A w \in Workflows : scope[w] \subseteq new[w]]
                /\ settled' = [settled EXCEPT ![s] = @ \/ first'[s] # first[s]]
           ELSE UNCHANGED <<receipt, first, settled>>
        /\ Set(a, Idle)
        /\ UNCHANGED <<kea, config, present, setting, link, exists, form, budget>>

\* The Server was deleted before the run wrote a link for it: the run fails.
Abort(a) ==
    /\ actor[a].pc = "claim" /\ actor[a].server \notin present
    /\ Set(a, Idle)
    /\ UNCHANGED <<kea, config, present, setting, receipt, first, link, exists, form, budget, settled>>

----------------------------------------------------------------------------
(* Kea and the operators.                                                  *)

Vanish(o) ==
    /\ o \in kea
    /\ kea' = kea \ {o}
    /\ UNCHANGED <<config, present, setting, receipt, first, link, exists, actor, form, budget, settled>>

Edit == budget.edits > 0 /\ budget' = [budget EXCEPT !.edits = @ - 1] /\ TablesFree

SaveConfig(sources) ==
    /\ Edit /\ config # sources
    /\ config' = sources
    /\ settled' = [s \in Servers |-> FALSE]
    /\ UNCHANGED <<kea, present, setting, receipt, first, link, exists, actor, form>>

\* A new Server never has the key of an old one: s stands for a new Server
\* when no run and no form has the old key any more.
Unused(s) == (\A a \in Actors : actor[a].server # s) /\ (form # None => form.server # s)

AddServer(s, flags) ==
    /\ Edit /\ s \notin present /\ Unused(s)
    /\ present' = present \union {s}
    /\ setting' = [setting EXCEPT ![s] = flags]
    /\ receipt' = [receipt EXCEPT ![s] = NoReceipts]
    /\ first' = [first EXCEPT ![s] = FALSE]
    /\ settled' = [settled EXCEPT ![s] = FALSE]
    /\ UNCHANGED <<kea, config, link, exists, actor, form>>

DeleteServer(s) ==
    /\ Edit /\ s \in present
    /\ present' = present \ {s}
    /\ link' = {o \in link : o[1] # s}
    /\ settled' = [settled EXCEPT ![s] = FALSE]
    /\ UNCHANGED <<kea, config, setting, receipt, first, exists, actor, form>>

OpenForm(s) ==
    /\ form = None /\ s \in present
    /\ form' = [server |-> s, receipt |-> receipt[s], first |-> first[s]]
    /\ UNCHANGED <<kea, config, present, setting, receipt, first, link, exists, actor, budget, settled>>

\* An ordinary edit leaves the columns of the workflows alone.
Saved == [receipt |-> receipt, first |-> first]

SubmitForm(flags) ==
    /\ form # None /\ Edit
    /\ form' = None
    /\ IF form.server \notin present THEN UNCHANGED <<setting, receipt, first, settled>>
       ELSE /\ setting' = [setting EXCEPT ![form.server] = flags]
            /\ receipt' = Saved.receipt /\ first' = Saved.first
            /\ settled' = [settled EXCEPT ![form.server] = @ /\ setting[form.server] = flags]
    /\ UNCHANGED <<kea, config, present, link, exists, actor>>

Finished == /\ \A a \in Actors : actor[a].pc = "idle"
            /\ UNCHANGED vars

Next ==
    \/ \E a \in Actors :
         \/ \E s \in Servers, w \in Workflows : Start(a, s, w)
         \/ Claim(a) \/ Abort(a) \/ Clean(a) \/ Remove(a) \/ Publish(a)
    \/ \E o \in Owners : Vanish(o)
    \/ \E sources \in ConfigChoices : SaveConfig(sources)
    \/ \E flags \in SettingChoices : SubmitForm(flags) \/ \E s \in Servers : AddServer(s, flags)
    \/ \E s \in Servers : DeleteServer(s) \/ OpenForm(s)
    \/ Finished

Spec == Init /\ [][Next]_vars

----------------------------------------------------------------------------
(* Properties.                                                             *)

(* An adopted object is not removed while a Server can report it: the      *)
(* settings at the moment of the removal decide, also for a Server that    *)
(* was added, or a source that was enabled, after the cleanup started      *)
(* (_cleanup_adoption_waits, _pending_adoptions). Before the object is     *)
(* gone, each such owner has read its Kea once and linked what it reports. *)
CanReport == {o \in present \X SourceKinds : \E w \in Workflows : o[2] \in EffectiveSources(setting[o[1]], config)[w]}
NoOwnerLosesObject == [][exists /\ ~exists' => CanReport \cap kea = {}]_vars

(* The barrier does not come back by itself: after the first complete run  *)
(* of a Server, and while nobody changes its settings, the Server is not   *)
(* pending, whatever edit forms are saved without a change (Server.save).  *)
ObservedForGood == \A s \in Servers : settled[s] => \A o \in PendingAdoptions : o[1] # s

\* The barrier waits for every owner, and for each of them once.
AdoptionWaitsOnce == NoOwnerLosesObject /\ []ObservedForGood
=============================================================================
