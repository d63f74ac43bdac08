# netbox-kea in TLA+

netbox-kea is a NetBox plugin. It shows and changes the configuration, the
leases and the reservations of Kea DHCP servers, and it copies what Kea reports
into the NetBox IPAM tables. The difficult part is not the user interface. Kea
has no transactions and no locks, its replies can be lost, an administrator can
configure it behind the back of NetBox, it restarts from a file, and several
NetBox workers talk to it at once. This directory holds TLA+ models of the parts
of the plugin that must stay correct under these conditions, the TLC runs that
check them, and theorems about them that TLAPS checks.

Paths below are relative to `src/netbox_kea/` unless they start with `docs/`.

* [Inventory](#inventory)
* [Plan](#plan)
* [Modules](#modules)
* [How the models correspond to the code](#how-the-models-correspond-to-the-code)
* [Runs](#runs)
* [What the code does against its documents](#what-the-code-does-against-its-documents)
* [Fairness](#fairness)
* [Theorems](#theorems)
* [What is only model-checked, and what is not modelled](#what-is-only-model-checked-and-what-is-not-modelled)

## Inventory

### Configuration Changes (`config_write.py`)

*State.* None of its own between requests. During an operation: the PostgreSQL
advisory lock of the daemon (`_serialized`), the steps that applied and their
undo commands (`_run_steps`), and the facts that the operation read under the
lock. It changes the running configuration of Kea and, in the persist step, the
file of Kea.

*Operations.* Add, edit and delete a Subnet; add and delete a Pool; set the DHCP
Options of a Subnet and of the server; add and delete an Option Definition; add,
edit and delete a Shared Network. Each ends with an outcome that is *applied* or
*unknown* and a persistence, or it raises `ConfigChangeRejected`.

*Interactions.* It uses the Kea client for each command, the Subnet Catalogue
for live facts (`mutation`) and for the reads of a check (`read_identity`), and
the values that a form showed as the expected state.

*Hard.* Several commands for one change and a rollback; a check after a failed
command; lost and late replies; an administrator between any two commands; a
form that stays open; a restart of Kea; the loss of the database session that
holds the lock; a persist step of a Reservation mutation that does not take the
lock.

*Correct when.* Operations on one daemon do not interleave; a rejection leaves
nothing live; a persisted change is in the file; no operation overwrites what
its form did not show, acts on another Subnet than the one shown, or undoes what
another writer did; each operation ends; together: each change is applied,
rejected or unconfirmed as a whole.

### Kea client (`kea.py`)

*State.* The connection settings, the write guard, and the callback for a
configuration change. *Operations.* One function per Kea command; the persist
step (`config-get`, `config-test`, `config-write`); the paged reads of leases and
reservations; the checked changes of a lease and of a reservation. *Hard.* The
reply can be lost at each command; check-then-act on leases and reservations;
paged reads of a set that changes; the two notifications around a change.
*Correct when.* Each outcome says what is known, a paged read ends and says
whether it is complete, and a cache never outlives a change.

### Subnet Catalogue (`subnet_catalogue.py`) and Server configuration (`server_configuration.py`)

*State.* A cache entry for each Server, family and cache generation, and the
generation. *Operations.* `display` (cached), `for_synchronization` (live, and
complete or refused), `mutation` (a live scope with exact lookups and
`prepare_creation`), `read_identity`, and `invalidate`. *Hard.* The identities
come from `subnet{v}-list` and the configuration from `config-get`, at two
moments; each can fail or parse in part; a cache fill can race a change. *Correct
when.* A Complete Snapshot is one state of Kea; absence is confirmed only by a
read that would have shown the Subnet; a page never shows less than the changes
that were over when it was opened.

### IPAM ownership (`ipam_reconciliation.py`, `ipam_marker.py`, `sync.py`)

*State.* Ownership links: one for each Server, family, source and IPAM object,
with the stored facts, a confirmation number, a stale mark, and the adoption of
older objects; the receipts of complete observations. *Operations.* `reconcile`
runs the phases of a synchronization (take a cutoff, read a snapshot, claim each
row, remove the stale links); `claim` runs for one record of a page, also with
force; `complete_job_observation`. *Hard.* Two runs and several pages claim the
same address; the cleanup of one run against the claim of another; a snapshot
that is older than a claim; a row that fails; the last link of an object; the
order of the advisory locks. *Correct when.* A link that was confirmed after the
cutoff survives the cleanup; an object goes only with its last link, and only
after complete reads of all sources; objects that an operator made stay.

### Synchronization jobs (`jobs.py`, `sync_permissions.py`, `views/sync_*.py`)

*State.* The job record in NetBox, the job in the RQ queue, the settings.
*Operations.* A run over all servers; the schedule of the next run; the repair
of a record that has no live job. *Hard.* Two stores that are not updated
together; a crash between them; two runs at once. *Correct when.* The periodic
run never stops for ever, and the failure of one server does not stop the others.

### Leases (`leases.py`) and Reservations (`reservations.py`, `reservation_transfer.py`)

*State.* None of their own. *Operations.* Search, edit and delete of leases; add,
change and delete of reservations with a fingerprint of the shown record; import
and export. *Hard.* Kea has no conditional update, so each check is followed by a
command that can meet another state. *Correct when.* The outcome separates what
happened, what did not, and what is unknown, and a stale page cannot overwrite a
newer record except in the window between check and command.

### DHCP mapping lifecycle, DHCP plugin import, Branch guard

*State.* The mappings between plugin rows and imported rows, the metadata
advisory lock, and context variables that say who holds it. *Operations.*
Coordinated writes and deletions, branch merge and replay, the import.
*Hard.* A deletion whose effect is collected without the lock; a caller in a
transaction must not wait for the lock; a branch must not write to Kea. *Correct
when.* No deletion removes a protected mapping, there is no deadlock, and no
write command leaves from a branch.

### Others

Event scope and signals (events are sent after the commit), models and settings,
value parsing (DHCP Options, Pools, identifiers), pages and forms, and the REST
API. `PROJECT.json` lists every component with its status.

## Plan

The order is by the damage that a mistake does: first what can destroy a Kea
configuration, then what can destroy IPAM data, then the rest.

| Step | Modules | State |
|---|---|---|
| 1 | `KeaConfig`, `ConfigWrite`, `ConfigChange`, `ConfigWriteAtomic`: changes, Kea, forms, lock | done |
| 2 | `SubnetCatalogue`: two reads, the cache, changes | done |
| 3 | `ConfigWriteProofs`: types, lock, reads, persist step; updates, rollback, refinement, rejections | done |
| 4 | `IpamOwnership`, `NetworkOwnership`: the links of one address, one Prefix or one IP Range, with runs, pages and operators | done |
| 5 | `AdoptionBarrier`: receipts, Servers that come and go, objects from before the upgrade | done |
| 6 | `ReservationReads`, `ReservationEdits`, `PublishedName` | done |
| 7 | `LeaseReads`, `LeaseEdits`, `LeaseBadges` | done |
| 8 | `SyncJobs`: record, queue, repair at worker start, runs | done |
| 9 | `MetadataScope`, `MappingReplay`, `ImportSettings`, `ImportReservations` | done |
| 10 | `SubnetCatalogueProofs`, `IpamOwnershipProofs`, `NetworkOwnershipProofs`, `SyncJobsProofs`, `MetadataScopeProofs`, `LeaseProofs`, `ReservationProofs` | done |
| 11 | Theorems about `AdoptionBarrier`, `LeaseBadges`, `ImportReservations`, `ImportSettings` and `MappingReplay` | done |

A first invariant `TypeOK` that no run names (`SubnetCatalogue`, `IpamOwnership`,
`NetworkOwnership`, `SyncJobs`, `LeaseEdits`, `MetadataScope`) is there for the
proofs. What no theorem states is under
[What is only model-checked](#what-is-only-model-checked-and-what-is-not-modelled).

## Modules

| Module | What it is |
|---|---|
| `SubnetIds` | The Subnet IDs and the ID that NetBox allocates (`_allocate_subnet_id`) |
| `KeaConfig` | The configuration of one daemon, the commands, and which ones Kea accepts with which result (external) |
| `ConfigWrite` | The operations of `config_write.py` with the lock, the steps, the checks, the rollback and the persist step, beside an administrator, late requests, restarts, lost locks and the persist step of a Reservation mutation |
| `ConfigChange` | The abstract specification: each change takes effect in one step |
| `ConfigWriteAtomic` | The refinement mapping from `ConfigWrite` to `ConfigChange` |
| `ConfigWriteProofs` | Theorems about `ConfigWrite`: types, lock, reads, persist step; updates, targets, rollback, rejections, and the refinement of `ConfigChange` |
| `SubnetCatalogue` | The two-source read, the reconciliation, the cache and its generation, the Mutation Scope |
| `IpamOwnership` | The rows and ownership links of one IP address of several Servers, with jobs, bulk syncs, pages and forced claims |
| `NetworkOwnership` | The same for one Prefix or IP Range, with Subnets, Pools, delegated prefixes and imports |
| `AdoptionBarrier` | Which removals wait for the first complete run of which Server |
| `SyncJobs` | The periodic job: its record, its queue entry, the repair, a run, its successor |
| `ReservationReads` | Paged reads of the Reservations of several sources: one page, a search, a Snapshot |
| `PublishedName` | The hostname that is stored so that Kea publishes a name |
| `ReservationEdits` | Add, edit, delete and import of Reservations |
| `LeaseReads` | Paged, capped, exact and Subnet reads of Leases |
| `LeaseEdits` | Edit, delete, add, import and Sync of Leases |
| `LeaseBadges` | The threads that look up the Reservations of one page of Leases |
| `ImportSettings` | The DHCP plugin import: settings, options, definitions and Pools |
| `ImportReservations` | The DHCP plugin import: Reservations, delegated Prefixes, the receipt |
| `MetadataScope` | The key of the mappings, and what imports, edits and deletions do under it |
| `MappingReplay` | A branch with mappings, its merge and its revert |
| `SubnetCatalogueProofs`, `IpamOwnershipProofs`, `NetworkOwnershipProofs` | Theorems about the module of the name |
| `SyncJobsProofs` | Theorems about `SyncJobs`, and by an instance about `AdoptionBarrier` |
| `MetadataScopeProofs` | Theorems about `MetadataScope`, and by instances about `ImportReservations`, `ImportSettings` and `MappingReplay` |
| `LeaseProofs` | Theorems about `LeaseEdits`, and by instances about `LeaseReads` and `LeaseBadges` |
| `ReservationProofs` | Theorems about `ReservationEdits`, and by an instance about `ReservationReads` |
| `MC...` | Instances for TLC: `MCConfigWrite`, `MCSubnetCatalogue`, `MCIpamOwnership`, `MCNetworkOwnership` and `MCReservationEdits` hold the values of the constants; `MCConfigScenarios`, `MCCatalogueScenarios`, `MCAddressScenarios`, `MCNetworkScenarios`, `MCReservations`, `MCLeases`, `MCPlugin` and `MCEnds` put scenarios side by side |

**Side by side.** A run checks several scenarios in one state space: its module
has a variable `scenario` or `part` that the initial state chooses and no step
changes. A scenario is an INSTANCE of the specification with its own constants,
over the same variables. Where the modules differ, the variables of the others
stay at one initial state. So a run has exactly the behaviours of its scenarios,
one after another, and a property of one of them is guarded by `part`.

## How the models correspond to the code

### ConfigWrite

`running` and `disk` are the running configuration and the file of Kea.
A Subnet has a network, a Shared Network, Pools and two groups of DHCP Option
values: the ones that the edit form shows (`managed`) and the ones that only the
options form shows (`unshown`). `inFlight` holds the commands whose reply was
lost and which Kea can still run. `pc` and `local` are the program counter and
the local variables of each operation; `outcome` is what it returned or raised.
`marks` and `diskMarks` are history: the last writer of each part of the
configuration.

| Code | Model |
|---|---|
| the form view shows the current values | `OpenForm`: `local.seen` keeps what the form showed, for any time |
| `_client`, the start of an operation | `Submit` |
| `_serialized` | `Acquire`, `LockTimeout`, and the release in `Leaves` |
| the Mutation Scope, `_subnet_as_seen`, `_require_shared_network` | `ReadScope` (`ScopeForAdd`, `ScopeForEdit`, `ScopeForTarget`), `RequireNetwork` |
| `subnet_definition`, `shared_network_exists`, `config_candidate` with `config_test` | `ReadDefinition`, `ReadExists`, `ReadCandidate` |
| `_before_change` | `ReadFails`: nothing was sent, so a failure rejects |
| `_Step`, `_Undo`, `_run_steps` | `AddPlan`, `EditPlan`, `Send` and `NextStep` |
| `_mutate`, `_never_sent` and the check closures | `Send` and `Check`, with `NotLive` and `CanCheck` for the fresh read |
| `_create_subnet` after a taken ID | `Taken` and `Reallocate` |
| `_roll_back`, `_undo`, `_member_of` | `CheckUndo`, `SendUndo`, `Holds` |
| `_persisted` | `Persist` |

The scope read is one action here. That it can be one action is what
`SubnetCatalogue` is for: there the two sources are read at two moments, and a
disagreement gives no confirmation, which is `ReadFails` here. Every exception
before the first command (`SubnetIdentityConflict`, `SubnetIdExhausted`,
`CatalogueUnavailable`, `DHCPOptionConflict`, a stale form) counts as *rejected*.
Kea refuses the candidates that are not `Sound`, and an undo is one of the
commands of Kea as any other.

`marks` has one convention: a part that gets back the value that the change read
belongs to nobody. So a rollback that restores the old Shared Network leaves no
mark, and `RejectedNotLive` says that no part of the configuration that Kea runs
was last written by a rejected change. `Overtaken` names its exceptions, in which
another writer puts an object of its own where the change added or deleted one,
after a lost reply and before the check: an administrator who gives a new Subnet
another network under its ID hides the add from its check; one who declares a
deleted Subnet or Shared Network again makes the check of the delete see it and
reject, and the members that Kea removed with the network stay outside. The code
has no way to know, and the instances of `config` reach each of the three.

Accepted windows, which the code or its documents name, and which the properties
exclude: a write between the check of an undo and the undo (`stale`), a request
that arrives after the operation ended, and the time after the loss of the lock
(`disturbed`). No run has the lock loss and the restart together: the README of
the plugin tells the operator to set the timeouts so that the lock is not lost.

### SubnetCatalogue

`live` is what Kea runs. `generation` and `cache` are the cache generation and
the entries of each generation. A reader is a page (`display`), a scope
(`mutation`) or a synchronization run (`for_synchronization`). Each one reads the
identities (`ReadList`) and the configuration (`ReadConfig`) in two steps; each
answer can fail or leave out Subnets that did not parse; a disagreement causes
one more read of both. `Reconcile` is `_reconcile`: the conflicts between the
sources, the Verified and Configured Subnets, `complete` and `confirms_absence`.
A change notifies, sends and notifies again (`_config_mutation_command`), and
each notification can fail without stopping the change. `Expire` is the TTL or an
eviction, at any time. `includes`, `shows`, `listed` and `owed` are history.


### IpamOwnership, NetworkOwnership, AdoptionBarrier

`kea` is what each owner (a Server and a source) reports. `row` (of an IP
address) or `net` (of a Prefix or an IP Range) is the NetBox object, `link` its
ownership links, and `number` the sequence of the confirmation numbers. The
addresses of the model are one identity; a second place, `Global` or another VRF,
lets an operator move a row and lets a legacy row of the global table be claimed.
`barrier` says whether adopted links wait. An actor is a worker or a request: it
takes the cutoff, reads the snapshot, claims, passes on to the next phase, then
chooses the stale links and cleans them one by one (`TakeCutoff`, `ReadSnapshot`,
`EnterClaim`, `CommitClaim`, `NextCleanup`, `ChooseStale`, `CleanOne`). A claim of
an address takes the locks of its identities and its number in one step, and
writes in another, because operators and the statements of other rows come
between (`Locks`, `IdentityFree`). The removal of one link, and a claim of a
network, are one step under the lock; what was read before the lock, the report
and the chosen link, is a state of its own. `steady`, `rounds` and `held`
are history: which reports Kea kept since they were applied, how many complete
and undisturbed jobs there were in a row, and what each run has found reported
ever since it began. A source leaves `held` when Kea stops reporting the address
for it, when the run's own claim of it leaves no link (`Unlinked`: an unowned row),
and when an operator edits the rows. The count of a Server starts again when anybody
but its jobs changes the object or the links, up to their numbers (`Recounted`: a
forced claim of another Server, for one), and a job counts when nothing disturbed it
and no job of an earlier count is still under way (`Counts`).

`RowFails` and `ReadInPart` are the failures that `SyncReport` records: the
phase goes on, and its cleanup does not run. A crash of a worker is an actor that
takes no more steps, which the safety properties cover without an action.
`AdoptionBarrier` models the receipts that end the barrier: `present`, the
settings and the forms that were opened before a change, runs that abort, and
jobs that publish (`_complete_observation`).

### SyncJobs

`record` is the `Job` row in NetBox and `rq` the entry of the queue; they are
written by different steps, and a process can stop between any two. `Boot`,
`CheckGhost`, `DeleteGhost` and `EnqueueOnce` are the repair and the schedule at
the start of a worker; `Publish` puts the entry into the queue after the commit.
`StartRun`, `ReadConfig`, `SyncServer` and `Terminate` are a run, `Successor` is
the next job that NetBox schedules after it. `Crash` stops a worker, `Kill` the
process of a run, `HealFails`, `StartFails` and `ConfigFails` are a database or Redis
that does not answer (at the repair, at the start of a run, or when it reads
`SyncConfig`). `SaveConfig`, `Toggle` and `SyncNow` are the pages of an operator.

A killed run leaves its record at `running`. The repair looks only at records that
are scheduled or pending, and `enqueue_once` takes a running one for a live job, so
while that record has the saved interval, no start of a worker schedules another
(`LeftRunning`). `PeriodicGoesOn` says that this is the only way to stop: when
workers start again and again and no such record stays for ever, runs end again and
again. The part `killed` of the run `ends` has the kill, and the operator whose new
interval replaces the record. Without an operator the synchronization does not come
back: TLC refutes `PeriodicGoesOn` without its second premise.

### Reservations

`ReservationEdits` has the requests of one Subnet: an edit keeps the
fingerprint of the record that its form showed, reads the record again, merges
and updates (`Open`, `Scope`, `Change`, `ReadRaw`, `SamePrint`, `Update`); an add,
a delete and an import take the same commands. `KeaChanges` and `DnsChanges` are
other writers between any two steps. The hostname of an edit goes through
`PublishedName`, where a name is a sequence of labels, and the suffix is the one
of the Pool or the Subnet when the form was opened, and when it is submitted.
`ReservationReads` has the paged reads over the host data sources: a cursor of a
source and an index, empty pages, quarantined records, and the stops that end a
traversal with a diagnostic.

### Leases

In `LeaseReads`, `table` is what Kea has at each address, and one read
goes through it with one command after another (`FetchPage`, `Probe`, `LookUp`,
`Measure`, `Search`). A record can be of an excluded kind or have a flaw.
`LeaseEdits` has one request at a time (edit, delete, add, import, Sync) and a
client, a clock (`Tick`) and a lost reply between its commands: `Check` reads the
Lease again, `Update` and `Delete` act, `ReadBack` and `Confirmed` decide what a
new Lease is called. `LeaseBadges` has the threads of one page: `task`, the shared
`memo` and the lock of each lookup (`_IdentityLookups`).

### DHCP plugin

`ImportSettings` and `ImportReservations` read Kea in one step for each command
and write the rows of the DHCP plugin in another; two imports, a form of the
plugin and Kea can interleave. `MetadataScope` has `key`, the advisory lock of the
mappings, and `lock`, the row locks of the transactions: an operation probes
whether it takes a mapped target, takes the key or refuses to wait for it, locks
the row, probes again and writes. A deadlock of the database ends with
`LockError`. That would end a cycle of waits through the key too, at the cost of an
import; `KeyWaitsAlone` says that there is no such cycle. `MappingReplay` holds the rows of main and of a branch; a replay
collapses the changes, validates them against what main has now, and applies
them or refuses.

## Runs

The states are the distinct states that TLC finds.

| Run | Instance | States | Shows |
|---|---|---|---|
| `config` | two changes, in four scenarios: moves between Shared Networks (an administrator with two commands out of six, one fault); three adds and a delete for two Subnet IDs (fault, late request, restart); read-modify-writes (administrator, fault, lock loss); single commands beside a Reservation mutation (administrator, fault, late request, unlocked persist step) | 941,000 | the lock and the reads under it; a rejected change leaves nothing live; a persisted change is in the file; no lost update; no change hits another Subnet than the one shown; a rollback never moves a Subnet that another writer moved |
| `atomic` | two changes of every kind, two faults, nothing outside NetBox | 68,000 | `ConfigWrite` implements `ConfigChange` |
| `rollback`, `snapshot` | one add with an administrator; one edit with an unlocked persist step and a restart | | disagreements below |
| `catalogue` | two pages and two changes; a scope and a synchronization run with an administrator and a change | 563,000 | the cache never hides a change that was over; a Complete Snapshot is one state of Kea; a new Subnet gets a free identity |
| `stale` | two pages, a change that removes a Subnet, one failed invalidation | | a disagreement below |
| `addresses` | two workers and two Servers in six scenarios, up to three orders, three moves of Kea, one edit of an operator and one failure | 796,000 | a reported address keeps its row and link; two undisturbed jobs bring every link and status in order, also around a forced claim; nothing is retired that stayed reported, also when a reservation passes between the two reads; rows of operators stay; one row for one identity |
| `networks` | the same for a Prefix and an IP Range with two edits; the barrier with two Servers | 743,000 | a reported object keeps its link and status; the marker names its owners; two undisturbed jobs bring it in order; a cleanup waits for each adoption, and once |
| `reservations` | two requests, a document of two entries, or a traversal of two sources; one change of Kea, one of the DDNS settings, one lost reply; hostnames of one and two labels, with a dot at their end and without | 1,159,000 | an edit changes only its own fields; the entered name is the published one; an import stops where its outcome is not known; a traversal without a diagnostic has every Reservation that stayed |
| `leases` | up to three addresses, two clients, two changes, one lost reply | 1,386,000 | a read without an excluded kind has every Lease that stayed; a write goes to the Lease that the page showed; a claim was requested; a page offers what the Reservations allow |
| `plugin` | two imports in each of five scenarios, three operations around the key, a branch | 799,000 | an undisturbed import shows what Kea reports; a delegated Prefix keeps its link while it is reported; a receipt covers what stayed; mappings point at the row that they were recorded for; a reference changes only under the key, and who waits for the key keeps nobody waiting; a replay spares newer changes of main, and a revert restores |
| `ends` | two workers with a crash, or one with a killed run; two changes; reads and pages, each with failures | 142,000 | the periodic synchronization stops for good only behind the record of a killed run; a run tries every Server; changes, reads and pages end |

Why the bounds are enough. Two operations show every interleaving of a pair,
and the lock admits no more than one at a time, so a third one adds waiting and
no new pair. One Subnet ID more than there are Subnets lets an ID be freed and
taken by another network; two IDs let the highest one be in use
(`AllocatedIds` at its limit). Two Shared Networks let an edit leave one and join
the other, so it has two steps to undo. For the links, two Servers and two or
three sources give an object a last link, a link of another source of the same
Server, and one of another Server; a third order lets a run that began first
clean last. Four job slots let a record be replaced while its old entry is still
in the queue. Three rows on two threads let one wait for the lookup of another.
Two sources of Reservations let a traversal change the source. Each disturbance has a small budget (`Budget`, `MaxOrders`, `MaxMoves`, `MaxEdits`,
`MaxFaults`, `MaxCrashes`, `MaxKills`, `MaxRaces`, `MaxSaves`, `MaxKea`, `MaxDns`,
`MaxTime`, `MaxClients`, `MaxOps`, `MaxChanges`, `MaxBranch`, `MaxMain`), because
each property is violated by at most two of them: one failed command, one foreign
write, one late request, one restart, or a pair. Every budget is a constant of
the model, not a state constraint. The instances that mix all kinds of
disturbances are left out for size; each pair that a property talks about is in
some run. Every property is broken by a mutant of the code that it is about
(`PROJECT.json`, `mutants`).

Symmetry is used for operations, pages, readers, workers and requests where the
specification and its constants do not tell them apart, and not in `ends`, which
checks liveness, nor in `leases` and `plugin`. `CHECK_DEADLOCK FALSE` is in
`reservations`, `leases`, `plugin` and `ends`: there a scenario stops when its
requests, reads or imports are over and the budgets are spent. The other runs
check for deadlocks: their specifications say when the system may stop.

## What the code does against its documents

With a run that shows it:

* **`rollback`**. The undo of `subnet{v}-add` compares the Subnet ID, the network
  and the Shared Network, and nothing else, so it deletes a Subnet to which an
  administrator added a Pool after the add. ADR 0005 says that a step is undone
  *only when the target still holds the state that this operation wrote*.
* **`snapshot`**. A Reservation mutation persists the running configuration
  without the lock. When that happens between the first step of a change and its
  rollback, the file keeps the half-done change, and a restart of Kea brings it
  back, although the operation raised the rejection. ADR 0005 says of a
  rejection: *nothing that this operation wrote is live*.
* **`stale`**. A failed invalidation is logged and ignored. A change invalidates
  before its command and after the reply. In the run the first one succeeds, a page
  fills the new generation while Kea still runs the old state, and the second one
  fails, so the next page gets the snapshot from before the change, for up to
  `DISPLAY_SNAPSHOT_TTL`. ADR 0001 says:
  *The cache generation already guarantees that no served snapshot predates the
  last configuration change.*
Met while modelling, in the models but without a run of their own:

* `jobs.py:262` logs *Periodic IPAM sync will resume now* when the repair removed a
  record. The repair looks only at records that are scheduled or pending
  (`jobs.py:227`). Two workers start at once and find the same record without a live
  entry. The first removes it, schedules a job and starts its run, which is killed.
  The second counts the record as removed too and logs the line; its `enqueue_once`
  keeps the record of the killed run, which stays at `running`, and no run starts
  again, although workers start again and again. `PeriodicGoesOn` excludes it
  (`LeftRunning`).

* `docs/adr/0006-the-ipam-sync-owns-objects-through-links.md:159` says that *an
  object that the DHCP plugin references is never removed or deprecated*. A run
  reads the references once before its cleanups (`ipam_reconciliation.py:1471`),
  so a reference that is made between the read and the cleanup does not count
  (`Refer`).
* `docs/adr/0002-concentrate-reservation-record-semantics.md:47` says that *a
  managed-fact conflict rejects the update*. Two requests can both compare their
  fingerprints before either sends its update (`kea.py:1540`). `EditKeepsTheRest`
  speaks of the record that the update read.
* `README.md:61` says that *a saved Reservation keeps its stored hostname until
  you edit the name*. Kea holds the hostname `h.`, with the dot, in a Subnet that
  has a qualifying suffix. The form shows `h`; saving it untouched stores `h`, and
  Kea then publishes the name with the suffix (`published_name.py:57`,
  `views/reservation_mutations.py:252`). TLC finds this within five steps when
  `StoredNameStays` is stated without `ShownBare`, the case that it and
  `PublishesTheName` leave out. An edit that moves the address to a Pool with
  another qualifying suffix also stores another hostname, so that the same name
  stays published.

## Fairness

Only the run `ends` checks liveness, and `MCFairness` states what it assumes.

* *Configuration Changes*: weak fairness of `Prepare(op) \/ Act(op)` for each
  operation: an operation that can go on does so. The code bounds each wait:
  `LOCK_WAIT_SECONDS` for the lock, the timeout of the HTTP session for each
  request to Kea. Nothing says that a request succeeds, that the lock is granted
  rather than timed out, or that any disturbance happens. Nothing is assumed of
  the operators, and `EveryChangeEnds` speaks of started operations.
* *Synchronization jobs*: weak fairness of `Work(w)`, what a worker does on its
  own (a stopped worker starts again: the deployment restarts `rqworker`, and
  the repair is in its start), and strong fairness of `Take(w)`: a worker that is
  up again and again takes the entry of the queue. No fairness for a crash, a
  failure or an operator.
* *Reads and pages*: weak fairness of the steps of a read, and of each thread of a
  page; a request to Kea ends by its timeout.

## Theorems

They hold for every value of the constants that satisfies the ASSUMEs of the
modules, and are checked to the last leaf. A hypothesis beyond these is in the
table.

| Module | Theorem | Statement |
|---|---|---|
| `ConfigWriteProofs` | `TypeCorrect` | `Spec => []TypeOK` |
| | `LockExcludes` | `Spec => []Exclusive` |
| | `ReadsStayCurrent` | `Spec => []ReadsAreCurrent` |
| | `PersistIsDurable` | `Spec => []PersistedSurvivesRestart` |
| | `NothingLost` | `Spec => NoLostUpdate` |
| | `SeenSubnetOnly` | `Spec => ActsOnSeenSubnet` |
| | `RollbackFindsItsStep` | `Spec => RollbackSparesMembership` |
| | `OneStepEach` | `AtomicSpec => AppliedAsAWhole`: it implements `ConfigChange` |
| | `RejectedLeavesNothing` | `Spec => []RejectedNotLive`, if Kea does not restart, or only a change under its lock persists |
| `SubnetCatalogueProofs` | `TypeCorrect` | `Spec => []TypeOK` |
| | `CompleteSnapshots` | `Spec => []CompleteIsLive` |
| | `NewSubnetsAreFree` | `Spec => []CreatesOnFreeIdentity` |
| | `PagesShowChanges` | `Spec => []ServedAfterChanges`, if no invalidation fails and no request runs late |
| `IpamOwnershipProofs` | `TypeCorrect` | `Spec => []TypeOK` |
| | `ReportedStays` | `Spec => []KeptWhileReported` |
| | `CuratedStays` | `Spec => CuratedUntouched` |
| | `OneObjectEach` | `Spec => OneObjectPerIdentity` |
| | `RetiredRightly` | `Spec => RetiredWhenUnreported` |
| `NetworkOwnershipProofs` | `TypeCorrect` | `Spec => []TypeOK` |
| | `ReportedStays` | `Spec => []KeptWhileReported` |
| | `MarkerCorrect` | `Spec => []MarkerShowsOwners`, if no Server is deleted or the object is an IP Range |
| | `JobsSettle` | `Spec => []SettledAfterRounds`, if all jobs of one Server have one plan |
| `SyncJobsProofs` | `TypeCorrect` | `Spec => []TypeOK` |
| | `RunsCorrect` | `Spec => []RunsHold` |
| | `OwnersKeepObject` | `NoOwnerLosesObject` of `AdoptionBarrier` |
| | `BarrierWaitsOnce` | `AdoptionWaitsOnce` of `AdoptionBarrier` |
| `MetadataScopeProofs` | `TypeCorrect` | `Spec => []TypeOK` |
| | `KeyWaitsSafely` | `Spec => []KeyWaitsAlone` |
| | `KeyProtects` | `Spec => ProtectedUnderKey` |
| | `PrefixesStay` | `PrefixKept` of `ImportReservations` |
| | `RowsStay` | `KeepsRows` of `ImportReservations`, in every step |
| | `ReceiptsWhole` | `PublishesWhole` of `ImportReservations`, in every step |
| | `MappingsMean` | `MappingsMeanTheirTarget` of `MappingReplay` |
| | `RevertsRestore` | `RevertRestores` of `MappingReplay` |
| | `ReplaysSpare` | `KeepsNewer` of `MappingReplay`, in every step |
| | `ImportMirrors` | `MirrorsWhenAlone` of `ImportSettings` |
| | `ImportShowsRows` | `RowsShown` of `ImportSettings` |
| `LeaseProofs` | `TypeCorrect` | `Spec => []TypeOK` of `LeaseEdits` |
| | `ClaimsCorrect` | `Spec => []ClaimsRequested` |
| | `WritesAsSeen` | `Spec => WrittenAsSeen` |
| | `ReadsComplete` | `NothingMissed` of `LeaseReads`, if Kea answers in order |
| | `ReadsCapped` | `CapsHold` of `LeaseReads` |
| | `OffersTrue` | `OffersAgree` of `LeaseBadges` |
| `ReservationProofs` | `TraversalsComplete` | `CompleteHoldsAll` of `ReservationReads`, if Kea's cursors are its own |
| | `CommandsEnd` | `CommandsBounded` of `ReservationReads` |
| | `ImportsStop` | `ImportStops` of `ReservationEdits` |
| | `EditsKeepTheRest` | `EditKeepsTheRest` of `ReservationEdits` |
| | `PublishesNames` | `PublishesTheName` of `ReservationEdits` |

**The hypotheses.** `RejectedNotLive` is false when Kea restarts from a file that
was written in the middle of a change: by the persist step of a Reservation
mutation (the run `snapshot`), or by a change that went on after the lock of
another one was lost. The theorem excludes the restart or both writers, and
nothing else: the lock may be lost as long as Kea runs, and an administrator has any commands.
`ServedAfterChanges` is false when an invalidation fails (the
run `stale`) and when Kea runs a change after the operation ended: the theorem is
for the environment without them. `MarkerShowsOwners` is false for a Prefix whose
Server is deleted: the deletion takes the links of the Server and leaves the
marker, which then names a source that is gone; an IP Range has one kind of
source, so nothing changes. Kea may answer in any order or with any cursor in
`ReadsCapped` and `CommandsEnd`; what a read may be said to hold depends on the
order, so `ReadsComplete` and `TraversalsComplete` need it.

A module that is an instance in a proof module has its assumption as a definition,
which is a hypothesis of the theorems about it: `ReadsAssumption` of `LeaseReads`
and `ReservationReads`, `BadgesAssumption`, `BarrierAssumption`,
`ReservationsAssumption`, `SettingsAssumption` and `ReplayAssumption`. TLC evaluates
each of them in every run that has the module (an ASSUME of `MCLeases`,
`MCReservations`, `MCNetworkScenarios` and `MCPlugin`). They say which sets the
constants range over, and what Kea and PostgreSQL see to: a Reservation has its
identifier once in a Subnet, or once in the global scope, of its family
(`ReservationsAssumption`); a configuration has each Subnet and client class once,
each option once in a place, and uses the option space of its family only
(`SettingsAssumption`); the key of a deleted Server row is not used again
(`Unused` in `AdoptionBarrier`).

**The assumptions.** `None`, `Unknown` and `Outside` differ from the values that
they stand beside, in every module (in `KeaConfig`, `None` is also no set of Pools
and no Subnet). Requests, orders, moves and commands have the
forms that their code gives them. In `IpamOwnership` and `NetworkOwnership`, the
initial links are at number 0 and belong to rows that exist (`StartAssumption`),
and a marked network starts with the marker of its live sources, as the release
before leaves it; a link that a cleanup marked, and no claim confirmed since, is
the only one of a deprecated network, which every step preserves (`AloneNext`).
In `NetworkOwnership` a plan names each source once (`reconcile`). `SubnetCatalogue` starts with one Subnet for each network, which
Kea enforces. The budgets are natural numbers of any size.
`LoweredAssumption` says that lower case is idempotent.

### ConfigWrite

`TypeOK` is not inductive. The action that sends a step takes the head of a
sequence, which must not be empty; the update of a Subnet starts from the
definition that an earlier action read; the read of a scope looks up the Subnet
that the form showed. So the inductive invariant is

    IInv == ControlOK /\ KeaOK /\ InputOK /\ Shape

`ControlOK` and `KeaOK` are the two halves of the type invariant, `InputOK` is
what each operation got from its operator (a request of the right form, and a
form that showed the target), and `Shape` says which local values exist at which
`pc`: steps while sending, undo commands while undoing, a view after the reads.
There is one lemma per action; the actions that share a way to go on (`Go`,
`Reject`, `Conclude`, `Abandon`) share a lemma about it, `Advance`.

The lock (`LockInv`) is inductive on top of `IInv` only as a pair: that an
undisturbed operation holds the lock alone (`Exclusive`), and that while it reads,
Kea runs what it read (`ReadsAreCurrent`). A foreign write marks every operation
under the lock as disturbed, and the loss of the lock marks its holder, so both
facts are preserved without an assumption on the environment. `Advance(op)`
summarises what an action of an operation can do to the lock, to its own place and
to the other operations, and there is one lemma for each group of actions.

The persist step needs `DiskInv`: the property, and that no operation before its
end says *persisted*. The proof uses `MarksKept`: an action of an operation marks
a part with itself only when it sends a command, and the file gets the marks of
the whole running configuration at once. An operation that ended sends nothing
more, a late request is marked `Outside`, and a restart copies both the file and
its marks.

What a change writes needs the plan of the change. `PlanInv` says of each
undisturbed operation what its reads found (`Found`), what it compared with the
form (`Compared`), which steps it has still to do (`Ready`), and where Kea is on
its way (`Trail`): Kea runs the configuration that the operation read, with the
effects of exactly the steps that the undo list `done` undoes. At a check, Kea
runs that or the result of the next step (`MayHaveRun`), and nothing else. Each
kind of request has its plan, so `PlanInv` is where the twelve operations differ;
`StepLeads` says what the next command of a plan leads to, and there is a lemma
for each form of plan. `NoLostUpdate` and `ActsOnSeenSubnet` follow for a command
that is sent from the trail: what the command replaces is what the form showed.
`UndoInv` adds that what the read before an undo saw holds until the undo is sent,
unless somebody comes from outside the lock, and gives `RollbackSparesMembership`.

The refinement uses all of these and `CalmInv`: while only Kea and the network
fail (`OnlyFaults`), nothing is disturbed, nothing is in flight, and what holds
the lock is under it. Each action then keeps what `ConfigChange` sees, or it is
one of its steps: the last command of a plan, or its check, is the step in which
the change takes effect. The intermediate states of a multi-step change are
hidden by the mapping while the lock is held, which is where `Trail` is needed: it
says what the configuration will be when the steps in `done` are undone.

`RejectedNotLive` must hold also when somebody writes between the steps, so it
cannot rest on `Trail`. `AimInv` says what is left of the plan whoever disturbs it:
what the next step aims at, and what the undo of each step that was done would
restore. `AccountInv` accounts for each part with the mark of a change that can
still be rejected: a step that is in `done`, or the step whose reply is awaited,
wrote it, and the undo or the check of that step finds it (`Live`). A check that
does not find it means that another writer took the place (`Overtaken`). A part
that an undo gives back loses its mark. The file has no part of a change that goes
on (`Saved`) as long as the lock orders those who write it (`Locked`).

### SubnetCatalogue

`IInv` has the types, and that there are no more generations than invalidations,
which is an argument about cardinalities: each change notifies twice, each
failed invalidation spends a budget. `TruthInv` says of each snapshot of a reader
and of each cache entry that, if it is complete, its identities are those of the
state that the configuration read had. Its lemma is about `Reconcile`: the
list and the configuration agree on one set of facts only when no membership
moved between the two reads. `ScopeInv` relates what a scope lists to what Kea
had, and what it prepares to be created to the list. `ServeInv` says that a cache
entry of the current generation includes each change that is over, that an entry
of any generation includes what each page of that generation is owed, and that
two pages of one generation are owed the same (`Owes`): no change ends without a
new generation, so the generation decides what was over.

### IpamOwnership and NetworkOwnership

A reported object stays because of an order: a cleanup removes a link only when
its number is not past the cutoff, and a run takes its cutoff before it reads. The
invariant must say this while the claims of other workers are under way. In
`NetworkOwnershipProofs` a claim is one step, and `InWorld` says of each worker
that what it observed and is *fresh* is still reported, and that when a complete
phase of it could take the link of a reported owner (`Behind`), the claim of
that owner is still before it (`Unclaimed`). In `IpamOwnershipProofs` a claim
reads under the locks and writes later. So there `Supported` says of a cutoff and
an owner that some row keeps what the owner reported with a link that is not older
than the cutoff, and that each claim that can still be applied (`Committing`) has
a number past it. `Holds` says what a claim found under the locks: its rows stay
in their VRF, its legacy rows stay without links, and its number is the newest.
The rows, the links and the workers are related for every cutoff at once
(`Sustains`), and there is a lemma for each action about what it sustains.

`RetiredWhenUnreported` speaks of each source that a run has found reported all
the time since it began, although the run reads its sources at two moments. Its
invariant `HInv` says of a worker that holds such a source and has its claim behind
it (`Past`): one row is in the VRF, it has the marker and the link of the source, and
the number of that link is not behind the cutoff of any worker that could take it
(`Confirmed`). While the claim is between its read and its write, `Confirming` says
that what it found are all the rows of the VRF. A cleanup that retires the row for
another source then finds the link of this one and only drops its own; a cleanup of
the same source finds a number that is not behind its cutoff. `Calm` says which steps
of a worker cannot disturb this, so that each lemma treats only what its action does
to the rows.

`CuratedUntouched` needs only what `Holds` says of the rows that a claim has found,
and that budgets of operators count only their edits (`BudgetOK`).
`OneObjectPerIdentity` needs that a claim under the locks found every row of its
identity, as long as no operator edited (`FoundAll`). `MarkerCorrect` needs that
the object has a marker that fits its live sources whenever these agree on the
length; that disagreement leaves the old marker is why the property speaks of
agreement over all linked sources and the invariant over the live ones.

`JobsSettle` says what two jobs in a row have done while the jobs of other Servers,
imports, pages and forced claims go on. Its hypothesis is that all jobs of one
Server have one plan (`JobsAlike`), which comes from its settings. The argument has
four parts. A link that is marked and not confirmed is alone (`Alone`). A worker
that nothing disturbed *knows* the world (`Knows`, `CalmInv`): its reports are
what Kea says; its cutoffs are past the links of silent owners; the links of
what it claimed are newer than its cutoffs and have the length that Kea reports,
and exist while any silent owner has one; and what it cleaned is gone, or may
stay. The steps of such workers are *calm* to each other (`CalmTo`): they make no
link for a silent owner and none with a wrong length, so the knowledge of one
survives the steps of all others (`KnowsStays`). What a whole job knows when it
ends is then true of the Server (`Fixed`): no planned link disagrees with Kea, and
no silent one stays without a reason. The second job claims in such a world, so
each of its claims is applied, or is *stuck* for a reason that only an operator
can remove: the object lost its marker, the new marker has no room, or a link that
no cleanup of this Server takes disagrees (`Settles`, `ClaimSettles`). After the
first job alone this is not so, because a link of the Server itself can be the
one that disagrees. The proof showed that two conditions are needed, and they
are part of the count. A change by another Server, or a forced claim, after the
two jobs can undo the order, so it starts the count again. And without the last
conjunct of `Counts` a second job that outlives its count could be the second one
of the next count too.

### SyncJobs and AdoptionBarrier

A Server that a run must try is on its list or in its summary (`LocalOK`), and
the interval that a run read is the saved one until somebody saves another; an
entry that waits in the queue has its record (`QueuedHasRecord`).

The barrier lets a removal through only when nothing is pending, so what counts is
what a receipt stands for. `BarrierReceiptsLinked` says that what a receipt calls
observed has its link while Kea reports it, and `BarrierRunOK` says the same of
what a run has gone through and not yet published. A run that may remove has
nothing pending, so each owner that can report the object is linked, and an
object with such a link is not removed. This is preserved when a form that was
opened earlier is saved, because the receipts are not among the columns it writes.
`BarrierSettledOK` (a settled Server has observed all that it can report) gives
the other half.

### MetadataScope and MappingReplay

`Relies` says what each step of an operation relies on: a write has the key; a
deletion has the key before it removes the row, or the row lock over a row that no
target refers to. `Apart` says what a step of one worker leaves to the others, so
the invariant is preserved with one lemma per action and without a case for each
pair of workers. `NoDangling` (no target refers to an endpoint that is gone) is
part of it. `KeyWaitsAlone` adds that a worker that has no row lock before the key,
and none while it waits for it, is in nobody's way (`WaitIInv`).

In `MappingReplay` the databases are compared row by row. `ReplayMeans` is the
property, of main and of what the branch copied; `ReplaySound` says that a target
refers to what exists; `ReplayBranchOK` says that a branch made no rows and lost a
mapping only with its target. A validated replay keeps `ReplayMeans`: a row that
the replay brings back has the generation that its mapping saw, and each mapping
that the validation did not see keeps its target. `ReplayMergeOK` relates main
after the merge to main before it, as long as nothing else changed, and a revert
applies the same relation from the other side.

### ImportReservations and ImportSettings

`PrefixKept` is about two imports that read at different moments.
`ImportPrefixSafe` says of each import that is about to write that a delegated
Prefix that is known is either in what it read or was confirmed after its cutoff
(`fresh`), so its cleanup spares it. `ImportReadOK` relates what was read to what
stayed in Kea, and `ImportCleanOK` says of each family that an import wrote without
a failure that all that stayed in it was imported, which is what a receipt claims.

For `ImportSettings`, `SettingsMeOK` says in which order a run reads and writes its
families, and `SettingsAloneOK` that a run that is alone has the rows show each
family that it wrote (`SettingsShownAt`). Two lemmas carry the proof. The
transaction of a family shows its configuration (`SettingsCommitShows`): a child
compares itself with the setting that was stored, and an option has one row for
its definition and parent. And the transaction of the second family leaves what
the first one shows (`SettingsCommitKeeps`): it only fills a gap of the common
setting, its children are others, and its options in the shared row are in other
spaces. For this the configuration must report an option once in a place
(`SettingsReportedOnce`).

### Leases and Reservations

*Edits of Leases.* `PageOK` says of each request, on its own, what the shown and
the fresh Lease are (`ChangeOK`), which rows are to be added (`RowsOK`), and of a
claim that the client and the lifetime are the requested ones (`ClaimOK`). Clients
and the clock change the Leases and not the pages, so the properties follow at
the step that writes.

*Reads of Leases.* `ReadInv` says that a paged read has each Lease that Kea held
all the time and whose address is up to the cursor, or names its kind
(`PagesRead`). Kea's page is the least addresses after the cursor, defined by
their rank among the present ones, so a lemma says that what is not in a full page
is after its last address. A lookup of one address has the kinds that are not left
(`LookedUp`).

*Offers of a page.* Threads share the answers of lookups. `BadgeMemoOK` says that a
stored answer is true of a Reservation that did not change since the page began,
and `BadgeRowOK` that the keys that a row has passed had none: absence is only what
Kea answered for each of them, and a failed lookup is not an answer. The order of
the keys, first the Subnet and then the global scope, decides for Sync.

*Traversals of Reservations.* `WalkInv` says that a traversal without a diagnostic
holds what it has passed: all Reservations before its cursor in the order of
sources and places (`PassedOK`). The bound of the commands counts records and
pages: a page with n records is worth `n * (MaxEmpty + 1)` commands, since no
more than `MaxEmpty` empty ones come in between (`AskedOK`). It holds for any
cursors that Kea returns.

*Edits of Reservations.* `EditInv` relates each stage of a request to the record
that was shown: the form shows the published name of the stored one (`FormOK`);
the change keeps or publishes the name under the suffixes of the two reads
(`TargetOK`); and the command contains the merged record (`SendOK`). What it needs
of names is a set of lemmas about `PublishedName`: what `StoredHostname` stores is
published as the entered labels, lowered, whether the name ends in the suffix, has
one label, or neither. An import has sent the first entries of the document, and
all of them but the last were created (`ImportOK`), for documents of any length.

## What is only model-checked, and what is not modelled

Only model-checked:

* Liveness, all in the run `ends`: the prover does not treat fairness and ENABLED.
* `SettledAfterRounds` of `IpamOwnership`: it speaks of what two jobs of one Server
  in a row have done, while the jobs of others go on. There a claim reads under the
  locks and writes later, so the argument of `JobsSettle` does not carry over as it
  is: a step of a worker between its read and its write is not calm to the others.
  Its count starts again as that of `NetworkOwnership` does, and the scenario
  `taken` has a forced claim of another Server before, between and after two jobs.
* Some invariants of the runs are conjunctions over the scenarios of a module (a
  proof cannot name them, as the module is for TLC); what they consist of is proved:
  `ReadsHold` (`ReadsComplete`, `ReadsCapped`), `TraversalsHold`
  (`TraversalsComplete`, `CommandsEnd`), `OffersAgree` (`OffersTrue`), `ShownWhenAlone`
  (`ImportMirrors`, `ImportShowsRows`), `PrefixKept` (`PrefixesStay`), `WholeAndApart`
  (`RowsStay`, `ReceiptsWhole`), `MappingsHold` (`MappingsMean`, `RevertsRestore`),
  `NewerMainKept` (`ReplaysSpare`) and `AdoptionWaitsOnce` (`OwnersKeepObject`,
  `BarrierWaitsOnce`).

Not modelled:

* `ConfigWrite`: the lifetimes and timers of a Subnet (they follow the same path
  as `managed`), a Kea without `config-test`, and two URLs for one daemon (the
  lock key is the URL; the plugin documents it).
* `SubnetCatalogue`: collisions within one source, memberships that do not parse,
  the hash that only words a diagnostic, a worker that stops between a command
  and its second notification, and several Server rows for one daemon (the
  cache generation belongs to a row, the lock to a URL). The readers are not
  tied to the writers, which allows more behaviours than the code.
* IPAM ownership: MAC addresses (`sync.py`), which have no links, and the
  parsing of Prefixes. One address or network is modelled at a time; a claim
  that needs the locks of two identities (the global table and the VRF) takes
  both in one step here.
* Reservations: a delete names the identity and not the record, so it removes
  what is there when Kea runs it (`kea.py:1555`); the documents accept that
  window.
* Leases: the FQDN flags, which an edit clears with the hostname (`leases.py:1120`),
  and on a page the conflict with a Reservation of another kind, which counts as a
  Reservation that does not hold the address (`views/leases.py:1242`).
* Mappings and branches: the sync of a branch from main, the Tags in a replay (`dhcp_mapping_lifecycle.py`,
  `_refuse_mixed_tags` and `_copied_named_endpoints`), the iterative merge
  strategy, and targets that a branch creates. Of the Branch guard, the checks
  around a request and the controls of a page (`branching.py`,
  `branch_controls.py`) decide from one request alone. Of the Event scope, the
  queue of events that waits for a commit.
* Value parsing, pages and forms, and the REST API: functions of one input that
  keep no state and that tests reach (`PROJECT.json` has the reasons).
