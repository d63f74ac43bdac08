--------------------------- MODULE SubnetCatalogue ---------------------------
(***************************************************************************)
(* src/netbox_kea/subnet_catalogue.py: the Subnets of one Server and       *)
(* address family as NetBox sees them.  A read takes the identities from   *)
(* subnet{v}-list and the configuration from config-get, which Kea answers *)
(* one after the other while Configuration Changes and an administrator    *)
(* write.  A page can get the snapshot from a cache, whose generation      *)
(* server_configuration.py rotates around each change.                     *)
(***************************************************************************)
EXTENDS SubnetIds, FiniteSets

CONSTANTS
    Networks, Names,  \* the CIDRs, and the names of the Shared Networks
    None,             \* no Subnet, no Shared Network, no snapshot
    Unknown,          \* a membership that Kea did not send
    Displays,         \* the pages that an operator opens: display
    Scopes,           \* the operations that read live: mutation
    Syncs,            \* the synchronization runs: for_synchronization
    Changes,          \* the changes that NetBox sends
    Effect,           \* what each one does: the Subnet ID, and the Subnet that it has then
    AdminEffects,     \* the effects that an administrator can have on Kea directly
    InitialSubnets,   \* the Subnets that Kea can start with
    HasHook,          \* the daemon loads subnet_cmds
    SendsMembership,  \* subnet{v}-list shows the Shared Network of each Subnet
    Budget            \* how often each kind of disturbance can happen

Readers == Displays \cup Scopes \cup Syncs

Subnet  == [network : Networks, member : Names \cup {None}]
Subnets == [Ids -> Subnet \cup {None}]
Present(s) == {id \in Ids : s[id] # None}
Effects == [id : Ids, subnet : Subnet \cup {None}]

Disturbances == {"admin", "fault", "late", "cache"}

ASSUME CatalogueAssumption ==
    /\ None \notin Names /\ Unknown \notin Names \cup {None}
    /\ Displays \cap Scopes = {} /\ (Displays \cup Scopes) \cap Syncs = {}
    /\ IsFiniteSet(Scopes) /\ IsFiniteSet(Changes)
    /\ Effect \in [Changes -> Effects]
    /\ AdminEffects \subseteq Effects
    /\ InitialSubnets \subseteq {s \in Subnets : \A i, j \in Present(s) : s[i].network = s[j].network => i = j}
    /\ HasHook \in BOOLEAN /\ SendsMembership \in BOOLEAN
    /\ Budget \in [Disturbances -> Nat]

VARIABLES
    live,        \* the Subnets that Kea runs
    generation,  \* the generation of the cache: a new one for each invalidation
    cache,       \* the snapshot of each generation
    pc,          \* the next step of each reader
    reader,      \* the local state of each reader, see NewReader
    change,      \* how far each change came
    applied,     \* history: the changes that Kea ran
    budget       \* the disturbances left

vars == <<live, generation, cache, pc, reader, change, applied, budget>>

\* Each scope and each change invalidates twice.
Generations == 0..(2 * Cardinality(Scopes) + 2 * Cardinality(Changes))

Fact == [id : Ids, network : Networks, member : Names \cup {None, Unknown}]

\* One answer of Kea: the facts that parsed, and whether they are all the facts.
Observation == [available : BOOLEAN, complete : BOOLEAN, facts : SUBSET Fact]

Unavailable == [available |-> FALSE, complete |-> FALSE, facts |-> {}]

NewReader ==
    [generation |-> 0,     \* the cache generation that it read first
     identity   |-> None,  \* what subnet{v}-list answered
     retried    |-> FALSE, \* the sources disagreed once
     snapshot   |-> None,  \* what it got
     created    |-> None,  \* the identity that prepare_creation returned
     listed     |-> None,  \* history: what Kea ran at its last subnet{v}-list
     includes   |-> {},    \* history: the changes that Kea had run then
     owed       |-> {}]    \* history: the changes that were over when it started

------------------------------------------------------------------------------
(* The reconciliation of the two sources.                                  *)

FactOf(s, id, member) == [id |-> id, network |-> s[id].network, member |-> member]

\* The facts of s that parse. A fact that does not parse makes the observation incomplete.
Observed(s, omitted, withMembership) ==
    [available |-> TRUE,
     complete  |-> omitted \cap Present(s) = {},
     facts     |-> {FactOf(s, id, IF withMembership THEN s[id].member ELSE Unknown) : id \in Present(s) \ omitted}]

SameIdentity(f, g) == f.id = g.id /\ f.network = g.network
SameMembership(f, g) == f.member = Unknown \/ f.member = g.member

Matched(f, facts) == \E g \in facts : SameIdentity(f, g)

Disagree(identity, configuration) ==
    /\ identity.available /\ configuration.available
    /\ \/ \E f \in identity.facts : ~Matched(f, configuration.facts)
       \/ \E g \in configuration.facts : ~Matched(g, identity.facts)
       \/ \E f \in identity.facts, g \in configuration.facts : SameIdentity(f, g) /\ ~SameMembership(f, g)

\* The facts that share an ID or a network with a fact that contradicts it: _cross_source_conflicts.
Quarantined(identity, configuration) ==
    LET clashes  == {pair \in identity.facts \X configuration.facts :
                        (pair[1].id = pair[2].id) # (pair[1].network = pair[2].network)}
        involved == UNION {{pair[1], pair[2]} : pair \in clashes}
        networks == {f.network : f \in involved}
        ids      == {f.id : f \in {g \in identity.facts \cup configuration.facts : g.network \in networks}}
    IN  {f \in identity.facts \cup configuration.facts : f.id \in ids \/ f.network \in networks}

\* Verified Subnets: the identity source names them, and the configuration does not contradict it.
Verified(identity, configuration, consistent) ==
    LET known == identity.facts \ Quarantined(identity, configuration)
    IN  {g \in configuration.facts : \E f \in known : SameIdentity(f, g) /\ SameMembership(f, g)}
        \cup {f \in known : ~Matched(f, configuration.facts)
                            /\ ~(configuration.available /\ configuration.complete /\ consistent)}

\* Mutant: two complete answers make a complete snapshot.
CompleteBySources(identity, configuration, consistent) == identity.complete /\ configuration.complete

Complete(identity, configuration, consistent) ==
    /\ identity.complete /\ configuration.complete /\ consistent
    /\ Cardinality(Verified(identity, configuration, consistent)) = Cardinality(identity.facts)
    /\ Cardinality(identity.facts) = Cardinality(configuration.facts)

\* Mutant: a complete identity answer confirms absence, although the configuration disagrees with it.
ConfirmsByIdentity(identity, consistent) == identity.complete

ConfirmsAbsence(identity, consistent) == identity.complete /\ consistent

\* The snapshot of one read. `configured` are the Configured Subnets, which no identity fact verifies. `shows` and
\* `includes` are history: what Kea ran at the config-get, and the changes that it had run at the subnet{v}-list.
Reconcile(identity, configuration, shows, includes) ==
    LET consistent == ~Disagree(identity, configuration)
    IN  [verified   |-> Verified(identity, configuration, consistent),
         configured |-> {g \in configuration.facts \ Quarantined(identity, configuration) : ~Matched(g, identity.facts)},
         complete   |-> Complete(identity, configuration, consistent),
         confirms   |-> ConfirmsAbsence(identity, consistent),
         settled    |-> configuration.available /\ (identity.available \/ ~HasHook),
         shows      |-> shows,
         includes   |-> includes]

Snapshots == [verified : SUBSET Fact, configured : SUBSET Fact, complete : BOOLEAN, confirms : BOOLEAN,
              settled : BOOLEAN, shows : Subnets, includes : SUBSET Changes]

------------------------------------------------------------------------------
Init ==
    /\ live \in InitialSubnets
    /\ generation = 0
    /\ cache = [g \in Generations |-> None]
    /\ pc = [r \in Readers |-> "idle"]
    /\ reader = [r \in Readers |-> NewReader]
    /\ change = [c \in Changes |-> "idle"]
    /\ applied = {}
    /\ budget = Budget

Spend(kind) == budget[kind] > 0 /\ budget' = [budget EXCEPT ![kind] = @ - 1]

Invalidate == generation' = generation + 1

Go(r, place, new) == pc' = [pc EXCEPT ![r] = place] /\ reader' = [reader EXCEPT ![r] = new]

\* The changes that are over, as far as NetBox knows.
Over == {c \in applied : change[c] = "done"}

Started == [NewReader EXCEPT !.generation = generation, !.owed = Over]

\* display reads the generation of the cache first.
Display(r) ==
    /\ r \in Displays /\ pc[r] = "idle"
    /\ Go(r, "lookup", Started)
    /\ UNCHANGED <<live, generation, cache, change, applied, budget>>

Lookup(r) ==
    /\ pc[r] = "lookup"
    /\ LET cached == cache[reader[r].generation]
       IN  IF cached # None THEN Go(r, "done", [reader[r] EXCEPT !.snapshot = cached]) ELSE Go(r, "list", reader[r])
    /\ UNCHANGED <<live, generation, cache, change, applied, budget>>

\* for_synchronization reads live.
Synchronize(r) ==
    /\ r \in Syncs /\ pc[r] = "idle"
    /\ Go(r, "list", Started)
    /\ UNCHANGED <<live, generation, cache, change, applied, budget>>

\* MutationScope.__enter__
Enter(r) ==
    /\ r \in Scopes /\ pc[r] = "idle"
    /\ Invalidate
    /\ Go(r, "list", Started)
    /\ UNCHANGED <<live, cache, change, applied, budget>>

\* subnet{v}-list: it answers, some entries do not parse, or it fails.
ReadList(r) ==
    /\ pc[r] = "list"
    /\ \E answer \in {Unavailable} \cup {Observed(live, omitted, SendsMembership) : omitted \in SUBSET Present(live)} :
        /\ ~HasHook => answer = Unavailable
        /\ IF answer.complete \/ ~HasHook THEN UNCHANGED budget ELSE Spend("fault")
        /\ Go(r, "config", [reader[r] EXCEPT !.identity = answer, !.listed = live, !.includes = applied])
    /\ UNCHANGED <<live, generation, cache, change, applied>>

\* Where a reader goes with its snapshot.
Ends(r, snapshot) ==
    CASE r \in Displays -> IF snapshot.settled THEN "store" ELSE "done"
      [] r \in Scopes   -> "scope"
      [] r \in Syncs    -> "done"

\* The local state after the reads.
Leaving(r) == [reader[r] EXCEPT !.identity = None, !.includes = {}]

\* config-get. When the sources disagree, both are read once more.
ReadConfig(r) ==
    /\ pc[r] = "config"
    /\ \E answer \in {Unavailable} \cup {Observed(live, omitted, TRUE) : omitted \in SUBSET Present(live)} :
        /\ IF answer.complete THEN UNCHANGED budget ELSE Spend("fault")
        /\ LET snapshot == Reconcile(reader[r].identity, answer, live, reader[r].includes)
           IN  IF Disagree(reader[r].identity, answer) /\ ~reader[r].retried
               THEN Go(r, "list", [reader[r] EXCEPT !.retried = TRUE])
               ELSE IF r \in Syncs /\ ~snapshot.complete
               THEN Go(r, "done", Leaving(r))  \* CatalogueUnavailable
               ELSE Go(r, Ends(r, snapshot), [Leaving(r) EXCEPT !.snapshot = snapshot])
    /\ UNCHANGED <<live, generation, cache, change, applied>>

\* The entry gets the generation that display read first.
Store(r) ==
    /\ pc[r] = "store"
    /\ cache' = [cache EXCEPT ![reader[r].generation] = reader[r].snapshot]
    /\ Go(r, "done", reader[r])
    /\ UNCHANGED <<live, generation, change, applied, budget>>

\* The identities that the operation can ask for: a network, and an ID or None.
Asked == [network : Networks, id : Ids \cup {None}]

\* prepare_creation, for a network with an ID that the operator chose or None.
PrepareCreation(r) ==
    /\ pc[r] = "scope" /\ reader[r].created = None
    /\ \E asked \in Asked :
        LET used == reader[r].snapshot.verified
            ids  == {f.id : f \in used}
        IN  /\ reader[r].snapshot.confirms
            /\ asked.network \notin {f.network : f \in used}
            /\ \E id \in (IF asked.id = None THEN AllocatedIds(ids) ELSE {asked.id} \ ids) :
                  Go(r, "scope", [reader[r] EXCEPT !.created = [id |-> id, network |-> asked.network]])
    /\ UNCHANGED <<live, generation, cache, change, applied, budget>>

\* MutationScope.__exit__ drops the facts.
Exit(r) ==
    /\ pc[r] = "scope"
    /\ Invalidate
    /\ Go(r, "done", [reader[r] EXCEPT !.snapshot = None])
    /\ UNCHANGED <<live, cache, change, applied, budget>>

\* The entry reached DISPLAY_SNAPSHOT_TTL, or the cache evicted it.
Expire ==
    /\ \E g \in Generations : cache[g] # None /\ cache' = [cache EXCEPT ![g] = None]
    /\ UNCHANGED <<live, generation, pc, reader, change, applied, budget>>

------------------------------------------------------------------------------
(* The changes: KeaClient._config_mutation_command.                        *)

Move(c, place) == change' = [change EXCEPT ![c] = place]

\* _notify_config_change: a cache that fails does not stop the change.
Invalidates ==
    \/ Invalidate /\ UNCHANGED budget
    \/ UNCHANGED generation /\ Spend("cache")

Notify(c) ==
    /\ change[c] = "idle"
    /\ Invalidates
    /\ Move(c, "send")
    /\ UNCHANGED <<live, cache, pc, reader, applied>>

\* Kea does not give a network two Subnet IDs.
Accepts(effect) ==
    effect.subnet # None => \A id \in Present(live) \ {effect.id} : live[id].network # effect.subnet.network

Applies(effect) == Accepts(effect) /\ live' = [live EXCEPT ![effect.id] = effect.subnet]

\* Kea runs the command, refuses it, or NetBox stops waiting for it.
Send(c) ==
    /\ change[c] = "send"
    /\ \/ Applies(Effect[c]) /\ applied' = applied \cup {c} /\ UNCHANGED budget
       \/ ~Accepts(Effect[c]) /\ UNCHANGED <<live, applied, budget>>
       \/ Spend("fault") /\ UNCHANGED <<live, applied>>
    /\ Move(c, "notify")
    /\ UNCHANGED <<generation, cache, pc, reader>>

\* Mutant: no invalidation after the reply.
NoInvalidation == UNCHANGED <<generation, budget>>

InvalidateAgain == Invalidates

NotifyAgain(c) ==
    /\ change[c] = "notify"
    /\ InvalidateAgain
    /\ Move(c, "done")
    /\ UNCHANGED <<live, cache, pc, reader, applied>>

\* Kea runs a command whose reply NetBox no longer waits for.
LateRequest(c) ==
    /\ change[c] = "done" /\ c \notin applied
    /\ Spend("late")
    /\ Applies(Effect[c]) /\ applied' = applied \cup {c}
    /\ UNCHANGED <<generation, cache, pc, reader, change>>

AdminWrites ==
    /\ Spend("admin")
    /\ \E effect \in AdminEffects : Applies(effect)
    /\ UNCHANGED <<generation, cache, pc, reader, change, applied>>

Finished ==
    /\ \A r \in Readers : pc[r] = "done"
    /\ \A c \in Changes : change[c] = "done"
    /\ UNCHANGED vars

Read(r) == Display(r) \/ Lookup(r) \/ Synchronize(r) \/ Enter(r) \/ ReadList(r) \/ ReadConfig(r) \/ Store(r)
           \/ PrepareCreation(r) \/ Exit(r)

Write(c) == Notify(c) \/ Send(c) \/ NotifyAgain(c) \/ LateRequest(c)

Next ==
    \/ \E r \in Readers : Read(r)
    \/ \E c \in Changes : Write(c)
    \/ Expire \/ AdminWrites \/ Finished

Spec == Init /\ [][Next]_vars

------------------------------------------------------------------------------
(* Properties.                                                             *)

Places == {"idle", "lookup", "list", "config", "store", "scope", "done"}

ReaderStates ==
    [generation : Generations, identity : Observation \cup {None}, retried : BOOLEAN, snapshot : Snapshots \cup {None},
     created : [id : Ids, network : Networks] \cup {None}, listed : Subnets \cup {None},
     includes : SUBSET Changes, owed : SUBSET Changes]

\* The type invariant. A Subnet ID that prepare_creation returned is one that Kea accepts.
TypeOK ==
    /\ live \in Subnets
    /\ generation \in Generations
    /\ cache \in [Generations -> Snapshots \cup {None}]
    /\ pc \in [Readers -> Places]
    /\ reader \in [Readers -> ReaderStates]
    /\ change \in [Changes -> {"idle", "send", "notify", "done"}]
    /\ applied \subseteq Changes
    /\ budget \in [Disturbances -> Nat]

\* A page shows every change that was over when the page was opened, although it can come from the cache and another
\* page can have filled the cache while Kea ran the change.
ServedAfterChanges ==
    \A r \in Displays : reader[r].snapshot # None => reader[r].owed \subseteq reader[r].snapshot.includes

\* A Complete Snapshot is what Kea ran at one moment, although its two sources were read at two moments.
CompleteIsLive ==
    \A r \in Readers : reader[r].snapshot # None /\ reader[r].snapshot.complete =>
        LET shows == reader[r].snapshot.shows
        IN  reader[r].snapshot.verified = {FactOf(shows, id, shows[id].member) : id \in Present(shows)}

\* A scope prepares a new Subnet only for an ID and a network that were free in Kea at its live read, also when Kea
\* changed between the reads or an answer was incomplete.
CreatesOnFreeIdentity ==
    \A r \in Scopes : reader[r].created # None =>
        /\ reader[r].listed[reader[r].created.id] = None
        /\ \A id \in Present(reader[r].listed) : reader[r].listed[id].network # reader[r].created.network
==============================================================================
