----------------------------- MODULE MappingReplay -----------------------------
(* The merge of a branch into main and its revert, for the targets of the     *)
(* DHCP plugin and the DHCP Import Mappings that point at them                *)
(* (dhcp_mapping_lifecycle.py, branching.py). A replay is one transaction     *)
(* under the key of MetadataScope: it is validated, then the framework        *)
(* replays the collapsed changes. Tags are left out.                          *)
EXTENDS Naturals, FiniteSets

CONSTANTS
    Targets, Mappings,      \* the primary keys of both
    Endpoints,              \* the objects that a target can refer to
    Sources,                \* the Kea identities that a mapping records
    Values,                 \* the other data of a target
    MaxBranch, MaxMain,     \* bound the changes in the branch and in main
    None

TargetRows == [generation : Nat, value : Values, end : Endpoints \union {None}]
MappingRows == [generation : Nat, source : Sources, target : Targets, seen : Nat]

\* What the constants are.
ReplayAssumption ==
    /\ {MaxBranch, MaxMain} \subseteq Nat
    /\ None \notin Endpoints /\ None \notin TargetRows /\ None \notin MappingRows

VARIABLES
    main,           \* the rows of main, with what exists of the endpoints and the Server
    base, branch,   \* the rows that the branch copied, and those that it has now
    whole,          \* the branch has the tables of the mappings and the targets
    phase,          \* "open", "merged" or "reverted"
    before,         \* main before the merge, None without one
    quiet,          \* main did not change since the merge
    clock,          \* generations: when a row was created
    budget

vars == <<main, base, branch, whole, phase, before, quiet, clock, budget>>

\* generation is created of the row, seen that of the target when it was mapped.
Target(generation, value, end) == [generation |-> generation, value |-> value, end |-> end]
Mapping(generation, source, target, seen) ==
    [generation |-> generation, source |-> source, target |-> target, seen |-> seen]

MappedTo(db, t) == {m \in Mappings : db.mapping[m] # None /\ db.mapping[m].target = t}
\* A target takes its mapping with it, an endpoint clears the references to it.
WithoutTarget(db, t) ==
    [db EXCEPT !.target[t] = None, !.mapping = [m \in Mappings |-> IF m \in MappedTo(db, t) THEN None ELSE @[m]]]
WithoutEndpoint(db, e) ==
    [db EXCEPT !.ends = @ \ {e}, !.target = [t \in Targets |->
        IF @[t] # None /\ @[t].end = e THEN [@[t] EXCEPT !.end = None] ELSE @[t]]]

Init ==
    /\ \E ends \in [Targets -> Endpoints \union {None}], v \in Values, t \in Targets, s \in Sources, m \in Mappings :
          main = [target |-> [u \in Targets |-> Target(1, v, ends[u])], server |-> TRUE, ends |-> Endpoints,
                  mapping |-> [n \in Mappings |-> IF n = m THEN Mapping(1, s, t, 1) ELSE None]]
    /\ base = main /\ branch = main /\ whole \in BOOLEAN
    /\ phase = "open" /\ before = None /\ quiet = FALSE /\ clock = 1
    /\ budget = [branch |-> MaxBranch, main |-> MaxMain]
Spend(what) == budget[what] > 0 /\ budget' = [budget EXCEPT ![what] = @ - 1]

----------------------------------------------------------------------------
(* The branch. Imports are refused in it, so that a mapping only goes with   *)
(* its target.                                                             *)

Edited(db, t) == {[db EXCEPT !.target[t].value = v] : v \in Values \ {db.target[t].value}}
                 \union {[db EXCEPT !.target[t].end = e] : e \in (db.ends \union {None}) \ {db.target[t].end}}
InBranch(db) ==
    /\ phase = "open" /\ Spend("branch") /\ branch' = db
    /\ UNCHANGED <<main, base, whole, phase, before, quiet, clock>>
BranchEdits == \E t \in Targets : branch.target[t] # None /\ \E db \in Edited(branch, t) : InBranch(db)
\* An older branch cannot delete a target.
BranchDeletes == \E t \in Targets : branch.target[t] # None /\ whole /\ InBranch(WithoutTarget(branch, t))
BranchDeletesEndpoint == \E e \in branch.ends : InBranch(WithoutEndpoint(branch, e))

----------------------------------------------------------------------------
(* Main.                                                                   *)

InMain(db) == Spend("main") /\ main' = db /\ quiet' = FALSE /\ UNCHANGED <<base, branch, whole, phase, before>>
MainEdits == \E t \in Targets : main.target[t] # None /\ \E db \in Edited(main, t) : InMain(db) /\ UNCHANGED clock
MainDeletes == \E t \in Targets : main.target[t] # None /\ InMain(WithoutTarget(main, t)) /\ UNCHANGED clock
MainDeletesEndpoint == \E e \in main.ends : InMain(WithoutEndpoint(main, e)) /\ UNCHANGED clock
\* A new row can have a primary key that was in use.
MainCreates == \E t \in Targets : \E v \in Values :
    /\ main.target[t] = None /\ clock' = clock + 1
    /\ InMain([main EXCEPT !.target[t] = Target(clock + 1, v, None)])
\* An import observes a source: it moves its mapping or creates one.
ImportObserves == \E s \in Sources, t \in Targets : \E m \in Mappings :
    /\ main.server /\ main.target[t] # None /\ MappedTo(main, t) = {}
    /\ LET known == {n \in Mappings : main.mapping[n] # None /\ main.mapping[n].source = s}
       IN  IF known = {} THEN main.mapping[m] = None ELSE known = {m}
    /\ clock' = clock + 1
    /\ InMain([main EXCEPT !.mapping[m] = Mapping(IF @ = None THEN clock + 1 ELSE @.generation, s, t, main.target[t].generation)])
\* The deletion of the Server takes the mappings.
ServerGoes == main.server /\ InMain([main EXCEPT !.server = FALSE, !.mapping = [m \in Mappings |-> None]]) /\ UNCHANGED clock

----------------------------------------------------------------------------
(* What a replay from one state to another asks of main.                   *)

ChangedTargets(from, to) == {t \in Targets : from.target[t] # to.target[t]}
ChangedMappings(from, to) == {m \in Mappings : from.mapping[m] # to.mapping[m]}
Deleted(from, to) == from.ends \ to.ends
\* Mutant: only the targets with changes of their own.
AffectedDirectly(from, to) == ChangedTargets(from, to)
\* The targets that the replay changes, those that refer to a deleted endpoint included.
Affected(from, to) ==
    ChangedTargets(from, to)
    \union {t \in Targets : main.target[t] # None /\ main.target[t].end \in Deleted(from, to) \intersect main.ends}
Destructive(from, to) == {t \in ChangedTargets(from, to) : to.target[t] = None}

\* A mapping is the same row when its generation and its identity are.
SameMapping(m, n) == m # None /\ n # None /\ [m EXCEPT !.seen = 0] = [n EXCEPT !.seen = 0]
SameIdentity(m, n) == m # None /\ n # None /\ m.source = n.source /\ m.target = n.target

\* Mutant: the mappings of the branch are enough.
AssociatedCopies(from, to) == \A t \in Affected(from, to) : \A m \in MappedTo(branch, t) :
    main.server /\ (m \notin ChangedMappings(from, to) => SameMapping(main.mapping[m], branch.mapping[m]))
\* The mappings of an affected target: those of the branch are in main, and
\* those of main are known to the branch when the target goes.
Associated(from, to) == \A t \in Affected(from, to) :
    /\ \A m \in MappedTo(branch, t) :
          main.server /\ (m \notin ChangedMappings(from, to) => SameMapping(main.mapping[m], branch.mapping[m]))
    /\ \A m \in MappedTo(main, t) :
          /\ t \in ChangedTargets(from, to)
          /\ t \in Destructive(from, to) => m \in ChangedMappings(from, to) /\ SameIdentity(main.mapping[m], from.mapping[m])

Historical(from, to) ==
    {db.mapping[m].target : db \in {from, to}, m \in {n \in ChangedMappings(from, to) : from.mapping[n] # None /\ to.mapping[n] # None}}
    \union {from.mapping[m].target : m \in {n \in ChangedMappings(from, to) : from.mapping[n] # None}}
    \union {to.mapping[m].target : m \in {n \in ChangedMappings(from, to) : to.mapping[n] # None}}
Protected(from, to) ==
    Historical(from, to) \union {t \in Affected(from, to) : MappedTo(branch, t) # {} \/ MappedTo(main, t) # {}}

\* A row is as the branch saw it: its generation and its data, or its absence.
Unchanged(row, recorded) == row = recorded
CurrentState(from, to) ==
    /\ \A t \in ChangedTargets(from, to) \intersect (Protected(from, to) \union Destructive(from, to)) :
          Unchanged(main.target[t], from.target[t])
    /\ \A m \in ChangedMappings(from, to) :
          IF from.mapping[m] = None THEN main.mapping[m] = None ELSE SameMapping(main.mapping[m], from.mapping[m])

\* The rows that come back find what they refer to and no rival.
Dependencies(from, to) ==
    /\ \A t \in (ChangedTargets(from, to) \ Destructive(from, to)) \intersect Protected(from, to) :
          to.target[t].end \in {None} \union (main.ends \ Deleted(from, to)) \union (to.ends \ from.ends)
    /\ \A m \in {n \in ChangedMappings(from, to) : to.mapping[n] # None} :
          /\ main.server
          /\ LET t == to.mapping[m].target
             IN  \/ t \in ChangedTargets(from, to) \ Destructive(from, to)
                 \/ main.target[t] # None /\ branch.target[t] # None /\ main.target[t].generation = branch.target[t].generation
NoRival(from, to) ==
    \A m \in {n \in ChangedMappings(from, to) : to.mapping[n] # None} :
        \A n \in Mappings \ {m} : main.mapping[n] # None /\ ~(n \in ChangedMappings(from, to) /\ to.mapping[n] = None) =>
            main.mapping[n].source # to.mapping[m].source /\ main.mapping[n].target # to.mapping[m].target

\* What the framework itself refuses of targets without a mapping.
Native(from, to) == \A t \in ChangedTargets(from, to) :
    /\ from.target[t] = None => main.target[t] = None
    /\ from.target[t] # None /\ to.target[t] # None => main.target[t] # None
    /\ to.target[t] # None => to.target[t].end \in {None} \union (main.ends \ Deleted(from, to)) \union (to.ends \ from.ends)

Validated(from, to) ==
    /\ Affected(from, to) # {} => whole
    /\ Associated(from, to) /\ CurrentState(from, to) /\ Dependencies(from, to) /\ NoRival(from, to) /\ Native(from, to)

\* Squash writes each changed row once; the iterative strategy is refused when
\* a mapping changed.
Replayed(from, to) ==
    LET targets == [t \in Targets |->
            IF t \in ChangedTargets(from, to)
            THEN IF to.target[t] # None /\ main.target[t] # None
                 THEN [to.target[t] EXCEPT !.generation = main.target[t].generation] ELSE to.target[t]
            ELSE IF main.target[t] # None /\ main.target[t].end \in Deleted(from, to) THEN [main.target[t] EXCEPT !.end = None]
            ELSE main.target[t]]
    IN  [target |-> targets, server |-> main.server, ends |-> (main.ends \ Deleted(from, to)) \union (to.ends \ from.ends),
         mapping |-> [m \in Mappings |->
            IF m \in ChangedMappings(from, to) THEN to.mapping[m]
            ELSE IF main.mapping[m] # None /\ targets[main.mapping[m].target] = None THEN None ELSE main.mapping[m]]]

Merge ==
    /\ phase = "open" /\ Validated(base, branch)
    /\ main' = Replayed(base, branch) /\ before' = main /\ phase' = "merged" /\ quiet' = TRUE
    /\ UNCHANGED <<base, branch, whole, clock, budget>>
Revert ==
    /\ phase = "merged" /\ Validated(branch, base)
    /\ main' = Replayed(branch, base) /\ phase' = "reverted"
    /\ UNCHANGED <<base, branch, whole, before, quiet, clock, budget>>

Next ==
    \/ BranchEdits \/ BranchDeletes \/ BranchDeletesEndpoint
    \/ MainEdits \/ MainDeletes \/ MainDeletesEndpoint \/ MainCreates \/ ImportObserves \/ ServerGoes
    \/ Merge \/ Revert
Spec == Init /\ [][Next]_vars

----------------------------------------------------------------------------
(* Properties.                                                             *)

\* Nothing in the database ties a mapping to its target: it names a primary key.
\* A mapping of main points at the row that it was recorded for, also after
\* deletions, primary keys that come back, merges and reverts (prepare_replay).
MappingsMeanTheirTarget == \A m \in Mappings : main.mapping[m] # None =>
    /\ main.target[main.mapping[m].target] # None
    /\ main.target[main.mapping[m].target].generation = main.mapping[m].seen

\* A replay leaves alone every mapping, and every target that main maps, that is
\* no longer as the branch saw it, also where it would only change it on the
\* way, with an endpoint or a target that it deletes.
LeavesNewer(from, to) ==
    /\ \A m \in Mappings : main.mapping[m] # None /\ ~SameMapping(main.mapping[m], from.mapping[m]) => main'.mapping[m] = main.mapping[m]
    /\ \A t \in Targets : MappedTo(main, t) # {} /\ main.target[t] # from.target[t] => main'.target[t] = main.target[t]
KeepsNewer == phase' # phase => IF phase = "open" THEN LeavesNewer(base, branch) ELSE LeavesNewer(branch, base)

\* A revert gives main back every mapping, and every target that was mapped,
\* as they were before the merge, when main did not change in between.
RevertRestores == phase = "reverted" /\ quiet =>
    /\ main.mapping = before.mapping
    /\ \A t \in Targets : MappedTo(before, t) # {} => main.target[t] = before.target[t]
=============================================================================
