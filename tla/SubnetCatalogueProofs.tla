------------------------ MODULE SubnetCatalogueProofs ------------------------
(***************************************************************************)
(* Theorems about SubnetCatalogue, for every value of its constants: types *)
(* (with the bound on the generations), the Complete Snapshot, the free    *)
(* identity of a new Subnet, and the pages behind the cache.               *)
(***************************************************************************)
EXTENDS SubnetCatalogue, FiniteSetTheorems, TLAPS

------------------------------------------------------------------------------
(* The inductive invariant.                                                *)

\* Kea does not give a network two Subnet IDs.
Unique(s) == \A i, j \in Present(s) : s[i].network = s[j].network => i = j

\* What subnet{v}-list can have answered while Kea ran `listed`.
Answered(identity, listed) ==
    /\ listed \in Subnets /\ Unique(listed)
    /\ \/ identity = Unavailable
       \/ \E omitted \in SUBSET Present(listed) : identity = Observed(listed, omitted, SendsMembership)

KeaOK ==
    /\ live \in Subnets /\ Unique(live)
    /\ change \in [Changes -> {"idle", "send", "notify", "done"}]
    /\ applied \subseteq Changes
    /\ budget \in [Disturbances -> Nat]

CacheOK == cache \in [Generations -> Snapshots \cup {None}]

\* What a reader at `place` has.
Fits(r, place, l) ==
    /\ place = "config" => Answered(l.identity, l.listed)
    /\ place = "lookup" => r \in Displays
    /\ place = "store" => r \in Displays /\ l.snapshot \in Snapshots
    /\ place = "scope" => r \in Scopes /\ l.snapshot \in Snapshots

ReadersOK ==
    /\ pc \in [Readers -> Places]
    /\ reader \in [Readers -> ReaderStates]
    /\ \A r \in Readers : Fits(r, pc[r], reader[r])

\* The generation counts the invalidations: one for each scope that entered and that left, and for each change that
\* NetBox announced and finished.
Entered  == {r \in Scopes : pc[r] # "idle"}
Left     == {r \in Scopes : pc[r] = "done"}
Notified == {c \in Changes : change[c] # "idle"}
Ended    == {c \in Changes : change[c] = "done"}

Rotations == Cardinality(Entered) + Cardinality(Left) + Cardinality(Notified) + Cardinality(Ended)

GenerationOK == generation \in Nat /\ generation <= Rotations

IInv == KeaOK /\ CacheOK /\ ReadersOK /\ GenerationOK

------------------------------------------------------------------------------
(* Counting.                                                               *)

LEMMA Counts ==
    /\ IsFiniteSet(Scopes) /\ IsFiniteSet(Changes)
    /\ \A s \in SUBSET Scopes : IsFiniteSet(s) /\ Cardinality(s) \in Nat /\ Cardinality(s) <= Cardinality(Scopes)
    /\ \A s \in SUBSET Changes : IsFiniteSet(s) /\ Cardinality(s) \in Nat /\ Cardinality(s) <= Cardinality(Changes)
    /\ Cardinality(Scopes) \in Nat /\ Cardinality(Changes) \in Nat
BY CatalogueAssumption, FS_Subset, FS_CardinalityType

\* A set that grows does not count less, and one that gets a new member counts more.
LEMMA Grows ==
    ASSUME NEW s, NEW t, IsFiniteSet(t), s \subseteq t
    PROVE  /\ Cardinality(s) \in Nat /\ Cardinality(t) \in Nat /\ Cardinality(s) <= Cardinality(t)
           /\ \A x \in t \ s : Cardinality(s) + 1 <= Cardinality(t)
<1>1. IsFiniteSet(s) /\ Cardinality(s) \in Nat /\ Cardinality(t) \in Nat /\ Cardinality(s) <= Cardinality(t)
  BY FS_Subset, FS_CardinalityType
<1>2. ASSUME NEW x \in t \ s PROVE Cardinality(s) + 1 <= Cardinality(t)
  <2>1. Cardinality(s \cup {x}) = Cardinality(s) + 1
    BY <1>1, <1>2, FS_AddElement
  <2>2. s \cup {x} \in SUBSET t
    BY <1>2
  <2> QED
    BY <2>1, <2>2, FS_Subset
<1> QED
  BY <1>1, <1>2

\* The count of the generations that can exist bounds the generation.
LEMMA GenerationTyped == GenerationOK => generation \in Generations
<1>1. /\ Entered \in SUBSET Scopes /\ Left \in SUBSET Scopes
      /\ Notified \in SUBSET Changes /\ Ended \in SUBSET Changes
  BY DEF Entered, Left, Notified, Ended
<1> QED
  BY <1>1, Counts DEF GenerationOK, Rotations, Generations

LEMMA IInvTypes == IInv => TypeOK
BY GenerationTyped DEF IInv, TypeOK, KeaOK, CacheOK, ReadersOK

\* Steps that invalidate nothing, and steps that invalidate once while one of the sets gets a member.
LEMMA StillCounted ==
    ASSUME GenerationOK, Entered \subseteq Entered', Left \subseteq Left', Notified \subseteq Notified',
           Ended \subseteq Ended',
           \/ generation' = generation
           \/ /\ generation' = generation + 1
              /\ \/ \E r \in Scopes : r \in Entered' \ Entered
                 \/ \E r \in Scopes : r \in Left' \ Left
                 \/ \E c \in Changes : c \in Notified' \ Notified
                 \/ \E c \in Changes : c \in Ended' \ Ended
    PROVE  GenerationOK'
<1>1. IsFiniteSet(Entered') /\ IsFiniteSet(Left') /\ IsFiniteSet(Notified') /\ IsFiniteSet(Ended')
  <2>1. /\ Entered' \in SUBSET Scopes /\ Left' \in SUBSET Scopes
        /\ Notified' \in SUBSET Changes /\ Ended' \in SUBSET Changes
    BY DEF Entered, Left, Notified, Ended
  <2> QED
    BY <2>1, Counts
<1>2. /\ Cardinality(Entered) \in Nat /\ Cardinality(Entered') \in Nat /\ Cardinality(Entered) <= Cardinality(Entered')
      /\ \A x \in Entered' \ Entered : Cardinality(Entered) + 1 <= Cardinality(Entered')
  BY <1>1, Grows
<1>3. /\ Cardinality(Left) \in Nat /\ Cardinality(Left') \in Nat /\ Cardinality(Left) <= Cardinality(Left')
      /\ \A x \in Left' \ Left : Cardinality(Left) + 1 <= Cardinality(Left')
  BY <1>1, Grows
<1>4. /\ Cardinality(Notified) \in Nat /\ Cardinality(Notified') \in Nat /\ Cardinality(Notified) <= Cardinality(Notified')
      /\ \A x \in Notified' \ Notified : Cardinality(Notified) + 1 <= Cardinality(Notified')
  BY <1>1, Grows
<1>5. /\ Cardinality(Ended) \in Nat /\ Cardinality(Ended') \in Nat /\ Cardinality(Ended) <= Cardinality(Ended')
      /\ \A x \in Ended' \ Ended : Cardinality(Ended) + 1 <= Cardinality(Ended')
  BY <1>1, Grows
<1> QED
  BY <1>2, <1>3, <1>4, <1>5 DEF GenerationOK, Rotations

------------------------------------------------------------------------------
(* The answers of Kea and the snapshots.                                   *)

LEMMA ObservedTyped ==
    ASSUME NEW s \in Subnets, NEW omitted, NEW withMembership \in BOOLEAN
    PROVE  Observed(s, omitted, withMembership) \in Observation
<1>1. ASSUME NEW id \in Present(s), NEW member \in Names \cup {None, Unknown} PROVE FactOf(s, id, member) \in Fact
  BY <1>1 DEF Present, Subnets, Subnet, FactOf, Fact
<1>2. \A id \in Present(s) : s[id].member \in Names \cup {None}
  BY DEF Present, Subnets, Subnet
<1> QED
  BY <1>1, <1>2 DEF Observed, Observation

LEMMA AnswerTyped ==
    ASSUME NEW identity, NEW listed, Answered(identity, listed)
    PROVE  identity \in Observation
<1>1. Unavailable \in Observation
  BY DEF Unavailable, Observation
<1>2. SendsMembership \in BOOLEAN /\ listed \in Subnets
  BY CatalogueAssumption DEF Answered
<1> QED
  BY <1>1, <1>2, ObservedTyped DEF Answered

LEMMA SnapshotTyped ==
    ASSUME NEW identity \in Observation, NEW configuration \in Observation, NEW shows \in Subnets,
           NEW includes \in SUBSET Changes
    PROVE  Reconcile(identity, configuration, shows, includes) \in Snapshots
<1>1. identity.facts \subseteq Fact /\ configuration.facts \subseteq Fact
      /\ identity.available \in BOOLEAN /\ configuration.available \in BOOLEAN
      /\ identity.complete \in BOOLEAN /\ configuration.complete \in BOOLEAN
  BY DEF Observation
<1>2. \A consistent : Verified(identity, configuration, consistent) \subseteq Fact
  BY <1>1 DEF Verified
<1>3. \A consistent \in BOOLEAN : /\ Complete(identity, configuration, consistent) \in BOOLEAN
                                  /\ ConfirmsAbsence(identity, consistent) \in BOOLEAN
  BY <1>1 DEF Complete, ConfirmsAbsence
<1>4. (~Disagree(identity, configuration)) \in BOOLEAN
  OBVIOUS
<1> QED
  BY <1>1, <1>2, <1>3, <1>4, CatalogueAssumption DEF Reconcile, Snapshots

------------------------------------------------------------------------------
(* Where an action leaves the readers.                                     *)

LEMMA GoKeeps ==
    ASSUME ReadersOK, NEW r \in Readers, NEW place \in Places, NEW new \in ReaderStates, Go(r, place, new),
           Fits(r, place, new)
    PROVE  ReadersOK'
<1>1. pc' = [pc EXCEPT ![r] = place] /\ reader' = [reader EXCEPT ![r] = new]
  BY DEF Go
<1>2. pc' \in [Readers -> Places] /\ reader' \in [Readers -> ReaderStates]
  BY <1>1 DEF ReadersOK
<1>3. ASSUME NEW other \in Readers PROVE Fits(other, pc'[other], reader'[other])
  <2>1. CASE other = r
    BY <1>1, <2>1 DEF ReadersOK
  <2>2. CASE other # r
    BY <1>1, <2>2 DEF ReadersOK
  <2> QED
    BY <2>1, <2>2
<1> QED
  BY <1>2, <1>3 DEF ReadersOK

\* A reader goes on, and the changes stay: what the step does to the generation decides.
LEMMA GoCounts ==
    ASSUME ReadersOK, GenerationOK, NEW r \in Readers, NEW place, NEW new, Go(r, place, new), pc[r] # "done",
           place # "idle", change' = change,
           \/ generation' = generation
           \/ r \in Scopes /\ generation' = generation + 1 /\ (pc[r] = "idle" \/ place = "done")
    PROVE  GenerationOK'
<1>1. \A other \in Readers : pc'[other] = IF other = r THEN place ELSE pc[other]
  BY DEF Go, ReadersOK
<1>2. Scopes \subseteq Readers
  BY DEF Readers
<1>3. Entered \subseteq Entered' /\ Left \subseteq Left' /\ Notified' = Notified /\ Ended' = Ended
  BY <1>1, <1>2 DEF Entered, Left, Notified, Ended
<1>4. pc[r] = "idle" /\ r \in Scopes => r \in Entered' \ Entered
  BY <1>1 DEF Entered
<1>5. place = "done" /\ r \in Scopes => r \in Left' \ Left
  BY <1>1 DEF Left
<1> QED
  BY <1>3, <1>4, <1>5, StillCounted

\* What holds of one reader, and its kinds.
LEMMA OfReader ==
    ASSUME IInv, NEW r \in Readers
    PROVE  /\ KeaOK /\ CacheOK /\ ReadersOK /\ GenerationOK
           /\ Fits(r, pc[r], reader[r]) /\ reader[r] \in ReaderStates
           /\ generation \in Generations
           /\ r \in Displays \/ r \in Scopes \/ r \in Syncs
           /\ r \in Scopes => r \notin Displays /\ r \notin Syncs
           /\ r \in Syncs => r \notin Displays
BY GenerationTyped, CatalogueAssumption DEF IInv, ReadersOK, Readers

LEMMA StartedTyped == ASSUME KeaOK, generation \in Generations PROVE Started \in ReaderStates
BY DEF KeaOK, Started, NewReader, ReaderStates, Over

LEMMA StartKeeps == ASSUME IInv, NEW r \in Readers, Display(r) \/ Synchronize(r) \/ Enter(r) PROVE IInv'
<1>1. /\ KeaOK /\ CacheOK /\ ReadersOK /\ GenerationOK /\ Started \in ReaderStates
      /\ UNCHANGED <<live, cache, change, applied, budget>> /\ pc[r] = "idle"
  BY OfReader, StartedTyped DEF Display, Synchronize, Enter
<1>2. PICK place \in {"lookup", "list"} : Go(r, place, Started) /\ (place = "lookup" => r \in Displays)
  BY DEF Display, Synchronize, Enter
<1>3. Fits(r, place, Started)
  BY <1>2 DEF Fits
<1>4. generation' = generation \/ (r \in Scopes /\ generation' = generation + 1)
  BY DEF Display, Synchronize, Enter, Invalidate
<1>5. place \in Places
  BY DEF Places
<1>6. ReadersOK'
  BY <1>1, <1>2, <1>3, <1>5, GoKeeps
<1>7. GenerationOK'
  BY <1>1, <1>2, <1>4, GoCounts
<1>8. KeaOK' /\ CacheOK'
  BY <1>1 DEF KeaOK, CacheOK
<1> QED
  BY <1>6, <1>7, <1>8 DEF IInv

LEMMA LookupKeeps == ASSUME IInv, NEW r \in Readers, Lookup(r) PROVE IInv'
<1>1. /\ KeaOK /\ CacheOK /\ ReadersOK /\ GenerationOK /\ reader[r] \in ReaderStates
      /\ UNCHANGED <<live, generation, cache, change, applied, budget>> /\ pc[r] = "lookup"
  BY OfReader DEF Lookup
<1> DEFINE cached == cache[reader[r].generation]  new == [reader[r] EXCEPT !.snapshot = cached]
<1>2. cached \in Snapshots \cup {None}
  BY <1>1 DEF CacheOK, ReaderStates
<1>3. new \in ReaderStates
  BY <1>1, <1>2 DEF ReaderStates
<1>4. PICK place \in {"done", "list"}, l \in {new, reader[r]} : Go(r, place, l)
  BY DEF Lookup
<1>5. Fits(r, place, l) /\ place \in Places
  BY <1>4 DEF Fits, Places
<1> HIDE DEF new
<1>6. l \in ReaderStates
  BY <1>1, <1>3, <1>4
<1>7. ReadersOK'
  BY <1>1, <1>4, <1>5, <1>6, GoKeeps
<1>8. GenerationOK'
  BY <1>1, <1>4, GoCounts
<1> QED
  BY <1>1, <1>7, <1>8 DEF IInv, KeaOK, CacheOK

LEMMA SpendKeeps == ASSUME KeaOK, NEW kind \in Disturbances, Spend(kind) PROVE budget' \in [Disturbances -> Nat]
BY DEF KeaOK, Spend

LEMMA ReadListKeeps == ASSUME IInv, NEW r \in Readers, ReadList(r) PROVE IInv'
<1>1. /\ KeaOK /\ CacheOK /\ ReadersOK /\ GenerationOK /\ reader[r] \in ReaderStates
      /\ UNCHANGED <<live, generation, cache, change, applied>> /\ pc[r] = "list"
  BY OfReader DEF ReadList
<1>2. PICK answer \in {Unavailable} \cup {Observed(live, omitted, SendsMembership) : omitted \in SUBSET Present(live)} :
        /\ budget' = budget \/ Spend("fault")
        /\ Go(r, "config", [reader[r] EXCEPT !.identity = answer, !.listed = live, !.includes = applied])
  BY DEF ReadList
<1> DEFINE new == [reader[r] EXCEPT !.identity = answer, !.listed = live, !.includes = applied]
<1>3. Answered(answer, live)
  BY <1>1, <1>2 DEF Answered, KeaOK
<1>4. answer \in Observation
  BY <1>3, AnswerTyped
<1>5. new \in ReaderStates /\ new.identity = answer /\ new.listed = live
  BY <1>1, <1>4 DEF ReaderStates, KeaOK
<1>6. Fits(r, "config", new) /\ "config" \in Places
  BY <1>3, <1>5 DEF Fits, Places
<1>7. Go(r, "config", new)
  BY <1>2
<1> HIDE DEF new
<1>8. ReadersOK' /\ GenerationOK'
  BY <1>1, <1>5, <1>6, <1>7, GoKeeps, GoCounts
<1>9. KeaOK'
  BY <1>1, <1>2, SpendKeeps DEF KeaOK, Disturbances
<1> QED
  BY <1>1, <1>8, <1>9 DEF IInv, CacheOK

\* What ReadConfig does, in the order of its decisions.
Disagrees(r, answer) == Disagree(reader[r].identity, answer) /\ ~reader[r].retried
Refuses(r, answer) == r \in Syncs /\ ~Reconcile(reader[r].identity, answer, live, reader[r].includes).complete

LEMMA ReadConfigCases ==
    ASSUME IInv, NEW r \in Readers, ReadConfig(r)
    PROVE  \E answer \in {Unavailable} \cup {Observed(live, omitted, TRUE) : omitted \in SUBSET Present(live)} :
             LET snapshot == Reconcile(reader[r].identity, answer, live, reader[r].includes)
             IN  /\ budget' = budget \/ Spend("fault")
                 /\ \/ Go(r, "list", [reader[r] EXCEPT !.retried = TRUE])
                    \/ Go(r, "done", Leaving(r)) /\ r \in Syncs
                    \/ Go(r, Ends(r, snapshot), [Leaving(r) EXCEPT !.snapshot = snapshot])
                       /\ (r \in Syncs => snapshot.complete)
BY DEF ReadConfig

LEMMA EndsAt ==
    ASSUME IInv, NEW r \in Readers, NEW snapshot
    PROVE  /\ Ends(r, snapshot) \in {"store", "done", "scope"}
           /\ Ends(r, snapshot) = "store" => r \in Displays
           /\ Ends(r, snapshot) = "scope" => r \in Scopes
           /\ r \in Scopes => Ends(r, snapshot) = "scope"
<1>1. CASE r \in Displays
  BY <1>1, OfReader DEF Ends
<1>2. CASE r \in Scopes
  BY <1>2, OfReader DEF Ends
<1>3. CASE r \in Syncs
  BY <1>3, OfReader DEF Ends
<1> QED
  BY <1>1, <1>2, <1>3, OfReader

LEMMA LeavingTyped ==
    ASSUME NEW r \in Readers, reader[r] \in ReaderStates, NEW snapshot \in Snapshots
    PROVE  /\ Leaving(r) \in ReaderStates
           /\ LET new == [Leaving(r) EXCEPT !.snapshot = snapshot]
              IN  /\ new \in ReaderStates /\ new.snapshot = snapshot /\ new.listed = reader[r].listed
                  /\ new.created = reader[r].created /\ new.generation = reader[r].generation /\ new.owed = reader[r].owed
BY DEF ReaderStates, Leaving

LEMMA ReadConfigKeeps == ASSUME IInv, NEW r \in Readers, ReadConfig(r) PROVE IInv'
<1>1. /\ KeaOK /\ CacheOK /\ ReadersOK /\ GenerationOK /\ reader[r] \in ReaderStates
      /\ UNCHANGED <<live, generation, cache, change, applied>> /\ pc[r] = "config"
      /\ Fits(r, "config", reader[r])
  BY OfReader DEF ReadConfig
<1>2. PICK answer \in {Unavailable} \cup {Observed(live, omitted, TRUE) : omitted \in SUBSET Present(live)} :
             LET snapshot == Reconcile(reader[r].identity, answer, live, reader[r].includes)
             IN  /\ budget' = budget \/ Spend("fault")
                 /\ \/ Go(r, "list", [reader[r] EXCEPT !.retried = TRUE])
                    \/ Go(r, "done", Leaving(r)) /\ r \in Syncs
                    \/ Go(r, Ends(r, snapshot), [Leaving(r) EXCEPT !.snapshot = snapshot])
                       /\ (r \in Syncs => snapshot.complete)
  BY ReadConfigCases
<1> DEFINE snapshot == Reconcile(reader[r].identity, answer, live, reader[r].includes)
           place == Ends(r, snapshot)
           new == [Leaving(r) EXCEPT !.snapshot = snapshot]
<1>3. answer \in Observation
  <2>1. Unavailable \in Observation /\ live \in Subnets
    BY <1>1 DEF Unavailable, Observation, KeaOK
  <2> QED
    BY <1>2, <2>1, ObservedTyped
<1>4. snapshot \in Snapshots
  <2>1. reader[r].identity \in Observation
    BY <1>1, AnswerTyped DEF Fits
  <2>2. reader[r].includes \in SUBSET Changes /\ live \in Subnets
    BY <1>1 DEF ReaderStates, KeaOK
  <2> QED
    BY <1>3, <2>1, <2>2, SnapshotTyped
<1>5. place \in {"store", "done", "scope"} /\ (place = "store" => r \in Displays) /\ (place = "scope" => r \in Scopes)
  BY EndsAt
<1>6. KeaOK'
  BY <1>1, <1>2, SpendKeeps DEF KeaOK, Disturbances
<1>7. CASE Go(r, "list", [reader[r] EXCEPT !.retried = TRUE])
  <2> DEFINE again == [reader[r] EXCEPT !.retried = TRUE]
  <2>1. again \in ReaderStates /\ "list" \in Places
    BY <1>1 DEF ReaderStates, Places
  <2>2. Fits(r, "list", again)
    BY DEF Fits
  <2>3. Go(r, "list", again)
    BY <1>7
  <2> HIDE DEF again
  <2>4. ReadersOK' /\ GenerationOK'
    BY <1>1, <2>1, <2>2, <2>3, GoKeeps, GoCounts
  <2> QED
    BY <1>1, <1>6, <2>4 DEF IInv, CacheOK
<1>8. CASE Go(r, "done", Leaving(r))
  <2>1. Leaving(r) \in ReaderStates /\ "done" \in Places
    BY <1>1, <1>4, LeavingTyped DEF Places
  <2>2. Fits(r, "done", Leaving(r))
    BY DEF Fits
  <2>3. ReadersOK' /\ GenerationOK'
    BY <1>1, <1>8, <2>1, <2>2, GoKeeps, GoCounts
  <2> QED
    BY <1>1, <1>6, <2>3 DEF IInv, CacheOK
<1>9. CASE Go(r, place, new)
  <2>1. new \in ReaderStates /\ new.snapshot = snapshot
    BY <1>1, <1>4, LeavingTyped
  <2> HIDE DEF place, new, snapshot
  <2>2. Fits(r, place, new) /\ place \in Places
    BY <1>4, <1>5, <2>1 DEF Fits, Places
  <2>3. ReadersOK' /\ GenerationOK'
    BY <1>1, <1>5, <1>9, <2>1, <2>2, GoKeeps, GoCounts
  <2> QED
    BY <1>1, <1>6, <2>3 DEF IInv, CacheOK
<1> QED
  BY <1>2, <1>7, <1>8, <1>9

LEMMA StoreKeeps == ASSUME IInv, NEW r \in Readers, Store(r) PROVE IInv'
<1>1. /\ KeaOK /\ CacheOK /\ ReadersOK /\ GenerationOK /\ reader[r] \in ReaderStates
      /\ UNCHANGED <<live, generation, change, applied, budget>> /\ pc[r] = "store" /\ Go(r, "done", reader[r])
      /\ reader[r].snapshot \in Snapshots
      /\ cache' = [cache EXCEPT ![reader[r].generation] = reader[r].snapshot]
  BY OfReader DEF Store, Fits
<1>2. Fits(r, "done", reader[r]) /\ "done" \in Places
  BY DEF Fits, Places
<1>3. ReadersOK' /\ GenerationOK'
  BY <1>1, <1>2, GoKeeps, GoCounts
<1>4. CacheOK'
  BY <1>1 DEF CacheOK
<1> QED
  BY <1>1, <1>3, <1>4 DEF IInv, KeaOK

LEMMA AllocatedFree == \A used : AllocatedIds(used) \subseteq Ids \ used
BY DEF AllocatedIds, Ids

LEMMA CreationCases ==
    ASSUME NEW r \in Readers, PrepareCreation(r)
    PROVE  \E id, network :
             LET used == reader[r].snapshot.verified
             IN  /\ pc[r] = "scope" /\ reader[r].created = None /\ reader[r].snapshot.confirms
                 /\ network \in Networks /\ network \notin {f.network : f \in used}
                 /\ id \in Ids /\ id \notin {f.id : f \in used}
                 /\ Go(r, "scope", [reader[r] EXCEPT !.created = [id |-> id, network |-> network]])
<1> DEFINE used == reader[r].snapshot.verified  ids == {f.id : f \in used}
<1>1. PICK asked \in Asked : /\ reader[r].snapshot.confirms
                             /\ asked.network \notin {f.network : f \in used}
                             /\ \E id \in (IF asked.id = None THEN AllocatedIds(ids) ELSE {asked.id} \ ids) :
                                  Go(r, "scope", [reader[r] EXCEPT !.created = [id |-> id, network |-> asked.network]])
  BY DEF PrepareCreation
<1>2. PICK id \in (IF asked.id = None THEN AllocatedIds(ids) ELSE {asked.id} \ ids) :
                 Go(r, "scope", [reader[r] EXCEPT !.created = [id |-> id, network |-> asked.network]])
  BY <1>1
<1>3. id \in Ids /\ id \notin ids
  <2>1. AllocatedIds(ids) \subseteq Ids \ ids
    BY AllocatedFree
  <2> QED
    BY <1>1, <1>2, <2>1 DEF Asked
<1>4. asked.network \in Networks
  BY <1>1 DEF Asked
<1>5. pc[r] = "scope" /\ reader[r].created = None
  BY DEF PrepareCreation
<1> QED
  BY <1>1, <1>2, <1>3, <1>4, <1>5

LEMMA ScopeKeeps == ASSUME IInv, NEW r \in Readers, PrepareCreation(r) \/ Exit(r) PROVE IInv'
<1>1. /\ KeaOK /\ CacheOK /\ ReadersOK /\ GenerationOK /\ reader[r] \in ReaderStates
      /\ UNCHANGED <<live, cache, change, applied, budget>> /\ pc[r] = "scope"
      /\ r \in Scopes /\ reader[r].snapshot \in Snapshots
  BY OfReader DEF PrepareCreation, Exit, Fits
<1>2. CASE PrepareCreation(r)
  <2>1. PICK id, network : /\ id \in Ids /\ network \in Networks
                           /\ Go(r, "scope", [reader[r] EXCEPT !.created = [id |-> id, network |-> network]])
    BY <1>2, CreationCases
  <2> DEFINE new == [reader[r] EXCEPT !.created = [id |-> id, network |-> network]]
  <2>2. new \in ReaderStates /\ new.snapshot = reader[r].snapshot
    BY <1>1, <2>1 DEF ReaderStates
  <2>3. Go(r, "scope", new)
    BY <2>1
  <2> HIDE DEF new
  <2>4. Fits(r, "scope", new) /\ "scope" \in Places /\ generation' = generation
    BY <1>1, <1>2, <2>2 DEF Fits, Places, PrepareCreation
  <2>5. ReadersOK' /\ GenerationOK'
    BY <1>1, <2>2, <2>3, <2>4, GoKeeps, GoCounts
  <2> QED
    BY <1>1, <2>5 DEF IInv, KeaOK, CacheOK
<1>3. CASE Exit(r)
  <2> DEFINE new == [reader[r] EXCEPT !.snapshot = None]
  <2>1. new \in ReaderStates
    BY <1>1 DEF ReaderStates
  <2>2. Go(r, "done", new) /\ generation' = generation + 1
    BY <1>3 DEF Exit, Invalidate
  <2> HIDE DEF new
  <2>3. Fits(r, "done", new) /\ "done" \in Places
    BY DEF Fits, Places
  <2>4. ReadersOK' /\ GenerationOK'
    BY <1>1, <2>1, <2>2, <2>3, GoKeeps, GoCounts
  <2> QED
    BY <1>1, <2>4 DEF IInv, KeaOK, CacheOK
<1> QED
  BY <1>2, <1>3

\* A step of the changes or the administrator, which no reader takes.
LEMMA OthersKeep ==
    ASSUME IInv, UNCHANGED <<cache, pc, reader>>, KeaOK', GenerationOK'
    PROVE  IInv'
BY DEF IInv, CacheOK, ReadersOK, Entered, Left

LEMMA MoveCounts ==
    ASSUME KeaOK, GenerationOK, NEW c \in Changes, NEW place, Move(c, place), place # "idle", change[c] # "done", pc' = pc,
           \/ generation' = generation
           \/ generation' = generation + 1 /\ (change[c] = "idle" \/ place = "done")
    PROVE  GenerationOK'
<1>1. \A other \in Changes : change'[other] = IF other = c THEN place ELSE change[other]
  BY DEF Move, KeaOK
<1>2. Notified \subseteq Notified' /\ Ended \subseteq Ended' /\ Entered' = Entered /\ Left' = Left
  BY <1>1 DEF Entered, Left, Notified, Ended
<1>3. (change[c] = "idle" => c \in Notified' \ Notified) /\ (place = "done" => c \in Ended' \ Ended)
  BY <1>1 DEF Notified, Ended
<1> QED
  BY <1>2, <1>3, StillCounted

LEMMA AppliesKeeps ==
    ASSUME KeaOK, NEW effect \in Effects, Applies(effect)
    PROVE  live' \in Subnets /\ Unique(live')
<1>1. effect.id \in Ids /\ effect.subnet \in Subnet \cup {None}
  BY DEF Effects
<1>2. live' = [live EXCEPT ![effect.id] = effect.subnet]
  BY DEF Applies
<1>3. \A id \in Ids : live'[id] = IF id = effect.id THEN effect.subnet ELSE live[id]
  BY <1>2 DEF KeaOK, Subnets
<1>4. live' \in Subnets
  BY <1>1, <1>2 DEF KeaOK, Subnets
<1>5. effect.subnet # None => \A id \in Present(live) \ {effect.id} : live[id].network # effect.subnet.network
  BY DEF Applies, Accepts
<1>6. Unique(live')
  <2> SUFFICES ASSUME NEW i \in Present(live'), NEW j \in Present(live'), live'[i].network = live'[j].network
               PROVE  i = j
    BY DEF Unique
  <2>1. i \in Ids /\ j \in Ids /\ live'[i] # None /\ live'[j] # None
    BY DEF Present
  <2>2. CASE i = effect.id \/ j = effect.id
    BY <1>3, <1>5, <2>1, <2>2 DEF Present
  <2>3. CASE i # effect.id /\ j # effect.id
    BY <1>3, <2>1, <2>3 DEF Present, KeaOK, Unique
  <2> QED
    BY <2>2, <2>3
<1> QED
  BY <1>4, <1>6

LEMMA WritesKeep ==
    ASSUME IInv, Expire \/ AdminWrites \/ \E c \in Changes : Write(c)
    PROVE  IInv'
<1>1. KeaOK /\ GenerationOK /\ CacheOK
  BY DEF IInv
<1>2. CASE Expire
  <2>1. CacheOK' /\ KeaOK' /\ UNCHANGED <<generation, pc, reader, change>>
    BY <1>1, <1>2 DEF Expire, CacheOK, KeaOK
  <2> QED
    BY <2>1 DEF IInv, ReadersOK, GenerationOK, Rotations, Entered, Left, Notified, Ended
<1>3. CASE AdminWrites
  <2>1. PICK effect \in AdminEffects : Applies(effect)
    BY <1>3 DEF AdminWrites
  <2>2. live' \in Subnets /\ Unique(live')
    BY <1>1, <2>1, AppliesKeeps, CatalogueAssumption
  <2>3. KeaOK'
    BY <1>1, <1>3, <2>2, SpendKeeps DEF AdminWrites, KeaOK, Disturbances
  <2>4. GenerationOK'
    BY <1>1, <1>3 DEF AdminWrites, GenerationOK, Rotations, Entered, Left, Notified, Ended
  <2> QED
    BY <1>3, <2>3, <2>4, OthersKeep DEF AdminWrites
<1>4. ASSUME NEW c \in Changes, Notify(c) \/ NotifyAgain(c) PROVE IInv'
  <2>1. UNCHANGED <<live, cache, pc, reader, applied>> /\ Invalidates
    BY <1>4 DEF Notify, NotifyAgain, InvalidateAgain
  <2>2. PICK place \in {"send", "done"} : Move(c, place) /\ (change[c] = "idle" \/ (place = "done" /\ change[c] = "notify"))
    BY <1>4 DEF Notify, NotifyAgain
  <2>3. GenerationOK'
    BY <1>1, <2>1, <2>2, MoveCounts DEF Invalidates, Invalidate
  <2>4. change' \in [Changes -> {"idle", "send", "notify", "done"}]
    BY <1>1, <2>2 DEF Move, KeaOK
  <2>5. budget' \in [Disturbances -> Nat]
    BY <1>1, <2>1, SpendKeeps DEF Invalidates, Disturbances, KeaOK
  <2>6. KeaOK'
    BY <1>1, <2>1, <2>4, <2>5 DEF KeaOK
  <2> QED
    BY <2>1, <2>3, <2>6, OthersKeep
<1>5. ASSUME NEW c \in Changes, Send(c) \/ LateRequest(c) PROVE IInv'
  <2>1. Effect[c] \in Effects
    BY CatalogueAssumption
  <2>2. live' \in Subnets /\ Unique(live')
    BY <1>1, <1>5, <2>1, AppliesKeeps DEF Send, LateRequest, KeaOK
  <2>3. applied' \subseteq Changes
    BY <1>1, <1>5 DEF Send, LateRequest, KeaOK
  <2>4. UNCHANGED <<generation, cache, pc, reader>>
    BY <1>5 DEF Send, LateRequest
  <2>5. budget' \in [Disturbances -> Nat]
    BY <1>1, <1>5, SpendKeeps DEF Send, LateRequest, Disturbances, KeaOK
  <2>6. change' \in [Changes -> {"idle", "send", "notify", "done"}] /\ GenerationOK'
    <3>1. CASE Send(c)
      BY <1>1, <2>4, <3>1, MoveCounts DEF Send, Move, KeaOK
    <3>2. CASE LateRequest(c)
      BY <1>1, <2>4, <3>2 DEF LateRequest, KeaOK, GenerationOK, Rotations, Entered, Left, Notified, Ended
    <3> QED
      BY <1>5, <3>1, <3>2
  <2>7. KeaOK'
    BY <2>2, <2>3, <2>5, <2>6 DEF KeaOK
  <2> QED
    BY <2>4, <2>6, <2>7, OthersKeep
<1> QED
  BY <1>2, <1>3, <1>4, <1>5 DEF Write

LEMMA IInvInit == Init => IInv
<1> SUFFICES ASSUME Init PROVE IInv
  OBVIOUS
<1>1. KeaOK
  BY CatalogueAssumption DEF Init, KeaOK, Unique
<1>2. CacheOK
  BY DEF Init, CacheOK
<1>3. 0 \in Generations
  BY Counts DEF Generations
<1>4. NewReader \in ReaderStates
  BY <1>3 DEF NewReader, ReaderStates
<1>5. ReadersOK
  BY <1>4 DEF Init, ReadersOK, Fits, Places
<1>6. GenerationOK
  <2>1. Entered = {} /\ Left = {} /\ Notified = {} /\ Ended = {}
    BY DEF Init, Entered, Left, Notified, Ended, Readers
  <2> QED
    BY <2>1, FS_EmptySet DEF Init, GenerationOK, Rotations
<1> QED
  BY <1>1, <1>2, <1>5, <1>6 DEF IInv

LEMMA IInvNext == IInv /\ [Next]_vars => IInv'
<1> SUFFICES ASSUME IInv, [Next]_vars PROVE IInv'
  OBVIOUS
<1>1. ASSUME NEW r \in Readers, Read(r) PROVE IInv'
  BY <1>1, StartKeeps, LookupKeeps, ReadListKeeps, ReadConfigKeeps, StoreKeeps, ScopeKeeps DEF Read
<1>2. CASE UNCHANGED vars
  BY <1>2 DEF vars, IInv, KeaOK, CacheOK, ReadersOK, GenerationOK, Rotations, Entered, Left, Notified, Ended
<1> QED
  BY <1>1, <1>2, WritesKeep DEF Next, Finished

\* The variables keep their types: a scope prepares only identities that Kea has, and the cache has room for every
\* generation.
THEOREM TypeCorrect == Spec => []TypeOK
BY IInvInit, IInvNext, IInvTypes, PTL DEF Spec

------------------------------------------------------------------------------
(* The Complete Snapshot.                                                  *)

\* A Complete Snapshot has the facts of one moment.
Truthful(snapshot) ==
    snapshot.complete =>
        snapshot.verified =
            {FactOf(snapshot.shows, id, snapshot.shows[id].member) : id \in Present(snapshot.shows)}

TruthInv ==
    /\ \A r \in Readers : reader[r].snapshot # None => Truthful(reader[r].snapshot)
    /\ \A g \in Generations : cache[g] # None => Truthful(cache[g])

LEMMA FactsFinite ==
    ASSUME NEW s, NEW omitted
    PROVE  IsFiniteSet(Observed(s, omitted, TRUE).facts)
<1> DEFINE ids == Present(s) \ omitted
           facts == {FactOf(s, id, s[id].member) : id \in ids}
           fact == [id \in ids |-> FactOf(s, id, s[id].member)]
<1>1. IsFiniteSet(ids)
  <2>1. IsFiniteSet(Ids)
    BY FS_Interval, MaxIdAssumption DEF Ids
  <2>2. ids \in SUBSET Ids
    BY DEF Present
  <2> QED
    BY <2>1, <2>2, FS_Subset
<1>2. fact \in Surjection(ids, facts)
  BY DEF Surjection
<1>3. IsFiniteSet(facts)
  BY <1>1, <1>2, FS_Surjection
<1>4. Observed(s, omitted, TRUE).facts = facts
  BY DEF Observed
<1> QED
  BY <1>3, <1>4

\* Two complete answers that agree, with as many Verified Subnets as identities and facts: the facts of config-get.
LEMMA ReconcileTruthful ==
    ASSUME NEW identity \in Observation, NEW s \in Subnets, NEW includes,
           NEW answer \in {Unavailable} \cup {Observed(s, omitted, TRUE) : omitted \in SUBSET Present(s)}
    PROVE  Truthful(Reconcile(identity, answer, s, includes))
<1> DEFINE snapshot == Reconcile(identity, answer, s, includes)
           verified == Verified(identity, answer, TRUE)
<1> SUFFICES ASSUME snapshot.complete
             PROVE  snapshot.verified = {FactOf(s, id, s[id].member) : id \in Present(s)}
  BY DEF Truthful, Reconcile
<1>1. Complete(identity, answer, ~Disagree(identity, answer))
  BY DEF Reconcile
<1>2. ~Disagree(identity, answer) /\ identity.complete /\ answer.complete
  BY <1>1 DEF Complete
<1>3. (~Disagree(identity, answer)) = TRUE
  BY <1>2
<1>4. Cardinality(verified) = Cardinality(answer.facts) /\ snapshot.verified = verified
  BY <1>1, <1>3 DEF Complete, Reconcile
<1>5. PICK omitted \in SUBSET Present(s) : answer = Observed(s, omitted, TRUE)
  <2>1. answer # Unavailable
    BY <1>2 DEF Unavailable
  <2> QED
    BY <2>1
<1>6. answer.available /\ omitted = {} /\ answer.facts = {FactOf(s, id, s[id].member) : id \in Present(s)}
  <2>1. /\ Observed(s, omitted, TRUE).available /\ Observed(s, omitted, TRUE).complete = (omitted \cap Present(s) = {})
        /\ Observed(s, omitted, TRUE).facts = {FactOf(s, id, s[id].member) : id \in Present(s) \ omitted}
    BY DEF Observed
  <2>2. omitted = {}
    BY <1>2, <1>5, <2>1
  <2> QED
    BY <1>5, <2>1, <2>2
<1>7. verified \in SUBSET answer.facts
  BY <1>2, <1>6 DEF Verified
<1>8. IsFiniteSet(answer.facts)
  BY <1>5, FactsFinite
<1>9. verified = answer.facts
  BY <1>4, <1>7, <1>8, FS_Subset
<1> QED
  BY <1>4, <1>6, <1>9

LEMMA ReaderTruth ==
    ASSUME IInv, TruthInv, NEW r \in Readers, NEW place, NEW new, Go(r, place, new), UNCHANGED cache,
           new.snapshot # None => Truthful(new.snapshot)
    PROVE  TruthInv'
BY DEF TruthInv, Go, IInv, ReadersOK

LEMMA TruthNext == IInv /\ TruthInv /\ [Next]_vars => TruthInv'
<1> SUFFICES ASSUME IInv, TruthInv, [Next]_vars PROVE TruthInv'
  OBVIOUS
<1>1. ASSUME NEW r \in Readers, Read(r) PROVE TruthInv'
  <2>1. /\ KeaOK /\ CacheOK /\ reader[r] \in ReaderStates /\ reader[r].generation \in Generations
        /\ Fits(r, pc[r], reader[r]) /\ reader \in [Readers -> ReaderStates]
        /\ reader[r].snapshot # None => Truthful(reader[r].snapshot)
    BY OfReader DEF ReaderStates, TruthInv, ReadersOK
  <2>2. CASE Display(r) \/ Synchronize(r) \/ Enter(r)
    <3>1. \E place : Go(r, place, Started) /\ UNCHANGED cache
      BY <2>2 DEF Display, Synchronize, Enter
    <3>2. Started.snapshot = None
      BY DEF Started, NewReader
    <3> QED
      BY <3>1, <3>2, ReaderTruth
  <2>3. CASE Lookup(r)
    <3> DEFINE cached == cache[reader[r].generation]  new == [reader[r] EXCEPT !.snapshot = cached]
    <3>1. new.snapshot = cached
      BY <2>1 DEF ReaderStates
    <3>2. (cached # None /\ Go(r, "done", new)) \/ Go(r, "list", reader[r])
      BY <2>3 DEF Lookup
    <3>3. cached # None => Truthful(cached)
      BY <2>1 DEF TruthInv
    <3>4. UNCHANGED cache
      BY <2>3 DEF Lookup
    <3> HIDE DEF new, cached
    <3> QED
      BY <2>1, <3>1, <3>2, <3>3, <3>4, ReaderTruth
  <2>4. CASE ReadList(r)
    <3>1. PICK answer : Go(r, "config", [reader[r] EXCEPT !.identity = answer, !.listed = live, !.includes = applied])
      BY <2>4 DEF ReadList
    <3> DEFINE new == [reader[r] EXCEPT !.identity = answer, !.listed = live, !.includes = applied]
    <3>2. new.snapshot = reader[r].snapshot /\ Go(r, "config", new) /\ UNCHANGED cache
      BY <2>1, <2>4, <3>1 DEF ReaderStates, ReadList
    <3> HIDE DEF new
    <3> QED
      BY <2>1, <3>2, ReaderTruth
  <2>5. CASE ReadConfig(r)
    <3>1. PICK answer \in {Unavailable} \cup {Observed(live, omitted, TRUE) : omitted \in SUBSET Present(live)} :
               LET snapshot == Reconcile(reader[r].identity, answer, live, reader[r].includes)
               IN  \/ Go(r, "list", [reader[r] EXCEPT !.retried = TRUE])
                   \/ Go(r, "done", Leaving(r))
                   \/ Go(r, Ends(r, snapshot), [Leaving(r) EXCEPT !.snapshot = snapshot])
      BY <2>5, ReadConfigCases
    <3> DEFINE snapshot == Reconcile(reader[r].identity, answer, live, reader[r].includes)
               again == [reader[r] EXCEPT !.retried = TRUE]
               new == [Leaving(r) EXCEPT !.snapshot = snapshot]
    <3>2. reader[r].identity \in Observation /\ live \in Subnets
      BY <2>1, <2>5, AnswerTyped DEF ReadConfig, Fits, KeaOK
    <3>3. Truthful(snapshot)
      BY <3>2, ReconcileTruthful
    <3>4. /\ again.snapshot = reader[r].snapshot /\ Leaving(r).snapshot = reader[r].snapshot /\ new.snapshot = snapshot
          /\ UNCHANGED cache
      BY <2>1, <2>5 DEF ReaderStates, Leaving, ReadConfig
    <3>5. Go(r, "list", again) \/ Go(r, "done", Leaving(r)) \/ Go(r, Ends(r, snapshot), new)
      BY <3>1
    <3> HIDE DEF snapshot, again, new
    <3> QED
      BY <2>1, <3>3, <3>4, <3>5, ReaderTruth
  <2>6. CASE Store(r)
    <3>1. /\ cache' = [cache EXCEPT ![reader[r].generation] = reader[r].snapshot] /\ Go(r, "done", reader[r])
      BY <2>6 DEF Store
    <3>2. reader' = reader
      BY <2>1, <3>1 DEF Go
    <3> QED
      BY <2>1, <3>1, <3>2 DEF TruthInv, CacheOK
  <2>7. CASE PrepareCreation(r)
    <3>1. PICK id, network : Go(r, "scope", [reader[r] EXCEPT !.created = [id |-> id, network |-> network]])
      BY <2>7, CreationCases
    <3> DEFINE new == [reader[r] EXCEPT !.created = [id |-> id, network |-> network]]
    <3>2. new.snapshot = reader[r].snapshot /\ Go(r, "scope", new) /\ UNCHANGED cache
      BY <2>1, <2>7, <3>1 DEF ReaderStates, PrepareCreation
    <3> HIDE DEF new
    <3> QED
      BY <2>1, <3>2, ReaderTruth
  <2>8. CASE Exit(r)
    <3> DEFINE new == [reader[r] EXCEPT !.snapshot = None]
    <3>1. new.snapshot = None /\ Go(r, "done", new) /\ UNCHANGED cache
      BY <2>1, <2>8 DEF ReaderStates, Exit
    <3> HIDE DEF new
    <3> QED
      BY <3>1, ReaderTruth
  <2> QED
    BY <1>1, <2>2, <2>3, <2>4, <2>5, <2>6, <2>7, <2>8 DEF Read
<1>2. CASE Expire
  BY <1>2 DEF Expire, TruthInv, IInv, CacheOK
<1>3. CASE UNCHANGED <<cache, reader>>
  BY <1>3 DEF TruthInv
<1> QED
  BY <1>1, <1>2, <1>3 DEF Next, Write, Notify, Send, NotifyAgain, LateRequest, AdminWrites, Finished, vars

\* A Complete Snapshot, live or from the cache, is what Kea ran when it answered config-get: the agreement of two answers
\* with equal counts makes up for the time between them.
THEOREM CompleteSnapshots == Spec => []CompleteIsLive
<1>1. Init => TruthInv
  BY DEF Init, TruthInv, NewReader
<1>2. TruthInv => CompleteIsLive
  BY DEF TruthInv, Truthful, CompleteIsLive
<1> QED
  BY <1>1, <1>2, IInvInit, IInvNext, TruthNext, PTL DEF Spec

------------------------------------------------------------------------------
(* The identity of a new Subnet.                                           *)

\* The facts name the ID and the network of every Subnet of s.
Lists(facts, s) == \A id \in Present(s) : \E f \in facts : f.id = id /\ f.network = s[id].network

\* Nothing is set aside when each fact of one source has its identity in the other.
LEMMA NothingQuarantined ==
    ASSUME NEW identity, NEW configuration,
           \A f, g \in identity.facts : (f.id = g.id) <=> (f.network = g.network),
           \A g \in configuration.facts : Matched(g, identity.facts)
    PROVE  Quarantined(identity, configuration) = {}
<1>1. ASSUME NEW pair \in identity.facts \X configuration.facts
      PROVE  (pair[1].id = pair[2].id) <=> (pair[1].network = pair[2].network)
  <2>1. PICK f \in identity.facts : SameIdentity(pair[2], f)
    BY <1>1 DEF Matched
  <2>2. (pair[1].id = f.id) <=> (pair[1].network = f.network)
    BY <1>1, <2>1
  <2> QED
    BY <2>1, <2>2 DEF SameIdentity
<1> DEFINE clashes  == {pair \in identity.facts \X configuration.facts :
                           (pair[1].id = pair[2].id) # (pair[1].network = pair[2].network)}
           involved == UNION {{pair[1], pair[2]} : pair \in clashes}
           networks == {f.network : f \in involved}
           ids      == {f.id : f \in {g \in identity.facts \cup configuration.facts : g.network \in networks}}
<1>2. clashes = {}
  BY <1>1
<1>3. involved = {}
  BY <1>2
<1>4. networks = {}
  BY <1>3
<1>5. ids = {}
  BY <1>4
<1>6. Quarantined(identity, configuration)
        = {f \in identity.facts \cup configuration.facts : f.id \in ids \/ f.network \in networks}
  BY DEF Quarantined
<1> HIDE DEF clashes, involved, networks, ids
<1> QED
  BY <1>4, <1>5, <1>6

\* A snapshot that confirms absence has every Subnet that Kea listed.
LEMMA ReconcileLists ==
    ASSUME NEW identity, NEW listed, Answered(identity, listed), NEW s, NEW includes, NEW answer,
           answer = Unavailable \/ answer.available,
           Reconcile(identity, answer, s, includes).confirms
    PROVE  Lists(Reconcile(identity, answer, s, includes).verified, listed)
<1> DEFINE consistent == ~Disagree(identity, answer)  verified == Verified(identity, answer, consistent)
<1>1. identity.complete /\ ~Disagree(identity, answer) /\ Reconcile(identity, answer, s, includes).verified = verified
  BY DEF Reconcile, ConfirmsAbsence
<1>2. PICK omitted \in SUBSET Present(listed) : identity = Observed(listed, omitted, SendsMembership)
  <2>1. identity # Unavailable
    BY <1>1 DEF Unavailable
  <2> QED
    BY <2>1 DEF Answered
<1> DEFINE member(id) == IF SendsMembership THEN listed[id].member ELSE Unknown
<1>3. /\ identity.available /\ identity.complete = (omitted \cap Present(listed) = {})
      /\ identity.facts = {FactOf(listed, id, member(id)) : id \in Present(listed) \ omitted}
  BY <1>2 DEF Observed
<1>4. identity.facts = {FactOf(listed, id, member(id)) : id \in Present(listed)}
  <2>1. omitted = {}
    BY <1>1, <1>2, <1>3
  <2> QED
    BY <1>3, <2>1
<1>5. \A id \in Present(listed) : LET f == FactOf(listed, id, member(id))
                                  IN  f \in identity.facts /\ f.id = id /\ f.network = listed[id].network
  BY <1>4 DEF FactOf
<1>6. \A f, g \in identity.facts : (f.id = g.id) <=> (f.network = g.network)
  <2> SUFFICES ASSUME NEW f \in identity.facts, NEW g \in identity.facts PROVE (f.id = g.id) <=> (f.network = g.network)
    OBVIOUS
  <2>1. PICK i \in Present(listed) : f.id = i /\ f.network = listed[i].network
    BY <1>4 DEF FactOf
  <2>2. PICK j \in Present(listed) : g.id = j /\ g.network = listed[j].network
    BY <1>4 DEF FactOf
  <2> QED
    BY <2>1, <2>2 DEF Answered, Unique
<1>7. \A g \in answer.facts : Matched(g, identity.facts)
  <2>1. CASE answer = Unavailable
    BY <2>1 DEF Unavailable
  <2>2. CASE answer.available
    BY <1>1, <1>3, <2>2 DEF Disagree
  <2> QED
    BY <2>1, <2>2
<1>8. Quarantined(identity, answer) = {}
  BY <1>6, <1>7, NothingQuarantined
<1>9. ASSUME NEW f \in identity.facts PROVE \E g \in verified : g.id = f.id /\ g.network = f.network
  <2>1. CASE Matched(f, answer.facts)
    <3>1. PICK g \in answer.facts : SameIdentity(f, g)
      BY <2>1 DEF Matched
    <3>2. answer.available
      BY <3>1 DEF Unavailable
    <3>3. SameMembership(f, g)
      BY <1>1, <1>3, <1>9, <3>1, <3>2 DEF Disagree
    <3>4. g \in verified
      BY <1>8, <1>9, <3>1, <3>3 DEF Verified
    <3> QED
      BY <3>1, <3>4 DEF SameIdentity
  <2>2. CASE ~Matched(f, answer.facts)
    <3>1. ~answer.available
      BY <1>1, <1>3, <1>9, <2>2 DEF Disagree
    <3>2. f \in verified
      BY <1>8, <1>9, <2>2, <3>1 DEF Verified
    <3> QED
      BY <3>2
  <2> QED
    BY <2>1, <2>2
<1>10. Lists(verified, listed)
  BY <1>5, <1>9 DEF Lists
<1> QED
  BY <1>1, <1>10

\* Free for Kea as it was at the list: no Subnet has the ID or the network.
Free(created, listed) ==
    /\ listed[created.id] = None
    /\ \A id \in Present(listed) : listed[id].network # created.network

ScopeFits(place, l) ==
    /\ place = "scope" /\ l.snapshot.confirms => Lists(l.snapshot.verified, l.listed)
    /\ l.created # None => place \in {"scope", "done"} /\ Free(l.created, l.listed)

ScopeInv == \A r \in Scopes : ScopeFits(pc[r], reader[r])

LEMMA ReaderScope ==
    ASSUME IInv, ScopeInv, NEW r \in Readers, NEW place, NEW new, Go(r, place, new),
           r \in Scopes => ScopeFits(place, new)
    PROVE  ScopeInv'
<1>1. ASSUME NEW other \in Scopes PROVE ScopeFits(pc'[other], reader'[other])
  <2>1. other \in Readers /\ pc \in [Readers -> Places] /\ reader \in [Readers -> ReaderStates]
    BY <1>1 DEF Readers, IInv, ReadersOK
  <2>2. CASE other = r
    BY <1>1, <2>1, <2>2 DEF Go
  <2>3. CASE other # r
    BY <1>1, <2>1, <2>3 DEF Go, ScopeInv
  <2> QED
    BY <2>2, <2>3
<1> QED
  BY <1>1 DEF ScopeInv

LEMMA ScopeNext == IInv /\ ScopeInv /\ [Next]_vars => ScopeInv'
<1> SUFFICES ASSUME IInv, ScopeInv, [Next]_vars PROVE ScopeInv'
  OBVIOUS
<1>1. ASSUME NEW r \in Readers, Read(r) PROVE ScopeInv'
  <2>1. /\ KeaOK /\ reader[r] \in ReaderStates /\ Fits(r, pc[r], reader[r])
        /\ (r \in Scopes => ScopeFits(pc[r], reader[r]))
    BY OfReader DEF ScopeInv
  <2>2. CASE Display(r) \/ Synchronize(r) \/ Enter(r)
    <3>1. PICK place \in {"lookup", "list"} : Go(r, place, Started)
      BY <2>2 DEF Display, Synchronize, Enter
    <3>2. ScopeFits(place, Started)
      BY DEF Started, NewReader, ScopeFits
    <3> QED
      BY <3>1, <3>2, ReaderScope
  <2>3. CASE Lookup(r)
    <3>1. r \notin Scopes /\ \E place, new : Go(r, place, new)
      BY <2>1, <2>3, OfReader DEF Lookup, Fits
    <3> QED
      BY <3>1, ReaderScope
  <2>4. CASE ReadList(r)
    <3>1. PICK answer : Go(r, "config", [reader[r] EXCEPT !.identity = answer, !.listed = live, !.includes = applied])
      BY <2>4 DEF ReadList
    <3> DEFINE new == [reader[r] EXCEPT !.identity = answer, !.listed = live, !.includes = applied]
    <3>2. new.created = reader[r].created /\ Go(r, "config", new) /\ pc[r] = "list"
      BY <2>1, <2>4, <3>1 DEF ReaderStates, ReadList
    <3> HIDE DEF new
    <3>3. r \in Scopes => ScopeFits("config", new)
      BY <2>1, <3>2 DEF ScopeFits
    <3> QED
      BY <3>2, <3>3, ReaderScope
  <2>5. CASE ReadConfig(r)
    <3>1. PICK answer \in {Unavailable} \cup {Observed(live, omitted, TRUE) : omitted \in SUBSET Present(live)} :
               LET snapshot == Reconcile(reader[r].identity, answer, live, reader[r].includes)
               IN  \/ Go(r, "list", [reader[r] EXCEPT !.retried = TRUE])
                   \/ Go(r, "done", Leaving(r)) /\ r \in Syncs
                   \/ Go(r, Ends(r, snapshot), [Leaving(r) EXCEPT !.snapshot = snapshot])
      BY <2>5, ReadConfigCases
    <3> DEFINE snapshot == Reconcile(reader[r].identity, answer, live, reader[r].includes)
               again == [reader[r] EXCEPT !.retried = TRUE]
               new == [Leaving(r) EXCEPT !.snapshot = snapshot]
    <3>2. Answered(reader[r].identity, reader[r].listed) /\ pc[r] = "config" /\ (r \in Scopes => reader[r].created = None)
      BY <2>1, <2>5 DEF ReadConfig, Fits, ScopeFits
    <3>3. answer = Unavailable \/ answer.available
      BY <3>1 DEF Observed
    <3>4. snapshot.confirms => Lists(snapshot.verified, reader[r].listed)
      BY <3>2, <3>3, ReconcileLists
    <3>5. /\ again.created = reader[r].created /\ new.snapshot = snapshot
          /\ new.created = reader[r].created /\ new.listed = reader[r].listed
      BY <2>1 DEF ReaderStates, Leaving
    <3>6. Go(r, "list", again) \/ (Go(r, "done", Leaving(r)) /\ r \notin Scopes) \/ Go(r, Ends(r, snapshot), new)
      BY <3>1, OfReader
    <3>7. r \in Scopes => ScopeFits("list", again) /\ ScopeFits(Ends(r, snapshot), new)
      BY <3>2, <3>4, <3>5 DEF ScopeFits
    <3> HIDE DEF snapshot, again, new
    <3> QED
      BY <3>6, <3>7, ReaderScope
  <2>6. CASE Store(r)
    <3>1. r \notin Scopes /\ \E place, new : Go(r, place, new)
      BY <2>1, <2>6, OfReader DEF Store, Fits
    <3> QED
      BY <3>1, ReaderScope
  <2>7. CASE PrepareCreation(r)
    <3>1. PICK id, network :
             LET used == reader[r].snapshot.verified
             IN  /\ pc[r] = "scope" /\ reader[r].snapshot.confirms
                 /\ network \notin {f.network : f \in used}
                 /\ id \in Ids /\ id \notin {f.id : f \in used}
                 /\ Go(r, "scope", [reader[r] EXCEPT !.created = [id |-> id, network |-> network]])
      BY <2>7, CreationCases
    <3> DEFINE created == [id |-> id, network |-> network]  new == [reader[r] EXCEPT !.created = created]
    <3>2. /\ new.snapshot = reader[r].snapshot /\ new.listed = reader[r].listed /\ new.created = created
          /\ Go(r, "scope", new) /\ created.id = id /\ created.network = network
      BY <2>1, <3>1 DEF ReaderStates
    <3>3. r \in Scopes => Lists(reader[r].snapshot.verified, reader[r].listed)
      BY <2>1, <3>1 DEF ScopeFits
    <3>4. r \in Scopes => Free(created, reader[r].listed)
      BY <3>1, <3>2, <3>3 DEF Free, Lists, Present
    <3> HIDE DEF created, new
    <3>5. r \in Scopes => ScopeFits("scope", new)
      BY <3>2, <3>3, <3>4 DEF ScopeFits
    <3> QED
      BY <3>2, <3>5, ReaderScope
  <2>8. CASE Exit(r)
    <3> DEFINE new == [reader[r] EXCEPT !.snapshot = None]
    <3>1. new.listed = reader[r].listed /\ new.created = reader[r].created /\ Go(r, "done", new)
      BY <2>1, <2>8 DEF ReaderStates, Exit
    <3> HIDE DEF new
    <3>2. r \in Scopes => ScopeFits("done", new)
      BY <2>1, <3>1 DEF ScopeFits
    <3> QED
      BY <3>1, <3>2, ReaderScope
  <2> QED
    BY <1>1, <2>2, <2>3, <2>4, <2>5, <2>6, <2>7, <2>8 DEF Read
<1>2. CASE UNCHANGED <<pc, reader>>
  BY <1>2 DEF ScopeInv
<1> QED
  BY <1>1, <1>2 DEF Next, Write, Notify, Send, NotifyAgain, LateRequest, Expire, AdminWrites, Finished, vars

\* A new Subnet gets an ID and a network that no Subnet had when Kea listed them, whatever config-get said and whoever
\* wrote in between.
THEOREM NewSubnetsAreFree == Spec => []CreatesOnFreeIdentity
<1>1. Init => ScopeInv
  BY DEF Init, ScopeInv, ScopeFits, NewReader, Readers
<1>2. ScopeInv => CreatesOnFreeIdentity
  BY DEF ScopeInv, ScopeFits, Free, CreatesOnFreeIdentity
<1> QED
  BY <1>1, <1>2, IInvInit, IInvNext, ScopeNext, PTL DEF Spec

------------------------------------------------------------------------------
(* The pages behind the cache.                                             *)

\* The displays that read the generation of the cache.
Pages == {r \in Displays : pc[r] # "idle"}

\* What a display got includes the changes that were over when it started.
Shows(place, l) ==
    /\ place = "config" => l.owed \subseteq l.includes
    /\ place = "store" \/ l.snapshot # None => l.owed \subseteq l.snapshot.includes

\* The generation decides which changes were over: no change ends without a new one.
Owes(g, owed) == g <= generation /\ (g = generation => owed = Over) /\ owed \subseteq applied

\* What the cache has for a generation includes the changes that were over for the pages of that generation, and for the
\* ones that still come.
Serves(g, entry) ==
    /\ g <= generation
    /\ g = generation => Over \subseteq entry.includes
    /\ \A r \in Pages : reader[r].generation = g => reader[r].owed \subseteq entry.includes

NoFailure == budget["cache"] = 0 /\ budget["late"] = 0

ServeInv ==
    /\ NoFailure
    /\ \A r \in Displays : Shows(pc[r], reader[r])
    /\ \A r \in Pages : Owes(reader[r].generation, reader[r].owed)
    /\ \A r, s \in Pages : reader[r].generation = reader[s].generation => reader[r].owed = reader[s].owed
    /\ \A g \in Generations : cache[g] # None => Serves(g, cache[g])

\* Only a failure of the cache, and a command that Kea runs late, spend what ServeInv needs.
LEMMA OtherFailures ==
    ASSUME KeaOK, NoFailure, budget' = budget \/ Spend("fault") \/ Spend("admin")
    PROVE  NoFailure'
BY DEF KeaOK, NoFailure, Spend, Disturbances

LEMMA NoSuchFailure == ASSUME KeaOK, NoFailure PROVE ~Spend("cache") /\ ~Spend("late")
BY DEF KeaOK, NoFailure, Spend

\* A display that started goes on.
LEMMA PageMoves ==
    ASSUME IInv, ServeInv, NEW r \in Readers, NEW place, NEW new, Go(r, place, new), pc[r] # "idle", place # "idle",
           new.generation = reader[r].generation, new.owed = reader[r].owed,
           r \in Displays => Shows(place, new),
           UNCHANGED <<generation, applied, change>>, NoFailure',
           \A g \in Generations : cache'[g] # None =>
                \/ cache'[g] = cache[g]
                \/ r \in Displays /\ g = reader[r].generation /\ reader[r].owed \subseteq cache'[g].includes
    PROVE  ServeInv'
<1>1. /\ pc \in [Readers -> Places] /\ reader \in [Readers -> ReaderStates] /\ Displays \subseteq Readers
      /\ pc' = [pc EXCEPT ![r] = place] /\ reader' = [reader EXCEPT ![r] = new]
  BY DEF IInv, ReadersOK, Readers, Go
<1>2. Pages' = Pages
  BY <1>1 DEF Pages
<1>3. \A s \in Pages : reader'[s].generation = reader[s].generation /\ reader'[s].owed = reader[s].owed
  BY <1>1 DEF Pages
<1>4. Over' = Over
  BY DEF Over
<1>5. \A s \in Displays : Shows(pc'[s], reader'[s])
  <2> SUFFICES ASSUME NEW s \in Displays PROVE Shows(pc'[s], reader'[s])
    OBVIOUS
  <2>1. CASE s = r
    BY <1>1, <2>1
  <2>2. CASE s # r
    BY <1>1, <2>2 DEF ServeInv
  <2> QED
    BY <2>1, <2>2
<1>6. \A s \in Pages' : Owes(reader[s].generation, reader[s].owed)'
  BY <1>2, <1>3, <1>4 DEF ServeInv, Owes
<1>7. \A s, t \in Pages' : reader'[s].generation = reader'[t].generation => reader'[s].owed = reader'[t].owed
  BY <1>2, <1>3 DEF ServeInv
<1>8. ASSUME NEW g \in Generations, cache'[g] # None PROVE Serves(g, cache[g])'
  <2>1. CASE cache'[g] = cache[g]
    <3>1. Serves(g, cache[g])
      BY <1>8, <2>1 DEF ServeInv
    <3> QED
      BY <1>2, <1>3, <1>4, <2>1, <3>1 DEF Serves
  <2>2. CASE r \in Displays /\ g = reader[r].generation /\ reader[r].owed \subseteq cache'[g].includes
    <3>1. r \in Pages
      BY <2>2 DEF Pages
    <3>2. Owes(g, reader[r].owed) /\ \A s \in Pages : reader[s].generation = g => reader[s].owed = reader[r].owed
      BY <2>2, <3>1 DEF ServeInv
    <3> QED
      BY <1>2, <1>3, <1>4, <2>2, <3>2 DEF Serves, Owes
  <2> QED
    BY <1>8, <2>1, <2>2
<1> QED
  BY <1>5, <1>6, <1>7, <1>8 DEF ServeInv

\* The displays stay: no change ends, or the generation is new.
LEMMA PagesStay ==
    ASSUME IInv, ServeInv, \A r \in Displays : pc'[r] = pc[r] /\ reader'[r] = reader[r],
           applied \subseteq applied',
           (generation' = generation /\ Over' = Over) \/ generation' = generation + 1,
           \A g \in Generations : cache'[g] # None => cache'[g] = cache[g], NoFailure'
    PROVE  ServeInv'
<1>1. Pages' = Pages /\ generation \in Nat /\ \A r \in Pages : reader'[r] = reader[r] /\ reader[r].generation \in Nat
  BY DEF Pages, IInv, GenerationOK, ReadersOK, ReaderStates, Generations, Readers
<1>2. \A r \in Displays : Shows(pc'[r], reader'[r])
  BY DEF ServeInv
<1>3. \A r \in Pages' : Owes(reader[r].generation, reader[r].owed)'
  BY <1>1 DEF ServeInv, Owes
<1>4. \A r, s \in Pages' : reader'[r].generation = reader'[s].generation => reader'[r].owed = reader'[s].owed
  BY <1>1 DEF ServeInv
<1>5. ASSUME NEW g \in Generations, cache'[g] # None PROVE Serves(g, cache[g])'
  <2>1. Serves(g, cache[g]) /\ g \in Nat /\ cache'[g] = cache[g]
    BY <1>5 DEF ServeInv, Generations
  <2> QED
    BY <1>1, <2>1 DEF Serves
<1> QED
  BY <1>2, <1>3, <1>4, <1>5 DEF ServeInv

\* A page starts: its generation is the present one, so that it owes the changes that are over.
LEMMA DisplayServes == ASSUME IInv, ServeInv, NEW r \in Readers, Display(r) PROVE ServeInv'
<1>1. /\ r \in Displays /\ pc[r] = "idle" /\ UNCHANGED <<live, generation, cache, change, applied, budget>>
      /\ pc \in [Readers -> Places] /\ reader \in [Readers -> ReaderStates] /\ Displays \subseteq Readers
      /\ pc' = [pc EXCEPT ![r] = "lookup"] /\ reader' = [reader EXCEPT ![r] = Started]
      /\ generation \in Nat
  BY DEF Display, Go, IInv, ReadersOK, Readers, GenerationOK
<1>2. Started.generation = generation /\ Started.owed = Over /\ Started.snapshot = None
  BY DEF Started, NewReader
<1>3. Pages' = Pages \cup {r} /\ r \notin Pages /\ Over' = Over /\ Over \subseteq applied
  BY <1>1 DEF Pages, Over
<1>4. \A s \in Pages : reader'[s] = reader[s]
  BY <1>1, <1>3 DEF Pages
<1>5. reader'[r] = Started /\ pc'[r] = "lookup"
  BY <1>1
<1>6. \A s \in Displays : Shows(pc'[s], reader'[s])
  <2> SUFFICES ASSUME NEW s \in Displays PROVE Shows(pc'[s], reader'[s])
    OBVIOUS
  <2>1. CASE s = r
    BY <1>2, <1>5, <2>1 DEF Shows
  <2>2. CASE s # r
    BY <1>1, <2>2 DEF ServeInv
  <2> QED
    BY <2>1, <2>2
<1>7. \A s \in Pages' : Owes(reader[s].generation, reader[s].owed)'
  BY <1>1, <1>2, <1>3, <1>4, <1>5 DEF ServeInv, Owes
<1>8. \A s, t \in Pages' : reader'[s].generation = reader'[t].generation => reader'[s].owed = reader'[t].owed
  <2>1. \A s \in Pages : reader[s].generation = generation => reader[s].owed = Over
    BY DEF ServeInv, Owes
  <2>2. \A s, t \in Pages : reader[s].generation = reader[t].generation => reader[s].owed = reader[t].owed
    BY DEF ServeInv
  <2> HIDE DEF Started, Over
  <2> QED
    BY <1>2, <1>3, <1>4, <1>5, <2>1, <2>2
<1>9. ASSUME NEW g \in Generations, cache'[g] # None PROVE Serves(g, cache[g])'
  <2>1. Serves(g, cache[g]) /\ cache'[g] = cache[g]
    BY <1>1, <1>9 DEF ServeInv
  <2> QED
    BY <1>1, <1>2, <1>3, <1>4, <1>5, <2>1 DEF Serves
<1>10. NoFailure'
  BY <1>1 DEF ServeInv, NoFailure
<1> QED
  BY <1>6, <1>7, <1>8, <1>9, <1>10 DEF ServeInv

LEMMA ReadServes == ASSUME IInv, ServeInv, NEW r \in Readers, Read(r) PROVE ServeInv'
<1>1. /\ KeaOK /\ CacheOK /\ reader[r] \in ReaderStates /\ Fits(r, pc[r], reader[r]) /\ NoFailure
      /\ (r \in Displays => Shows(pc[r], reader[r]))
      /\ r \in Displays /\ pc[r] # "idle" => r \in Pages
  BY OfReader DEF ServeInv, Pages
<1>2. CASE Display(r)
  BY <1>2, DisplayServes
<1>3. CASE Synchronize(r) \/ Enter(r)
  <2>1. r \notin Displays /\ UNCHANGED <<live, cache, change, applied, budget>> /\ Go(r, "list", Started)
    BY <1>3, OfReader DEF Synchronize, Enter
  <2>2. \A s \in Displays : pc'[s] = pc[s] /\ reader'[s] = reader[s]
    BY <2>1 DEF Go, IInv, ReadersOK, Readers
  <2>3. generation' = generation \/ generation' = generation + 1
    BY <1>3 DEF Synchronize, Enter, Invalidate
  <2>4. Over' = Over /\ NoFailure'
    BY <1>1, <2>1 DEF Over, NoFailure
  <2> QED
    BY <2>1, <2>2, <2>3, <2>4, PagesStay
<1>4. CASE Lookup(r)
  <2> DEFINE g == reader[r].generation  cached == cache[g]  new == [reader[r] EXCEPT !.snapshot = cached]
  <2>1. /\ r \in Displays /\ r \in Pages /\ pc[r] = "lookup"
        /\ UNCHANGED <<live, generation, cache, change, applied, budget>>
        /\ \/ cached # None /\ Go(r, "done", new)
           \/ Go(r, "list", reader[r])
    BY <1>1, <1>4 DEF Lookup, Fits, Pages
  <2>2. /\ new.generation = g /\ new.owed = reader[r].owed /\ new.snapshot = cached /\ g \in Generations
    BY <1>1 DEF ReaderStates
  <2>3. cached # None => reader[r].owed \subseteq cached.includes
    BY <2>1, <2>2 DEF ServeInv, Serves
  <2>4. cached # None => Shows("done", new)
    BY <2>2, <2>3 DEF Shows
  <2>5. Shows("list", reader[r])
    BY <1>1, <2>1 DEF Shows
  <2>6. NoFailure'
    BY <1>1, <2>1 DEF NoFailure
  <2> HIDE DEF new, cached
  <2> QED
    BY <2>1, <2>2, <2>4, <2>5, <2>6, PageMoves
<1>5. CASE ReadList(r)
  <2>1. PICK answer :
        /\ budget' = budget \/ Spend("fault")
        /\ Go(r, "config", [reader[r] EXCEPT !.identity = answer, !.listed = live, !.includes = applied])
    BY <1>5 DEF ReadList
  <2> DEFINE new == [reader[r] EXCEPT !.identity = answer, !.listed = live, !.includes = applied]
  <2>2. /\ new.generation = reader[r].generation /\ new.owed = reader[r].owed /\ new.includes = applied
        /\ new.snapshot = reader[r].snapshot
    BY <1>1 DEF ReaderStates
  <2>3. pc[r] = "list" /\ UNCHANGED <<live, generation, cache, change, applied>> /\ Go(r, "config", new)
    BY <1>5, <2>1 DEF ReadList
  <2> HIDE DEF new
  <2>4. r \in Displays => reader[r].owed \subseteq applied
    BY <1>1, <2>3 DEF ServeInv, Owes
  <2>5. r \in Displays => Shows("config", new)
    BY <1>1, <2>2, <2>4 DEF Shows
  <2>6. NoFailure'
    BY <1>1, <2>1, OtherFailures
  <2> QED
    BY <2>2, <2>3, <2>5, <2>6, PageMoves
<1>6. CASE ReadConfig(r)
  <2>1. PICK answer \in {Unavailable} \cup {Observed(live, omitted, TRUE) : omitted \in SUBSET Present(live)} :
             LET snapshot == Reconcile(reader[r].identity, answer, live, reader[r].includes)
             IN  /\ budget' = budget \/ Spend("fault")
                 /\ \/ Go(r, "list", [reader[r] EXCEPT !.retried = TRUE])
                    \/ Go(r, "done", Leaving(r)) /\ r \in Syncs
                    \/ Go(r, Ends(r, snapshot), [Leaving(r) EXCEPT !.snapshot = snapshot])
    BY <1>6, ReadConfigCases
  <2> DEFINE snapshot == Reconcile(reader[r].identity, answer, live, reader[r].includes)
             place == Ends(r, snapshot)
             again == [reader[r] EXCEPT !.retried = TRUE]
             new == [Leaving(r) EXCEPT !.snapshot = snapshot]
  <2>2. pc[r] = "config" /\ UNCHANGED <<live, generation, cache, change, applied>>
    BY <1>6 DEF ReadConfig
  <2>3. NoFailure'
    BY <1>1, <2>1, OtherFailures
  <2>4. snapshot.includes = reader[r].includes
    BY DEF Reconcile
  <2>5. /\ again.generation = reader[r].generation /\ again.owed = reader[r].owed /\ again.snapshot = reader[r].snapshot
        /\ again.includes = reader[r].includes
        /\ Leaving(r).generation = reader[r].generation /\ Leaving(r).owed = reader[r].owed
        /\ new.generation = reader[r].generation /\ new.owed = reader[r].owed /\ new.snapshot = snapshot
    BY <1>1 DEF ReaderStates, Leaving
  <2>6. place \in {"store", "done", "scope"}
    BY EndsAt
  <2>7. r \in Displays => Shows("list", again) /\ Shows(place, new)
    BY <1>1, <2>2, <2>4, <2>5, <2>6 DEF Shows
  <2>8. r \in Syncs => r \notin Displays
    BY OfReader
  <2>9. Go(r, "list", again) \/ (Go(r, "done", Leaving(r)) /\ r \in Syncs) \/ Go(r, place, new)
    BY <2>1
  <2> HIDE DEF snapshot, place, again, new
  <2>10. CASE Go(r, "list", again)
    BY <2>2, <2>3, <2>5, <2>7, <2>10, PageMoves
  <2>11. CASE Go(r, "done", Leaving(r)) /\ r \in Syncs
    BY <2>2, <2>3, <2>5, <2>8, <2>11, PageMoves
  <2>12. CASE Go(r, place, new)
    BY <2>2, <2>3, <2>5, <2>6, <2>7, <2>12, PageMoves
  <2> QED
    BY <2>9, <2>10, <2>11, <2>12
<1>7. CASE Store(r)
  <2>1. /\ pc[r] = "store" /\ r \in Displays /\ UNCHANGED <<live, generation, change, applied, budget>>
        /\ cache' = [cache EXCEPT ![reader[r].generation] = reader[r].snapshot] /\ Go(r, "done", reader[r])
    BY <1>1, <1>7 DEF Store, Fits
  <2>2. reader[r].owed \subseteq reader[r].snapshot.includes
    BY <1>1, <2>1 DEF Shows
  <2>3. Shows("done", reader[r])
    BY <2>2 DEF Shows
  <2>4. \A g \in Generations : cache'[g] = cache[g]
        \/ (g = reader[r].generation /\ reader[r].owed \subseteq cache'[g].includes)
    BY <1>1, <2>1, <2>2 DEF CacheOK
  <2>5. NoFailure'
    BY <1>1, <2>1 DEF NoFailure
  <2> QED
    BY <2>1, <2>3, <2>4, <2>5, PageMoves
<1>8. CASE PrepareCreation(r) \/ Exit(r)
  <2>1. /\ r \notin Displays /\ UNCHANGED <<live, cache, change, applied, budget>> /\ \E place, new : Go(r, place, new)
        /\ generation' = generation \/ generation' = generation + 1
    BY <1>1, <1>8, OfReader DEF PrepareCreation, Exit, Fits, Invalidate
  <2>2. \A s \in Displays : pc'[s] = pc[s] /\ reader'[s] = reader[s]
    BY <2>1 DEF Go, IInv, ReadersOK, Readers
  <2>3. Over' = Over /\ NoFailure'
    BY <1>1, <2>1 DEF Over, NoFailure
  <2> QED
    BY <2>1, <2>2, <2>3, PagesStay
<1> QED
  BY <1>2, <1>3, <1>4, <1>5, <1>6, <1>7, <1>8 DEF Read

\* A change is over only with a new generation.
LEMMA WriteServes == ASSUME IInv, ServeInv, NEW c \in Changes, Write(c) PROVE ServeInv'
<1>1. KeaOK /\ NoFailure /\ ~Spend("cache") /\ ~Spend("late") /\ change \in [Changes -> {"idle", "send", "notify", "done"}]
  BY NoSuchFailure DEF IInv, ServeInv, KeaOK
<1>2. CASE Notify(c)
  <2>1. /\ UNCHANGED <<cache, pc, reader, applied, budget>> /\ generation' = generation + 1
    BY <1>1, <1>2 DEF Notify, Invalidates, Invalidate
  <2>2. NoFailure'
    BY <1>1, <2>1 DEF NoFailure
  <2> QED
    BY <2>1, <2>2, PagesStay
<1>3. CASE Send(c)
  <2>1. /\ UNCHANGED <<generation, cache, pc, reader>> /\ applied \subseteq applied' /\ applied' \subseteq applied \cup {c}
        /\ change[c] = "send" /\ change' = [change EXCEPT ![c] = "notify"] /\ (budget' = budget \/ Spend("fault"))
    BY <1>3 DEF Send, Move
  <2>2. Over' = Over
    <3>1. \A d \in Changes : change'[d] = "done" <=> change[d] = "done"
      BY <1>1, <2>1
    <3>2. change'[c] # "done" /\ change[c] # "done"
      BY <1>1, <2>1
    <3> QED
      BY <1>1, <2>1, <3>1, <3>2 DEF Over, KeaOK
  <2>3. NoFailure'
    BY <1>1, <2>1, OtherFailures
  <2> QED
    BY <2>1, <2>2, <2>3, PagesStay
<1>4. CASE NotifyAgain(c)
  <2>1. /\ UNCHANGED <<cache, pc, reader, applied, budget>> /\ generation' = generation + 1
    BY <1>1, <1>4 DEF NotifyAgain, InvalidateAgain, Invalidates, Invalidate
  <2>2. NoFailure'
    BY <1>1, <2>1 DEF NoFailure
  <2> QED
    BY <2>1, <2>2, PagesStay
<1>5. CASE LateRequest(c)
  BY <1>1, <1>5 DEF LateRequest
<1> QED
  BY <1>2, <1>3, <1>4, <1>5 DEF Write

LEMMA ServeNext == IInv /\ ServeInv /\ [Next]_vars => ServeInv'
<1> SUFFICES ASSUME IInv, ServeInv, [Next]_vars PROVE ServeInv'
  OBVIOUS
<1>1. CASE Expire
  <2>1. UNCHANGED <<live, generation, pc, reader, change, applied, budget>>
        /\ \A g \in Generations : cache'[g] # None => cache'[g] = cache[g]
    BY <1>1 DEF Expire, IInv, CacheOK
  <2>2. Over' = Over /\ NoFailure'
    BY <2>1 DEF Over, NoFailure, ServeInv
  <2> QED
    BY <2>1, <2>2, PagesStay
<1>2. CASE AdminWrites
  <2>1. UNCHANGED <<generation, cache, pc, reader, change, applied>> /\ Spend("admin")
    BY <1>2 DEF AdminWrites
  <2>2. Over' = Over /\ NoFailure'
    BY <2>1, OtherFailures DEF Over, ServeInv, IInv
  <2> QED
    BY <2>1, <2>2, PagesStay
<1>3. CASE UNCHANGED vars
  <2>1. Over' = Over /\ NoFailure'
    BY <1>3 DEF vars, Over, NoFailure, ServeInv
  <2> QED
    BY <1>3, <2>1, PagesStay DEF vars
<1> QED
  BY <1>1, <1>2, <1>3, ReadServes, WriteServes DEF Next, Finished

\* While the invalidations reach the cache and Kea runs no command after NetBox stopped waiting, a page shows every change
\* that was over when it was opened, whichever page filled the cache and when.
THEOREM PagesShowChanges ==
    ASSUME Budget["cache"] = 0, Budget["late"] = 0
    PROVE  Spec => []ServedAfterChanges
<1>1. Init => ServeInv
  BY DEF Init, ServeInv, Pages, Shows, NewReader, Readers, NoFailure
<1>2. ServeInv => ServedAfterChanges
  BY DEF ServeInv, Shows, ServedAfterChanges
<1> QED
  BY <1>1, <1>2, IInvInit, IInvNext, ServeNext, PTL DEF Spec
==============================================================================
