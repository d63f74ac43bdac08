------------------------ MODULE MCCatalogueScenarios ------------------------
(***************************************************************************)
(* Side by side: a behaviour is one of the two scenarios of                *)
(* MCSubnetCatalogue, in which only some of the readers and changes begin. *)
(***************************************************************************)
EXTENDS MCSubnetCatalogue

VARIABLE scenario

PageScenario == INSTANCE SubnetCatalogue WITH
    InitialSubnets <- PageSubnets, Effect <- PageEffects, AdminEffects <- PageAdmin, Budget <- PageBudget
ScopeScenario == INSTANCE SubnetCatalogue WITH
    InitialSubnets <- ScopeSubnets, Effect <- ScopeEffects, AdminEffects <- ScopeAdmin, Budget <- ScopeBudget,
    SendsMembership <- FALSE

\* The constants of the module itself cover both scenarios.
AllSubnets == PageSubnets \cup ScopeSubnets
AllAdmin == PageAdmin \cup ScopeAdmin
AllBudget == [kind \in Disturbances |-> 2]

\* The readers and the changes that begin in a scenario.
Begins(r) == IF scenario = "pages" THEN r \in Displays ELSE r \in Scopes \cup Syncs
Runs(c) == scenario = "pages" \/ c = c1

MCInit ==
    \/ scenario = "pages" /\ PageScenario!Init
    \/ scenario = "scopes" /\ ScopeScenario!Init

\* The readers and the changes of the scenario are done.
AllOver ==
    /\ \A r \in Readers : Begins(r) => pc[r] = "done"
    /\ \A c \in Changes : Runs(c) => change[c] = "done"
    /\ UNCHANGED vars

MCNext ==
    /\ UNCHANGED scenario
    /\ \/ scenario = "pages" /\ PageScenario!Next
       \/ scenario = "scopes" /\ ScopeScenario!Next
       \/ AllOver
    /\ \A r \in Readers : Begins(r) \/ pc'[r] = "idle"
    /\ \A c \in Changes : Runs(c) \/ (change'[c] = "idle" /\ c \notin applied')

MCSpec == MCInit /\ [][MCNext]_<<vars, scenario>>
==============================================================================
