------------------------- MODULE MCAddressScenarios -------------------------
(* Side by side: a behaviour is one of the six scenarios of MCIpamOwnership.  *)
EXTENDS MCIpamOwnership

VARIABLE scenario

\* Two Servers, each in its own job.
Shared == INSTANCE IpamOwnership WITH
    Mode <- "deprecate", Facts <- OneFact, Orders <- JobsOnly, Moves <- ComeAndGo, Edits <- {},
    StartRows <- OneStale, StartKea <- KeaEmpty, MaxOrders <- 2, MaxMoves <- 2, MaxFaults <- 1
\* A legacy row in the global table, and every way to claim.
Claimed == INSTANCE IpamOwnership WITH
    Mode <- "remove", Facts <- OneFact, Orders <- ClaimOrders, Moves <- Clashing, Edits <- {"create", "release", "move"},
    StartRows <- NewOrLegacy, StartKea <- KeaLease, MaxOrders <- 2, MaxMoves <- 1, MaxFaults <- 0
\* An adopted link, and every edit of an operator.
Edited == INSTANCE IpamOwnership WITH
    Mode <- "remove", Facts <- OneFact, Orders <- AllOrders, Moves <- Ending,
    Edits <- {"release", "mark", "delete", "refer", "barrier", "drop"},
    StartRows <- Adopted, StartKea <- KeaLease, MaxOrders <- 2, MaxMoves <- 1, MaxFaults <- 0
\* Jobs and pages around one change of a report.
Settling == INSTANCE IpamOwnership WITH
    Mode <- "deprecate", Facts <- NamedOrNot, Orders <- JobAndPages, Moves <- Changing, Edits <- {},
    StartRows <- Deprecated, StartKea <- KeaOfFirst, MaxOrders <- 3, MaxMoves <- 1, MaxFaults <- 0
\* A row that operators keep, and that another Server takes by force before or after two jobs.
Taken == INSTANCE IpamOwnership WITH
    Mode <- "deprecate", Facts <- OneFact, Orders <- JobOrForce, Moves <- {}, Edits <- {},
    StartRows <- Curated, StartKea <- KeaLeases, MaxOrders <- 3, MaxMoves <- 0, MaxFaults <- 0
\* A reservation comes and goes between the two reads of a job, and a page claims it,
\* while the lease is reported all the time and is, at first, of the whole network.
Passing == INSTANCE IpamOwnership WITH
    Mode <- "remove", Facts <- OneFact, Orders <- JobOrPage, Moves <- ReservationPasses, Edits <- {"refer", "barrier"},
    StartRows <- Nothing, StartKea <- KeaGlobal, MaxOrders <- 2, MaxMoves <- 3, MaxFaults <- 0

\* The constants of the module itself cover the six scenarios.
EveryOrder == AllOrders \union JobAndPages \union JobsOnly \union JobOrForce
EveryMove == ComeAndGo \union Changing \union Clashing \union Ending \union ReservationPasses
EveryStart == OneStale \union NewOrLegacy \union Adopted \union Deprecated \union Curated

MCInit ==
    \/ scenario = "shared" /\ Shared!Init
    \/ scenario = "claimed" /\ Claimed!Init
    \/ scenario = "edited" /\ Edited!Init
    \/ scenario = "settling" /\ Settling!Init
    \/ scenario = "taken" /\ Taken!Init
    \/ scenario = "passing" /\ Passing!Init

MCNext ==
    /\ UNCHANGED scenario
    /\ \/ scenario = "shared" /\ Shared!Next
       \/ scenario = "claimed" /\ Claimed!Next
       \/ scenario = "edited" /\ Edited!Next
       \/ scenario = "settling" /\ Settling!Next
       \/ scenario = "taken" /\ Taken!Next
       \/ scenario = "passing" /\ Passing!Next

MCSpec == MCInit /\ [][MCNext]_<<vars, scenario>>
=============================================================================
