------------------------- MODULE MCNetworkScenarios -------------------------
(***************************************************************************)
(* Side by side: a behaviour is one of the three scenarios of              *)
(* MCNetworkOwnership, or one of two scenarios of AdoptionBarrier, whose   *)
(* variables stay at an initial state in the others.                       *)
(***************************************************************************)
EXTENDS MCNetworkOwnership

VARIABLES scenario, bKea, bConfig, present, setting, receipt, first, bLink, exists, bActor, form, bBudget, settled

barrierVars == <<bKea, bConfig, present, setting, receipt, first, bLink, exists, bActor, form, bBudget, settled>>

\* One Prefix that a job, an import and a forced claim find.
OnePrefix == INSTANCE NetworkOwnership WITH
    Orders <- PrefixOrders, Moves <- ComeAndGo, Edits <- {"refer"}, StartNets <- NewOrStale,
    MaxOrders <- 2, MaxMoves <- 2, MaxEdits <- 1, MaxFaults <- 1
\* One IP Range with an adopted link, and Pools of two Servers.
OneRange == INSTANCE NetworkOwnership WITH
    Orders <- RangeOrders, Moves <- Resize, Edits <- EditKinds, StartNets <- Adopted,
    MaxOrders <- 2, MaxMoves <- 2, MaxEdits <- 1, MaxFaults <- 0
\* Jobs around one change of a report.
Settling == INSTANCE NetworkOwnership WITH
    Orders <- PrefixOrders, Moves <- Settles, Edits <- {"create", "barrier"}, StartNets <- Deprecated,
    MaxOrders <- 3, MaxMoves <- 1, MaxEdits <- 1, MaxFaults <- 0

\* The constants of the module itself cover the scenarios.
EveryOrder == PrefixOrders \union RangeOrders
EveryMove == ComeAndGo \union Settles \union Resize
EveryStart == NewOrStale \union Adopted \union Deprecated

OfBoth == {<<s1, "lease">>, <<s2, "reservation">>}
Choices == {{"lease"}, {"lease", "import"}}
Settings == [s \in Servers |-> IF s = s1 THEN {"lease", "reservation"} ELSE {"lease", "import"}]

\* A second Server is added; edit forms of two Servers.
Added == INSTANCE AdoptionBarrier WITH
    StartPresent <- {s1}, StartSettings <- [s \in Servers |-> {"lease"}], StartKea <- OfBoth,
    SettingChoices <- Choices, ConfigChoices <- {{"lease"}},
    MaxOrders <- 3, MaxEdits <- 2, MaxFaults <- 0,
    kea <- bKea, config <- bConfig, link <- bLink, actor <- bActor, budget <- bBudget
Formed == INSTANCE AdoptionBarrier WITH
    StartPresent <- Servers, StartSettings <- Settings, StartKea <- OfBoth,
    SettingChoices <- Choices, ConfigChoices <- {{"lease"}, {"lease", "reservation"}},
    MaxOrders <- 2, MaxEdits <- 1, MaxFaults <- 1,
    kea <- bKea, config <- bConfig, link <- bLink, actor <- bActor, budget <- bBudget

ASSUME Added!BarrierAssumption /\ Formed!BarrierAssumption

MCInit ==
    \/ scenario = "prefix" /\ OnePrefix!Init /\ Added!Init
    \/ scenario = "range" /\ OneRange!Init /\ Added!Init
    \/ scenario = "settling" /\ Settling!Init /\ Added!Init
    \/ scenario = "added" /\ Added!Init /\ OneRange!Init
    \/ scenario = "formed" /\ Formed!Init /\ OneRange!Init

MCNext ==
    /\ UNCHANGED scenario
    /\ \/ scenario = "prefix" /\ OnePrefix!Next /\ UNCHANGED barrierVars
       \/ scenario = "range" /\ OneRange!Next /\ UNCHANGED barrierVars
       \/ scenario = "settling" /\ Settling!Next /\ UNCHANGED barrierVars
       \/ scenario = "added" /\ Added!Next /\ UNCHANGED vars
       \/ scenario = "formed" /\ Formed!Next /\ UNCHANGED vars

MCSpec == MCInit /\ [][MCNext]_<<vars, barrierVars, scenario>>

\* The barrier waits for every owner, and for each of them once.
AdoptionWaitsOnce == Added!AdoptionWaitsOnce
=============================================================================
