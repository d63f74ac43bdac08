-------------------------- MODULE MCConfigScenarios --------------------------
(***************************************************************************)
(* Side by side: a behaviour is one of the four scenarios of MCConfigWrite. *)
(***************************************************************************)
EXTENDS MCConfigWrite

VARIABLE scenario

Moves == INSTANCE ConfigWrite WITH
    InitialConfigs <- MoveConfigs, Requests <- MoveRequests, AdminCommands <- MoveAdmin, Budget <- MoveBudget
Adds == INSTANCE ConfigWrite WITH
    InitialConfigs <- AddConfigs, Requests <- AddRequests, AdminCommands <- AddAdmin, Budget <- AddBudget
Edits == INSTANCE ConfigWrite WITH
    InitialConfigs <- EditConfigs, Requests <- EditRequests, AdminCommands <- EditAdmin, Budget <- EditBudget
Natives == INSTANCE ConfigWrite WITH
    InitialConfigs <- NativeConfigs, Requests <- NativeRequests, AdminCommands <- NativeAdmin, Budget <- NativeBudget

\* The constants of the module itself cover the four scenarios.
AllConfigs == MoveConfigs \cup AddConfigs \cup EditConfigs \cup NativeConfigs
AllRequests == MoveRequests \cup AddRequests \cup EditRequests \cup NativeRequests
AllAdmin == MoveAdmin \cup AddAdmin \cup EditAdmin \cup NativeAdmin
AllBudget == [kind \in Disturbances |-> 2]

MCInit ==
    \/ scenario = "moves" /\ Moves!Init
    \/ scenario = "adds" /\ Adds!Init
    \/ scenario = "edits" /\ Edits!Init
    \/ scenario = "natives" /\ Natives!Init

MCNext ==
    /\ UNCHANGED scenario
    /\ \/ scenario = "moves" /\ Moves!Next
       \/ scenario = "adds" /\ Adds!Next
       \/ scenario = "edits" /\ Edits!Next
       \/ scenario = "natives" /\ Natives!Next

MCSpec == MCInit /\ [][MCNext]_<<vars, scenario>>
==============================================================================
