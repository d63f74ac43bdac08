---------------------------- MODULE MCReservations ----------------------------
(***************************************************************************)
(* Side by side: a behaviour is one of the three scenarios of              *)
(* ReservationEdits below, or a traversal of ReservationReads with a Kea   *)
(* that answers as it should or with any cursor. The variables of the      *)
(* other module stay at an initial state.                                  *)
(***************************************************************************)
EXTENDS MCReservationEdits

VARIABLES part, source, read, readBudget

\* Two requests, and an administrator, on one Reservation.
Requests == INSTANCE ReservationEdits WITH
    Addresses <- {a1}, PoolAddresses <- {}, Hostnames <- {Host}, Entered <- {}, OptionData <- {o1}, Suffixes <- {<<"lan">>},
    Documents <- {}, MaxKea <- 1, MaxDns <- 0, MaxFaults <- 0
\* One request that enters a name, under every suffix.
Names == INSTANCE ReservationEdits WITH
    Addresses <- {a1, a2}, PoolAddresses <- {a2}, Hostnames <- AllHostnames, Entered <- AllEntered, OptionData <- {},
    Suffixes <- AllSuffixes, Documents <- {}, MaxKea <- 0, MaxDns <- 1, MaxFaults <- 0
\* An import, and a request on one of its Reservations.
Importing == INSTANCE ReservationEdits WITH
    Addresses <- {a1, a2}, PoolAddresses <- {}, Hostnames <- {Host}, Entered <- {}, OptionData <- {}, Suffixes <- {<<"lan">>},
    Documents <- AllDocuments, MaxKea <- 0, MaxDns <- 0, MaxFaults <- 1

Reading == INSTANCE ReservationReads WITH
    LastSource <- 1, LastHost <- 2, Limit <- 2, MaxEmpty <- 2, MaxPages <- 3, MaxBatch <- 2, Faulty <- FALSE,
    Modes <- {"snapshot", "list", "search"}, MaxChanges <- 2, MaxFaults <- 1, host <- source, budget <- readBudget
AnyCursor == INSTANCE ReservationReads WITH
    LastSource <- 1, LastHost <- 2, Limit <- 1, MaxEmpty <- 1, MaxPages <- 2, MaxBatch <- 2, Faulty <- TRUE,
    Modes <- {"snapshot"}, MaxChanges <- 0, MaxFaults <- 0, host <- source, budget <- readBudget

ASSUME Reading!ReadsAssumption /\ AnyCursor!ReadsAssumption

readVars == <<source, read, readBudget>>

NoReads == Reading!Init /\ source = [h \in Reading!Hosts |-> None]
NoEdits == Requests!Init /\ host = [id \in Ids |-> None] /\ dns.pool = None

\* One request at a time; the requests are about r1.
OneRequest == \A p, q \in Pages : p # q => page[p] = Idle \/ page[q] = Idle
OnlyFirst == host[r2] = None /\ \A p \in Pages : page[p] # Idle => page[p].id = r1

MCInit ==
    \/ part = "requests" /\ Requests!Init /\ host[r1] # None /\ host[r2] = None /\ dns.pool = None /\ NoReads
    \/ part = "names" /\ Names!Init /\ host[r1] # None /\ host[r2] = None /\ NoReads
    \/ part = "import" /\ Importing!Init /\ dns.pool = None /\ NoReads
    \/ part = "reading" /\ Reading!Init /\ NoEdits
    \/ part = "faulty" /\ AnyCursor!Init /\ NoEdits

MCNext ==
    /\ UNCHANGED part
    /\ \/ /\ part = "requests" /\ Requests!Next /\ OnlyFirst'
       \/ /\ part = "names" /\ Names!Next /\ OnlyFirst' /\ OneRequest'
       \/ part = "import" /\ Importing!Next /\ OneRequest'
       \/ part \in {"reading", "faulty"} /\ UNCHANGED vars
    /\ \/ part = "reading" /\ Reading!Next
       \/ part = "faulty" /\ AnyCursor!Next
       \/ part \notin {"reading", "faulty"} /\ UNCHANGED readVars

MCSpec == MCInit /\ [][MCNext]_<<vars, readVars, part>>

\* A traversal without a diagnostic holds every Reservation that stayed, and
\* a Snapshot of any Kea ends after a bounded number of commands.
TraversalsHold == (part = "reading" => Reading!CompleteHoldsAll) /\ (part = "faulty" => AnyCursor!CommandsBounded)
=============================================================================
