------------------------- MODULE MCReservationEdits -------------------------
(* Instances of ReservationEdits for TLC.                                  *)
EXTENDS ReservationEdits, TLC

CONSTANTS r1, r2, p1, p2, a1, a2, o1

Letters == {"h", "H", "x", "lan"}
LowerCase == [l \in Letters |-> IF l = "H" THEN "h" ELSE l]

\* The suffixes: none, one label, two labels.
AllSuffixes == {NoName, <<"lan">>, <<"x", "lan">>}

Host == Stored(<<"h">>, FALSE)
AllHostnames == {Host, Stored(<<"h", "x">>, FALSE), Stored(<<"h", "lan">>, TRUE), Stored(<<"h">>, TRUE)}
AllEntered == {Host, Stored(<<"H", "x", "lan">>, TRUE), Stored(<<"h", "x">>, FALSE)}

Entry(id, address, fault) == [id |-> id, address |-> address, fault |-> fault]
AllDocuments ==
    {<<Entry(r1, a1, f), Entry(r2, a2, g)>> : f, g \in {"none", "field", "live"}}
        \union {<<Entry(r1, a1, "none"), Entry(i, a2, "none")>> : i \in {r1, r2}}
        \union {<<Entry(r2, a1, "none"), Entry(r1, a1, "none")>>}

Interchangeable == Permutations(Pages)
=============================================================================
