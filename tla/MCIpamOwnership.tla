------------------------- MODULE MCIpamOwnership -------------------------
(* Instances of IpamOwnership for TLC.                                     *)
EXTENDS IpamOwnership, TLC

CONSTANTS s1, s2, v1, g, x, w1, w2, host, other

MCServers == {s1, s2}
OneServer == {s1}
InVrf == [s \in Servers |-> v1]

F == [name |-> host, len |-> 24]
Plain == [name |-> NoName, len |-> 24]
OneFact == {F}
NamedOrNot == {F, Plain}

Reported1(f) == [kind |-> "facts", facts |-> f]
Says(kind) == [kind |-> kind, facts |-> None]
KeaEmpty == [o \in Owners |-> Absent]
KeaOfFirst == [o \in Owners |-> IF o[1] = s1 THEN Reported1(F) ELSE Absent]
KeaLease == [o \in Owners |-> IF o = <<s1, "lease">> THEN Reported1(F) ELSE Absent]
KeaLeases == [o \in Owners |-> IF o[2] = "lease" THEN Reported1(F) ELSE Absent]
KeaGlobal == [o \in Owners |-> IF o = <<s1, "lease">> THEN Says("global") ELSE Absent]

NoRows == [row |-> [i \in Rows |-> None], link |-> [i \in Rows |-> NoLinks]]
OldRow(place, status) ==
    [place |-> place, status |-> status, marked |-> TRUE, room |-> 3, name |-> host, len |-> 24]
Linking(status, l) == [NoRows EXCEPT !.row[1] = OldRow(v1, status), !.link[1][<<s1, "lease">>] = l]
Confirmed(n, mark, adopted) == [facts |-> F, n |-> n, mark |-> mark, adopted |-> adopted, known |-> ~adopted]

Nothing == {NoRows}
OneStale == {Linking("dhcp", Confirmed(0, None, FALSE))}
NewOrLegacy == {NoRows, [NoRows EXCEPT !.row[1] = OldRow(g, "dhcp")]}
Deprecated == {Linking("deprecated", Confirmed(0, 0, FALSE))}
Curated == {[NoRows EXCEPT !.row[1] = [OldRow(v1, "active") EXCEPT !.marked = FALSE]]}
Adopted == {Linking("dhcp", Confirmed(0, None, TRUE))}

Job(s) == [kind |-> "job", server |-> s, source |-> "lease"]
Bulk(s) == [kind |-> "bulk", server |-> s, source |-> "reservation"]
Page(kind, s, source) == [kind |-> kind, server |-> s, source |-> source]

JobsOnly == {Job(s) : s \in Servers}
AllOrders == {Job(s1), Bulk(s1), Page("page", s1, "reservation"), Page("force", s1, "lease")}
ClaimOrders == {Job(s1), Page("page", s1, "reservation"), Page("force", s1, "lease")}
JobAndPages == {Job(s1), Page("page", s1, "lease")}
JobOrForce == {Job(s1), Page("force", s2, "lease")}
JobOrPage == {Job(s1), Page("page", s1, "reservation")}

Observed == {<<s, "lease">> : s \in Servers} \union {<<s1, "reservation">>}
ComeAndGo == {[owner |-> o, report |-> r] : o \in Observed, r \in {Absent, Reported1(F)}}
Changing ==
    {[owner |-> <<s1, "lease">>, report |-> r] : r \in {Absent, Reported1(Plain)}}
        \union {[owner |-> <<s1, "reservation">>, report |-> Absent]}
Clashing == {[owner |-> <<s1, "lease">>, report |-> Absent], [owner |-> <<s1, "reservation">>, report |-> Says("clash")]}
Ending == {[owner |-> <<s1, "lease">>, report |-> Says("inactive")], [owner |-> <<s1, "reservation">>, report |-> Says("global")]}
ReservationPasses ==
    {[owner |-> <<s1, "reservation">>, report |-> r] : r \in {Absent, Reported1(F)}}
        \union {[owner |-> <<s1, "lease">>, report |-> Reported1(F)]}

Workers == Permutations(Actors)
=============================================================================
