------------------------- MODULE MCNetworkOwnership -------------------------
(* Instances of NetworkOwnership for TLC.                                  *)
EXTENDS NetworkOwnership, TLC

CONSTANTS s1, s2, w1, w2

TwoServers == {s1, s2}
OneServer == {s1}
OfPrefix == {"subnet", "lease", "import"}

Says(length) == [kind |-> "length", length |-> length]
Clash == [kind |-> "clash", length |-> None]
KeaEmpty == [o \in Owners |-> Absent]
ComeAndGo == {[owner |-> <<s1, source>>, report |-> r] : source \in OfPrefix, r \in {Absent, Says(24)}}
Settles == {[owner |-> <<s1, "subnet">>, report |-> Says(24)], [owner |-> <<s1, "lease">>, report |-> Says(24)]}
Resize == {[owner |-> <<s, "pool">>, report |-> r] : s \in Servers, r \in {Absent, Says(24), Says(25), Clash}}

Job(s, plan) == [kind |-> "job", server |-> s, plan |-> plan]
Prefixes == <<"subnet", "lease">>
PrefixOrders == {Job(s1, Prefixes), [kind |-> "import", server |-> s1, plan |-> <<"import">>],
                 [kind |-> "force", server |-> s1, plan |-> <<"lease">>]}
RangeOrders == {Job(s, <<"pool">>) : s \in Servers}
                 \union {[kind |-> "page", server |-> s1, plan |-> <<"pool">>]}

Missing == [net |-> None, link |-> NoLinks]
Owned(o, status, mark, adopted) ==
    [net |-> [status |-> status, kind |-> MarkerKind({o[2]}), marked |-> TRUE, room |-> 2],
     link |-> [NoLinks EXCEPT ![o] = [length |-> 24, n |-> 0, mark |-> mark, adopted |-> adopted]]]
NewOrStale == {Missing, Owned(<<s1, "lease">>, "active", None, FALSE)}
Deprecated == {Owned(<<s1, "lease">>, "deprecated", 0, FALSE)}
Adopted == {Owned(<<s1, "pool">>, "active", None, TRUE)}

Workers == Permutations(Actors)
=============================================================================
