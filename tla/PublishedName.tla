---------------------------- MODULE PublishedName ----------------------------
(* The name that Kea publishes for a reserved hostname (published_name.py). *)
(* A name is a sequence of labels, lower and upper case being two labels,   *)
(* and a stored hostname has or has not a dot at its end.                   *)
EXTENDS Naturals, Sequences

CONSTANTS Labels, Lowered   \* the lower case of each label

ASSUME LoweredAssumption == Lowered \in [Labels -> Labels] /\ \A l \in Labels : Lowered[Lowered[l]] = Lowered[l]

NoName == <<>>
Stored(labels, dot) == [labels |-> labels, dot |-> dot]
NoHostname == Stored(NoName, FALSE)

Lower(name) == [i \in DOMAIN name |-> Lowered[name[i]]]
From(name, i) == SubSeq(name, i, Len(name))

\* A suffix is present at the boundary of a label.
SuffixPresent(name, suffix) ==
    Len(suffix) <= Len(name) /\ From(name, Len(name) - Len(suffix) + 1) = suffix

Published(stored, suffix) ==
    LET bare == stored.labels = NoName \/ suffix = NoName \/ stored.dot
    IN  Lower(IF bare \/ SuffixPresent(stored.labels, suffix) THEN stored.labels
              ELSE stored.labels \o suffix)

\* The labels of a name before the suffix.
Head_(name, suffix) == SubSeq(name, 1, Len(name) - Len(suffix))

\* Mutant: a name without the suffix keeps no dot, so Kea qualifies it.
StoredWithoutDot(name, suffix) ==
    IF suffix # NoName /\ Len(name) > Len(suffix) /\ SuffixPresent(Lower(name), Lower(suffix))
    THEN Stored(Head_(name, suffix), FALSE)
    ELSE Stored(name, FALSE)

StoredHostname(name, suffix) ==
    LET labels == Head_(name, suffix)
        ends == Len(name) > Len(suffix) /\ SuffixPresent(Lower(name), Lower(suffix))
    IN  IF name = NoName \/ suffix = NoName THEN Stored(name, FALSE)
        ELSE IF ends /\ Published(Stored(labels, FALSE), suffix) = Lower(name) THEN Stored(labels, FALSE)
        ELSE Stored(name, Len(name) > 1)
=============================================================================
