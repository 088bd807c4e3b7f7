----------------------------- MODULE MCAdapter -----------------------------
(* Two indexes.  The first has up to four keys in every order, one perhaps *)
(* with two entries, under every comparator, registered or not; the second *)
(* is sound, missing, or compared by memcmp.  Everything around the indexes *)
(* is as it should be, or one thing is not.                                *)
EXTENDS Adapter, TLC

MCIndexes == <<"Event__kind", "Event__created_at">>

Orders(n) == {p \in [1 .. n -> 1 .. n] : \A i, j \in 1 .. n : p[i] = p[j] => i = j}

\* A tree over 1 .. n and the rank of every key under a comparator.
First == {[present |-> TRUE, tree |-> t, twice |-> d, own |-> o, registered |-> r] :
             t \in UNION {Orders(n) : n \in {0, 1, 3, 4}}, d \in {{}, {2}}, o \in Orders(4),
             r \in BOOLEAN}

Sound   == [present |-> TRUE, tree |-> <<2, 1>>, twice |-> {}, own |-> <<2, 1>>, registered |-> TRUE]
Missing == [Sound EXCEPT !.present = FALSE]
ByBytes == [Sound EXCEPT !.registered = FALSE]

\* The record of the fixture: version at 40, byte order at 32, counter at 24.
Values(version, endianness) ==
    [i \in 0 .. 48 |-> CASE i = 40 -> version [] i = 32 -> endianness [] OTHER -> 1]
Meta == [len |-> 48, root |-> 20, vtable |-> 10, vsize |-> 10, slots |-> <<20, 12, 4>>,
         at |-> Values(3, 1)]
Metas == {Meta,
          [Meta EXCEPT !.at = Values(2, 1)], [Meta EXCEPT !.at = Values(3, 2)],
          [Meta EXCEPT !.len = 12], [Meta EXCEPT !.len = 42], [Meta EXCEPT !.vtable = -2],
          [Meta EXCEPT !.vsize = 8], [Meta EXCEPT !.slots = <<20, 0, 4>>]}

Base == [file |-> "good", tty |-> FALSE, addressFree |-> TRUE, envOpens |-> TRUE,
         metaPresent |-> TRUE, meta |-> Meta, index |-> (MCIndexes[1] :> Sound @@ MCIndexes[2] :> Sound)]

WithIndexes == {[Base EXCEPT !.index = (MCIndexes[1] :> x @@ MCIndexes[2] :> y)] :
                   x \in First, y \in {Sound, Missing, ByBytes}}

MCWorlds ==
    WithIndexes
    \cup {[Base EXCEPT !.meta = m] : m \in Metas}
    \cup {[Base EXCEPT !.file = f, !.tty = t] : f \in {"absent", "bad"}, t \in BOOLEAN}
    \cup {[Base EXCEPT !.addressFree = FALSE], [Base EXCEPT !.envOpens = FALSE],
          [Base EXCEPT !.metaPresent = FALSE]}
=============================================================================
