------------------------------ MODULE MCReader ------------------------------
(* Bytes are bits and integers have two of them: the order of the numbers   *)
(* is not that of their bytes (1 is 10 and 2 is 01), and the pubkey 11 is   *)
(* the last.  Five events are stored at the start, two of them under equal  *)
(* keys, one expired, one compressed, one unreadable; three are stored      *)
(* later, one of them in the group of equal keys.                           *)
EXTENDS Reader, TLC

Plain == [len |-> 9, tag |-> 0, dict |-> "d1", size |-> 1, json |-> TRUE]
Zstd  == [Plain EXCEPT !.tag = 1]

Ev(pubkey, kind, at, tag, bytes, expired) ==
    [pubkey |-> pubkey, kind |-> kind, created_at |-> at, tag |-> tag,
     payload |-> bytes, expired |-> expired]

MCCatalog ==
    <<Ev(<<0, 1>>, 1, 1, <<0>>,    Plain, FALSE),
      Ev(<<0, 1>>, 1, 1, <<0>>,    Zstd,  FALSE),
      Ev(<<0, 1>>, 2, 2, <<0, 1>>, Plain, FALSE),
      Ev(<<1, 1>>, 1, 2, <<1>>,    Plain, TRUE),
      Ev(<<1, 1>>, 1, 0, <<1, 1>>, [Zstd EXCEPT !.len = 4], FALSE),
      Ev(<<0, 1>>, 1, 1, <<0, 1>>, Zstd,  FALSE),
      Ev(<<1, 0>>, 2, 3, <<1>>,    [Zstd EXCEPT !.size = 3], FALSE),
      Ev(<<0, 0>>, 1, 2, <<0>>,    Plain, FALSE)>>

Job == [kind |-> "none", index |-> "Event__kind", direction |-> "Forward", key |-> <<>>,
        after |-> <<>>, limit |-> <<>>, authors |-> <<>>, eventKind |-> 1, perAuthor |-> 1]

\* From the end of the index, and from the group of equal keys.
ScanFrom(index) == {KeyOf(index, [MCCatalog[1] EXCEPT !.created_at = t]) : t \in {1, U64Max}}
                   \cup {KeyOf(index, [MCCatalog[4] EXCEPT !.kind = U64Max])}

Scans == UNION {{[Job EXCEPT !.kind = "scan", !.index = i, !.direction = d, !.key = k] :
                    d \in {"Forward", "Reverse"}, k \in ScanFrom(i)} :
                i \in {"Event__kind", "Event__pubkeyKind", "Event__created_at", "Event__tag",
                       "Event__pubkey"}}

Streams == {[Job EXCEPT !.kind = "stream", !.index = i, !.key = k] :
               <<i, k>> \in {<<"Event__pubkeyKind", <<0, 1, 1, 0, 1, 1>>>>,
                             <<"Event__kind", <<0, 1, 1, 1>>>>,
                             <<"Event__pubkey", <<1, 1, 0, 1>>>>,
                             <<"Event__tag", <<0, 1, 1, 1>>>>}}

Pages == {[Job EXCEPT !.kind = "authors", !.limit = l, !.after = a] :
             l \in {<<>>, <<0>>, <<1>>, <<9>>}, a \in {<<>>, <<0, 1>>, <<1>>, <<1, 1>>}}

Lists == {<<<<0, 1>>, <<1>>, <<1, 1>>>>, <<<<1, 1>>, <<0, 1>>>>,
          <<<<0, 1>>, <<0, 1>>, <<0, 1>>, <<0, 1>>>>}
Latests == {[Job EXCEPT !.kind = "latest", !.authors = a, !.perAuthor = n, !.eventKind = k] :
               a \in Lists, n \in {-1, 2, 9}, k \in {-1, 1}}

Symmetry == Permutations(Workers)

MCJobs == Scans \cup Streams \cup Pages \cup Latests
=============================================================================
