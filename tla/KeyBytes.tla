------------------------------ MODULE KeyBytes ------------------------------
(***************************************************************************)
(* The keys of strfry's Event__* indexes as LMDB2GraphQL builds, orders    *)
(* and cuts them: sequences of bytes, a string part followed by one or two *)
(* little-endian integers.  A byte is a number below Base and an integer   *)
(* takes Width bytes (256 and 8 in the code).                              *)
(***************************************************************************)
EXTENDS Integers, Sequences, FiniteSets, SequencesExt

CONSTANTS Base, Width

ASSUME KeyBytesConstants == Base \in Nat \ {0, 1} /\ Width \in Nat \ {0}

\* to_le_bytes: the lowest digit first.
Le(n) ==
    LET rest[i \in 0 .. Width] == IF i = 0 THEN n ELSE rest[i - 1] \div Base
    IN  [i \in 1 .. Width |-> rest[i - 1] % Base]

\* from_le_bytes.
FromLe(bytes) ==
    LET high[i \in 0 .. Width] == IF i = 0 THEN 0 ELSE bytes[Width - i + 1] + Base * high[i - 1]
    IN  high[Width]

U64Max == FromLe([i \in 1 .. Width |-> Base - 1])

\* The integer that ends n integers before the end of the key.
Integer(key, n) == FromLe(SubSeq(key, Len(key) - (n + 1) * Width + 1, Len(key) - n * Width))

\* created_at_from_key.
CreatedAt(key) == Integer(key, 0)

\* The value-partition of a stream: the key without its trailing created_at.
Prefix(key) == SubSeq(key, 1, Len(key) - Width)

EventIndexes == {"Event__pubkey", "Event__tag", "Event__kind", "Event__pubkeyKind", "Event__created_at"}

\* The layouts of golpe.yaml, as the code relies on them.
KeyOf(index, e) ==
    CASE index = "Event__pubkey"     -> e.pubkey \o Le(e.created_at)
      [] index = "Event__tag"        -> e.tag \o Le(e.created_at)
      [] index = "Event__kind"       -> Le(e.kind) \o Le(e.created_at)
      [] index = "Event__pubkeyKind" -> e.pubkey \o Le(e.kind) \o Le(e.created_at)
      [] index = "Event__created_at" -> Le(e.created_at)

\* mdb_cmp_memn: memcmp of the common length, then the shorter is less.
MemLess(a, b) ==
    \/ IsStrictPrefix(a, b)
    \/ \E i \in DOMAIN a \cap DOMAIN b :
          a[i] < b[i] /\ \A j \in 1 .. i - 1 : a[j] = b[j]

\* How many integers end a key, after its string part.
TrailingIntegers(index) ==
    CASE index \in {"Event__pubkey", "Event__tag"} -> 1
      [] index \in {"Event__kind", "Event__pubkeyKind"} -> 2
      [] index = "Event__created_at" -> 1

\* StringUint64Cmp, Uint64Uint64Cmp, StringUint64Uint64Cmp, IntegerComparator.
Less(index, a, b) ==
    LET n == TrailingIntegers(index)
        string(k) == SubSeq(k, 1, Len(k) - n * Width)
    IN  \/ MemLess(string(a), string(b))
        \/ /\ string(a) = string(b)
           /\ \E i \in 0 .. n - 1 :
                 /\ Integer(a, i) < Integer(b, i)
                 /\ \A j \in i + 1 .. n - 1 : Integer(a, j) = Integer(b, j)

\* reverse_upper_bound: one above the timestamp, or the key itself at the top.
ReverseUpperBound(key) ==
    IF CreatedAt(key) < U64Max
    THEN [key |-> Prefix(key) \o Le(CreatedAt(key) + 1), excluded |-> TRUE]
    ELSE [key |-> key, excluded |-> FALSE]

\* The key that has no successor: increment_be gives None.
AllFF(pk) == \A i \in DOMAIN pk : pk[i] = Base - 1

\* Faulty variant: the carry is lost.
IncrementNoCarry(pk) == [pk EXCEPT ![Len(pk)] = (@ + 1) % Base]

\* increment_be: the last byte below the maximum goes up, those behind it to 0.
IncrementBe(pk) ==
    LET last == CHOOSE i \in DOMAIN pk :
                   pk[i] < Base - 1 /\ \A j \in i + 1 .. Len(pk) : pk[j] = Base - 1
    IN  [i \in DOMAIN pk |-> IF i < last THEN pk[i] ELSE IF i = last THEN pk[i] + 1 ELSE 0]

-----------------------------------------------------------------------------
(* heed over LMDB.  Rows is the contents of an index: a sequence of         *)
(* [key, lev], ascending by key and, within one key, by levId.              *)

\* MDB_SET_RANGE: the position of the first key that is not less, past the end if
\* there is none.
SetRange(index, rows, key) ==
    Min({i \in DOMAIN rows : ~Less(index, rows[i].key, key)} \cup {Len(rows) + 1})

\* The position behind a key and its duplicates.
Behind(index, rows, key) ==
    Min({i \in DOMAIN rows : Less(index, key, rows[i].key)} \cup {Len(rows) + 1})

\* range with an open end.
RangeFrom(index, rows, from) ==
    SubSeq(rows, IF from.excluded THEN Behind(index, rows, from.key) ELSE SetRange(index, rows, from.key),
           Len(rows))

\* rev_range: the walk starts below the bound.  An included bound that is a key
\* of the index is met at its smallest duplicate, and the larger are passed by.
RevRange(index, rows, upto) ==
    LET n     == SetRange(index, rows, upto.key)
        found == n <= Len(rows) /\ (n <= Len(rows) => rows[n].key = upto.key)
    IN  Reverse(SubSeq(rows, 1, IF ~upto.excluded /\ found THEN n ELSE n - 1))

Included(key) == [key |-> key, excluded |-> FALSE]
Excluded(key) == [key |-> key, excluded |-> TRUE]

\* The walk of a scan in a direction, from its start key or behind a resume key.
Walk(index, rows, direction, key, first) ==
    IF direction = "Forward"
    THEN RangeFrom(index, rows, IF first THEN Included(key) ELSE Excluded(key))
    ELSE RevRange(index, rows, IF first THEN ReverseUpperBound(key) ELSE Excluded(key))

\* collect_bounded.
CollectBounded(index, rows, direction, key, limit) ==
    LET w == Walk(index, rows, direction, key, TRUE) IN
    SubSeq(w, 1, Min({limit, Len(w)}))

\* Faulty variant: the window is cut in the middle of a duplicate group.
CollectCut(index, rows, direction, key, first, size) ==
    LET w == Walk(index, rows, direction, key, first) IN SubSeq(w, 1, Min({size, Len(w)}))

\* collect_window: size entries, and the rest of the last one's duplicates.
CollectWindow(index, rows, direction, key, first, size) ==
    LET w == Walk(index, rows, direction, key, first)
        ends == {n \in 0 .. Len(w) :
                    \/ n = Len(w)
                    \/ n >= size /\ (n = 0 \/ w[n].key # w[n + 1].key)}
    IN  SubSeq(w, 1, Min(ends))
=============================================================================
