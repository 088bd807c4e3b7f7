-------------------------------- MODULE Query --------------------------------
(***************************************************************************)
(* The query engine of LMDB2GraphQL: execute_query, as a client pages      *)
(* through it.  A page is found in rounds; a round merges one stream per   *)
(* prefix of the selected index, newest first; a stream is read in windows *)
(* that end on a key boundary and run on into the values below its own.    *)
(* Every window and every payload is read in a transaction of its own, and *)
(* strfry writes in between.                                               *)
(***************************************************************************)
EXTENDS EventFilter, Sequences, FiniteSetsExt, Functions

CONSTANTS
    Events,
    Unreadable,   \* events that cannot be decoded or have expired
    Initial,      \* the events stored at the start
    Numberings,   \* levIds they may have
    Filters,      \* the filters a client may ask for
    KeyRank,      \* of every index, the order of the values its keys hold before the time
    Spelt,        \* <<q, t, p>>: the key of tag q and time t begins with the bytes of tag p
    Limit,        \* events per page
    WindowSize,   \* DEFAULT_WINDOW_SIZE, which is also the batch_size
    MaxRounds,    \* MAX_ROUNDS
    Top, End,     \* no cursor yet, no further page
    MaxInserts,   \* bound: events stored during the walk
    MaxDeletes    \* bound: events deleted during the walk

ASSUME QueryConstants ==
    /\ IsFiniteSet(Events) /\ Initial \subseteq Events /\ Unreadable \subseteq Events
    /\ Created \in [Events -> Nat]
    /\ \A f \in Numberings : \A d, e \in Initial :
          f[d] \in 1 .. Cardinality(Initial) /\ (f[d] = f[e] => d = e)
    /\ \A f \in Filters : f.since \in Nat /\ f.until \in Nat
    /\ Limit \in Nat \ {0} /\ WindowSize \in Nat \ {0} /\ MaxRounds \in Nat \ {0}
    /\ Top # End /\ {Top, End} \cap [ts : Nat, lev : Nat] = {}
    /\ MaxInserts \in Nat /\ MaxDeletes \in Nat

\* The ids and authors of events are the texts of 32 bytes; and a filter that has only
\* tags has one with a name of one character: build_start_keys skips the others, and
\* such a filter is answered by nothing.
ASSUME FilterConstants ==
    /\ \A e \in Events : \A k \in {Attr[e].id, Attr[e].author} : Decode[k] = k /\ k # None
    /\ \A f \in Filters : SelectIndex(f) = "tag" => \E t \in f.tags : t.name \in TagNames

\* The entries of an index for the events S: a value and the event it is stored for.
EntriesOf(index, S) == UNION {IndexKeys(index, e) \X {e} : e \in S}

\* An event has finitely many tags, and the keys of an index are ordered by their
\* values first.  A tag's value is followed by the time, low byte first: these
\* bytes may spell the rest of a longer value, which is ordered after it.
ASSUME KeyConstants ==
    /\ \A f \in Filters :
          LET index  == SelectIndex(f)
              values == StartKeys(f) \cup {x[1] : x \in EntriesOf(index, Events)}
          IN  /\ IsFiniteSet(EntriesOf(index, Events))
              /\ \A q, p \in values :
                    /\ KeyRank[index][q] \in Nat
                    /\ KeyRank[index][q] = KeyRank[index][p] => q = p
    /\ \A x \in Spelt : KeyRank["tag"][x[1]] < KeyRank["tag"][x[3]]

VARIABLES
    stored, lev, inserts, deletes,  \* the database
    pc,
    filter,    \* the client's, of all its pages
    cursor,    \* the client's
    page,      \* the last one it was given
    delivered, \* history: what it was given
    stable,    \* history: stored from the start of the walk
    \* execute_query_internal
    boundary,  \* round_boundary
    rounds,
    valid,
    deepest,   \* deepest_scanned
    \* merge_windowed
    resume,    \* exclusive bound of every stream's next window
    open,      \* the streams not exhausted
    pending,   \* the streams to be refilled now
    again,     \* refill_stream reads its second window
    buffer,    \* what every stream has read and not emitted
    merged,    \* the results
    hydrated   \* how many of them have been looked at

database == <<stored, lev, inserts, deletes, stable>>
client   == <<filter, cursor, page, delivered>>
round    == <<resume, open, pending, again, buffer, merged, hydrated>>
vars     == <<database, pc, client, boundary, rounds, valid, deepest, round>>

\* The streams of the merge.
ScanKeys == StartKeys(filter)

Position == [ts : Nat, lev : Nat]
Cursors  == Position \cup {Top}

Pos(e) == [ts |-> Created[e], lev |-> lev[e]]

\* MergeCandidate's order.
Newer(d, e) == Created[d] > Created[e] \/ (Created[d] = Created[e] /\ lev[d] > lev[e])

-----------------------------------------------------------------------------
(* strfry                                                                  *)

Insert ==
    /\ inserts < MaxInserts
    /\ \E e \in {x \in Events : lev[x] = 0} :
          /\ stored' = stored \cup {e}
          /\ lev' = [lev EXCEPT ![e] = Cardinality({x \in Events : lev[x] # 0}) + 1]
    /\ inserts' = inserts + 1
    /\ UNCHANGED <<deletes, stable, pc, client, boundary, rounds, valid, deepest, round>>

Delete ==
    /\ deletes < MaxDeletes
    /\ \E e \in stored : stored' = stored \ {e} /\ stable' = stable \ {e}
    /\ deletes' = deletes + 1
    /\ UNCHANGED <<lev, inserts, pc, client, boundary, rounds, valid, deepest, round>>

-----------------------------------------------------------------------------
(* scan.rs and merge.rs                                                    *)

\* The order of an index: values first, the newest second of a value on top.
Above(k, l) ==
    LET rank == KeyRank[SelectIndex(filter)]
    IN  rank[k.val] > rank[l.val] \/ (k.val = l.val /\ k.ts > l.ts)

\* The key of an entry; entries of one key are ordered by levId.
Key(x) == [val |-> x[1], ts |-> Created[x[2]]]

Before(x, y) == Above(Key(x), Key(y)) \/ (Key(x) = Key(y) /\ lev[x[2]] > lev[y[2]])

\* The prefix guard: key.starts_with(prefix), on the bytes of the whole key.  Only
\* the values of tags differ in length.
StartsWith(x, p) ==
    \/ x[1] = p
    \/ SelectIndex(filter) = "tag" /\ <<x[1], Created[x[2]], p>> \in Spelt

\* Faulty variant: the window ends after WindowSize entries, within a key.
WindowCut(C) == {x \in C : Cardinality({y \in C : Before(y, x)}) < WindowSize}

\* collect_window: at least WindowSize entries, and every duplicate of a key.
Window(C) == {x \in C : Cardinality({y \in C : Above(Key(y), Key(x))}) < WindowSize}

\* The last key of a window.
ResumeKey(W) ==
    LET rank == KeyRank[SelectIndex(filter)]
        q == CHOOSE q \in {x[1] : x \in W} : \A x \in W : rank[q] <= rank[x[1]]
    IN  [val |-> q, ts |-> Min({Created[x[2]] : x \in {y \in W : y[1] = q}})]

\* lev_id_floor.
AtFloor(e) == boundary # Top /\ Created[e] = boundary.ts /\ lev[e] >= boundary.lev

\* One round: every stream starts at the boundary.
BeginRound(b) ==
    /\ boundary' = b
    /\ resume' = [p \in ScanKeys |->
                     [val |-> p, ts |-> (IF b = Top THEN filter.until ELSE b.ts) + 1]]
    /\ open' = ScanKeys /\ pending' = ScanKeys /\ again' = FALSE
    /\ buffer' = [p \in ScanKeys |-> {}]
    /\ merged' = <<>> /\ hydrated' = 0

\* What the window W leaves to stream p: it is cut at the first key that does not
\* start with the prefix, the floor is dropped, and it is cut at the first second
\* before since.
Guarded(W, p) ==
    {x \in W : StartsWith(x, p) /\ \A y \in W : Above(Key(y), Key(x)) => StartsWith(y, p)}

BelowFloor(G) == {x \in G : ~AtFloor(x[2])}

Truncated(K) ==
    LET Late(x) == Created[x[2]] >= filter.since
    IN  {x \in K : Late(x) /\ \A y \in K : Above(Key(y), Key(x)) => Late(y)}

\* The window that a stream reads next.
NextWindow(p) ==
    Window({x \in EntriesOf(SelectIndex(filter), stored) : Above(resume[p], Key(x))})

\* refill_stream, one window W.  One that the floor empties is followed by one more.
Refill(p, W) ==
    LET G == Guarded(W, p)
        K == BelowFloor(G)
        T == Truncated(K)
    IN  /\ resume' = IF W = {} THEN resume ELSE [resume EXCEPT ![p] = ResumeKey(W)]
        /\ again' = (G # {} /\ K = {} /\ ~again)
        /\ pending' = IF again' THEN pending ELSE pending \ {p}
        /\ buffer' = [buffer EXCEPT ![p] = T]
        /\ open' = IF again' \/ (K # {} /\ T = K) THEN open ELSE open \ {p}
        /\ UNCHANGED <<database, pc, client, boundary, rounds, valid, deepest, merged,
                       hydrated>>

RefillStream ==
    /\ pc = "merge" /\ pending # {}
    /\ LET p == CHOOSE q \in pending : TRUE
       IN  \E W \in {NextWindow(p)} : Refill(p, W)

EmitLimit == Limit + WindowSize + Limit

\* The streams that have a candidate in the heap, and the candidate: the first
\* entry of the buffer, in the order of the index.
Live == {p \in ScanKeys : buffer[p] # {}}

HeadOf(p) == CHOOSE x \in buffer[p] : \A y \in buffer[p] \ {x} : Before(x, y)

\* cursor exclusion.
BelowBoundary(e) ==
    boundary # Top =>
        \/ Created[e] < boundary.ts
        \/ Created[e] = boundary.ts /\ lev[e] < boundary.lev

Merged(s) ==
    /\ merged' = s
    /\ pc' = "hydrate"
    /\ UNCHANGED hydrated

\* The newest candidate is emitted and its stream advanced.
Pop ==
    /\ pc = "merge" /\ pending = {}
    /\ \E p \in Live :
          LET x == HeadOf(p)
          IN  /\ \A q \in Live : ~Newer(HeadOf(q)[2], x[2])
              /\ IF Len(merged) + 1 >= EmitLimit
                 THEN Merged(Append(merged, x[2])) /\ UNCHANGED <<buffer, pending>>
                 ELSE /\ merged' = Append(merged, x[2])
                      /\ buffer' = [buffer EXCEPT ![p] = @ \ {x}]
                      /\ pending' = IF buffer[p] = {x} /\ p \in open THEN {p} ELSE {}
                      /\ UNCHANGED <<pc, hydrated>>
    /\ UNCHANGED <<database, client, boundary, rounds, valid, deepest, resume, open, again>>

HeapEmpty ==
    /\ pc = "merge" /\ pending = {} /\ Live = {}
    /\ Merged(merged)
    /\ UNCHANGED <<database, client, boundary, rounds, valid, deepest, resume, open, pending,
                   again, buffer>>

-----------------------------------------------------------------------------
(* engine.rs                                                               *)

\* A page: the first, or the one after the cursor of the last.
BeginPage ==
    /\ pc = "client"
    /\ pc' = "merge"
    /\ BeginRound(cursor)
    /\ rounds' = 0 /\ valid' = <<>> /\ deepest' = Top
    /\ UNCHANGED <<database, client>>

\* Whether a result goes on the page; one that two streams have emitted is taken
\* out of hydrated_map the first time.
Taken(e) ==
    /\ BelowBoundary(e) /\ e \notin {merged[i] : i \in 1 .. hydrated}
    /\ Len(valid) < Limit /\ e \notin Unreadable /\ Residual(filter, e)

\* hydrate_lev_ids and the residual filters.  What is not below the boundary is
\* not read; what comes after a full page is read all the same.
Hydrate ==
    /\ pc = "hydrate" /\ hydrated < Len(merged)
    /\ LET e == merged[hydrated + 1]
       IN  /\ BelowBoundary(e) => e \in stored
           /\ valid' = IF Taken(e) THEN Append(valid, e) ELSE valid
    /\ hydrated' = hydrated + 1
    /\ UNCHANGED <<database, pc, client, boundary, rounds, deepest, resume, open, pending,
                   again, buffer, merged>>

\* The event has been deleted since it was scanned: the query fails, and the
\* client asks for the same page again.
HydrateFails ==
    /\ pc = "hydrate" /\ hydrated < Len(merged)
    /\ BelowBoundary(merged[hydrated + 1]) /\ merged[hydrated + 1] \notin stored
    /\ pc' = "client"
    /\ UNCHANGED <<database, client, boundary, rounds, valid, deepest, round>>

Exhausted == Len(merged) < EmitLimit

LastMerged == IF merged = <<>> THEN Top ELSE Pos(merged[Len(merged)])

\* The first reasons to leave the loop, and the last one.
Enough     == Len(valid) >= Limit \/ Exhausted \/ rounds + 1 >= MaxRounds
NoProgress == LastMerged = boundary

\* The second before a boundary that a round did not get past.
Stalled(b) == [ts |-> b.ts - 1, lev |-> Cardinality(Events) + 1]

\* Faulty variant: the fallback position is the page's own cursor.
DeepestKept == cursor

\* deepest_scanned when the round ends.
Deepest ==
    IF LastMerged = Top THEN deepest
    ELSE IF ~Enough /\ NoProgress /\ boundary.ts > 0 THEN Stalled(boundary)
    ELSE LastMerged

\* next_cursor.
NextCursor ==
    IF Len(valid) = Limit \/ (valid # <<>> /\ ~Exhausted) THEN Pos(valid[Len(valid)])
    ELSE IF valid = <<>> /\ ~Exhausted /\ Deepest # Top THEN Deepest
    ELSE End

LastRound == Enough \/ NoProgress

NextRound ==
    /\ pc = "hydrate" /\ hydrated = Len(merged)
    /\ ~LastRound
    /\ rounds' = rounds + 1
    /\ deepest' = Deepest
    /\ BeginRound(LastMerged)
    /\ pc' = "merge"
    /\ UNCHANGED <<database, client, valid>>

ReturnPage ==
    /\ pc = "hydrate" /\ hydrated = Len(merged)
    /\ LastRound
    /\ page' = valid /\ delivered' = delivered \cup Range(valid)
    /\ cursor' = NextCursor
    /\ pc' = IF NextCursor = End THEN "done" ELSE "client"
    /\ UNCHANGED <<database, filter, boundary, rounds, valid, deepest, round>>

-----------------------------------------------------------------------------
Init ==
    /\ stored = Initial /\ stable = Initial
    /\ \E f \in Numberings : lev = [e \in Events |-> IF e \in Initial THEN f[e] ELSE 0]
    /\ filter \in Filters
    /\ inserts = 0 /\ deletes = 0
    /\ pc = "client" /\ cursor = Top /\ page = <<>> /\ delivered = {}
    /\ boundary = Top /\ rounds = 0 /\ valid = <<>> /\ deepest = Top
    /\ resume = [p \in ScanKeys |-> [val |-> p, ts |-> 0]]
    /\ buffer = [p \in ScanKeys |-> {}]
    /\ open = {} /\ pending = {} /\ again = FALSE
    /\ merged = <<>> /\ hydrated = 0

Engine ==
    \/ BeginPage \/ RefillStream \/ Pop \/ HeapEmpty
    \/ Hydrate \/ HydrateFails \/ NextRound \/ ReturnPage

Next == Insert \/ Delete \/ Engine

Spec == Init /\ [][Next]_vars

\* The blocking thread of a query runs, and the client asks for the next page.
FairSpec == Spec /\ WF_vars(Engine)

-----------------------------------------------------------------------------
(* Properties                                                              *)

\* The values of the keys a scan may meet.
Values == ScanKeys \cup {x[1] : x \in EntriesOf(SelectIndex(filter), Events)}

TypeOK ==
    /\ stored \subseteq Events /\ stable \subseteq stored
    /\ lev \in [Events -> Nat]
    /\ inserts \in 0 .. MaxInserts /\ deletes \in 0 .. MaxDeletes
    /\ filter \in Filters
    /\ pc \in {"client", "merge", "hydrate", "done"}
    /\ cursor \in Cursors \cup {End} /\ boundary \in Cursors /\ deepest \in Cursors
    /\ page \in Seq(Events) /\ delivered \subseteq Events
    /\ rounds \in 0 .. MaxRounds - 1
    /\ valid \in Seq(Events) /\ Len(valid) <= Limit
    /\ resume \in [ScanKeys -> [val : Values, ts : Nat]]
    /\ buffer \in [ScanKeys -> SUBSET EntriesOf(SelectIndex(filter), Events)]
    /\ open \subseteq ScanKeys /\ pending \subseteq ScanKeys /\ again \in BOOLEAN
    /\ merged \in Seq(Events) /\ Len(merged) <= EmitLimit
    /\ hydrated \in 0 .. Len(merged)

Matches(e) == e \notin Unreadable /\ Residual(filter, e) /\ InTime(filter, e)

\* No key of another value starts with a prefix of the filter, as it is with
\* every index but that of tags.
ValuesApart ==
    \A x \in EntriesOf(SelectIndex(filter), Events) : \A p \in ScanKeys :
        StartsWith(x, p) => x[1] = p

\* A page is in the order (created_at, levId) DESC and holds no event twice,
\* although windows and rounds cut through groups of one second and an event may
\* be indexed under several prefixes.
NewestFirst ==
    ValuesApart => \A i, j \in 1 .. Len(page) : i < j => Newer(page[i], page[j])

Feed == INSTANCE EventFeed WITH
    wanted <- {e \in Events : Matches(e)},
    apart <- ValuesApart,
    page <- Range(page)

\* The engine implements the feed its clients are promised (EventFeed): whatever
\* strfry writes in between, no page skips an event that matches and stays, even
\* where the prefix guard lets entries of another tag in, out of order; and where
\* it does not, pages carry on below one another, newest first, and repeat nothing
\* (execute_query_internal, merge_windowed, refill_stream).
FeedSpec == Feed!Spec /\ []NewestFirst

\* Every walk over values that are told apart comes to an end: the budget of
\* rounds never hands out a cursor that leads to the same page again.
WalkEnds == ValuesApart => <>(pc = "done")

\* Two promises of the contract that the code does not keep where the values are
\* not apart.  "Only events with `createdAt <= until`".
OnlyInTime == \A e \in Range(page) : InTime(filter, e)

\* The loop over the pages "until `hasMore` is `false`" comes to an end.
EveryWalkEnds == <>(pc = "done")
=============================================================================
