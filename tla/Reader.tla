------------------------------- MODULE Reader -------------------------------
(***************************************************************************)
(* The read paths of LMDB2GraphQL below its query engine, while strfry     *)
(* writes: the windowed scan, a stream of the k-way merge, the paging      *)
(* through the authors, the statistics, and latestPerAuthor with its batch *)
(* hydration and the dictionary cache that its workers share.  A step is   *)
(* one read transaction, or one operation under the lock of the cache.     *)
(***************************************************************************)
EXTENDS KeyBytes

CONSTANTS
    Catalog,        \* Catalog[levId]: an event that strfry stores sooner or later
    AtStart,        \* the levIds that are stored at the start
    Dicts,          \* CompressionDictionary keys
    Workers,        \* the blocking threads that answer latestPerAuthor
    Jobs,           \* the work of a behaviour: its kind and its arguments
    WINDOW,         \* DEFAULT_WINDOW_SIZE, and the batch of a merge stream
    MAX_PAGE,       \* 500, the ceiling of limit and perAuthor
    DEFAULT_PAGE,   \* 100
    MAX_AUTHORS,
    MAX_SIZE,       \* MAX_EVENT_DECOMPRESSED_SIZE
    MAX_I64,
    MaxWrites       \* bound: transactions of strfry

Levs == 1 .. Len(Catalog)

Payload == [len : Nat, tag : Nat, dict : Dicts, size : Nat, json : BOOLEAN]

Event ==
    [pubkey : Seq(0 .. Base - 1), kind : 0 .. U64Max, created_at : 0 .. U64Max, tag : Seq(0 .. Base - 1),
     payload : Payload, expired : BOOLEAN]

\* Pubkeys have one length.  Of two events at most one is at u64::MAX, where a
\* reverse walk would pass duplicates by.  A walk starts at a key that is long
\* enough for its index, and a stream, but for the tags, at one as long as the
\* keys of the index.
ASSUME ReaderConstants ==
    /\ Catalog \in Seq(Event) /\ Catalog # <<>> /\ "not loaded" \notin Dicts
    /\ \A l \in Levs : Len(Catalog[l].pubkey) = Len(Catalog[1].pubkey)
    /\ \A l, m \in Levs : Catalog[l].created_at = U64Max /\ Catalog[m].created_at = U64Max => l = m
    /\ AtStart \subseteq Levs /\ WINDOW \in Nat \ {0} /\ MAX_PAGE \in Nat \ {0}
    /\ Len(Catalog[1].pubkey) > 0 /\ DEFAULT_PAGE \in Nat \ {0} /\ MaxWrites \in Nat
    /\ \A j \in Jobs : j.kind \in {"scan", "stream"} =>
          /\ j.index \in EventIndexes /\ j.direction \in {"Forward", "Reverse"}
          /\ j.key \in Seq(0 .. Base - 1) /\ Len(j.key) >= TrailingIntegers(j.index) * Width
          /\ j.kind = "stream" /\ j.index # "Event__tag" =>
                \A l \in Levs : Len(KeyOf(j.index, Catalog[l])) = Len(j.key)
    /\ \A j \in Jobs : j.kind = "latest" =>
          /\ j.authors \in Seq(Seq(0 .. Base - 1)) /\ j.perAuthor \in Int
          /\ j.eventKind \in Int /\ j.eventKind <= U64Max
    /\ \A j \in Jobs : j.kind = "authors" => j.after \in Seq(0 .. Base - 1) /\ j.limit \in Seq(Int)

VARIABLES
    job,
    present,  \* the levIds that EventPayload and the indexes hold
    payload,  \* EventPayload
    dicts,    \* the dictionaries strfry has stored
    writes,
    scan,     \* the windowed scan or the merge stream
    pager,    \* the client that pages through authors()
    stats,    \* the last answer of stats()
    work,     \* latestPerAuthor, per worker
    cache     \* DictCache: the dictionary that is kept under an id

readerVars == <<job, present, payload, dicts, writes, scan, pager, stats, work, cache>>
store == <<present, payload, dicts, writes>>

-----------------------------------------------------------------------------
(* strfry                                                                  *)

Key == [index \in EventIndexes |-> [l \in Levs |-> KeyOf(index, Catalog[l])]]

EntryLess(index, l, m) ==
    Less(index, Key[index][l], Key[index][m]) \/ (Key[index][l] = Key[index][m] /\ l < m)

\* How many levIds come before one in the order of an index.
Place ==
    [index \in EventIndexes |->
        [l \in Levs |-> Cardinality({m \in Levs : EntryLess(index, m, l)})]]

\* What a read transaction sees of an index.
Rows(index) ==
    LET nth(i) == CHOOSE l \in present :
                     Cardinality({m \in present : Place[index][m] < Place[index][l]}) = i - 1
    IN  [i \in 1 .. Cardinality(present) |-> [key |-> Key[index][nth(i)], lev |-> nth(i)]]

Write == writes < MaxWrites /\ writes' = writes + 1
Rest == <<job, scan, pager, stats, work, cache>>

\* A new event has the next levId; one that was deleted does not return.
StoreEvent ==
    /\ Write
    /\ \E l \in Levs \ AtStart :
          /\ \A m \in Levs \ AtStart : m < l => payload[m].len > 0
          /\ payload[l].len = 0
          /\ present' = present \cup {l}
          /\ payload' = [payload EXCEPT ![l] = Catalog[l].payload]
    /\ UNCHANGED <<Rest, dicts>>

DeleteEvent ==
    /\ Write
    /\ \E l \in present : present' = present \ {l}
    /\ UNCHANGED <<Rest, payload, dicts>>

\* strfry dict train, strfry dict compress.
Train ==
    /\ Write
    /\ \E d \in Dicts \ dicts : dicts' = dicts \cup {d}
    /\ UNCHANGED <<Rest, present, payload>>

Compress ==
    /\ Write
    /\ \E l \in present, d \in dicts :
          /\ payload[l].tag = 0
          /\ payload' = [payload EXCEPT ![l].tag = 1, ![l].dict = d]
    /\ UNCHANGED <<Rest, present, dicts>>

-----------------------------------------------------------------------------
(* scan.rs and merge.rs                                                    *)

\* scan_index_windowed, one transaction of its loop.
ScanWindow ==
    /\ job.kind = "scan" /\ ~scan.done
    /\ LET batch == CollectWindow(job.index, Rows(job.index), job.direction,
                                  scan.resume, scan.first, WINDOW) IN
       scan' = IF batch = <<>> THEN [scan EXCEPT !.first = FALSE, !.done = TRUE]
               ELSE [scan EXCEPT !.resume = batch[Len(batch)].key, !.first = FALSE,
                                 !.out = @ \o batch]
    /\ UNCHANGED <<job, store, pager, stats, work, cache>>

\* take_while(starts_with(prefix)).
Guarded(batch, prefix) ==
    LET outside == {i \in DOMAIN batch : ~IsPrefix(prefix, batch[i].key)} IN
    SubSeq(batch, 1, Min({i - 1 : i \in outside} \cup {Len(batch)}))

\* refill_stream with scan_index_one_window, without a floor or since: those
\* are in module Query.
RefillStream ==
    /\ job.kind = "stream" /\ ~scan.done
    /\ LET batch == CollectWindow(job.index, Rows(job.index), "Reverse",
                                  scan.resume, scan.first, WINDOW)
           guarded == Guarded(batch, Prefix(job.key)) IN
       scan' = [scan EXCEPT !.resume = IF batch = <<>> THEN @ ELSE batch[Len(batch)].key,
                            !.first = FALSE, !.done = (guarded = <<>>), !.out = @ \o guarded]
    /\ UNCHANGED <<job, store, pager, stats, work, cache>>

-----------------------------------------------------------------------------
(* authors.rs and the authors and stats resolvers                          *)

Absent == <<>>

\* The clamp of perAuthor, and of a limit that may be absent.
Clamp(limit) == Min({IF limit < 1 THEN 1 ELSE limit, MAX_PAGE})
EffectiveLimit(limit) == IF limit = Absent THEN DEFAULT_PAGE ELSE Clamp(limit[1])

\* The first author behind a pubkey: a seek past all the entries of that one.
\* There is none behind the last key.
AuthorAfter(last) ==
    LET zero == [i \in 1 .. Width |-> 0]
        seek == IF last = Absent THEN [i \in DOMAIN Catalog[1].pubkey |-> 0] ELSE IncrementBe(last)
        rest == RangeFrom("Event__pubkey", Rows("Event__pubkey"), Included(seek \o zero))
    IN  IF last # Absent /\ AllFF(last) THEN <<>>
        ELSE IF rest = <<>> THEN <<>>
        ELSE <<Prefix(rest[1].key)>>

\* distinct_authors: author by author, until the page is full or nobody is left.
DistinctAuthors(after, limit) ==
    LET last(found) == IF found = <<>> THEN after ELSE found[Len(found)]
        page[n \in 0 .. limit] ==
            IF n = 0 THEN <<>>
            ELSE IF Len(page[n - 1]) < n - 1 THEN page[n - 1]
            ELSE page[n - 1] \o AuthorAfter(last(page[n - 1]))
    IN  page[limit]

\* One request of authors(after, limit), for the page after endCursor.  A
\* cursor of another form is refused.
Authors ==
    /\ job.kind = "authors" /\ ~pager.done
    /\ LET limit == EffectiveLimit(job.limit)
           page  == DistinctAuthors(pager.after, limit)
           more  == Len(page) = limit
       IN  pager' = IF pager.after # Absent /\ Len(pager.after) # Len(Catalog[1].pubkey)
                    THEN [pager EXCEPT !.done = TRUE, !.refused = TRUE]
                    ELSE [pager EXCEPT !.after = IF more THEN page[limit] ELSE @,
                                       !.done = ~more, !.out = @ \o page]
    /\ UNCHANGED <<job, store, scan, stats, work, cache>>

\* read_stats: both numbers from one transaction, neither above an i64.
Stats ==
    /\ job.kind = "authors"
    /\ stats' = [count |-> Min({Cardinality(present), MAX_I64}),
                 max |-> Min({MAX_I64, IF present = {} THEN 0 ELSE Max(present)})]
    /\ UNCHANGED <<job, store, scan, pager, work, cache>>

-----------------------------------------------------------------------------
(* payload.rs: what decode_event_payload_with_cache makes of a payload      *)

\* A payload that needs no dictionary, or whose dictionary is at hand.
Opens(p) ==
    /\ p.len > 0 /\ p.tag \in {0, 1} /\ p.json
    /\ p.tag = 1 => p.len >= 5 /\ p.size <= MAX_SIZE

\* It is decoded only with a dictionary.
NeedsDict(p) == p.len >= 5 /\ p.tag = 1

\* strfry compresses what has at least five bytes when it is compressed, and
\* what the size limit lets through.
ASSUME CompressedOpens ==
    \A l \in Levs : LET p == Catalog[l].payload IN
        p.tag = 0 /\ Opens(p) => p.len >= 5 /\ p.size <= MAX_SIZE

-----------------------------------------------------------------------------
(* engine.rs: latest_per_author                                            *)

LatestRest == <<job, store, scan, pager, stats>>

\* The resolver refuses a list that is too long and a negative kind.
Refused == Len(job.authors) > MAX_AUTHORS \/ job.eventKind < 0

Begin(w) ==
    /\ work[w].pc = "begin"
    /\ work' = [work EXCEPT ![w].pc = IF Refused THEN "failed" ELSE "author"]
    /\ UNCHANGED <<LatestRest, cache>>

Author(w) == job.authors[work[w].next]

\* decode_hex_32: a pubkey of another length is passed by.
WellFormed(author) == Len(author) = Len(Catalog[1].pubkey)

\* Faulty variant: what the scan found is not compared with the key.
OwnAny(author, rows) == rows

\* filter: the elements of a sequence that are in a set, in their order.
Kept(s, set) ==
    LET kept[n \in 0 .. Len(s)] ==
            IF n = 0 THEN <<>>
            ELSE IF s[n] \in set THEN Append(kept[n - 1], s[n]) ELSE kept[n - 1]
    IN  kept[Len(s)]

\* The entries of the author and the kind.
Own(author, rows) ==
    Kept(rows, {r \in Range(rows) : Prefix(r.key) = author \o Le(job.eventKind)})

ScanAuthor(w) ==
    /\ work[w].pc = "author"
    /\ \/ /\ work[w].next > Len(job.authors)
          /\ work' = [work EXCEPT ![w].pc = "done"]
       \/ /\ work[w].next <= Len(job.authors)
          /\ LET key   == Author(w) \o Le(job.eventKind) \o Le(U64Max)
                 rows  == CollectBounded("Event__pubkeyKind", Rows("Event__pubkeyKind"),
                                         "Reverse", key, Clamp(job.perAuthor))
                 own   == Own(Author(w), rows)
             IN  work' = IF WellFormed(Author(w)) /\ own # <<>>
                         THEN [work EXCEPT ![w].pc = "fetch", ![w].levs = [i \in DOMAIN own |-> own[i].lev],
                                           ![w].atScan = present]
                         ELSE [work EXCEPT ![w].next = @ + 1]
    /\ UNCHANGED <<LatestRest, cache>>

\* batch_get_event_payloads: one transaction, and a missing levId fails the query.
Fetch(w) ==
    /\ work[w].pc = "fetch"
    /\ LET levs == work[w].levs IN
       work' = IF Range(levs) \subseteq present
               THEN [work EXCEPT ![w].pc = "decode", ![w].got = <<>>,
                                 ![w].raws = [i \in DOMAIN levs |-> [lev |-> levs[i], raw |-> payload[levs[i]]]]]
               ELSE [work EXCEPT ![w].pc = "failed"]
    /\ UNCHANGED <<LatestRest, cache>>

NotLoaded == "not loaded"

\* The next payload is done with: decoded and kept, or skipped.
Settle(w, keep) ==
    work' = [work EXCEPT ![w].pc = "decode", ![w].raws = Tail(@),
                         ![w].got = IF keep THEN Append(@, work[w].raws[1].lev) ELSE @]

\* decode_event_payload_with_cache, up to a miss of the cache.
DecodePayload(w) ==
    /\ work[w].pc = "decode" /\ work[w].raws # <<>>
    /\ LET p == work[w].raws[1].raw IN
       IF NeedsDict(p) /\ cache[p.dict] = NotLoaded
       THEN work' = [work EXCEPT ![w].pc = "load"]
       ELSE Settle(w, Opens(p) /\ (NeedsDict(p) => cache[p.dict] = p.dict))
    /\ UNCHANGED <<LatestRest, cache>>

\* Faulty variant: a dictionary that is not there is kept as an empty one.
LoadDictEmpty(w) ==
    /\ work[w].pc = "load"
    /\ LET d == work[w].raws[1].raw.dict IN
       IF d \in dicts THEN work' = [work EXCEPT ![w].pc = "insert"] /\ UNCHANGED cache
       ELSE Settle(w, FALSE) /\ cache' = [cache EXCEPT ![d] = "empty"]
    /\ UNCHANGED LatestRest

\* get_or_load, the miss: the dictionary is read in a transaction of its own,
\* and one that is not there is an error that nothing remembers.
LoadDict(w) ==
    /\ work[w].pc = "load"
    /\ LET d == work[w].raws[1].raw.dict IN
       IF d \in dicts THEN work' = [work EXCEPT ![w].pc = "insert"] ELSE Settle(w, FALSE)
    /\ UNCHANGED <<LatestRest, cache>>

\* entry(dict_id).or_insert_with, and the payload is decoded with it.
InsertDict(w) ==
    /\ work[w].pc = "insert"
    /\ LET d == work[w].raws[1].raw.dict IN
       cache' = [cache EXCEPT ![d] = IF @ = NotLoaded THEN d ELSE @]
    /\ Settle(w, Opens(work[w].raws[1].raw))
    /\ UNCHANGED LatestRest

\* is_expired: the expiration tag lies in the past.
is_expired(l) == Catalog[l].expired

\* The bucket of the author: what is not expired; an empty one is left out.
Bucket(w) ==
    /\ work[w].pc = "decode" /\ work[w].raws = <<>>
    /\ LET i    == work[w].next
           live == Kept(work[w].got, {l \in Levs : ~is_expired(l)})
       IN  work' = [work EXCEPT ![w].pc = "author", ![w].next = @ + 1,
                                ![w].groups = IF live = <<>> THEN @ ELSE [@ EXCEPT ![i] = live],
                                ![w].scanned = [@ EXCEPT ![i] = work[w].atScan]]
    /\ UNCHANGED <<LatestRest, cache>>

Latest(w) ==
    /\ job.kind = "latest"
    /\ \/ Begin(w) \/ ScanAuthor(w) \/ Fetch(w) \/ DecodePayload(w)
       \/ LoadDict(w) \/ InsertDict(w) \/ Bucket(w)

-----------------------------------------------------------------------------
ReaderInit ==
    /\ job \in Jobs
    /\ present = AtStart /\ dicts = {} /\ writes = 0
    /\ payload = [l \in Levs |-> IF l \in AtStart THEN Catalog[l].payload
                                 ELSE [Catalog[l].payload EXCEPT !.len = 0]]
    /\ scan = [resume |-> IF job.kind \in {"scan", "stream"} THEN job.key ELSE <<>>,
               first |-> TRUE, out |-> <<>>, done |-> FALSE]
    /\ pager = [after |-> job.after, out |-> <<>>, done |-> FALSE, refused |-> FALSE]
    /\ stats = [count |-> 0, max |-> 0]
    /\ work = [w \in Workers |->
                 [pc |-> "begin", next |-> 1, levs |-> <<>>, raws |-> <<>>, got |-> <<>>,
                  atScan |-> {},
                  groups |-> [i \in DOMAIN job.authors |-> <<>>],
                  scanned |-> [i \in DOMAIN job.authors |-> {}]]]
    /\ cache = [d \in Dicts |-> NotLoaded]

Strfry == StoreEvent \/ DeleteEvent \/ Train \/ Compress

ReaderNext == Strfry \/ ScanWindow \/ RefillStream \/ Authors \/ Stats \/ \E w \in Workers : Latest(w)

ReaderSpec == ReaderInit /\ [][ReaderNext]_readerVars

-----------------------------------------------------------------------------
(* Properties                                                              *)

\* Stored from the start of the job until now.
Throughout == AtStart \cap present

\* Whether a key is in the range of the scan.
InScan(key) ==
    IF job.direction = "Forward" THEN ~Less(job.index, key, job.key)
    ELSE ~Less(job.index, job.key, key)

\* Whether a key is one the stream was opened for.
InStream(key) == Prefix(key) = Prefix(job.key) /\ ~Less(job.index, job.key, key)

\* A scan or a stream that ended has read, once and in the order of the index,
\* every event of its range that was stored all the while, whatever strfry wrote
\* between its transactions and wherever a window ended in a group of equal keys
\* (scan_index_windowed, scan_index_one_window, refill_stream, collect_window).
\* The guard of a stream lets no other value through, but for the tags: their
\* keys have no fixed width, and entries of a shorter value may come behind the
\* stream's own (Query says what becomes of them).
ScanComplete ==
    job.kind \in {"scan", "stream"} =>
        LET levs == [i \in DOMAIN scan.out |-> scan.out[i].lev]
            forward == job.kind = "scan" /\ job.direction = "Forward"
            ahead(a, b) == IF forward THEN EntryLess(job.index, a, b)
                           ELSE EntryLess(job.index, b, a)
            inRange(key) == IF job.kind = "scan" THEN InScan(key) ELSE InStream(key)
        IN  /\ \A i, j \in DOMAIN levs : i < j => ahead(levs[i], levs[j])
            /\ scan.done => \A l \in Throughout : inRange(Key[job.index][l]) => l \in Range(levs)
            /\ job.index # "Event__tag" => \A i \in DOMAIN scan.out : inRange(scan.out[i].key)

\* The pages of authors() are ascending and repeat nobody, and a client that
\* reached the last page has seen everyone behind its
\* first cursor who had an event all the while.
AuthorsComplete ==
    job.kind = "authors" =>
        /\ \A i, j \in DOMAIN pager.out : i < j => MemLess(pager.out[i], pager.out[j])
        /\ pager.done /\ ~pager.refused =>
              \A l \in Throughout : MemLess(job.after, Catalog[l].pubkey) =>
                  Catalog[l].pubkey \in Range(pager.out)

\* The events of an author and the kind of the job.
Of(author, levs) ==
    {l \in levs : Catalog[l].pubkey = author /\ Catalog[l].kind = job.eventKind}

\* A bucket holds the author's own live events, the newest first, and if one
\* that was stored at the scan is missing from it although it can be decoded,
\* then perAuthor others are at least as new.
BucketIsNewest ==
    job.kind = "latest" =>
        \A w \in Workers : \A i \in DOMAIN job.authors :
            LET bucket == work[w].groups[i]
                own    == Of(job.authors[i], work[w].scanned[i])
            IN  /\ Range(bucket) \subseteq {l \in own : ~Catalog[l].expired}
                /\ \A m, n \in DOMAIN bucket : m < n =>
                      Catalog[bucket[m]].created_at >= Catalog[bucket[n]].created_at
                /\ \A l \in own \ Range(bucket) :
                      \/ Catalog[l].expired \/ ~Opens(Catalog[l].payload)
                      \/ NeedsDict(Catalog[l].payload)
                      \/ Cardinality({m \in own \ {l} :
                            Catalog[m].created_at >= Catalog[l].created_at}) >= Clamp(job.perAuthor)

\* A worker passes an event by only because its payload cannot be decoded, or
\* at a moment at which strfry has not stored its dictionary: what the cache
\* holds, and who filled it, does not matter.
SkipsOnlyUndecodable ==
    [][\A w \in Workers :
          /\ work[w].pc \in {"decode", "load", "insert"}
          /\ Len(work'[w].raws) < Len(work[w].raws)
          /\ work'[w].got = work[w].got
          => LET p == work[w].raws[1].raw IN
             ~Opens(p) \/ (NeedsDict(p) /\ p.dict \notin dicts)]_readerVars
=============================================================================
