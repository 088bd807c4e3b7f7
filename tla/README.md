# DeepFry in TLA+

DeepFry is a Nostr relay (strfry) with the services around it: forwarders that
copy other relays into it, a crawler that builds a web of trust in Dgraph, a
whitelist derived from that graph which decides what the relay accepts, a
quarantine for the rest with a tool that brings events back, a GraphQL reader
of strfry's LMDB database and a batch that scores pubkeys for spam through it.
This directory holds TLA+ models of the services, the TLC configurations that
check them on small instances, and TLAPS proofs of the results that matter most.

- `PROJECT.json` lists components, runs, mutants, the map from definitions to
  source lines, findings, hazards and theorems.
- Run a check with `tlc -config X.cfg M`, a proof with `tlapm M.tla`.
- Paths below are relative to the repository.

## 1. Inventory

| Component | State it keeps | Operations | Module |
|---|---|---|---|
| event-forwarder (`event-forwarder/pkg`) | current window, mode, relay handles; the stored window is an event on DeepFry | walk through windows, live subscription, store progress, reconnect | `Forwarder` |
| whitelist server (`whitelist-plugin/cmd/server`) | map behind `/check`, bloom snapshot, readiness | page through Dgraph, swap map and snapshot, answer | `WhitelistServer` |
| bloom plugin (`whitelist-plugin/cmd/bloom`) | filter in memory and on disk, the ready gate | fetch, persist, answer strfry | `BloomGate` |
| router plugin (`whitelist-plugin/cmd/router`) | TTL/LRU cache of answers, queue and connection of the publisher, counters | decide, enqueue, publish to quarantine, stop | `Router` |
| quarantine-rescuer | nothing between runs; exports, checks, workers and delete batches inside one | export, check, forward, delete | `Rescuer` |
| pubkey_iterator (`spamhunter/pubkey_iterator`) | SQLite: pubkeys, runs with their cursor, scores | walk the authors, stream and score, write, resume | `Hunter` |
| LMDB2GraphQL query engine | none of its own; a client's cursor | select an index, merge windows, rounds, hydrate, page | `EventFilter`, `Query` |
| LMDB2GraphQL start-up and server (`main.rs`, `server.rs`, `lmdb/meta.rs`, `lmdb/self_check.rs`) | configuration file, schema cell, readiness flag | load, bind, open, gates, self-check, publish, answer | `Adapter` |
| LMDB2GraphQL read paths (`lmdb/scan.rs`, `lmdb/payload.rs`, `query/authors.rs`, `latest_per_author`) | dictionary cache; a client's cursor | windowed scans, streams, pages of authors, buckets, batch hydration | `KeyBytes`, `Reader` |
| pubkey_iterator detection layers (`detect/`) | none | near duplicates, entropy, links, fingerprints | `Layers` |
| pubkey_iterator weights and reviews (`run`, `tune`, `export`) | SQLite: weights, runs with their snapshot, signals, labels, review queue and list | seed, score, sample, fit, backtest, adopt, list | `Verdicts` |
| web-of-trust graph store (`web-of-trust/pkg/dgraph`) | nodes, edges, follower counts, frontier, schedule | AddFollowers, GetStalePubkeys, MarkAttempted, backfill | `GraphStore` |
| web-of-trust crawler (`web-of-trust/pkg/crawler`, `cmd/crawler`) | pool of relays with failure counts, generation of the batch | select, fan out, collect, write, stamp | `Crawler` |

How they interact: the crawler writes the graph in Dgraph; the whitelist server
reads it page by page and publishes a map and a bloom filter over HTTP; the
bloom and router plugins, run by strfry, ask the server and decide about every
event; the router sends rejected events to a second strfry (quarantine); the
rescuer moves events of authors listed later back to the main relay, through
the same write policy; the forwarders publish into the main relay;
LMDB2GraphQL reads the database strfry is writing; pubkey_iterator pages through
LMDB2GraphQL.

What is hard in this code, and which properties answer it (the full list, with
lines, is `hazards` in `PROJECT.json`):

- *Progress stored in one place, work done in another.* The forwarder's window
  (`WindowedCoverage`, `ResumesFromSaved`), the batch's cursor and its
  `done` mark (`NoneSkipped`, `DoneAccounted`), the snapshot in the row of a
  run (`DoneIsReproducible`), the crawler's
  stamps (`NoneForgotten`), the rescuer's deletes (`NoLoss`).
- *Reads spread over several transactions while others write.* The pages of the
  whitelist load (`LoadIsComplete`), the windows of a query and the streams
  below it (`FeedSpec`, `ScanComplete`), pages of authors (`AuthorsComplete`),
  scan and hydration of a bucket (`BucketIsNewest`), statements of three commands
  on one database (`ReviewIsFinal`, `AdoptedAgrees`), the rescuer's export, check and publish (`NoLoss`,
  `RescuesEverything`).
- *Stale answers.* The decision cache (`DecisionsFresh`), the version of a
  contact list read at selection (`NewestWins`), the published filters
  (`OnlyPublished`, `Converges`), a dictionary that was not there when it was
  first asked for (`SkipsOnlyUndecodable`).
- *Serving before the checks are through.* The readiness flag and the schema
  (`ReadyMeansQueryable`), a self-check by sample (`OnlyReliableServed`,
  `HealthyGetsReady`).
- *Results that must not depend on an order.* Clusters by union-find with path
  compression (`ClustersAreComponents`), what the layers store of a pubkey
  (`OrderFree`).
- *Bounded queues and early exits.* The publisher (`CountersAddUp`,
  `QueueDrains`), the exporter's channel (`RunTerminates`), the pipeline
  (`Terminates`), the quorum exit of a batch (`NoneStuckOnOpenConnection`).
- *Partial failure.* One publish, delete, write or request of several fails
  (`SummaryAddsUp`, `DoneAccounted`, `GraphConsistent`), a whitelist that
  answers for part of a request (`ListedIsNeverAbsent`).

What is not modelled is listed in section 7.

## 2. Modules and code

Every module keeps the names of the code where it can. Data is abstracted to
what the properties tell apart; control is kept, including error paths.
Definitions marked *Faulty variant* are plausible bugs: each property has one
that it must reject (`mutants` in `PROJECT.json`), and no specification uses
them.

**Forwarder.** `pc` walks through `Start`: boot, `getWindow`, the windowed loop,
`stream` (the range over `eventCh`), `subscribe` and `live`. Time is in seconds. A relay
answers a filter with a limit by its newest matches (`Newest`). Publishes and
the storing of the window fail on a dead handle, are refused, or lose their
answer. `forceReconnect` replaces the relay handles and not the one of the
SyncTracker (`trackerUp`). A crash loses everything but the relays' contents.

**WhitelistServer, BloomGate.** The refresher's `FetchPage` takes the first
rows beyond a uid cursor; rows come and go between pages. A filter is the set
of keys it was built from; a false positive is a free choice of the answer;
bytes are whole or `Torn`. `BloomGate` extends the server with the fetcher, the
file, the ready channel and the event loop, so both processes interleave: the filter is
published (`Respond`) and the channel closed (`Store`) in two steps. Its
specification is `GateSpec` and its absent value `Nil`, since one proof module
extends it together with `Router`.

**Router.** The event loop of strfry's plugin protocol, the client's cache
(`CacheSet`, `Evict`, `Expired`), `Route`, the non-blocking `Enqueue` and the
publisher's goroutine with its connection. The whitelist changes at any time;
`lastListed` and `lastUnlisted` are history for `DecisionsFresh`.

**Rescuer.** One run after another over relays that change meanwhile. The
exporter and `collect` share a bounded channel; workers take authors and send
their events oldest first; deletes are halved on failure (`Chunks`, `Retries`).

**Hunter.** Three threads: the task of `run_batch`, the consumer of the
pipeline, the writer that owns the tables. The rows of `run` are written by the
task on connections of its own. A score is the author whose events it was computed
from, so a wrong attribution shows.

**EventFilter, Query, EventFeed.** `EventFilter` holds the pure part: the index
a filter selects, its prefixes, and the residual check. `Query` is
`execute_query` below a client that pages: rounds, a k-way merge of windows
that end on a key boundary, a floor per stream, hydration (results that are not
below the boundary are passed by, not read), the cursor. `EventFeed` is the abstract
promise: a page carries on strictly below the cursor and leaves out no wanted
event that stays stored. `Query!FeedSpec` instantiates it
(`wanted <- ` the matching events, `page <- Range(page)`).

A stream of `Query` is a walk over the entries of the whole index in the order of its
keys (`KeyRank`: values first), and it ends where `StartsWith` fails. That guard compares
the bytes of whole keys (`merge.rs:177`). Only tag values differ in length, and a key
has the time, low byte first, right behind the value; so a key of the tag `b` at a second whose low byte
is an `e` starts with the prefix of `be`. `Spelt` says which keys do. Such an entry enters the stream
behind the stream's own, out of order, and above `until` too, since it was never below
a start key. `ValuesApart` says that the events and the filter at hand have no such key; for every other
index it always holds. That no page passes by an event that matches and stays
is promised for every filter; that pages are in order, in time and below one another,
and that a walk ends, only where the values are apart (`apart` in `EventFeed`).

**KeyBytes, Reader.** `KeyBytes` has the keys of the five event indexes as bytes
(string part, then little-endian integers), the comparators, and the window,
the bounded range and the successor of a byte string. `Reader` is everything
that reads through them: `ScanWindow` and `RefillStream` (one transaction each),
`Authors`, `Stats`, and `Latest` per worker, from the scan of an author to its bucket, with the
payload's tags and limits and the dictionary cache between them. strfry inserts, deletes, trains a
dictionary and compresses between any two steps. `Query` takes from here that a
stream is complete; `Reader` leaves the floor and `since` to it.

**Adapter.** One action per step of `main`, in its order, with the listener up
from `Bind` on; `Request` may come at any time. A world is what the process
finds: configuration, port, environment, the Meta record as numbers at offsets
(a vtable offset of -4 to -1 panics), and indexes as a stored order beside a
comparator that LMDB may or may not use. `SeekPos` is LMDB's binary search, which is
what makes a wrong order dangerous and a sample of seeks informative: a recursive
function of the window of positions in which the key may still be.

**Layers.** Pure operators in thousandths instead of floating point: a post is
a sequence of tokens, and constants say what each token normalises to, its
characters, host, hashtag and words, and which characters are emoji. Graphemes are those of the joined
text: one ends between two characters unless the pair is in `Clings`, so a content that begins with a
mark, a joiner or a selector loses its first grapheme to the space before it, if it is not
the first. The sum of the entropy may be off by any of `Rounding`, since it is taken in the order of a
`HashMap`. Union-find is modelled pair by pair
with its path compression, in two loops as the code has them. The only action appends a post.

**Verdicts.** `run`, `tune` and `export` as three processes on shared tables,
one statement or transaction per step; a kill may fall between any two. Scores
stand for the combiner's z, in which the comparison with the threshold is the
same. The regression may return any of the given models, in either sign.

**GraphStore, Crawler.** `GraphStore` has one operator per Dgraph transaction.
A commit whose answer is lost may have happened. `Crawler` has the main loop
(`phase`: select, fetch, drain, mark), the pool (`link`, `fails`, `ejected`),
one goroutine per relay (`task`), the quorum and deadline of a batch (`context`,
`late`), goroutines that outlive it (`leftover`) and the generation stamps
(`stamped`). What a relay sends is open: any list of an author asked for, any
kind of end at any time, or none. A connection that drops reads as "context canceled" while the
batch is still open: the query is over and the relay stays counted as up. Left out: the relay events are forwarded to
(it decides nothing), the cap on the size of a filter (inside "any list"), a
configuration file that cannot be written (an ejected relay would return at the next
start), edges of malformed nodes (`AddFollowers` creates none).

## 3. Runs

A passing run is exhaustive for its bounds. Liveness is checked in the same
run, under `FairSpec` (`GateFairSpec` in BloomGate).

| Run | Bounds | Shows |
|---|---|---|
| `forwarder` | 2 events, window 3, lag 1, tolerance 2, 8 seconds, 1 fault, 1 crash, with and without a start time | windowed and realtime coverage while no fault occurs, resumption, eventual forwarding |
| `bloomgate` | 3 rows over pages of 2 (one without pubkey, one invalid), 1 write, 1 fault, 1 crash | a load misses no row that stays, only published filters are served or read back, members are never rejected, events are answered, the plugin converges to the graph |
| `router` | 4 events (1 malformed), cache 1, queue 2, TTL and timeout 1, time 3, 1 fault, 1 change | counters add up, decisions are fresh up to TTL and timeout, the queue drains |
| `rescuer` | 4 events of 2 authors (1 unreadable), 2 workers, batches of 2, 1 fault, 2 changes | no event is lost, the summary adds up, a clean run rescues everything, oldest first, the run ends |
| `hunter` | 3 authors, pages of 2, channel 1, requests of 1 author, 2 starts, 1 fault, 1 kill, 1 late author | no author skipped, every author of a finished run accounted for with its own events, termination |
| `query` | 6 events, 3 of one second in every numbering, 6 filters, one of them with tag values that are not apart, pages of 1, windows of 1, 2 rounds, 1 insert, 1 delete; 39,690 states | refinement of `EventFeed` (nothing stranded; where the values are apart order without repeats), and there every walk ends |
| `reader` | 8 events (2 under equal keys, 1 expired, 1 undecodable, 3 stored later), bytes and integers of 2 bits, windows and pages of 2, 2 workers, 2 writes of strfry; 68 jobs; 361,000 states | scans and streams are complete and in order in both directions, pages of authors miss nobody, buckets hold the newest, nothing decodable is skipped |
| `adapter` | 2 indexes, the first with up to 4 keys in every order under every comparator, sample 4, 8 Meta records, broken files, ports and environments, 2 starts; 9,231 worlds, 139,000 states | ready means queryable, no unreliable index is served, a healthy database gets ready |
| `layers` | sequences of up to 4 of 12 posts over 7 tokens, one a selector that joins the space before it, hashes of 4 bits, 2 roundings; 22,621 states | clusters are connected components; what L1 and L4 store, and what entropy and hashtag density L3 may store, does not depend on the order of the events, nor does its emoji density unless a content begins or ends within a grapheme |
| `verdicts` | 2 pubkeys, 2 configurations, 2 models, 2 starts, 1 kill, 1 tune, 1 export, 1 late label | the row of a done run reproduces its scores, review lists are final, adopted weights agree with their labels, nobody listed counts as absent |
| `crawler` | 2 relays, 3 lists of 2 authors, 1 malformed node, batches of 1, quorum 50 %, 2 hours, 1 fault | the graph agrees with the newest lists, no node is lost to the selection, no query is left on an open connection, versions never go back, the frontier drains |

Why these bounds are enough for the cases that matter: each run has one more
item than fits into every page, window, channel, cache or batch it contains, so
boundaries, overflow and eviction happen; it has a second actor wherever order matters; and the one
fault and one crash may fall between any two steps. Faults of two kinds
in one behaviour are beyond `MaxFaults = 1` (`MaxFailures` in BloomGate); for the invariants that are proved
(section 5) the bound does not matter. In `reader` a width of two bits is
enough to make the order of numbers and that of their bytes differ, to have a
last pubkey (all ones) and keys that are prefixes of others. In `adapter` the
first index takes every order of its keys against every comparator, so no
choice of a suspicious tree is left out. In `layers` four posts are
the least in which two pairs may be joined by a fifth comparison. `verdicts`
has two configurations that differ in threshold, weights and layers, so that a
resumed run mixes them.

Type invariants are proved where a module has proofs, and otherwise used while
editing; they are not among the properties of the runs.

One run expects a violation, `rescuer_limit`: `--limit` is to "Stop after
processing this many events", but `collect` and the exporter wait for each
other and the command does not end.

Two sentences of the contract of LMDB2GraphQL are refuted by `query` as well, if they are named in its
configuration in place of its properties; they are findings, and `FeedSpec` and `WalkEnds` say what is left of them.

- `OnlyInTime`: a page is to have "Only events with `createdAt <= until`". For the values `b` and
  `be` of one tag, an event tagged `b` whose time spells the `e` enters the stream of `be`,
  whatever `until` is, and the residual check does not look at the time.
- `EveryWalkEnds`: a client is to page "until `hasMore` is `false`". When such entries fill a round,
  the last result lies above the cursor, the round's boundary goes up again,
  and the page found next ends at the same cursor. A round takes `EmitLimit` results, 3 in the run; in
  the code it is twice the page and a window of 256 more, so as many events of the shorter value at such
  seconds are needed.

The other disagreements between the code and what the repository says of it are
`findings` in `PROJECT.json`, each at its line with the sentence quoted:

- forwarder: a refused publish is passed over and its window stored; a lost
  source connection is never opened again; a configured start time overrides
  the stored window;
- whitelist: the server is ready with an empty whitelist when its first load
  fails; the publisher does not drain its queue at shutdown;
- pubkey_iterator: a run is marked done before its last scores are committed;
  the cursor passes pubkeys when the writer has died; `--limit` then `--resume`
  starts over; a weights table seeded in part is never completed; a layer turned
  off on resume leaves its old signals to the regression; clusters are chained, not
  mutual; the entropy's last bits depend on a hash order and its emoji density on the order of
  the events; the whitelist has a batch endpoint;
- LMDB2GraphQL: the prefix guard lets in keys of other tag values (above); an event deleted during a query fails the query; `load` may
  write the configuration file; a small negative vtable offset panics;
  latestPerAuthor has a cap on authors; `maxLevId` may go down;
- crawler: with no relay up a batch is stamped without a query; an older list's
  success stamps an author whose newer list failed; a retried stamp counts one
  miss twice; a late goroutine makes a finished relay outstanding; a relay whose connection drops
  during a query is not marked dead.

Observations without a sentence to contradict: realtime checkpoints have no lag
margin; with the defaults (window 5, lag 10, tolerance 5) a forwarder that falls
behind does not re-enter realtime mode; a `/check` answered while the server
loads is cached as false for the TTL; events whose check failed are neither
accepted nor quarantined; replaceable events the main relay refuses as older
stay in quarantine; author filters in upper-case hex are scanned and then
dropped by the residual comparison; errors still in `errorsChan` when a fetch ends leave the
relay counted as up; the review list of a run that was killed between its done-mark and its
last commit may hold rows of an earlier attempt.

## 4. Fairness

No run assumes that a remote party answers. Reader, Layers and Verdicts have
safety properties only.

- Forwarder: weak fairness of the process's own steps, of the clock and of
  `Restart` (`restart: unless-stopped` in the compose files).
- BloomGate: of the refresher and the fetcher, which tickers drive and request
  timeouts unblock, and of the event loop.
- Router: of the handler and of the drain goroutine.
- Rescuer: of the run and of every worker. Its HTTP and websocket calls have timeouts; its
  `docker exec strfry` commands have none and are assumed to return.
- Hunter: of the task, the consumer and the writer, three threads.
- Query: of the engine; strfry need not write.
- Adapter: of `main` and of `Restart` (the container's restart policy).
  `HealthyGetsReady` exempts a process killed at its last allowed start. Clients
  need not ask.
- Crawler: of the main loop and of the batch timer, not of the relays.

## 5. Proofs

`TLAPS` proves the following for every value of the constants that satisfies
the named assumptions in the modules (sizes positive, maps of the right type,
bounds natural, sets finite where they are counted).

**ForwarderProofs.** `TypeCorrect`. `ResumeCorrect` and `SavedNeverMovesBack`
from `ResumeInv`: no stored window reaches into the future, a window being
streamed is older than its lag, and a window of the loop has the configured
length and either follows the stored one or repeats it. The repetition is where
a lost answer leaves the two, which `ResumesFromSaved` alone does not say. `WindowedCoverageCorrect` and
`RealtimeCoverageCorrect` from `CoverageInv`, under `WithinLimits` (no more
events than a filter's limit, arrivals within the lag); the invariant adds to what is
already covered that no event can still arrive dated in a synced second, and
that what the current window or the subscription matches is on DeepFry or in
the stream. Lemma `NewestIsAll`: below the limit a relay returns everything.

**RescuerProofs.** `TypeCorrect` (with a finite channel); `NoLossCorrect` from
`NoLossInv` (what waits for deletion has been acknowledged, and what was
acknowledged is on the main relay); `SummaryCorrect` from `SummaryInv` (exported
events are partitioned over the phases); `OldestFirstCorrect` from `OrderInv`
(whatever of an author is not among a worker's remaining events has been sent or
has failed); `RescueComplete` from `CleanInv`: in a clean run the collected
events are the readable ones of the export, the approved authors are the listed
ones among theirs, nothing has failed in any phase, and what a phase has finished is
where the next one looks for it. `RescuesEverything` speaks of the last state only.
Lemmas `ChunksSplit` and `RetriesSplit`: splitting a batch loses and adds nothing.

**PluginProofs**, the bloom gate. `BloomTypeCorrect`; `LoadCorrect` from `LoadInv` (every row
below the cursor that was there all the while has been fetched);
`OnlyPublishedCorrect` from `PublishedInv` (response, file and memory hold
published filters or recognisable garbage, and the ready channel is closed, a step after
the filter was published, only with a filter in place); `NeverRejectsMemberCorrect`, an
action property, follows.

**GraphQLProofs**, the start (`Adapter`). `ReadyCorrect` from `ReadyInv`: the schema is in memory
exactly behind the last gate, the flag is up only with the schema, and a client
was told ready only by this process with its flag up; `ReadyMeansQueryable`
alone does not say how the three hang together. `ServedCorrect`: no resolver runs before
both gates of the Meta record and the self-check of every index have passed,
from `GatesPassed` (the gates behind `stage` and the indexes below `next`
hold of this world). `OnlyReliableCorrect` adds what a passed check is worth: where the
sample holds every entry, LMDB's binary search finds every key
(`CheckSound`). It rests on what the search computes for every tree:
`SearchExists` (the recursive definition has a solution, by induction over the
size of the window), `SearchFinds` (in an ordered tree it ends at the key),
`WitnessMisses` (of two neighbours out of order it misses one, whichever way it
comes to them: this is why both keys of a witness pair have to be sought) and
`EntriesNeighbours` (keys next to each other in the tree are next to each other among
the entries, so that the sample shows every pair out of order).
`IndexAssumption` is used here: a tree holds a key once, and comparators tell any two
keys apart, since they look at every byte.

**GraphQLProofs**, the query engine (`Query`). `TypeCorrect`; `QueryImplementsFeed`, the refinement of
`EventFeed` by `Query` together with `NewestFirst`; `NoEventStranded`, what the
feed promises a client that has paged to the end; `RoundsGetOn`: a round that reached
its limit does not end at its own boundary, so that the code's fallback for a stalled round
(one second further down, past whatever is left of that second) is never taken. `TypeCorrect`,
`NoEventStranded` and `RoundsGetOn` hold for every filter, also where entries of other tags are in the
streams; a round may then end *above* its boundary, which is how `EveryWalkEnds` fails. Of
`QueryImplementsFeed` the part on order and time has the hypothesis `ValuesApart`.
All rest on `QueryInv`, one part per stage: `PageInv` (what stays between the cursor and
the round's boundary is on the page), `StreamInv` (a stream that goes on has a buffer or is
being refilled, and its next window starts at or below everything it has read), `CompleteInv`
(what stays below the boundary is merged, in a buffer of each of its streams, or below
the next window of an open stream), `MergedInv` (what stays and is not merged is older than every
result so far, those of other tags included: its stream's own entries come first, and the heap
takes the newest head) and `RoundInv` (of what was hydrated and stays everything is on the
page, unless it is full). `ExactInv` says more where `ValuesApart` holds: page, results and
buffers are in order, in time and below the boundary, and the boundary is never above the cursor.
The properties speak of pages only; without the stages none
is inductive. The data facts are lemmas: `WindowProperties` (a window ends between
two seconds, and one that is not full is all there is), `ResumeKeyProperties`,
`AboveOrder` (the order of the keys), `HeadProperties`, `PrefixOfMatch` (an event that passes
the residual check is indexed under a prefix that is scanned), `Order` and `NewerOrder`. In the refinement `Insert` and
`Delete` are the feed's `Write`, `ReturnPage` its `Page` (`NextCursorProperties`), and every other
step is a stutter.

**PluginProofs**, the router. `TypeCorrect` (with a cache that holds one answer per author
and not more than its capacity). `Freshness`, an action property, from
`FreshInv`: the histories are exact at the present second, a request is within
its timeout and its answer was right since it was sent, and a cached answer was
right at most one request before it was cached. `CountersCorrect` from
`CountersInv`: the events taken are those sent, the one in flight and those queued, in
this order; the relay has a subsequence of those sent; what was offered is
exactly what was rejected and worth keeping. The lemmas about the cache are
about the list of `ttlCache` (`WithoutProperties`, `CacheSetProperties`,
`FrontKeepsKeys`).

**CrawlerProofs.** `TypeCorrect`, `GraphCorrect`, `NothingForgotten` and
`NothingStuck` from `CrawlerInv`, and `NewestListWins`, an action property. Every step
is at most one of the store's transactions (`EveryStepIsATransaction`), so
the graph and the schedule are argued about per transaction.
`NoStrayEdges` is what `GraphConsistent` needs: without it a node that is renamed or
purged could take the edges of others with it. `UndatedExcused` says when a
node attempted may lack a date; `TaskInv` says that only a goroutine that has
returned is stamped. `BackoffGeometric` is about the recursive
`BackoffInterval`: every miss multiplies the interval by the ratio, up to the cap, which
is the claim of its comment that the guard is exact.

**HunterProofs.** `TypeCorrect`; `NothingSkipped` and `DoneIsAccounted` from
`HunterInv`. `WalkInv`: what the cursor in memory has passed is stored, and
what the next one will have passed is ahead of the flush in the writer's channel
until the flush returns (`FlushedIsStored`); a writer that died counts what it had not
taken as lost (`DeadInv`). `PlanInv`: a pubkey read for scoring is still to
be asked for, in an answer, in the channel, or its row was handed to the writer,
and `StageInv` says which of these are empty when; `GenuineInv`: wherever it is, the events with it are its own author's.
Each stage adds one lemma on how a step moves what it holds (`QueueStep`,
`AskedProperties`, `DropProperties`).

**VerdictsProofs.** `Reproducible` (`DoneIsReproducible`) and `NeverAbsent` from
`StoreInv`, `AdoptionHolds` (`AdoptedAgrees`) from `TuneInv`. A score is written
long after the parameters it was computed with were read, so `StoreInv` follows
both: `OwnRunInv` (the row of the run in progress holds the parameters in
memory, whether the run is new or goes on), `SeedInv` (the table is seeded before the
first run is there and never after), `FreshInv` (a pubkey of the run is still
to be scored, or on its way to the writer, or its row comes from these
parameters), `ScoresInv` (of every other run the rows come from the parameters of
its own row). `ListedInv` speaks of the signals without a score too, since
these are what a resumed run leaves standing. Lemma `CommitRows` says what one transaction of
the writer does to a pubkey, whichever messages it takes. `TuneInv` needs that a
run that is done and not in progress is never written again: what `tune` has read of it
(`TuneOwn`) stands until it adopts, however long that takes. `ReviewFinal`
(`ReviewIsFinal`) follows from `ReviewInv`, which says the same of what `export` has
read (`ExportOwn`) and of the list and the queue once made. It needs numbers:
`TotalInt` (a fold of integers is an integer, whichever order it takes them in;
the definition is first shown to have a solution) and `Ranking` (ranked by
score and pubkey the members of a finite set have the ranks 1, 2, ..., each
once). The proof corrected the property: in a run torn by a kill a row of an
earlier attempt may stand below the threshold, if the table was seeded without one.

The same module has the proofs about **Layers**, the content layers whose signals these
verdicts weigh.

- `ClustersCorrect` (`ClustersAreComponents`): after the two loops there is one root for
  every connected component. `Tree` is the invariant of union-find: every event has the
  root of its parent and a depth that falls towards it (ghosts that exist, whatever was compressed);
  by the pigeonhole principle a walk of as many steps as there are events gets to the root
  (`RootIs`, `CompressedIs`, `UnionIs`). `Linked` is that of the loops: the near pairs behind the
  two indexes have one root, and equal roots are connected (`JoinRowIs`, `JoinedIs`). `Component`
  is the least set closed under nearness (`ComponentIs`), so a root stands for a component
  and the other way round (`RootsAreComponents`, `ClustersCounted`).
- `OrderDoesNotMatter` (`OrderFree`), for every exchange of two neighbours, and so for every
  order: what L1 and L4 store and the fingerprints, the entropy and hashtag density that L3 *may* store
  (which of them it does store is up to the rounding), and under `ContentsApart` also its emoji density and value.
  It has one hypothesis, `NoCollisions`: no content hash belongs to two fingerprints.
  With a collision of the 64-bit hashes the row stored is that of the event that came first,
  and so does depend on the order; the contents of the run have none. Clusters turn with the hashes
  (`ClustersTurned`); what is counted event by event is counted alike (`Recount`); a
  sum, and what occurs how often in texts one behind the other, does not see the
  order (`AddedTurned`, `FlattenTurned`, `SpacedTurned`), and a text's length and counts are
  all that entropy asks of it (`SameHits`). Graphemes do see what stands next to what: `SpacedMarks`
  says that the marks of a joined text are those of its contents and those at the seams, and under
  `ContentsApart` the seams are alike wherever a content stands (`MarksTurned`, `GraphemesTurned`).
  Without it the claim on emoji is false, and TLC finds the exchange that breaks it.

**ReaderProofs.** Four theorems over the bytes of the keys, for every base and
width of an integer, and so for the u64 of the code as well as for the two bits of the run.

- *Keys.* `RoundTrip` and `FromLeUnique`: little-endian digits are read as written
  and determine their bytes. From the place where two strings part
  (`MemLessParts`) and from the parts of a key (`KeyParts`, `LessByParts`) each
  comparator is a linear order (`LessOrder`, `LessTransitive`) in which the keys of one prefix lie
  together (`PrefixBetween`), and `UpperBound` says where a reverse walk starts.
  `Ranks`: in a finite linear order every member has its own place, so the rows of an index are
  the stored events, each once (`RowsAre`).
- `ScanCorrect` from `ScanInv`. `WalkIs` and `WindowIs` say what one transaction
  reads: all that lies beyond the cursor, up to an end between two keys.
  `Progress` follows the windows: whatever is wanted and stayed stored has been
  read or lies beyond the cursor, and everything read lies before it; a window after a write sees another index,
  so nothing can be said of positions. `GuardedIs` is the stream's check of the
  prefix, which ends it at the first other key.
- `AuthorsCorrect` from `AuthorsInv`. `Increment`: `increment_be` is the
  successor among byte strings of one length, and there is none behind all 0xff
  (`NoneBehindLast`); hence `AuthorAfterIs`, the seek finds the least author behind the
  last. `PageIs` and `PagedMore` are the inductions over a page and over the pages.
- `BucketsNewest` and `SkipsCorrect` from `LatestInv`, one part per stage of
  a worker: what the scan picked (`Picked`, from `ScanPicks`: the newest of the
  author's kind, although the scan may run on into other keys), what of the
  payloads read is decoded (`Decoding`), what has become a bucket (`Bucketed`). `CacheInv` says that the
  cache holds only dictionaries that strfry has stored, which is why a worker
  may go by what another one put there. A payload may be compressed between the scan and the
  batch read (`Raw`), a deleted event fails the request and not the bucket.

Two things hold for all proofs. Induction is over sets of numbers
(`SetInduction`, from the well-foundedness of `<`), since the provers take no
predicate as a parameter; a recursive function is first shown to have a
solution. And where `\cup`, `\` or `\X` meets `UNION` or `SUBSET` the modules have
parentheses, because parser and prover do not agree on the precedence.

Only model-checked: liveness (`EventuallyForwarded`, `EventsAnswered`,
`Converges`, `QueueDrains`, `RunTerminates`, `Terminates`, `WalkEnds`,
`FrontierDrains`, `HealthyGetsReady`), which needs fairness and ENABLED. Every other
property of a passing run is a theorem.

## 6. Plan

Done, in this order: Forwarder; Rescuer; WhitelistServer and BloomGate; Router;
Hunter; EventFilter, EventFeed and Query; GraphStore and Crawler; KeyBytes and
Reader; Adapter; Layers; Verdicts; proofs for Forwarder, Rescuer, BloomGate,
Adapter, Router, Crawler (with GraphStore), Hunter, Query (with EventFeed),
Verdicts, Reader (with KeyBytes) and Layers.

Next, modelling:

1. `RelayQuery`: `queryRelay` with its learnt cap, probing, halving by NOTICE
   and by rejection, shared between goroutines and the notice handler; `Crawler`
   leaves what it returns open, and would be composed with it.
2. The graph store's remaining transactions (RemoveFollower, removal of
   pubkeys, BackfillFollowerCount beside a running crawler).
3. A composition of graph store and whitelist server, so that a listed author
   is one the graph contains.

Next, proofs: what the new modules will promise; of the present ones every safety
property is proved.

## 7. Assumptions and what is not modelled

- levIds are not used again after a deletion, and every strfry transaction is
  atomic for a reader: both are promises of strfry and LMDB, which are outside
  of this repository's own code.
- Constants are assumed to be what the code makes of them: a list of events
  without repeats on the plugin's input, finite graphs and contact lists, a
  lowercase form that is its own lowercase form, trees without repeated keys.
  In Reader pubkeys have one length, a scan starts at a key that is long enough for its
  index, and what strfry compresses has at least the five bytes of a header and no more than
  MAX_EVENT_DECOMPRESSED_SIZE when it is opened again (`CompressedOpens`). At most one event is at
  created_at = u64::MAX: a reverse walk starts below the next
  larger value, which there is none of, and would pass duplicates by.
  A filter that is answered from the tag index has a tag of one letter: the code skips
  the other names, and scans nothing if there are only such. Each is a named `ASSUME`
  in the module that declares the constant.
- zstd and JSON decoding are whether a payload opens; hashes of the layers have
  few bits; logarithms are a table; the regression is a choice among models. In Layers the order of the
  f64 additions is one of a set of errors (`Rounding`), the same set for every order of one multiset.
  Graphemes are decided between two neighbours (marks, joiners, selectors, prepended characters).
  The rules that look further back (flags, emoji joined by a ZWJ) are left out; none of them reaches
  across the space between two contents. Words are counted per token: a mark
  behind the space changes the bytes of a word, not how many there are.
- In Query `Spelt` is open: any set of keys of a shorter tag value that begin with a longer one. The run
  has one, which fills a round of 3.
- Time stands still where no property needs it (Reader: expired or not).
- Not modelled, with the reason in `PROJECT.json`: the tools and reports around
  the graph and the explorers, which only read; the quarantine-rescuer's LMDB
  reader, which the rescue command does not use; telemetry, terminal UI and
  configuration of the services; deployment scripts. Partly modelled: the
  crawler's relay queries and the graph store's other transactions (plan above),
  the whitelist plugin's own `main` (the router's event loop without
  quarantine), scan functions that only tests use.
