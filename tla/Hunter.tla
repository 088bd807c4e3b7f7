-------------------------------- MODULE Hunter --------------------------------
(***************************************************************************)
(* `pubkey_iterator run' (spamhunter/pubkey_iterator): a batch that walks  *)
(* through the authors of the LMDB2GraphQL adapter page by page, scores    *)
(* every known pubkey in a streaming pipeline and stores the results in    *)
(* SQLite.  Three threads share the work: the task of run_batch, the       *)
(* pipeline's consumer and the writer that owns the tables.  The task      *)
(* writes the rows of the table run through connections of its own.        *)
(*                                                                         *)
(* A pubkey is a number, as its 32 bytes are to the index.  A score row    *)
(* holds the author whose events it was computed from.                     *)
(***************************************************************************)
EXTENDS Integers, Sequences, FiniteSets

CONSTANTS
    Keys,          \* pubkeys
    Posting,       \* those with events of the scored kind
    Limits,        \* values of --limit, None for no limit
    PageLimit,     \* LIMIT of enumerate.rs
    MaxAttempts,   \* MAX_ATTEMPTS
    ChannelCap,    \* DEFAULT_CHANNEL_CAP
    AuthorsPerCall,\* DEFAULT_AUTHORS_PER_CALL
    RequestLimit,  \* authors that fit into one request of the adapter
    WriteBatch,    \* BATCH of writer.rs
    None,          \* no cursor, no limit, no author
    MaxStarts,     \* bound: runs of the command
    MaxFaults,     \* bound: failed requests and transactions
    MaxKills,      \* bound: kills
    MaxGrowth      \* bound: authors that appear later

ASSUME HunterConstants ==
    /\ Keys \subseteq Nat /\ IsFiniteSet(Keys) /\ Posting \subseteq Keys
    /\ Limits \subseteq Nat \cup {None} /\ None \notin Nat
    /\ PageLimit \in Nat \ {0} /\ MaxAttempts \in Nat \ {0}
    /\ ChannelCap \in Nat \ {0} /\ AuthorsPerCall \in Nat \ {0}
    /\ RequestLimit \in Nat /\ WriteBatch \in Nat \ {0}
    /\ MaxStarts \in Nat /\ MaxFaults \in Nat /\ MaxKills \in Nat /\ MaxGrowth \in Nat

VARIABLES
    corpus,   \* the authors in the adapter's index
    \* the database
    pubkeys, runs, scores,
    \* the task of run_batch
    pc, run, limit,
    after,    \* the cursor in memory
    next,     \* endCursor of the page being flushed
    count,    \* pubkeys seen by this process
    attempt,  \* attempt of retry
    todo,     \* pubkeys not yet taken into a batch
    batch,    \* the batch being fetched
    requests, \* the parts of it still to be requested
    groups,   \* the authors in the responses so far
    sending,  \* inputs not yet sent to the consumer
    failed,   \* the pipeline met an error
    \* the threads
    chan,     \* the bounded channel to the consumer
    txOpen,   \* its sender exists
    consumer,
    wq,       \* the writer's unbounded channel
    writer,
    \* bounds and history
    starts, faults, kills, growth,
    hist,     \* of each run: the authors there when it began, whether the walk
              \* came to the end, and the pubkeys read for scoring
    lost      \* messages to the writer that were never committed

database == <<pubkeys, runs, scores>>
walk     == <<after, next, count, attempt>>
pipeline == <<todo, batch, requests, groups, sending, failed>>
task     == <<pc, run, limit, walk, pipeline>>
threads  == <<chan, txOpen, consumer, wq, writer>>
bounds   == <<starts, faults, kills, growth>>
vars == <<corpus, database, task, threads, bounds, hist, lost>>

-----------------------------------------------------------------------------
(* Data                                                                    *)

Cursors == Keys \cup {None}
Row     == [status : {"running", "aborted", "done"}, cursor : Cursors]
Input   == [key : Keys, posts : Keys \cup {None}]
Score   == [run : Nat, key : Keys, posts : Keys \cup {None}]
Message == [pubkeys : SUBSET Keys, scores : SUBSET Score, flush : BOOLEAN]

Pubkeys(S) == [pubkeys |-> S, scores |-> {}, flush |-> FALSE]
ScoreOf(s) == [pubkeys |-> {s.key}, scores |-> {s}, flush |-> FALSE]
Flush      == [pubkeys |-> {}, scores |-> {}, flush |-> TRUE]

\* The n smallest members of S, all of them if S has fewer.
FirstN(S, n) == {k \in S : Cardinality({j \in S : j < k}) < n}

\* The runs of the table, by their run_id.
Runs == 1 .. Len(runs)

DatabaseTypes ==
    /\ corpus \subseteq Keys /\ pubkeys \subseteq Keys
    /\ runs \in Seq(Row) /\ scores \subseteq Score
    /\ hist \in Seq([basis : SUBSET Keys, whole : BOOLEAN, plan : SUBSET Keys])
    /\ Len(hist) = Len(runs)
    /\ lost \subseteq Message

WalkTypes ==
    /\ pc \in {"down", "probe", "page", "flush", "lastFlush", "endProbe", "read", "poll",
               "request", "send", "join", "mark", "closing"}
    /\ run \in 0 .. Len(runs) /\ limit \in Limits \cup {None}
    /\ after \in Cursors /\ next \in Cursors
    /\ count \in Nat /\ attempt \in 1 .. MaxAttempts

PipelineTypes ==
    /\ todo \subseteq Keys /\ batch \subseteq Keys /\ groups \subseteq Keys
    /\ requests \in Seq(SUBSET Keys) /\ sending \subseteq Input /\ failed \in BOOLEAN

ThreadTypes ==
    /\ chan \in Seq(Input) /\ Len(chan) <= ChannelCap
    /\ txOpen \in BOOLEAN /\ consumer \in {"none", "recv", "ended", "panicked"}
    /\ wq \in Seq(Message) /\ writer \in {"none", "alive", "dead"}

BoundTypes ==
    /\ starts \in 0 .. MaxStarts /\ faults \in 0 .. MaxFaults
    /\ kills \in 0 .. MaxKills /\ growth \in 0 .. MaxGrowth

TypeOK == DatabaseTypes /\ WalkTypes /\ PipelineTypes /\ ThreadTypes /\ BoundTypes

Fault == faults < MaxFaults /\ faults' = faults + 1

-----------------------------------------------------------------------------
(* The adapter                                                             *)

\* distinct_authors: the first authors beyond the cursor.
Page(cursor) == FirstN({k \in corpus : cursor = None \/ k > cursor}, PageLimit)

\* endCursor: the last author of a full page.
EndCursor(page) ==
    IF Cardinality(page) = PageLimit THEN CHOOSE k \in page : \A j \in page : j <= k ELSE None

NewAuthor ==
    /\ growth < MaxGrowth /\ growth' = growth + 1
    /\ \E k \in Keys \ corpus : corpus' = corpus \cup {k}
    /\ UNCHANGED <<database, task, threads, starts, faults, kills, hist, lost>>

-----------------------------------------------------------------------------
(* The writer                                                              *)

\* Sends to a writer that is gone fail; the caller then panics.
Enqueue(messages) == writer = "alive" /\ wq' = wq \o messages

\* UPSERT: the later score of a pubkey in a run wins.
Upsert(new) ==
    {s \in scores : \A t \in new : <<t.run, t.key>> # <<s.run, s.key>>} \cup new

\* One transaction over what was in the channel.
WriterCommits ==
    /\ writer = "alive"
    /\ \E n \in 1 .. Len(wq) :
          LET messages == {wq[i] : i \in 1 .. n}
          IN  /\ n <= WriteBatch
              /\ pubkeys' = pubkeys \cup UNION {m.pubkeys : m \in messages}
              /\ scores' = Upsert(UNION {m.scores : m \in messages})
              /\ wq' = SubSeq(wq, n + 1, Len(wq))
    /\ UNCHANGED <<corpus, runs, task, chan, txOpen, consumer, writer, bounds, hist, lost>>

\* A statement or the commit fails: the thread returns and what it had taken is
\* gone.  Nobody takes what is left in the channel; whether it is dropped with
\* the receiver is up to the channel.
WriterFails ==
    /\ writer = "alive"
    /\ Fault
    /\ writer' = "dead"
    /\ \E n \in 1 .. Len(wq) :
          n <= WriteBatch /\ wq' \in {SubSeq(wq, n + 1, Len(wq)), <<>>}
    /\ lost' = lost \cup {wq[i] : i \in 1 .. Len(wq)}
    /\ UNCHANGED <<corpus, database, task, chan, txOpen, consumer, starts, kills, growth, hist>>

\* Faulty variant: flush does not wait.
NeverWait == TRUE

\* Store::flush returns Ok when its message was taken out of the channel and
\* committed, or dropped.
FlushReturns == \A i \in 1 .. Len(wq) : ~wq[i].flush

-----------------------------------------------------------------------------
(* The start of the command and its end                                    *)

\* latest_unfinished_run.
LatestUnfinished ==
    {r \in Runs : /\ runs[r].status # "done"
                  /\ \A q \in Runs : q > r => runs[q].status = "done"}

\* run [--resume] [--limit n]: Store::open starts the writer, enumerate::run
\* picks the run or inserts a new one.
Start ==
    /\ pc = "down" /\ starts < MaxStarts /\ starts' = starts + 1
    /\ limit' \in Limits
    /\ \E resume \in BOOLEAN :
          IF resume /\ LatestUnfinished # {}
          THEN /\ run' \in LatestUnfinished
               /\ after' = runs[run'].cursor
               /\ UNCHANGED <<runs, hist>>
          ELSE /\ run' = Len(runs) + 1 /\ after' = None
               /\ runs' = Append(runs, [status |-> "running", cursor |-> None])
               /\ hist' = Append(hist, [basis |-> corpus, whole |-> FALSE, plan |-> {}])
    /\ pc' = "probe" /\ attempt' = 1
    /\ writer' = "alive"
    /\ UNCHANGED <<corpus, pubkeys, scores, next, count, pipeline, chan, txOpen, consumer, wq,
                   faults, kills, growth, lost>>

\* The task returns or panics; dropping the store closes the writer's channel.
Leave ==
    /\ pc' = "closing"
    /\ after' = None /\ next' = None /\ count' = 0 /\ attempt' = 1
    /\ todo' = {} /\ batch' = {} /\ requests' = <<>> /\ groups' = {} /\ sending' = {}
    /\ failed' = FALSE
    /\ UNCHANGED <<run, limit>>

Gone ==
    /\ pc' = "down" /\ run' = 0 /\ limit' = None
    /\ chan' = <<>> /\ txOpen' = FALSE /\ consumer' = "none" /\ wq' = <<>> /\ writer' = "none"

\* Store::close and Drop join the writer, which commits what is left.
Closed ==
    /\ pc = "closing"
    /\ wq = <<>> \/ writer = "dead"
    /\ Gone
    /\ UNCHANGED <<corpus, database, walk, pipeline, bounds, hist, lost>>

Kill ==
    /\ pc # "down" /\ kills < MaxKills /\ kills' = kills + 1
    /\ Gone
    /\ after' = None /\ next' = None /\ count' = 0 /\ attempt' = 1
    /\ todo' = {} /\ batch' = {} /\ requests' = <<>> /\ groups' = {} /\ sending' = {}
    /\ failed' = FALSE
    /\ lost' = lost \cup {wq[i] : i \in 1 .. Len(wq)}
    /\ UNCHANGED <<corpus, database, starts, faults, growth, hist>>

-----------------------------------------------------------------------------
(* The client of the adapter                                               *)

\* What a request may come to: no answer in time, or an answer with a status, the
\* first of its errors, and data that may be null.
Replies == [status : {"lost", "503", "413", "200"}, error : {"none", "coded", "codeless"},
            data : BOOLEAN]

\* GraphQlClient::query: the status first, then the errors, then the data.
query(reply) ==
    CASE reply.status = "lost"               -> "Transport"
      [] reply.status = "503"                -> "Unavailable"
      [] reply.status = "413"                -> "PayloadTooLarge"
      [] reply.error # "none"                -> reply.error
      [] reply.data                          -> "Ok"
      [] OTHER                               -> "codeless"

ClientErrors == {query(reply) : reply \in Replies} \ {"Ok"}

is_retryable(e) == e \in {"Unavailable", "Transport", "codeless"}

\* retry: a retryable error within the budget is tried again.
TryAgain(e) ==
    /\ is_retryable(e)
    /\ attempt < MaxAttempts /\ attempt' = attempt + 1
    /\ UNCHANGED <<pc, run, limit, after, next, count, pipeline>>

GivesUp(e) == ~is_retryable(e) \/ attempt = MaxAttempts

-----------------------------------------------------------------------------
(* enumerate::run                                                          *)

\* A drift probe fails for good, or the UPDATE that records it: the run is left
\* as it is.
ProbeFails ==
    /\ Fault
    /\ \/ \E e \in ClientErrors : TryAgain(e) \/ (GivesUp(e) /\ Leave)
       \/ Leave

\* The drift probe before the walk.
ProbeStart ==
    /\ pc = "probe"
    /\ \/ /\ pc' = "page" /\ attempt' = 1
          /\ UNCHANGED <<run, limit, after, next, count, pipeline, faults>>
       \/ ProbeFails
    /\ UNCHANGED <<corpus, database, threads, starts, kills, growth, hist, lost>>

\* A page: its pubkeys and a flush go to the writer.  The walk ends with a page
\* without cursor.
FetchPage ==
    /\ pc = "page"
    /\ LET page == Page(after)
       IN  /\ \/ Enqueue(<<Pubkeys(page), Flush>>)
              \/ writer = "dead" /\ UNCHANGED wq
           /\ IF writer = "dead" THEN Leave /\ UNCHANGED hist
              ELSE /\ next' = EndCursor(page)
                   /\ count' = count + Cardinality(page)
                   /\ pc' = IF next' = None THEN "lastFlush" ELSE "flush"
                   /\ hist' = [hist EXCEPT ![run].whole = next' = None]
                   /\ attempt' = 1
                   /\ UNCHANGED <<run, limit, after, pipeline>>
    /\ UNCHANGED <<corpus, database, chan, txOpen, consumer, writer, bounds, lost>>

\* INVALID_CURSOR: the walk starts again at the first page.
InvalidCursor ==
    /\ pc = "page" /\ after # None
    /\ Fault
    /\ after' = None /\ attempt' = 1
    /\ UNCHANGED <<corpus, database, pc, run, limit, next, count, pipeline, threads, starts,
                   kills, growth, hist, lost>>

\* Any other error of a page is retried or aborts the run, its cursor kept
\* (the UPDATE may fail as well).
FetchPageFails ==
    /\ pc = "page"
    /\ Fault
    /\ \E e \in ClientErrors :
          \/ TryAgain(e) /\ UNCHANGED runs
          \/ GivesUp(e) /\ Leave /\ runs' \in {runs, [runs EXCEPT ![run].status = "aborted"]}
    /\ UNCHANGED <<corpus, pubkeys, scores, threads, starts, kills, growth, hist, lost>>

LimitReached == limit # None /\ count >= limit

\* The page is flushed: set_run_cursor, and on to the next page unless --limit
\* is reached.  The UPDATE may fail.
SetCursor ==
    /\ pc = "flush" /\ FlushReturns
    /\ \/ /\ runs' = [runs EXCEPT ![run].cursor = next]
          /\ after' = next /\ next' = None
          /\ pc' = IF LimitReached THEN "lastFlush" ELSE "page"
          /\ UNCHANGED <<run, limit, count, attempt, pipeline, faults>>
       \/ Fault /\ Leave /\ UNCHANGED runs
    /\ UNCHANGED <<corpus, pubkeys, scores, threads, starts, kills, growth, hist, lost>>

\* The barrier after the walk.
WalkEnds ==
    /\ pc = "lastFlush" /\ FlushReturns
    /\ pc' = "endProbe" /\ after' = None /\ count' = 0
    /\ UNCHANGED <<corpus, database, run, limit, next, attempt, pipeline, threads, bounds, hist,
                   lost>>

ProbeEnd ==
    /\ pc = "endProbe"
    /\ \/ /\ pc' = "read" /\ attempt' = 1
          /\ UNCHANGED <<run, limit, after, next, count, pipeline, faults>>
       \/ ProbeFails
    /\ UNCHANGED <<corpus, database, threads, starts, kills, growth, hist, lost>>

-----------------------------------------------------------------------------
(* run_pipeline                                                            *)

\* read_pubkeys, and the consumer's thread is spawned.
ReadPubkeys ==
    /\ pc = "read"
    /\ \/ /\ todo' = pubkeys
          /\ hist' = [hist EXCEPT ![run].plan = pubkeys]
          /\ txOpen' = TRUE /\ consumer' = "recv"
          /\ pc' = "poll"
          /\ UNCHANGED <<run, limit, walk, batch, requests, groups, sending, failed, faults>>
       \/ Fault /\ Leave /\ UNCHANGED <<hist, txOpen, consumer>>
    /\ UNCHANGED <<corpus, database, chan, wq, writer, starts, kills, growth, lost>>

\* The next batch of the stream, in the order of the pubkeys.
NextBatch ==
    /\ pc = "poll" /\ todo # {}
    /\ batch' = FirstN(todo, AuthorsPerCall)
    /\ todo' = todo \ batch'
    /\ requests' = <<batch'>>
    /\ pc' = "request"
    /\ UNCHANGED <<corpus, database, run, limit, walk, groups, sending, failed, threads, bounds,
                   hist, lost>>

\* Faulty variant: the sender lives on.
KeepSender == txOpen' = txOpen

DropSender == txOpen' = FALSE

\* The end of the stream, or the first error.
StreamEnds(error) ==
    /\ DropSender
    /\ pc' = "join" /\ failed' = error
    /\ todo' = {} /\ batch' = {} /\ requests' = <<>> /\ groups' = {} /\ sending' = {}
    /\ attempt' = 1
    /\ UNCHANGED <<run, limit, after, next, count>>

EndOfStream ==
    /\ pc = "poll" /\ todo = {}
    /\ StreamEnds(FALSE)
    /\ UNCHANGED <<corpus, database, chan, consumer, wq, writer, bounds, hist, lost>>

\* Faulty variant: only the authors in the response are passed on.
MatchPresent == {[key |-> g, posts |-> g] : g \in groups}

\* match_groups: one input for each author asked for, with the events of the
\* group of that author.
MatchGroups == {[key |-> k, posts |-> IF k \in groups THEN k ELSE None] : k \in batch}

\* All parts of the batch are there.
BatchFetched ==
    /\ pc = "request" /\ requests = <<>>
    /\ sending' = MatchGroups
    /\ batch' = {} /\ groups' = {} /\ pc' = "send"
    /\ UNCHANGED <<corpus, database, run, limit, walk, todo, requests, failed, threads, bounds,
                   hist, lost>>

Fits(request) == Cardinality(request) <= RequestLimit

\* latest_per_author answers with the authors that have events.
Fetched ==
    /\ pc = "request" /\ requests # <<>> /\ Fits(Head(requests))
    /\ groups' = groups \cup (Head(requests) \cap Posting)
    /\ requests' = Tail(requests)
    /\ attempt' = 1
    /\ UNCHANGED <<corpus, database, pc, run, limit, after, next, count, todo, batch, sending,
                   failed, threads, bounds, hist, lost>>

Halves(S) ==
    LET left == FirstN(S, Cardinality(S) \div 2) IN <<left, S \ left>>

\* 413: the request is halved; that of a single author is an error.
TooLarge ==
    /\ pc = "request" /\ requests # <<>> /\ ~Fits(Head(requests))
    /\ IF Cardinality(Head(requests)) > 1
       THEN /\ requests' = Halves(Head(requests)) \o Tail(requests)
            /\ attempt' = 1
            /\ UNCHANGED <<pc, run, limit, after, next, count, todo, batch, groups, sending,
                           failed, txOpen>>
       ELSE StreamEnds(TRUE)
    /\ UNCHANGED <<corpus, database, chan, consumer, wq, writer, bounds, hist, lost>>

\* Any other error is retried or ends the stream.
FetchFails ==
    /\ pc = "request" /\ requests # <<>>
    /\ Fault
    /\ \E e \in ClientErrors \ {"PayloadTooLarge"} :
          \/ TryAgain(e) /\ UNCHANGED txOpen
          \/ GivesUp(e) /\ StreamEnds(TRUE)
    /\ UNCHANGED <<corpus, database, chan, consumer, wq, writer, starts, kills, growth, hist,
                   lost>>

HasRoom == Len(chan) < ChannelCap

\* send_async: waits for room, and gives up when the consumer is gone.
Send ==
    /\ pc = "send"
    /\ \/ /\ sending # {} /\ consumer = "recv" /\ HasRoom
          /\ \E x \in sending :
                /\ \A y \in sending : x.key <= y.key
                /\ chan' = Append(chan, x) /\ sending' = sending \ {x}
          /\ UNCHANGED <<pc, run, limit, walk, todo, batch, requests, groups, failed, txOpen>>
       \/ /\ sending # {} /\ consumer = "panicked"
          /\ StreamEnds(FALSE) /\ UNCHANGED chan
       \/ /\ sending = {} /\ pc' = "poll"
          /\ UNCHANGED <<run, limit, walk, pipeline, chan, txOpen>>
    /\ UNCHANGED <<corpus, database, consumer, wq, writer, bounds, hist, lost>>

\* The consumer scores an input and hands the row to the writer; it panics when
\* the writer is gone.
Consume ==
    /\ consumer = "recv" /\ chan # <<>>
    /\ LET x == Head(chan)
           s == [run |-> run, key |-> x.key, posts |-> x.posts]
       IN  \/ Enqueue(<<ScoreOf(s)>>) /\ chan' = Tail(chan) /\ UNCHANGED consumer
           \/ writer = "dead" /\ consumer' = "panicked" /\ chan' = <<>> /\ UNCHANGED wq
    /\ UNCHANGED <<corpus, database, task, txOpen, writer, bounds, hist, lost>>

ConsumerEnds ==
    /\ consumer = "recv" /\ chan = <<>> /\ ~txOpen
    /\ consumer' = "ended"
    /\ UNCHANGED <<corpus, database, task, chan, txOpen, wq, writer, bounds, hist, lost>>

\* The consumer is joined.  Its panic and an error of the pipeline end the command.
Join ==
    /\ pc = "join" /\ consumer \in {"ended", "panicked"}
    /\ IF failed \/ consumer = "panicked"
       THEN Leave
       ELSE pc' = "mark" /\ UNCHANGED <<run, limit, walk, pipeline>>
    /\ UNCHANGED <<corpus, database, threads, bounds, hist, lost>>

\* mark_run_done, then Store::close.
MarkDone ==
    /\ pc = "mark"
    /\ \/ runs' = [runs EXCEPT ![run].status = "done"] /\ UNCHANGED faults
       \/ Fault /\ UNCHANGED runs
    /\ Leave
    /\ UNCHANGED <<corpus, pubkeys, scores, threads, starts, kills, growth, hist, lost>>

-----------------------------------------------------------------------------
Init ==
    /\ corpus \in SUBSET Keys
    /\ pubkeys = {} /\ runs = <<>> /\ scores = {}
    /\ pc = "down" /\ run = 0 /\ limit = None
    /\ after = None /\ next = None /\ count = 0 /\ attempt = 1
    /\ todo = {} /\ batch = {} /\ requests = <<>> /\ groups = {} /\ sending = {}
    /\ failed = FALSE
    /\ chan = <<>> /\ txOpen = FALSE /\ consumer = "none" /\ wq = <<>> /\ writer = "none"
    /\ starts = 0 /\ faults = 0 /\ kills = 0 /\ growth = 0
    /\ hist = <<>> /\ lost = {}

Enumerate == ProbeStart \/ FetchPage \/ InvalidCursor \/ FetchPageFails \/ SetCursor \/ WalkEnds \/ ProbeEnd
Fetch     == ReadPubkeys \/ NextBatch \/ EndOfStream \/ BatchFetched \/ Fetched \/ TooLarge \/ FetchFails \/ Send
Task      == Enumerate \/ Fetch \/ Join \/ MarkDone \/ Closed
Consumer  == Consume \/ ConsumerEnds
Writer    == WriterCommits \/ WriterFails

Next == NewAuthor \/ Start \/ Task \/ Consumer \/ Writer \/ Kill
Spec == Init /\ [][Next]_vars

\* Every thread runs, and every request ends under its timeout.
FairSpec == Spec /\ WF_vars(Task) /\ WF_vars(Consumer) /\ WF_vars(Writer)

-----------------------------------------------------------------------------
(* Properties                                                              *)

\* The authors a run has walked past: those there at its beginning up to its
\* cursor, all of them once it is done.
Walked(r) ==
    {k \in hist[r].basis :
        \/ runs[r].status = "done" /\ hist[r].whole
        \/ runs[r].cursor # None /\ k <= runs[r].cursor}

\* No author is skipped: whatever crashes, resumes, retries and restarts happen,
\* an author the stored cursor has passed is stored, or was in a transaction that
\* failed (flush-before-cursor).
NoneSkipped ==
    \A r \in Runs : Walked(r) \subseteq pubkeys \cup UNION {m.pubkeys : m \in lost}

\* A run is marked done only when every pubkey it read was scored, from the
\* events of that pubkey, and its row was handed to the writer: no author falls
\* out, or takes the events of another, between the halved requests, the omitted
\* groups, the channel and the consumer.
DoneAccounted ==
    \A r \in Runs : runs[r].status = "done" =>
        \A k \in hist[r].plan :
            \E s \in scores \cup (UNION {wq[i].scores : i \in 1 .. Len(wq)})
                            \cup (UNION {m.scores : m \in lost}) :
                /\ s.run = r /\ s.key = k
                /\ s.posts = IF k \in Posting THEN k ELSE None

\* The command always ends: nobody waits for a thread that is gone or for a
\* channel that nobody closes.  The exception is a flush whose message a writer
\* that died left in its channel: Store::flush returns only if the channel
\* drops it.
Terminates ==
    (pc # "down") ~> \/ pc = "down"
                     \/ pc \in {"flush", "lastFlush"} /\ writer = "dead" /\ ~FlushReturns

=============================================================================
