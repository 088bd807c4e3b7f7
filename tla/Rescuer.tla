------------------------------- MODULE Rescuer -------------------------------
(***************************************************************************)
(* The quarantine rescuer (quarantine-rescuer/): a command that moves the  *)
(* events of whitelisted authors from the quarantine relay to the main     *)
(* relay in four phases: export, check, forward, delete.                   *)
(*                                                                         *)
(* The two relays, the whitelist server and the write policy of the main   *)
(* relay are its environment: they change under the command while it runs. *)
(* A superseded replaceable event counts as stored by the relay that       *)
(* accepted it.                                                            *)
(***************************************************************************)
EXTENDS Integers, FiniteSets

CONSTANTS
    Events,      \* event ids
    Authors,     \* pubkeys
    Author,      \* the author of each event
    CreatedAt,   \* created_at of each event
    Unreadable,  \* events whose export line the exporter skips
    Workers,     \* --forward-concurrency
    BatchSize,   \* --batch-size
    MinBatch,    \* MinBatchSize of the deleter
    Limit,       \* --limit, 0 for none
    ExportBuffer,\* capacity of the exporter's events channel
    MaxFaults,   \* bound: failed commands, connections, publishes and checks
    MaxChanges   \* bound: changes of the whitelist and of the write policy

ASSUME RescuerConstants ==
    /\ Author \in [Events -> Authors]
    /\ CreatedAt \in [Events -> Nat]
    /\ Unreadable \subseteq Events
    /\ BatchSize \in Nat \ {0}
    /\ MinBatch \in Nat \ {0}
    /\ Limit \in Nat
    /\ ExportBuffer \in Nat \ {0}
    /\ MaxFaults \in Nat
    /\ MaxChanges \in Nat

VARIABLES
    \* the environment
    main,        \* events the main relay has accepted
    quarantine,  \* events in the quarantine relay
    listed,      \* authors the whitelist server answers true for
    accepts,     \* authors the write policy of the main relay accepts
    \* the command
    phase,       \* the phase run() is in, "idle" when no command runs
    dryRun,      \* --dry-run
    cancelled,   \* ctx is done (SIGINT, SIGTERM)
    lines,       \* export lines strfry has still to print
    channel,     \* the events channel
    export,      \* the exporter: "running", then "ok" or "error" in errs
    collected,   \* eventsByPubkey
    unchecked,   \* authors whose whitelist check has not returned
    approved,    \* authors in the filtered map
    jobs,        \* authors not yet handed to a worker
    worker,      \* state of each worker's connection
    job,         \* events of the author each worker is publishing
    success,     \* SuccessIDs
    failed,      \* FailedIDs
    batches,     \* delete batches still to run
    deleted,     \* delRes.Deleted
    undeleted,   \* delRes.Failed
    \* bounds and history
    faults, changes,
    ever,        \* history: events the quarantine relay ever stored
    snapshot,    \* history: the quarantine when this run's export began
    clean        \* history: nothing failed or changed during this run

stores    == <<main, quarantine, ever>>
lists     == <<listed, accepts, changes>>
exporting == <<lines, channel, export, collected>>
checking  == <<unchecked, approved>>
sending   == <<jobs, worker, job, success, failed>>
deleting  == <<batches, deleted, undeleted>>
run       == <<dryRun, snapshot>>
vars      == <<stores, lists, phase, run, cancelled, exporting, checking, sending,
               deleting, faults, clean>>

Phases == {"idle", "export", "awaitExit", "check", "forward", "delete", "done"}
Batch  == [ids : SUBSET Events, size : Nat]
EventsOf(p) == {e \in collected : Author[e] = p}

FlagsOK == dryRun \in BOOLEAN /\ cancelled \in BOOLEAN /\ clean \in BOOLEAN

DataOK ==
    /\ main \subseteq Events /\ quarantine \subseteq Events /\ ever \subseteq Events
    /\ listed \subseteq Authors /\ accepts \subseteq Authors
    /\ phase \in Phases
    /\ lines \subseteq Events /\ channel \subseteq Events /\ collected \subseteq Events
    /\ Cardinality(channel) <= ExportBuffer
    /\ export \in {"running", "ok", "error"}
    /\ unchecked \subseteq Authors /\ approved \subseteq Authors /\ jobs \subseteq Authors
    /\ worker \in [Workers -> {"new", "up", "dead"}]
    /\ job \in [Workers -> SUBSET Events]
    /\ success \subseteq Events /\ failed \subseteq Events
    /\ batches \subseteq Batch
    /\ deleted \subseteq Events /\ undeleted \subseteq Events
    /\ snapshot \subseteq Events
    /\ faults \in Nat /\ changes \in Nat

\* Types; the exporter's channel never holds more than its capacity.
TypeOK == FlagsOK /\ DataOK

Fault == faults < MaxFaults /\ faults' = faults + 1 /\ clean' = FALSE
NoFault == UNCHANGED <<faults, clean>>

-----------------------------------------------------------------------------
(* Phase 1: export (exporter.Stream and collect)                           *)

\* `strfry export' prints the quarantine of one read transaction.
StartRun ==
    /\ phase \in {"idle", "done"}
    /\ phase' = "export"
    /\ dryRun' \in BOOLEAN
    /\ lines' = quarantine /\ snapshot' = quarantine
    /\ clean' = (listed = accepts)
    /\ cancelled' = FALSE
    /\ channel' = {} /\ export' = "running" /\ collected' = {}
    /\ unchecked' = {} /\ approved' = {}
    /\ jobs' = {} /\ worker' = [w \in Workers |-> "new"]
    /\ job' = [w \in Workers |-> {}]
    /\ success' = {} /\ failed' = {}
    /\ batches' = {} /\ deleted' = {} /\ undeleted' = {}
    /\ UNCHANGED <<stores, lists, faults>>

ChannelHasRoom == Cardinality(channel) < ExportBuffer

ExportLine ==
    /\ export = "running"
    /\ \E e \in lines :
          /\ lines' = lines \ {e}
          /\ \/ e \in Unreadable /\ UNCHANGED channel
             \/ /\ e \notin Unreadable
                /\ ChannelHasRoom
                /\ channel' = channel \cup {e}
    /\ phase \in {"export", "awaitExit"}
    /\ UNCHANGED <<stores, lists, phase, run, cancelled, export, collected, checking,
                   sending, deleting, faults, clean>>

\* The exporter's goroutine returns and closes both channels: the command
\* ended, or it failed (a scan error, a non-zero exit, a cancelled context).
ExportEnds ==
    /\ phase \in {"export", "awaitExit"} /\ export = "running"
    /\ \/ lines = {} /\ export' = "ok" /\ NoFault
       \/ export' = "error" /\ Fault
       \/ cancelled /\ export' = "error" /\ NoFault
    /\ lines' = {}
    /\ UNCHANGED <<stores, lists, phase, run, cancelled, channel, collected, checking,
                   sending, deleting>>

\* Faulty variant: no limit is taken for a limit of none.
AnyLimitReached(S) == Cardinality(S) >= Limit

LimitReached(S) == Limit > 0 /\ Cardinality(S) >= Limit

\* collect's range over the events channel, with its early break.
Collect ==
    /\ phase = "export"
    /\ \E e \in channel :
          /\ channel' = channel \ {e}
          /\ collected' = collected \cup {e}
    /\ phase' = IF LimitReached(collected') THEN "awaitExit" ELSE phase
    /\ UNCHANGED <<stores, lists, run, cancelled, lines, export, checking, sending,
                   deleting, faults, clean>>

ChannelClosed ==
    /\ phase = "export"
    /\ channel = {} /\ export # "running"
    /\ phase' = "awaitExit"
    /\ UNCHANGED <<stores, lists, run, cancelled, exporting, checking, sending,
                   deleting, faults, clean>>

\* collect reads errs, and run() goes on to the whitelist checks.
CollectReturns ==
    /\ phase = "awaitExit"
    /\ export # "running"
    /\ phase' = IF export = "error" \/ collected = {} THEN "done" ELSE "check"
    /\ unchecked' = IF phase' = "check" THEN {Author[e] : e \in collected} ELSE {}
    /\ UNCHANGED <<stores, lists, run, cancelled, exporting, approved, sending,
                   deleting, faults, clean>>

-----------------------------------------------------------------------------
(* Phase 2: check (filterWhitelisted and Client.IsWhitelisted)             *)

\* One goroutine per author, in any order; any error counts as false.
CheckAuthor ==
    /\ phase = "check"
    /\ \E p \in unchecked :
          /\ unchecked' = unchecked \ {p}
          /\ \/ ~cancelled /\ p \in listed /\ approved' = approved \cup {p} /\ NoFault
             \/ p \notin listed /\ UNCHANGED approved /\ NoFault
             \/ cancelled /\ UNCHANGED approved /\ NoFault
             \/ p \in listed /\ Fault /\ UNCHANGED approved
    /\ UNCHANGED <<stores, lists, phase, run, cancelled, exporting, sending, deleting>>

ChecksDone ==
    /\ phase = "check" /\ unchecked = {}
    /\ phase' = IF approved = {} \/ dryRun THEN "done" ELSE "forward"
    /\ jobs' = IF phase' = "forward" THEN approved ELSE {}
    /\ UNCHANGED <<stores, lists, run, cancelled, exporting, checking, worker, job,
                   success, failed, deleting, faults, clean>>

-----------------------------------------------------------------------------
(* Phase 3: forward (Forwarder.Forward)                                    *)

Connect(w) ==
    /\ phase = "forward" /\ worker[w] = "new"
    /\ \/ worker' = [worker EXCEPT ![w] = "up"] /\ ~cancelled /\ NoFault
       \/ worker' = [worker EXCEPT ![w] = "dead"] /\ Fault
       \/ worker' = [worker EXCEPT ![w] = "dead"] /\ cancelled /\ NoFault
    /\ UNCHANGED <<stores, lists, phase, run, cancelled, exporting, checking, jobs,
                   job, success, failed, deleting>>

\* An idle worker takes an author; a worker that could not connect fails all
\* events of the authors it takes.
TakeJob(w) ==
    /\ phase = "forward" /\ worker[w] # "new" /\ job[w] = {}
    /\ \E p \in jobs :
          /\ jobs' = jobs \ {p}
          /\ IF worker[w] = "up"
             THEN job' = [job EXCEPT ![w] = EventsOf(p)] /\ UNCHANGED failed
             ELSE failed' = failed \cup EventsOf(p) /\ UNCHANGED job
    /\ UNCHANGED <<stores, lists, phase, run, cancelled, exporting, checking, worker,
                   success, deleting, faults, clean>>

\* The dispatcher sees the cancelled context instead of a free worker.
DispatchCancelled ==
    /\ phase = "forward" /\ cancelled
    /\ \E p \in jobs : jobs' = jobs \ {p} /\ failed' = failed \cup EventsOf(p)
    /\ UNCHANGED <<stores, lists, phase, run, cancelled, exporting, checking, worker,
                   job, success, deleting, faults, clean>>

\* Faulty variant: the events of an author are sent in any order.
NextUnsorted(S) == S

\* sort.SliceStable by created_at: the events a worker may send next.
NextOldest(S) == {e \in S : \A x \in S : CreatedAt[e] <= CreatedAt[x]}

\* relay.Publish succeeded.
Published(e) ==
    /\ ~cancelled
    /\ Author[e] \in accepts
    /\ main' = main \cup {e}
    /\ success' = success \cup {e}
    /\ UNCHANGED failed
    /\ NoFault

\* The context is cancelled, or the main relay refuses the event, or the
\* answer is lost after the relay has stored it.
NotPublished(e) ==
    /\ failed' = failed \cup {e}
    /\ UNCHANGED success
    /\ \/ (cancelled \/ Author[e] \notin accepts) /\ UNCHANGED main /\ NoFault
       \/ Author[e] \in accepts /\ Fault /\ main' \in {main, main \cup {e}}

Publish(w) ==
    /\ phase = "forward" /\ worker[w] = "up"
    /\ \E e \in NextOldest(job[w]) :
          /\ job' = [job EXCEPT ![w] = job[w] \ {e}]
          /\ Published(e) \/ NotPublished(e)
    /\ UNCHANGED <<quarantine, ever, lists, phase, run, cancelled, exporting, checking,
                   jobs, worker, deleting>>

\* Faulty variant: the range is cut without its last, shorter part.
ChunksWithoutTail(S, n) ==
    {{[ids |-> c, size |-> n] : c \in P} : P \in
        {P \in SUBSET (SUBSET S) :
            /\ \A c \in P : Cardinality(c) = n
            /\ \A c, d \in P : c # d => c \cap d = {}
            /\ Cardinality(P) = Cardinality(S) \div n}}

\* deleteRange cuts its ids into batches of n; the last one may be shorter.
\* The ids are in no particular order.
Chunks(S, n) ==
    {{[ids |-> c, size |-> n] : c \in P} : P \in
        {P \in SUBSET (SUBSET S) :
            /\ UNION P = S
            /\ \A c \in P : c # {} /\ Cardinality(c) <= n
            /\ \A c, d \in P : c # d => c \cap d = {}
            /\ Cardinality({c \in P : Cardinality(c) < n}) <= 1}}

ForwardDone ==
    /\ phase = "forward"
    /\ jobs = {}
    /\ \A w \in Workers : worker[w] # "new" /\ job[w] = {}
    /\ IF success = {}
       THEN phase' = "done" /\ UNCHANGED batches
       ELSE phase' = "delete" /\ batches' \in Chunks(success, BatchSize)
    /\ UNCHANGED <<stores, lists, run, cancelled, exporting, checking, sending, deleted,
                   undeleted, faults, clean>>

-----------------------------------------------------------------------------
(* Phase 4: delete (Deleter.deleteRange)                                   *)

\* Faulty variant: the filter names the authors instead of the ids.
MatchesAuthors(ids) == {e \in quarantine : \E i \in ids : Author[i] = Author[e]}

\* What `strfry delete' removes for the filter of one batch.
MatchesFilter(ids) == ids

DeleteBatch ==
    /\ phase = "delete"
    /\ ~cancelled
    /\ \E b \in batches :
          /\ batches' = batches \ {b}
          /\ deleted' = deleted \cup b.ids
          /\ quarantine' = quarantine \ MatchesFilter(b.ids)
    /\ UNCHANGED <<main, ever, lists, phase, run, cancelled, exporting, checking, sending,
                   undeleted, faults, clean>>

\* Faulty variant: a failed batch is tried again as it is.
RetriesWhole(b) ==
    IF Cardinality(b.ids) = 1 THEN {{}} ELSE Chunks(b.ids, b.size)

\* What becomes of a batch whose delete failed: a single id is given up, a
\* batch below the minimum is tried id by id, a larger one is halved.
Retries(b) ==
    IF Cardinality(b.ids) = 1 THEN {{}}
    ELSE IF b.size \div 2 < MinBatch THEN Chunks(b.ids, 1)
    ELSE Chunks(b.ids, b.size \div 2)

\* The command fails, before or after its transaction took effect.
DeleteBatchFails ==
    /\ phase = "delete"
    /\ \E b \in batches :
          /\ \/ cancelled /\ UNCHANGED quarantine /\ NoFault
             \/ Fault /\ quarantine' \in {quarantine, quarantine \ MatchesFilter(b.ids)}
          /\ \E r \in Retries(b) : batches' = (batches \ {b}) \cup r
          /\ undeleted' = IF Cardinality(b.ids) = 1 THEN undeleted \cup b.ids ELSE undeleted
    /\ UNCHANGED <<main, ever, lists, phase, run, cancelled, exporting, checking, sending,
                   deleted>>

DeleteDone ==
    /\ phase = "delete" /\ batches = {}
    /\ phase' = "done"
    /\ UNCHANGED <<stores, lists, run, cancelled, exporting, checking, sending, deleting,
                   faults, clean>>

-----------------------------------------------------------------------------
(* The environment                                                         *)

\* The router sends an event to the quarantine relay.
Quarantined ==
    /\ \E e \in Events \ quarantine :
          /\ e \notin ever \/ changes < MaxChanges
          /\ changes' = IF e \in ever THEN changes + 1 ELSE changes
          /\ quarantine' = quarantine \cup {e}
          /\ ever' = ever \cup {e}
    /\ clean' = FALSE
    /\ UNCHANGED <<main, listed, accepts, phase, run, cancelled, exporting, checking,
                   sending, deleting, faults>>

\* The whitelist server refreshes.
ListChanges ==
    /\ changes < MaxChanges /\ changes' = changes + 1
    /\ listed' \in (SUBSET Authors) \ {listed}
    /\ clean' = FALSE
    /\ UNCHANGED <<stores, accepts, phase, run, cancelled, exporting, checking, sending,
                   deleting, faults>>

\* The write policy of the main relay takes over the whitelist (its cached
\* answers expire).
PolicyFollows ==
    /\ accepts # listed /\ accepts' = listed
    /\ clean' = FALSE
    /\ UNCHANGED <<stores, listed, changes, phase, run, cancelled, exporting, checking,
                   sending, deleting, faults>>

\* SIGINT or SIGTERM.
Cancel ==
    /\ phase \notin {"idle", "done"} /\ ~cancelled
    /\ Fault
    /\ cancelled' = TRUE
    /\ UNCHANGED <<stores, lists, phase, run, exporting, checking, sending, deleting>>

\* The command is killed; what it had begun is lost.
Kill ==
    /\ phase \notin {"idle", "done"}
    /\ Fault
    /\ phase' = "idle"
    /\ UNCHANGED <<stores, lists, run, cancelled, exporting, checking, sending, deleting>>

-----------------------------------------------------------------------------
Init ==
    /\ main = {} /\ quarantine = {} /\ ever = {}
    /\ listed = {} /\ accepts = {}
    /\ phase = "idle" /\ dryRun = FALSE /\ cancelled = FALSE
    /\ lines = {} /\ channel = {} /\ export = "ok" /\ collected = {}
    /\ unchecked = {} /\ approved = {}
    /\ jobs = {} /\ worker = [w \in Workers |-> "new"] /\ job = [w \in Workers |-> {}]
    /\ success = {} /\ failed = {}
    /\ batches = {} /\ deleted = {} /\ undeleted = {}
    /\ faults = 0 /\ changes = 0
    /\ snapshot = {} /\ clean = FALSE

WorkerStep(w) == Connect(w) \/ TakeJob(w) \/ Publish(w)

RunStep ==
    \/ ExportLine \/ ExportEnds \/ Collect \/ ChannelClosed \/ CollectReturns
    \/ CheckAuthor \/ ChecksDone
    \/ DispatchCancelled \/ ForwardDone
    \/ DeleteBatch \/ DeleteBatchFails \/ DeleteDone

Next ==
    \/ StartRun \/ RunStep
    \/ \E w \in Workers : WorkerStep(w)
    \/ Quarantined \/ ListChanges \/ PolicyFollows \/ Cancel \/ Kill

Spec == Init /\ [][Next]_vars

\* Every goroutine of a running command is scheduled, and every command and
\* publish it waits for ends (both run under timeouts or a process exit).
Fairness == WF_vars(RunStep) /\ \A w \in Workers : WF_vars(WorkerStep(w))

FairSpec == Spec /\ Fairness

-----------------------------------------------------------------------------
(* Properties                                                              *)

\* No event is lost between the relays: whatever the quarantine relay ever
\* stored is on the main relay or still in quarantine, whatever fails, is
\* killed, is delisted or arrives while the command runs (deleter.go deletes by
\* id, and only what the main relay acknowledged).
NoLoss == ever \subseteq main \cup quarantine

\* Oldest first per author (forwarder.go): when an event is acknowledged, every
\* older event of its author in this run has been sent before it.
OldestFirst ==
    [][\A e \in success' \ success :
          \A x \in EventsOf(Author[e]) :
             CreatedAt[x] < CreatedAt[e] => x \in success \cup failed]_vars

\* The summary of a finished run adds up: every event of an approved author was
\* forwarded or failed, never both, and every forwarded one was deleted or is
\* reported as not deleted, never both.
SummaryAddsUp ==
    phase = "done" /\ ~dryRun =>
        /\ success \cup failed = {e \in collected : Author[e] \in approved}
        /\ deleted \cup undeleted = success
        /\ success \cap failed = {} /\ deleted \cap undeleted = {}

\* A run during which nothing failed or changed rescues completely: every
\* readable event of a whitelisted author has moved to the main relay.
RescuesEverything ==
    phase = "done" /\ clean /\ ~dryRun /\ Limit = 0 =>
        \A e \in snapshot \ Unreadable :
            Author[e] \in listed => e \in main /\ e \notin quarantine

\* Every run comes to an end (quarantine-rescuer/README.md:61, "stop after N
\* events from the export", and the phases of main.go, run).
RunTerminates == (phase = "export") ~> (phase \in {"idle", "done"})
=============================================================================
