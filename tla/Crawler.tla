------------------------------ MODULE Crawler ------------------------------
(***************************************************************************)
(* The web-of-trust crawler: the main loop of cmd/crawler, the pool of     *)
(* relays and the fetch of one batch in pkg/crawler. One goroutine per     *)
(* relay queries the batch and hands events and errors to the dispatcher,  *)
(* which owns the pool and writes the graph. A goroutine may outlive its   *)
(* batch; the context of a batch ends with its time or, early, when a      *)
(* quorum of the relays is done.                                           *)
(*                                                                         *)
(* What a relay answers is open: queryRelay may deliver any list of an     *)
(* author asked for, in any order, and may end in any of its ways at any   *)
(* time, or never. Splitting a filter into chunks under the learnt cap is  *)
(* inside that. Events whose signature fails change nothing and are left   *)
(* out, and so is the relay events are forwarded to, which decides nothing.*)
(***************************************************************************)
EXTENDS GraphStore

CONSTANTS
    Relays,
    Events,                     \* contact lists that relays hold
    Author, CreatedAt, Follows, \* of each event; Follows has only valid pubkeys
    Seed,
    Class,                      \* transport, filter rejection, subscription flap
    Threshold,                  \* failures of each class that eject a relay
    QuorumPct,                  \* relay_eose_quorum in hundredths, 0 is off
    SampleEvery,                \* count_sample_interval
    MaxFaults                   \* bound on failed writes to the graph, kills of the
                                \* process and goroutines that outlive their batch

ASSUME CrawlerAssumption ==
    /\ Author \in [Events -> Valid]
    /\ CreatedAt \in [Events -> Nat \ {0}]
    /\ Follows \in [Events -> SUBSET Valid] /\ \A e \in Events : IsFiniteSet(Follows[e])
    /\ Seed \in Valid
    /\ "transport" \in Class /\ Threshold \in [Class -> Nat \ {0}]
    /\ QuorumPct \in 0..100 /\ SampleEvery \in Nat \ {0}
    /\ MaxFaults \in Nat
    /\ IsFiniteSet(Relays)

VARIABLES
    phase,      \* where the main loop is: off, select, fetch, drain or mark
    ejected,    \* relays moved out of the configured list, for good
    link,       \* of each relay: up, down (may be retried now) or resting
    fails,      \* failures of each relay by class
    task,       \* of each relay, its goroutine of this batch: idle, running or done
    leftover,   \* relays with a goroutine of an earlier batch that has not returned
    stamped,    \* relays whose completedGen is the generation of this batch
    context,    \* of the batch: open, cancelled, or late when its time is up
    late,       \* budgetExhausted, as captured when the context ended
    batch,      \* the pubkeys selected, with the version stored at that time
    buffered,   \* eventsChan
    errors,     \* errorsChan
    processed,  \* processedEventIDs
    hits, skip, \* FetchResult
    marking,    \* keys MarkAttempted has still to deal with
    sample,     \* cached count: was the graph empty, and batches since
    faults

fetchVars == <<task, leftover, stamped, context, late, buffered, errors, processed, hits, skip>>
poolVars == <<ejected, link, fails>>
vars == <<graph, now, phase, poolVars, fetchVars, batch, marking, sample, faults>>

NoBatch == [k \in {} |-> 0]
NoFails == [c \in Class |-> 0]
Fresh == [empty |-> FALSE, age |-> SampleEvery]   \* no sample taken yet

Init ==
    /\ GraphInit
    /\ phase = "off"
    /\ ejected = {}
    /\ link = [r \in Relays |-> "down"]
    /\ fails = [r \in Relays |-> NoFails]
    /\ task = [r \in Relays |-> "idle"]
    /\ leftover = {}
    /\ stamped = {}
    /\ context = "open" /\ late = FALSE
    /\ batch = NoBatch
    /\ buffered = {} /\ errors = {} /\ processed = {} /\ hits = {} /\ skip = {} /\ marking = {}
    /\ sample = Fresh
    /\ faults = 0

Pool == Relays \ ejected
Up == {r \in Relays : link[r] = "up"}

-----------------------------------------------------------------------------
(* Start and end of the process. *)

(* At least one relay must answer; those that do not have one failure. The *)
(* backfill may fail without stopping the start.                           *)
Start ==
    /\ phase = "off"
    /\ \E up \in (SUBSET Pool) \ {{}} :
        /\ link' = [r \in Relays |-> IF r \in up THEN "up"
                                     ELSE IF r \in Pool THEN "resting" ELSE "down"]
        /\ fails' = [r \in Relays |-> IF r \in Pool \ up
                        THEN [NoFails EXCEPT !["transport"] = 1] ELSE NoFails]
    /\ \/ BackfillNextAttempt /\ UNCHANGED faults
       \/ faults < MaxFaults /\ faults' = faults + 1 /\ UNCHANGED graph
    /\ phase' = "select"
    /\ sample' = Fresh
    /\ UNCHANGED <<now, ejected, fetchVars, batch, marking>>

(* Without any relay the process gives up, after the backfill. *)
StartFails ==
    /\ phase = "off"
    /\ BackfillNextAttempt
    /\ UNCHANGED <<now, phase, poolVars, fetchVars, batch, marking, sample, faults>>

(* The process ends: what it held in memory is gone. *)
Exit ==
    /\ phase' = "off"
    /\ link' = [r \in Relays |-> "down"]
    /\ fails' = [r \in Relays |-> NoFails]
    /\ task' = [r \in Relays |-> "idle"]
    /\ leftover' = {}
    /\ stamped' = {} /\ context' = "open" /\ late' = FALSE
    /\ batch' = NoBatch
    /\ buffered' = {} /\ errors' = {} /\ processed' = {} /\ hits' = {} /\ skip' = {} /\ marking' = {}
    /\ sample' = Fresh
    /\ UNCHANGED <<now, ejected>>

(* A signal or a crash, at any point. *)
Shutdown ==
    /\ phase # "off"
    /\ faults < MaxFaults /\ faults' = faults + 1
    /\ Exit
    /\ UNCHANGED graph

-----------------------------------------------------------------------------
(* The main loop up to the fetch. *)

(* The number of pubkeys is counted every SampleEvery batches and cached   *)
(* in between; a graph counted as empty adds the seed to the selection.    *)
Sampled == IF sample.age >= SampleEvery
           THEN [empty |-> stored = {}, age |-> 0] ELSE sample

Selected(stale) ==
    [k \in stale \cup (IF Sampled.empty THEN {Seed} ELSE {}) |->
        IF k = Seed /\ Sampled.empty THEN 0 ELSE version[k]]

Ejects(r, c) == fails[r][c] + 1 >= Threshold[c]

(* A failed connection counts as a failure of transport; a new connection  *)
(* halves every count.                                                     *)
ReconnectRelays ==
    LET tried == {r \in Pool : link[r] = "down"}
    IN  \E ok \in SUBSET tried :
          LET out == {r \in tried \ ok : Ejects(r, "transport")}
          IN  /\ ejected' = ejected \cup out
              /\ link' = [r \in Relays |->
                     CASE r \in ok -> "up"
                       [] r \in (tried \ ok) \ out -> "resting"
                       [] OTHER -> link[r]]
              /\ fails' = [r \in Relays |->
                     CASE r \in out -> NoFails
                       [] r \in ok -> [c \in Class |-> fails[r][c] \div 2]
                       [] r \in (tried \ ok) \ out -> [fails[r] EXCEPT !["transport"] = @ + 1]
                       [] OTHER -> fails[r]]

(* A new generation; every relay that is up gets a goroutine. Some of the  *)
(* previous batch may not have noticed yet that their context is over.     *)
Launch ==
    /\ task' = [r \in Relays |-> IF link'[r] = "up" THEN "running" ELSE "idle"]
    /\ \E slow \in SUBSET {r \in Relays : task[r] = "running"} :
        /\ faults' = faults + Cardinality(slow) /\ faults' <= MaxFaults
        /\ leftover' = leftover \cup slow
    /\ stamped' = {}
    /\ context' = "open" /\ late' = FALSE
    /\ buffered' = {} /\ errors' = {} /\ processed' = {} /\ hits' = {} /\ skip' = {}

BeginBatch ==
    /\ phase = "select"
    /\ \E stale \in GetStalePubkeys :
        /\ DOMAIN Selected(stale) # {}
        /\ batch' = Selected(stale)
    /\ sample' = Sampled
    /\ ReconnectRelays
    /\ Launch
    /\ phase' = "fetch"
    /\ UNCHANGED <<graph, now, marking>>

WorkComplete ==
    /\ phase = "select"
    /\ \E stale \in GetStalePubkeys : DOMAIN Selected(stale) = {}
    /\ Exit
    /\ UNCHANGED <<graph, faults>>

-----------------------------------------------------------------------------
(* The goroutine of relay r. *)

(* An event of an author of the batch reaches the channel. After the end   *)
(* of the context a send and the end are both ready; a relay has only so   *)
(* many events to send then, so those that change nothing any more are     *)
(* not followed.                                                           *)
Tells(e) ==
    e \notin processed /\ (CreatedAt[e] > batch[Author[e]] \/ Author[e] \notin hits)

Deliver(r) ==
    /\ task[r] = "running" /\ phase \in {"fetch", "drain"}
    /\ \E e \in Events \ buffered :
        /\ Author[e] \in DOMAIN batch
        /\ context = "open" \/ Tells(e)
        /\ buffered' = buffered \cup {e}
    /\ UNCHANGED <<graph, now, phase, poolVars, task, leftover, stamped, context, late,
                   errors, processed, hits, skip, batch, marking, sample, faults>>

Launched == {r \in Relays : task[r] # "idle"}
Done == {r \in Relays : task[r] = "done"}

QuorumReached(done, queried) ==
    QuorumPct > 0 /\ queried > 0 /\ 100 * done >= queried * QuorumPct

(* queryRelay has returned: the relay is stamped with the generation and   *)
(* counts for the quorum. When the batch is over, its channel and context  *)
(* are nobody's any more.                                                  *)
Returned(r) ==
    /\ task[r] = "running"
    /\ task' = [task EXCEPT ![r] = "done"]
    /\ stamped' = stamped \cup {r}
    /\ context' = IF /\ context = "open"
                     /\ QuorumReached(Cardinality(Done) + 1, Cardinality(Launched))
                  THEN "cancelled" ELSE context
    /\ UNCHANGED <<graph, now, phase, ejected, link, leftover, late, buffered, processed, hits,
                   skip, batch, marking, sample, faults>>

QuerySucceeds(r) ==
    /\ Returned(r)
    /\ fails' = [fails EXCEPT ![r] = NoFails]
    /\ UNCHANGED errors

QueryFails(r) ==
    /\ Returned(r)
    /\ \E c \in Class : errors' = IF phase = "fetch" THEN errors \cup {<<r, c>>} ELSE errors
    /\ UNCHANGED fails

(* Ended by the context, which is no failure of the relay; or by a drop of *)
(* the connection, whose error reads "context canceled" too, so that the   *)
(* dispatcher passes over it and the relay stays up.                       *)
QueryInterrupted(r) ==
    /\ Returned(r)
    /\ UNCHANGED <<fails, errors>>

(* A goroutine of an earlier batch returns: it stamps its own generation,  *)
(* and if it did get its answer it resets the counts.                      *)
LeftoverReturns(r) ==
    /\ r \in leftover
    /\ leftover' = leftover \ {r}
    /\ stamped' = stamped \ {r}
    /\ \/ fails' = [fails EXCEPT ![r] = NoFails]
       \/ UNCHANGED fails
    /\ UNCHANGED <<graph, now, phase, ejected, link, task, context, late, buffered,
                   errors, processed, hits, skip, batch, marking, sample, faults>>

Goroutine(r) ==
    Deliver(r) \/ QuerySucceeds(r) \/ QueryFails(r) \/ QueryInterrupted(r) \/ LeftoverReturns(r)

(* The time of the batch is up, whether or not a quorum was first. *)
Timeout ==
    /\ phase = "fetch" /\ context # "late"
    /\ context' = "late"
    /\ UNCHANGED <<graph, now, phase, poolVars, task, leftover, stamped, late, buffered, errors,
                   processed, hits, skip, batch, marking, sample, faults>>

-----------------------------------------------------------------------------
(* The dispatcher. *)

(* The relays of dead lose their connection and have one more failure of   *)
(* class c; a relay at the threshold is ejected, another may rest.         *)
MarkRelaysDead(dead, c) ==
    LET out == {r \in dead : Ejects(r, c)}
    IN  /\ ejected' = ejected \cup out
        /\ link' = [r \in Relays |-> IF r \in out THEN "down"
                                     ELSE IF r \in dead THEN "resting" ELSE link[r]]
        /\ fails' = [r \in Relays |-> IF r \in out THEN NoFails
                                      ELSE IF r \in dead THEN [fails[r] EXCEPT ![c] = @ + 1]
                                      ELSE fails[r]]

(* The list is not newer than the one stored when the batch was selected. *)
AlreadyKnown(e) ==
    /\ CreatedAt[e] <= batch[Author[e]]
    /\ hits' = hits \cup {Author[e]}
    /\ UNCHANGED <<graph, skip, processed, faults>>

Update(e) == AddFollowers(Author[e], CreatedAt[e], Follows[e])

Updated(e) ==
    /\ Update(e)
    /\ hits' = hits \cup {Author[e]}
    /\ skip' = skip \ {Author[e]}
    /\ processed' = processed \cup {e}
    /\ UNCHANGED faults

(* The write fails for now; a commit whose answer was lost has happened. *)
UpdateFails(e) ==
    /\ faults < MaxFaults /\ faults' = faults + 1
    /\ Update(e) \/ UNCHANGED graph
    /\ skip' = skip \cup {Author[e]}
    /\ processed' = processed \cup {e}
    /\ UNCHANGED hits

ProcessFetchedEvent(e) ==
    \/ AlreadyKnown(e)
    \/ CreatedAt[e] > batch[Author[e]] /\ (Updated(e) \/ UpdateFails(e))

HandleEvent ==
    /\ phase \in {"fetch", "drain"}
    /\ \E e \in buffered :
        /\ buffered' = buffered \ {e}
        /\ IF e \in processed THEN UNCHANGED <<graph, hits, skip, processed, faults>>
           ELSE ProcessFetchedEvent(e)
    /\ UNCHANGED <<now, phase, poolVars, task, leftover, stamped, context, late, errors, batch,
                   marking, sample>>

(* A write that fails for good ends the fetch with an error and the loop. *)
UpdateFatal ==
    /\ phase \in {"fetch", "drain"}
    /\ \E e \in buffered \ processed : CreatedAt[e] > batch[Author[e]]
    /\ faults < MaxFaults /\ faults' = faults + 1
    /\ Exit
    /\ UNCHANGED graph

HandleError ==
    /\ phase = "fetch"
    /\ \E err \in errors :
        /\ errors' = errors \ {err}
        /\ MarkRelaysDead({err[1]}, err[2])
    /\ UNCHANGED <<graph, now, phase, task, leftover, stamped, context, late, buffered, processed,
                   hits, skip, batch, marking, sample, faults>>

\* Faulty variant: only pubkeys with an answer are stamped.
OnlyHits == hits \ skip

(* The pubkeys to be stamped: all of the batch but the failed updates. *)
AttemptableBatchKeys == DOMAIN batch \ skip

EndFetch ==
    /\ phase' = "mark"
    /\ marking' = AttemptableBatchKeys
    /\ context' = "cancelled" /\ late' = FALSE /\ errors' = {}
    /\ UNCHANGED <<graph, now, task, leftover, stamped, buffered, processed, hits, skip, batch,
                   sample, faults>>

(* Every goroutine is done and every event handled; errors that were not   *)
(* received yet are dropped with the channel.                              *)
ChannelsClosed ==
    /\ phase = "fetch"
    /\ Launched = Done /\ buffered = {}
    /\ EndFetch
    /\ UNCHANGED poolVars

ContextDone ==
    /\ phase = "fetch" /\ context # "open"
    /\ phase' = "drain"
    /\ late' = (context = "late")
    /\ context' = "cancelled"
    /\ UNCHANGED <<graph, now, poolVars, task, leftover, stamped, buffered, errors,
                   processed, hits, skip, batch, marking, sample, faults>>

(* The channel is empty. The relays not heard of in this generation are    *)
(* closed: as failures when the time was up, without penalty at a quorum.  *)
Outstanding == Up \ stamped

\* Faulty variant: a quorum leaves the connections of the others open.
CloseWhenLate == IF late THEN MarkRelaysDead(Outstanding, "transport") ELSE UNCHANGED poolVars

CloseOutstanding ==
    IF late THEN MarkRelaysDead(Outstanding, "transport")
    ELSE /\ link' = [r \in Relays |-> IF r \in Outstanding THEN "down" ELSE link[r]]
         /\ UNCHANGED <<ejected, fails>>

DrainEnds ==
    /\ phase = "drain" /\ buffered = {}
    /\ CloseOutstanding
    /\ EndFetch

-----------------------------------------------------------------------------
(* MarkAttempted, retried for as long as its failure is transient. *)

(* One malformed key; a failure is logged and leaves the node as it is. *)
FixKey ==
    /\ phase = "mark"
    /\ \E k \in marking \ Valid :
        /\ marking' = marking \ {k}
        /\ \/ RecoverOrPurge(k) /\ UNCHANGED faults
           \/ faults < MaxFaults /\ faults' = faults + 1 /\ UNCHANGED graph
    /\ UNCHANGED <<now, phase, poolVars, fetchVars, batch, sample>>

NextLoop ==
    /\ phase' = "select"
    /\ sample' = [sample EXCEPT !.age = @ + 1]
    /\ batch' = NoBatch /\ marking' = {}
    /\ task' = [r \in Relays |-> IF task[r] = "running" THEN "running" ELSE "idle"]
    /\ stamped' = {} /\ processed' = {} /\ hits' = {} /\ skip' = {}
    /\ UNCHANGED <<now, poolVars, leftover, context, late, buffered, errors>>

Stamp ==
    /\ phase = "mark" /\ marking \subseteq Valid
    /\ StampAttempted(marking, hits)
    /\ NextLoop
    /\ UNCHANGED faults

StampRetried ==
    /\ phase = "mark" /\ marking # {} /\ marking \subseteq Valid
    /\ faults < MaxFaults /\ faults' = faults + 1
    /\ StampAttempted(marking, hits) \/ UNCHANGED graph
    /\ marking' = AttemptableBatchKeys
    /\ UNCHANGED <<now, phase, poolVars, fetchVars, batch, sample>>

StampFatal ==
    /\ phase = "mark" /\ marking # {} /\ marking \subseteq Valid
    /\ faults < MaxFaults /\ faults' = faults + 1
    /\ UNCHANGED graph
    /\ NextLoop

-----------------------------------------------------------------------------
(* Time passes for the schedule and for a relay that rests. Both are shown *)
(* where they are read: by the selection, the stamps and the reconnection. *)
Tick ==
    /\ phase \in {"select", "mark"} /\ now < MaxTime
    /\ now' = now + 1
    /\ UNCHANGED <<graph, phase, poolVars, fetchVars, batch, marking, sample, faults>>

Rested(r) ==
    /\ phase = "select" /\ link[r] = "resting"
    /\ link' = [link EXCEPT ![r] = "down"]
    /\ UNCHANGED <<graph, now, phase, ejected, fails, fetchVars, batch, marking, sample, faults>>

MainStep ==
    \/ BeginBatch \/ WorkComplete
    \/ HandleEvent \/ UpdateFatal \/ HandleError \/ ChannelsClosed \/ ContextDone \/ DrainEnds
    \/ FixKey \/ Stamp \/ StampRetried \/ StampFatal

Next ==
    \/ Start \/ StartFails \/ Shutdown \/ MainStep \/ Timeout \/ Tick
    \/ \E r \in Relays : Goroutine(r) \/ Rested(r)

Spec == Init /\ [][Next]_vars

(* The main loop runs on and the timer of a batch fires. Relays owe the    *)
(* crawler nothing.                                                        *)
FairSpec == Spec /\ WF_vars(MainStep) /\ WF_vars(Timeout)

-----------------------------------------------------------------------------
GraphTypes ==
    /\ stored \subseteq Keys /\ uncrawled \subseteq stored /\ attempted \subseteq stored
    /\ version \in [Keys -> Nat] /\ follows \in [Keys -> SUBSET Keys]
    /\ followerCount \in [Keys -> Nat] /\ missCount \in [Keys -> Nat]
    /\ nextAttempt \in [Keys -> {Never} \cup 0..(MaxTime + Max({Cadence, MaxBackoff}))]
    /\ now \in 0..MaxTime

PoolTypes ==
    /\ ejected \subseteq Relays
    /\ link \in [Relays -> {"up", "down", "resting"}]
    /\ fails \in [Relays -> [Class -> Nat]]
    /\ \A r \in Relays, c \in Class : fails[r][c] <= Max({1, Threshold[c] - 1})

LoopTypes ==
    /\ phase \in {"off", "select", "fetch", "drain", "mark"}
    /\ task \in [Relays -> {"idle", "running", "done"}]
    /\ leftover \subseteq Relays /\ stamped \subseteq Relays
    /\ context \in {"open", "cancelled", "late"} /\ late \in BOOLEAN
    /\ faults \in 0..MaxFaults

BatchTypes ==
    /\ DOMAIN batch \subseteq Keys /\ \A k \in DOMAIN batch : batch[k] \in Nat
    /\ buffered \subseteq Events /\ processed \subseteq Events
    /\ errors \subseteq Relays \X Class
    /\ hits \subseteq Keys /\ skip \subseteq Keys /\ marking \subseteq DOMAIN batch
    /\ sample \in [empty : BOOLEAN, age : 0..SampleEvery]

TypeOK == GraphTypes /\ PoolTypes /\ LoopTypes /\ BatchTypes

(* The graph is what the contact lists say (AddFollowers): a node with a   *)
(* version follows exactly whom an event of that author and that time      *)
(* names, its edges end at nodes, and every follower count is the number   *)
(* of nodes that follow, however updates, failures, lost answers, repairs  *)
(* of malformed nodes and crashes are ordered.                             *)
ListMatchesVersion ==
    \A k \in stored :
        \/ version[k] = 0 /\ follows[k] = {}
        \/ \E e \in Events : /\ Author[e] = k /\ CreatedAt[e] = version[k]
                             /\ Follows[e] = follows[k]

CountsExact ==
    \A k \in stored : followerCount[k] = Cardinality({j \in stored : k \in follows[j]})

GraphConsistent ==
    /\ ListMatchesVersion
    /\ CountsExact
    /\ \A k \in Keys : follows[k] \subseteq stored

(* No node is lost to the selection (dgraph.go: "uncrawled = 1 <=> never   *)
(* attempted"): a node is in the frontier exactly until its first attempt, *)
(* and from then on it has a date, unless an older crawler left it without *)
(* one and the backfill failed.                                            *)
NoneForgotten ==
    \A k \in stored :
        /\ k \in uncrawled <=> k \notin attempted
        /\ k \in attempted /\ nextAttempt[k] = Never =>
              (phase = "off" \/ faults > 0) /\ \E l \in Legacy : k \in {l, Lower[l]}

(* Once a fetch has returned, a relay that stayed up has no goroutine of   *)
(* that batch running: its connection was closed if it was outstanding, on *)
(* a timeout and at a quorum alike, so queries that hang do not pile up.   *)
NoneStuckOnOpenConnection ==
    phase \in {"mark", "select"} => \A r \in Up : task[r] # "running"

(* A stored contact list is never replaced by an older one, whatever       *)
(* versions the relays return and in whatever order.                       *)
NewestWins ==
    [][\A k \in Valid : version'[k] >= version[k]]_vars

(* Every node of the frontier is attempted, if the process stays up: relays*)
(* that never answer, failures and newly found nodes do not hold it back.  *)
FrontierDrains ==
    \A k \in Valid : k \in uncrawled /\ phase # "off" ~> k \notin uncrawled \/ phase = "off"
=============================================================================
