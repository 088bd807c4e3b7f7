-------------------------------- MODULE Router --------------------------------
(***************************************************************************)
(* The router write-policy plugin (whitelist-plugin/cmd/router): the event *)
(* loop, the whitelist client with its TTL cache, the routing decision and *)
(* the publisher that sends rejected events to the quarantine relay from a *)
(* bounded queue in a goroutine of its own.                                *)
(*                                                                         *)
(* The whitelist server is its environment: it answers from a whitelist    *)
(* that changes at any time. Time is counted in units of the cache TTL.    *)
(***************************************************************************)
EXTENDS Integers, Sequences, FiniteSets, SequencesExt

CONSTANTS
    Input,      \* the events strfry writes to stdin, in order
    Authors,    \* pubkeys
    Author,     \* the author of each event
    Malformed,  \* events without id, pubkey or parseable payload
    Keep,       \* events the heuristics let through, none if quarantine is disabled
    TTL,        \* DefaultCacheTTL
    Timeout,    \* CheckTimeout of the HTTP client
    CacheSize,  \* DefaultCacheSize
    BufferSize, \* capacity of the publisher's queue
    None,       \* nothing
    MaxTime,    \* bound: the clock
    MaxFaults,  \* bound: failed requests, connects, publishes, lost connections
    MaxChanges  \* bound: changes of the whitelist

Elements(s) == {s[i] : i \in 1 .. Len(s)}
Events == Elements(Input)
Verdicts == {"accept", "not_in_wot", "check_failed", "malformed"}

ASSUME RouterConstants ==
    /\ Len(Input) \in Nat
    /\ \A i, j \in 1 .. Len(Input) : i # j => Input[i] # Input[j]
    /\ Author \in [Events -> Authors]
    /\ Malformed \subseteq Events /\ Keep \subseteq Events
    /\ TTL \in Nat /\ Timeout \in Nat
    /\ CacheSize \in Nat \ {0} /\ BufferSize \in Nat \ {0}
    /\ None \notin Events /\ None \notin BOOLEAN /\ None \notin Verdicts
    /\ MaxTime \in Nat /\ MaxFaults \in Nat /\ MaxChanges \in Nat

VARIABLES
    now,          \* the clock
    listed,       \* authors the whitelist server answers true for
    lastListed,   \* history: when each author was last on the whitelist
    lastUnlisted, \* history: when each author was last off the whitelist
    changes, faults,
    \* the event loop and the whitelist client
    loop,         \* what the event loop does
    cur,          \* the event being handled
    askedAt,      \* when the request was sent
    reply,        \* the server's answer on its way, None before
    cache,        \* ttlCache, most recently used entry first
    decided,      \* the answer to each event
    stopping,     \* ctx is done
    \* the publisher
    drain,        \* what runDrain does
    conn,         \* its relay handle
    queue,        \* the queue channel
    inflight,     \* the event being published
    published,    \* counter
    publishErrors,\* counter
    enqueued,     \* history: the events Enqueue took, in order
    dropped,      \* history: the events Enqueue refused
    quarantine    \* the events the quarantine relay stored, in order

time      == <<now, lastListed, lastUnlisted>>
server    == <<listed, changes>>
client    == <<cur, askedAt, reply, cache>>
counters  == <<published, publishErrors>>
publisher == <<drain, conn, inflight, counters, quarantine>>
enqueuing == <<queue, enqueued, dropped>>
vars == <<time, server, faults, loop, client, decided, stopping, publisher, enqueuing>>

Entry == [key : Authors, value : BOOLEAN, expires : Nat]

ServerTypes ==
    /\ now \in 0 .. MaxTime /\ changes \in 0 .. MaxChanges /\ faults \in 0 .. MaxFaults
    /\ listed \subseteq Authors
    /\ lastListed \in [Authors -> Int] /\ lastUnlisted \in [Authors -> Int]

LoopTypes ==
    /\ loop \in {"read", "check", "ask", "stopped", "exited"}
    /\ cur \in Events \cup {None}
    /\ askedAt \in 0 .. MaxTime
    /\ reply \in BOOLEAN \cup {None}
    /\ decided \in [Events -> Verdicts \cup {None}]
    /\ stopping \in BOOLEAN

CacheTypes == cache \in Seq(Entry) /\ Len(cache) <= CacheSize

PublisherTypes ==
    /\ drain \in {"top", "select", "publish", "ended"}
    /\ conn \in {"nil", "up", "lost"}
    /\ queue \in Seq(Events) /\ Len(queue) <= BufferSize
    /\ inflight \in Events \cup {None}
    /\ published \in Nat /\ publishErrors \in Nat
    /\ enqueued \in Seq(Events) /\ quarantine \in Seq(Events)
    /\ dropped \subseteq Events

\* Types; neither the cache nor the queue grows beyond its capacity.
TypeOK == ServerTypes /\ LoopTypes /\ CacheTypes /\ PublisherTypes

Fault == faults < MaxFaults /\ faults' = faults + 1

-----------------------------------------------------------------------------
(* ttlCache                                                                *)

Lookup(k) == {i \in 1 .. Len(cache) : cache[i].key = k}

\* The list without the element that items has for the key.
Without(k) ==
    IF Lookup(k) = {} THEN cache ELSE RemoveAt(cache, CHOOSE i \in Lookup(k) : TRUE)

\* Faulty variant: entries do not expire.
NeverExpires(x) == FALSE

Expired(x) == now > x.expires

\* Set evicts the least recently used entry of a full cache.
Evict(c) == IF Len(c) >= CacheSize THEN Front(c) ELSE c

CacheSet(k, v) ==
    <<[key |-> k, value |-> v, expires |-> now + TTL]>>
       \o (IF Lookup(k) # {} THEN Without(k) ELSE Evict(cache))

-----------------------------------------------------------------------------
(* The event loop and RouterHandler.Handle                                 *)

Finish(v) ==
    /\ decided' = [decided EXCEPT ![cur] = v]
    /\ loop' = "read" /\ cur' = None /\ reply' = None /\ askedAt' = 0

ReadLine ==
    /\ loop = "read"
    /\ \E i \in 1 .. Len(Input) :
          /\ \A j \in 1 .. Len(Input) : decided[Input[j]] # None <=> j < i
          /\ IF Input[i] \in Malformed
             THEN decided' = [decided EXCEPT ![Input[i]] = "malformed"] /\ UNCHANGED <<loop, cur>>
             ELSE loop' = "check" /\ cur' = Input[i] /\ UNCHANGED decided
    /\ UNCHANGED <<time, server, faults, askedAt, reply, cache, stopping, publisher, enqueuing>>

\* Enqueue never blocks.
Enqueue(e) ==
    IF Len(queue) < BufferSize
    THEN queue' = Append(queue, e) /\ enqueued' = Append(enqueued, e) /\ UNCHANGED dropped
    ELSE dropped' = dropped \cup {e} /\ UNCHANGED <<queue, enqueued>>

\* The decision of Handle for an author who is or is not whitelisted.
Route(ok) ==
    /\ Finish(IF ok THEN "accept" ELSE "not_in_wot")
    /\ IF ~ok /\ cur \in Keep THEN Enqueue(cur) ELSE UNCHANGED enqueuing

CacheHit ==
    /\ loop = "check"
    /\ \E i \in Lookup(Author[cur]) :
          /\ ~Expired(cache[i])
          /\ cache' = <<cache[i]>> \o Without(Author[cur])
          /\ Route(cache[i].value)
    /\ UNCHANGED <<time, server, faults, stopping, publisher>>

\* Get removes an expired entry; the request is sent.
CacheMiss ==
    /\ loop = "check"
    /\ \A i \in Lookup(Author[cur]) : Expired(cache[i])
    /\ cache' = Without(Author[cur])
    /\ loop' = "ask" /\ askedAt' = now
    /\ UNCHANGED <<time, server, faults, cur, reply, decided, stopping, publisher, enqueuing>>

\* The server answers the request.
ServerAnswers ==
    /\ loop = "ask" /\ reply = None
    /\ reply' = (Author[cur] \in listed)
    /\ UNCHANGED <<time, server, faults, loop, cur, askedAt, cache, decided, stopping,
                   publisher, enqueuing>>

Receive ==
    /\ loop = "ask" /\ reply # None
    /\ cache' = CacheSet(Author[cur], reply)
    /\ Route(reply)
    /\ UNCHANGED <<time, server, faults, stopping, publisher>>

\* Unreachable, refused, undecodable, or not answered in time: not cached.
CheckFails ==
    /\ loop = "ask"
    /\ Fault
    /\ Finish("check_failed")
    /\ UNCHANGED <<time, server, cache, stopping, publisher, enqueuing>>

-----------------------------------------------------------------------------
(* Publisher.runDrain                                                      *)

Running == loop # "exited"

\* The context is cancelled, or Stop has closed the done channel.
Stopped == stopping \/ loop \in {"stopped", "exited"}

Connected ==
    /\ drain = "top" /\ ~Stopped
    /\ drain' = "select"
    /\ conn' = "up"
    /\ UNCHANGED <<time, server, faults, loop, client, decided, stopping, inflight, counters,
                   quarantine, enqueuing>>

\* The dial fails and the goroutine sleeps before it tries again.
ConnectFails ==
    /\ drain = "top" /\ ~Stopped /\ conn # "up"
    /\ Fault
    /\ UNCHANGED <<time, server, loop, client, decided, stopping, publisher, enqueuing>>

Take ==
    /\ drain = "select" /\ Running /\ queue # <<>>
    /\ inflight' = Head(queue) /\ queue' = Tail(queue)
    /\ drain' = "publish"
    /\ UNCHANGED <<time, server, faults, loop, client, decided, stopping, conn, counters,
                   quarantine, enqueued, dropped>>

PublishOne ==
    /\ drain = "publish" /\ Running /\ conn = "up"
    /\ quarantine' = Append(quarantine, inflight)
    /\ published' = published + 1
    /\ inflight' = None /\ drain' = "top"
    /\ UNCHANGED <<time, server, faults, loop, client, decided, stopping, conn, publishErrors,
                   enqueuing>>

\* How relay.Publish can fail: on a lost connection, and on a live one when the
\* context is cancelled, the answer does not come in time or is a refusal. In
\* the latter cases the relay may have stored the event all the same.
PublishError ==
    \/ conn = "lost" /\ UNCHANGED <<faults, quarantine>>
    \/ /\ conn = "up"
       /\ (stopping /\ UNCHANGED faults) \/ Fault
       /\ quarantine' \in {quarantine, Append(quarantine, inflight)}

\* Faulty variant: the event goes back to the end of the queue, if there is room.
PublishFailsAndRequeues ==
    /\ drain = "publish" /\ Running
    /\ PublishError
    /\ IF Len(queue) < BufferSize
       THEN queue' = Append(queue, inflight) /\ UNCHANGED publishErrors
       ELSE publishErrors' = publishErrors + 1 /\ UNCHANGED queue
    /\ inflight' = None /\ drain' = "top" /\ conn' = "nil"
    /\ UNCHANGED <<time, server, loop, client, decided, stopping, published, enqueued, dropped>>

\* Faulty variant: the goroutine returns on a publish error.
PublishFailsForGood ==
    /\ drain = "publish" /\ Running
    /\ PublishError
    /\ publishErrors' = publishErrors + 1
    /\ inflight' = None /\ drain' = "ended" /\ conn' = "nil"
    /\ UNCHANGED <<time, server, loop, client, decided, stopping, published, enqueuing>>

\* The event is given up, and the next iteration reconnects.
PublishFails ==
    /\ drain = "publish" /\ Running
    /\ PublishError
    /\ publishErrors' = publishErrors + 1
    /\ inflight' = None /\ drain' = "top" /\ conn' = "nil"
    /\ UNCHANGED <<time, server, loop, client, decided, stopping, published, enqueuing>>

\* The goroutine sees the cancelled context or the closed done channel.
DrainEnds ==
    /\ drain \in {"top", "select"} /\ Running /\ Stopped
    /\ drain' = "ended" /\ conn' = "nil"
    /\ UNCHANGED <<time, server, faults, loop, client, decided, stopping, inflight, counters,
                   quarantine, enqueuing>>

-----------------------------------------------------------------------------
(* The environment, shutdown and the clock                                 *)

ConnectionLost ==
    /\ conn = "up" /\ Running
    /\ Fault
    /\ conn' = "lost"
    /\ UNCHANGED <<time, server, loop, client, decided, stopping, drain, inflight, counters,
                   quarantine, enqueuing>>

\* The server's whitelist is refreshed.
ListChanges ==
    /\ changes < MaxChanges /\ changes' = changes + 1
    /\ listed' \in (SUBSET Authors) \ {listed}
    /\ lastListed' = [k \in Authors |-> IF k \in listed \cup listed' THEN now ELSE lastListed[k]]
    /\ lastUnlisted' = [k \in Authors |->
                          IF k \notin listed \cap listed' THEN now ELSE lastUnlisted[k]]
    /\ UNCHANGED <<now, faults, loop, client, decided, stopping, publisher, enqueuing>>

\* A request ends within its timeout.
Tick ==
    /\ now < MaxTime
    /\ loop = "ask" => now - askedAt < Timeout
    /\ now' = now + 1
    /\ lastListed' = [k \in Authors |-> IF k \in listed THEN now + 1 ELSE lastListed[k]]
    /\ lastUnlisted' = [k \in Authors |-> IF k \notin listed THEN now + 1 ELSE lastUnlisted[k]]
    /\ UNCHANGED <<server, faults, loop, client, decided, stopping, publisher, enqueuing>>

\* SIGINT or SIGTERM.
Signal ==
    /\ Running /\ ~stopping /\ stopping' = TRUE
    /\ UNCHANGED <<time, server, faults, loop, client, decided, publisher, enqueuing>>

\* runEventLoop returns between two events, because of the signal or because
\* stdin has ended, and main calls Stop.
LoopEnds ==
    /\ loop = "read"
    /\ loop' = "stopped"
    /\ UNCHANGED <<time, server, faults, client, decided, stopping, publisher, enqueuing>>

\* Stop has slept its two seconds. Without a signal a dial or a publish under its
\* own, longer timeout may still be going on.
Exit ==
    /\ loop = "stopped"
    /\ \/ drain = "ended"
       \/ ~stopping /\ (drain = "publish" \/ (drain = "top" /\ conn # "up"))
    /\ loop' = "exited"
    /\ UNCHANGED <<time, server, faults, client, decided, stopping, publisher, enqueuing>>

Init ==
    /\ now = 0 /\ listed = {}
    /\ lastListed = [k \in Authors |-> 0 - TTL - Timeout - 1]
    /\ lastUnlisted = [k \in Authors |-> 0]
    /\ changes = 0 /\ faults = 0
    /\ loop = "read" /\ cur = None /\ askedAt = 0 /\ reply = None /\ cache = <<>>
    /\ decided = [e \in Events |-> None] /\ stopping = FALSE
    /\ drain = "top" /\ conn = "nil" /\ queue = <<>> /\ inflight = None
    /\ published = 0 /\ publishErrors = 0
    /\ enqueued = <<>> /\ dropped = {} /\ quarantine = <<>>

Handling == CacheHit \/ CacheMiss \/ ServerAnswers \/ Receive \/ CheckFails
Draining == Connected \/ ConnectFails \/ Take \/ PublishOne \/ PublishFails \/ DrainEnds

Next ==
    \/ ReadLine \/ Handling \/ Draining
    \/ ConnectionLost \/ ListChanges \/ Tick
    \/ Signal \/ LoopEnds \/ Exit

Spec == Init /\ [][Next]_vars

\* The event loop's goroutine and the publisher's run, and every request,
\* dial and publish ends under its timeout.
FairSpec == Spec /\ WF_vars(Handling) /\ WF_vars(Draining)

-----------------------------------------------------------------------------
(* Properties                                                              *)

\* A decision is never older than the cache TTL and one request: an accepted
\* author was on the whitelist, and a rejected one off it, at most that long ago
\* (client.go:11, "30s is short enough ...").
DecisionsFresh ==
    [][\A e \in Events : decided[e] = None =>
          /\ decided'[e] = "accept" => now - lastListed[Author[e]] <= TTL + Timeout
          /\ decided'[e] = "not_in_wot" => now - lastUnlisted[Author[e]] <= TTL + Timeout]_vars

\* The relay has the events in the order of the event loop and none twice
\* (quarantine/SPEC.md:244, "keeps ordering").
OrderKept ==
    /\ \A i, j \in 1 .. Len(enqueued) : i # j => enqueued[i] # enqueued[j]
    /\ \E f \in [1 .. Len(quarantine) -> 1 .. Len(enqueued)] :
          /\ \A i \in DOMAIN f : quarantine[i] = enqueued[f[i]]
          /\ \A i, j \in DOMAIN f : i < j => f[i] < f[j]

\* The counters add up: every event Enqueue took is queued, being published or
\* counted once as published or failed, and the queue holds the latest ones in
\* their order. An event was offered to the queue exactly if it was rejected as
\* not in the web of trust and is worth keeping, and the quarantine relay never
\* gets one twice or out of order (Publisher.Enqueue, runDrain, RouterHandler).
CountersAddUp ==
    /\ OrderKept
    /\ Len(enqueued) = published + publishErrors + Len(queue) + (IF inflight = None THEN 0 ELSE 1)
    /\ queue = SubSeq(enqueued, Len(enqueued) - Len(queue) + 1, Len(enqueued))
    /\ {e \in Keep : decided[e] = "not_in_wot"} = Elements(enqueued) \cup dropped

\* Unless the plugin is stopped, an enqueued event is published or counted as
\* failed in the end.
QueueDrains == \A e \in Events : (e \in Elements(queue)) ~> (e \notin Elements(queue) \/ Stopped)

=============================================================================
