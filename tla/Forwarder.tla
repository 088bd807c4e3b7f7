------------------------------ MODULE Forwarder ------------------------------
(***************************************************************************)
(* The event forwarder (event-forwarder/): one process that copies the     *)
(* events of a source relay to the DeepFry relay.  It walks through time   *)
(* in windows while it is behind (windowedStrategy), switches to a live    *)
(* subscription once the window reaches the present (realtimeStrategy),    *)
(* and stores its progress as a replaceable event on DeepFry (SyncTracker) *)
(* so that a restarted process resumes where the last one stopped.         *)
(*                                                                         *)
(* Time is counted in whole seconds, as created_at and the stored window   *)
(* are; `now' is the second the wall clock is in, so that the code's       *)
(* comparisons with time.Now() become comparisons of seconds.              *)
(***************************************************************************)
EXTENDS Integers, FiniteSets

CONSTANTS
    Events,           \* the events the source relay will receive
    None,             \* a nil pointer: no window, no start time, not arrived
    WindowSeconds,    \* SYNC_WINDOW_SECONDS
    MaxCatchupLag,    \* SYNC_MAX_CATCHUP_LAG_SECONDS
    Tolerance,        \* RealtimeToleranceSeconds
    MaxBatch,         \* SYNC_MAX_BATCH, the limit of both filters
    EventsPerUpdate,  \* EventsPerWindowUpdate
    StartTimes,       \* the values of SYNC_START_TIME a start may be given
    MaxDelay,         \* how long after its created_at an event may arrive
    MaxTime,          \* bound: the clock stops here
    MaxFaults,        \* bound: connection drops and refused publishes
    MaxCrashes        \* bound: signals and kills

ASSUME ForwarderConstants ==
    /\ None \notin Int
    /\ WindowSeconds \in Nat \ {0}
    /\ MaxCatchupLag \in Nat
    /\ Tolerance \in Nat
    /\ MaxBatch \in Nat
    /\ EventsPerUpdate \in Nat \ {0}
    /\ StartTimes \subseteq Int \cup {None}
    /\ MaxDelay \in Nat
    /\ MaxTime \in Nat
    /\ MaxFaults \in Nat
    /\ MaxCrashes \in Nat

ASSUME EventsFinite == IsFiniteSet(Events)

VARIABLES
    now,          \* the current second
    created,      \* created_at of each event the source relay has received
    startTime,    \* cfg.Sync.StartTime of this process
    pc,           \* where the forwarder's goroutine is
    window,       \* currentWindow
    inbox,        \* events the source delivered and the loop has not taken
    sinceUpdate,  \* eventsSinceUpdate
    srcUp,        \* the sourceRelay handle is connected
    dfUp,         \* the deepfryRelay handle is connected
    trackerUp,    \* the handle kept by the SyncTracker is connected
    deepfry,      \* events DeepFry has stored
    saved,        \* the window of the kind 30078 event on DeepFry
    faults,       \* connection drops and refused publishes so far
    crashes,      \* signals and kills so far
    synced        \* history: the seconds that windows synced and saved cover

process == <<startTime, pc, window, inbox, sinceUpdate, srcUp, dfUp, trackerUp>>
relays  == <<created, deepfry, saved, synced>>
vars    == <<now, process, relays, faults, crashes>>

Window == [from : Int, to : Int]

\* "loop" is the head of windowedStrategy.Run's for, "stream" the range over
\* eventCh, "subscribe" the head of realtimeStrategy.Run, "live" its select.
\* "stopped" is a process whose Start returned an error, "down" no process.
PCs == {"boot", "getWindow", "loop", "stream", "subscribe", "live", "stopped", "down"}
Running == PCs \ {"boot", "stopped", "down"}

Arrived == {e \in Events : created[e] # None}

HandlesOK == srcUp \in BOOLEAN /\ dfUp \in BOOLEAN /\ trackerUp \in BOOLEAN

DataOK ==
    /\ now \in Nat
    /\ created \in [Events -> Int \cup {None}]
    /\ startTime \in StartTimes
    /\ pc \in PCs
    /\ window \in Window \cup {None}
    /\ pc \in {"loop", "stream"} => window \in Window
    /\ inbox \subseteq Arrived
    /\ sinceUpdate \in 0 .. EventsPerUpdate - 1
    /\ deepfry \subseteq Arrived
    /\ saved \in Window \cup {None}
    /\ faults \in Nat
    /\ crashes \in Nat
    /\ synced \subseteq Int

TypeOK == HandlesOK /\ DataOK

-----------------------------------------------------------------------------
(* Windows                                                                 *)

NewWindowFromStart(t) == [from |-> t, to |-> t + WindowSeconds]

NewWindow == NewWindowFromStart(now - (now % WindowSeconds))

\* Faulty variant: the next window starts a second after the last one.
NextWindowSkipsSecond(w) == NewWindowFromStart(w.to + 1)

NextWindow(w) == NewWindowFromStart(w.to)

ShouldSwitchToRealtime(w) == w.to > now - Tolerance

BeyondLag(w) == now >= w.to + MaxCatchupLag

-----------------------------------------------------------------------------
(* The relays: what a filter returns, what a fault costs                   *)

\* A relay answers a filter with a limit by the newest matching events.
Newest(S) ==
    {B \in SUBSET S : /\ Cardinality(B) <= MaxBatch
                      /\ B # S => Cardinality(B) = MaxBatch
                      /\ \A x \in B, y \in S \ B : created[x] >= created[y]}

\* Faulty variant: Since is exclusive.
MatchingAfterSince(w) == {e \in Arrived : w.from < created[e] /\ created[e] <= w.to}

\* Since and Until are both inclusive.
Matching(w) == {e \in Arrived : w.from <= created[e] /\ created[e] <= w.to}

Fault == faults < MaxFaults /\ faults' = faults + 1

Forwarded(e) ==
    /\ dfUp
    /\ deepfry' = deepfry \cup {e}
    /\ UNCHANGED faults

\* A publish fails on a dead connection, or the relay refuses it, or the
\* answer is lost and the relay has the event all the same.
NotForwarded(e) ==
    \/ ~dfUp /\ UNCHANGED <<deepfry, faults>>
    \/ dfUp /\ Fault /\ deepfry' \in {deepfry, deepfry \cup {e}}

\* The window is stored on DeepFry, as the one sync event of this source.
Update(w) ==
    /\ trackerUp
    /\ saved' = w
    /\ UNCHANGED faults

\* The publish of the sync event fails on a dead connection, or is refused,
\* or only its answer is lost.
UpdateFails(w) ==
    \/ ~trackerUp /\ UNCHANGED <<saved, faults>>
    \/ trackerUp /\ Fault /\ saved' \in {saved, w}

-----------------------------------------------------------------------------
(* Starting                                                                *)

\* connectRelays and NewSyncTracker; attemptConnect panics after its third
\* failure and takes the process down.
Boot ==
    /\ pc = "boot"
    /\ \/ /\ pc' = "getWindow"
          /\ srcUp' = TRUE /\ dfUp' = TRUE /\ trackerUp' = TRUE
          /\ UNCHANGED faults
       \/ /\ Fault
          /\ pc' = "down"
          /\ UNCHANGED <<srcUp, dfUp, trackerUp>>
    /\ UNCHANGED <<now, relays, crashes, startTime, window, inbox, sinceUpdate>>

\* What follows the last stored window, or the window of the present.
ResumeWindow == IF saved = None THEN NewWindow ELSE NextWindow(saved)

\* winMgr.GetOrCreate, on start and on the fallback from realtime mode.
GetOrCreateWindow ==
    /\ pc = "getWindow"
    /\ startTime # None \/ trackerUp
    /\ window' = IF startTime # None THEN NewWindowFromStart(startTime)
                 ELSE ResumeWindow
    /\ pc' = "loop"
    /\ UNCHANGED <<now, relays, faults, crashes, startTime, inbox, sinceUpdate,
                   srcUp, dfUp, trackerUp>>

\* GetLastWindow fails: Start returns the error, its deferred closeRelays
\* runs, and main keeps the process up with nothing left to do.
GetWindowFails ==
    /\ pc = "getWindow"
    /\ startTime = None /\ ~trackerUp
    /\ pc' = "stopped"
    /\ srcUp' = FALSE /\ dfUp' = FALSE
    /\ UNCHANGED <<now, relays, faults, crashes, startTime, window, inbox,
                   sinceUpdate, trackerUp>>

-----------------------------------------------------------------------------
(* Windowed mode                                                           *)

\* Faulty variant: Run returns after the switch and starts no realtime loop.
SwitchToNothing ==
    /\ pc = "loop"
    /\ ShouldSwitchToRealtime(window)
    /\ pc' = "stopped"
    /\ sinceUpdate' = 0
    /\ UNCHANGED <<now, relays, faults, crashes, startTime, window, inbox,
                   srcUp, dfUp, trackerUp>>

SwitchToRealtime ==
    /\ pc = "loop"
    /\ ShouldSwitchToRealtime(window)
    /\ pc' = "subscribe"
    /\ sinceUpdate' = 0
    /\ UNCHANGED <<now, relays, faults, crashes, startTime, window, inbox,
                   srcUp, dfUp, trackerUp>>

\* syncWindow up to the query.  With the source down the query fails, the
\* loop sleeps a second and tries again, and nothing changes.
QueryWindow ==
    /\ pc = "loop"
    /\ ~ShouldSwitchToRealtime(window)
    /\ BeyondLag(window)
    /\ srcUp
    /\ inbox' \in Newest(Matching(window))
    /\ pc' = "stream"
    /\ UNCHANGED <<now, relays, faults, crashes, startTime, window, sinceUpdate,
                   srcUp, dfUp, trackerUp>>

\* The range over eventCh: the loop goes on whether the publish worked or not.
ForwardNext ==
    /\ pc = "stream"
    /\ \E e \in inbox :
          /\ inbox' = inbox \ {e}
          /\ Forwarded(e) \/ NotForwarded(e)
    /\ UNCHANGED <<now, created, saved, synced, crashes, startTime, pc, window,
                   sinceUpdate, srcUp, dfUp, trackerUp>>

\* eventCh is closed: winMgr.Update stores the window, and Run advances.
SaveWindow ==
    /\ pc = "stream" /\ inbox = {}
    /\ Update(window)
    /\ synced' = synced \cup window.from .. window.to - 1
    /\ window' = NextWindow(window)
    /\ pc' = "loop"
    /\ UNCHANGED <<now, created, deepfry, crashes, startTime, inbox,
                   sinceUpdate, srcUp, dfUp, trackerUp>>

\* winMgr.Update fails (or its answer is lost): forceReconnect replaces both
\* relay handles, or panics; the SyncTracker keeps the handle just closed.
SaveWindowFails ==
    /\ pc = "stream" /\ inbox = {}
    /\ UpdateFails(window)
    /\ trackerUp' = FALSE
    /\ \/ pc' = "loop" /\ srcUp' = TRUE /\ dfUp' = TRUE
       \/ pc' = "down" /\ srcUp' = FALSE /\ dfUp' = FALSE
    /\ UNCHANGED <<now, created, deepfry, synced, crashes, startTime, window,
                   inbox, sinceUpdate>>

-----------------------------------------------------------------------------
(* Realtime mode                                                           *)

\* Faulty variant: the live filter asks only for events dated from now on.
BacklogSinceNow == {e \in Arrived : created[e] >= now}

\* What the live filter matches among the stored events: it has no since.
Backlog == Arrived

\* The filter has a limit and no since: the relay first sends its newest
\* stored events, then every event it receives.
Subscribe ==
    /\ pc = "subscribe"
    /\ srcUp
    /\ inbox' \in Newest(Backlog)
    /\ pc' = "live"
    /\ UNCHANGED <<now, relays, faults, crashes, startTime, window, sinceUpdate,
                   srcUp, dfUp, trackerUp>>

\* switchToWindowedMode and fallbackToWindowedMode.
SubscribeFails ==
    /\ pc = "subscribe"
    /\ ~srcUp
    /\ pc' = "getWindow"
    /\ sinceUpdate' = 0
    /\ UNCHANGED <<now, relays, faults, crashes, startTime, window, inbox,
                   srcUp, dfUp, trackerUp>>

RealtimeWindow == [from |-> now - WindowSeconds, to |-> now]

\* updateRealtimeWindow: a failure is logged and the old window stays.  A
\* lost answer leaves the new one on DeepFry and the old one in memory.
UpdateRealtimeWindow ==
    \/ Update(RealtimeWindow) /\ window' = RealtimeWindow
    \/ UpdateFails(RealtimeWindow) /\ UNCHANGED window

UpdateDue == sinceUpdate + 1 >= EventsPerUpdate

\* One event of sub.Events that is forwarded and counted.
LiveForward ==
    /\ pc = "live"
    /\ dfUp
    /\ \E e \in inbox :
          /\ inbox' = inbox \ {e}
          /\ deepfry' = deepfry \cup {e}
    /\ IF UpdateDue
       THEN sinceUpdate' = 0 /\ UpdateRealtimeWindow
       ELSE sinceUpdate' = sinceUpdate + 1 /\ UNCHANGED <<saved, window, faults>>
    /\ UNCHANGED <<now, created, synced, crashes, startTime, pc, srcUp, dfUp,
                   trackerUp>>

\* One event of sub.Events whose publish fails: it is dropped.
LiveForwardFails ==
    /\ pc = "live"
    /\ \E e \in inbox : inbox' = inbox \ {e} /\ NotForwarded(e)
    /\ UNCHANGED <<now, created, saved, synced, crashes, startTime, pc, window,
                   sinceUpdate, srcUp, dfUp, trackerUp>>

\* The subscription ends with the connection.  connectRelays finds both
\* handles set and returns at once, and realtimeLoop subscribes again.
LiveClosed ==
    /\ pc = "live"
    /\ ~srcUp
    /\ inbox' = {}
    /\ pc' = "subscribe"
    /\ UNCHANGED <<now, relays, faults, crashes, startTime, window, sinceUpdate,
                   srcUp, dfUp, trackerUp>>

-----------------------------------------------------------------------------
(* The environment                                                         *)

Tick ==
    /\ now < MaxTime
    /\ now' = now + 1
    /\ UNCHANGED <<process, relays, faults, crashes>>

\* The source relay receives an event, up to MaxDelay seconds after the
\* author dated it; a live subscription delivers it.
NewEvent ==
    /\ \E e \in Events \ Arrived, t \in now - MaxDelay .. now :
          /\ created' = [created EXCEPT ![e] = t]
          /\ inbox' = IF pc = "live" /\ srcUp THEN inbox \cup {e} ELSE inbox
    /\ UNCHANGED <<now, startTime, pc, window, sinceUpdate, srcUp, dfUp, trackerUp,
                   deepfry, saved, synced, faults, crashes>>

\* The connection to the source is lost, and with it an arbitrary part of
\* what it had still to deliver.
DropSource ==
    /\ pc \in Running /\ srcUp
    /\ Fault
    /\ srcUp' = FALSE
    /\ inbox' \in SUBSET inbox
    /\ UNCHANGED <<now, relays, crashes, startTime, pc, window, sinceUpdate,
                   dfUp, trackerUp>>

\* The connection to DeepFry is lost; the SyncTracker shares the handle
\* until forceReconnect has left it with an older one.
DropDeepfry ==
    /\ pc \in Running /\ dfUp
    /\ Fault
    /\ dfUp' = FALSE /\ trackerUp' = FALSE
    /\ UNCHANGED <<now, relays, crashes, startTime, pc, window, inbox, sinceUpdate,
                   srcUp>>

\* The source ends the subscription (CLOSED) and keeps the connection.
SubscriptionClosed ==
    /\ pc = "live"
    /\ Fault
    /\ inbox' = {}
    /\ pc' = "subscribe"
    /\ UNCHANGED <<now, relays, crashes, startTime, window, sinceUpdate, srcUp,
                   dfUp, trackerUp>>

\* SIGINT, SIGTERM or a kill, at any point.
Crash ==
    /\ pc # "down"
    /\ crashes < MaxCrashes
    /\ crashes' = crashes + 1
    /\ pc' = "down"
    /\ UNCHANGED <<now, relays, faults, startTime, window, inbox, sinceUpdate,
                   srcUp, dfUp, trackerUp>>

\* A new process, with nothing of the old one but what DeepFry stores.
Restart ==
    /\ pc = "down"
    /\ pc' = "boot"
    /\ startTime' \in StartTimes
    /\ window' = None /\ inbox' = {} /\ sinceUpdate' = 0
    /\ srcUp' = FALSE /\ dfUp' = FALSE /\ trackerUp' = FALSE
    /\ UNCHANGED <<now, relays, faults, crashes>>

-----------------------------------------------------------------------------
Init ==
    /\ now = 0
    /\ created = [e \in Events |-> None]
    /\ startTime \in StartTimes
    /\ pc = "boot"
    /\ window = None /\ inbox = {} /\ sinceUpdate = 0
    /\ srcUp = FALSE /\ dfUp = FALSE /\ trackerUp = FALSE
    /\ deepfry = {} /\ saved = None /\ synced = {}
    /\ faults = 0 /\ crashes = 0

\* The steps of the forwarder's own goroutine.
ForwarderStep ==
    \/ Boot \/ GetOrCreateWindow \/ GetWindowFails
    \/ SwitchToRealtime \/ QueryWindow \/ ForwardNext
    \/ SaveWindow \/ SaveWindowFails
    \/ Subscribe \/ SubscribeFails
    \/ LiveForward \/ LiveForwardFails \/ LiveClosed

Environment ==
    \/ Tick \/ NewEvent
    \/ DropSource \/ DropDeepfry \/ SubscriptionClosed
    \/ Crash \/ Restart

Next == ForwarderStep \/ Environment

Spec == Init /\ [][Next]_vars

\* The goroutine is never blocked for ever while it has a step to take, the
\* clock runs, and docker restarts the container (restart: unless-stopped).
Fairness == WF_vars(ForwarderStep) /\ WF_vars(Tick) /\ WF_vars(Restart)

FairSpec == Spec /\ Fairness

-----------------------------------------------------------------------------
(* Properties                                                              *)

\* The limits under which nothing may be lost: a batch holds every event, and
\* an event arrives before the lag of its window has run out.
WithinLimits == Cardinality(Events) <= MaxBatch /\ MaxDelay <= MaxCatchupLag

\* 100% coverage in windowed mode (syncWindow, winMgr.Update): while no
\* connection dropped and no publish was refused, every event dated in a
\* second of a synced and stored window is on DeepFry, however late it arrived
\* within the lag and wherever processes were killed in between.
WindowedCoverage ==
    WithinLimits /\ faults = 0 =>
        \A e \in Arrived : created[e] \in synced => e \in deepfry

\* 100% coverage in realtime mode (realtimeStrategy.Run): while no connection
\* dropped and no publish was refused, a live subscription has every event of
\* the source on DeepFry or on its way, the ones that arrived before it or
\* between two windows included.
RealtimeCoverage ==
    WithinLimits /\ faults = 0 /\ pc = "live" => Arrived \subseteq deepfry \cup inbox

\* The process at the head of its loop resumes exactly where the stored window
\* ends, or repeats the stored window when the answer to its update was lost.
Resumes == pc = "loop" /\ saved # None => window.from = saved.to \/ window = saved

\* Without a configured start time (window.go, GetOrCreate) the process
\* resumes from the stored window after any drop, kill or mode change.
ResumesFromSaved == startTime = None => Resumes

\* Without a configured start time the end of the stored window never moves
\* back, across both modes, reconnects and restarts.
SavedMonotone ==
    [][startTime = None /\ saved # None => saved'.to >= saved.to]_vars

\* While no connection drops and no publish is refused, every event the source
\* receives reaches DeepFry, through any number of windows and restarts.
EventuallyForwarded ==
    WithinLimits /\ [](faults = 0) =>
        \A e \in Events : (e \in Arrived) ~> (e \in deepfry)

\* What makes the two resume properties inductive: no stored window reaches
\* into the future, a window being streamed is beyond its lag, a window of the
\* loop has the configured length.
ResumeInv ==
    /\ saved # None => saved.to <= now
    /\ pc = "stream" => BeyondLag(window)
    /\ pc \in {"loop", "stream"} => window.to = window.from + WindowSeconds
    /\ pc \in {"loop", "stream"} /\ startTime = None /\ saved # None =>
           window.from = saved.to \/ window = saved

\* What makes the coverage properties inductive: no event can arrive any more
\* that is dated in a synced second, and what a window matches is on DeepFry
\* or still in the stream.
CoverageInv ==
    /\ \A t \in synced : t + MaxDelay < now
    /\ faults = 0 =>
         /\ pc = "stream" =>
              \A e \in Arrived :
                 created[e] \in window.from .. window.to - 1 => e \in deepfry \cup inbox
         /\ pc \in Running => srcUp /\ dfUp
         /\ pc = "live" => Arrived \subseteq deepfry \cup inbox
         /\ \A e \in Arrived : created[e] \in synced => e \in deepfry

=============================================================================
