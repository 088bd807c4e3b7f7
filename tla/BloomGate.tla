------------------------------ MODULE BloomGate ------------------------------
(***************************************************************************)
(* The bloom write-policy plugin (whitelist-plugin/cmd/bloom) beside the   *)
(* whitelist server: a fetcher that keeps a filter in memory and on disk,  *)
(* and an event loop that withholds its answers until the first filter.    *)
(***************************************************************************)
EXTENDS WhitelistServer

CONSTANTS
    FetchRetries, \* RefreshRetryCount of the plugin
    Torn          \* bytes that are not a whole filter

ASSUME GateConstants ==
    /\ FetchRetries \in Nat
    /\ Torn # Nil /\ Nil \notin Keys
    /\ \A S \in SUBSET Keys : S # Torn

VARIABLES
    gpc,       \* what the fetcher does
    filter,    \* the filter of BloomChecker, Nil before the first Store
    opened,    \* the ready channel is closed
    disk,      \* the file at bloomPath
    body,      \* the response being handled
    gattempt,  \* attempt of FetchOnce
    reading,   \* the event loop has started
    asked,     \* pubkey of the event under check, Nil between events
    waiting,   \* the check found no filter and waits for the ready channel
    verdict,   \* the answer to the last event
    snapshots  \* history: the filters the server ever published

gateVars == <<gpc, filter, opened, disk, body, gattempt, reading, asked, waiting, verdict, snapshots>>
bloomVars == <<serverVars, gateVars>>

Filters == SUBSET Keys

GateTypeOK ==
    /\ gpc \in {"boot", "fetch", "respond", "open", "persist", "wait"}
    /\ filter \in {Nil} \cup Filters
    /\ disk \in {Nil, Torn} \cup Filters
    /\ body \in {Nil, Torn} \cup Filters
    /\ gattempt \in 0 .. FetchRetries
    /\ asked \in Keys \cup {Nil}
    /\ verdict \in {"none", "accept", "reject"}
    /\ snapshots \subseteq Filters

FlagsOK ==
    /\ ready \in BOOLEAN
    /\ opened \in BOOLEAN /\ reading \in BOOLEAN /\ waiting \in BOOLEAN

\* Types, and no fetch is tried more often than configured.
BloomTypeOK == FlagsOK /\ ServerTypeOK /\ GateTypeOK

-----------------------------------------------------------------------------
(* The fetcher                                                             *)

\* ReadFilter checks magic, version, length and payload.
ReadFilter(bytes) == bytes \notin {Nil, Torn}

\* LoadDisk, at the start of the process: both halves of Store in one step, since
\* the event loop has not started.
LoadDisk ==
    /\ gpc = "boot"
    /\ IF ReadFilter(disk) THEN filter' = disk /\ opened' = TRUE ELSE UNCHANGED <<filter, opened>>
    /\ gpc' = "fetch" /\ gattempt' = 0
    /\ UNCHANGED <<serverVars, disk, body, reading, asked, waiting, verdict, snapshots>>

\* FetchOnce returns: the first time Start() returns too and the event loop starts.
FetchReturns == gpc' = "wait" /\ reading' = TRUE

\* The backoff of FetchOnce.
Retry ==
    IF gattempt < FetchRetries
    THEN gpc' = "fetch" /\ gattempt' = gattempt + 1 /\ UNCHANGED reading
    ELSE FetchReturns /\ UNCHANGED gattempt

\* Faulty variant: any filter counts as current.
NeverModified == filter # Nil

\* If-Nil-Match against the ETag of the snapshot.
NotModified == filter = bloom

\* doFetch: the request, and the server's handleBloom.
Fetch ==
    /\ gpc = "fetch"
    /\ \/ bloom = Nil /\ Retry /\ UNCHANGED <<body, failures>>
       \/ bloom # Nil /\ NotModified
          /\ FetchReturns /\ UNCHANGED <<body, gattempt, failures>>
       \/ bloom # Nil /\ ~NotModified
          /\ gpc' = "respond" /\ body' = bloom /\ UNCHANGED <<gattempt, reading, failures>>
       \/ Failure /\ Retry /\ UNCHANGED body
       \/ bloom # Nil /\ ~NotModified /\ Failure
          /\ gpc' = "respond" /\ body' = Torn /\ UNCHANGED <<gattempt, reading>>
    /\ UNCHANGED <<rows, refresher, served, writes, crashes, stable, seen,
                   filter, opened, disk, asked, waiting, verdict, snapshots>>

\* A whole body is stored, the first half of Store; a torn one is dropped and not
\* asked for again.
Respond ==
    /\ gpc = "respond"
    /\ IF ReadFilter(body)
       THEN filter' = body /\ gpc' = "open" /\ UNCHANGED reading
       ELSE FetchReturns /\ UNCHANGED filter
    /\ body' = IF ReadFilter(body) THEN body ELSE Nil
    /\ UNCHANGED <<serverVars, opened, disk, gattempt, asked, waiting, verdict, snapshots>>

\* Faulty variant: nobody opens the gate.
StoreOnly ==
    /\ gpc = "open"
    /\ gpc' = "persist"
    /\ UNCHANGED <<serverVars, filter, opened, disk, body, gattempt, reading, asked, waiting, verdict,
                   snapshots>>

\* The second half of Store: the ready channel is closed, once.
Store ==
    /\ gpc = "open"
    /\ opened' = TRUE
    /\ gpc' = "persist"
    /\ UNCHANGED <<serverVars, filter, disk, body, gattempt, reading, asked, waiting, verdict, snapshots>>

\* Faulty variant: the file is written in place.
PersistInPlace ==
    /\ gpc = "persist"
    /\ \/ disk' = body /\ UNCHANGED failures
       \/ Failure /\ disk' \in {disk, Torn}
    /\ FetchReturns /\ body' = Nil
    /\ UNCHANGED <<rows, refresher, served, writes, crashes, stable, seen,
                   filter, opened, gattempt, asked, waiting, verdict, snapshots>>

\* persist: the temporary file is renamed when it is complete; any error leaves
\* bloomPath alone.
Persist ==
    /\ gpc = "persist"
    /\ \/ disk' = body /\ UNCHANGED failures
       \/ Failure /\ UNCHANGED disk
    /\ FetchReturns /\ body' = Nil
    /\ UNCHANGED <<rows, refresher, served, writes, crashes, stable, seen,
                   filter, opened, gattempt, asked, waiting, verdict, snapshots>>

FetchTick ==
    /\ gpc = "wait"
    /\ gpc' = "fetch" /\ gattempt' = 0
    /\ UNCHANGED <<serverVars, filter, opened, disk, body, reading, asked, waiting, verdict, snapshots>>

-----------------------------------------------------------------------------
(* The event loop                                                          *)

\* strfry hands the plugin an event.
EventArrives ==
    /\ reading /\ asked = Nil
    /\ asked' \in Keys /\ verdict' = "none"
    /\ UNCHANGED <<serverVars, gpc, filter, opened, disk, body, gattempt, reading, waiting,
                   snapshots>>

\* The slow path of IsWhitelisted.
WaitForReady ==
    /\ asked # Nil /\ ~waiting /\ filter = Nil
    /\ waiting' = TRUE
    /\ UNCHANGED <<serverVars, gpc, filter, opened, disk, body, gattempt, reading, asked,
                   verdict, snapshots>>

\* Faulty variant: without a filter the answer is false.
AnswerAtOnce ==
    /\ asked # Nil
    /\ \/ filter # Nil /\ verdict' = "accept"
       \/ filter = Nil /\ verdict' = "reject"
       \/ filter # Nil /\ asked \notin filter /\ verdict' = "reject"
    /\ asked' = Nil /\ waiting' = FALSE
    /\ UNCHANGED <<serverVars, gpc, filter, opened, disk, body, gattempt, reading, snapshots>>

\* IsWhitelisted and Handle. A key outside the filter may test positive. A check that
\* waited loads the filter when the channel is closed: without one it could not accept.
Answer ==
    /\ asked # Nil
    /\ IF waiting THEN opened ELSE filter # Nil
    /\ \/ filter # Nil /\ verdict' = "accept"
       \/ (filter = Nil \/ asked \notin filter) /\ verdict' = "reject"
    /\ asked' = Nil /\ waiting' = FALSE
    /\ UNCHANGED <<serverVars, gpc, filter, opened, disk, body, gattempt, reading, snapshots>>

-----------------------------------------------------------------------------
\* The plugin is killed and started again by strfry; its file stays.
PluginRestarts ==
    /\ crashes < MaxCrashes /\ crashes' = crashes + 1
    /\ gpc' = "boot" /\ filter' = Nil /\ opened' = FALSE /\ body' = Nil
    /\ gattempt' = 0 /\ reading' = FALSE /\ asked' = Nil /\ waiting' = FALSE
    /\ verdict' = "none"
    /\ UNCHANGED <<rows, refresher, served, writes, failures, stable, seen, disk,
                   snapshots>>

ServerStep ==
    /\ ServerNext
    /\ snapshots' = IF bloom' = Nil THEN snapshots ELSE snapshots \cup {bloom'}
    /\ UNCHANGED <<gpc, filter, opened, disk, body, gattempt, reading, asked, waiting, verdict>>

GateInit ==
    /\ ServerInit
    /\ gpc = "boot" /\ filter = Nil /\ opened = FALSE /\ disk = Nil /\ body = Nil
    /\ gattempt = 0 /\ reading = FALSE /\ asked = Nil /\ waiting = FALSE /\ verdict = "none"
    /\ snapshots = {}

Fetcher == LoadDisk \/ Fetch \/ Respond \/ Store \/ Persist \/ FetchTick
GateNext == ServerStep \/ Fetcher \/ EventArrives \/ WaitForReady \/ Answer \/ PluginRestarts
GateSpec == GateInit /\ [][GateNext]_bloomVars

\* Both tickers run and every request ends under its timeout.
GateFairness ==
    /\ WF_bloomVars(Refresher /\ ServerStep)
    /\ WF_bloomVars(Fetcher)
    /\ WF_bloomVars(WaitForReady \/ Answer)

GateFairSpec == GateSpec /\ GateFairness

-----------------------------------------------------------------------------
(* Properties                                                              *)

\* Neither memory nor disk ever holds anything but a filter the server published
\* as a whole, whatever is torn on the network or on disk (parse before persist,
\* temporary file and rename).
OnlyPublished ==
    /\ filter \in {Nil} \cup snapshots
    /\ disk \in {Nil} \cup snapshots

\* An author whom every published filter holds is never rejected, not even
\* before the first filter is there (checker.go:8, "withholds its decision until
\* the first filter is stored").
NeverRejectsMember ==
    [][verdict' = "reject" /\ asked # Nil /\ asked' = Nil =>
          \E f \in snapshots : asked \notin f]_bloomVars

\* Every event gets an answer.
EventsAnswered == (asked # Nil) ~> (asked = Nil)

\* When Dgraph, the network and the processes come to rest, the gate and the
\* server hold the current whitelist.
Converges ==
    <>[](/\ list = Whitelisted(rows)
         /\ bloom = list
         /\ filter = bloom)
=============================================================================
