--------------------------- MODULE WhitelistServer ---------------------------
(***************************************************************************)
(* The whitelist server (whitelist-plugin/cmd/server): a refresher that    *)
(* pages through the Profile rows of Dgraph with a uid cursor, the map     *)
(* behind /check, the bloom snapshot behind /bloom and the readiness       *)
(* behind /health.                                                         *)
(*                                                                         *)
(* A bloom filter is modelled by the set of keys it was built from; its    *)
(* ETag, a hash of its bytes, by that set itself.                          *)
(***************************************************************************)
EXTENDS Integers, FiniteSets

CONSTANTS
    Uids,       \* uids Dgraph may give to a Profile
    Keys,       \* pubkeys
    PubkeyOf,   \* the pubkey of each row, NoKey for a row without one
    NoKey,      \* no pubkey
    Invalid,    \* pubkeys that are not 32 bytes of hex
    Hardcoded,  \* getHardcodedPubkeys
    PageSize,   \* dgraphPageSize
    Retries,    \* RefreshRetryCount
    Nil,        \* a nil pointer
    MaxWrites,  \* bound: writes to Dgraph
    MaxFailures, \* bound: failed requests, rebuilds and disk writes
    MaxCrashes  \* bound: crashes of the server and of the plugin

ASSUME ServerConstants ==
    /\ Uids \subseteq Nat \ {0}
    /\ IsFiniteSet(Keys) /\ NoKey \notin Keys /\ PubkeyOf \in [Uids -> Keys \cup {NoKey}]
    /\ Invalid \subseteq Keys /\ Hardcoded \subseteq Keys \ Invalid
    /\ PageSize \in Nat \ {0} /\ Retries \in Nat
    /\ \A S \in SUBSET Keys : S # Nil
    /\ MaxWrites \in Nat /\ MaxFailures \in Nat /\ MaxCrashes \in Nat

VARIABLES
    rows,     \* uids of the Profile rows in Dgraph
    pc,       \* what the refresher does
    after,    \* the uid cursor, 0 for none
    fetched,  \* pubkeys of the pages so far
    attempt,  \* attempt of refresh()
    list,     \* the map behind /check
    bloom,    \* bloomSnapshot
    entries,  \* entries of /stats
    ready,    \* ready of /health
    writes, failures, crashes,
    stable,   \* history: rows present since the attempt began
    seen      \* history: rows present at some time since the attempt began

refresher == <<pc, after, fetched, attempt>>
served    == <<list, bloom, entries, ready>>
serverVars == <<rows, refresher, served, writes, failures, crashes, stable, seen>>

PubkeysOf(R) == {PubkeyOf[u] : u \in R} \ {NoKey}

\* What a load of exactly the rows R puts into the whitelist (GetAll).
Whitelisted(R) == (PubkeysOf(R) \cup Hardcoded) \ Invalid

ServerTypeOK ==
    /\ rows \subseteq Uids /\ stable \subseteq Uids /\ seen \subseteq Uids
    /\ pc \in {"load", "update", "rebuild", "return", "wait"}
    /\ after \in Uids \cup {0}
    /\ fetched \subseteq Keys
    /\ attempt \in 0 .. Retries
    /\ list \subseteq Keys
    /\ bloom \in {Nil} \cup SUBSET Keys
    /\ entries \in Nat
    /\ writes \in 0 .. MaxWrites /\ failures \in 0 .. MaxFailures /\ crashes \in 0 .. MaxCrashes

Failure == failures < MaxFailures /\ failures' = failures + 1

-----------------------------------------------------------------------------
(* The refresher                                                           *)

\* A result of `func: type(Profile), first: PageSize, after: cursor': the first
\* rows beyond the cursor in the order of their uids.
IsPage(page) ==
    LET rest == {u \in rows : u > after}
    IN  /\ page \subseteq rest
        /\ \A u \in page, v \in rest \ page : u < v
        /\ Cardinality(page) <= PageSize
        /\ page # rest => Cardinality(page) = PageSize

BeginAttempt(n) ==
    /\ pc' = "load" /\ after' = 0 /\ fetched' = {} /\ attempt' = n
    /\ stable' = rows /\ seen' = rows

\* The locals of refresh() are gone.
EndRefresh(next) ==
    /\ pc' = next /\ after' = 0 /\ fetched' = {} /\ attempt' = 0
    /\ stable' = {} /\ seen' = {}

\* Faulty variant: rows without a pubkey do not count.
ShortPageByPubkeys(page) == Cardinality(PubkeysOf(page)) < PageSize

\* A page that ends the load.
ShortPage(page) == Cardinality(page) < PageSize

FetchPage ==
    /\ pc = "load"
    /\ \E page \in SUBSET rows :
          /\ IsPage(page)
          /\ fetched' = fetched \cup PubkeysOf(page)
          /\ IF ShortPage(page)
             THEN pc' = "update" /\ UNCHANGED after
             ELSE /\ pc' = "load"
                  /\ \E u \in page : (\A v \in page : v <= u) /\ after' = u
    /\ UNCHANGED <<rows, attempt, served, writes, failures, crashes, stable, seen>>

\* A page fails, or the query timeout of GetAll ends: the load starts anew, or
\* the refresh gives up.
FetchFails ==
    /\ pc = "load"
    /\ Failure
    /\ IF attempt < Retries
       THEN BeginAttempt(attempt + 1)
       ELSE EndRefresh("return")
    /\ UNCHANGED <<rows, served, writes, crashes>>

UpdateKeys ==
    /\ pc = "update"
    /\ list' = (fetched \cup Hardcoded) \ Invalid
    /\ EndRefresh("rebuild")
    /\ UNCHANGED <<rows, bloom, entries, ready, writes, failures, crashes>>

\* onRefresh: SwapFilter and SetStats, or nothing when the build fails.
OnRefresh ==
    /\ pc = "rebuild"
    /\ \/ bloom' = list /\ entries' = Cardinality(list) /\ UNCHANGED failures
       \/ Failure /\ UNCHANGED <<bloom, entries>>
    /\ pc' = "return"
    /\ UNCHANGED <<rows, after, fetched, attempt, list, ready, writes, crashes, stable,
                   seen>>

\* refresh() returns; the first time Start() returns too and main sets ready.
RefreshReturns ==
    /\ pc = "return"
    /\ IF ready THEN UNCHANGED <<ready, entries>>
                ELSE ready' = TRUE /\ entries' = Cardinality(list)
    /\ pc' = "wait"
    /\ UNCHANGED <<rows, after, fetched, attempt, list, bloom, writes, failures, crashes,
                   stable, seen>>

RefreshTick ==
    /\ pc = "wait"
    /\ BeginAttempt(0)
    /\ UNCHANGED <<rows, served, writes, failures, crashes>>

-----------------------------------------------------------------------------
(* The environment                                                         *)

DgraphWrites ==
    /\ writes < MaxWrites /\ writes' = writes + 1
    /\ \E u \in Uids :
          \/ u \notin rows /\ rows' = rows \cup {u}
          \/ u \in rows /\ rows' = rows \ {u}
    /\ stable' = stable \cap rows'
    /\ seen' = IF pc = "load" THEN seen \cup rows' ELSE seen
    /\ UNCHANGED <<refresher, served, failures, crashes>>

\* A killed server comes up with nothing.
ServerRestarts ==
    /\ crashes < MaxCrashes /\ crashes' = crashes + 1
    /\ BeginAttempt(0)
    /\ list' = {} /\ bloom' = Nil /\ entries' = 0 /\ ready' = FALSE
    /\ UNCHANGED <<rows, writes, failures>>

ServerInit ==
    /\ rows \in SUBSET Uids
    /\ pc = "load" /\ after = 0 /\ fetched = {} /\ attempt = 0
    /\ list = {} /\ bloom = Nil /\ entries = 0 /\ ready = FALSE
    /\ writes = 0 /\ failures = 0 /\ crashes = 0
    /\ stable = rows /\ seen = rows

Refresher == FetchPage \/ FetchFails \/ UpdateKeys \/ OnRefresh \/ RefreshReturns \/ RefreshTick
ServerNext == Refresher \/ DgraphWrites \/ ServerRestarts
ServerSpec == ServerInit /\ [][ServerNext]_serverVars

-----------------------------------------------------------------------------
(* Properties                                                              *)

\* A load misses no row that was there all the time and invents none, although
\* rows come and go between its pages (fetchAllPubkeysFromDgraph).
LoadIsComplete ==
    pc = "update" => /\ PubkeysOf(stable) \subseteq fetched
                     /\ fetched \subseteq PubkeysOf(seen)
=============================================================================
