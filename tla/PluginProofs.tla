----------------------------- MODULE PluginProofs -----------------------------
(***************************************************************************)
(* Proofs about the write-policy plugins of strfry and the whitelist       *)
(* server: BloomGate with the WhitelistServer in it, for every set of rows *)
(* and keys, every page size and number of retries, and any number of      *)
(* writes, failures and crashes; and Router, for every input, whitelist,   *)
(* TTL, timeout, cache and queue capacity and number of faults and changes. *)
(***************************************************************************)
EXTENDS BloomGate, Router, FiniteSetTheorems, SequenceTheorems, TLAPS

-----------------------------------------------------------------------------
(* BloomGate and WhitelistServer                                           *)

\* The flags stay Boolean in every step.
LEMMA FlagsStep == FlagsOK /\ [GateNext]_bloomVars => FlagsOK'
<1> SUFFICES ASSUME FlagsOK, [GateNext]_bloomVars PROVE FlagsOK'
  OBVIOUS
<1> USE DEF FlagsOK
<1>1. CASE ServerStep /\ FetchPage
  BY <1>1, Zenon DEF ServerStep, FetchPage, refresher, served
<1>2. CASE ServerStep /\ FetchFails
    BY <1>2, Zenon DEF ServerStep, FetchFails, Failure, BeginAttempt, EndRefresh,
     refresher, served
<1>3. CASE ServerStep /\ UpdateKeys
  BY <1>3, Zenon DEF ServerStep, UpdateKeys, EndRefresh, refresher, served
<1>4. CASE ServerStep /\ OnRefresh
  BY <1>4, Zenon DEF ServerStep, OnRefresh, Failure, refresher, served
<1>5. CASE ServerStep /\ RefreshReturns
  BY <1>5, Zenon DEF ServerStep, RefreshReturns, refresher, served
<1>6. CASE ServerStep /\ RefreshTick
  BY <1>6, Zenon DEF ServerStep, RefreshTick, BeginAttempt, refresher, served
<1>7. CASE ServerStep /\ DgraphWrites
  BY <1>7, Zenon DEF ServerStep, DgraphWrites, refresher, served
<1>8. CASE ServerStep /\ ServerRestarts
  BY <1>8, Zenon DEF ServerStep, ServerRestarts, BeginAttempt, refresher, served
<1>9. CASE LoadDisk
  BY <1>9, Zenon DEF LoadDisk, serverVars, ReadFilter, refresher, served
<1>10. CASE Fetch
  BY <1>10, Zenon DEF Fetch, serverVars, Retry, FetchReturns, Failure, refresher, served
<1>11. CASE Respond
    BY <1>11, Zenon DEF Respond, serverVars, ReadFilter, FetchReturns, refresher,
     served
<1>19. CASE Store
  BY <1>19, Zenon DEF Store, serverVars, refresher, served
<1>12. CASE Persist
  BY <1>12, Zenon DEF Persist, serverVars, Failure, FetchReturns, refresher, served
<1>13. CASE FetchTick
  BY <1>13, Zenon DEF FetchTick, serverVars, refresher, served
<1>14. CASE EventArrives
  BY <1>14, Zenon DEF EventArrives, serverVars, refresher, served
<1>15. CASE WaitForReady
  BY <1>15, Zenon DEF WaitForReady, serverVars, refresher, served
<1>16. CASE Answer
  BY <1>16, Zenon DEF Answer, serverVars, refresher, served
<1>17. CASE PluginRestarts
  BY <1>17, Zenon DEF PluginRestarts, serverVars, refresher, served
<1>18. CASE UNCHANGED bloomVars
  BY <1>18, Zenon DEF bloomVars, serverVars, gateVars, refresher, served
<1> QED
  BY <1>1, <1>2, <1>3, <1>4, <1>5, <1>6, <1>7, <1>8, <1>9, <1>10, <1>11, <1>12,
     <1>13, <1>14, <1>15, <1>16, <1>17, <1>18, <1>19
     DEF GateNext, ServerStep, ServerNext, Refresher, Fetcher

DataOK == ServerTypeOK /\ GateTypeOK

\* Everything else keeps its type in every step.
LEMMA DataStep == DataOK /\ [GateNext]_bloomVars => DataOK'
<1> SUFFICES ASSUME DataOK, [GateNext]_bloomVars PROVE DataOK'
  OBVIOUS
<1> USE ServerConstants, GateConstants DEF DataOK, ServerTypeOK, GateTypeOK, Filters, PubkeysOf
<1>card. Cardinality(list) \in Nat
  BY FS_Subset, FS_CardinalityType
<1>1. CASE ServerStep /\ FetchPage
  BY <1>1 DEF ServerStep, FetchPage, refresher, served
<1>2. CASE ServerStep /\ FetchFails
  <2>1. failures' \in 0 .. MaxFailures
    BY <1>2 DEF FetchFails, Failure
  <2>2. CASE attempt < Retries
    <3>1. BeginAttempt(attempt + 1)
      BY <1>2, <2>2 DEF FetchFails
    <3>2. attempt + 1 \in 0 .. Retries
      BY <2>2
    <3>3. ServerTypeOK'
      BY <1>2, <2>1, <3>1, <3>2 DEF FetchFails, BeginAttempt, served
    <3> QED
      BY <1>2, <3>3 DEF ServerStep, FetchFails, served
  <2>3. CASE ~(attempt < Retries)
    BY <1>2, <2>1, <2>3 DEF ServerStep, FetchFails, EndRefresh, served
  <2> QED
    BY <2>2, <2>3
<1>3. CASE ServerStep /\ UpdateKeys
  BY <1>3 DEF ServerStep, UpdateKeys, EndRefresh, refresher, served
<1>4. CASE ServerStep /\ OnRefresh
  BY <1>4, <1>card DEF ServerStep, OnRefresh, Failure, refresher, served
<1>5. CASE ServerStep /\ RefreshReturns
  BY <1>5, <1>card DEF ServerStep, RefreshReturns, refresher, served
<1>6. CASE ServerStep /\ RefreshTick
  BY <1>6 DEF ServerStep, RefreshTick, BeginAttempt, refresher, served
<1>7. CASE ServerStep /\ DgraphWrites
  <2>1. writes' \in 0 .. MaxWrites
    BY <1>7 DEF DgraphWrites
  <2>2. rows' \subseteq Uids
    BY <1>7 DEF DgraphWrites
  <2>3. stable' \subseteq Uids /\ seen' \subseteq Uids
    BY <1>7, <2>2 DEF DgraphWrites
  <2> QED
    BY <1>7, <2>1, <2>2, <2>3 DEF ServerStep, DgraphWrites, refresher, served
<1>8. CASE ServerStep /\ ServerRestarts
  BY <1>8 DEF ServerStep, ServerRestarts, BeginAttempt, refresher, served
<1>9. CASE LoadDisk
  BY <1>9 DEF LoadDisk, serverVars, ReadFilter, refresher, served
<1>10. CASE Fetch
  BY <1>10 DEF Fetch, serverVars, Retry, FetchReturns, Failure, refresher, served
<1>11. CASE Respond
  BY <1>11 DEF Respond, serverVars, ReadFilter, FetchReturns, refresher, served
<1>19. CASE Store
  BY <1>19 DEF Store, serverVars, refresher, served
<1>12. CASE Persist
  BY <1>12 DEF Persist, serverVars, Failure, FetchReturns, refresher, served
<1>13. CASE FetchTick
  BY <1>13 DEF FetchTick, serverVars, refresher, served
<1>14. CASE EventArrives
  BY <1>14 DEF EventArrives, serverVars, refresher, served
<1>15. CASE WaitForReady
  BY <1>15 DEF WaitForReady, serverVars, refresher, served
<1>16. CASE Answer
  BY <1>16 DEF Answer, serverVars, refresher, served
<1>17. CASE PluginRestarts
  BY <1>17 DEF PluginRestarts, serverVars, refresher, served
<1>18. CASE UNCHANGED bloomVars
  BY <1>18 DEF bloomVars, serverVars, gateVars, refresher, served
<1> QED
  BY <1>1, <1>2, <1>3, <1>4, <1>5, <1>6, <1>7, <1>8, <1>9, <1>10, <1>11, <1>12,
     <1>13, <1>14, <1>15, <1>16, <1>17, <1>18, <1>19
     DEF GateNext, ServerStep, ServerNext, Refresher, Fetcher

\* Every variable keeps its type in every behaviour.
THEOREM BloomTypeCorrect == GateSpec => []BloomTypeOK
<1>1. GateInit => FlagsOK
  BY Zenon DEF GateInit, ServerInit, FlagsOK
<1>2. GateInit => DataOK
  BY ServerConstants, GateConstants
     DEF GateInit, ServerInit, DataOK, ServerTypeOK, GateTypeOK, Filters
<1> QED
  BY <1>1, <1>2, FlagsStep, DataStep, PTL DEF GateSpec, BloomTypeOK, DataOK

-----------------------------------------------------------------------------
(* A load is complete                                                      *)

\* Up to the cursor nothing stable is missing: the cursor never jumps over a row
\* that was there all the time, because a page is an initial segment of the rest.
LoadInv ==
    /\ LoadIsComplete
    /\ pc = "load" =>
          /\ stable \subseteq rows /\ rows \subseteq seen
          /\ \A u \in stable : u <= after => PubkeyOf[u] \in fetched \cup {NoKey}
          /\ fetched \subseteq PubkeysOf(seen)

\* Every step of server and gate preserves the invariant of a load.
LEMMA LoadStep == DataOK /\ LoadInv /\ [GateNext]_bloomVars => LoadInv'
<1> SUFFICES ASSUME DataOK, LoadInv, [GateNext]_bloomVars PROVE LoadInv'
  OBVIOUS
<1> USE ServerConstants DEF DataOK, ServerTypeOK, LoadInv, LoadIsComplete, PubkeysOf
<1>1. CASE ServerStep /\ FetchPage
  <2>1. PICK page \in SUBSET rows :
           /\ IsPage(page)
           /\ fetched' = fetched \cup PubkeysOf(page)
           /\ IF ShortPage(page)
              THEN pc' = "update" /\ UNCHANGED after
              ELSE /\ pc' = "load"
                   /\ \E u \in page : (\A v \in page : v <= u) /\ after' = u
    BY <1>1 DEF FetchPage
  <2>2. pc = "load" /\ UNCHANGED <<rows, stable, seen>>
    BY <1>1 DEF FetchPage
  <2>3. fetched' \subseteq PubkeysOf(seen')
    BY <2>1, <2>2
  <2>4. CASE ShortPage(page)
    <3>1. page = {u \in rows : u > after}
      BY <2>1, <2>4 DEF IsPage, ShortPage
    <3>2. \A u \in stable : PubkeyOf[u] \in fetched' \cup {NoKey}
      BY <2>1, <2>2, <3>1
    <3> QED
      BY <2>1, <2>2, <2>3, <2>4, <3>2
  <2>5. CASE ~ShortPage(page)
    <3>1. PICK u \in page : (\A v \in page : v <= u) /\ after' = u
      BY <2>1, <2>5
    <3>2. \A s \in stable : s <= u => s <= after \/ s \in page
      BY <2>1, <2>2, <3>1 DEF IsPage
    <3>3. \A s \in stable : s <= after' => PubkeyOf[s] \in fetched' \cup {NoKey}
      BY <2>1, <2>2, <3>1, <3>2
    <3> QED
      BY <2>1, <2>2, <2>3, <2>5, <3>3
  <2> QED
    BY <2>4, <2>5
<1>2. CASE ServerStep /\ FetchFails
  BY <1>2 DEF ServerStep, FetchFails, Failure, BeginAttempt, EndRefresh, refresher, served
<1>3. CASE ServerStep /\ UpdateKeys
  BY <1>3 DEF ServerStep, UpdateKeys, EndRefresh, refresher, served
<1>4. CASE ServerStep /\ OnRefresh
  BY <1>4 DEF ServerStep, OnRefresh, Failure, refresher, served
<1>5. CASE ServerStep /\ RefreshReturns
  BY <1>5 DEF ServerStep, RefreshReturns, refresher, served
<1>6. CASE ServerStep /\ RefreshTick
  BY <1>6 DEF ServerStep, RefreshTick, BeginAttempt, refresher, served
<1>7. CASE ServerStep /\ DgraphWrites
  BY <1>7 DEF ServerStep, DgraphWrites, refresher, served
<1>8. CASE ServerStep /\ ServerRestarts
  BY <1>8 DEF ServerStep, ServerRestarts, BeginAttempt, refresher, served
<1>9. CASE LoadDisk
  BY <1>9 DEF LoadDisk, serverVars, ReadFilter, refresher, served
<1>10. CASE Fetch
  BY <1>10 DEF Fetch, serverVars, Retry, FetchReturns, Failure, refresher, served
<1>11. CASE Respond
  BY <1>11 DEF Respond, serverVars, ReadFilter, FetchReturns, refresher, served
<1>19. CASE Store
  BY <1>19 DEF Store, serverVars, refresher, served
<1>12. CASE Persist
  BY <1>12 DEF Persist, serverVars, Failure, FetchReturns, refresher, served
<1>13. CASE FetchTick
  BY <1>13 DEF FetchTick, serverVars, refresher, served
<1>14. CASE EventArrives
  BY <1>14 DEF EventArrives, serverVars, refresher, served
<1>15. CASE WaitForReady
  BY <1>15 DEF WaitForReady, serverVars, refresher, served
<1>16. CASE Answer
  BY <1>16 DEF Answer, serverVars, refresher, served
<1>17. CASE PluginRestarts
  BY <1>17 DEF PluginRestarts, serverVars, refresher, served
<1>18. CASE UNCHANGED bloomVars
  BY <1>18 DEF bloomVars, serverVars, gateVars, refresher, served
<1> QED
  BY <1>1, <1>2, <1>3, <1>4, <1>5, <1>6, <1>7, <1>8, <1>9, <1>10, <1>11, <1>12,
     <1>13, <1>14, <1>15, <1>16, <1>17, <1>18, <1>19
     DEF GateNext, ServerStep, ServerNext, Refresher, Fetcher

\* No load misses a row that was there all the time, or invents one.
THEOREM LoadCorrect == GateSpec => []LoadIsComplete
<1>1. GateInit => LoadInv
  BY ServerConstants DEF GateInit, ServerInit, LoadInv, LoadIsComplete
<1>2. LoadInv => LoadIsComplete
  BY DEF LoadInv
<1>3. BloomTypeOK => DataOK
  BY DEF BloomTypeOK, DataOK
<1> QED
  BY <1>1, <1>2, <1>3, BloomTypeCorrect, LoadStep, PTL DEF GateSpec

-----------------------------------------------------------------------------
(* The gate holds nothing but published filters                            *)

\* A response is torn or was published when the server sent it; the ready
\* channel is closed only when there is a filter.
PublishedInv ==
    /\ OnlyPublished
    /\ bloom \in {Nil} \cup snapshots
    /\ body \in {Nil, Torn} \cup snapshots
    /\ gpc \in {"open", "persist"} => body \in snapshots
    /\ gpc = "open" => filter # Nil
    /\ opened => filter # Nil

\* Every step of server and gate preserves the invariant of the published filters.
LEMMA PublishedStep == DataOK /\ PublishedInv /\ [GateNext]_bloomVars => PublishedInv'
<1> SUFFICES ASSUME DataOK, PublishedInv, [GateNext]_bloomVars PROVE PublishedInv'
  OBVIOUS
<1> USE GateConstants, ServerConstants DEF PublishedInv, OnlyPublished, Filters
<1> list \subseteq Keys /\ snapshots \subseteq Filters
  BY DEF DataOK, ServerTypeOK, GateTypeOK
<1>1. CASE ServerStep /\ FetchPage
  BY <1>1 DEF ServerStep, FetchPage, refresher, served
<1>2. CASE ServerStep /\ FetchFails
  BY <1>2 DEF ServerStep, FetchFails, Failure, BeginAttempt, EndRefresh, refresher, served
<1>3. CASE ServerStep /\ UpdateKeys
  BY <1>3 DEF ServerStep, UpdateKeys, EndRefresh, refresher, served
<1>4. CASE ServerStep /\ OnRefresh
  BY <1>4 DEF ServerStep, OnRefresh, Failure, refresher, served
<1>5. CASE ServerStep /\ RefreshReturns
  BY <1>5 DEF ServerStep, RefreshReturns, refresher, served
<1>6. CASE ServerStep /\ RefreshTick
  BY <1>6 DEF ServerStep, RefreshTick, BeginAttempt, refresher, served
<1>7. CASE ServerStep /\ DgraphWrites
  BY <1>7 DEF ServerStep, DgraphWrites, refresher, served
<1>8. CASE ServerStep /\ ServerRestarts
  BY <1>8 DEF ServerStep, ServerRestarts, BeginAttempt, refresher, served
<1>9. CASE LoadDisk
  BY <1>9 DEF LoadDisk, serverVars, ReadFilter, refresher, served
<1>10. CASE Fetch
  BY <1>10 DEF Fetch, serverVars, Retry, FetchReturns, Failure, refresher, served
<1>11. CASE Respond
  BY <1>11 DEF Respond, serverVars, ReadFilter, FetchReturns, refresher, served
<1>19. CASE Store
  BY <1>19 DEF Store, serverVars, refresher, served
<1>12. CASE Persist
  BY <1>12 DEF Persist, serverVars, Failure, FetchReturns, refresher, served
<1>13. CASE FetchTick
  BY <1>13 DEF FetchTick, serverVars, refresher, served
<1>14. CASE EventArrives
  BY <1>14 DEF EventArrives, serverVars, refresher, served
<1>15. CASE WaitForReady
  BY <1>15 DEF WaitForReady, serverVars, refresher, served
<1>16. CASE Answer
  BY <1>16 DEF Answer, serverVars, refresher, served
<1>17. CASE PluginRestarts
  BY <1>17 DEF PluginRestarts, serverVars, refresher, served
<1>18. CASE UNCHANGED bloomVars
  BY <1>18 DEF bloomVars, serverVars, gateVars, refresher, served
<1> QED
  BY <1>1, <1>2, <1>3, <1>4, <1>5, <1>6, <1>7, <1>8, <1>9, <1>10, <1>11, <1>12,
     <1>13, <1>14, <1>15, <1>16, <1>17, <1>18, <1>19
     DEF GateNext, ServerStep, ServerNext, Refresher, Fetcher

\* Memory and disk only ever hold filters the server published as a whole.
THEOREM OnlyPublishedCorrect == GateSpec => []OnlyPublished
<1>1. GateInit => PublishedInv
  BY DEF GateInit, ServerInit, PublishedInv, OnlyPublished
<1>2. PublishedInv => OnlyPublished
  BY DEF PublishedInv
<1> QED
  BY <1>1, <1>2, BloomTypeCorrect, PublishedStep, PTL DEF GateSpec, BloomTypeOK, DataOK

\* An author in every published filter is never rejected.
THEOREM NeverRejectsMemberCorrect == GateSpec => NeverRejectsMember
<1>1. GateInit => PublishedInv
  BY DEF GateInit, ServerInit, PublishedInv, OnlyPublished
<1>2. PublishedInv /\ [GateNext]_bloomVars =>
         [verdict' = "reject" /\ asked # Nil /\ asked' = Nil =>
             \E f \in snapshots : asked \notin f]_bloomVars
  <2> SUFFICES ASSUME PublishedInv, GateNext, verdict' = "reject", asked # Nil, asked' = Nil
               PROVE  \E f \in snapshots : asked \notin f
    BY DEF bloomVars, serverVars, gateVars
  <2>1. Answer
    BY DEF GateNext, ServerStep, Fetcher, LoadDisk, Fetch, Respond, Store, Persist, FetchTick,
       EventArrives, WaitForReady, PluginRestarts, serverVars
  <2> QED
    BY <2>1 DEF Answer, PublishedInv, OnlyPublished
<1> QED
  BY <1>1, <1>2, BloomTypeCorrect, PublishedStep, PTL DEF GateSpec, BloomTypeOK, DataOK, NeverRejectsMember

-----------------------------------------------------------------------------
(* ttlCache                                                                *)

\* list.Remove takes out one element and leaves the others in their order.
LEMMA RemoveAtProperties ==
  ASSUME NEW S, NEW s \in Seq(S), NEW i \in 1 .. Len(s)
  PROVE  /\ RemoveAt(s, i) \in Seq(S)
         /\ Len(RemoveAt(s, i)) = Len(s) - 1
         /\ \A j \in 1 .. Len(s) - 1 :
               RemoveAt(s, i)[j] = s[IF j < i THEN j ELSE j + 1]
<1> DEFINE a == SubSeq(s, 1, i - 1)
           b == SubSeq(s, i + 1, Len(s))
<1>1. a \in Seq(S) /\ Len(a) = i - 1 /\ \A j \in 1 .. i - 1 : a[j] = s[j]
  BY SubSeqProperties
<1>2. b \in Seq(S) /\ Len(b) = Len(s) - i /\ \A j \in 1 .. Len(s) - i : b[j] = s[i + j]
  BY SubSeqProperties
<1>3. RemoveAt(s, i) = a \o b
  BY DEF RemoveAt
<1> HIDE DEF a, b
<1>4. /\ a \o b \in Seq(S) /\ Len(a \o b) = Len(a) + Len(b)
      /\ \A j \in 1 .. Len(a) + Len(b) :
            (a \o b)[j] = IF j <= Len(a) THEN a[j] ELSE b[j - Len(a)]
  BY <1>1, <1>2, ConcatProperties
<1>5. Len(s) \in Nat /\ i \in Nat /\ i >= 1 /\ i <= Len(s) /\ Len(a) + Len(b) = Len(s) - 1
  BY <1>1, <1>2
<1>6. ASSUME NEW j \in 1 .. Len(s) - 1 PROVE (a \o b)[j] = s[IF j < i THEN j ELSE j + 1]
  <2>1. (a \o b)[j] = IF j <= Len(a) THEN a[j] ELSE b[j - Len(a)]
    BY <1>4, <1>5
  <2>2. CASE j < i
    <3>1. j \in 1 .. i - 1 /\ j <= Len(a)
      BY <1>1, <1>5, <2>2
    <3> QED
      BY <1>1, <2>1, <2>2, <3>1
  <2>3. CASE ~(j < i)
    <3>1. ~(j <= Len(a)) /\ j - Len(a) \in 1 .. Len(s) - i /\ i + (j - Len(a)) = j + 1
      BY <1>1, <1>5, <2>3
    <3>2. b[j - Len(a)] = s[j + 1]
      BY <1>2, <3>1
    <3> QED
      BY <2>1, <2>3, <3>1, <3>2
  <2> QED
    BY <2>2, <2>3
<1> QED
  BY <1>3, <1>4, <1>5, <1>6

\* What Get and Set leave of the list when they take the key's element out.
LEMMA WithoutProperties ==
  ASSUME cache \in Seq(Entry), NEW k
  PROVE  /\ Without(k) \in Seq(Entry)
         /\ Len(Without(k)) <= Len(cache)
         /\ Lookup(k) # {} => Len(Without(k)) = Len(cache) - 1
         /\ \A j \in 1 .. Len(Without(k)) :
               \E m \in 1 .. Len(cache) : Without(k)[j] = cache[m]
<1>1. CASE Lookup(k) = {}
  BY <1>1 DEF Without
<1>2. CASE Lookup(k) # {}
  <2> DEFINE i == CHOOSE i \in Lookup(k) : TRUE
  <2>1. i \in 1 .. Len(cache)
    BY <1>2 DEF Lookup
  <2>2. Without(k) = RemoveAt(cache, i)
    BY <1>2 DEF Without
  <2> HIDE DEF i
  <2>3. /\ RemoveAt(cache, i) \in Seq(Entry)
        /\ Len(RemoveAt(cache, i)) = Len(cache) - 1
        /\ \A j \in 1 .. Len(cache) - 1 :
              RemoveAt(cache, i)[j] = cache[IF j < i THEN j ELSE j + 1]
    BY <2>1, RemoveAtProperties
  <2> QED
    BY <2>1, <2>2, <2>3
<1> QED
  BY <1>1, <1>2

\* One element per key: what the map items requires of the list.
OneEntryPerKey == \A i, j \in 1 .. Len(cache) : cache[i].key = cache[j].key => i = j

\* Taking a key's element out leaves no element of that key, and at most one of
\* every other.
LEMMA WithoutKey ==
  ASSUME cache \in Seq(Entry), OneEntryPerKey, NEW k
  PROVE  /\ \A j \in 1 .. Len(Without(k)) : Without(k)[j].key # k
         /\ \A i, j \in 1 .. Len(Without(k)) :
               Without(k)[i].key = Without(k)[j].key => i = j
<1>1. CASE Lookup(k) = {}
  BY <1>1 DEF Without, Lookup, OneEntryPerKey
<1>2. CASE Lookup(k) # {}
  <2> DEFINE i == CHOOSE i \in Lookup(k) : TRUE
  <2>1. i \in 1 .. Len(cache) /\ cache[i].key = k
    BY <1>2 DEF Lookup
  <2>2. Without(k) = RemoveAt(cache, i)
    BY <1>2 DEF Without
  <2> HIDE DEF i
  <2>3. /\ Len(RemoveAt(cache, i)) = Len(cache) - 1
        /\ \A j \in 1 .. Len(cache) - 1 :
              RemoveAt(cache, i)[j] = cache[IF j < i THEN j ELSE j + 1]
    BY <2>1, RemoveAtProperties
  <2>4. \A j \in 1 .. Len(cache) - 1 :
           /\ (IF j < i THEN j ELSE j + 1) \in 1 .. Len(cache)
           /\ (IF j < i THEN j ELSE j + 1) # i
    BY <2>1
  <2>5. \A j, m \in 1 .. Len(cache) - 1 :
           (IF j < i THEN j ELSE j + 1) = (IF m < i THEN m ELSE m + 1) => j = m
    BY <2>1
  <2>6. \A j \in 1 .. Len(cache) - 1 : RemoveAt(cache, i)[j].key # k
    BY <2>1, <2>3, <2>4 DEF OneEntryPerKey
  <2>7. \A j, m \in 1 .. Len(cache) - 1 :
           RemoveAt(cache, i)[j].key = RemoveAt(cache, i)[m].key => j = m
    BY <2>3, <2>4, <2>5 DEF OneEntryPerKey
  <2> QED
    BY <2>2, <2>3, <2>6, <2>7
<1> QED
  BY <1>1, <1>2

\* PushFront or MoveToFront: the new list is one element, then a list of old ones.
LEMMA PushFront ==
  ASSUME NEW S, NEW x \in S, NEW s \in Seq(S)
  PROVE  /\ <<x>> \o s \in Seq(S) /\ Len(<<x>> \o s) = Len(s) + 1
         /\ (<<x>> \o s)[1] = x
         /\ \A j \in 2 .. Len(s) + 1 : (<<x>> \o s)[j] = s[j - 1]
<1>1. <<x>> \in Seq(S) /\ Len(<<x>>) = 1 /\ <<x>>[1] = x
  OBVIOUS
<1>2. /\ <<x>> \o s \in Seq(S) /\ Len(<<x>> \o s) = Len(<<x>>) + Len(s)
      /\ \A j \in 1 .. Len(<<x>>) + Len(s) :
            (<<x>> \o s)[j] = IF j <= Len(<<x>>) THEN <<x>>[j] ELSE s[j - Len(<<x>>)]
  BY <1>1, ConcatProperties
<1> QED
  BY <1>1, <1>2

\* Without the last element.
LEMMA FrontProperties ==
  ASSUME NEW S, NEW s \in Seq(S), Len(s) \in Nat \ {0}
  PROVE  /\ Front(s) \in Seq(S) /\ Len(Front(s)) = Len(s) - 1
         /\ \A j \in 1 .. Len(s) - 1 : Front(s)[j] = s[j]
<1>1. \A i \in 1 .. Len(s) - 1 : s[i] \in S
  OBVIOUS
<1> DEFINE m == Len(s) - 1
<1>2. m \in Int /\ 1 \in Int /\ 1 <= m + 1
  OBVIOUS
<1>3. \A i \in 1 .. m : s[i] \in S
  BY <1>1
<1> HIDE DEF m
<1>4. /\ SubSeq(s, 1, m) \in Seq(S)
      /\ Len(SubSeq(s, 1, m)) = (IF 1 <= m THEN m - 1 + 1 ELSE 0)
      /\ \A j \in 1 .. m - 1 + 1 : SubSeq(s, 1, m)[j] = s[1 + j - 1]
  BY <1>2, <1>3, SubSeqProperties
<1>5. Front(s) = SubSeq(s, 1, m)
  BY DEF Front, m
<1>6. Len(SubSeq(s, 1, m)) = m
  BY <1>2, <1>4
<1>7. \A j \in 1 .. m : SubSeq(s, 1, m)[j] = s[j]
  <2> SUFFICES ASSUME NEW j \in 1 .. m PROVE SubSeq(s, 1, m)[j] = s[j]
    OBVIOUS
  <2>1. 1 + j - 1 = j /\ m - 1 + 1 = m
    BY <1>2
  <2> QED
    BY <1>4, <2>1
<1>8. Len(s) - 1 = m
  BY DEF m
<1> QED
  BY <1>4, <1>5, <1>6, <1>7, <1>8

\* Set keeps the cache within its capacity: only an old element makes room.
LEMMA CacheSetProperties ==
  ASSUME cache \in Seq(Entry), Len(cache) <= CacheSize, now \in Nat,
         NEW k \in Authors, NEW v \in BOOLEAN
  PROVE  /\ CacheSet(k, v) \in Seq(Entry) /\ Len(CacheSet(k, v)) <= CacheSize
         /\ Len(CacheSet(k, v)) \in Nat \ {0}
         /\ CacheSet(k, v)[1] = [key |-> k, value |-> v, expires |-> now + TTL]
         /\ \A j \in 2 .. Len(CacheSet(k, v)) :
               \E m \in 1 .. Len(cache) : CacheSet(k, v)[j] = cache[m]
<1> DEFINE x == [key |-> k, value |-> v, expires |-> now + TTL]
           r == IF Lookup(k) # {} THEN Without(k) ELSE Evict(cache)
<1>1. x \in Entry
  BY RouterConstants DEF Entry
<1>2. /\ r \in Seq(Entry) /\ Len(r) <= CacheSize - 1
      /\ \A j \in 1 .. Len(r) : \E m \in 1 .. Len(cache) : r[j] = cache[m]
  <2>1. CASE Lookup(k) # {}
    BY <2>1, WithoutProperties, RouterConstants
  <2>2. CASE Lookup(k) = {} /\ Len(cache) >= CacheSize
    <3>1. Len(cache) \in Nat \ {0} /\ CacheSize \in Nat
      BY <2>2, RouterConstants
    <3>2. /\ Front(cache) \in Seq(Entry) /\ Len(Front(cache)) = Len(cache) - 1
          /\ \A j \in 1 .. Len(cache) - 1 : Front(cache)[j] = cache[j]
      BY <3>1, FrontProperties
    <3>3. r = Front(cache)
      BY <2>2 DEF Evict
    <3> HIDE DEF r
    <3> QED
      BY <3>1, <3>2, <3>3
  <2>3. CASE Lookup(k) = {} /\ Len(cache) < CacheSize
    BY <2>3, RouterConstants DEF Evict
  <2>4. Len(cache) \in Nat /\ CacheSize \in Nat
    BY RouterConstants
  <2> HIDE DEF r
  <2> QED
    BY <2>1, <2>2, <2>3, <2>4
<1>3. CacheSet(k, v) = <<x>> \o r
  BY DEF CacheSet
<1> HIDE DEF x, r
<1>4. /\ <<x>> \o r \in Seq(Entry) /\ Len(<<x>> \o r) = Len(r) + 1
      /\ (<<x>> \o r)[1] = x
      /\ \A j \in 2 .. Len(r) + 1 : (<<x>> \o r)[j] = r[j - 1]
  BY <1>1, <1>2, PushFront
<1>5. Len(r) \in Nat
  BY <1>2
<1>6. \A j \in 2 .. Len(r) + 1 : \E m \in 1 .. Len(cache) : (<<x>> \o r)[j] = cache[m]
  BY <1>2, <1>4, <1>5
<1> QED
  BY <1>2, <1>3, <1>4, <1>5, <1>6, RouterConstants DEF x

-----------------------------------------------------------------------------
(* Types                                                                   *)

\* What the goroutines are doing: an event is being handled exactly between
\* ReadLine and its decision, and one is in flight exactly during a publish.
Control ==
    /\ cur # None <=> loop \in {"check", "ask"}
    /\ cur # None => decided[cur] = None
    /\ reply # None => loop = "ask"
    /\ inflight # None <=> drain = "publish"

\* The clock, the whitelist and their history keep their types.
LEMMA ServerTypesStep == ServerTypes /\ [Next]_vars => ServerTypes'
<1> SUFFICES ASSUME ServerTypes, [Next]_vars PROVE ServerTypes'
  OBVIOUS
<1> USE RouterConstants DEF ServerTypes
<1>1. CASE ReadLine
  BY <1>1 DEF ReadLine, time, server, client, publisher, counters, enqueuing
<1>2. CASE CacheHit
  BY <1>2 DEF CacheHit, time, server, client, publisher, counters, enqueuing
<1>3. CASE CacheMiss
  BY <1>3 DEF CacheMiss, time, server, client, publisher, counters, enqueuing
<1>4. CASE ServerAnswers
  BY <1>4 DEF ServerAnswers, time, server, client, publisher, counters, enqueuing
<1>5. CASE Receive
  BY <1>5 DEF Receive, time, server, client, publisher, counters, enqueuing
<1>6. CASE CheckFails
  BY <1>6 DEF CheckFails, Fault, time, server, client, publisher, counters, enqueuing
<1>7. CASE Connected
  BY <1>7 DEF Connected, time, server, client, publisher, counters, enqueuing
<1>8. CASE ConnectFails
  BY <1>8 DEF ConnectFails, Fault, time, server, client, publisher, counters, enqueuing
<1>9. CASE Take
  BY <1>9 DEF Take, time, server, client, publisher, counters, enqueuing
<1>10. CASE PublishOne
  BY <1>10 DEF PublishOne, time, server, client, publisher, counters, enqueuing
<1>11. CASE PublishFails
  BY <1>11 DEF PublishFails, PublishError, Fault, time, server, client, publisher, counters, enqueuing
<1>12. CASE DrainEnds
  BY <1>12 DEF DrainEnds, time, server, client, publisher, counters, enqueuing
<1>13. CASE ConnectionLost
  BY <1>13 DEF ConnectionLost, Fault, time, server, client, publisher, counters, enqueuing
<1>14. CASE ListChanges
  BY <1>14 DEF ListChanges, time, server, client, publisher, counters, enqueuing
<1>15. CASE Tick
  BY <1>15 DEF Tick, time, server, client, publisher, counters, enqueuing
<1>16. CASE Signal
  BY <1>16 DEF Signal, time, server, client, publisher, counters, enqueuing
<1>17. CASE LoopEnds
  BY <1>17 DEF LoopEnds, time, server, client, publisher, counters, enqueuing
<1>18. CASE Exit
  BY <1>18 DEF Exit, time, server, client, publisher, counters, enqueuing
<1>19. CASE UNCHANGED vars
  BY <1>19 DEF vars, time, server, client, publisher, counters, enqueuing
<1> QED
  BY <1>1, <1>2, <1>3, <1>4, <1>5, <1>6, <1>7, <1>8, <1>9, <1>10, <1>11, <1>12, <1>13, <1>14, <1>15, <1>16, <1>17, <1>18, <1>19
     DEF Next, Handling, Draining

\* The control state stays as Control says.
LEMMA ControlStep == Control /\ LoopTypes /\ PublisherTypes /\ [Next]_vars => Control'
<1> SUFFICES ASSUME Control, LoopTypes, PublisherTypes, [Next]_vars PROVE Control'
  OBVIOUS
<1> USE RouterConstants DEF Control, LoopTypes, PublisherTypes
<1>1. CASE ReadLine
  <2>1. PICK i \in 1 .. Len(Input) :
           /\ \A j \in 1 .. Len(Input) : decided[Input[j]] # None <=> j < i
           /\ IF Input[i] \in Malformed
              THEN /\ decided' = [decided EXCEPT ![Input[i]] = "malformed"]
                   /\ UNCHANGED <<loop, cur>>
              ELSE loop' = "check" /\ cur' = Input[i] /\ UNCHANGED decided
    BY <1>1 DEF ReadLine
  <2>2. Input[i] \in Events
    BY DEF Events, Elements
  <2>3. decided[Input[i]] = None
    BY <2>1
  <2> QED
    BY <1>1, <2>1, <2>2, <2>3 DEF ReadLine, publisher
<1>2. CASE CacheHit
  BY <1>2 DEF CacheHit, Route, Finish, time, server, client, publisher, counters, enqueuing
<1>3. CASE CacheMiss
  BY <1>3 DEF CacheMiss, time, server, client, publisher, counters, enqueuing
<1>4. CASE ServerAnswers
  BY <1>4 DEF ServerAnswers, publisher
<1>5. CASE Receive
  BY <1>5 DEF Receive, Route, Finish, time, server, client, publisher, counters, enqueuing
<1>6. CASE CheckFails
  BY <1>6 DEF CheckFails, Finish, Fault, time, server, client, publisher, counters, enqueuing
<1>7. CASE Connected
  BY <1>7 DEF Connected, time, server, client, publisher, counters, enqueuing
<1>8. CASE ConnectFails
  BY <1>8 DEF ConnectFails, time, server, client, publisher, counters, enqueuing
<1>9. CASE Take
  BY <1>9 DEF Take, time, server, client, publisher, counters, enqueuing
<1>10. CASE PublishOne
  BY <1>10 DEF PublishOne, time, server, client, publisher, counters, enqueuing
<1>11. CASE PublishFails
  BY <1>11 DEF PublishFails, time, server, client, publisher, counters, enqueuing
<1>12. CASE DrainEnds
  BY <1>12 DEF DrainEnds, time, server, client, publisher, counters, enqueuing
<1>13. CASE ConnectionLost
  BY <1>13 DEF ConnectionLost, time, server, client, publisher, counters, enqueuing
<1>14. CASE ListChanges
  BY <1>14 DEF ListChanges, time, server, client, publisher, counters, enqueuing
<1>15. CASE Tick
  BY <1>15 DEF Tick, time, server, client, publisher, counters, enqueuing
<1>16. CASE Signal
  BY <1>16 DEF Signal, time, server, client, publisher, counters, enqueuing
<1>17. CASE LoopEnds
  BY <1>17 DEF LoopEnds, time, server, client, publisher, counters, enqueuing
<1>18. CASE Exit
  BY <1>18 DEF Exit, time, server, client, publisher, counters, enqueuing
<1>19. CASE UNCHANGED vars
  BY <1>19 DEF vars, time, server, client, publisher, counters, enqueuing
<1> QED
  BY <1>1, <1>2, <1>3, <1>4, <1>5, <1>6, <1>7, <1>8, <1>9, <1>10, <1>11, <1>12, <1>13, <1>14, <1>15, <1>16, <1>17, <1>18, <1>19
     DEF Next, Handling, Draining

\* The event loop's state keeps its types.
LEMMA LoopTypesStep == LoopTypes /\ ServerTypes /\ Control /\ [Next]_vars => LoopTypes'
<1> SUFFICES ASSUME LoopTypes, ServerTypes, Control, [Next]_vars PROVE LoopTypes'
  OBVIOUS
<1> USE RouterConstants DEF LoopTypes, ServerTypes, Control, Verdicts
<1>1. CASE ReadLine
  <2>1. PICK i \in 1 .. Len(Input) :
           /\ \A j \in 1 .. Len(Input) : decided[Input[j]] # None <=> j < i
           /\ IF Input[i] \in Malformed
              THEN /\ decided' = [decided EXCEPT ![Input[i]] = "malformed"]
                   /\ UNCHANGED <<loop, cur>>
              ELSE loop' = "check" /\ cur' = Input[i] /\ UNCHANGED decided
    BY <1>1 DEF ReadLine
  <2>2. Input[i] \in Events
    BY DEF Events, Elements
  <2>3. decided[Input[i]] = None
    BY <2>1
  <2> QED
    BY <1>1, <2>1, <2>2, <2>3 DEF ReadLine, publisher
<1>2. CASE CacheHit
  BY <1>2 DEF CacheHit, Route, Finish, time, server, client, publisher, counters, enqueuing
<1>3. CASE CacheMiss
  BY <1>3 DEF CacheMiss, time, server, client, publisher, counters, enqueuing
<1>4. CASE ServerAnswers
  BY <1>4 DEF ServerAnswers
<1>5. CASE Receive
  BY <1>5 DEF Receive, Route, Finish, time, server, client, publisher, counters, enqueuing
<1>6. CASE CheckFails
  BY <1>6 DEF CheckFails, Finish, Fault, time, server, client, publisher, counters, enqueuing
<1>7. CASE Connected
  BY <1>7 DEF Connected, time, server, client, publisher, counters, enqueuing
<1>8. CASE ConnectFails
  BY <1>8 DEF ConnectFails, time, server, client, publisher, counters, enqueuing
<1>9. CASE Take
  BY <1>9 DEF Take, time, server, client, publisher, counters, enqueuing
<1>10. CASE PublishOne
  BY <1>10 DEF PublishOne, time, server, client, publisher, counters, enqueuing
<1>11. CASE PublishFails
  BY <1>11 DEF PublishFails, time, server, client, publisher, counters, enqueuing
<1>12. CASE DrainEnds
  BY <1>12 DEF DrainEnds, time, server, client, publisher, counters, enqueuing
<1>13. CASE ConnectionLost
  BY <1>13 DEF ConnectionLost, time, server, client, publisher, counters, enqueuing
<1>14. CASE ListChanges
  BY <1>14 DEF ListChanges, time, server, client, publisher, counters, enqueuing
<1>15. CASE Tick
  BY <1>15 DEF Tick, time, server, client, publisher, counters, enqueuing
<1>16. CASE Signal
  BY <1>16 DEF Signal, time, server, client, publisher, counters, enqueuing
<1>17. CASE LoopEnds
  BY <1>17 DEF LoopEnds, time, server, client, publisher, counters, enqueuing
<1>18. CASE Exit
  BY <1>18 DEF Exit, time, server, client, publisher, counters, enqueuing
<1>19. CASE UNCHANGED vars
  BY <1>19 DEF vars, time, server, client, publisher, counters, enqueuing
<1> QED
  BY <1>1, <1>2, <1>3, <1>4, <1>5, <1>6, <1>7, <1>8, <1>9, <1>10, <1>11, <1>12, <1>13, <1>14, <1>15, <1>16, <1>17, <1>18, <1>19
     DEF Next, Handling, Draining

\* Enqueue appends to a queue with room and otherwise only counts the event.
LEMMA EnqueueTypes ==
  ASSUME queue \in Seq(Events), Len(queue) <= BufferSize, enqueued \in Seq(Events),
         dropped \subseteq Events, NEW e \in Events, Enqueue(e)
  PROVE  /\ queue' \in Seq(Events) /\ Len(queue') <= BufferSize
         /\ enqueued' \in Seq(Events) /\ dropped' \subseteq Events
<1>1. CASE Len(queue) < BufferSize
  <2>1. queue' = Append(queue, e) /\ enqueued' = Append(enqueued, e) /\ dropped' = dropped
    BY <1>1 DEF Enqueue
  <2>2. Append(queue, e) \in Seq(Events) /\ Len(Append(queue, e)) = Len(queue) + 1
    BY AppendProperties
  <2>3. Append(enqueued, e) \in Seq(Events)
    BY AppendProperties
  <2> QED
    BY <1>1, <2>1, <2>2, <2>3, RouterConstants
<1>2. CASE ~(Len(queue) < BufferSize)
  BY <1>2 DEF Enqueue
<1> QED
  BY <1>1, <1>2

\* The publisher's state keeps its types, and its queue is bounded.
LEMMA PublisherTypesStep == PublisherTypes /\ LoopTypes /\ Control /\ [Next]_vars => PublisherTypes'
<1> SUFFICES ASSUME PublisherTypes, LoopTypes, Control, [Next]_vars PROVE PublisherTypes'
  OBVIOUS
<1> USE RouterConstants DEF PublisherTypes, LoopTypes, Control
<1>1. CASE ReadLine
  BY <1>1 DEF ReadLine, time, server, client, publisher, counters, enqueuing
<1>2. CASE CacheHit
  <2>1. cur \in Events
    BY <1>2 DEF CacheHit
  <2>2. UNCHANGED <<drain, conn, inflight, published, publishErrors, quarantine>>
    BY <1>2 DEF CacheHit, publisher, counters
  <2>3. Enqueue(cur) \/ UNCHANGED enqueuing
    BY <1>2 DEF CacheHit, Route
  <2>4. /\ queue' \in Seq(Events) /\ Len(queue') <= BufferSize
        /\ enqueued' \in Seq(Events) /\ dropped' \subseteq Events
    BY <2>1, <2>3, EnqueueTypes DEF enqueuing
  <2> QED
    BY <2>2, <2>4
<1>3. CASE CacheMiss
  BY <1>3 DEF CacheMiss, time, server, client, publisher, counters, enqueuing
<1>4. CASE ServerAnswers
  BY <1>4 DEF ServerAnswers, time, server, client, publisher, counters, enqueuing
<1>5. CASE Receive
  <2>1. cur \in Events
    BY <1>5 DEF Receive
  <2>2. UNCHANGED <<drain, conn, inflight, published, publishErrors, quarantine>>
    BY <1>5 DEF Receive, publisher, counters
  <2>3. Enqueue(cur) \/ UNCHANGED enqueuing
    BY <1>5 DEF Receive, Route
  <2>4. /\ queue' \in Seq(Events) /\ Len(queue') <= BufferSize
        /\ enqueued' \in Seq(Events) /\ dropped' \subseteq Events
    BY <2>1, <2>3, EnqueueTypes DEF enqueuing
  <2> QED
    BY <2>2, <2>4
<1>6. CASE CheckFails
  BY <1>6 DEF CheckFails, Finish, Fault, time, server, client, publisher, counters, enqueuing
<1>7. CASE Connected
  BY <1>7 DEF Connected, time, server, client, publisher, counters, enqueuing
<1>8. CASE ConnectFails
  BY <1>8 DEF ConnectFails, time, server, client, publisher, counters, enqueuing
<1>9. CASE Take
  <2>1. Head(queue) \in Events /\ Tail(queue) \in Seq(Events) /\ Len(Tail(queue)) <= BufferSize
    BY <1>9, HeadTailProperties DEF Take
  <2> QED
    BY <1>9, <2>1 DEF Take, counters
<1>10. CASE PublishOne
  BY <1>10 DEF PublishOne, time, server, client, publisher, counters, enqueuing
<1>11. CASE PublishFails
  <2>1. inflight \in Events
    BY <1>11 DEF PublishFails
  <2>2. quarantine' \in {quarantine, Append(quarantine, inflight)}
    BY <1>11 DEF PublishFails, PublishError
  <2>3. quarantine' \in Seq(Events)
    <3>1. quarantine \in Seq(Events)
      OBVIOUS
    <3>2. Append(quarantine, inflight) \in Seq(Events)
      BY <2>1, <3>1, AppendProperties, Zenon
    <3> QED
      BY <2>2, <3>1, <3>2
  <2> QED
    BY <1>11, <2>3 DEF PublishFails, enqueuing
<1>12. CASE DrainEnds
  BY <1>12 DEF DrainEnds, time, server, client, publisher, counters, enqueuing
<1>13. CASE ConnectionLost
  BY <1>13 DEF ConnectionLost, time, server, client, publisher, counters, enqueuing
<1>14. CASE ListChanges
  BY <1>14 DEF ListChanges, time, server, client, publisher, counters, enqueuing
<1>15. CASE Tick
  BY <1>15 DEF Tick, time, server, client, publisher, counters, enqueuing
<1>16. CASE Signal
  BY <1>16 DEF Signal, time, server, client, publisher, counters, enqueuing
<1>17. CASE LoopEnds
  BY <1>17 DEF LoopEnds, time, server, client, publisher, counters, enqueuing
<1>18. CASE Exit
  BY <1>18 DEF Exit, time, server, client, publisher, counters, enqueuing
<1>19. CASE UNCHANGED vars
  BY <1>19 DEF vars, time, server, client, publisher, counters, enqueuing
<1> QED
  BY <1>1, <1>2, <1>3, <1>4, <1>5, <1>6, <1>7, <1>8, <1>9, <1>10, <1>11, <1>12, <1>13, <1>14, <1>15, <1>16, <1>17, <1>18, <1>19
     DEF Next, Handling, Draining

CacheInv == CacheTypes /\ OneEntryPerKey

\* An element in front of a list without its key.
LEMMA FrontKeepsKeys ==
  ASSUME NEW w \in Seq(Entry), NEW x \in Entry,
         \A j \in 1 .. Len(w) : w[j].key # x.key,
         \A i, j \in 1 .. Len(w) : w[i].key = w[j].key => i = j,
         cache' = <<x>> \o w
  PROVE  OneEntryPerKey'
<1>1. /\ Len(cache') = Len(w) + 1 /\ cache'[1] = x
      /\ \A j \in 2 .. Len(w) + 1 : cache'[j] = w[j - 1]
  BY PushFront
<1> SUFFICES ASSUME NEW i \in 1 .. Len(w) + 1, NEW j \in 1 .. Len(w) + 1,
                    cache'[i].key = cache'[j].key
             PROVE  i = j
  BY <1>1 DEF OneEntryPerKey
<1>2. \A m \in 2 .. Len(w) + 1 : m - 1 \in 1 .. Len(w) /\ cache'[m].key # x.key
  BY <1>1
<1>3. CASE i = 1 \/ j = 1
  BY <1>1, <1>2, <1>3
<1>4. CASE i # 1 /\ j # 1
  BY <1>1, <1>2, <1>4
<1> QED
  BY <1>3, <1>4

\* Set leaves one element per key.
LEMMA CacheSetKeys ==
  ASSUME cache \in Seq(Entry), OneEntryPerKey, now \in Nat,
         NEW k \in Authors, NEW v \in BOOLEAN, cache' = CacheSet(k, v)
  PROVE  OneEntryPerKey'
<1> DEFINE x == [key |-> k, value |-> v, expires |-> now + TTL]
<1>1. x \in Entry /\ x.key = k
  BY RouterConstants DEF Entry
<1> HIDE DEF x
<1>2. CASE Lookup(k) # {}
  <2>1. cache' = <<x>> \o Without(k)
    BY <1>2 DEF CacheSet, x
  <2> QED
    BY <1>1, <2>1, WithoutProperties, WithoutKey, FrontKeepsKeys
<1>3. CASE Lookup(k) = {}
  <2> DEFINE w == Evict(cache)
  <2>1. cache' = <<x>> \o w
    BY <1>3 DEF CacheSet, x
  <2>2. w \in Seq(Entry) /\ Len(w) <= Len(cache) /\ \A j \in 1 .. Len(w) : w[j] = cache[j]
    <3>1. CASE Len(cache) >= CacheSize
      <4>1. Len(cache) \in Nat \ {0}
        BY <3>1, RouterConstants
      <4>2. w = Front(cache)
        BY <3>1 DEF Evict
      <4> HIDE DEF w
      <4> QED
        BY <4>1, <4>2, FrontProperties
    <3>2. CASE ~(Len(cache) >= CacheSize)
      BY <3>2 DEF Evict
    <3> QED
      BY <3>1, <3>2
  <2>3. \A j \in 1 .. Len(cache) : cache[j].key # k
    BY <1>3 DEF Lookup
  <2> HIDE DEF w
  <2>4. \A j \in 1 .. Len(w) : j \in 1 .. Len(cache)
    BY <2>2
  <2>5. \A j \in 1 .. Len(w) : w[j].key # x.key
    BY <1>1, <2>2, <2>3, <2>4
  <2>6. \A i, j \in 1 .. Len(w) : w[i].key = w[j].key => i = j
    BY <2>2, <2>4 DEF OneEntryPerKey
  <2> QED
    BY <1>1, <2>1, <2>2, <2>5, <2>6, FrontKeepsKeys
<1> QED
  BY <1>2, <1>3

\* The cache keeps its type and its bound, and one element per key.
LEMMA CacheStep == CacheInv /\ ServerTypes /\ LoopTypes /\ Control /\ [Next]_vars => CacheInv'
<1> SUFFICES ASSUME CacheInv, ServerTypes, LoopTypes, Control, [Next]_vars PROVE CacheInv'
  OBVIOUS
<1> USE RouterConstants DEF CacheInv, CacheTypes
<1>1. CASE ReadLine
  BY <1>1 DEF ReadLine, client, OneEntryPerKey
<1>2. CASE CacheHit
  <2>1. PICK i \in Lookup(Author[cur]) : cache' = <<cache[i]>> \o Without(Author[cur])
    BY <1>2 DEF CacheHit
  <2>2. i \in 1 .. Len(cache) /\ cache[i].key = Author[cur] /\ Lookup(Author[cur]) # {}
    BY DEF Lookup
  <2>3. cache[i] \in Entry
    BY <2>2
  <2> DEFINE w == Without(Author[cur])
  <2>4. w \in Seq(Entry) /\ Len(w) = Len(cache) - 1
    BY <2>2, WithoutProperties
  <2>5. /\ \A j \in 1 .. Len(w) : w[j].key # Author[cur]
        /\ \A j, m \in 1 .. Len(w) : w[j].key = w[m].key => j = m
    BY WithoutKey
  <2> HIDE DEF w
  <2>6. /\ <<cache[i]>> \o w \in Seq(Entry) /\ Len(<<cache[i]>> \o w) = Len(w) + 1
        /\ (<<cache[i]>> \o w)[1] = cache[i]
        /\ \A j \in 2 .. Len(w) + 1 : (<<cache[i]>> \o w)[j] = w[j - 1]
    BY <2>3, <2>4, PushFront
  <2>7. cache' = <<cache[i]>> \o w
    BY <2>1 DEF w
  <2>8. OneEntryPerKey'
    <3> DEFINE x == cache[i]
    <3>1. x \in Entry /\ x.key = Author[cur] /\ cache' = <<x>> \o w
      BY <2>2, <2>3, <2>7
    <3> HIDE DEF x
    <3> QED
      BY <2>4, <2>5, <3>1, FrontKeepsKeys
  <2> QED
    BY <2>4, <2>6, <2>7, <2>8
<1>3. CASE CacheMiss
  <2>1. cache' = Without(Author[cur])
    BY <1>3 DEF CacheMiss
  <2>2. Without(Author[cur]) \in Seq(Entry) /\ Len(Without(Author[cur])) <= Len(cache)
    BY WithoutProperties
  <2>3. OneEntryPerKey'
    BY <2>1, WithoutKey DEF OneEntryPerKey
  <2> QED
    BY <2>1, <2>2, <2>3
<1>4. CASE ServerAnswers
  BY <1>4 DEF ServerAnswers, client, OneEntryPerKey
<1>5. CASE Receive
  <2>1. cur \in Events /\ reply \in BOOLEAN /\ now \in Nat
    BY <1>5 DEF Receive, Control, LoopTypes, ServerTypes
  <2>2. Author[cur] \in Authors
    BY <2>1
  <2>3. cache' = CacheSet(Author[cur], reply)
    BY <1>5 DEF Receive
  <2>4. cache' \in Seq(Entry) /\ Len(cache') <= CacheSize
    BY <2>1, <2>2, <2>3, CacheSetProperties
  <2>5. OneEntryPerKey'
    BY <2>1, <2>2, <2>3, CacheSetKeys
  <2> QED
    BY <2>4, <2>5
<1>6. CASE CheckFails
  BY <1>6 DEF CheckFails, client, OneEntryPerKey
<1>7. CASE Connected
  BY <1>7 DEF Connected, client, OneEntryPerKey
<1>8. CASE ConnectFails
  BY <1>8 DEF ConnectFails, client, OneEntryPerKey
<1>9. CASE Take
  BY <1>9 DEF Take, client, OneEntryPerKey
<1>10. CASE PublishOne
  BY <1>10 DEF PublishOne, client, OneEntryPerKey
<1>11. CASE PublishFails
  BY <1>11 DEF PublishFails, client, OneEntryPerKey
<1>12. CASE DrainEnds
  BY <1>12 DEF DrainEnds, client, OneEntryPerKey
<1>13. CASE ConnectionLost
  BY <1>13 DEF ConnectionLost, client, OneEntryPerKey
<1>14. CASE ListChanges
  BY <1>14 DEF ListChanges, client, OneEntryPerKey
<1>15. CASE Tick
  BY <1>15 DEF Tick, client, OneEntryPerKey
<1>16. CASE Signal
  BY <1>16 DEF Signal, client, OneEntryPerKey
<1>17. CASE LoopEnds
  BY <1>17 DEF LoopEnds, client, OneEntryPerKey
<1>18. CASE Exit
  BY <1>18 DEF Exit, client, OneEntryPerKey
<1>19. CASE UNCHANGED vars
  BY <1>19 DEF vars, client, OneEntryPerKey
<1> QED
  BY <1>1, <1>2, <1>3, <1>4, <1>5, <1>6, <1>7, <1>8, <1>9, <1>10, <1>11, <1>12, <1>13,
     <1>14, <1>15, <1>16, <1>17, <1>18, <1>19
     DEF Next, Handling, Draining

Types == TypeOK /\ Control /\ OneEntryPerKey

\* The types and the control state hold initially.
LEMMA TypesInit == Init => Types
<1> SUFFICES ASSUME Init PROVE Types
  OBVIOUS
<1>1. ServerTypes
  BY RouterConstants DEF Init, ServerTypes
<1>2. LoopTypes
  <2>1. stopping \in BOOLEAN /\ reply \in BOOLEAN \cup {None}
    BY Zenon DEF Init
  <2>2. askedAt \in 0 .. MaxTime
    BY RouterConstants DEF Init
  <2> QED
    BY <2>1, <2>2, Zenon DEF Init, LoopTypes
<1>5. Control
  BY RouterConstants DEF Init, Control
<1>3. CacheTypes /\ OneEntryPerKey
  BY RouterConstants DEF Init, CacheTypes, OneEntryPerKey
<1>4. PublisherTypes
  BY RouterConstants DEF Init, PublisherTypes
<1> QED
  BY <1>1, <1>2, <1>3, <1>4, <1>5 DEF Types, TypeOK

\* Every step keeps the types and the control state.
LEMMA TypesStep == Types /\ [Next]_vars => Types'
<1> SUFFICES ASSUME Types, [Next]_vars PROVE Types'
  OBVIOUS
<1>1. ServerTypes /\ LoopTypes /\ CacheInv /\ PublisherTypes /\ Control
  BY DEF Types, TypeOK, CacheInv
<1>2. ServerTypes' /\ LoopTypes' /\ PublisherTypes' /\ Control'
  BY <1>1, ServerTypesStep, LoopTypesStep, PublisherTypesStep, ControlStep
<1>3. CacheInv'
  BY <1>1, CacheStep
<1> QED
  BY <1>2, <1>3 DEF Types, TypeOK, CacheInv

\* The plugin's state is well typed; the cache holds at most CacheSize answers,
\* one per author, and the queue at most BufferSize events (cache.go, publisher.go).
THEOREM TypeCorrect == Spec => [](TypeOK /\ OneEntryPerKey)
<1>1. Types => TypeOK /\ OneEntryPerKey
  BY DEF Types
<1> QED
  BY <1>1, TypesInit, TypesStep, PTL DEF Spec

-----------------------------------------------------------------------------
(* Freshness of the decisions                                              *)

\* The histories are exact at the present time and never lie in the future.
HistoryExact ==
    \A k \in Authors :
        /\ lastListed[k] <= now /\ lastUnlisted[k] <= now
        /\ k \in listed => lastListed[k] = now
        /\ k \notin listed => lastUnlisted[k] = now

\* The whitelist gave answer v for k at time t or later.
SeenAs(k, v, t) ==
    /\ v = TRUE => lastListed[k] >= t
    /\ v = FALSE => lastUnlisted[k] >= t

\* A request is within its timeout, and its answer is not older than it.
ReplyFresh ==
    loop = "ask" =>
        /\ askedAt <= now /\ now - askedAt <= Timeout
        /\ reply # None => SeenAs(Author[cur], reply, askedAt)

\* A cached answer was right at most one request before it was cached.
CacheFresh ==
    \A i \in 1 .. Len(cache) :
        SeenAs(cache[i].key, cache[i].value, cache[i].expires - TTL - Timeout)

\* The histories stay exact.
LEMMA HistoryStep == HistoryExact /\ ServerTypes /\ [Next]_vars => HistoryExact'
<1> SUFFICES ASSUME HistoryExact, ServerTypes, [Next]_vars PROVE HistoryExact'
  OBVIOUS
<1> USE DEF HistoryExact, ServerTypes
<1>1. CASE ReadLine
  BY <1>1 DEF ReadLine, time, server
<1>2. CASE CacheHit
  BY <1>2 DEF CacheHit, time, server
<1>3. CASE CacheMiss
  BY <1>3 DEF CacheMiss, time, server
<1>4. CASE ServerAnswers
  BY <1>4 DEF ServerAnswers, time, server
<1>5. CASE Receive
  BY <1>5 DEF Receive, time, server
<1>6. CASE CheckFails
  BY <1>6 DEF CheckFails, time, server
<1>7. CASE Connected
  BY <1>7 DEF Connected, time, server
<1>8. CASE ConnectFails
  BY <1>8 DEF ConnectFails, time, server
<1>9. CASE Take
  BY <1>9 DEF Take, time, server
<1>10. CASE PublishOne
  BY <1>10 DEF PublishOne, time, server
<1>11. CASE PublishFails
  BY <1>11 DEF PublishFails, time, server
<1>12. CASE DrainEnds
  BY <1>12 DEF DrainEnds, time, server
<1>13. CASE ConnectionLost
  BY <1>13 DEF ConnectionLost, time, server
<1>14. CASE ListChanges
  BY <1>14 DEF ListChanges, time, server
<1>15. CASE Tick
  BY <1>15 DEF Tick, time, server
<1>16. CASE Signal
  BY <1>16 DEF Signal, time, server
<1>17. CASE LoopEnds
  BY <1>17 DEF LoopEnds, time, server
<1>18. CASE Exit
  BY <1>18 DEF Exit, time, server
<1>19. CASE UNCHANGED vars
  BY <1>19 DEF vars, time, server, client
<1> QED
  BY <1>1, <1>2, <1>3, <1>4, <1>5, <1>6, <1>7, <1>8, <1>9, <1>10, <1>11, <1>12, <1>13,
     <1>14, <1>15, <1>16, <1>17, <1>18, <1>19
     DEF Next, Handling, Draining

\* The histories only advance.
LEMMA HistoryAdvances ==
  ASSUME ServerTypes, HistoryExact, [Next]_vars
  PROVE  \A k \in Authors : lastListed'[k] >= lastListed[k] /\ lastUnlisted'[k] >= lastUnlisted[k]
<1> USE DEF ServerTypes, HistoryExact
<1>1. CASE ListChanges
  BY <1>1 DEF ListChanges
<1>2. CASE Tick
  BY <1>2 DEF Tick
<1>3. CASE UNCHANGED <<lastListed, lastUnlisted>>
  BY <1>3
<1> QED
  BY <1>1, <1>2, <1>3
     DEF Next, Handling, Draining, vars, time, ReadLine, CacheHit, CacheMiss, ServerAnswers, Receive,
         CheckFails, Connected, ConnectFails, Take, PublishOne, PublishFails, DrainEnds,
         ConnectionLost, Signal, LoopEnds, Exit

\* What was seen stays seen.
LEMMA SeenStays ==
  ASSUME ServerTypes, HistoryExact, [Next]_vars,
         NEW k \in Authors, NEW v, NEW t \in Int, SeenAs(k, v, t)
  PROVE  SeenAs(k, v, t)'
<1>1. lastListed'[k] >= lastListed[k] /\ lastUnlisted'[k] >= lastUnlisted[k]
  BY HistoryAdvances
<1>2. /\ lastListed[k] \in Int /\ lastUnlisted[k] \in Int
      /\ lastListed'[k] \in Int /\ lastUnlisted'[k] \in Int
  BY ServerTypesStep DEF ServerTypes
<1> QED
  BY <1>1, <1>2 DEF SeenAs

\* A request and its answer stay fresh.
LEMMA ReplyStep == ReplyFresh /\ HistoryExact /\ Types /\ [Next]_vars => ReplyFresh'
<1> SUFFICES ASSUME ReplyFresh, HistoryExact, Types, [Next]_vars PROVE ReplyFresh'
  OBVIOUS
<1> USE RouterConstants DEF ReplyFresh
<1>0. loop = "ask" /\ reply # None /\ UNCHANGED <<cur, reply, askedAt>>
         => SeenAs(Author[cur], reply, askedAt)'
  <2> SUFFICES ASSUME loop = "ask", reply # None, UNCHANGED <<cur, reply, askedAt>>
               PROVE  SeenAs(Author[cur], reply, askedAt)'
    OBVIOUS
  <2>1. cur \in Events /\ askedAt \in Int /\ ServerTypes
    BY DEF Types, TypeOK, LoopTypes, Control
  <2>2. Author[cur] \in Authors
    BY <2>1
  <2>3. SeenAs(Author[cur], reply, askedAt)
    OBVIOUS
  <2> QED
    BY <2>1, <2>2, <2>3, SeenStays
<1>1. CASE ReadLine
  BY <1>1 DEF ReadLine
<1>2. CASE CacheHit
  BY <1>2 DEF CacheHit, Route, Finish
<1>3. CASE CacheMiss
  <2>1. loop' = "ask" /\ askedAt' = now /\ now' = now /\ reply' = None
    BY <1>3 DEF CacheMiss, Types, Control, time
  <2>2. now \in Int /\ Timeout \in Nat
    BY DEF Types, TypeOK, ServerTypes
  <2> QED
    BY <2>1, <2>2
<1>4. CASE ServerAnswers
  <2>1. cur \in Events /\ loop = "ask"
    BY <1>4 DEF ServerAnswers, Types, TypeOK, LoopTypes, Control
  <2>2. Author[cur] \in Authors
    BY <2>1
  <2>3. UNCHANGED <<loop, cur, askedAt, now, lastListed, lastUnlisted>>
    BY <1>4 DEF ServerAnswers, time
  <2>4. SeenAs(Author[cur], reply', askedAt)
    <3>1. CASE Author[cur] \in listed
      BY <1>4, <2>1, <2>2, <3>1 DEF ServerAnswers, SeenAs, HistoryExact
    <3>2. CASE Author[cur] \notin listed
      BY <1>4, <2>1, <2>2, <3>2 DEF ServerAnswers, SeenAs, HistoryExact
    <3> QED
      BY <3>1, <3>2
  <2> QED
    BY <2>1, <2>3, <2>4 DEF SeenAs
<1>5. CASE Receive
  BY <1>5 DEF Receive, Route, Finish
<1>6. CASE CheckFails
  BY <1>6 DEF CheckFails, Finish
<1>7. CASE Connected
  <2>1. UNCHANGED <<loop, cur, askedAt, reply, now>>
    BY <1>7 DEF Connected, client, time
  <2> QED
    BY <2>1, <1>0
<1>8. CASE ConnectFails
  <2>1. UNCHANGED <<loop, cur, askedAt, reply, now>>
    BY <1>8 DEF ConnectFails, client, time
  <2> QED
    BY <2>1, <1>0
<1>9. CASE Take
  <2>1. UNCHANGED <<loop, cur, askedAt, reply, now>>
    BY <1>9 DEF Take, client, time
  <2> QED
    BY <2>1, <1>0
<1>10. CASE PublishOne
  <2>1. UNCHANGED <<loop, cur, askedAt, reply, now>>
    BY <1>10 DEF PublishOne, client, time
  <2> QED
    BY <2>1, <1>0
<1>11. CASE PublishFails
  <2>1. UNCHANGED <<loop, cur, askedAt, reply, now>>
    BY <1>11 DEF PublishFails, client, time
  <2> QED
    BY <2>1, <1>0
<1>12. CASE DrainEnds
  <2>1. UNCHANGED <<loop, cur, askedAt, reply, now>>
    BY <1>12 DEF DrainEnds, client, time
  <2> QED
    BY <2>1, <1>0
<1>13. CASE ConnectionLost
  <2>1. UNCHANGED <<loop, cur, askedAt, reply, now>>
    BY <1>13 DEF ConnectionLost, client, time
  <2> QED
    BY <2>1, <1>0
<1>14. CASE ListChanges
  <2>1. UNCHANGED <<loop, cur, askedAt, reply, now>>
    BY <1>14 DEF ListChanges, client
  <2> QED
    BY <2>1, <1>0
<1>15. CASE Tick
  <2>1. now' = now + 1 /\ UNCHANGED <<loop, cur, askedAt, reply>>
    BY <1>15 DEF Tick, client
  <2>2. loop = "ask" => now - askedAt < Timeout
    BY <1>15 DEF Tick
  <2>3. now \in Nat /\ askedAt \in Nat
    BY DEF Types, TypeOK, ServerTypes, LoopTypes
  <2> QED
    BY <1>0, <2>1, <2>2, <2>3
<1>16. CASE Signal
  <2>1. UNCHANGED <<loop, cur, askedAt, reply, now>>
    BY <1>16 DEF Signal, client, time
  <2> QED
    BY <2>1, <1>0
<1>17. CASE LoopEnds
  BY <1>17 DEF LoopEnds
<1>18. CASE Exit
  BY <1>18 DEF Exit
<1>19. CASE UNCHANGED vars
  <2>1. UNCHANGED <<loop, cur, askedAt, reply, now>>
    BY <1>19 DEF vars, client, time
  <2> QED
    BY <1>0, <2>1
<1> QED
  BY <1>1, <1>2, <1>3, <1>4, <1>5, <1>6, <1>7, <1>8, <1>9, <1>10, <1>11, <1>12, <1>13,
     <1>14, <1>15, <1>16, <1>17, <1>18, <1>19
     DEF Next, Handling, Draining

\* An element of the cache was there before, or is the answer just received.
LEMMA CacheEntries ==
  ASSUME Types, [Next]_vars, NEW j \in 1 .. Len(cache')
  PROVE  \/ \E m \in 1 .. Len(cache) : cache'[j] = cache[m]
         \/ /\ loop = "ask" /\ reply # None
            /\ cache'[j] = [key |-> Author[cur], value |-> reply, expires |-> now + TTL]
<1>0. cache \in Seq(Entry) /\ Len(cache) <= CacheSize /\ Len(cache) \in Nat /\ Len(cache') \in Nat
  BY TypesStep DEF Types, TypeOK, CacheTypes
<1>1. CASE CacheHit
  <2>1. PICK i \in Lookup(Author[cur]) : cache' = <<cache[i]>> \o Without(Author[cur])
    BY <1>1 DEF CacheHit
  <2>2. i \in 1 .. Len(cache)
    BY DEF Lookup
  <2> DEFINE w == Without(Author[cur])
  <2>3. w \in Seq(Entry) /\ \A n \in 1 .. Len(w) : \E m \in 1 .. Len(cache) : w[n] = cache[m]
    BY <1>0, WithoutProperties
  <2>4. cache' = <<cache[i]>> \o w
    BY <2>1
  <2> HIDE DEF w
  <2>5. /\ Len(cache') = Len(w) + 1 /\ cache'[1] = cache[i]
        /\ \A n \in 2 .. Len(w) + 1 : cache'[n] = w[n - 1]
    <3> DEFINE x == cache[i]
    <3>1. x \in Entry /\ cache' = <<x>> \o w
      BY <1>0, <2>2, <2>4
    <3> HIDE DEF x
    <3>2. /\ Len(cache') = Len(w) + 1 /\ cache'[1] = x
          /\ \A n \in 2 .. Len(w) + 1 : cache'[n] = w[n - 1]
      BY <2>3, <3>1, PushFront
    <3> QED
      BY <3>2 DEF x
  <2>6. CASE j = 1
    BY <2>2, <2>5, <2>6
  <2>7. CASE j # 1
    <3>1. Len(w) \in Nat /\ j \in 2 .. Len(w) + 1 /\ j - 1 \in 1 .. Len(w)
      BY <2>3, <2>5, <2>7
    <3>2. cache'[j] = w[j - 1]
      BY <2>5, <3>1
    <3>3. PICK m \in 1 .. Len(cache) : w[j - 1] = cache[m]
      BY <2>3, <3>1
    <3> QED
      BY <3>2, <3>3
  <2> QED
    BY <2>6, <2>7
<1>2. CASE CacheMiss
  BY <1>0, <1>2, WithoutProperties DEF CacheMiss
<1>3. CASE Receive
  <2>1. loop = "ask" /\ reply # None /\ cache' = CacheSet(Author[cur], reply)
    BY <1>3 DEF Receive
  <2>2. cur \in Events /\ reply \in BOOLEAN /\ now \in Nat
    BY <2>1, RouterConstants DEF Types, TypeOK, Control, LoopTypes, ServerTypes
  <2>3. Author[cur] \in Authors
    BY <2>2, RouterConstants
  <2>4. /\ cache'[1] = [key |-> Author[cur], value |-> reply, expires |-> now + TTL]
        /\ \A n \in 2 .. Len(cache') : \E m \in 1 .. Len(cache) : cache'[n] = cache[m]
    BY <1>0, <2>1, <2>2, <2>3, CacheSetProperties
  <2> QED
    BY <1>0, <2>1, <2>4
<1>4. CASE cache' = cache
  BY <1>4
<1> QED
  BY <1>1, <1>2, <1>3, <1>4
     DEF Next, Handling, Draining, vars, client, ReadLine, ServerAnswers, CheckFails, Connected,
         ConnectFails, Take, PublishOne, PublishFails, DrainEnds, ConnectionLost, ListChanges,
         Tick, Signal, LoopEnds, Exit

\* The cache stays fresh.
LEMMA CacheFreshStep ==
    CacheFresh /\ ReplyFresh /\ HistoryExact /\ Types /\ [Next]_vars => CacheFresh'
<1> SUFFICES ASSUME CacheFresh, ReplyFresh, HistoryExact, Types, [Next]_vars,
                    NEW j \in 1 .. Len(cache')
             PROVE  /\ cache'[j].value = TRUE =>
                          lastListed'[cache'[j].key] >= cache'[j].expires - TTL - Timeout
                    /\ cache'[j].value = FALSE =>
                          lastUnlisted'[cache'[j].key] >= cache'[j].expires - TTL - Timeout
  BY DEF CacheFresh, SeenAs
<1> DEFINE x == cache'[j]
<1>1. ServerTypes /\ cache \in Seq(Entry) /\ now \in Nat /\ TTL \in Nat /\ Timeout \in Nat
  BY RouterConstants DEF Types, TypeOK, CacheTypes, ServerTypes
<1>2. /\ x.key \in Authors /\ x.expires - TTL - Timeout \in Int
      /\ SeenAs(x.key, x.value, x.expires - TTL - Timeout)
  <2>1. CASE \E m \in 1 .. Len(cache) : x = cache[m]
    <3>1. PICK m \in 1 .. Len(cache) : x = cache[m]
      BY <2>1
    <3>2. x \in Entry
      BY <1>1, <3>1
    <3> HIDE DEF x
    <3> QED
      BY <1>1, <3>1, <3>2 DEF CacheFresh, Entry
  <2>2. CASE /\ loop = "ask" /\ reply # None
             /\ x = [key |-> Author[cur], value |-> reply, expires |-> now + TTL]
    <3>1. cur \in Events /\ askedAt \in Int
      BY <2>2 DEF Types, TypeOK, LoopTypes, Control
    <3>2. Author[cur] \in Authors
      BY <3>1, RouterConstants
    <3>3. SeenAs(Author[cur], reply, askedAt) /\ now - askedAt <= Timeout
      BY <2>2 DEF ReplyFresh
    <3>4. lastListed[Author[cur]] \in Int /\ lastUnlisted[Author[cur]] \in Int
      BY <1>1, <3>2 DEF ServerTypes
    <3>5. now + TTL - TTL - Timeout <= askedAt
      BY <1>1, <3>1, <3>3
    <3>6. SeenAs(Author[cur], reply, now + TTL - TTL - Timeout)
      BY <1>1, <3>1, <3>3, <3>4, <3>5 DEF SeenAs
    <3>7. x.key = Author[cur] /\ x.value = reply /\ x.expires = now + TTL
      BY <2>2
    <3> HIDE DEF x
    <3> QED
      BY <1>1, <3>2, <3>6, <3>7
  <2> QED
    BY <2>1, <2>2, CacheEntries
<1> DEFINE k == x.key v == x.value t == x.expires - TTL - Timeout
<1>3. k \in Authors /\ t \in Int /\ SeenAs(k, v, t)
  BY <1>2
<1> HIDE DEF k, v, t
<1>4. lastListed'[k] >= lastListed[k] /\ lastUnlisted'[k] >= lastUnlisted[k]
  BY <1>1, <1>3, HistoryAdvances
<1>5. /\ lastListed[k] \in Int /\ lastUnlisted[k] \in Int
      /\ lastListed'[k] \in Int /\ lastUnlisted'[k] \in Int
  BY <1>1, <1>3, ServerTypesStep DEF ServerTypes
<1>6. (v = TRUE => lastListed'[k] >= t) /\ (v = FALSE => lastUnlisted'[k] >= t)
  BY <1>3, <1>4, <1>5 DEF SeenAs
<1> QED
  BY <1>6 DEF k, v, t

FreshInv == Types /\ HistoryExact /\ ReplyFresh /\ CacheFresh

\* FreshInv is inductive.
LEMMA FreshInvariant == Spec => []FreshInv
<1>1. Init => FreshInv
  <2> SUFFICES ASSUME Init PROVE FreshInv
    OBVIOUS
  <2>1. HistoryExact
    BY RouterConstants DEF Init, HistoryExact
  <2>2. ReplyFresh /\ CacheFresh
    BY DEF Init, ReplyFresh, CacheFresh
  <2> QED
    BY <2>1, <2>2, TypesInit DEF FreshInv
<1>2. FreshInv /\ [Next]_vars => FreshInv'
  <2> SUFFICES ASSUME FreshInv, [Next]_vars PROVE FreshInv'
    OBVIOUS
  <2>1. Types /\ HistoryExact /\ ReplyFresh /\ CacheFresh /\ ServerTypes
    BY DEF FreshInv, Types, TypeOK
  <2> QED
    BY <2>1, TypesStep, HistoryStep, ReplyStep, CacheFreshStep DEF FreshInv
<1> QED
  BY <1>1, <1>2, PTL DEF Spec

\* Handle decides on an answer that was right at most TTL + Timeout ago.
LEMMA RouteIsFresh ==
  ASSUME FreshInv, NEW v, CacheHit \/ Receive, Route(v), cur \in Events,
         \/ /\ CacheHit
            /\ \E i \in Lookup(Author[cur]) : ~Expired(cache[i]) /\ v = cache[i].value
         \/ Receive /\ v = reply
  PROVE  v \in BOOLEAN /\ SeenAs(Author[cur], v, now - TTL - Timeout)
<1>1. /\ Author[cur] \in Authors /\ now \in Nat /\ TTL \in Nat /\ Timeout \in Nat
      /\ lastListed[Author[cur]] \in Int /\ lastUnlisted[Author[cur]] \in Int
      /\ cache \in Seq(Entry)
  BY RouterConstants DEF FreshInv, Types, TypeOK, ServerTypes, CacheTypes
<1>2. CASE CacheHit /\ \E i \in Lookup(Author[cur]) : ~Expired(cache[i]) /\ v = cache[i].value
  <2>1. PICK i \in 1 .. Len(cache) :
           cache[i].key = Author[cur] /\ ~(now > cache[i].expires) /\ v = cache[i].value
    BY <1>2 DEF Lookup, Expired
  <2>2. cache[i] \in Entry
    BY <1>1
  <2>3. SeenAs(Author[cur], v, cache[i].expires - TTL - Timeout)
    BY <2>1 DEF FreshInv, CacheFresh
  <2>4. v \in BOOLEAN /\ cache[i].expires \in Nat
    BY <2>1, <2>2 DEF Entry
  <2> QED
    BY <1>1, <2>1, <2>3, <2>4 DEF SeenAs
<1>3. CASE Receive /\ v = reply
  <2>1. loop = "ask" /\ reply # None
    BY <1>3 DEF Receive
  <2>2. SeenAs(Author[cur], v, askedAt) /\ now - askedAt <= Timeout
    BY <1>3, <2>1 DEF FreshInv, ReplyFresh
  <2>3. v \in BOOLEAN /\ askedAt \in Nat
    BY <1>3, <2>1 DEF FreshInv, Types, TypeOK, LoopTypes
  <2> QED
    BY <1>1, <2>2, <2>3 DEF SeenAs
<1> QED
  BY <1>2, <1>3

\* Every decision is fresh, for every TTL and timeout: an accepted author was on
\* the whitelist, and a rejected one off it, at most TTL + Timeout earlier
\* (WhitelistClient.IsWhitelisted, ttlCache).
THEOREM Freshness == Spec => DecisionsFresh
<1> DEFINE A == \A e \in Events : decided[e] = None =>
                  /\ decided'[e] = "accept" => now - lastListed[Author[e]] <= TTL + Timeout
                  /\ decided'[e] = "not_in_wot" => now - lastUnlisted[Author[e]] <= TTL + Timeout
<1>1. FreshInv /\ [Next]_vars => [A]_vars
  <2> SUFFICES ASSUME FreshInv, [Next]_vars, NEW e \in Events, decided[e] = None,
                      decided'[e] \in {"accept", "not_in_wot"}
               PROVE  /\ decided'[e] = "accept" =>
                            now - lastListed[Author[e]] <= TTL + Timeout
                      /\ decided'[e] = "not_in_wot" =>
                            now - lastUnlisted[Author[e]] <= TTL + Timeout
    OBVIOUS
  <2>0. decided \in [Events -> Verdicts \cup {None}] /\ Types
    BY DEF FreshInv, Types, TypeOK, LoopTypes
  <2>1. PICK v : /\ Route(v)
                 /\ \/ /\ CacheHit
                       /\ \E i \in Lookup(Author[cur]) : ~Expired(cache[i]) /\ v = cache[i].value
                    \/ Receive /\ v = reply
    <3>1. CASE CacheHit
      BY <3>1 DEF CacheHit
    <3>2. CASE Receive
      BY <3>2 DEF Receive
    <3>3. CASE ReadLine
      BY <2>0, <3>3, RouterConstants DEF ReadLine, Verdicts
    <3>4. CASE CheckFails
      BY <2>0, <3>4, RouterConstants DEF CheckFails, Finish, Verdicts
    <3>5. CASE decided' = decided
      BY <3>5, RouterConstants DEF Verdicts
    <3> QED
      BY <3>1, <3>2, <3>3, <3>4, <3>5
         DEF Next, Handling, Draining, vars, CacheMiss, ServerAnswers, Connected, ConnectFails, Take,
             PublishOne, PublishFails, DrainEnds, ConnectionLost, ListChanges, Tick, Signal, LoopEnds,
             Exit
  <2>2. cur \in Events
    BY <2>0, <2>1, RouterConstants DEF Types, TypeOK, LoopTypes, Control, CacheHit, Receive
  <2>3. v \in BOOLEAN /\ SeenAs(Author[cur], v, now - TTL - Timeout)
    BY <2>1, <2>2, RouteIsFresh
  <2>4. e = cur /\ decided'[e] = IF v THEN "accept" ELSE "not_in_wot"
    <3>1. decided' = [decided EXCEPT ![cur] = IF v THEN "accept" ELSE "not_in_wot"]
      BY <2>1 DEF Route, Finish
    <3> QED
      BY <2>0, <2>2, <3>1, RouterConstants DEF Verdicts
  <2>5. /\ now \in Int /\ TTL \in Int /\ Timeout \in Int
        /\ lastListed[Author[e]] \in Int /\ lastUnlisted[Author[e]] \in Int
    BY RouterConstants DEF FreshInv, Types, TypeOK, ServerTypes
  <2>6. CASE v = TRUE
    BY <2>3, <2>4, <2>5, <2>6 DEF SeenAs
  <2>7. CASE v = FALSE
    BY <2>3, <2>4, <2>5, <2>7 DEF SeenAs
  <2> QED
    BY <2>3, <2>6, <2>7
<1> QED
  BY <1>1, FreshInvariant, PTL DEF Spec, DecisionsFresh

-----------------------------------------------------------------------------
(* The publisher's counters                                                *)

Sent == published + publishErrors

\* The events taken are, in order, those sent, the one in flight and those queued.
QueueInv ==
    /\ Len(enqueued) = Sent + Len(queue) + (IF inflight = None THEN 0 ELSE 1)
    /\ \A i \in 1 .. Len(queue) : queue[i] = enqueued[Len(enqueued) - Len(queue) + i]
    /\ inflight # None => inflight = enqueued[Sent + 1]

\* The relay has a subsequence of the events sent: a failed one may be missing.
RelayInv ==
    \E f \in [1 .. Len(quarantine) -> 1 .. Sent] :
        /\ \A i \in 1 .. Len(quarantine) : quarantine[i] = enqueued[f[i]]
        /\ \A i, j \in 1 .. Len(quarantine) : i < j => f[i] < f[j]

\* The events offered to the queue, taken or dropped.
Offered == Elements(enqueued) \cup dropped

\* Each rejected event worth keeping was offered, and each was taken at most once.
OfferedInv ==
    /\ {e \in Keep : decided[e] = "not_in_wot"} = Offered
    /\ \A i, j \in 1 .. Len(enqueued) : i # j => enqueued[i] # enqueued[j]

\* Only these steps touch the publisher's queue, its counters and the relay.
LEMMA PublisherFrame ==
  ASSUME [Next]_vars
  PROVE  \/ (CacheHit \/ Receive) /\ Enqueue(cur)
               /\ UNCHANGED <<inflight, published, publishErrors, quarantine>>
         \/ Take \/ PublishOne \/ PublishFails
         \/ UNCHANGED <<queue, enqueued, dropped, inflight, published, publishErrors, quarantine>>
  BY DEF Next, Handling, Draining, vars, publisher, counters, enqueuing, Route, ReadLine, CacheHit,
         CacheMiss, ServerAnswers, Receive, CheckFails, Connected, ConnectFails, DrainEnds,
         ConnectionLost, ListChanges, Tick, Signal, LoopEnds, Exit

\* Enqueue appends the event to the queue and to the history, or neither.
LEMMA EnqueueAppends ==
  ASSUME Types, NEW e \in Events, Enqueue(e)
  PROVE  \/ /\ Len(queue') = Len(queue) + 1 /\ Len(enqueued') = Len(enqueued) + 1
            /\ \A i \in 1 .. Len(queue) : queue'[i] = queue[i]
            /\ queue'[Len(queue) + 1] = e
            /\ \A i \in 1 .. Len(enqueued) : enqueued'[i] = enqueued[i]
            /\ enqueued'[Len(enqueued) + 1] = e
            /\ dropped' = dropped
         \/ queue' = queue /\ enqueued' = enqueued /\ dropped' = dropped \cup {e}
<1>1. queue \in Seq(Events) /\ enqueued \in Seq(Events)
  BY DEF Types, TypeOK, PublisherTypes
<1>2. CASE Len(queue) < BufferSize
  <2>1. queue' = Append(queue, e) /\ enqueued' = Append(enqueued, e) /\ dropped' = dropped
    BY <1>2 DEF Enqueue
  <2> QED
    BY <1>1, <2>1, AppendProperties
<1>3. CASE ~(Len(queue) < BufferSize)
  BY <1>3 DEF Enqueue
<1> QED
  BY <1>2, <1>3

\* The queue stays the tail of the events taken.
LEMMA QueueStep == QueueInv /\ Types /\ [Next]_vars => QueueInv'
<1> SUFFICES ASSUME QueueInv, Types, [Next]_vars PROVE QueueInv'
  OBVIOUS
<1>0. /\ queue \in Seq(Events) /\ enqueued \in Seq(Events)
      /\ published \in Nat /\ publishErrors \in Nat
      /\ Len(queue) \in Nat /\ Len(enqueued) \in Nat
  BY DEF Types, TypeOK, PublisherTypes
<1>1. CASE (CacheHit \/ Receive) /\ Enqueue(cur)
             /\ UNCHANGED <<inflight, published, publishErrors, quarantine>>
  <2>1. cur \in Events
    BY <1>1 DEF Types, TypeOK, LoopTypes, Control, CacheHit, Receive
  <2>2. CASE queue' = queue /\ enqueued' = enqueued
    BY <1>1, <2>2 DEF QueueInv, Sent
  <2>3. CASE /\ Len(queue') = Len(queue) + 1 /\ Len(enqueued') = Len(enqueued) + 1
             /\ \A i \in 1 .. Len(queue) : queue'[i] = queue[i]
             /\ queue'[Len(queue) + 1] = cur
             /\ \A i \in 1 .. Len(enqueued) : enqueued'[i] = enqueued[i]
             /\ enqueued'[Len(enqueued) + 1] = cur
    <3>1. Len(enqueued') = Sent' + Len(queue') + (IF inflight' = None THEN 0 ELSE 1)
      BY <1>0, <1>1, <2>3 DEF QueueInv, Sent
    <3>2. inflight' # None => inflight' = enqueued'[Sent' + 1]
      <4>1. inflight # None => Sent + 1 \in 1 .. Len(enqueued)
        BY <1>0 DEF QueueInv, Sent
      <4> QED
        BY <1>1, <2>3, <4>1 DEF QueueInv, Sent
    <3>3. ASSUME NEW i \in 1 .. Len(queue')
          PROVE  queue'[i] = enqueued'[Len(enqueued') - Len(queue') + i]
      <4>1. Len(enqueued') - Len(queue') + i = Len(enqueued) - Len(queue) + i
        BY <1>0, <2>3
      <4>2. Len(queue) <= Len(enqueued)
        BY <1>0 DEF QueueInv, Sent
      <4>3. CASE i \in 1 .. Len(queue)
        <5>1. Len(enqueued) - Len(queue) + i \in 1 .. Len(enqueued)
          BY <1>0, <4>2, <4>3
        <5> QED
          BY <2>3, <4>1, <4>3, <5>1 DEF QueueInv
      <4>4. CASE i = Len(queue) + 1
        BY <1>0, <2>3, <4>1, <4>4
      <4> QED
        BY <1>0, <2>3, <4>3, <4>4
    <3> QED
      BY <3>1, <3>2, <3>3 DEF QueueInv
  <2> QED
    BY <1>1, <2>1, <2>2, <2>3, EnqueueAppends
<1>2. CASE Take
  <2>1. /\ queue # <<>> /\ inflight = None
        /\ inflight' = Head(queue) /\ queue' = Tail(queue)
        /\ UNCHANGED <<enqueued, published, publishErrors>>
    BY <1>2 DEF Take, counters, Types, Control
  <2>2. /\ Head(queue) = queue[1] /\ Head(queue) \in Events /\ Len(queue) \in Nat \ {0}
        /\ Len(Tail(queue)) = Len(queue) - 1
        /\ \A i \in 1 .. Len(queue) - 1 : Tail(queue)[i] = queue[i + 1]
    BY <1>0, <2>1, HeadTailProperties, EmptySeq
  <2>3. inflight' # None
    BY <2>1, <2>2, RouterConstants
  <2>4. Len(enqueued') = Sent' + Len(queue') + (IF inflight' = None THEN 0 ELSE 1)
    BY <1>0, <2>1, <2>2, <2>3 DEF QueueInv, Sent
  <2>5. inflight' = enqueued'[Sent' + 1]
    <3>1. Len(enqueued) - Len(queue) + 1 = Sent + 1 /\ 1 \in 1 .. Len(queue)
      BY <1>0, <2>1, <2>2 DEF QueueInv, Sent
    <3> QED
      BY <2>1, <2>2, <3>1 DEF QueueInv, Sent
  <2>6. ASSUME NEW i \in 1 .. Len(queue')
        PROVE  queue'[i] = enqueued'[Len(enqueued') - Len(queue') + i]
    <3>1. i \in 1 .. Len(queue) - 1 /\ i + 1 \in 1 .. Len(queue)
      BY <1>0, <2>1, <2>2
    <3>2. Len(enqueued') - Len(queue') + i = Len(enqueued) - Len(queue) + (i + 1)
      BY <1>0, <2>1, <2>2
    <3> QED
      BY <2>1, <2>2, <3>1, <3>2 DEF QueueInv
  <2> QED
    BY <2>4, <2>5, <2>6 DEF QueueInv
<1>3. CASE PublishOne \/ PublishFails
  <2>1. inflight # None /\ inflight' = None /\ UNCHANGED <<queue, enqueued>>
    BY <1>3 DEF PublishOne, PublishFails, enqueuing, Types, Control
  <2>2. Sent' = Sent + 1
    BY <1>0, <1>3 DEF PublishOne, PublishFails, Sent
  <2>3. Len(enqueued') = Sent' + Len(queue') + (IF inflight' = None THEN 0 ELSE 1)
    <3>1. Sent \in Nat
      BY <1>0 DEF Sent
    <3> QED
      BY <1>0, <2>1, <2>2, <3>1 DEF QueueInv
  <2> QED
    BY <2>1, <2>3 DEF QueueInv
<1>4. CASE UNCHANGED <<queue, enqueued, dropped, inflight, published, publishErrors, quarantine>>
  BY <1>4 DEF QueueInv, Sent
<1> QED
  BY <1>1, <1>2, <1>3, <1>4, PublisherFrame

\* Every step keeps the relay's events a subsequence of the events sent.
LEMMA RelayStep == RelayInv /\ QueueInv /\ Types /\ [Next]_vars => RelayInv'
<1> SUFFICES ASSUME RelayInv, QueueInv, Types, [Next]_vars PROVE RelayInv'
  OBVIOUS
<1>0. /\ enqueued \in Seq(Events) /\ quarantine \in Seq(Events) /\ Sent \in Nat
      /\ Len(queue) \in Nat /\ Len(enqueued) \in Nat /\ Len(quarantine) \in Nat
      /\ published \in Nat /\ publishErrors \in Nat
  BY DEF Types, TypeOK, PublisherTypes, Sent
<1>1. PICK f \in [1 .. Len(quarantine) -> 1 .. Sent] :
         /\ \A i \in 1 .. Len(quarantine) : quarantine[i] = enqueued[f[i]]
         /\ \A i, j \in 1 .. Len(quarantine) : i < j => f[i] < f[j]
  BY DEF RelayInv
<1>2. CASE (CacheHit \/ Receive) /\ Enqueue(cur)
             /\ UNCHANGED <<inflight, published, publishErrors, quarantine>>
  <2>1. cur \in Events
    BY <1>2 DEF Types, TypeOK, LoopTypes, Control, CacheHit, Receive
  <2>2. \A i \in 1 .. Len(enqueued) : enqueued'[i] = enqueued[i]
    BY <1>2, <2>1, EnqueueAppends
  <2>3. \A i \in 1 .. Sent : i \in 1 .. Len(enqueued)
    <3>1. Sent <= Len(enqueued)
      BY <1>0 DEF QueueInv
    <3> QED
      BY <1>0, <3>1
  <2>4. Sent' = Sent /\ quarantine' = quarantine
    BY <1>2 DEF Sent
  <2>5. \A i \in 1 .. Len(quarantine) : quarantine[i] = enqueued'[f[i]]
    BY <1>1, <2>2, <2>3
  <2> QED
    BY <1>1, <2>4, <2>5 DEF RelayInv
<1>3. CASE PublishOne \/ PublishFails
  <2>0. enqueued' = enqueued
    BY <1>3 DEF PublishOne, PublishFails, enqueuing
  <2>1. Sent' = Sent + 1 /\ enqueued' = enqueued
    <3>1. CASE PublishOne
      BY <1>0, <2>0, <3>1 DEF PublishOne, Sent
    <3>2. CASE PublishFails
      BY <1>0, <2>0, <3>2 DEF PublishFails, Sent
    <3> QED
      BY <1>3, <3>1, <3>2
  <2>2. inflight \in Events /\ inflight = enqueued[Sent + 1]
    BY <1>3 DEF PublishOne, PublishFails, Types, TypeOK, PublisherTypes, Control, QueueInv
  <2>3. CASE quarantine' = quarantine
    <3>1. f \in [1 .. Len(quarantine) -> 1 .. Sent + 1]
      BY <1>0, <1>1
    <3> QED
      BY <1>1, <2>1, <2>3, <3>1 DEF RelayInv
  <2>4. CASE quarantine' = Append(quarantine, inflight)
    <3>1. /\ Len(quarantine') = Len(quarantine) + 1
          /\ \A i \in 1 .. Len(quarantine) : quarantine'[i] = quarantine[i]
          /\ quarantine'[Len(quarantine) + 1] = inflight
      BY <1>0, <2>2, <2>4, AppendProperties
    <3> DEFINE n == Len(quarantine)
               g == [i \in 1 .. n + 1 |-> IF i <= n THEN f[i] ELSE Sent + 1]
    <3>2. n \in Nat /\ \A i \in 1 .. n + 1 : i # n + 1 => i \in 1 .. n
      BY <1>0
    <3>3. \A i \in 1 .. n : f[i] \in 1 .. Sent
      BY <1>1
    <3>4. g \in [1 .. n + 1 -> 1 .. Sent + 1]
      BY <1>0, <3>2, <3>3
    <3>5. /\ \A i \in 1 .. n : g[i] = f[i]
          /\ g[n + 1] = Sent + 1
      BY <3>2
    <3> HIDE DEF g
    <3>6. \A i \in 1 .. n + 1 : quarantine'[i] = enqueued[g[i]]
      BY <1>1, <2>2, <3>1, <3>2, <3>5
    <3>7. \A i, j \in 1 .. n + 1 : i < j => g[i] < g[j]
      <4> SUFFICES ASSUME NEW i \in 1 .. n + 1, NEW j \in 1 .. n + 1, i < j
                   PROVE  g[i] < g[j]
        OBVIOUS
      <4>1. i \in 1 .. n
        BY <3>2
      <4>2. CASE j \in 1 .. n
        BY <1>1, <3>5, <4>1, <4>2
      <4>3. CASE j = n + 1
        BY <1>0, <3>3, <3>5, <4>1, <4>3
      <4> QED
        BY <3>2, <4>2, <4>3
    <3> QED
      BY <2>1, <3>1, <3>4, <3>6, <3>7 DEF RelayInv
  <2> QED
    BY <1>3, <2>3, <2>4 DEF PublishOne, PublishFails, PublishError
<1>4. CASE Take
  <2>1. UNCHANGED <<enqueued, quarantine, published, publishErrors>>
    BY <1>4 DEF Take, counters
  <2> QED
    BY <1>1, <2>1 DEF RelayInv, Sent
<1>5. CASE UNCHANGED <<queue, enqueued, dropped, inflight, published, publishErrors, quarantine>>
  BY <1>1, <1>5 DEF RelayInv, Sent
<1> QED
  BY <1>2, <1>3, <1>4, <1>5, PublisherFrame

\* Every step keeps the offered events exactly the rejected ones.
LEMMA OfferedStep == OfferedInv /\ Types /\ [Next]_vars => OfferedInv'
<1> SUFFICES ASSUME OfferedInv, Types, [Next]_vars PROVE OfferedInv'
  OBVIOUS
<1>0. /\ decided \in [Events -> Verdicts \cup {None}] /\ Keep \subseteq Events
      /\ enqueued \in Seq(Events) /\ Len(enqueued) \in Nat /\ None \notin Verdicts
  BY RouterConstants DEF Types, TypeOK, LoopTypes, PublisherTypes
<1> DEFINE Rejected == {e \in Keep : decided[e] = "not_in_wot"}
<1>1. CASE CacheHit \/ Receive
  <2>1. cur \in Events /\ decided[cur] = None
    BY <1>1 DEF Types, TypeOK, LoopTypes, Control, CacheHit, Receive
  <2>2. PICK v : Route(v)
    BY <1>1 DEF CacheHit, Receive
  <2>3. decided' = [decided EXCEPT ![cur] = IF v THEN "accept" ELSE "not_in_wot"]
    BY <2>2 DEF Route, Finish
  <2>4. cur \notin Offered
    BY <1>0, <2>1 DEF OfferedInv, Verdicts
  <2>5. CASE ~v /\ cur \in Keep
    <3>1. Enqueue(cur)
      BY <2>2, <2>5 DEF Route
    <3>2. Rejected' = Rejected \cup {cur}
      BY <1>0, <2>1, <2>3, <2>5
    <3>3. CASE enqueued' = enqueued /\ dropped' = dropped \cup {cur}
      BY <3>2, <3>3 DEF OfferedInv, Offered, Elements
    <3>4. CASE /\ Len(enqueued') = Len(enqueued) + 1
               /\ \A i \in 1 .. Len(enqueued) : enqueued'[i] = enqueued[i]
               /\ enqueued'[Len(enqueued) + 1] = cur
               /\ dropped' = dropped
      <4>1. \A i \in 1 .. Len(enqueued') : i # Len(enqueued) + 1 => i \in 1 .. Len(enqueued)
        BY <1>0, <3>4
      <4>2. \A i \in 1 .. Len(enqueued) : i \in 1 .. Len(enqueued')
        BY <1>0, <3>4
      <4>3. Len(enqueued) + 1 \in 1 .. Len(enqueued')
        BY <1>0, <3>4
      <4>4. Elements(enqueued)' = Elements(enqueued) \cup {cur}
        BY <3>4, <4>1, <4>2, <4>3 DEF Elements
      <4>5. \A i \in 1 .. Len(enqueued) : enqueued[i] # cur
        BY <2>4 DEF Offered, Elements
      <4>6. \A i, j \in 1 .. Len(enqueued') : i # j => enqueued'[i] # enqueued'[j]
        BY <3>4, <4>1, <4>5 DEF OfferedInv
      <4> QED
        BY <3>2, <3>4, <4>4, <4>6 DEF OfferedInv, Offered
    <3> QED
      BY <2>1, <3>1, <3>3, <3>4, EnqueueAppends
  <2>6. CASE v \/ cur \notin Keep
    <3>1. UNCHANGED <<enqueued, dropped>>
      BY <2>2, <2>6 DEF Route, enqueuing
    <3>2. Rejected' = Rejected
      BY <1>0, <2>1, <2>3, <2>6 DEF Verdicts
    <3> QED
      BY <3>1, <3>2 DEF OfferedInv, Offered
  <2> QED
    BY <2>5, <2>6
<1>2. CASE ReadLine
  <2>1. UNCHANGED <<enqueued, dropped>>
    BY <1>2 DEF ReadLine, enqueuing
  <2>2. \A e \in Events : decided'[e] = "not_in_wot" <=> decided[e] = "not_in_wot"
    <3>1. PICK i \in 1 .. Len(Input) :
             /\ decided[Input[i]] = None
             /\ decided' = decided \/ decided' = [decided EXCEPT ![Input[i]] = "malformed"]
      BY <1>2 DEF ReadLine
    <3> QED
      BY <1>0, <3>1 DEF Verdicts
  <2> QED
    BY <1>0, <2>1, <2>2 DEF OfferedInv, Offered
<1>3. CASE CheckFails
  <2>1. UNCHANGED <<enqueued, dropped>>
    BY <1>3 DEF CheckFails, enqueuing
  <2>2. cur \in Events /\ decided[cur] = None
    BY <1>3 DEF Types, TypeOK, LoopTypes, Control, CheckFails
  <2>3. \A e \in Events : decided'[e] = "not_in_wot" <=> decided[e] = "not_in_wot"
    BY <1>0, <1>3, <2>2 DEF CheckFails, Finish, Verdicts
  <2> QED
    BY <1>0, <2>1, <2>3 DEF OfferedInv, Offered
<1>4. CASE UNCHANGED <<decided, enqueued, dropped>>
  BY <1>4 DEF OfferedInv, Offered
<1> QED
  BY <1>1, <1>2, <1>3, <1>4
     DEF Next, Handling, Draining, vars, enqueuing, CacheMiss, ServerAnswers, Connected, ConnectFails,
         Take, PublishOne, PublishFails, DrainEnds, ConnectionLost, ListChanges, Tick, Signal,
         LoopEnds, Exit

CountersInv == Types /\ QueueInv /\ RelayInv /\ OfferedInv

\* CountersInv implies the property: the range of the witness widens from the
\* events sent to all events taken, and the queue is a subsequence by position.
LEMMA CountersSuffice == CountersInv => CountersAddUp
<1> SUFFICES ASSUME CountersInv PROVE CountersAddUp
  OBVIOUS
<1>0. /\ enqueued \in Seq(Events) /\ queue \in Seq(Events) /\ Sent \in Nat
      /\ Len(queue) \in Nat /\ Len(enqueued) \in Nat /\ QueueInv /\ RelayInv /\ OfferedInv
  BY DEF CountersInv, Types, TypeOK, PublisherTypes, Sent
<1>1. Sent + Len(queue) <= Len(enqueued)
  BY <1>0 DEF QueueInv
<1>2. OrderKept
  <2>1. PICK f \in [1 .. Len(quarantine) -> 1 .. Sent] :
           /\ \A i \in 1 .. Len(quarantine) : quarantine[i] = enqueued[f[i]]
           /\ \A i, j \in 1 .. Len(quarantine) : i < j => f[i] < f[j]
    BY <1>0 DEF RelayInv
  <2>2. \A i \in 1 .. Sent : i \in 1 .. Len(enqueued)
    BY <1>0, <1>1
  <2>3. f \in [1 .. Len(quarantine) -> 1 .. Len(enqueued)] /\ DOMAIN f = 1 .. Len(quarantine)
    BY <2>1, <2>2
  <2> QED
    BY <1>0, <2>1, <2>3 DEF OrderKept, OfferedInv
<1>3. queue = SubSeq(enqueued, Len(enqueued) - Len(queue) + 1, Len(enqueued))
  <2> DEFINE m == Len(enqueued) - Len(queue) + 1
             n == Len(enqueued)
             t == SubSeq(enqueued, m, n)
  <2>1. m \in Int /\ n \in Int /\ m >= 1 /\ n - m + 1 = Len(queue) /\ m <= n + 1
    BY <1>0, <1>1
  <2>2. \A i \in m .. n : enqueued[i] \in Events
    BY <1>0, <2>1
  <2>3. \A i \in 1 .. Len(queue) : queue[i] = enqueued[m + i - 1]
    <3> SUFFICES ASSUME NEW i \in 1 .. Len(queue) PROVE queue[i] = enqueued[m + i - 1]
      OBVIOUS
    <3>1. m + i - 1 = Len(enqueued) - Len(queue) + i
      BY <1>0
    <3> QED
      BY <1>0, <3>1 DEF QueueInv
  <2> HIDE DEF m, n
  <2>4. /\ t \in Seq(Events) /\ Len(t) = (IF m <= n THEN n - m + 1 ELSE 0)
        /\ \A i \in 1 .. n - m + 1 : t[i] = enqueued[m + i - 1]
    BY <2>1, <2>2, SubSeqProperties
  <2> HIDE DEF t
  <2>5. Len(t) = Len(queue)
    BY <1>0, <2>1, <2>4
  <2>6. \A i \in 1 .. Len(queue) : t[i] = queue[i]
    BY <2>1, <2>3, <2>4
  <2>7. t = queue
    BY <1>0, <2>4, <2>5, <2>6, SeqEqual
  <2> QED
    BY <2>7 DEF t, m, n
<1> QED
  BY <1>0, <1>2, <1>3 DEF CountersAddUp, QueueInv, OfferedInv, Offered, Sent

\* For every input, cache and queue capacity: no event is lost between the queue
\* and the counters, none is offered without a rejection or rejected without an
\* offer, and the quarantine relay gets no event twice or out of order
\* (Publisher.Enqueue, runDrain, RouterHandler.Handle).
THEOREM CountersCorrect == Spec => []CountersAddUp
<1>1. Init => CountersInv
  <2> SUFFICES ASSUME Init PROVE CountersInv
    OBVIOUS
  <2>1. QueueInv
    BY DEF Init, QueueInv, Sent
  <2>2. RelayInv
    <3> DEFINE f == [i \in 1 .. Len(quarantine) |-> i]
    <3>1. Len(quarantine) = 0
      BY DEF Init
    <3>2. \A i \in 1 .. Len(quarantine) : FALSE
      BY <3>1
    <3>3. f \in [1 .. Len(quarantine) -> 1 .. Sent]
      BY <3>2
    <3> HIDE DEF f
    <3> QED
      BY <3>2, <3>3 DEF RelayInv
  <2>3. OfferedInv
    BY RouterConstants DEF Init, OfferedInv, Offered, Elements, Verdicts
  <2> QED
    BY <2>1, <2>2, <2>3, TypesInit DEF CountersInv
<1>2. CountersInv /\ [Next]_vars => CountersInv'
  BY TypesStep, QueueStep, RelayStep, OfferedStep DEF CountersInv
<1> QED
  BY <1>1, <1>2, CountersSuffice, PTL DEF Spec

=============================================================================
