---------------------------- MODULE GraphStore ----------------------------
(***************************************************************************)
(* The web-of-trust graph in Dgraph, as pkg/dgraph writes it: one node per *)
(* pubkey with its contact list (follows), the version of that list        *)
(* (kind3CreatedAt), its number of followers, the frontier marker and the  *)
(* schedule of the next visit. Every operator below is one transaction of  *)
(* the client; Crawler says when each of them runs and how it may fail.    *)
(*                                                                         *)
(* Times are hours of the schedule. last_db_update, which no decision of   *)
(* the crawler reads, is left out; of last_attempt only its presence is    *)
(* kept, with value 0 for the nodes of an older crawler (Legacy).          *)
(***************************************************************************)
EXTENDS Integers, FiniteSets, FiniteSetsExt

CONSTANTS
    Keys,       \* the strings that may stand in the pubkey field of a node
    Valid,      \* those that are 64 lowercase hexadecimal digits
    Lower,      \* the lowercase form of each
    Legacy,     \* nodes an older crawler may have left, already attempted
    Limit,      \* frontier_batch_size
    Cadence,    \* hit_refresh_cadence
    Base, Ratio, MaxBackoff,  \* the schedule of misses
    MaxTime     \* bound on the clock

ASSUME StoreAssumption ==
    /\ Valid \subseteq Keys /\ Legacy \subseteq Keys /\ IsFiniteSet(Legacy)
    /\ \A k \in Valid : Lower[k] = k
    /\ \A k \in Keys : Lower[k] \in Keys => Lower[Lower[k]] = Lower[k]
    /\ \A j, k \in Keys \ Valid : Lower[j] = Lower[k] /\ Lower[j] \in Valid => j = k
    /\ {Limit, Cadence, Base, Ratio, MaxBackoff} \subseteq Nat \ {0}
    /\ MaxTime \in Nat \ {0}

VARIABLES
    stored,         \* the pubkeys that have a node
    version,        \* kind3CreatedAt, 0 when the node has no list
    follows,        \* the edges of each node to nodes that exist
    followerCount,  \* follower_count
    uncrawled,      \* the frontier: nodes that carry uncrawled = 1
    attempted,      \* nodes that carry last_attempt
    nextAttempt,    \* next_attempt, or Never
    missCount,      \* miss_count
    now

graph == <<stored, version, follows, followerCount, uncrawled, attempted,
           nextAttempt, missCount>>

Never == -1

(* The graph is new, or an older crawler left some nodes in it. *)
GraphInit ==
    /\ stored \in SUBSET Legacy
    /\ version = [k \in Keys |-> 0]
    /\ follows = [k \in Keys |-> {}]
    /\ followerCount = [k \in Keys |-> 0]
    /\ uncrawled = {}
    /\ attempted = stored
    /\ nextAttempt = [k \in Keys |-> Never]
    /\ missCount = [k \in Keys |-> 0]
    /\ now = 1

-----------------------------------------------------------------------------
(* The contact list of a signer replaces the one stored, unless that is of *)
(* the same or a later time. Followees without a node get one in the       *)
(* frontier; the counts of followees gained and lost are adjusted.         *)

\* Faulty variant: a new node is counted when it is created and once more.
StubCountedTwice(k, old, list, known) ==
    CASE k \in list \ known -> 2
      [] k \in (list \cap known) \ old -> followerCount[k] + 1
      [] k \in old \ list -> Max({0, followerCount[k] - 1})
      [] OTHER -> followerCount[k]

(* The count of k when the signer's followees change from old to list; the *)
(* nodes of known exist, the others are created with their first follower. *)
AdjustedCount(k, old, list, known) ==
    CASE k \in list \ known -> 1
      [] k \in (list \cap known) \ old -> followerCount[k] + 1
      [] k \in old \ list -> Max({0, followerCount[k] - 1})
      [] OTHER -> followerCount[k]

\* Faulty variant: only a repeated list is recognised.
SameVersion(signer, at) == signer \in stored /\ at = version[signer]

UpToDate(signer, at) == signer \in stored /\ at <= version[signer]

\* Faulty variant: the node of a signer seen first does not join the frontier.
NewFollowees(signer, list) == list \ (stored \cup {signer})

(* Nodes this write creates: they have never been attempted. *)
NewNodes(signer, list) == (list \cup {signer}) \ stored

AddFollowers(signer, at, list) ==
    LET known == stored \cup {signer}
    IN  IF UpToDate(signer, at) THEN UNCHANGED graph
        ELSE /\ stored' = known \cup list
             /\ version' = [version EXCEPT ![signer] = at]
             /\ follows' = [follows EXCEPT ![signer] = list]
             /\ followerCount' = [k \in Keys |->
                    AdjustedCount(k, follows[signer], list, known)]
             /\ uncrawled' = uncrawled \cup NewNodes(signer, list)
             /\ UNCHANGED <<attempted, nextAttempt, missCount>>

-----------------------------------------------------------------------------
(* Selection: the frontier first, then the nodes whose time has come, both *)
(* by descending number of followers and within one limit.                 *)

(* The possible answers of a query for the first n of S by follower count. *)
TopByFollowers(S, n) ==
    {T \in SUBSET S :
        /\ Cardinality(T) = Min({n, Cardinality(S)})
        /\ \A in \in T, out \in S \ T : followerCount[in] >= followerCount[out]}

Aged == {k \in stored : nextAttempt[k] # Never /\ nextAttempt[k] < now}

GetStalePubkeys ==
    UNION {{front \cup aged : aged \in TopByFollowers(Aged, Limit - Cardinality(front))} :
           front \in TopByFollowers(uncrawled, Limit)}

-----------------------------------------------------------------------------
(* The interval after a miss grows geometrically up to a cap. *)
Grown[n \in Nat] ==
    IF n = 0 THEN Base
    ELSE IF Grown[n - 1] > (MaxBackoff - 1) \div Ratio THEN MaxBackoff
    ELSE Grown[n - 1] * Ratio

BackoffInterval(misses) ==
    Min({IF misses <= 0 \/ Ratio <= 1 THEN Base ELSE Grown[misses], MaxBackoff})

(* A node whose pubkey is not valid is given its lowercase form, when that *)
(* is valid and no node has it yet, and deleted otherwise.                 *)
RenameNode(bad, good) ==
    LET Moved(f, none) == [f EXCEPT ![good] = f[bad], ![bad] = none]
        Named(S) == {IF k = bad THEN good ELSE k : k \in S}
    IN  /\ stored' = Named(stored)
        /\ version' = Moved(version, 0)
        /\ follows' = [k \in Keys |-> Named(Moved(follows, {})[k])]
        /\ followerCount' = Moved(followerCount, 0)
        /\ uncrawled' = Named(uncrawled)
        /\ attempted' = Named(attempted)
        /\ nextAttempt' = Moved(nextAttempt, Never)
        /\ missCount' = Moved(missCount, 0)

DeleteNodes(bad) ==
    /\ stored' = stored \ {bad}
    /\ version' = [version EXCEPT ![bad] = 0]
    /\ follows' = [k \in Keys |-> IF k = bad THEN {} ELSE follows[k] \ {bad}]
    /\ followerCount' = [followerCount EXCEPT ![bad] = 0]
    /\ uncrawled' = uncrawled \ {bad}
    /\ attempted' = attempted \ {bad}
    /\ nextAttempt' = [nextAttempt EXCEPT ![bad] = Never]
    /\ missCount' = [missCount EXCEPT ![bad] = 0]

RecoverOrPurge(bad) ==
    CASE bad \notin stored -> UNCHANGED graph
      [] bad \in stored /\ Lower[bad] \in Valid \ stored -> RenameNode(bad, Lower[bad])
      [] OTHER -> DeleteNodes(bad)

(* The nodes of keys leave the frontier and get the time of their next     *)
(* visit, one cadence away after a hit and one back-off after a miss.      *)
StampAttempted(keys, hits) ==
    LET marked == keys \cap stored
    IN  /\ attempted' = attempted \cup marked
        /\ uncrawled' = uncrawled \ marked
        /\ nextAttempt' = [k \in Keys |->
               CASE k \in marked \cap hits -> now + Cadence
                 [] k \in marked \ hits -> now + BackoffInterval(missCount[k])
                 [] OTHER -> nextAttempt[k]]
        /\ missCount' = [k \in Keys |->
               CASE k \in marked \cap hits -> 0
                 [] k \in marked \ hits -> missCount[k] + 1
                 [] OTHER -> missCount[k]]
        /\ UNCHANGED <<stored, version, follows, followerCount>>

(* Nodes attempted before the schedule existed are given a first date. *)
BackfillNextAttempt ==
    LET undated == {k \in attempted : nextAttempt[k] = Never}
    IN  /\ nextAttempt' = [k \in Keys |-> IF k \in undated THEN Cadence ELSE nextAttempt[k]]
        /\ missCount' = [k \in Keys |-> IF k \in undated THEN 0 ELSE missCount[k]]
        /\ UNCHANGED <<stored, version, follows, followerCount, uncrawled, attempted>>
=============================================================================
