------------------------------- MODULE Adapter -------------------------------
(***************************************************************************)
(* The start of LMDB2GraphQL: main loads its configuration, binds the      *)
(* listener, serves HTTP from then on, and only afterwards passes the      *)
(* gates: the LMDB environment, strfry's Meta record, and the self-check   *)
(* of the comparators against the order in which the B-trees are stored.   *)
(* A client probes and queries while the gates run; the process may be     *)
(* killed and is started again.                                            *)
(***************************************************************************)
EXTENDS Integers, Sequences, FiniteSets, SequencesExt

CONSTANTS
    Indexes,    \* ALL_EVENT_INDEXES, in the order of the self-check
    SampleCap,  \* SELF_CHECK_SAMPLE_CAP
    Spread,     \* seeks where the sample has no witness (64)
    Worlds,     \* what strfry, the operator and the machine may have prepared
    MaxStarts   \* bound: starts of the process

ASSUME AdapterConstants ==
    /\ SampleCap \in Nat \ {0} /\ Spread \in Nat \ {0} /\ MaxStarts \in Nat \ {0}
    /\ Indexes \in Seq(STRING)

\* A B-tree holds a key once (its entries are under the key), and a comparator looks
\* at every byte of the keys: it does not take two of them for equal.
ASSUME IndexAssumption ==
    \A w \in Worlds, n \in Range(Indexes) :
        LET ix == w.index[n]
            t  == ix.tree
        IN  /\ ix.registered \in BOOLEAN
            /\ t \in Seq(Nat) /\ \A k \in Range(t) : ix.own[k] \in Nat
            /\ \A i, j \in 1 .. Len(t) :
                  i # j => t[i] # t[j] /\ ix.own[t[i]] # ix.own[t[j]]

VARIABLES
    world,    \* the environment of one behaviour
    file,     \* lmdb2graphql.yaml: "absent", "bad" or "good"
    stage, next, starts,
    schema,   \* schema_cell has its schema
    ready,    \* the readiness flag
    sawReady, \* history: a client of this process was told it is ready
    refused,  \* history: after that, a query was refused
    served    \* history: a query was executed

adapterVars == <<world, file, stage, next, starts, schema, ready, sawReady, refused, served>>

-----------------------------------------------------------------------------
(* meta.rs.  The record is a table of numbers: its length in bytes, the     *)
(* offsets that lead to the table and its vtable, the vtable's size and     *)
(* slots, and the values stored at the positions of the table.              *)

\* read_u32_at, read_u64_at: an absent field is 0, one outside is an error.
Field(raw, slot, width) ==
    LET o == raw.slots[slot] IN
    IF o = 0 THEN 0 ELSE IF raw.root + o + width > raw.len THEN -1 ELSE raw.at[raw.root + o]

\* The vtable's position is taken from a signed number: a small negative one
\* passes the check of its bound and the slice panics.
VtablePanics(raw) == raw.vtable \in -4 .. -1

VtableRead(raw) ==
    /\ raw.len >= 14
    /\ raw.root + 4 <= raw.len
    /\ raw.vtable >= 0 /\ raw.vtable + 4 <= raw.len
    /\ raw.vsize >= 4 /\ raw.vtable + raw.vsize <= raw.len
    /\ (raw.vsize - 4) \div 2 >= 3

\* parse_meta_flatbuffer, up to its error.
Parses(raw) ==
    /\ VtableRead(raw) /\ ~VtablePanics(raw)
    /\ Field(raw, 1, 4) >= 0 /\ Field(raw, 2, 4) >= 0 /\ Field(raw, 3, 8) >= 0

EXPECTED_DB_VERSION == 3
STRFRY_LITTLE_ENDIAN_MARKER == 1

\* assert_db_version and assert_endianness.
MetaGate(raw) ==
    /\ Parses(raw)
    /\ Field(raw, 1, 4) = EXPECTED_DB_VERSION
    /\ Field(raw, 2, 4) = STRFRY_LITTLE_ENDIAN_MARKER

-----------------------------------------------------------------------------
(* self_check.rs.  A key is its rank under memcmp.  An index is a record:   *)
(* present; tree, its keys in the stored order; twice, the keys that have   *)
(* two entries; own, the rank of every key under the reimplemented          *)
(* comparator; registered, whether LMDB really compares with it.            *)

\* The rank LMDB compares keys by.
Rank(ix, k) == IF ix.registered THEN ix.own[k] ELSE k

\* Where a key may still be: from a first to a last position.
Windows(ix) == (1 .. Len(ix.tree) + 1) \X (0 .. Len(ix.tree))
Middle(w) == (w[1] + w[2]) \div 2

\* mdb_node_search: the binary search of LMDB for the first key that is not
\* less, with the registered comparator, in whatever order the keys are.
SeekPos(ix, k) ==
    LET t == ix.tree
        search[w \in Windows(ix)] ==
            LET i == Middle(w) IN
            IF w[1] > w[2] THEN w[1]
            ELSE IF t[i] = k THEN i
            ELSE IF Rank(ix, k) > Rank(ix, t[i]) THEN search[<<i + 1, w[2]>>]
            ELSE search[<<w[1], i - 1>>]
    IN  search[<<1, Len(t)>>]

\* db.range(k ..).next() gives k.
RoundTrips(ix, k) == SeekPos(ix, k) <= Len(ix.tree) /\ ix.tree[SeekPos(ix, k)] = k

\* The keys of the entries as an iteration meets them.
Entries(ix) == FlattenSeq([i \in DOMAIN ix.tree |->
                  IF ix.tree[i] \in ix.twice THEN <<ix.tree[i], ix.tree[i]>> ELSE <<ix.tree[i]>>])

\* collect_keys_bounded.
Sample(ix) == SubSeq(Entries(ix), 1, Min({Len(Entries(ix)), SampleCap}))

\* Faulty variant: two entries of one key count as out of order.
MonotoneStrict(ix) ==
    \A i \in 2 .. Len(Sample(ix)) : ix.own[Sample(ix)[i - 1]] < ix.own[Sample(ix)[i]]

\* Phase A.
Monotone(ix) ==
    \A i \in 2 .. Len(Sample(ix)) : ix.own[Sample(ix)[i - 1]] <= ix.own[Sample(ix)[i]]

\* The positions where memcmp disagrees with the stored order.
Witnesses(ix) == {i \in 2 .. Len(Sample(ix)) : Sample(ix)[i - 1] > Sample(ix)[i]}

\* How far apart the keys are that are sought where the sample has no witness.
Step(n) == (n + Spread - 1) \div Spread

\* Faulty variant: of a witness pair only the later key is sought.
SeekTargetsLater(ix) ==
    IF Witnesses(ix) # {} THEN Witnesses(ix)
    ELSE {i \in 1 .. Len(Sample(ix)) : (i - 1) % Step(Len(Sample(ix))) = 0}

\* Phase B: the keys to seek.
SeekTargets(ix) ==
    IF Witnesses(ix) # {} THEN Witnesses(ix) \cup {i - 1 : i \in Witnesses(ix)}
    ELSE {i \in 1 .. Len(Sample(ix)) : (i - 1) % Step(Len(Sample(ix))) = 0}

\* check_index_by_name and check_index.
CheckPasses(ix) ==
    /\ ix.present
    /\ Monotone(ix)
    /\ \A i \in SeekTargets(ix) : RoundTrips(ix, Sample(ix)[i])

-----------------------------------------------------------------------------
(* config.rs and main.rs                                                   *)

\* The process ends, by an error or killed.
Ends(how) ==
    /\ stage' = how /\ schema' = FALSE /\ ready' = FALSE /\ sawReady' = FALSE
    /\ next' = 1

Ended == stage \in {"exited", "killed"}

Client == <<sawReady, refused, served>>

\* main takes its next step, or an error ends the process.
Gate(ok, then) ==
    \/ /\ ok /\ stage' = then
       /\ UNCHANGED <<world, file, next, starts, schema, ready, Client>>
    \/ ~ok /\ Ends("exited") /\ UNCHANGED <<world, file, starts, refused, served>>

\* load, where nobody is asked: the file is there, or stdin is no terminal.
LoadConfig ==
    /\ stage = "config"
    /\ file # "absent" \/ ~world.tty
    /\ Gate(file = "good", "bind")

\* prompt_and_create: the operator types a path, or nothing.
PromptAndCreate ==
    /\ stage = "config" /\ file = "absent" /\ world.tty
    /\ \/ /\ file' = "good" /\ stage' = "bind"
          /\ UNCHANGED <<world, next, starts, schema, ready, Client>>
       \/ Ends("exited") /\ UNCHANGED <<world, file, starts, refused, served>>

\* bind, and serve from here on.
Bind == stage = "bind" /\ Gate(world.addressFree, "env")

OpenEnv == stage = "env" /\ Gate(world.envOpens, "meta")

\* read_meta and its two gates.
ReadMeta == stage = "meta" /\ Gate(world.metaPresent /\ MetaGate(world.meta), "check")

\* run_comparator_self_check, one index after another.
SelfCheck ==
    /\ stage = "check" /\ next <= Len(Indexes)
    /\ \/ /\ CheckPasses(world.index[Indexes[next]])
          /\ next' = next + 1
          /\ UNCHANGED <<world, file, stage, starts, schema, ready, Client>>
       \/ /\ ~CheckPasses(world.index[Indexes[next]])
          /\ Ends("exited") /\ UNCHANGED <<world, file, starts, refused, served>>

\* Faulty variant: the flag is raised before the schema is there.
PublishFlagFirst ==
    /\ stage = "check" /\ next > Len(Indexes)
    /\ ready' = TRUE
    /\ stage' = "flag"
    /\ UNCHANGED <<world, file, next, starts, schema, Client>>

\* schema_cell.set(build_schema(app_state)), before the flag.
Publish ==
    /\ stage = "check" /\ next > Len(Indexes)
    /\ schema' = TRUE
    /\ stage' = "flag"
    /\ UNCHANGED <<world, file, next, starts, ready, Client>>

\* ready.store(true).
RaiseFlag ==
    /\ stage = "flag"
    /\ ready' = TRUE
    /\ stage' = "serving"
    /\ UNCHANGED <<world, file, next, starts, schema, Client>>

\* SIGKILL, which may tear the file that is being written.
Kill ==
    /\ ~Ended
    /\ Ends("killed")
    /\ file' \in {file} \cup (IF stage = "config" /\ file = "absent" /\ world.tty THEN {"bad"} ELSE {})
    /\ UNCHANGED <<world, starts, refused, served>>

Restart ==
    /\ Ended /\ starts < MaxStarts
    /\ stage' = "config" /\ starts' = starts + 1
    /\ UNCHANGED <<world, file, next, schema, ready, Client>>

-----------------------------------------------------------------------------
(* server.rs                                                               *)

Listening == stage \notin {"config", "bind"} /\ ~Ended

\* build_router: the CORS layer answers a preflight, the body limit refuses
\* what is too large, and both wrap the handlers.
Status(request) ==
    CASE request = "preflight"                      -> 200
      [] request = "oversized"                      -> 413
      [] request \in {"health", "graphiql"}         -> 200
      [] request = "ready"                          -> IF ready THEN 200 ELSE 503
      [] request \in {"query", "nested"}            -> IF schema THEN 200 ELSE 503

Requests == {"preflight", "oversized", "health", "graphiql", "ready", "query", "nested"}

\* build_schema's limits on depth and complexity: a query beyond them gets an
\* error and no resolver runs.
Resolved(request) == request = "query"

Request(r) ==
    /\ Listening
    /\ sawReady' = (sawReady \/ (r = "ready" /\ Status(r) = 200))
    /\ refused' = (refused \/ (r \in {"query", "nested"} /\ sawReady /\ Status(r) = 503))
    /\ served' = (served \/ (Resolved(r) /\ Status(r) = 200))
    /\ UNCHANGED <<world, file, stage, next, starts, schema, ready>>

-----------------------------------------------------------------------------
AdapterInit ==
    /\ world \in Worlds /\ file = world.file
    /\ stage = "config" /\ next = 1 /\ starts = 1
    /\ schema = FALSE /\ ready = FALSE
    /\ sawReady = FALSE /\ refused = FALSE /\ served = FALSE

Main ==
    \/ LoadConfig \/ PromptAndCreate \/ Bind \/ OpenEnv \/ ReadMeta \/ SelfCheck
    \/ Publish \/ RaiseFlag

AdapterNext == Main \/ Kill \/ Restart \/ \E r \in Requests : Request(r)

AdapterSpec == AdapterInit /\ [][AdapterNext]_adapterVars

\* main runs, and the container is restarted.
AdapterFairSpec == AdapterSpec /\ WF_adapterVars(Main) /\ WF_adapterVars(Restart)

-----------------------------------------------------------------------------
(* Properties                                                              *)

AdapterTypeOK ==
    /\ world \in Worlds /\ file \in {"absent", "bad", "good"}
    /\ stage \in {"config", "bind", "env", "meta", "check", "flag", "serving", "exited", "killed"}
    /\ next \in 1 .. Len(Indexes) + 1 /\ starts \in 1 .. MaxStarts
    /\ {schema, ready, sawReady, refused, served} \subseteq BOOLEAN

\* Once a client has been told that the process is ready, the same process
\* never refuses its query: the schema is there before the flag is up.
ReadyMeansQueryable == ~refused

\* The keys of an index that the adapter can rely on: all, if the sample holds
\* them all.
Reliable(ix) ==
    Len(Entries(ix)) <= SampleCap =>
        \A k \in Range(ix.tree) : RoundTrips(ix, k)

\* No query is executed unless the database is of the version and byte order
\* that the code can read, and no index is served in which LMDB would miss a
\* key that it holds: a comparator that is wrong, or that LMDB does not use,
\* is found although only witnesses are sought, or a few keys where there are
\* none.
OnlyReliableServed ==
    served =>
        /\ Field(world.meta, 1, 4) = 3 /\ Field(world.meta, 2, 4) = 1
        /\ \A i \in Range(Indexes) : world.index[i].present /\ Reliable(world.index[i])

\* The database is as the code expects it.
Healthy ==
    /\ world.file = "good" /\ world.addressFree /\ world.envOpens /\ world.metaPresent
    /\ Parses(world.meta) /\ Field(world.meta, 1, 4) = 3 /\ Field(world.meta, 2, 4) = 1
    /\ \A i \in Range(Indexes) :
          LET ix == world.index[i] IN
          /\ ix.present /\ ix.registered
          /\ \A m, n \in 1 .. Len(ix.tree) : m < n => ix.own[ix.tree[m]] < ix.own[ix.tree[n]]

\* The gates raise no false alarm: over a database that is as expected the
\* process becomes ready, unless it is killed once too often.
HealthyGetsReady == Healthy => <>(ready \/ (stage = "killed" /\ starts = MaxStarts))
=============================================================================
