---------------------------- MODULE GraphQLProofs ----------------------------
(***************************************************************************)
(* Proofs about LMDB2GraphQL.  The start (module Adapter): for every set   *)
(* of worlds, every list of indexes and any number of starts, kills and    *)
(* requests.  The query engine (module Query) implements the feed that     *)
(* clients are promised: for every set of events, every filter, every      *)
(* page, window and round size, any number of writes of strfry in between  *)
(* and any values of tags that the keys confuse.  The two have no state in *)
(* common.                                                                 *)
(***************************************************************************)
EXTENDS Adapter, Query, FiniteSetTheorems, SequenceTheorems, WellFoundedInduction, TLAPS

-----------------------------------------------------------------------------
(* The start                                                               *)

\* What the process has in memory follows the order of main: the schema is
\* there only behind the last gate, the flag only behind the schema, and a
\* client was told ready only by this process with its flag up.
Published ==
    /\ schema \in BOOLEAN /\ ready \in BOOLEAN
    /\ sawReady \in BOOLEAN /\ refused \in BOOLEAN /\ served \in BOOLEAN
    /\ schema => stage \in {"flag", "serving"}
    /\ ready => schema
    /\ sawReady => ready
    /\ stage \in {"flag", "serving"} => schema

\* Every gate behind which main has come was passed on this world.
GatesPassed ==
    /\ next \in Nat \ {0}
    /\ stage \in {"check", "flag", "serving"} => world.metaPresent /\ MetaGate(world.meta)
    /\ stage \in {"flag", "serving"} => next > Len(Indexes)
    /\ \A i \in 1 .. next - 1 : CheckPasses(world.index[Indexes[i]])

\* No resolver ran on a database that a gate refuses.
ServedOnlyChecked ==
    served => /\ world.metaPresent /\ MetaGate(world.meta)
              /\ \A i \in 1 .. Len(Indexes) : CheckPasses(world.index[Indexes[i]])

ReadyInv == Published /\ ~refused

\* The order of main and of the handlers keeps the three flags in step.
LEMMA ReadyInvHolds == AdapterSpec => []ReadyInv
<1>1. AdapterInit => ReadyInv
  BY DEF AdapterInit, ReadyInv, Published
<1>2. ReadyInv /\ [AdapterNext]_adapterVars => ReadyInv'
  <2> SUFFICES ASSUME ReadyInv, [AdapterNext]_adapterVars PROVE ReadyInv'
    OBVIOUS
  <2>a. ASSUME NEW how \in {"exited", "killed"}, Ends(how), UNCHANGED <<refused, served>>
        PROVE  ReadyInv'
    <3>1. stage' \notin {"flag", "serving"}
      BY <2>a DEF Ends
    <3>2. schema' = FALSE /\ ready' = FALSE /\ sawReady' = FALSE
      BY <2>a DEF Ends
    <3>3. refused' = refused /\ served' = served
      BY <2>a
    <3> QED
      BY <3>1, <3>2, <3>3, Zenon DEF ReadyInv, Published
  <2>b. ASSUME stage \notin {"flag", "serving"}, stage' \notin {"flag", "serving"},
               UNCHANGED <<schema, ready, Client>>
        PROVE  ReadyInv'
    <3>1. schema' = schema /\ ready' = ready /\ sawReady' = sawReady /\ refused' = refused
          /\ served' = served
      BY <2>b DEF Client
    <3>2. ~schema /\ ~ready /\ ~sawReady
      BY <2>b, Zenon DEF ReadyInv, Published
    <3>3. ~schema' /\ ~ready' /\ ~sawReady'
      BY <3>1, <3>2
    <3>4. /\ schema' \in BOOLEAN /\ ready' \in BOOLEAN /\ sawReady' \in BOOLEAN
          /\ refused' \in BOOLEAN /\ served' \in BOOLEAN /\ ~refused'
      BY <3>1, Zenon DEF ReadyInv, Published
    <3> QED
      BY <2>b, <3>3, <3>4, Zenon DEF ReadyInv, Published
  <2>c. ASSUME NEW ok, NEW then, stage \notin {"flag", "serving"}, then \notin {"flag", "serving"},
               Gate(ok, then)
        PROVE  ReadyInv'
    BY <2>a, <2>b, <2>c DEF Gate
  <2>1. CASE LoadConfig
    BY <2>1, <2>c DEF LoadConfig
  <2>2. CASE PromptAndCreate
    BY <2>2, <2>a, <2>b DEF PromptAndCreate
  <2>3. CASE Bind
    BY <2>3, <2>c DEF Bind
  <2>4. CASE OpenEnv
    BY <2>4, <2>c DEF OpenEnv
  <2>5. CASE ReadMeta
    BY <2>5, <2>c DEF ReadMeta
  <2>6. CASE SelfCheck
    BY <2>6, <2>a, <2>b DEF SelfCheck
  <2>7. CASE Publish
    BY <2>7 DEF Publish, Client, ReadyInv, Published
  <2>8. CASE RaiseFlag
    BY <2>8 DEF RaiseFlag, Client, ReadyInv, Published
  <2>9. CASE Kill
    BY <2>9, <2>a DEF Kill
  <2>10. CASE Restart
    BY <2>10, <2>b DEF Restart, Ended
  <2>11. ASSUME NEW r \in Requests, Request(r) PROVE ReadyInv'
    <3>1. UNCHANGED <<stage, schema, ready>>
      BY <2>11 DEF Request
    <3>2. sawReady' => ready
      <4>1. CASE sawReady
        BY <4>1 DEF ReadyInv, Published
      <4>2. CASE r = "ready" /\ Status(r) = 200
        BY <4>2 DEF Status
      <4> QED
        BY <4>1, <4>2, <2>11 DEF Request
    <3>3. ~refused'
      <4>1. ~(r \in {"query", "nested"} /\ sawReady /\ Status(r) = 503)
        BY DEF Status, ReadyInv, Published
      <4> QED
        BY <4>1, <2>11 DEF Request, ReadyInv
    <3>4. sawReady' \in BOOLEAN /\ refused' \in BOOLEAN /\ served' \in BOOLEAN
      BY <2>11 DEF Request, ReadyInv, Published
    <3> QED
      BY <3>1, <3>2, <3>3, <3>4 DEF ReadyInv, Published
  <2>12. CASE UNCHANGED adapterVars
    BY <2>12 DEF adapterVars, ReadyInv, Published
  <2> QED
    BY <2>1, <2>2, <2>3, <2>4, <2>5, <2>6, <2>7, <2>8, <2>9, <2>10, <2>11, <2>12
       DEF AdapterNext, Main
<1> QED
  BY <1>1, <1>2, PTL DEF AdapterSpec

\* Whatever the database, the configuration, the kills and the order of the
\* requests: a client that was told ready is not refused by that process (the
\* order of schema_cell.set and ready.store in main).
THEOREM ReadyCorrect == AdapterSpec => []ReadyMeansQueryable
<1>1. ReadyInv => ReadyMeansQueryable
  BY DEF ReadyInv, ReadyMeansQueryable
<1> QED
  BY <1>1, ReadyInvHolds, PTL

\* Main does not come behind a gate that refuses.
LEMMA GatesHold == AdapterSpec => []GatesPassed
<1>1. AdapterInit => GatesPassed
  BY DEF AdapterInit, GatesPassed
<1>2. GatesPassed /\ [AdapterNext]_adapterVars => GatesPassed'
  <2> SUFFICES ASSUME GatesPassed, [AdapterNext]_adapterVars PROVE GatesPassed'
    OBVIOUS
  <2> USE DEF GatesPassed
  <2>0. ASSUME NEW how \in {"exited", "killed"}, Ends(how), UNCHANGED world
        PROVE  GatesPassed'
    BY <2>0 DEF Ends
  <2>1. CASE LoadConfig
    BY <2>0, <2>1 DEF LoadConfig, Gate, Client
  <2>2. CASE PromptAndCreate
    BY <2>0, <2>2 DEF PromptAndCreate, Client
  <2>3. CASE Bind
    BY <2>0, <2>3 DEF Bind, Gate, Client
  <2>4. CASE OpenEnv
    BY <2>0, <2>4 DEF OpenEnv, Gate, Client
  <2>5. CASE ReadMeta
    BY <2>0, <2>5 DEF ReadMeta, Gate, Client
  <2>6. CASE SelfCheck
    <3>1. CASE ~CheckPasses(world.index[Indexes[next]])
      BY <2>0, <2>6, <3>1 DEF SelfCheck
    <3>2. CASE CheckPasses(world.index[Indexes[next]])
      <4>1. next' = next + 1 /\ UNCHANGED <<world, stage>> /\ stage = "check"
        BY <2>6, <3>2 DEF SelfCheck
      <4>2. \A i \in 1 .. next' - 1 : i \in 1 .. next - 1 \/ i = next
        BY <4>1
      <4>3. \A i \in 1 .. next' - 1 : CheckPasses(world.index[Indexes[i]])
        BY <3>2, <4>2
      <4> QED
        BY <4>1, <4>3
    <3> QED
      BY <3>1, <3>2
  <2>7. CASE Publish
    BY <2>7 DEF Publish
  <2>8. CASE RaiseFlag
    BY <2>8 DEF RaiseFlag
  <2>9. CASE Kill
    BY <2>0, <2>9 DEF Kill
  <2>10. CASE Restart
    BY <2>10 DEF Restart
  <2>11. CASE \E r \in Requests : Request(r)
    BY <2>11 DEF Request
  <2>12. CASE UNCHANGED adapterVars
    BY <2>12 DEF adapterVars
  <2> QED
    BY <2>1, <2>2, <2>3, <2>4, <2>5, <2>6, <2>7, <2>8, <2>9, <2>10, <2>11, <2>12
       DEF AdapterNext, Main
<1> QED
  BY <1>1, <1>2, PTL DEF AdapterSpec

\* The listener is up before the gates are run, yet no resolver runs before the
\* Meta record has passed both of its gates and every index its self-check: the
\* schema, without which graphql_handler answers 503, is set behind them.
THEOREM ServedCorrect == AdapterSpec => []ServedOnlyChecked
<1>1. AdapterInit => ServedOnlyChecked
  BY DEF AdapterInit, ServedOnlyChecked
<1>2. ReadyInv /\ GatesPassed /\ ServedOnlyChecked /\ [AdapterNext]_adapterVars => ServedOnlyChecked'
  <2> SUFFICES ASSUME ReadyInv, GatesPassed, ServedOnlyChecked, [AdapterNext]_adapterVars
               PROVE  ServedOnlyChecked'
    OBVIOUS
  <2>1. UNCHANGED world
    BY DEF AdapterNext, Main, LoadConfig, PromptAndCreate, Bind, OpenEnv, ReadMeta, SelfCheck, Publish,
           RaiseFlag, Kill, Restart, Request, Gate, adapterVars
  <2>2. CASE UNCHANGED served
    BY <2>1, <2>2 DEF ServedOnlyChecked
  <2>3. ASSUME NEW r \in Requests, Request(r), served' # served PROVE ServedOnlyChecked'
    <3>1. r = "query" /\ Status(r) = 200
      BY <2>3 DEF Request, Resolved, ReadyInv, Published
    <3>2. schema
      BY <3>1 DEF Status
    <3>3. stage \in {"flag", "serving"}
      BY <3>2 DEF ReadyInv, Published
    <3>4. \A i \in 1 .. Len(Indexes) : i \in 1 .. next - 1
      BY <3>3 DEF GatesPassed
    <3> QED
      BY <2>1, <3>3, <3>4 DEF GatesPassed, ServedOnlyChecked
  <2> QED
    BY <2>2, <2>3
       DEF AdapterNext, Main, LoadConfig, PromptAndCreate, Bind, OpenEnv, ReadMeta, SelfCheck, Publish,
           RaiseFlag, Kill, Restart, Gate, Client, adapterVars
<1> QED
  BY <1>1, <1>2, ReadyInvHolds, GatesHold, PTL DEF AdapterSpec

-----------------------------------------------------------------------------
(* The self-check                                                          *)

\* Induction over a set of numbers.
LEMMA SetInduction ==
  ASSUME NEW P, P \subseteq Nat, 0 \in P, \A n \in P : n + 1 \in P
  PROVE  P = Nat
<1> SUFFICES ASSUME Nat \ P # {} PROVE FALSE
  OBVIOUS
<1>1. PICK x \in Nat \ P : \A y \in Nat \ P : ~(<<y, x>> \in OpToRel(<, Nat))
  <2>1. IsWellFoundedOn(OpToRel(<, Nat), Nat)
    BY NatLessThanWellFounded
  <2> DEFINE R == OpToRel(<, Nat)
             T == Nat \ P
  <2>2. IsWellFoundedOn(R, Nat) /\ T \subseteq Nat /\ T # {}
    BY <2>1
  <2> HIDE DEF R, T
  <2>3. \E x \in T : \A y \in T : ~(<<y, x>> \in R)
    BY <2>2, WFMin
  <2> QED
    BY <2>3 DEF R, T
<1>2. \A y \in Nat \ P : ~(y < x)
  <2> SUFFICES ASSUME NEW y \in Nat \ P, y < x PROVE FALSE
    OBVIOUS
  <2>1. <<y, x>> \in Nat \X Nat /\ <<y, x>>[1] < <<y, x>>[2]
    BY <1>1
  <2>2. <<y, x>> \in OpToRel(<, Nat)
    BY <2>1 DEF OpToRel
  <2> QED
    BY <1>1, <2>2
<1>3. x \in Nat /\ x \notin P /\ x # 0
  BY <1>1
<1>4. x - 1 \in Nat /\ x - 1 < x /\ (x - 1) + 1 = x
  BY <1>3
<1>5. x - 1 \in P
  BY <1>2, <1>4
<1> QED
  BY <1>3, <1>4, <1>5

\* The body of the binary search of LMDB.
Probe(ix, k, f, w) ==
    LET i == Middle(w) IN
    IF w[1] > w[2] THEN w[1]
    ELSE IF ix.tree[i] = k THEN i
    ELSE IF Rank(ix, k) > Rank(ix, ix.tree[i]) THEN f[<<i + 1, w[2]>>]
    ELSE f[<<w[1], i - 1>>]

\* The number of positions in a window.
Size(w) == IF w[1] > w[2] THEN 0 ELSE w[2] - w[1] + 1

\* A window has a middle, and the windows on either side of it are smaller.
LEMMA Halved ==
  ASSUME NEW ix, Len(ix.tree) \in Nat, NEW w \in Windows(ix)
  PROVE  /\ w[1] \in 1 .. Len(ix.tree) + 1 /\ w[2] \in 0 .. Len(ix.tree) /\ w = <<w[1], w[2]>>
         /\ Size(w) \in 0 .. Len(ix.tree)
         /\ Size(w) = 0 <=> w[1] > w[2]
         /\ w[1] <= w[2] =>
               /\ Middle(w) \in w[1] .. w[2]
               /\ <<Middle(w) + 1, w[2]>> \in Windows(ix) /\ <<w[1], Middle(w) - 1>> \in Windows(ix)
               /\ Size(<<Middle(w) + 1, w[2]>>) < Size(w)
               /\ Size(<<w[1], Middle(w) - 1>>) < Size(w)
<1> DEFINE N == Len(ix.tree)
           lo == w[1]
           hi == w[2]
           m == Middle(w)
<1>1. lo \in 1 .. N + 1 /\ hi \in 0 .. N /\ w = <<lo, hi>>
  BY DEF Windows
<1>2. m = (lo + hi) \div 2
  BY DEF Middle
<1>3. Size(w) = IF lo > hi THEN 0 ELSE hi - lo + 1
  BY DEF Size
<1> HIDE DEF N, lo, hi, m
<1>4. N \in Nat
  BY DEF N
<1>5. Size(w) \in 0 .. N /\ (Size(w) = 0 <=> lo > hi)
  BY <1>1, <1>3, <1>4
<1>6. ASSUME lo <= hi
      PROVE  /\ m \in lo .. hi
             /\ <<m + 1, hi>> \in (1 .. N + 1) \X (0 .. N) /\ <<lo, m - 1>> \in (1 .. N + 1) \X (0 .. N)
             /\ Size(<<m + 1, hi>>) < Size(w)
             /\ Size(<<lo, m - 1>>) < Size(w)
  <2>1. m \in Int /\ lo <= m /\ m <= hi
    BY <1>1, <1>2, <1>4, <1>6
  <2>2. m + 1 \in 1 .. N + 1 /\ m - 1 \in 0 .. N
    BY <1>1, <1>4, <2>1
  <2>3. Size(<<m + 1, hi>>) = (IF m + 1 > hi THEN 0 ELSE hi - (m + 1) + 1)
    BY DEF Size
  <2>4. Size(<<lo, m - 1>>) = (IF lo > m - 1 THEN 0 ELSE (m - 1) - lo + 1)
    BY DEF Size
  <2> QED
    BY <1>1, <1>3, <1>4, <1>6, <2>1, <2>2, <2>3, <2>4
<1> QED
  BY <1>1, <1>5, <1>6 DEF Windows, N, lo, hi, m

\* The search looks only into smaller windows.
LEMMA ProbeLocal ==
  ASSUME NEW ix, Len(ix.tree) \in Nat, NEW k, NEW f, NEW g, NEW w \in Windows(ix),
         \A v \in Windows(ix) : Size(v) < Size(w) => f[v] = g[v]
  PROVE  Probe(ix, k, f, w) = Probe(ix, k, g, w)
<1>1. CASE w[1] > w[2]
  BY <1>1 DEF Probe
<1>2. CASE ~(w[1] > w[2])
  <2>1. /\ <<Middle(w) + 1, w[2]>> \in Windows(ix) /\ <<w[1], Middle(w) - 1>> \in Windows(ix)
        /\ Size(<<Middle(w) + 1, w[2]>>) < Size(w)
        /\ Size(<<w[1], Middle(w) - 1>>) < Size(w)
    <3>0. w[1] \in 1 .. Len(ix.tree) + 1 /\ w[2] \in 0 .. Len(ix.tree)
      BY Halved
    <3>1. w[1] <= w[2]
      BY <1>2, <3>0
    <3> QED
      BY <3>1, Halved
  <2> DEFINE a == <<Middle(w) + 1, w[2]>>
             b == <<w[1], Middle(w) - 1>>
  <2>2. f[a] = g[a] /\ f[b] = g[b]
    BY <2>1
  <2> QED
    BY <2>2 DEF Probe
<1> QED
  BY <1>1, <1>2

\* The recursive definition of the search has a solution.
LEMMA SearchExists ==
  ASSUME NEW ix, Len(ix.tree) \in Nat, NEW k
  PROVE  \E f : f = [w \in Windows(ix) |-> Probe(ix, k, f, w)]
<1> DEFINE W == Windows(ix)
           Solves(f, n) == f = [w \in W |-> f[w]] /\ \A w \in W : Size(w) <= n => f[w] = Probe(ix, k, f, w)
           P == {n \in Nat : \E f : Solves(f, n)}
<1>0. \A w \in W : Size(w) \in 0 .. Len(ix.tree)
  BY Halved
<1>1. 0 \in P
  <2> DEFINE f == [w \in W |-> w[1]]
  <2>1. f = [w \in W |-> f[w]]
    OBVIOUS
  <2>2. ASSUME NEW w \in W, Size(w) <= 0 PROVE f[w] = Probe(ix, k, f, w)
    <3>0. Size(w) = 0
      BY <1>0, <2>2
    <3>1. w[1] > w[2]
      BY <3>0, Halved
    <3> QED
      BY <3>1 DEF Probe
  <2> HIDE DEF f, W
  <2>3. Solves(f, 0)
    BY <2>1, <2>2
  <2> QED
    BY <2>3
<1>2. ASSUME NEW n \in P PROVE n + 1 \in P
  <2>1. n \in Nat
    OBVIOUS
  <2>2. PICK f : Solves(f, n)
    OBVIOUS
  <2> DEFINE h == [w \in W |-> IF Size(w) <= n THEN f[w] ELSE Probe(ix, k, f, w)]
  <2>3. h = [w \in W |-> h[w]]
    OBVIOUS
  <2>4. \A w \in W : h[w] = IF Size(w) <= n THEN f[w] ELSE Probe(ix, k, f, w)
    OBVIOUS
  <2> HIDE DEF h, W
  <2>5. \A w \in W : Size(w) <= n => h[w] = f[w]
    BY <2>4
  <2>6. ASSUME NEW w \in W, Size(w) <= n + 1 PROVE h[w] = Probe(ix, k, h, w)
    <3>1. \A v \in W : Size(v) < Size(w) => f[v] = h[v]
      BY <1>0, <2>1, <2>5, <2>6
    <3>2. Probe(ix, k, f, w) = Probe(ix, k, h, w)
      BY <3>1, ProbeLocal DEF W
    <3>3. h[w] = Probe(ix, k, f, w)
      BY <2>2, <2>4
    <3> QED
      BY <3>2, <3>3
  <2>7. Solves(h, n + 1)
    BY <2>3, <2>6
  <2> QED
    BY <2>1, <2>7
<1>3. P \subseteq Nat
  OBVIOUS
<1> HIDE DEF P
<1>4. Len(ix.tree) \in P
  BY <1>1, <1>2, <1>3, SetInduction
<1>5. PICK f : Solves(f, Len(ix.tree))
  BY <1>4 DEF P
<1>6. \A w \in W : f[w] = Probe(ix, k, f, w)
  BY <1>0, <1>5
<1>7. f = [w \in W |-> Probe(ix, k, f, w)]
  BY <1>5, <1>6
<1> QED
  BY <1>7

Searches(ix, k, g) == \A w \in Windows(ix) : g[w] = Probe(ix, k, g, w)

\* The search of LMDB is one that satisfies its definition.
LEMMA SearchUnfolds ==
  ASSUME NEW ix, Len(ix.tree) \in Nat, NEW k
  PROVE  \E g : Searches(ix, k, g) /\ SeekPos(ix, k) = g[<<1, Len(ix.tree)>>]
<1> DEFINE g == CHOOSE f : f = [w \in Windows(ix) |-> Probe(ix, k, f, w)]
<1>1. g = [w \in Windows(ix) |-> Probe(ix, k, g, w)]
  BY SearchExists, Zenon
<1>2. SeekPos(ix, k) = g[<<1, Len(ix.tree)>>]
  BY Zenon DEF SeekPos, Probe
<1> HIDE DEF g
<1>3. Searches(ix, k, g)
  BY <1>1 DEF Searches
<1> QED
  BY <1>2, <1>3

\* One step of the search: it is done, or goes on to the right, or to the left.
LEMMA SearchStep ==
  ASSUME NEW ix, Len(ix.tree) \in Nat, NEW k, NEW g, Searches(ix, k, g), NEW w \in Windows(ix),
         w[1] <= w[2]
  PROVE  \/ ix.tree[Middle(w)] = k /\ g[w] = Middle(w)
         \/ /\ ix.tree[Middle(w)] # k /\ Rank(ix, k) > Rank(ix, ix.tree[Middle(w)])
            /\ g[w] = g[<<Middle(w) + 1, w[2]>>]
         \/ /\ ix.tree[Middle(w)] # k /\ ~(Rank(ix, k) > Rank(ix, ix.tree[Middle(w)]))
            /\ g[w] = g[<<w[1], Middle(w) - 1>>]
<1>1. ~(w[1] > w[2])
  <2>1. w[1] \in 1 .. Len(ix.tree) + 1 /\ w[2] \in 0 .. Len(ix.tree)
    BY Halved
  <2> QED
    BY <2>1
<1>2. g[w] = Probe(ix, k, g, w)
  BY DEF Searches
<1> QED
  BY <1>1, <1>2 DEF Probe

\* It ends inside its window, or just behind it.
LEMMA SearchRange ==
  ASSUME NEW ix, Len(ix.tree) \in Nat, NEW k, NEW g, Searches(ix, k, g), NEW w \in Windows(ix),
         w[1] <= w[2] + 1
  PROVE  g[w] \in w[1] .. w[2] + 1
<1> DEFINE W == Windows(ix)
           In(v) == v[1] <= v[2] + 1 => g[v] \in v[1] .. v[2] + 1
           P == {n \in Nat : \A v \in W : Size(v) <= n => In(v)}
<1>0. \A v \in W : /\ v[1] \in 1 .. Len(ix.tree) + 1 /\ v[2] \in 0 .. Len(ix.tree)
                   /\ Size(v) \in 0 .. Len(ix.tree) /\ (Size(v) = 0 <=> v[1] > v[2])
  BY Halved
<1>1. 0 \in P
  <2> SUFFICES ASSUME NEW v \in W, Size(v) <= 0, v[1] <= v[2] + 1 PROVE g[v] \in v[1] .. v[2] + 1
    OBVIOUS
  <2>1. v[1] > v[2]
    BY <1>0
  <2>2. g[v] = v[1]
    BY <2>1 DEF Searches, Probe
  <2> QED
    BY <1>0, <2>2
<1>2. ASSUME NEW n \in P PROVE n + 1 \in P
  <2>1. n \in Nat /\ \A v \in W : Size(v) <= n => In(v)
    OBVIOUS
  <2> HIDE DEF P
  <2>2. ASSUME NEW v \in W, Size(v) <= n + 1, v[1] <= v[2] + 1 PROVE g[v] \in v[1] .. v[2] + 1
    <3>1. CASE v[1] > v[2]
      <4>1. g[v] = v[1]
        BY <3>1 DEF Searches, Probe
      <4> QED
        BY <1>0, <2>2, <4>1
    <3>2. CASE ~(v[1] > v[2])
      <4> DEFINE m == Middle(v)
                 R == <<m + 1, v[2]>>
                 L == <<v[1], m - 1>>
      <4>1. v[1] <= v[2]
        BY <1>0, <3>2
      <4>2. m \in v[1] .. v[2] /\ R \in W /\ L \in W /\ Size(R) < Size(v) /\ Size(L) < Size(v)
        BY <4>1, Halved
      <4>3. R[1] = m + 1 /\ R[2] = v[2] /\ L[1] = v[1] /\ L[2] = m - 1
        OBVIOUS
      <4>4. g[v] = m \/ g[v] = g[R] \/ g[v] = g[L]
        BY <4>1, SearchStep
      <4> HIDE DEF m, R, L
      <4>5. Size(R) <= n /\ Size(L) <= n
        BY <1>0, <2>1, <2>2, <4>2
      <4>6. R[1] <= R[2] + 1 /\ L[1] <= L[2] + 1
        BY <1>0, <4>2, <4>3
      <4>7. g[R] \in R[1] .. R[2] + 1 /\ g[L] \in L[1] .. L[2] + 1
        BY <2>1, <4>2, <4>5, <4>6
      <4>8. v[1] \in Nat /\ v[2] \in Nat /\ m \in Nat /\ v[1] <= m /\ m <= v[2]
        BY <1>0, <4>2
      <4>9. g[R] \in m + 1 .. v[2] + 1 /\ g[L] \in v[1] .. (m - 1) + 1
        BY <4>3, <4>7
      <4>10. CASE g[v] = m
        BY <4>8, <4>10
      <4>11. CASE g[v] = g[R]
        BY <4>8, <4>9, <4>11
      <4>12. CASE g[v] = g[L]
        BY <4>8, <4>9, <4>12
      <4> QED
        BY <4>4, <4>10, <4>11, <4>12
    <3> QED
      BY <3>1, <3>2
  <2>3. n + 1 \in Nat
    BY <2>1
  <2> QED
    BY <2>2, <2>3 DEF P
<1>3. P \subseteq Nat
  OBVIOUS
<1> HIDE DEF P
<1>4. Len(ix.tree) \in P
  BY <1>1, <1>2, <1>3, SetInduction
<1> QED
  BY <1>0, <1>4 DEF P

\* A position of the tree.
Places(ix) == 1 .. Len(ix.tree)

\* The tree is in the order LMDB compares by.
InOrder(ix) == \A i, j \in Places(ix) : i < j => Rank(ix, ix.tree[i]) < Rank(ix, ix.tree[j])

\* An index whose keys are distinct, for both orders.
Distinct(ix) ==
    /\ Len(ix.tree) \in Nat
    /\ \A i \in Places(ix) : Rank(ix, ix.tree[i]) \in Nat
    /\ \A i, j \in Places(ix) : i # j => ix.tree[i] # ix.tree[j]

\* In a tree in order the search finds every key.
LEMMA SearchFinds ==
  ASSUME NEW ix, Distinct(ix), InOrder(ix), NEW p \in Places(ix),
         NEW g, Searches(ix, ix.tree[p], g)
  PROVE  g[<<1, Len(ix.tree)>>] = p
<1> DEFINE W == Windows(ix)
           k == ix.tree[p]
           P == {n \in Nat : \A v \in W : Size(v) <= n /\ v[1] <= p /\ p <= v[2] => g[v] = p}
<1>a. Len(ix.tree) \in Nat /\ p \in 1 .. Len(ix.tree)
  BY DEF Distinct, Places
<1>0. \A v \in W : /\ v[1] \in 1 .. Len(ix.tree) + 1 /\ v[2] \in 0 .. Len(ix.tree)
                   /\ Size(v) \in 0 .. Len(ix.tree) /\ (Size(v) = 0 <=> v[1] > v[2])
  BY <1>a, Halved
<1>1. 0 \in P
  <2> SUFFICES ASSUME NEW v \in W, Size(v) <= 0, v[1] <= p, p <= v[2] PROVE FALSE
    OBVIOUS
  <2>1. v[1] > v[2]
    BY <1>0
  <2> QED
    BY <1>0, <1>a, <2>1
<1>2. ASSUME NEW n \in P PROVE n + 1 \in P
  <2>1. n \in Nat /\ \A v \in W : Size(v) <= n /\ v[1] <= p /\ p <= v[2] => g[v] = p
    OBVIOUS
  <2> HIDE DEF P
  <2>2. ASSUME NEW v \in W, Size(v) <= n + 1, v[1] <= p, p <= v[2] PROVE g[v] = p
    <3> DEFINE m == Middle(v)
               R == <<m + 1, v[2]>>
               L == <<v[1], m - 1>>
    <3>1. v[1] <= v[2]
      BY <1>0, <1>a, <2>2
    <3>2. m \in v[1] .. v[2] /\ R \in W /\ L \in W /\ Size(R) < Size(v) /\ Size(L) < Size(v)
      BY <1>a, <3>1, Halved
    <3>3. R[1] = m + 1 /\ R[2] = v[2] /\ L[1] = v[1] /\ L[2] = m - 1
      OBVIOUS
    <3>4. \/ ix.tree[m] = k /\ g[v] = m
          \/ ix.tree[m] # k /\ Rank(ix, k) > Rank(ix, ix.tree[m]) /\ g[v] = g[R]
          \/ ix.tree[m] # k /\ ~(Rank(ix, k) > Rank(ix, ix.tree[m])) /\ g[v] = g[L]
      BY <1>a, <3>1, SearchStep
    <3> HIDE DEF m, R, L
    <3>5. Size(R) <= n /\ Size(L) <= n /\ m \in Places(ix)
      <4>1. Size(R) <= n /\ Size(L) <= n
        BY <1>0, <2>1, <2>2, <3>2
      <4> QED
        BY <1>0, <1>a, <3>2, <4>1 DEF Places
    <3>6. Rank(ix, k) \in Nat /\ Rank(ix, ix.tree[m]) \in Nat
      BY <3>5 DEF Distinct
    <3>7. CASE ix.tree[m] = k
      BY <3>4, <3>5, <3>7 DEF Distinct
    <3>8. CASE m < p
      <4>1. Rank(ix, ix.tree[m]) < Rank(ix, k)
        BY <3>5, <3>8 DEF InOrder
      <4>2. g[v] = g[R] \/ (ix.tree[m] = k /\ g[v] = m)
        BY <3>4, <3>6, <4>1
      <4>3. R[1] <= p /\ p <= R[2]
        BY <1>0, <1>a, <2>2, <3>2, <3>3, <3>8
      <4> QED
        BY <2>1, <3>2, <3>5, <3>7, <4>2, <4>3
    <3>9. CASE p < m
      <4>1. Rank(ix, k) < Rank(ix, ix.tree[m])
        BY <3>5, <3>9 DEF InOrder
      <4>2. g[v] = g[L] \/ (ix.tree[m] = k /\ g[v] = m)
        BY <3>4, <3>6, <4>1
      <4>3. L[1] <= p /\ p <= L[2]
        BY <1>0, <1>a, <2>2, <3>2, <3>3, <3>9
      <4> QED
        BY <2>1, <3>2, <3>5, <3>7, <4>2, <4>3
    <3>10. m = p \/ m < p \/ p < m
      BY <1>0, <1>a, <3>2
    <3> QED
      BY <3>7, <3>8, <3>9, <3>10
  <2>3. n + 1 \in Nat
    BY <2>1
  <2> QED
    BY <2>2, <2>3 DEF P
<1>3. P \subseteq Nat
  OBVIOUS
<1> HIDE DEF P
<1>4. Len(ix.tree) \in P
  BY <1>1, <1>2, <1>3, <1>a, SetInduction
<1> DEFINE v == <<1, Len(ix.tree)>>
<1>5. v \in W /\ v[1] = 1 /\ v[2] = Len(ix.tree)
  BY <1>a DEF Windows
<1> HIDE DEF v
<1>6. Size(v) <= Len(ix.tree) /\ v[1] <= p /\ p <= v[2]
  BY <1>0, <1>5, <1>a
<1>7. g[v] = p
  BY <1>4, <1>5, <1>6 DEF P
<1> QED
  BY <1>7 DEF v

\* Two neighbours in the wrong order cannot both be found: where their searches
\* part, one of them turns away from its key.
LEMMA WitnessMisses ==
  ASSUME NEW ix, Distinct(ix), NEW a \in Places(ix), a + 1 \in Places(ix),
         Rank(ix, ix.tree[a]) > Rank(ix, ix.tree[a + 1]),
         NEW f, Searches(ix, ix.tree[a], f), NEW g, Searches(ix, ix.tree[a + 1], g)
  PROVE  ~(f[<<1, Len(ix.tree)>>] = a /\ g[<<1, Len(ix.tree)>>] = a + 1)
<1> DEFINE W == Windows(ix)
           k == ix.tree[a]
           l == ix.tree[a + 1]
           Missed(v) == v[1] <= a /\ a + 1 <= v[2] => ~(f[v] = a /\ g[v] = a + 1)
           P == {n \in Nat : \A v \in W : Size(v) <= n => Missed(v)}
<1>a. Len(ix.tree) \in Nat /\ a \in 1 .. Len(ix.tree) /\ a + 1 \in 1 .. Len(ix.tree)
  BY DEF Distinct, Places
<1>0. \A v \in W : /\ v[1] \in 1 .. Len(ix.tree) + 1 /\ v[2] \in 0 .. Len(ix.tree)
                   /\ Size(v) \in 0 .. Len(ix.tree) /\ (Size(v) = 0 <=> v[1] > v[2])
  BY <1>a, Halved
<1>1. 0 \in P
  <2> SUFFICES ASSUME NEW v \in W, Size(v) <= 0, v[1] <= a, a + 1 <= v[2] PROVE FALSE
    OBVIOUS
  <2>1. v[1] > v[2]
    BY <1>0
  <2> QED
    BY <1>0, <1>a, <2>1
<1>2. ASSUME NEW n \in P PROVE n + 1 \in P
  <2>1. n \in Nat /\ \A v \in W : Size(v) <= n => Missed(v)
    OBVIOUS
  <2> HIDE DEF P
  <2>2. ASSUME NEW v \in W, Size(v) <= n + 1, v[1] <= a, a + 1 <= v[2], f[v] = a, g[v] = a + 1
        PROVE  FALSE
    <3> DEFINE m == Middle(v)
               R == <<m + 1, v[2]>>
               L == <<v[1], m - 1>>
    <3>1. v[1] <= v[2]
      BY <1>0, <1>a, <2>2
    <3>2. m \in v[1] .. v[2] /\ R \in W /\ L \in W /\ Size(R) < Size(v) /\ Size(L) < Size(v)
      BY <1>a, <3>1, Halved
    <3>3. R[1] = m + 1 /\ R[2] = v[2] /\ L[1] = v[1] /\ L[2] = m - 1
      OBVIOUS
    <3>4. \/ ix.tree[m] = k /\ f[v] = m
          \/ ix.tree[m] # k /\ Rank(ix, k) > Rank(ix, ix.tree[m]) /\ f[v] = f[R]
          \/ ix.tree[m] # k /\ ~(Rank(ix, k) > Rank(ix, ix.tree[m])) /\ f[v] = f[L]
      BY <1>a, <3>1, SearchStep
    <3>5. \/ ix.tree[m] = l /\ g[v] = m
          \/ ix.tree[m] # l /\ Rank(ix, l) > Rank(ix, ix.tree[m]) /\ g[v] = g[R]
          \/ ix.tree[m] # l /\ ~(Rank(ix, l) > Rank(ix, ix.tree[m])) /\ g[v] = g[L]
      BY <1>a, <3>1, SearchStep
    <3> HIDE DEF m, R, L
    <3>6. /\ v[1] \in Nat /\ v[2] \in Nat /\ m \in Nat /\ v[1] <= m /\ m <= v[2] /\ a \in Nat
          /\ m \in Places(ix) /\ Size(R) <= n /\ Size(L) <= n
      <4>1. Size(R) <= n /\ Size(L) <= n
        BY <1>0, <2>1, <2>2, <3>2
      <4> QED
        BY <1>0, <1>a, <3>2, <4>1 DEF Places
    <3>7. /\ f[R] \in m + 1 .. v[2] + 1 /\ g[R] \in m + 1 .. v[2] + 1
          /\ f[L] \in v[1] .. (m - 1) + 1 /\ g[L] \in v[1] .. (m - 1) + 1
      <4>1. R[1] <= R[2] + 1 /\ L[1] <= L[2] + 1
        BY <3>3, <3>6
      <4>2. f[R] \in R[1] .. R[2] + 1 /\ g[R] \in R[1] .. R[2] + 1
        BY <1>a, <3>2, <4>1, SearchRange
      <4>3. f[L] \in L[1] .. L[2] + 1 /\ g[L] \in L[1] .. L[2] + 1
        BY <1>a, <3>2, <4>1, SearchRange
      <4> QED
        BY <3>3, <4>2, <4>3
    <3>8. (ix.tree[m] = k => m = a) /\ (ix.tree[m] = l => m = a + 1)
      BY <3>6 DEF Distinct
    <3>9. Rank(ix, k) \in Nat /\ Rank(ix, l) \in Nat /\ Rank(ix, k) > Rank(ix, l)
      BY DEF Distinct
    <3>10. CASE m = a
      <4>1. g[v] = g[L]
        BY <3>5, <3>6, <3>8, <3>9, <3>10
      <4> QED
        BY <2>2, <3>6, <3>7, <3>10, <4>1
    <3>11. CASE m = a + 1
      <4>1. f[v] = f[R]
        BY <3>4, <3>6, <3>8, <3>9, <3>11
      <4> QED
        BY <2>2, <3>6, <3>7, <3>11, <4>1
    <3>12. CASE m < a
      <4>1. f[v] = f[R] /\ g[v] = g[R]
        BY <2>2, <3>4, <3>5, <3>6, <3>7, <3>8, <3>12
      <4>2. R[1] <= a /\ a + 1 <= R[2]
        BY <2>2, <3>3, <3>6, <3>12
      <4> QED
        BY <2>1, <2>2, <3>2, <3>6, <4>1, <4>2
    <3>13. CASE m > a + 1
      <4>1. f[v] = f[L] /\ g[v] = g[L]
        BY <2>2, <3>4, <3>5, <3>6, <3>7, <3>8, <3>13
      <4>2. L[1] <= a /\ a + 1 <= L[2]
        BY <2>2, <3>3, <3>6, <3>13
      <4> QED
        BY <2>1, <2>2, <3>2, <3>6, <4>1, <4>2
    <3> QED
      BY <3>6, <3>10, <3>11, <3>12, <3>13
  <2>3. n + 1 \in Nat
    BY <2>1
  <2> QED
    BY <2>2, <2>3 DEF P
<1>3. P \subseteq Nat
  OBVIOUS
<1> HIDE DEF P
<1>4. Len(ix.tree) \in P
  BY <1>1, <1>2, <1>3, <1>a, SetInduction
<1> DEFINE v == <<1, Len(ix.tree)>>
<1>5. v \in W /\ v[1] = 1 /\ v[2] = Len(ix.tree)
  BY <1>a DEF Windows
<1> HIDE DEF v
<1>6. Size(v) <= Len(ix.tree) /\ v[1] <= a /\ a + 1 <= v[2]
  BY <1>0, <1>5, <1>a
<1>7. ~(f[v] = a /\ g[v] = a + 1)
  BY <1>4, <1>5, <1>6 DEF P
<1> QED
  BY <1>7 DEF v

\* Neighbours in order put the whole tree in order.
LEMMA NeighboursOrder ==
  ASSUME NEW ix, Distinct(ix),
         \A i \in Places(ix) : i + 1 \in Places(ix) =>
             Rank(ix, ix.tree[i]) < Rank(ix, ix.tree[i + 1])
  PROVE  InOrder(ix)
<1> DEFINE R(i) == Rank(ix, ix.tree[i])
           P == {n \in Nat : \A i \in Places(ix) : i + n + 1 \in Places(ix) => R(i) < R(i + n + 1)}
<1>a. Len(ix.tree) \in Nat /\ \A i \in Places(ix) : R(i) \in Nat /\ i \in Nat
  BY DEF Distinct, Places
<1>1. \A i \in Places(ix) : i + 1 \in Places(ix) => R(i) < R(i + 1)
  OBVIOUS
<1> HIDE DEF R
<1>2. 0 \in P
  <2>1. \A i \in Places(ix) : i + 0 + 1 = i + 1
    BY <1>a
  <2> QED
    BY <1>1, <2>1
<1>3. ASSUME NEW n \in P PROVE n + 1 \in P
  <2>1. n \in Nat /\ \A i \in Places(ix) : i + n + 1 \in Places(ix) => R(i) < R(i + n + 1)
    OBVIOUS
  <2> HIDE DEF P
  <2>2. ASSUME NEW i \in Places(ix), i + (n + 1) + 1 \in Places(ix) PROVE R(i) < R(i + (n + 1) + 1)
    <3> DEFINE j == i + n + 1
    <3>1. j \in Places(ix) /\ j + 1 = i + (n + 1) + 1
      BY <1>a, <2>1, <2>2 DEF Places
    <3>2. R(i) < R(j)
      BY <2>1, <3>1
    <3> HIDE DEF j
    <3>3. R(j) < R(j + 1)
      BY <1>1, <2>2, <3>1
    <3>4. R(i) \in Nat /\ R(j) \in Nat /\ R(j + 1) \in Nat
      BY <1>a, <2>2, <3>1
    <3> QED
      BY <3>1, <3>2, <3>3, <3>4
  <2> QED
    BY <2>1, <2>2 DEF P
<1>4. P \subseteq Nat
  OBVIOUS
<1> HIDE DEF P
<1>5. P = Nat
  BY <1>2, <1>3, <1>4, SetInduction
<1>6. ASSUME NEW i \in Places(ix), NEW j \in Places(ix), i < j PROVE R(i) < R(j)
  <2>1. j - i - 1 \in Nat /\ i + (j - i - 1) + 1 = j
    BY <1>a, <1>6
  <2> DEFINE n == j - i - 1
  <2>2. n \in P /\ i + n + 1 = j
    BY <1>5, <2>1
  <2> HIDE DEF n
  <2> QED
    BY <2>2 DEF P
<1> QED
  BY <1>6 DEF InOrder, R

\* The recursive definition of FlattenSeq has a solution.
LEMMA FlattenUnfolds ==
  ASSUME NEW seqs, Len(seqs) \in Nat \ {0}
  PROVE  \E f : /\ FlattenSeq(seqs) = f[Len(seqs)]
                /\ \A i \in 1 .. Len(seqs) : f[i] = IF i = 1 THEN seqs[i] ELSE f[i - 1] \o seqs[i]
<1> DEFINE D == 1 .. Len(seqs)
           B(f, i) == IF i = 1 THEN seqs[i] ELSE f[i - 1] \o seqs[i]
           Solves(f, n) == f = [i \in D |-> f[i]] /\ \A i \in D : i <= n => f[i] = B(f, i)
           P == {n \in Nat : \E f : Solves(f, n)}
<1>1. 0 \in P
  <2> DEFINE f == [i \in D |-> 0]
  <2>1. f = [i \in D |-> f[i]] /\ \A i \in D : ~(i <= 0)
    OBVIOUS
  <2> HIDE DEF f, B
  <2>2. Solves(f, 0)
    BY <2>1
  <2> QED
    BY <2>2
<1>2. ASSUME NEW n \in P PROVE n + 1 \in P
  <2>1. n \in Nat
    OBVIOUS
  <2>2. PICK f : Solves(f, n)
    OBVIOUS
  <2> DEFINE h == [i \in D |-> IF i <= n THEN f[i] ELSE B(f, i)]
  <2>3. h = [i \in D |-> h[i]] /\ \A i \in D : h[i] = IF i <= n THEN f[i] ELSE B(f, i)
    OBVIOUS
  <2> HIDE DEF h
  <2>4. ASSUME NEW i \in D, i <= n + 1 PROVE h[i] = B(h, i)
    <3>1. h[i] = B(f, i)
      <4> HIDE DEF B
      <4> QED
        BY <2>2, <2>3
    <3>2. i # 1 => h[i - 1] = f[i - 1]
      <4>1. i # 1 => i - 1 \in D /\ i - 1 <= n
        BY <2>1, <2>4
      <4> HIDE DEF D, B
      <4> QED
        BY <2>3, <4>1
    <3> QED
      BY <3>1, <3>2
  <2> HIDE DEF B
  <2>5. Solves(h, n + 1)
    BY <2>3, <2>4
  <2> QED
    BY <2>1, <2>5
<1>3. P \subseteq Nat
  OBVIOUS
<1> HIDE DEF P
<1>4. Len(seqs) \in P
  BY <1>1, <1>2, <1>3, SetInduction
<1>5. PICK h : Solves(h, Len(seqs))
  BY <1>4 DEF P
<1>6. h = [i \in D |-> B(h, i)]
  <2> HIDE DEF B
  <2>1. \A i \in D : i <= Len(seqs)
    OBVIOUS
  <2>2. \A i \in D : h[i] = B(h, i)
    BY <1>5, <2>1
  <2> QED
    BY <1>5, <2>2
<1> DEFINE f == CHOOSE f : f = [i \in 1 .. Len(seqs) |-> IF i = 1 THEN seqs[i] ELSE f[i - 1] \o seqs[i]]
<1>7. f = [i \in 1 .. Len(seqs) |-> IF i = 1 THEN seqs[i] ELSE f[i - 1] \o seqs[i]]
  BY <1>6, Zenon
<1>8. FlattenSeq(seqs) = f[Len(seqs)]
  <2>1. ~(Len(seqs) = 0)
    OBVIOUS
  <2> QED
    BY <2>1, Zenon DEF FlattenSeq
<1> HIDE DEF f
<1>9. \A i \in 1 .. Len(seqs) : f[i] = IF i = 1 THEN seqs[i] ELSE f[i - 1] \o seqs[i]
  BY <1>7
<1> QED
  BY <1>8, <1>9

\* Neighbours in the tree are neighbours in an iteration over its entries.
LEMMA EntriesNeighbours ==
  ASSUME NEW ix, ix.tree \in Seq(Nat), Len(ix.tree) \in Nat \ {0}
  PROVE  /\ Entries(ix) \in Seq(Nat)
         /\ \A j \in 1 .. Len(ix.tree) : j # 1 =>
               \E x \in 2 .. Len(Entries(ix)) :
                  Entries(ix)[x - 1] = ix.tree[j - 1] /\ Entries(ix)[x] = ix.tree[j]
<1> DEFINE t == ix.tree
           N == Len(t)
           Part(i) == IF t[i] \in ix.twice THEN <<t[i], t[i]>> ELSE <<t[i]>>
           parts == [i \in 1 .. N |-> Part(i)]
<1>1. DOMAIN t = 1 .. N /\ \A i \in 1 .. N : t[i] \in Nat
  BY LenProperties, ElementOfSeq
<1>2. \A i \in 1 .. N : /\ Part(i) \in Seq(Nat) /\ Len(Part(i)) \in {1, 2}
                        /\ Part(i)[1] = t[i] /\ Part(i)[Len(Part(i))] = t[i]
  BY <1>1
<1>3. Entries(ix) = FlattenSeq(parts)
  BY <1>1 DEF Entries
<1> HIDE DEF t, Part
<1>4. Len(parts) = N /\ \A i \in 1 .. N : parts[i] = Part(i)
  <2>1. parts \in Seq(Seq(Nat))
    BY <1>2, SeqDef
  <2> QED
    BY <2>1, LenProperties
<1>5. PICK f : /\ Entries(ix) = f[N]
               /\ \A i \in 1 .. N : f[i] = IF i = 1 THEN Part(i) ELSE f[i - 1] \o Part(i)
  <2>0. N \in Nat \ {0}
    BY DEF t
  <2> HIDE DEF parts, N
  <2>1. Len(parts) \in Nat \ {0}
    BY <1>4, <2>0
  <2>2. PICK f : /\ FlattenSeq(parts) = f[Len(parts)]
                 /\ \A i \in 1 .. Len(parts) : f[i] = IF i = 1 THEN parts[i] ELSE f[i - 1] \o parts[i]
    BY <2>1, FlattenUnfolds
  <2>3. \A i \in 1 .. N : f[i] = IF i = 1 THEN Part(i) ELSE f[i - 1] \o Part(i)
    BY <1>4, <2>2
  <2> QED
    BY <1>3, <1>4, <2>2, <2>3
<1> HIDE DEF parts
<1> DEFINE Pair(s, j) == \E x \in 2 .. Len(s) : s[x - 1] = t[j - 1] /\ s[x] = t[j]
           Good(n) == /\ f[n] \in Seq(Nat) /\ Len(f[n]) \in Nat \ {0} /\ f[n][Len(f[n])] = t[n]
                      /\ \A j \in 2 .. n : Pair(f[n], j)
           P == {n \in Nat : n + 1 \in 1 .. N => Good(n + 1)}
<1>6. N \in Nat \ {0}
  BY DEF t
<1> HIDE DEF N
<1>7. 0 \in P
  <2>1. f[1] = Part(1) /\ 1 \in 1 .. N
    BY <1>5, <1>6
  <2>2. \A j \in 2 .. 1 : FALSE
    OBVIOUS
  <2>3. Good(1)
    BY <1>2, <2>1, <2>2
  <2>4. 0 + 1 = 1
    OBVIOUS
  <2> HIDE DEF Good
  <2> QED
    BY <2>3, <2>4
<1>8. ASSUME NEW i \in P PROVE i + 1 \in P
  <2>1. i \in Nat /\ (i + 1 \in 1 .. N => Good(i + 1))
    OBVIOUS
  <2> HIDE DEF P
  <2> SUFFICES ASSUME (i + 1) + 1 \in 1 .. N PROVE Good((i + 1) + 1)
    BY <2>1 DEF P
  <2> DEFINE n == i + 1
             m == n + 1
             a == f[n]
             b == Part(m)
  <2>2. n \in 1 .. N /\ m \in 1 .. N /\ m # 1 /\ m - 1 = n /\ n \in Nat /\ m = n + 1
    BY <1>6, <2>1
  <2>3. Good(n)
    BY <2>1, <2>2
  <2>4. f[m] = a \o b
    <3> HIDE DEF m, n
    <3>1. f[m] = f[m - 1] \o Part(m)
      BY <1>5, <2>2
    <3> QED
      BY <2>2, <3>1
  <2>5. b \in Seq(Nat) /\ Len(b) \in {1, 2} /\ b[1] = t[m] /\ b[Len(b)] = t[m]
    BY <1>2, <2>2
  <2>6. a \in Seq(Nat) /\ Len(a) \in Nat \ {0} /\ a[Len(a)] = t[n] /\ \A j \in 2 .. n : Pair(a, j)
    BY <2>3
  <2> HIDE DEF a, b, m, n
  <2>7. /\ a \o b \in Seq(Nat) /\ Len(a \o b) = Len(a) + Len(b)
        /\ \A x \in 1 .. Len(a) + Len(b) : (a \o b)[x] = IF x <= Len(a) THEN a[x] ELSE b[x - Len(a)]
    BY <2>5, <2>6, ConcatProperties
  <2> DEFINE c == a \o b
  <2> HIDE DEF c
  <2>8. /\ c \in Seq(Nat) /\ Len(c) = Len(a) + Len(b)
        /\ \A x \in 1 .. Len(a) : c[x] = a[x]
        /\ \A y \in 1 .. Len(b) : c[Len(a) + y] = b[y]
    <3>1. c \in Seq(Nat) /\ Len(c) = Len(a) + Len(b)
      BY <2>7 DEF c
    <3>2. \A x \in 1 .. Len(a) : x \in 1 .. Len(a) + Len(b) /\ x <= Len(a)
      BY <2>5, <2>6
    <3>3. \A y \in 1 .. Len(b) : /\ Len(a) + y \in 1 .. Len(a) + Len(b) /\ ~(Len(a) + y <= Len(a))
                                 /\ (Len(a) + y) - Len(a) = y
      BY <2>5, <2>6
    <3> QED
      BY <2>7, <3>1, <3>2, <3>3 DEF c
  <2>8a. /\ Len(a) \in Nat /\ Len(b) \in Nat /\ Len(a) >= 1 /\ Len(b) >= 1
        /\ Len(c) = Len(a) + Len(b)
    <3>1. Len(a) \in Nat /\ Len(a) >= 1
      BY <2>6
    <3>2. Len(b) \in Nat /\ Len(b) >= 1
      BY <2>5
    <3> QED
      BY <2>8, <3>1, <3>2
  <2>9. Len(c) \in Nat \ {0} /\ c[Len(c)] = t[m]
    <3>1. Len(b) \in 1 .. Len(b)
      BY <2>8a
    <3>2. c[Len(a) + Len(b)] = b[Len(b)]
      BY <2>8, <3>1
    <3>3. Len(c) \in Nat \ {0}
      BY <2>8a
    <3> QED
      BY <2>5, <2>8a, <3>2, <3>3
  <2>10. ASSUME NEW j \in 2 .. m PROVE Pair(c, j)
    <3>1. CASE j \in 2 .. n
      <4>1. PICK x \in 2 .. Len(a) : a[x - 1] = t[j - 1] /\ a[x] = t[j]
        BY <2>6, <3>1
      <4>2. x \in 2 .. Len(c) /\ x \in 1 .. Len(a) /\ x - 1 \in 1 .. Len(a)
        BY <2>8a
      <4> QED
        BY <2>8, <4>1, <4>2
    <3>2. CASE j = m
      <4> DEFINE x == Len(a) + 1
      <4>1. x \in 2 .. Len(c) /\ x - 1 = Len(a) /\ Len(a) \in 1 .. Len(a) /\ 1 \in 1 .. Len(b)
        BY <2>8a
      <4>2. c[x] = t[m] /\ c[x - 1] = t[n]
        BY <2>5, <2>6, <2>8, <4>1
      <4>3. j - 1 = n
        BY <2>2, <3>2
      <4> HIDE DEF x
      <4> QED
        BY <3>2, <4>1, <4>2, <4>3
    <3> QED
      BY <2>2, <3>1, <3>2
  <2>11. f[m] = c
    BY <2>4 DEF c
  <2>12. Good(m)
    BY <2>8, <2>9, <2>10, <2>11
  <2> QED
    BY <2>12 DEF m, n
<1>9. P \subseteq Nat
  OBVIOUS
<1> HIDE DEF P
<1>10. N - 1 \in P /\ (N - 1) + 1 = N /\ N \in 1 .. N
  <2>1. P = Nat
    BY <1>7, <1>8, <1>9, SetInduction
  <2>2. N - 1 \in Nat /\ (N - 1) + 1 = N /\ N \in 1 .. N
    BY <1>6
  <2> QED
    BY <2>1, <2>2
<1>11. Good(N)
  BY <1>10 DEF P
<1>12. \A j \in 1 .. N : j # 1 => j \in 2 .. N
  BY <1>6
<1> QED
  BY <1>5, <1>11, <1>12 DEF N, t

\* A sample that may hold every entry does.
LEMMA SampleWhole ==
  ASSUME NEW ix, Entries(ix) \in Seq(Nat), Len(Entries(ix)) <= SampleCap
  PROVE  Sample(ix) = Entries(ix)
<1> DEFINE E == Entries(ix)
           L == Len(E)
<1>1. L \in Nat /\ L <= SampleCap /\ SampleCap \in Nat
  BY LenProperties, AdapterConstants
<1> HIDE DEF L
<1>2. Min({L, SampleCap}) = L
  <2> DEFINE m == CHOOSE x \in {L, SampleCap} : \A y \in {L, SampleCap} : x <= y
  <2>1. \E x \in {L, SampleCap} : \A y \in {L, SampleCap} : x <= y
    BY <1>1
  <2>2. m \in {L, SampleCap} /\ \A y \in {L, SampleCap} : m <= y
    BY <2>1
  <2>3. Min({L, SampleCap}) = m
    BY DEF Min
  <2> HIDE DEF m
  <2> QED
    BY <1>1, <2>2, <2>3
<1>3. SubSeq(E, 1, L) = E
  <2>1. E \in Seq(Nat) /\ L = Len(E)
    BY DEF L
  <2> HIDE DEF E
  <2> QED
    BY <1>1, <2>1, SubSeqFull
<1> QED
  BY <1>2, <1>3 DEF Sample, L

\* A key that the database gives back is where the search ends.
LEMMA RoundTripPlace ==
  ASSUME NEW ix, Distinct(ix), NEW p \in Places(ix), RoundTrips(ix, ix.tree[p])
  PROVE  \E g : Searches(ix, ix.tree[p], g) /\ g[<<1, Len(ix.tree)>>] = p
<1> DEFINE N == Len(ix.tree)
           k == ix.tree[p]
<1>1. N \in Nat /\ p \in 1 .. N /\ N >= 1
  BY DEF Distinct, Places
<1>2. PICK g : Searches(ix, k, g) /\ SeekPos(ix, k) = g[<<1, N>>]
  BY <1>1, SearchUnfolds
<1>3. g[<<1, N>>] \in 1 .. N + 1
  <2> DEFINE w == <<1, N>>
  <2>1. w \in Windows(ix) /\ w[1] = 1 /\ w[2] = N /\ w[1] <= w[2] + 1
    BY <1>1 DEF Windows
  <2> HIDE DEF w
  <2>2. g[w] \in w[1] .. w[2] + 1
    BY <1>1, <1>2, <2>1, SearchRange
  <2> QED
    BY <2>1, <2>2 DEF w
<1>4. SeekPos(ix, k) <= N /\ ix.tree[SeekPos(ix, k)] = k
  BY DEF RoundTrips
<1>5. g[<<1, N>>] \in Places(ix) /\ ix.tree[g[<<1, N>>]] = k
  BY <1>1, <1>2, <1>3, <1>4 DEF Places
<1> QED
  BY <1>2, <1>5 DEF Distinct

\* The self-check is sound: where its sample holds every entry and it passes, LMDB
\* finds every key.  With the reimplemented comparator registered the tree is in its
\* order, by phase A; without it a tree that is out of the order of memcmp has a
\* witness pair next to each other, and the search misses one of the two.
LEMMA CheckSound ==
  ASSUME NEW ix, ix.registered \in BOOLEAN, ix.tree \in Seq(Nat),
         \A k \in Range(ix.tree) : ix.own[k] \in Nat,
         \A i, j \in 1 .. Len(ix.tree) :
             i # j => ix.tree[i] # ix.tree[j] /\ ix.own[ix.tree[i]] # ix.own[ix.tree[j]],
         CheckPasses(ix)
  PROVE  Reliable(ix)
<1> SUFFICES ASSUME Len(Entries(ix)) <= SampleCap, NEW k \in Range(ix.tree) PROVE RoundTrips(ix, k)
  BY DEF Reliable
<1> DEFINE t == ix.tree
           N == Len(t)
           E == Entries(ix)
<1>1. /\ N \in Nat /\ DOMAIN t = 1 .. N
      /\ \A i \in 1 .. N : t[i] \in Nat /\ ix.own[t[i]] \in Nat
  <2>1. N \in Nat /\ DOMAIN t = 1 .. N /\ \A i \in 1 .. N : t[i] \in Nat
    BY LenProperties, ElementOfSeq
  <2>2. \A i \in 1 .. N : t[i] \in Range(t)
    BY <2>1 DEF Range
  <2> QED
    BY <2>1, <2>2
<1>2. PICK p \in 1 .. N : t[p] = k
  BY <1>1 DEF Range
<1>3. N \in Nat \ {0}
  BY <1>1, <1>2
<1>4. Distinct(ix)
  BY <1>1 DEF Distinct, Places, Rank
<1>5. /\ E \in Seq(Nat)
      /\ \A j \in 1 .. N : j # 1 => \E x \in 2 .. Len(E) : E[x - 1] = t[j - 1] /\ E[x] = t[j]
  BY <1>3, EntriesNeighbours
<1>6. Sample(ix) = E
  BY <1>5, SampleWhole
<1>7. ASSUME NEW i \in Places(ix), i + 1 \in Places(ix)
      PROVE  Rank(ix, t[i]) < Rank(ix, t[i + 1])
  <2>1. i \in 1 .. N /\ i + 1 \in 1 .. N /\ i + 1 # 1 /\ (i + 1) - 1 = i /\ i # i + 1
    BY <1>1, <1>7 DEF Places
  <2>2. PICK x \in 2 .. Len(E) : E[x - 1] = t[i] /\ E[x] = t[i + 1]
    <3> DEFINE j == i + 1
    <3>1. j \in 1 .. N /\ j # 1 /\ j - 1 = i
      BY <2>1
    <3> HIDE DEF j, t, E, N
    <3>2. \E x \in 2 .. Len(E) : E[x - 1] = t[j - 1] /\ E[x] = t[j]
      BY <1>5, <3>1
    <3> QED
      BY <3>1, <3>2 DEF j
  <2>3. CASE ix.registered
    <3>1. ix.own[E[x - 1]] <= ix.own[E[x]]
      BY <1>6, <2>2 DEF CheckPasses, Monotone
    <3>2. ix.own[t[i]] # ix.own[t[i + 1]]
      BY <2>1
    <3>3. ix.own[t[i]] \in Nat /\ ix.own[t[i + 1]] \in Nat
      BY <1>1, <2>1
    <3>4. ix.own[t[i]] < ix.own[t[i + 1]]
      <4> DEFINE a == ix.own[t[i]]
                 b == ix.own[t[i + 1]]
      <4>1. a \in Nat /\ b \in Nat /\ a # b /\ a <= b
        BY <2>2, <3>1, <3>2, <3>3
      <4> HIDE DEF a, b
      <4>2. a < b
        BY <4>1
      <4> QED
        BY <4>2 DEF a, b
    <3> QED
      BY <2>3, <3>4 DEF Rank
  <2>4. CASE ~ix.registered
    <3>1. t[i] \in Nat /\ t[i + 1] \in Nat /\ t[i] # t[i + 1]
      BY <1>1, <2>1
    <3>2. \A key : Rank(ix, key) = key
      BY <2>4 DEF Rank
    <3> SUFFICES ASSUME t[i] > t[i + 1] PROVE FALSE
      BY <3>1, <3>2
    <3>3. x \in Witnesses(ix)
      BY <1>6, <2>2 DEF Witnesses
    <3>4. x \in SeekTargets(ix) /\ x - 1 \in SeekTargets(ix)
      BY <3>3 DEF SeekTargets
    <3>5. RoundTrips(ix, t[i]) /\ RoundTrips(ix, t[i + 1])
      BY <1>6, <2>2, <3>4 DEF CheckPasses
    <3>6. PICK f : Searches(ix, t[i], f) /\ f[<<1, N>>] = i
      BY <1>4, <3>5, RoundTripPlace
    <3>7. PICK g : Searches(ix, t[i + 1], g) /\ g[<<1, N>>] = i + 1
      BY <1>4, <1>7, <3>5, RoundTripPlace
    <3>8. Rank(ix, t[i]) > Rank(ix, t[i + 1])
      BY <3>2
    <3> QED
      BY <1>4, <1>7, <3>6, <3>7, <3>8, WitnessMisses
  <2> QED
    BY <2>3, <2>4
<1>8. InOrder(ix)
  BY <1>4, <1>7, NeighboursOrder
<1>9. PICK g : Searches(ix, k, g) /\ SeekPos(ix, k) = g[<<1, N>>]
  BY <1>1, SearchUnfolds
<1>10. p \in Places(ix)
  BY DEF Places
<1>11. SeekPos(ix, k) = p
  BY <1>2, <1>4, <1>8, <1>9, <1>10, SearchFinds
<1> QED
  BY <1>1, <1>2, <1>11 DEF RoundTrips

\* No query is executed unless strfry's database is of the version and byte order the
\* code reads, and no index is served in which LMDB would miss a key it holds: for
\* every database, every list of indexes, and whichever comparator LMDB really uses.
THEOREM OnlyReliableCorrect == AdapterSpec => []OnlyReliableServed
<1>1. AdapterInit => world \in Worlds
  BY DEF AdapterInit
<1>2. world \in Worlds /\ [AdapterNext]_adapterVars => (world \in Worlds)'
  <2> SUFFICES ASSUME world \in Worlds, [AdapterNext]_adapterVars PROVE world' \in Worlds
    OBVIOUS
  <2>1. UNCHANGED world
    BY DEF AdapterNext, Main, LoadConfig, PromptAndCreate, Bind, OpenEnv, ReadMeta, SelfCheck, Publish,
           RaiseFlag, Kill, Restart, Request, Gate, adapterVars
  <2> QED
    BY <2>1
<1>3. world \in Worlds /\ ServedOnlyChecked => OnlyReliableServed
  <2> SUFFICES ASSUME world \in Worlds, ServedOnlyChecked, served PROVE OnlyReliableServed
    BY DEF OnlyReliableServed
  <2>1. Field(world.meta, 1, 4) = 3 /\ Field(world.meta, 2, 4) = 1
    BY DEF ServedOnlyChecked, MetaGate, EXPECTED_DB_VERSION, STRFRY_LITTLE_ENDIAN_MARKER
  <2>2. ASSUME NEW n \in Range(Indexes)
        PROVE  world.index[n].present /\ Reliable(world.index[n])
    <3> DEFINE ix == world.index[n]
    <3>1. DOMAIN Indexes = 1 .. Len(Indexes)
      BY AdapterConstants, LenProperties
    <3>2. PICK i \in 1 .. Len(Indexes) : Indexes[i] = n
      BY <3>1 DEF Range
    <3>3. CheckPasses(ix)
      BY <3>2 DEF ServedOnlyChecked
    <3>4. /\ ix.registered \in BOOLEAN /\ ix.tree \in Seq(Nat)
          /\ \A k \in Range(ix.tree) : ix.own[k] \in Nat
          /\ \A h, j \in 1 .. Len(ix.tree) :
                h # j => ix.tree[h] # ix.tree[j] /\ ix.own[ix.tree[h]] # ix.own[ix.tree[j]]
      BY IndexAssumption
    <3> HIDE DEF ix
    <3>5. Reliable(ix)
      BY <3>3, <3>4, CheckSound
    <3>6. ix.present
      BY <3>3 DEF CheckPasses
    <3> QED
      BY <3>5, <3>6 DEF ix
  <2> QED
    BY <2>1, <2>2 DEF OnlyReliableServed
<1> QED
  BY <1>1, <1>2, <1>3, ServedCorrect, PTL DEF AdapterSpec

-----------------------------------------------------------------------------
(* The query engine                                                        *)

\* The place of a value in the selected index, and the entries of that index.
RankOf(v) == KeyRank[SelectIndex(filter)][v]

IndexEntries == EntriesOf(SelectIndex(filter), Events)

KeyOf == [val : Values, ts : Nat]

\* Event e comes after position b, which is not the end of a walk.
Under(e, b) ==
    b # Top =>
        \/ Created[e] < b.ts
        \/ Created[e] = b.ts /\ lev[e] < b.lev

\* Position b is c, or comes after it.
NotAbove(b, c) ==
    \/ c = Top
    \/ b # Top /\ (b.ts < c.ts \/ (b.ts = c.ts /\ b.lev <= c.lev))

\* In the order of a page, the same event twice included.
Precedes(d, e) == d = e \/ Newer(d, e)

\* An event that was read in the time of the filter.
Scanned(e) == e \in Events /\ lev[e] # 0 /\ InTime(filter, e)

\* An event that the client is owed.
Stays(e) == e \in stable /\ Matches(e)

\* What is stored at or after this second stream p has read of its own value.
Bound(p) == IF resume[p].val = p THEN resume[p].ts ELSE 0

\* What one window W of stream p holds: its own entries come first, and while some are
\* left all of the window is its own.
ReadBy(p, W) ==
    /\ W \subseteq IndexEntries /\ \A x \in W : x[2] \in stored
    /\ \A x \in W : Above(resume[p], Key(x)) /\ (x[1] = p \/ RankOf(x[1]) < RankOf(p))
    /\ \A x \in W : x[1] = p => resume[p].val = p /\ Created[x[2]] < Bound(p)
    /\ \A x \in W : x[1] = p => \A y \in W :
          Above(Key(y), Key(x)) => y[1] = p /\ Created[x[2]] < Created[y[2]]
    /\ \A e \in stored : p \in IndexKeys(SelectIndex(filter), e) /\ Created[e] < Bound(p) =>
          \/ <<p, e>> \in W
          \/ W # {} /\ \A y \in W : y[1] = p /\ Created[e] < Created[y[2]]
    /\ W # {} => /\ \E w \in W : ResumeKey(W) = Key(w)
                 /\ \A w \in W : ~Above(ResumeKey(W), Key(w))

\* Where a stream starts.
Start == IF boundary = Top THEN filter.until ELSE boundary.ts

InRound == pc \in {"merge", "hydrate"}

\* strfry numbers events one after the other.
Numbered ==
    /\ \A e \in Events : lev[e] <= Cardinality({x \in Events : lev[x] # 0})
    /\ \A d, e \in Events : lev[d] # 0 /\ lev[d] = lev[e] => d = e
    /\ \A e \in stored : lev[e] # 0

\* The streams, each of which reads its own value and then lower ones: one that goes
\* on has something in its buffer, or is refilled now, and a second window follows
\* only one that was all at the floor.
StreamInv == pc = "merge" =>
    /\ pending \subseteq open
    /\ \A p \in open : p \in pending <=> buffer[p] = {}
    /\ \A p \in ScanKeys : resume[p].val = p \/ RankOf(resume[p].val) < RankOf(p)
    /\ \A p \in ScanKeys : \A x \in buffer[p] :
          /\ lev[x[2]] # 0 /\ ~AtFloor(x[2]) /\ ~Above(resume[p], Key(x))
          /\ x[1] = p \/ RankOf(x[1]) < RankOf(p)
    /\ again => /\ pending # {} /\ boundary # Top
                /\ \A p \in ScanKeys : p = (CHOOSE q \in pending : TRUE) => Bound(p) <= boundary.ts

\* No event that stays is lost between the windows, the buffers and the results.
CompleteInv == pc = "merge" =>
    \A e : Stays(e) /\ Under(e, boundary) =>
        \A p \in ScanKeys : p \in IndexKeys(SelectIndex(filter), e) =>
            \/ e \in Range(merged) \/ <<p, e>> \in buffer[p]
            \/ p \in open /\ Created[e] < Bound(p)

\* The results never pass an event that stays: as long as it is not among them they
\* are newer.  Results of another value may come in any order.
MergedInv == InRound =>
    /\ \A e \in Range(merged) : lev[e] # 0 /\ ~AtFloor(e)
    /\ \A e : Stays(e) /\ Under(e, boundary) =>
          \A k \in 1 .. Len(merged) :
              (\A i \in 1 .. k : merged[i] # e) => Newer(merged[k], e)

\* The page so far: what stays below the cursor and is not on it is below the boundary
\* of the round and older than the page.
PageInv == InRound =>
    /\ \A v \in Range(valid) : lev[v] # 0
    /\ \A e : Stays(e) /\ Under(e, cursor) =>
          \/ e \in Range(valid)
          \/ Under(e, boundary) /\ \A v \in Range(valid) : Newer(v, e)

\* The merge goes on, or has left nothing out but at the limit; of what was hydrated
\* everything that stays is on the page, unless it is full.
RoundInv ==
    /\ pc = "merge" => Len(valid) < Limit /\ Len(merged) < EmitLimit /\ hydrated = 0
    /\ pc = "hydrate" =>
          \A e : Stays(e) /\ Under(e, boundary) =>
              /\ e \in Range(merged) \/ ~Exhausted
              /\ \A i \in 1 .. hydrated : merged[i] = e => e \in Range(valid) \/ Len(valid) = Limit

ClientInv == pc = "done" <=> cursor = End

QueryInv ==
    /\ TypeOK /\ Numbered /\ ClientInv
    /\ StreamInv /\ CompleteInv /\ MergedInv /\ PageInv /\ RoundInv

\* Where no other value gets into a stream, there is more to say.  The client: the last
\* page is in order and the cursor in time.
ExactClient ==
    /\ \A i, j \in 1 .. Len(page) : i < j => Newer(page[i], page[j])
    /\ \A e \in Range(page) : lev[e] # 0
    /\ cursor \in Position => cursor.ts <= filter.until

\* The page is in order and below the cursor, and the boundary is not above it.
ExactPage == InRound =>
    /\ boundary \in Position => boundary.ts <= filter.until
    /\ NotAbove(boundary, cursor)
    /\ \A i, j \in 1 .. Len(valid) : i < j => Newer(valid[i], valid[j])
    /\ \A e \in Range(valid) : Scanned(e) /\ Matches(e) /\ Under(e, cursor)

\* The results are in order, in time and below the boundary.
ExactMerged == InRound =>
    /\ \A e \in Range(merged) : Scanned(e) /\ Under(e, boundary)
    /\ \A i, j \in 1 .. Len(merged) : i < j => Precedes(merged[i], merged[j])

\* What a stream has in its buffer is its own, in time and below all results; its next
\* window is below them too.
ExactStream == pc = "merge" =>
    /\ \A p \in ScanKeys : Bound(p) <= Start + 1
    /\ \A p \in ScanKeys : \A x \in buffer[p] :
          /\ x[1] = p /\ Scanned(x[2]) /\ Under(x[2], boundary)
          /\ \A m \in Range(merged) : Precedes(m, x[2])
    /\ \A p \in open : \A m \in Range(merged) : Bound(p) <= Created[m]
    /\ \A v \in Range(valid) : ~Under(v, boundary)

\* The page is above what is still to be hydrated.
ExactHydrate == pc = "hydrate" =>
    \A v \in Range(valid) :
        /\ \A j \in 1 .. Len(merged) : j > hydrated => Precedes(v, merged[j])
        /\ ~Under(v, boundary) \/ \E i \in 1 .. hydrated : merged[i] = v

ExactInv == ExactClient /\ ExactPage /\ ExactMerged /\ ExactStream /\ ExactHydrate

(* Numbers, keys and windows                                               *)

\* A set of numbers that is not empty has a least member.
LEMMA LeastMember ==
  ASSUME NEW T, T \subseteq Nat, T # {}
  PROVE  \E x \in T : \A y \in T : x <= y
<1>1. PICK x \in T : \A y \in T : ~(<<y, x>> \in OpToRel(<, Nat))
  <2>1. IsWellFoundedOn(OpToRel(<, Nat), Nat)
    BY NatLessThanWellFounded
  <2> DEFINE R == OpToRel(<, Nat)
  <2>2. IsWellFoundedOn(R, Nat)
    BY <2>1
  <2> HIDE DEF R
  <2>3. \E x \in T : \A y \in T : ~(<<y, x>> \in R)
    BY <2>2, WFMin
  <2> QED
    BY <2>3 DEF R
<1>2. \A y \in T : x <= y
  <2> SUFFICES ASSUME NEW y \in T, y < x PROVE FALSE
    OBVIOUS
  <2>1. <<y, x>> \in Nat \X Nat /\ <<y, x>>[1] < <<y, x>>[2]
    BY <1>1
  <2>2. <<y, x>> \in OpToRel(<, Nat)
    BY <2>1 DEF OpToRel
  <2> QED
    BY <1>1, <2>2
<1> QED
  BY <1>2

\* An entry is a value and an event that has it; the values of an index are ordered.
LEMMA EntryFacts ==
  ASSUME filter \in Filters, NEW S, S \subseteq Events
  PROVE  /\ \A x \in EntriesOf(SelectIndex(filter), S) :
               /\ x[2] \in S /\ x[1] \in IndexKeys(SelectIndex(filter), x[2]) /\ x = <<x[1], x[2]>>
               /\ x[1] \in Values /\ Created[x[2]] \in Nat
               /\ Key(x) \in KeyOf /\ Key(x).val = x[1] /\ Key(x).ts = Created[x[2]]
         /\ \A e \in S : \A p \in IndexKeys(SelectIndex(filter), e) :
               <<p, e>> \in EntriesOf(SelectIndex(filter), S)
         /\ EntriesOf(SelectIndex(filter), S) \subseteq IndexEntries
         /\ IsFiniteSet(IndexEntries)
         /\ \A q, p \in Values : RankOf(q) \in Nat /\ (RankOf(q) = RankOf(p) => q = p)
<1> DEFINE index == SelectIndex(filter)
<1>1. ASSUME NEW x \in EntriesOf(index, S)
      PROVE  x[2] \in S /\ x[1] \in IndexKeys(index, x[2]) /\ x = <<x[1], x[2]>> /\ x \in IndexEntries
  <2>1. PICK e \in S : x \in IndexKeys(index, e) \X {e}
    BY DEF EntriesOf
  <2>2. x[2] = e /\ x[1] \in IndexKeys(index, e) /\ x = <<x[1], x[2]>>
    BY <2>1
  <2>3. x \in UNION {IndexKeys(index, d) \X {d} : d \in Events}
    BY <2>1
  <2> QED
    BY <2>2, <2>3 DEF EntriesOf, IndexEntries
<1>2. ASSUME NEW e \in S, NEW p \in IndexKeys(index, e) PROVE <<p, e>> \in EntriesOf(index, S)
  <2>1. <<p, e>> \in IndexKeys(index, e) \X {e}
    OBVIOUS
  <2> QED
    BY <2>1 DEF EntriesOf
<1>3. \A x \in EntriesOf(index, S) : x[1] \in Values
  BY <1>1 DEF Values, IndexEntries
<1>4. \A x \in EntriesOf(index, S) : Created[x[2]] \in Nat
  BY <1>1, QueryConstants
<1>5. \A x \in EntriesOf(index, S) : Key(x) \in KeyOf /\ Key(x).val = x[1] /\ Key(x).ts = Created[x[2]]
  BY <1>3, <1>4 DEF Key, KeyOf
<1>6. /\ IsFiniteSet(IndexEntries)
      /\ \A q, p \in Values : RankOf(q) \in Nat /\ (RankOf(q) = RankOf(p) => q = p)
  BY KeyConstants DEF IndexEntries, RankOf, Values, ScanKeys
<1> QED
  BY <1>1, <1>2, <1>3, <1>4, <1>5, <1>6

\* The order of the keys is strict and total.
LEMMA AboveOrder ==
  ASSUME filter \in Filters, NEW k \in KeyOf, NEW l \in KeyOf, NEW m \in KeyOf
  PROVE  /\ ~Above(k, k)
         /\ Above(k, l) /\ Above(l, m) => Above(k, m)
         /\ Above(k, l) \/ k = l \/ Above(l, k)
         /\ Above(k, l) <=> RankOf(k.val) > RankOf(l.val) \/ (k.val = l.val /\ k.ts > l.ts)
         /\ k.val \in Values /\ k.ts \in Nat /\ RankOf(k.val) \in Nat
<1>1. \A q, p \in Values : RankOf(q) \in Nat /\ (RankOf(q) = RankOf(p) => q = p)
  BY EntryFacts
<1>2. \A x \in {k, l, m} : x.val \in Values /\ x.ts \in Nat /\ x = [val |-> x.val, ts |-> x.ts]
  BY DEF KeyOf
<1>3. \A x, y : Above(x, y) <=> RankOf(x.val) > RankOf(y.val) \/ (x.val = y.val /\ x.ts > y.ts)
  BY DEF Above, RankOf
<1>4. \A x \in {k, l, m} : RankOf(x.val) \in Nat
  BY <1>1, <1>2
<1>5. ~Above(k, k)
  BY <1>2, <1>3, <1>4
<1>6. Above(k, l) /\ Above(l, m) => Above(k, m)
  BY <1>2, <1>3, <1>4
<1>7. Above(k, l) \/ k = l \/ Above(l, k)
  <2>1. RankOf(k.val) > RankOf(l.val) \/ RankOf(l.val) > RankOf(k.val) \/ RankOf(k.val) = RankOf(l.val)
    BY <1>4
  <2>2. RankOf(k.val) = RankOf(l.val) => k.val = l.val
    BY <1>1, <1>2
  <2>3. k.ts > l.ts \/ l.ts > k.ts \/ k.ts = l.ts
    BY <1>2
  <2> QED
    BY <1>2, <1>3, <2>1, <2>2, <2>3
<1> QED
  BY <1>2, <1>3, <1>4, <1>5, <1>6, <1>7

\* The entries of C whose key is above that of x.
AboveIn(C, x) == {y \in C : Above(Key(y), Key(x))}

\* They are fewer for a higher key.
LEMMA AboveInShrinks ==
  ASSUME filter \in Filters, NEW C, C \subseteq IndexEntries, NEW x \in C, NEW y \in C
  PROVE  /\ Cardinality(AboveIn(C, x)) \in Nat
         /\ ~Above(Key(x), Key(y)) => Cardinality(AboveIn(C, y)) <= Cardinality(AboveIn(C, x))
         /\ Above(Key(y), Key(x)) => Cardinality(AboveIn(C, y)) < Cardinality(AboveIn(C, x))
<1>1. \A z \in C : Key(z) \in KeyOf
  BY EntryFacts DEF IndexEntries
<1>2. IsFiniteSet(C)
  BY EntryFacts, FS_Subset
<1>3. IsFiniteSet(AboveIn(C, x)) /\ IsFiniteSet(AboveIn(C, y))
  <2>1. AboveIn(C, x) \in SUBSET C /\ AboveIn(C, y) \in SUBSET C
    BY DEF AboveIn
  <2> QED
    BY <1>2, <2>1, FS_Subset
<1>4. Cardinality(AboveIn(C, x)) \in Nat /\ Cardinality(AboveIn(C, y)) \in Nat
  BY <1>3, FS_CardinalityType
<1>5. ASSUME ~Above(Key(x), Key(y))
      PROVE  /\ Cardinality(AboveIn(C, y)) <= Cardinality(AboveIn(C, x))
             /\ Cardinality(AboveIn(C, y)) = Cardinality(AboveIn(C, x)) => AboveIn(C, y) = AboveIn(C, x)
  <2>1. AboveIn(C, y) \in SUBSET AboveIn(C, x)
    <3>1. ASSUME NEW z \in C, Above(Key(z), Key(y)) PROVE Above(Key(z), Key(x))
      <4>1. Key(x) = Key(y) \/ Above(Key(y), Key(x))
        BY <1>1, <1>5, AboveOrder
      <4> QED
        BY <1>1, <3>1, <4>1, AboveOrder
    <3> QED
      BY <3>1 DEF AboveIn
  <2> QED
    BY <1>3, <2>1, FS_Subset
<1>6. ASSUME Above(Key(y), Key(x)) PROVE AboveIn(C, y) # AboveIn(C, x) /\ ~Above(Key(x), Key(y))
  <2>1. y \in AboveIn(C, x) /\ y \notin AboveIn(C, y)
    BY <1>1, <1>6, AboveOrder DEF AboveIn
  <2>2. ~Above(Key(x), Key(y))
    BY <1>1, <1>6, AboveOrder
  <2> QED
    BY <2>1, <2>2
<1> QED
  BY <1>4, <1>5, <1>6

\* A window holds whole keys, the highest of C, and is not empty where C is not.
LEMMA WindowProperties ==
  ASSUME filter \in Filters, NEW C, C \subseteq IndexEntries
  PROVE  /\ Window(C) \subseteq C
         /\ \A x \in C \ Window(C), w \in Window(C) : Above(Key(w), Key(x))
         /\ Window(C) = {} => C = {}
<1> DEFINE W == Window(C)
           N(x) == Cardinality(AboveIn(C, x))
<1>1. \A x \in C : x \in W <=> N(x) < WindowSize
  BY DEF Window, AboveIn
<1>2. W \subseteq C
  BY DEF Window
<1>3. WindowSize \in Nat \ {0}
  BY QueryConstants
<1>4. \A x, y \in C : /\ N(x) \in Nat
                      /\ ~Above(Key(x), Key(y)) => N(y) <= N(x)
                      /\ Above(Key(y), Key(x)) => N(y) < N(x)
  BY AboveInShrinks
<1>5. ASSUME NEW x \in C \ W, NEW w \in W PROVE Above(Key(w), Key(x))
  <2> HIDE DEF W, N
  <2>1. N(w) < WindowSize /\ ~(N(x) < WindowSize) /\ N(w) \in Nat /\ N(x) \in Nat
    BY <1>1, <1>2, <1>4
  <2>2. ~(N(x) <= N(w))
    BY <1>3, <2>1
  <2> QED
    BY <1>2, <1>4, <2>2
<1>6. ASSUME C # {} PROVE W # {}
  <2> DEFINE T == {N(x) : x \in C}
  <2>1. T \subseteq Nat /\ T # {}
    BY <1>4, <1>6
  <2>2. PICK t \in T : \A u \in T : t <= u
    <3> HIDE DEF T
    <3> QED
      BY <2>1, LeastMember
  <2>3. PICK x \in C : N(x) = t
    OBVIOUS
  <2>4. \A y \in C : N(x) <= N(y)
    BY <2>2, <2>3
  <2>5. AboveIn(C, x) = {}
    <3> SUFFICES ASSUME NEW y \in C, Above(Key(y), Key(x)) PROVE FALSE
      BY DEF AboveIn
    <3> HIDE DEF N
    <3>1. N(y) < N(x) /\ N(x) <= N(y) /\ N(x) \in Nat /\ N(y) \in Nat
      BY <1>4, <2>4
    <3> QED
      BY <3>1
  <2>6. N(x) = 0
    BY <2>5, FS_EmptySet
  <2>7. N(x) < WindowSize
    BY <1>3, <2>6
  <2>8. x \in W
    BY <1>1, <2>7
  <2> QED
    BY <2>8
<1> QED
  BY <1>2, <1>5, <1>6

\* The resume key is the lowest key of a window.
LEMMA ResumeKeyProperties ==
  ASSUME filter \in Filters, NEW W, W \subseteq IndexEntries, W # {}
  PROVE  /\ \E w \in W : ResumeKey(W) = Key(w)
         /\ \A w \in W : ~Above(ResumeKey(W), Key(w))
<1> DEFINE Q == {x[1] : x \in W}
           q == CHOOSE v \in Q : \A x \in W : RankOf(v) <= RankOf(x[1])
           T == {Created[x[2]] : x \in {y \in W : y[1] = q}}
           m == CHOOSE t \in T : \A u \in T : t =< u
<1>1. \A x \in W : /\ x[1] \in Values /\ RankOf(x[1]) \in Nat /\ Created[x[2]] \in Nat
                   /\ Key(x) \in KeyOf /\ Key(x).val = x[1] /\ Key(x).ts = Created[x[2]]
  BY EntryFacts DEF IndexEntries
<1>2. q \in Q /\ \A x \in W : RankOf(q) <= RankOf(x[1])
  <2> DEFINE R == {RankOf(x[1]) : x \in W}
  <2>1. R \subseteq Nat /\ R # {}
    BY <1>1
  <2>2. PICK r \in R : \A s \in R : r <= s
    <3> HIDE DEF R
    <3> QED
      BY <2>1, LeastMember
  <2>3. PICK w \in W : RankOf(w[1]) = r
    OBVIOUS
  <2>4. w[1] \in Q /\ \A x \in W : RankOf(w[1]) <= RankOf(x[1])
    BY <2>2, <2>3
  <2>5. \E v \in Q : \A x \in W : RankOf(v) <= RankOf(x[1])
    BY <2>4
  <2> QED
    BY <2>5
<1> HIDE DEF q
<1>3. T \subseteq Nat /\ T # {}
  BY <1>1, <1>2
<1>4. \E t \in T : \A u \in T : t <= u
  <2> HIDE DEF T
  <2> QED
    BY <1>3, LeastMember
<1>5. m \in T /\ \A u \in T : m <= u
  BY <1>4
<1>6. ResumeKey(W) = [val |-> q, ts |-> m]
  BY DEF ResumeKey, Min, q, RankOf
<1> HIDE DEF m
<1>7. PICK w \in W : w[1] = q /\ Created[w[2]] = m
  BY <1>5
<1>8. ResumeKey(W) = Key(w)
  BY <1>6, <1>7 DEF Key
<1>9. ASSUME NEW x \in W, Above(Key(w), Key(x)) PROVE FALSE
  <2>1. RankOf(w[1]) > RankOf(x[1]) \/ (w[1] = x[1] /\ Created[w[2]] > Created[x[2]])
    BY <1>1, <1>9, AboveOrder
  <2>2. RankOf(w[1]) <= RankOf(x[1]) /\ (x[1] = q => m <= Created[x[2]])
    BY <1>2, <1>5, <1>7
  <2>3. RankOf(w[1]) \in Nat /\ RankOf(x[1]) \in Nat /\ m \in Nat /\ Created[x[2]] \in Nat
    BY <1>1, <1>3, <1>5
  <2> QED
    BY <1>7, <2>1, <2>2, <2>3
<1> QED
  BY <1>8, <1>9

\* The entries of B that come before x.
BeforeIn(B, x) == {y \in B : Before(y, x)}

\* A buffer that is not empty has a first entry.
LEMMA HeadProperties ==
  ASSUME filter \in Filters, lev \in [Events -> Nat], Numbered,
         NEW p, buffer[p] \subseteq IndexEntries, buffer[p] # {}, \A x \in buffer[p] : lev[x[2]] # 0
  PROVE  HeadOf(p) \in buffer[p] /\ \A y \in buffer[p] \ {HeadOf(p)} : Before(HeadOf(p), y)
<1> DEFINE B == buffer[p]
           N(x) == Cardinality(BeforeIn(B, x))
<1>1. \A x \in B : /\ x[2] \in Events /\ x = <<x[1], x[2]>> /\ lev[x[2]] \in Nat /\ Key(x) \in KeyOf
                   /\ Key(x).val = x[1]
  BY EntryFacts DEF IndexEntries
<1>2. \A x \in B : ~Before(x, x)
  BY <1>1, AboveOrder DEF Before
<1>3. ASSUME NEW x \in B, NEW y \in B, NEW z \in B, Before(x, y), Before(y, z) PROVE Before(x, z)
  <2>1. /\ Above(Key(x), Key(y)) /\ Above(Key(y), Key(z)) => Above(Key(x), Key(z))
        /\ lev[x[2]] \in Nat /\ lev[y[2]] \in Nat /\ lev[z[2]] \in Nat
    BY <1>1, AboveOrder
  <2> QED
    BY <1>3, <2>1 DEF Before
<1>4. ASSUME NEW x \in B, NEW y \in B, x # y PROVE Before(x, y) \/ Before(y, x)
  <2>1. Above(Key(x), Key(y)) \/ Key(x) = Key(y) \/ Above(Key(y), Key(x))
    BY <1>1, AboveOrder
  <2>2. CASE Key(x) = Key(y)
    <3>1. x[1] = y[1] /\ x[2] # y[2]
      BY <1>1, <1>4, <2>2
    <3>2. lev[x[2]] # lev[y[2]]
      BY <1>1, <3>1 DEF Numbered
    <3>3. lev[x[2]] > lev[y[2]] \/ lev[y[2]] > lev[x[2]]
      BY <1>1, <3>2
    <3> QED
      BY <2>2, <3>3 DEF Before
  <2> QED
    BY <2>1, <2>2 DEF Before
<1>5. \A x \in B : IsFiniteSet(BeforeIn(B, x)) /\ N(x) \in Nat
  <2>1. IsFiniteSet(B)
    BY EntryFacts, FS_Subset
  <2>2. \A x \in B : BeforeIn(B, x) \in SUBSET B
    BY DEF BeforeIn
  <2>3. \A x \in B : IsFiniteSet(BeforeIn(B, x))
    BY <2>1, <2>2, FS_Subset
  <2> QED
    BY <2>3, FS_CardinalityType
<1> DEFINE T == {N(x) : x \in B}
<1>6. T \subseteq Nat /\ T # {}
  BY <1>5
<1>7. PICK t \in T : \A u \in T : t <= u
  <2> HIDE DEF T
  <2> QED
    BY <1>6, LeastMember
<1>8. PICK x \in B : N(x) = t
  OBVIOUS
<1>9. \A y \in B : N(x) <= N(y)
  BY <1>7, <1>8
<1>10. ASSUME NEW y \in B \ {x} PROVE Before(x, y)
  <2> SUFFICES ASSUME Before(y, x) PROVE FALSE
    BY <1>4
  <2>1. BeforeIn(B, y) \in SUBSET BeforeIn(B, x)
    BY <1>3 DEF BeforeIn
  <2>2. y \in BeforeIn(B, x) /\ y \notin BeforeIn(B, y)
    BY <1>2 DEF BeforeIn
  <2>3. N(y) <= N(x) /\ (N(y) = N(x) => BeforeIn(B, y) = BeforeIn(B, x))
    BY <1>5, <2>1, FS_Subset
  <2>4. N(x) <= N(y) /\ N(x) \in Nat /\ N(y) \in Nat
    BY <1>5, <1>9
  <2> HIDE DEF N
  <2> QED
    BY <2>2, <2>3, <2>4
<1>11. \E z \in B : \A y \in B \ {z} : Before(z, y)
  BY <1>10
<1> QED
  BY <1>11 DEF HeadOf

\* An event that passes the residual check is stored under a prefix of the filter.
LEMMA PrefixOfMatch ==
  ASSUME NEW f \in Filters, NEW e \in Events, Residual(f, e)
  PROVE  \E p \in StartKeys(f) : p \in IndexKeys(SelectIndex(f), e)
<1> DEFINE a == Attr[e]
<1>1. Decode[a.id] = a.id /\ a.id # None /\ Decode[a.author] = a.author /\ a.author # None
  BY FilterConstants
<1>2. CASE SelectIndex(f) = "id"
  <2>1. Has(f.ids)
    BY <1>2 DEF SelectIndex
  <2>2. a.id \in f.ids
    BY <2>1 DEF Residual
  <2>3. a.id \in Keys(f.ids)
    BY <1>1, <2>2 DEF Keys
  <2>4. StartKeys(f) = Keys(f.ids) /\ IndexKeys("id", e) = {a.id}
    BY <1>2 DEF StartKeys, IndexKeys
  <2> QED
    BY <1>2, <2>3, <2>4
<1>3. CASE SelectIndex(f) = "pubkeyKind"
  <2>1. Has(f.authors) /\ Has(f.kinds)
    BY <1>3 DEF SelectIndex
  <2>2. a.author \in Keys(f.authors) /\ a.kind \in f.kinds
    BY <1>1, <2>1 DEF Keys, Residual
  <2>3. StartKeys(f) = Keys(f.authors) \X f.kinds /\ IndexKeys("pubkeyKind", e) = {<<a.author, a.kind>>}
    BY <1>3 DEF StartKeys, IndexKeys
  <2> QED
    BY <1>3, <2>2, <2>3
<1>4. CASE SelectIndex(f) = "pubkey"
  <2>1. Has(f.authors)
    BY <1>4 DEF SelectIndex
  <2>2. a.author \in Keys(f.authors)
    BY <1>1, <2>1 DEF Keys, Residual
  <2>3. StartKeys(f) = Keys(f.authors) /\ IndexKeys("pubkey", e) = {a.author}
    BY <1>4 DEF StartKeys, IndexKeys
  <2> QED
    BY <1>4, <2>2, <2>3
<1>5. CASE SelectIndex(f) = "kind"
  <2>1. Has(f.kinds)
    BY <1>5 DEF SelectIndex
  <2>2. StartKeys(f) = f.kinds /\ IndexKeys("kind", e) = {a.kind}
    BY <1>5 DEF StartKeys, IndexKeys
  <2> QED
    BY <1>5, <2>1, <2>2 DEF Residual
<1>6. CASE SelectIndex(f) = "tag"
  <2>1. Has(f.tags)
    BY <1>6 DEF SelectIndex
  <2>2. PICK t \in f.tags : t.name \in TagNames
    BY <1>6, FilterConstants
  <2>3. PICK v \in t.values : <<t.name, v>> \in a.tags
    BY <2>1 DEF Residual
  <2>4. <<t.name, v>> \in StartKeys(f)
    BY <1>6, <2>2 DEF StartKeys
  <2>5. <<t.name, v>> \in IndexKeys("tag", e)
    BY <2>2, <2>3 DEF IndexKeys
  <2> QED
    BY <1>6, <2>4, <2>5
<1>7. CASE SelectIndex(f) = "created_at"
  <2>1. StartKeys(f) = {"all"} /\ IndexKeys("created_at", e) = {"all"}
    BY <1>7 DEF StartKeys, IndexKeys
  <2> QED
    BY <1>7, <2>1
<1>8. SelectIndex(f) \in {"id", "pubkeyKind", "pubkey", "kind", "tag", "created_at"}
  BY DEF SelectIndex
<1> QED
  BY <1>2, <1>3, <1>4, <1>5, <1>6, <1>7, <1>8

-----------------------------------------------------------------------------
(* The order of events and positions                                       *)

\* Positions and the events below them.
LEMMA Order ==
  ASSUME lev \in [Events -> Nat], NEW b \in Cursors, NEW c \in Cursors,
         NEW d \in Events, NEW e \in Events
  PROVE  /\ Precedes(d, e) /\ Under(d, b) => Under(e, b)
         /\ ~Under(d, b) /\ Under(e, b) => Newer(d, e)
         /\ NotAbove(b, c) /\ Under(e, b) => Under(e, c)
         /\ Pos(d) \in Position /\ Pos(d) \in Cursors /\ Pos(d) # Top /\ Pos(d) # End
         /\ Pos(d).ts = Created[d]
         /\ Under(e, Pos(d)) <=> Newer(d, e)
         /\ Under(d, b) => NotAbove(Pos(d), b)
         /\ Created[e] < Created[d] => Newer(d, e)
<1>1. Created[d] \in Nat /\ Created[e] \in Nat /\ lev[d] \in Nat /\ lev[e] \in Nat
  BY QueryConstants
<1>2. /\ b # Top => b.ts \in Nat /\ b.lev \in Nat
      /\ c # Top => c.ts \in Nat /\ c.lev \in Nat
  BY DEF Cursors, Position
<1>3. Pos(d) \in Position /\ Pos(d).ts = Created[d] /\ Pos(d).lev = lev[d]
  BY <1>1 DEF Pos, Position
<1>4. Pos(d) \in Cursors /\ Pos(d) # Top /\ Pos(d) # End
  BY <1>3, QueryConstants DEF Cursors, Position
<1>5. Precedes(d, e) /\ Under(d, b) => Under(e, b)
  BY <1>1, <1>2 DEF Precedes, Newer, Under
<1>6. ~Under(d, b) /\ Under(e, b) => Newer(d, e)
  BY <1>1, <1>2 DEF Newer, Under
<1>7. NotAbove(b, c) /\ Under(e, b) => Under(e, c)
  BY <1>1, <1>2 DEF NotAbove, Under
<1>8. Under(e, Pos(d)) <=> Newer(d, e)
  BY <1>1, <1>3, <1>4 DEF Newer, Under
<1>9. Under(d, b) => NotAbove(Pos(d), b)
  BY <1>1, <1>2, <1>3, <1>4 DEF NotAbove, Under
<1>10. Created[e] < Created[d] => Newer(d, e)
  BY <1>1 DEF Newer
<1> QED
  BY <1>3, <1>4, <1>5, <1>6, <1>7, <1>8, <1>9, <1>10

\* The order of events is strict and transitive.
LEMMA NewerOrder ==
  ASSUME lev \in [Events -> Nat], NEW c \in Events, NEW d \in Events, NEW e \in Events
  PROVE  /\ ~Newer(d, d)
         /\ Precedes(c, d) /\ Newer(d, e) => Newer(c, e)
         /\ Newer(c, d) /\ Precedes(d, e) => Newer(c, e)
         /\ Precedes(c, d) /\ Precedes(d, e) => Precedes(c, e)
<1>1. \A x \in {c, d, e} : Created[x] \in Nat /\ lev[x] \in Nat
  BY QueryConstants
<1> QED
  BY <1>1 DEF Precedes, Newer

\* While strfry numbers no event, the order stays.
LEMMA Frame ==
  ASSUME UNCHANGED <<lev, filter>>
  PROVE  /\ \A d, e : (Newer(d, e)' <=> Newer(d, e)) /\ (Precedes(d, e)' <=> Precedes(d, e))
         /\ \A e, b : Under(e, b)' <=> Under(e, b)
         /\ \A e : /\ (Scanned(e)' <=> Scanned(e)) /\ (Matches(e)' <=> Matches(e))
                   /\ Pos(e)' = Pos(e)
<1>1. lev' = lev /\ filter' = filter
  OBVIOUS
<1>2. \A d, e : Newer(d, e)' <=> Newer(d, e)
  BY <1>1 DEF Newer
<1>3. \A d, e : Precedes(d, e)' <=> Precedes(d, e)
  BY <1>2 DEF Precedes
<1>4. \A e, b : Under(e, b)' <=> Under(e, b)
  BY <1>1 DEF Under
<1>5. \A e : Scanned(e)' <=> Scanned(e)
  BY <1>1 DEF Scanned
<1>6. \A e : Matches(e)' <=> Matches(e)
  BY <1>1 DEF Matches
<1>7. \A e : Pos(e)' = Pos(e)
  BY <1>1 DEF Pos
<1> QED
  BY <1>2, <1>3, <1>4, <1>5, <1>6, <1>7

\* The streams and the order of the keys are those of the filter.
LEMMA FilterFrame ==
  ASSUME UNCHANGED filter
  PROVE  /\ ScanKeys' = ScanKeys /\ IndexEntries' = IndexEntries /\ Values' = Values /\ KeyOf' = KeyOf
         /\ \A v : RankOf(v)' = RankOf(v)
         /\ \A k, l : Above(k, l)' <=> Above(k, l)
         /\ \A e : Matches(e)' <=> Matches(e)
         /\ ValuesApart' <=> ValuesApart
<1>1. filter' = filter
  OBVIOUS
<1>2. ScanKeys' = ScanKeys /\ IndexEntries' = IndexEntries
  BY <1>1 DEF ScanKeys, IndexEntries
<1>3. Values' = Values
  BY <1>1, <1>2 DEF Values
<1>4. KeyOf' = KeyOf
  BY <1>3 DEF KeyOf
<1>5. \A v : RankOf(v)' = RankOf(v)
  BY <1>1 DEF RankOf
<1>6. \A k, l : Above(k, l)' <=> Above(k, l)
  BY <1>1 DEF Above
<1>7. ValuesApart' <=> ValuesApart
  BY <1>1, <1>2 DEF ValuesApart, StartsWith
<1>8. \A e : Matches(e)' <=> Matches(e)
  BY <1>1 DEF Matches
<1> QED
  BY <1>2, <1>3, <1>4, <1>5, <1>6, <1>7, <1>8

\* Events that have a number keep their order when another is numbered.
LEMMA InsertFrame ==
  ASSUME TypeOK, Insert
  PROVE  /\ UNCHANGED <<deletes, stable, pc, client, boundary, rounds, valid, deepest, round>>
         /\ lev' \in [Events -> Nat]
         /\ \A e \in Events : lev[e] # 0 => lev'[e] # 0 /\ lev'[e] = lev[e]
         /\ \A d, e \in Events : lev[d] # 0 /\ lev[e] # 0 =>
               (Newer(d, e)' <=> Newer(d, e)) /\ (Precedes(d, e)' <=> Precedes(d, e))
         /\ \A e \in Events : \A b : lev[e] # 0 => (Under(e, b)' <=> Under(e, b))
         /\ \A e \in Events : lev[e] # 0 => (AtFloor(e)' <=> AtFloor(e))
         /\ \A e \in Events : Scanned(e) => Scanned(e)'
         /\ Numbered => Numbered'
<1> DEFINE L == {x \in Events : lev[x] # 0}
           n == Cardinality(L)
<1>1. UNCHANGED <<deletes, stable, pc, client, boundary, rounds, valid, deepest, round>>
  BY DEF Insert
<1>2. PICK a \in Events : lev[a] = 0 /\ lev' = [lev EXCEPT ![a] = n + 1] /\ stored' = stored \cup {a}
  BY DEF Insert
<1>3. lev \in [Events -> Nat] /\ stored \subseteq Events
  BY DEF TypeOK
<1>4. IsFiniteSet(L) /\ n \in Nat
  <2>1. IsFiniteSet(Events) /\ L \in SUBSET Events
    BY QueryConstants
  <2>2. IsFiniteSet(L)
    BY <2>1, FS_Subset
  <2> QED
    BY <2>2, FS_CardinalityType
<1>5. Cardinality(L \cup {a}) = n + 1
  BY <1>2, <1>4, FS_AddElement
<1> HIDE DEF n
<1>6. lev' \in [Events -> Nat] /\ \A e \in Events : lev'[e] = IF e = a THEN n + 1 ELSE lev[e]
  BY <1>2, <1>3, <1>4
<1>7. \A e \in Events : lev[e] # 0 => lev'[e] = lev[e] /\ lev'[e] # 0
  BY <1>2, <1>6
<1>8. \A d, e \in Events : lev[d] # 0 /\ lev[e] # 0 => (Newer(d, e)' <=> Newer(d, e))
  BY <1>7 DEF Newer
<1>9. \A d, e \in Events : lev[d] # 0 /\ lev[e] # 0 => (Precedes(d, e)' <=> Precedes(d, e))
  BY <1>8 DEF Precedes
<1>10. \A e \in Events : \A b : lev[e] # 0 => (Under(e, b)' <=> Under(e, b))
  BY <1>7 DEF Under
<1>11. filter' = filter /\ boundary' = boundary
  BY <1>1 DEF client
<1>12. \A e \in Events : Scanned(e) => Scanned(e)'
  BY <1>7, <1>11 DEF Scanned
<1>13. \A e \in Events : lev[e] # 0 => (AtFloor(e)' <=> AtFloor(e))
  BY <1>7, <1>11 DEF AtFloor
<1>14. ASSUME Numbered PROVE Numbered'
  <2>1. {x \in Events : lev'[x] # 0} = L \cup {a}
    BY <1>2, <1>4, <1>6
  <2>2. Cardinality({x \in Events : lev'[x] # 0}) = n + 1
    BY <1>5, <2>1
  <2>3. \A e \in Events : lev[e] <= n
    BY <1>14 DEF Numbered, n
  <2>4. \A e \in Events : lev'[e] <= n + 1
    BY <1>3, <1>4, <1>6, <2>3
  <2>5. \A d, e \in Events : lev'[d] # 0 /\ lev'[d] = lev'[e] => d = e
    <3>1. \A d, e \in Events : lev[d] # 0 /\ lev[d] = lev[e] => d = e
      BY <1>14 DEF Numbered
    <3> QED
      BY <1>3, <1>4, <1>6, <2>3, <3>1
  <2>6. \A e \in stored' : lev'[e] # 0
    BY <1>2, <1>3, <1>4, <1>6, <1>7, <1>14 DEF Numbered
  <2> QED
    BY <2>2, <2>4, <2>5, <2>6 DEF Numbered
<1> QED
  BY <1>1, <1>6, <1>7, <1>8, <1>9, <1>10, <1>12, <1>13, <1>14

\* The range of a sequence, which the merge and the page grow by one event.
LEMMA RangeProperties ==
  ASSUME NEW S, NEW s \in Seq(S)
  PROVE  /\ Range(s) \subseteq S
         /\ \A x : x \in Range(s) <=> \E i \in 1 .. Len(s) : s[i] = x
<1>1. DOMAIN s = 1 .. Len(s) /\ \A i \in 1 .. Len(s) : s[i] \in S
  OBVIOUS
<1> QED
  BY <1>1 DEF Range

\* One more element at the end.
LEMMA AppendRange ==
  ASSUME NEW S, NEW s \in Seq(S), NEW e \in S
  PROVE  /\ Append(s, e) \in Seq(S) /\ Len(Append(s, e)) = Len(s) + 1
         /\ Append(s, e)[Len(s) + 1] = e
         /\ \A i \in 1 .. Len(s) : Append(s, e)[i] = s[i]
         /\ \A x : x \in Range(Append(s, e)) <=> x \in Range(s) \/ x = e
<1> DEFINE t == Append(s, e)
<1>1. t \in Seq(S) /\ Len(t) = Len(s) + 1 /\ t[Len(s) + 1] = e /\ \A i \in 1 .. Len(s) : t[i] = s[i]
  OBVIOUS
<1> HIDE DEF t
<1>2. /\ \A x : x \in Range(t) <=> \E i \in 1 .. Len(t) : t[i] = x
      /\ \A x : x \in Range(s) <=> \E i \in 1 .. Len(s) : s[i] = x
  BY <1>1, RangeProperties
<1>3. Len(s) \in Nat
  OBVIOUS
<1>4. \A i : i \in 1 .. Len(t) <=> i \in 1 .. Len(s) \/ i = Len(s) + 1
  BY <1>1, <1>3
<1>5. \A x : x \in Range(t) <=> x \in Range(s) \/ x = e
  BY <1>1, <1>2, <1>4
<1> QED
  BY <1>1, <1>5 DEF t

-----------------------------------------------------------------------------
(* The invariant holds of a walk that has not begun                        *)

\* The client has asked for nothing yet.
LEMMA QueryInit == Init => QueryInv /\ ExactInv
<1> SUFFICES ASSUME Init PROVE QueryInv /\ ExactInv
  OBVIOUS
<1>1. PICK f \in Numberings : lev = [e \in Events |-> IF e \in Initial THEN f[e] ELSE 0]
  BY DEF Init
<1>2. /\ Initial \subseteq Events /\ IsFiniteSet(Initial)
      /\ \A d, e \in Initial : f[d] \in 1 .. Cardinality(Initial) /\ (f[d] = f[e] => d = e)
  BY QueryConstants, FS_Subset
<1>3. Cardinality(Initial) \in Nat
  BY <1>2, FS_CardinalityType
<1> DEFINE n == Cardinality(Initial)
<1> HIDE DEF n
<1>4. n \in Nat /\ \A d, e \in Initial : f[d] \in 1 .. n /\ (f[d] = f[e] => d = e)
  BY <1>2, <1>3 DEF n
<1>5. lev \in [Events -> Nat] /\ \A e \in Events : lev[e] = IF e \in Initial THEN f[e] ELSE 0
  BY <1>1, <1>4
<1>6. \A e \in Events : (lev[e] # 0 <=> e \in Initial) /\ lev[e] <= n
  BY <1>4, <1>5
<1>7. {x \in Events : lev[x] # 0} = Initial
  BY <1>2, <1>6
<1>8. Numbered
  <2>1. \A e \in Events : lev[e] <= Cardinality({x \in Events : lev[x] # 0})
    BY <1>6, <1>7 DEF n
  <2>2. \A d, e \in Events : lev[d] # 0 /\ lev[d] = lev[e] => d = e
    BY <1>4, <1>5, <1>6
  <2>3. \A e \in stored : lev[e] # 0
    BY <1>2, <1>6 DEF Init
  <2> QED
    BY <2>1, <2>2, <2>3 DEF Numbered
<1>9. /\ pc = "client" /\ cursor = Top /\ boundary = Top /\ deepest = Top
      /\ page = <<>> /\ delivered = {} /\ valid = <<>> /\ merged = <<>> /\ hydrated = 0
      /\ open = {} /\ pending = {} /\ again = FALSE
      /\ resume = [p \in ScanKeys |-> [val |-> p, ts |-> 0]] /\ buffer = [p \in ScanKeys |-> {}]
  BY DEF Init
<1>10. TypeOK
  <2>1. stored \subseteq Events /\ stable \subseteq stored /\ filter \in Filters
    BY <1>2 DEF Init
  <2>2. inserts \in 0 .. MaxInserts /\ deletes \in 0 .. MaxDeletes /\ rounds \in 0 .. MaxRounds - 1
    BY QueryConstants DEF Init
  <2>3. Limit \in Nat /\ EmitLimit \in Nat
    BY QueryConstants DEF EmitLimit
  <2>4. /\ page \in Seq(Events) /\ merged \in Seq(Events) /\ Len(merged) <= EmitLimit
        /\ valid \in Seq(Events) /\ Len(valid) <= Limit /\ hydrated \in 0 .. Len(merged)
    BY <1>9, <2>3
  <2>5. resume \in [ScanKeys -> [val : Values, ts : Nat]]
    BY <1>9 DEF Values
  <2>6. buffer \in [ScanKeys -> SUBSET EntriesOf(SelectIndex(filter), Events)]
    BY <1>9
  <2>7. Top \in Cursors
    BY DEF Cursors
  <2> QED
    BY <1>5, <1>9, <2>1, <2>2, <2>4, <2>5, <2>6, <2>7 DEF TypeOK
<1>11. ClientInv
  BY <1>9, QueryConstants DEF ClientInv
<1>12. StreamInv /\ CompleteInv /\ MergedInv /\ PageInv /\ RoundInv
  BY <1>9 DEF StreamInv, CompleteInv, MergedInv, PageInv, RoundInv, InRound
<1>13. ExactClient
  <2>1. Range(page) = {} /\ Len(page) = 0
    BY <1>9 DEF Range
  <2>2. Top \notin Position
    BY QueryConstants DEF Position
  <2> QED
    BY <1>9, <2>1, <2>2 DEF ExactClient
<1>14. ExactPage /\ ExactMerged /\ ExactStream /\ ExactHydrate
  BY <1>9 DEF ExactPage, ExactMerged, ExactStream, ExactHydrate, InRound
<1> QED
  BY <1>8, <1>10, <1>11, <1>12, <1>13, <1>14 DEF QueryInv, ExactInv

-----------------------------------------------------------------------------
(* Every step preserves the invariant                                      *)

\* strfry stores an event: it is no part of what was read before.
LEMMA InsertStep == QueryInv /\ Insert => QueryInv' /\ (ExactInv => ExactInv')
<1> SUFFICES ASSUME QueryInv, Insert PROVE QueryInv' /\ (ExactInv => ExactInv')
  OBVIOUS
<1>0. TypeOK /\ Numbered
  BY DEF QueryInv
<1>1. /\ UNCHANGED <<deletes, stable, pc, filter, cursor, page, delivered, boundary, rounds, valid,
                     deepest>>
      /\ UNCHANGED <<resume, open, pending, again, buffer, merged, hydrated>>
  BY DEF Insert, round, client
<1>2. lev' \in [Events -> Nat] /\ \A e \in Events : lev[e] # 0 => lev'[e] # 0
  BY <1>0, InsertFrame
<1>3. \A d, e \in Events : lev[d] # 0 /\ lev[e] # 0 =>
         (Newer(d, e)' <=> Newer(d, e)) /\ (Precedes(d, e)' <=> Precedes(d, e))
  BY <1>0, InsertFrame
<1>4. /\ \A e \in Events : \A b : lev[e] # 0 => (Under(e, b)' <=> Under(e, b))
      /\ \A e \in Events : lev[e] # 0 => (AtFloor(e)' <=> AtFloor(e))
      /\ \A e \in Events : Scanned(e) => Scanned(e)'
      /\ Numbered'
  BY <1>0, InsertFrame
<1>5. /\ ScanKeys' = ScanKeys /\ IndexEntries' = IndexEntries /\ Values' = Values
      /\ \A v : RankOf(v)' = RankOf(v)
      /\ \A k, l : Above(k, l)' <=> Above(k, l)
      /\ \A e : Matches(e)' <=> Matches(e)
  BY <1>1, FilterFrame
<1>6. /\ stable \subseteq Events /\ \A e \in stable : lev[e] # 0
      /\ \A e : Scanned(e) => e \in Events /\ lev[e] # 0
  BY <1>0 DEF TypeOK, Numbered, Scanned
<1>7. page \in Seq(Events) /\ merged \in Seq(Events) /\ valid \in Seq(Events)
  BY <1>0 DEF TypeOK
<1>8. \A e : (Stays(e)' <=> Stays(e)) /\ (Stays(e) => e \in Events /\ lev[e] # 0)
  BY <1>1, <1>5, <1>6 DEF Stays
<1>9. /\ \A p : Bound(p)' = Bound(p)
      /\ Start' = Start /\ (InRound' <=> InRound) /\ (Exhausted' <=> Exhausted) /\ EmitLimit' = EmitLimit
  BY <1>1 DEF Bound, Start, InRound, Exhausted, EmitLimit
<1>10. \A e : Stays(e) => (Under(e, boundary)' <=> Under(e, boundary))
  BY <1>1, <1>4, <1>8
<1>11. /\ \A e \in Range(merged) : e \in Events /\ (InRound => lev[e] # 0)
       /\ \A k \in 1 .. Len(merged) : merged[k] \in Range(merged)
  BY <1>7, RangeProperties DEF QueryInv, MergedInv
<1>12. /\ \A e \in Range(valid) : e \in Events /\ (InRound => lev[e] # 0)
       /\ \A k \in 1 .. Len(valid) : valid[k] \in Range(valid)
  BY <1>7, RangeProperties DEF QueryInv, PageInv
<1>13. TypeOK'
  <2>1. inserts' \in 0 .. MaxInserts /\ stored' \subseteq Events /\ stable' \subseteq stored'
    BY <1>0, <1>1, QueryConstants DEF Insert, TypeOK
  <2> QED
    BY <1>0, <1>1, <1>2, <1>5, <1>9, <2>1 DEF TypeOK
<1>14. ClientInv'
  BY <1>1 DEF QueryInv, ClientInv
<1>15. \A p \in ScanKeys : \A x \in buffer[p] : x[2] \in Events /\ Key(x)' = Key(x)
  <2>1. \A p \in ScanKeys : \A x \in buffer[p] : x \in IndexEntries
    BY <1>0 DEF TypeOK, IndexEntries
  <2>2. \A x \in IndexEntries : x[2] \in Events
    BY <1>0, EntryFacts DEF TypeOK, IndexEntries
  <2>3. \A x : Key(x)' = Key(x)
    BY DEF Key
  <2> QED
    BY <2>1, <2>2, <2>3
<1>16. StreamInv'
  <2> SUFFICES ASSUME pc = "merge" PROVE StreamInv'
    BY <1>1 DEF StreamInv
  <2>1. StreamInv
    BY DEF QueryInv
  <2>2. \A p \in ScanKeys : \A x \in buffer[p] :
          /\ lev'[x[2]] # 0 /\ ~AtFloor(x[2])' /\ ~Above(resume[p], Key(x))
          /\ x[1] = p \/ RankOf(x[1]) < RankOf(p)
    BY <1>2, <1>4, <1>15, <2>1 DEF StreamInv
  <2>3. \A p \in ScanKeys : \A x \in buffer[p] :
          (~Above(resume[p], Key(x)))' <=> ~Above(resume[p], Key(x))
    BY <1>1, <1>5, <1>15
  <2>4. /\ pending \subseteq open
        /\ \A p \in open : p \in pending <=> buffer[p] = {}
        /\ \A p \in ScanKeys : resume[p].val = p \/ RankOf(resume[p].val) < RankOf(p)
        /\ again => /\ pending # {} /\ boundary # Top
                    /\ \A p \in ScanKeys : p = (CHOOSE q \in pending : TRUE) => Bound(p) <= boundary.ts
    BY <2>1 DEF StreamInv
  <2> QED
    BY <1>1, <1>5, <1>9, <2>2, <2>3, <2>4 DEF StreamInv
<1>17. CompleteInv'
  BY <1>1, <1>5, <1>8, <1>9, <1>10 DEF QueryInv, CompleteInv
<1>18. MergedInv'
  <2> SUFFICES ASSUME InRound PROVE MergedInv'
    BY <1>9 DEF MergedInv
  <2>1. MergedInv
    BY DEF QueryInv
  <2>2. (\A e \in Range(merged) : lev[e] # 0 /\ ~AtFloor(e))'
    BY <1>1, <1>2, <1>4, <1>11, <2>1 DEF MergedInv
  <2>3. ASSUME NEW e, Stays(e), Under(e, boundary), NEW k \in 1 .. Len(merged),
               \A i \in 1 .. k : merged[i] # e
        PROVE  Newer(merged[k], e)'
    <3>1. Newer(merged[k], e)
      BY <2>1, <2>3 DEF MergedInv
    <3>2. merged[k] \in Events /\ lev[merged[k]] # 0 /\ e \in Events /\ lev[e] # 0
      BY <1>8, <1>11, <2>3
    <3> QED
      BY <1>1, <1>3, <3>1, <3>2
  <2> QED
    BY <1>1, <1>8, <1>10, <2>2, <2>3 DEF MergedInv
<1>19. PageInv'
  <2> SUFFICES ASSUME InRound PROVE PageInv'
    BY <1>9 DEF PageInv
  <2>1. PageInv
    BY DEF QueryInv
  <2>2. \A e : Stays(e) => (Under(e, cursor)' <=> Under(e, cursor))
    BY <1>1, <1>4, <1>8
  <2>3. \A e : Stays(e) => \A v \in Range(valid) : Newer(v, e)' <=> Newer(v, e)
    BY <1>3, <1>8, <1>12
  <2>4. \A v \in Range(valid) : lev'[v] # 0
    BY <1>2, <1>12
  <2> QED
    BY <1>1, <1>8, <1>10, <2>1, <2>2, <2>3, <2>4 DEF PageInv
<1>20. RoundInv'
  BY <1>1, <1>8, <1>9, <1>10 DEF QueryInv, RoundInv
<1>21. QueryInv'
  BY <1>4, <1>13, <1>14, <1>16, <1>17, <1>18, <1>19, <1>20 DEF QueryInv
<1>22. ASSUME ExactInv PROVE ExactInv'
  <2>0. ExactClient /\ ExactPage /\ ExactMerged /\ ExactStream /\ ExactHydrate
    BY <1>22 DEF ExactInv
  <2>1. ExactClient'
    <3>1. \A e \in Range(page) : e \in Events /\ lev[e] # 0
      BY <1>7, <2>0, RangeProperties DEF ExactClient
    <3>2. \A k \in 1 .. Len(page) : page[k] \in Range(page)
      BY <1>7, RangeProperties
    <3> QED
      BY <1>1, <1>2, <1>3, <2>0, <3>1, <3>2 DEF ExactClient
  <2>2. ExactPage'
    <3> SUFFICES ASSUME InRound PROVE ExactPage'
      BY <1>9 DEF ExactPage
    <3>1. NotAbove(boundary, cursor)'
      BY <1>1, <2>0 DEF ExactPage, NotAbove
    <3>2. (\A i, j \in 1 .. Len(valid) : i < j => Newer(valid[i], valid[j]))'
      BY <1>1, <1>3, <1>12, <2>0 DEF ExactPage
    <3>3. (\A e \in Range(valid) : Scanned(e) /\ Matches(e) /\ Under(e, cursor))'
      BY <1>1, <1>4, <1>5, <1>12, <2>0 DEF ExactPage
    <3> QED
      BY <1>1, <2>0, <3>1, <3>2, <3>3 DEF ExactPage
  <2>3. ExactMerged'
    <3> SUFFICES ASSUME InRound PROVE ExactMerged'
      BY <1>9 DEF ExactMerged
    <3>1. (\A i, j \in 1 .. Len(merged) : i < j => Precedes(merged[i], merged[j]))'
      BY <1>1, <1>3, <1>11, <2>0 DEF ExactMerged
    <3> QED
      BY <1>1, <1>4, <1>11, <2>0, <3>1 DEF ExactMerged
  <2>4. ExactStream'
    <3> SUFFICES ASSUME pc = "merge" PROVE ExactStream'
      BY <1>1 DEF ExactStream
    <3>1. \A p \in ScanKeys : \A x \in buffer[p] :
             /\ x[1] = p /\ Scanned(x[2])' /\ Under(x[2], boundary)'
             /\ \A m \in Range(merged) : Precedes(m, x[2])'
      BY <1>1, <1>3, <1>4, <1>6, <1>11, <1>15, <2>0 DEF ExactStream, InRound
    <3>2. \A v \in Range(valid) : ~Under(v, boundary)'
      BY <1>1, <1>4, <1>12, <2>0 DEF ExactStream, InRound
    <3> QED
      BY <1>1, <1>5, <1>9, <2>0, <3>1, <3>2 DEF ExactStream
  <2>5. ExactHydrate'
    <3> SUFFICES ASSUME pc = "hydrate" PROVE ExactHydrate'
      BY <1>1 DEF ExactHydrate
    <3>0. InRound
      BY DEF InRound
    <3>1. \A v \in Range(valid) :
            /\ \A j \in 1 .. Len(merged) : j > hydrated => Precedes(v, merged[j])'
            /\ ~Under(v, boundary)' \/ \E i \in 1 .. hydrated : merged[i] = v
      BY <1>1, <1>3, <1>4, <1>11, <1>12, <2>0, <3>0 DEF ExactHydrate
    <3> QED
      BY <1>1, <3>1 DEF ExactHydrate
  <2> QED
    BY <2>1, <2>2, <2>3, <2>4, <2>5 DEF ExactInv
<1> QED
  BY <1>21, <1>22

\* Fewer events stay, and nothing else changes.
LEMMA Fewer ==
  ASSUME QueryInv, stable' \subseteq stable, stored' \subseteq stored, stable' \subseteq stored',
         deletes' \in 0 .. MaxDeletes,
         UNCHANGED <<lev, inserts, pc, client, boundary, rounds, valid, deepest, round>>
  PROVE  QueryInv' /\ (ExactInv => ExactInv')
<1>1. /\ UNCHANGED <<lev, inserts, pc, filter, cursor, page, delivered, boundary, rounds, valid,
                     deepest>>
      /\ UNCHANGED <<resume, open, pending, again, buffer, merged, hydrated>>
  BY DEF client, round
<1>2. /\ \A d, e : (Newer(d, e)' <=> Newer(d, e)) /\ (Precedes(d, e)' <=> Precedes(d, e))
      /\ \A e, b : Under(e, b)' <=> Under(e, b)
      /\ \A e : Scanned(e)' <=> Scanned(e)
  BY <1>1, Frame
<1>3. /\ ScanKeys' = ScanKeys /\ IndexEntries' = IndexEntries /\ Values' = Values
      /\ \A v : RankOf(v)' = RankOf(v)
      /\ \A k, l : Above(k, l)' <=> Above(k, l)
      /\ \A e : Matches(e)' <=> Matches(e)
  BY <1>1, FilterFrame
<1>4. /\ \A p : Bound(p)' = Bound(p)
      /\ Start' = Start /\ (InRound' <=> InRound) /\ (Exhausted' <=> Exhausted) /\ EmitLimit' = EmitLimit
      /\ \A e : AtFloor(e)' <=> AtFloor(e)
      /\ \A x : Key(x)' = Key(x)
      /\ NotAbove(boundary, cursor)' <=> NotAbove(boundary, cursor)
  BY <1>1 DEF Bound, Start, InRound, Exhausted, EmitLimit, AtFloor, Key, NotAbove
<1>5. \A e : Stays(e)' => Stays(e)
  BY <1>3 DEF Stays
<1>6. TypeOK'
  BY <1>1, <1>3, <1>4 DEF QueryInv, TypeOK
<1>7. Numbered' /\ ClientInv'
  BY <1>1 DEF QueryInv, Numbered, ClientInv
<1>8. StreamInv'
  <2>2. \A p : \A x : (~Above(resume[p], Key(x)))' <=> ~Above(resume[p], Key(x))
    BY <1>1, <1>3, <1>4
  <2> QED
    BY <1>1, <1>3, <1>4, <2>2 DEF QueryInv, StreamInv
<1>9. CompleteInv'
  BY <1>1, <1>2, <1>3, <1>4, <1>5 DEF QueryInv, CompleteInv
<1>10. MergedInv'
  BY <1>1, <1>2, <1>4, <1>5 DEF QueryInv, MergedInv
<1>11. PageInv'
  BY <1>1, <1>2, <1>4, <1>5 DEF QueryInv, PageInv
<1>12. RoundInv'
  BY <1>1, <1>2, <1>4, <1>5 DEF QueryInv, RoundInv
<1>13. QueryInv'
  BY <1>6, <1>7, <1>8, <1>9, <1>10, <1>11, <1>12 DEF QueryInv
<1>14. ASSUME ExactInv PROVE ExactInv'
  <2>1. ExactClient'
    BY <1>1, <1>2, <1>14 DEF ExactInv, ExactClient
  <2>2. ExactPage'
    BY <1>1, <1>2, <1>3, <1>4, <1>14 DEF ExactInv, ExactPage
  <2>3. ExactMerged'
    BY <1>1, <1>2, <1>4, <1>14 DEF ExactInv, ExactMerged
  <2>4. ExactStream'
    BY <1>1, <1>2, <1>3, <1>4, <1>14 DEF ExactInv, ExactStream
  <2>5. ExactHydrate'
    BY <1>1, <1>2, <1>14 DEF ExactInv, ExactHydrate
  <2> QED
    BY <2>1, <2>2, <2>3, <2>4, <2>5 DEF ExactInv
<1> QED
  BY <1>13, <1>14

\* strfry deletes an event.
LEMMA DeleteStep == QueryInv /\ Delete => QueryInv' /\ (ExactInv => ExactInv')
<1> SUFFICES ASSUME QueryInv, Delete PROVE QueryInv' /\ (ExactInv => ExactInv')
  OBVIOUS
<1>1. /\ stable' \subseteq stable /\ stored' \subseteq stored
      /\ stable \subseteq stored => stable' \subseteq stored'
      /\ deletes < MaxDeletes /\ deletes' = deletes + 1
      /\ UNCHANGED <<lev, inserts, pc, client, boundary, rounds, valid, deepest, round>>
  BY DEF Delete
<1>2. deletes' \in 0 .. MaxDeletes /\ stable \subseteq stored
  BY <1>1, QueryConstants DEF QueryInv, TypeOK
<1> QED
  BY <1>1, <1>2, Fewer

\* A round begins: nothing is read, and the streams read everything below its boundary.
LEMMA BeginRoundStep ==
  ASSUME QueryInv, NEW b \in Cursors, BeginRound(b), pc' = "merge",
         UNCHANGED <<database, client>>, cursor # End,
         valid' \in Seq(Events), Len(valid') < Limit,
         rounds' \in 0 .. MaxRounds - 1, deepest' \in Cursors,
         \A v \in Range(valid') : lev[v] # 0,
         \A e : Stays(e) /\ Under(e, cursor) =>
            e \in Range(valid') \/ (Under(e, b) /\ \A v \in Range(valid') : Newer(v, e))
  PROVE  QueryInv'
<1>1. UNCHANGED <<stored, lev, inserts, deletes, stable, filter, cursor, page, delivered>>
  BY DEF database, client
<1>2. /\ \A d, e : Newer(d, e)' <=> Newer(d, e)
      /\ \A e, c : Under(e, c)' <=> Under(e, c)
  BY <1>1, Frame
<1>3. /\ ScanKeys' = ScanKeys /\ IndexEntries' = IndexEntries /\ Values' = Values
      /\ \A v : RankOf(v)' = RankOf(v)
      /\ \A e : Matches(e)' <=> Matches(e)
  BY <1>1, FilterFrame
<1> DEFINE s == IF b = Top THEN filter.until ELSE b.ts
<1>4. /\ boundary' = b /\ open' = ScanKeys /\ pending' = ScanKeys /\ again' = FALSE
      /\ resume' = [p \in ScanKeys |-> [val |-> p, ts |-> s + 1]]
      /\ buffer' = [p \in ScanKeys |-> {}] /\ merged' = <<>> /\ hydrated' = 0
  BY DEF BeginRound
<1>5. TypeOK
  BY DEF QueryInv
<1>6. s \in Nat
  BY <1>5, QueryConstants DEF TypeOK, Cursors, Position
<1> HIDE DEF s
<1>7. Range(merged') = {} /\ Len(merged') = 0 /\ merged' \in Seq(Events)
  BY <1>4 DEF Range
<1>8. \A e : Stays(e)' <=> Stays(e)
  BY <1>1, <1>3 DEF Stays
<1>9. \A p \in ScanKeys : resume'[p].val = p /\ Bound(p)' = s + 1 /\ buffer'[p] = {}
  <2>1. \A p \in ScanKeys : resume'[p].val = p /\ resume'[p].ts = s + 1
    BY <1>4
  <2> QED
    BY <1>4, <2>1 DEF Bound
<1>10. EmitLimit \in Nat \ {0} /\ Limit \in Nat
  BY QueryConstants DEF EmitLimit
<1>11. TypeOK'
  <2>1. resume' \in [ScanKeys -> [val : Values, ts : Nat]]
    <3>1. \A p \in ScanKeys : [val |-> p, ts |-> s + 1] \in [val : Values, ts : Nat]
      BY <1>6 DEF Values
    <3> QED
      BY <1>4, <3>1
  <2>2. buffer' \in [ScanKeys -> SUBSET EntriesOf(SelectIndex(filter), Events)]
    BY <1>4
  <2>3. Len(merged') <= EmitLimit /\ Len(valid') <= Limit /\ hydrated' \in 0 .. Len(merged')
    BY <1>4, <1>7, <1>10
  <2>4. open' \subseteq ScanKeys /\ pending' \subseteq ScanKeys /\ again' \in BOOLEAN
    BY <1>4
  <2>5. boundary' \in Cursors /\ EmitLimit' = EmitLimit
    BY <1>4 DEF EmitLimit
  <2> QED
    BY <1>1, <1>3, <1>5, <1>7, <2>1, <2>2, <2>3, <2>4, <2>5 DEF TypeOK
<1>12. Numbered' /\ ClientInv'
  BY <1>1 DEF QueryInv, Numbered, ClientInv
<1>13. StreamInv'
  BY <1>3, <1>4, <1>9 DEF StreamInv
<1>14. CompleteInv'
  <2> SUFFICES ASSUME NEW e, Stays(e), Under(e, b) PROVE Created[e] < s + 1
    BY <1>2, <1>3, <1>4, <1>8, <1>9 DEF CompleteInv
  <2>1. Created[e] \in Nat
    BY <1>5, QueryConstants DEF TypeOK, Stays
  <2>2. b = Top => Created[e] <= s
    BY DEF Stays, Matches, InTime, s
  <2>3. b # Top => Created[e] <= s
    <3>1. b # Top => b.ts \in Nat /\ s = b.ts
      BY DEF Cursors, Position, s
    <3> QED
      BY <2>1, <3>1 DEF Under
  <2> QED
    BY <1>6, <2>1, <2>2, <2>3
<1>15. MergedInv'
  BY <1>7 DEF MergedInv
<1>16. PageInv'
  BY <1>1, <1>2, <1>4, <1>8 DEF PageInv
<1>17. RoundInv'
  BY <1>4, <1>7, <1>10 DEF RoundInv, EmitLimit
<1> QED
  BY <1>11, <1>12, <1>13, <1>14, <1>15, <1>16, <1>17 DEF QueryInv

\* It begins at a position that is not above the cursor.
LEMMA BeginRoundExact ==
  ASSUME QueryInv, ExactInv, NEW b \in Cursors, BeginRound(b), pc' = "merge",
         UNCHANGED <<database, client>>, cursor # End, valid' \in Seq(Events),
         b \in Position => b.ts <= filter.until, NotAbove(b, cursor),
         \A i, j \in 1 .. Len(valid') : i < j => Newer(valid'[i], valid'[j]),
         \A e \in Range(valid') : Scanned(e) /\ Matches(e) /\ Under(e, cursor) /\ ~Under(e, b)
  PROVE  ExactInv'
<1>1. UNCHANGED <<stored, lev, stable, filter, cursor, page>>
  BY DEF database, client
<1>2. /\ \A d, e : Newer(d, e)' <=> Newer(d, e)
      /\ \A e, c : Under(e, c)' <=> Under(e, c)
      /\ \A e : (Scanned(e)' <=> Scanned(e)) /\ (Matches(e)' <=> Matches(e))
  BY <1>1, Frame
<1>3. ScanKeys' = ScanKeys
  BY <1>1, FilterFrame
<1> DEFINE s == IF b = Top THEN filter.until ELSE b.ts
<1>4. /\ boundary' = b /\ resume' = [p \in ScanKeys |-> [val |-> p, ts |-> s + 1]]
      /\ buffer' = [p \in ScanKeys |-> {}] /\ merged' = <<>>
  BY DEF BeginRound
<1>5. s \in Nat /\ Start' = s
  BY <1>1, <1>4, QueryConstants DEF QueryInv, TypeOK, Cursors, Position, Start
<1> HIDE DEF s
<1>6. Range(merged') = {} /\ Len(merged') = 0
  BY <1>4 DEF Range
<1>7. \A p \in ScanKeys : Bound(p)' = s + 1 /\ buffer'[p] = {}
  BY <1>4 DEF Bound
<1>8. ExactClient'
  BY <1>1, <1>2 DEF ExactInv, ExactClient
<1>9. ExactPage'
  <2>1. NotAbove(boundary, cursor)'
    BY <1>1, <1>4 DEF NotAbove
  <2> QED
    BY <1>1, <1>2, <1>4, <2>1 DEF ExactPage
<1>10. ExactMerged'
  BY <1>6 DEF ExactMerged
<1>11. ExactStream'
  BY <1>2, <1>3, <1>4, <1>5, <1>6, <1>7 DEF ExactStream
<1>12. ExactHydrate'
  BY DEF ExactHydrate
<1> QED
  BY <1>8, <1>9, <1>10, <1>11, <1>12 DEF ExactInv

\* A page begins at the client's cursor, with nothing on it.
LEMMA BeginPageStep == QueryInv /\ BeginPage => QueryInv' /\ (ExactInv => ExactInv')
<1> SUFFICES ASSUME QueryInv, BeginPage PROVE QueryInv' /\ (ExactInv => ExactInv')
  OBVIOUS
<1>1. /\ pc = "client" /\ pc' = "merge" /\ BeginRound(cursor)
      /\ rounds' = 0 /\ valid' = <<>> /\ deepest' = Top
      /\ UNCHANGED <<database, client>>
  BY DEF BeginPage
<1>2. cursor # End /\ cursor \in Cursors
  BY <1>1 DEF QueryInv, TypeOK, ClientInv
<1>3. Range(valid') = {} /\ Len(valid') = 0 /\ valid' \in Seq(Events)
  BY <1>1 DEF Range
<1>4. rounds' \in 0 .. MaxRounds - 1 /\ deepest' \in Cursors /\ Len(valid') < Limit
  BY <1>1, <1>3, QueryConstants DEF Cursors
<1>5. QueryInv'
  <2> HIDE DEF QueryInv
  <2> QED
    BY <1>1, <1>2, <1>3, <1>4, BeginRoundStep
<1>6. ASSUME ExactInv PROVE ExactInv'
  <2>1. cursor \in Position => cursor.ts <= filter.until
    BY <1>6 DEF ExactInv, ExactClient
  <2>2. NotAbove(cursor, cursor)
    BY <1>2 DEF NotAbove, Cursors, Position
  <2> HIDE DEF QueryInv
  <2> QED
    BY <1>1, <1>2, <1>3, <1>6, <2>1, <2>2, BeginRoundExact
<1> QED
  BY <1>5, <1>6

\* A window is the upper part of what is below the last one.
LEMMA WindowFacts ==
  ASSUME TypeOK, NEW p \in ScanKeys, resume[p].val = p \/ RankOf(resume[p].val) < RankOf(p),
         NEW W, W = NextWindow(p)
  PROVE  ReadBy(p, W)
<1> DEFINE C == {x \in EntriesOf(SelectIndex(filter), stored) : Above(resume[p], Key(x))}
<1>0. filter \in Filters /\ stored \subseteq Events /\ resume[p] \in KeyOf /\ p \in Values
  BY DEF TypeOK, KeyOf, Values
<1>1. /\ \A x \in C : /\ x[2] \in stored /\ x[1] \in Values /\ Created[x[2]] \in Nat
                      /\ Key(x) \in KeyOf /\ Key(x).val = x[1] /\ Key(x).ts = Created[x[2]]
      /\ \A e \in stored : \A q \in IndexKeys(SelectIndex(filter), e) :
            <<q, e>> \in EntriesOf(SelectIndex(filter), stored)
      /\ C \subseteq IndexEntries
      /\ \A q \in Values : RankOf(q) \in Nat
  BY <1>0, EntryFacts
<1>2. \A x \in C : Above(resume[p], Key(x))
  OBVIOUS
<1>3. \A x \in EntriesOf(SelectIndex(filter), stored) : Above(resume[p], Key(x)) => x \in C
  OBVIOUS
<1>4. W = Window(C)
  BY DEF NextWindow
<1> HIDE DEF C
<1>5. /\ W \subseteq C
      /\ \A x \in C \ W, w \in W : Above(Key(w), Key(x))
      /\ W = {} => C = {}
  BY <1>0, <1>1, <1>4, WindowProperties
<1>6. \A k, l \in KeyOf : /\ Above(k, l) <=> RankOf(k.val) > RankOf(l.val) \/ (k.val = l.val /\ k.ts > l.ts)
                          /\ RankOf(k.val) \in Nat /\ k.ts \in Nat
  BY <1>0, AboveOrder
<1>7. \A x \in C : /\ RankOf(resume[p].val) > RankOf(x[1]) \/ (resume[p].val = x[1] /\ resume[p].ts > Created[x[2]])
                   /\ RankOf(x[1]) \in Nat
  BY <1>0, <1>1, <1>2, <1>6
<1>8. RankOf(resume[p].val) \in Nat /\ RankOf(p) \in Nat /\ resume[p].ts \in Nat
  BY <1>0, <1>1, <1>6
<1>9. \A x \in C : x[1] = p \/ RankOf(x[1]) < RankOf(p)
  BY <1>7, <1>8
<1>10. \A x \in C : x[1] = p => resume[p].val = p /\ Created[x[2]] < Bound(p)
  <2> SUFFICES ASSUME NEW x \in C, x[1] = p PROVE resume[p].val = p /\ Created[x[2]] < resume[p].ts
    BY DEF Bound
  <2> QED
    BY <1>1, <1>7, <1>8
<1>11. ASSUME NEW x \in C, x[1] = p, NEW y \in C, Above(Key(y), Key(x))
       PROVE  y[1] = p /\ Created[x[2]] < Created[y[2]]
  <2>1. RankOf(y[1]) > RankOf(p) \/ (y[1] = p /\ Created[y[2]] > Created[x[2]])
    BY <1>1, <1>6, <1>11
  <2> QED
    BY <1>1, <1>7, <1>8, <1>9, <2>1
<1>12. ASSUME NEW e \in stored, p \in IndexKeys(SelectIndex(filter), e), Created[e] < Bound(p),
              <<p, e>> \notin W
       PROVE  W # {} /\ \A y \in W : y[1] = p /\ Created[e] < Created[y[2]]
  <2> DEFINE x == <<p, e>>
  <2>1. x[1] = p /\ x[2] = e /\ x \in EntriesOf(SelectIndex(filter), stored)
    BY <1>1, <1>12
  <2>2. Key(x) \in KeyOf /\ Key(x).val = p /\ Key(x).ts = Created[e] /\ Created[e] \in Nat
    BY <1>0, <2>1, EntryFacts
  <2>3. resume[p].val = p /\ Created[e] < resume[p].ts
    BY <1>12, <2>2 DEF Bound
  <2>4. x \in C
    BY <1>0, <1>3, <1>6, <2>1, <2>2, <2>3
  <2>5. W # {} /\ x \in C \ W
    BY <1>5, <1>12, <2>4
  <2> HIDE DEF x
  <2>6. \A y \in W : y \in C /\ Above(Key(y), Key(x))
    BY <1>5, <2>5
  <2> QED
    BY <1>11, <2>1, <2>4, <2>5, <2>6
<1>13. W # {} => /\ \E w \in W : ResumeKey(W) = Key(w)
                 /\ \A w \in W : ~Above(ResumeKey(W), Key(w))
  BY <1>0, <1>1, <1>5, ResumeKeyProperties
<1> QED
  BY <1>1, <1>2, <1>5, <1>9, <1>10, <1>11, <1>12, <1>13 DEF ReadBy

\* A stream is refilled: what is not read stays below its next window.
LEMMA RefillStep ==
  ASSUME QueryInv, pc = "merge", pending # {}, NEW p, p = CHOOSE q \in pending : TRUE,
         NEW W, W = NextWindow(p), Refill(p, W)
  PROVE  QueryInv' /\ (ExactInv /\ ValuesApart => ExactInv')
<1> DEFINE G == Guarded(W, p)
           K == BelowFloor(G)
           T == Truncated(K)
<1>1. /\ resume' = IF W = {} THEN resume ELSE [resume EXCEPT ![p] = ResumeKey(W)]
      /\ again' = (G # {} /\ K = {} /\ ~again)
      /\ pending' = IF again' THEN pending ELSE pending \ {p}
      /\ buffer' = [buffer EXCEPT ![p] = T]
      /\ open' = IF again' \/ (K # {} /\ T = K) THEN open ELSE open \ {p}
      /\ UNCHANGED <<database, pc, client, boundary, rounds, valid, deepest, merged, hydrated>>
  BY DEF Refill
<1>2. UNCHANGED <<stored, lev, inserts, deletes, stable, pc, filter, cursor, page, delivered,
                  boundary, rounds, valid, deepest, merged, hydrated>>
  BY <1>1 DEF database, client
<1>3. TypeOK /\ Numbered /\ StreamInv /\ CompleteInv
  BY DEF QueryInv
<1>4. p \in pending /\ p \in open /\ p \in ScanKeys /\ buffer[p] = {}
  BY <1>3 DEF StreamInv, TypeOK
<1>5. filter \in Filters /\ stored \subseteq Events /\ filter.since \in Nat /\ filter.until \in Nat
  BY <1>3, QueryConstants DEF TypeOK
<1>6. /\ W \subseteq IndexEntries /\ \A x \in W : x[2] \in stored
      /\ \A x \in W : Above(resume[p], Key(x)) /\ (x[1] = p \/ RankOf(x[1]) < RankOf(p))
      /\ \A x \in W : x[1] = p => resume[p].val = p /\ Created[x[2]] < Bound(p)
      /\ \A x \in W : x[1] = p => \A y \in W :
            Above(Key(y), Key(x)) => y[1] = p /\ Created[x[2]] < Created[y[2]]
      /\ \A e \in stored : p \in IndexKeys(SelectIndex(filter), e) /\ Created[e] < Bound(p) =>
            \/ <<p, e>> \in W
            \/ /\ W # {}
               /\ \A y \in W : y[1] = p /\ Created[e] < Created[y[2]]
      /\ W # {} => /\ \E w \in W : ResumeKey(W) = Key(w)
                   /\ \A w \in W : ~Above(ResumeKey(W), Key(w))
  <2>1. resume[p].val = p \/ RankOf(resume[p].val) < RankOf(p)
    BY <1>3, <1>4 DEF StreamInv
  <2>2. ReadBy(p, W)
    BY <1>3, <1>4, <2>1, WindowFacts
  <2> QED
    BY <2>2 DEF ReadBy
<1>7. \A x \in W : /\ x[2] \in Events /\ x[1] \in Values /\ Created[x[2]] \in Nat /\ lev[x[2]] \in Nat
                   /\ Key(x) \in KeyOf /\ Key(x).val = x[1] /\ Key(x).ts = Created[x[2]]
  BY <1>3, <1>5, <1>6, EntryFacts DEF IndexEntries, TypeOK
<1>8. /\ \A x \in G : x \in W /\ StartsWith(x, p)
      /\ \A x \in W : x[1] = p => x \in G
  <2>1. \A x \in G : x \in W /\ StartsWith(x, p)
    BY DEF Guarded
  <2>2. \A x \in W : x[1] = p => StartsWith(x, p)
    BY DEF StartsWith
  <2>3. ASSUME NEW x \in W, x[1] = p PROVE x \in G
    <3>1. \A y \in W : Above(Key(y), Key(x)) => StartsWith(y, p)
      BY <1>6, <2>2, <2>3
    <3> QED
      BY <2>2, <2>3, <3>1 DEF Guarded
  <2> QED
    BY <2>1, <2>3
<1>9. \A x : x \in K <=> x \in G /\ ~AtFloor(x[2])
  BY DEF BelowFloor
<1>10. /\ \A x \in T : x \in K /\ Created[x[2]] >= filter.since
       /\ \A x \in K :
             Created[x[2]] >= filter.since
                /\ (\A y \in K : Above(Key(y), Key(x)) => Created[y[2]] >= filter.since)
             => x \in T
  BY DEF Truncated
<1> HIDE DEF G, K, T
<1>11. resume \in [ScanKeys -> KeyOf] /\ resume[p] \in KeyOf /\ p \in Values
  BY <1>3, <1>4 DEF TypeOK, KeyOf, Values
<1> DEFINE u == resume'[p]
<1>12. /\ resume' \in [ScanKeys -> KeyOf] /\ \A q \in ScanKeys \ {p} : resume'[q] = resume[q]
       /\ W = {} => u = resume[p]
       /\ W # {} => (\E w \in W : u = Key(w)) /\ \A w \in W : ~Above(u, Key(w))
       /\ u \in KeyOf
  <2>1. CASE W = {}
    BY <1>1, <1>11, <2>1
  <2>2. CASE W # {}
    <3>1. ResumeKey(W) \in KeyOf
      BY <1>6, <1>7, <2>2
    <3>2. resume' = [resume EXCEPT ![p] = ResumeKey(W)]
      BY <1>1, <2>2
    <3>3. resume' \in [ScanKeys -> KeyOf] /\ u = ResumeKey(W) /\ \A q \in ScanKeys \ {p} : resume'[q] = resume[q]
      BY <1>4, <1>11, <3>1, <3>2
    <3> HIDE DEF u
    <3> QED
      BY <1>6, <2>2, <3>1, <3>3
  <2> QED
    BY <2>1, <2>2
<1>13. u.val = p \/ RankOf(u.val) < RankOf(p)
  <2> HIDE DEF u
  <2>1. CASE W = {}
    BY <1>3, <1>4, <1>12, <2>1 DEF StreamInv
  <2>2. CASE W # {}
    BY <1>6, <1>7, <1>12, <2>2
  <2> QED
    BY <2>1, <2>2
<1> DEFINE b == Bound(p)'
<1>14. /\ b = IF u.val = p THEN u.ts ELSE 0
       /\ \A q \in ScanKeys \ {p} : Bound(q)' = Bound(q)
       /\ b \in Nat /\ Bound(p) \in Nat
  <2>1. b = IF u.val = p THEN u.ts ELSE 0
    BY DEF Bound
  <2>2. u.ts \in Nat /\ resume[p].ts \in Nat
    BY <1>11, <1>12 DEF KeyOf
  <2> HIDE DEF u
  <2>3. Bound(p) \in Nat
    BY <2>2 DEF Bound
  <2>4. \A q \in ScanKeys \ {p} : Bound(q)' = Bound(q)
    BY <1>12 DEF Bound
  <2> QED
    BY <2>1, <2>2, <2>3, <2>4
<1> HIDE DEF u, b
<1>15. b <= Bound(p)
  <2>1. CASE W = {}
    <3>1. b = Bound(p)
      BY <1>12, <1>14, <2>1 DEF Bound
    <3> QED
      BY <1>14, <3>1
  <2>2. CASE W # {}
    <3>1. PICK w \in W : u = Key(w)
      BY <1>12, <2>2
    <3>2. CASE w[1] = p
      <4>1. b = Created[w[2]] /\ Created[w[2]] < Bound(p) /\ Created[w[2]] \in Nat
        BY <1>6, <1>7, <1>14, <3>1, <3>2
      <4> QED
        BY <1>14, <4>1
    <3>3. CASE w[1] # p
      BY <1>7, <1>14, <3>1, <3>3
    <3> QED
      BY <3>2, <3>3
  <2> QED
    BY <2>1, <2>2
<1>16. boundary # Top => boundary.ts \in Nat /\ boundary.lev \in Nat
  BY <1>3 DEF TypeOK, Cursors, Position
<1>17. ASSUME again' PROVE boundary # Top /\ b <= boundary.ts /\ T = {}
  <2>1. G # {} /\ K = {}
    BY <1>1, <1>17
  <2>2. T = {}
    BY <1>10, <2>1
  <2>3. \A x \in G : AtFloor(x[2])
    BY <1>9, <2>1
  <2>4. boundary # Top
    BY <2>1, <2>3 DEF AtFloor
  <2>5. PICK w \in W : u = Key(w)
    BY <1>8, <1>12, <2>1
  <2>6. CASE w[1] = p
    <3>1. b = Created[w[2]] /\ Created[w[2]] = boundary.ts
      BY <1>7, <1>8, <1>14, <2>3, <2>5, <2>6 DEF AtFloor
    <3> QED
      BY <1>14, <2>2, <2>4, <3>1
  <2>7. CASE w[1] # p
    <3>1. b = 0
      BY <1>7, <1>14, <2>5, <2>7
    <3> QED
      BY <1>16, <2>2, <2>4, <3>1
  <2> QED
    BY <2>6, <2>7
<1>18. ASSUME NEW e, Stays(e), Under(e, boundary), p \in IndexKeys(SelectIndex(filter), e),
              Created[e] < Bound(p)
       PROVE  \/ <<p, e>> \in T
              \/ (again' \/ (K # {} /\ T = K)) /\ Created[e] < b
  <2>1. e \in stored /\ e \in Events /\ Created[e] \in Nat /\ lev[e] \in Nat /\ Created[e] >= filter.since
    BY <1>3, <1>5, <1>18, QueryConstants DEF TypeOK, Stays, Matches, InTime
  <2>2. ~AtFloor(e)
    BY <1>16, <1>18, <2>1 DEF Under, AtFloor
  <2>3. CASE <<p, e>> \in W
    <3>1. <<p, e>>[1] = p /\ <<p, e>>[2] = e
      OBVIOUS
    <3>2. <<p, e>> \in K
      BY <1>8, <1>9, <2>2, <2>3, <3>1
    <3>3. \A y \in K : Above(Key(y), Key(<<p, e>>)) => Created[y[2]] >= filter.since
      <4> SUFFICES ASSUME NEW y \in K, Above(Key(y), Key(<<p, e>>)) PROVE Created[y[2]] >= filter.since
        OBVIOUS
      <4>1. y \in W /\ Created[e] < Created[y[2]]
        BY <1>6, <1>8, <1>9, <2>3, <3>1
      <4> QED
        BY <1>5, <1>7, <2>1, <4>1
    <3> QED
      BY <1>10, <2>1, <3>1, <3>2, <3>3
  <2>4. CASE <<p, e>> \notin W
    <3>1. W # {} /\ \A y \in W : y[1] = p /\ Created[e] < Created[y[2]]
      BY <1>6, <1>18, <2>1, <2>4
    <3>2. PICK w \in W : u = Key(w)
      BY <1>12, <3>1
    <3>3. Created[e] < b
      BY <1>7, <1>14, <3>1, <3>2
    <3>4. G # {}
      BY <1>8, <3>1
    <3>5. CASE K = {}
      <4>1. ~again
        <5> SUFFICES ASSUME again PROVE FALSE
          OBVIOUS
        <5>1. boundary # Top /\ Bound(p) <= boundary.ts
          BY <1>3, <1>4 DEF StreamInv
        <5>2. w \in G /\ AtFloor(w[2]) /\ Created[w[2]] < Bound(p)
          BY <1>6, <1>8, <1>9, <3>1, <3>2, <3>5
        <5>3. Created[w[2]] = boundary.ts /\ Created[w[2]] \in Nat
          BY <1>7, <5>2 DEF AtFloor
        <5> QED
          BY <1>14, <1>16, <5>1, <5>2, <5>3
      <4> QED
        BY <1>1, <3>3, <3>4, <3>5, <4>1
    <3>6. CASE K # {}
      <4>1. \A y \in K : Created[y[2]] >= filter.since
        <5> SUFFICES ASSUME NEW y \in K PROVE Created[y[2]] >= filter.since
          OBVIOUS
        <5>1. y \in W /\ Created[e] < Created[y[2]]
          BY <1>8, <1>9, <3>1
        <5> QED
          BY <1>5, <1>7, <2>1, <5>1
      <4>2. T = K
        BY <1>10, <4>1
      <4> QED
        BY <3>3, <3>6, <4>2
    <3> QED
      BY <3>5, <3>6
  <2> QED
    BY <2>3, <2>4
<1>19. /\ \A d, e : (Newer(d, e)' <=> Newer(d, e)) /\ (Precedes(d, e)' <=> Precedes(d, e))
       /\ \A e, c : Under(e, c)' <=> Under(e, c)
       /\ \A e : Scanned(e)' <=> Scanned(e)
  BY <1>2, Frame
<1>20. /\ ScanKeys' = ScanKeys /\ IndexEntries' = IndexEntries /\ Values' = Values
       /\ \A v : RankOf(v)' = RankOf(v)
       /\ \A k, l : Above(k, l)' <=> Above(k, l)
       /\ \A e : Matches(e)' <=> Matches(e)
  BY <1>2, FilterFrame
<1>21. /\ Start' = Start /\ (InRound' <=> InRound) /\ (Exhausted' <=> Exhausted) /\ EmitLimit' = EmitLimit
       /\ \A e : AtFloor(e)' <=> AtFloor(e)
       /\ \A x : Key(x)' = Key(x)
       /\ \A e : Stays(e)' <=> Stays(e)
       /\ NotAbove(boundary, cursor)' <=> NotAbove(boundary, cursor)
  BY <1>2, <1>20 DEF Start, InRound, Exhausted, EmitLimit, AtFloor, Key, Stays, NotAbove
<1>22. buffer \in [ScanKeys -> SUBSET IndexEntries] /\ T \in SUBSET IndexEntries /\ \A x \in T : x \in W /\ x \in G
  BY <1>3, <1>6, <1>8, <1>9, <1>10 DEF TypeOK, IndexEntries
<1>23. /\ buffer' \in [ScanKeys -> SUBSET IndexEntries] /\ buffer'[p] = T
       /\ \A q \in ScanKeys \ {p} : buffer'[q] = buffer[q]
  BY <1>1, <1>4, <1>22
<1>24. /\ open' \subseteq open /\ pending' \subseteq pending
       /\ \A q \in ScanKeys \ {p} : (q \in open' <=> q \in open) /\ (q \in pending' <=> q \in pending)
       /\ p \in open' <=> (again' \/ (K # {} /\ T = K))
       /\ p \in pending' <=> again'
       /\ again' => pending' = pending
       /\ again' \in BOOLEAN
  BY <1>1, <1>4
<1>25. TypeOK'
  <2>1. resume' \in [ScanKeys -> [val : Values, ts : Nat]]
    BY <1>12 DEF KeyOf
  <2>2. buffer' \in [ScanKeys -> SUBSET EntriesOf(SelectIndex(filter), Events)]
    BY <1>23 DEF IndexEntries
  <2> QED
    BY <1>2, <1>3, <1>20, <1>21, <1>24, <2>1, <2>2 DEF TypeOK
<1>26. Numbered' /\ ClientInv'
  BY <1>2 DEF QueryInv, Numbered, ClientInv
<1>27. StreamInv'
  <2>1. pending' \subseteq open'
    BY <1>3, <1>24 DEF StreamInv, TypeOK
  <2>2. \A q \in open' : q \in pending' <=> buffer'[q] = {}
    <3>1. \A q \in ScanKeys \ {p} : q \in open' => (q \in pending' <=> buffer'[q] = {})
      BY <1>3, <1>23, <1>24 DEF StreamInv
    <3>2. p \in open' => (p \in pending' <=> buffer'[p] = {})
      BY <1>17, <1>23, <1>24
    <3> QED
      BY <1>3, <1>24, <3>1, <3>2 DEF TypeOK
  <2>3. \A q \in ScanKeys : resume'[q].val = q \/ RankOf(resume'[q].val) < RankOf(q)
    <3>1. \A q \in ScanKeys \ {p} : resume'[q].val = q \/ RankOf(resume'[q].val) < RankOf(q)
      BY <1>3, <1>12 DEF StreamInv
    <3> QED
      BY <1>13, <3>1 DEF u
  <2>4. ASSUME NEW q \in ScanKeys, NEW x \in buffer'[q]
        PROVE  /\ lev[x[2]] # 0 /\ ~AtFloor(x[2]) /\ ~Above(resume'[q], Key(x))
               /\ x[1] = q \/ RankOf(x[1]) < RankOf(q)
    <3>1. CASE q # p
      BY <1>3, <1>12, <1>23, <2>4, <3>1 DEF StreamInv
    <3>2. CASE q = p
      <4>1. x \in T /\ x \in W
        BY <1>22, <1>23, <2>4, <3>2
      <4>2. lev[x[2]] # 0
        BY <1>3, <1>6, <4>1 DEF Numbered
      <4>3. ~AtFloor(x[2])
        BY <1>9, <1>10, <4>1
      <4>4. ~Above(u, Key(x))
        BY <1>12, <4>1
      <4> QED
        BY <1>6, <3>2, <4>1, <4>2, <4>3, <4>4 DEF u
    <3> QED
      BY <3>1, <3>2
  <2>5. again' => /\ pending' # {} /\ boundary # Top
                  /\ \A q \in ScanKeys : q = (CHOOSE r \in pending' : TRUE) => Bound(q)' <= boundary.ts
    <3>1. again' => (CHOOSE r \in pending' : TRUE) = p
      BY <1>24
    <3>2. again' => /\ pending' # {} /\ boundary # Top /\ Bound(p)' <= boundary.ts
      BY <1>17, <1>24 DEF b
    <3> QED
      BY <3>1, <3>2
  <2>6. \A q \in ScanKeys : \A x \in buffer'[q] : ~Above(resume[q], Key(x))'
    BY <1>20, <1>21, <2>4
  <2> QED
    BY <1>2, <1>20, <1>21, <2>1, <2>2, <2>3, <2>4, <2>5, <2>6 DEF StreamInv
<1>28. CompleteInv'
  <2> SUFFICES ASSUME NEW e, Stays(e), Under(e, boundary),
                      NEW q \in ScanKeys, q \in IndexKeys(SelectIndex(filter), e)
               PROVE  e \in Range(merged) \/ <<q, e>> \in buffer'[q] \/ (q \in open' /\ Created[e] < Bound(q)')
    BY <1>2, <1>19, <1>20, <1>21 DEF CompleteInv
  <2>1. e \in Range(merged) \/ <<q, e>> \in buffer[q] \/ (q \in open /\ Created[e] < Bound(q))
    BY <1>3 DEF CompleteInv
  <2>2. CASE q # p
    BY <1>14, <1>23, <1>24, <2>1, <2>2
  <2>3. CASE q = p /\ e \notin Range(merged)
    BY <1>4, <1>18, <1>23, <1>24, <2>1, <2>3 DEF b
  <2> QED
    BY <2>2, <2>3
<1>29. MergedInv'
  BY <1>2, <1>19, <1>21 DEF QueryInv, MergedInv
<1>30. PageInv'
  BY <1>2, <1>19, <1>21 DEF QueryInv, PageInv
<1>31. RoundInv'
  BY <1>2, <1>19, <1>21 DEF QueryInv, RoundInv
<1>32. QueryInv'
  BY <1>25, <1>26, <1>27, <1>28, <1>29, <1>30, <1>31 DEF QueryInv
<1>33. ASSUME ExactInv, ValuesApart PROVE ExactInv'
  <2>0. ExactClient /\ ExactPage /\ ExactMerged /\ ExactStream /\ ExactHydrate
    BY <1>33 DEF ExactInv
  <2>1. ExactClient'
    BY <1>2, <1>19, <2>0 DEF ExactClient
  <2>2. ExactPage'
    BY <1>2, <1>19, <1>20, <1>21, <2>0 DEF ExactPage
  <2>3. ExactMerged'
    BY <1>2, <1>19, <1>21, <2>0 DEF ExactMerged
  <2>4. ExactHydrate'
    BY <1>2 DEF ExactHydrate
  <2>5. Start \in Nat /\ Start <= filter.until /\ Bound(p) <= Start + 1
    <3>1. boundary # Top => boundary.ts \in Nat /\ boundary.ts <= filter.until
      BY <1>3, <2>0 DEF TypeOK, ExactPage, InRound, Cursors, Position
    <3>2. Bound(p) <= Start + 1
      BY <1>4, <2>0 DEF ExactStream
    <3> QED
      BY <1>5, <3>1, <3>2 DEF Start
  <2>6. ASSUME NEW x \in T
        PROVE  x[1] = p /\ Scanned(x[2]) /\ Under(x[2], boundary) /\ Created[x[2]] < Bound(p)
    <3>1. x \in W /\ x \in G /\ x \in K /\ Created[x[2]] >= filter.since
      BY <1>10, <1>22
    <3>2. x[1] = p
      BY <1>4, <1>6, <1>8, <1>33, <3>1 DEF ValuesApart, IndexEntries
    <3>3. Created[x[2]] < Bound(p) /\ Created[x[2]] \in Nat /\ lev[x[2]] \in Nat /\ lev[x[2]] # 0
          /\ x[2] \in Events
      BY <1>3, <1>6, <1>7, <3>1, <3>2 DEF Numbered
    <3>4. Created[x[2]] <= Start
      BY <1>14, <2>5, <3>3
    <3>5. InTime(filter, x[2])
      BY <1>5, <2>5, <3>1, <3>3, <3>4 DEF InTime
    <3>6. ~AtFloor(x[2])
      BY <1>9, <3>1
    <3>7. Under(x[2], boundary)
      BY <1>16, <3>3, <3>4, <3>6 DEF Under, AtFloor, Start
    <3> QED
      BY <3>2, <3>3, <3>5, <3>7 DEF Scanned
  <2>7. \A m \in Range(merged) : m \in Events /\ Created[m] \in Nat /\ Bound(p) <= Created[m]
    BY <1>4, <2>0, QueryConstants DEF ExactStream, ExactMerged, InRound, Scanned
  <2>8. \A q \in ScanKeys : Bound(q)' <= Start + 1
    <3>1. b <= Start + 1
      BY <1>14, <1>15, <2>5
    <3>2. \A q \in ScanKeys \ {p} : Bound(q)' <= Start + 1
      BY <1>14, <2>0 DEF ExactStream
    <3> QED
      BY <3>1, <3>2 DEF b
  <2>9. \A q \in open' : \A m \in Range(merged) : Bound(q)' <= Created[m]
    <3>1. \A q \in open : \A m \in Range(merged) : Bound(q) <= Created[m]
      BY <2>0 DEF ExactStream
    <3>2. \A m \in Range(merged) : b <= Created[m]
      BY <1>14, <1>15, <2>7
    <3> QED
      BY <1>3, <1>14, <1>24, <3>1, <3>2 DEF b, TypeOK
  <2>10. ASSUME NEW q \in ScanKeys, NEW x \in buffer'[q]
         PROVE  /\ x[1] = q /\ Scanned(x[2]) /\ Under(x[2], boundary)
                /\ \A m \in Range(merged) : Precedes(m, x[2])
    <3>1. CASE q # p
      BY <1>23, <2>0, <2>10, <3>1 DEF ExactStream
    <3>2. CASE q = p
      <4>1. x \in T /\ x \in W
        BY <1>22, <1>23, <2>10, <3>2
      <4>2. \A m \in Range(merged) : Newer(m, x[2])
        BY <1>7, <1>14, <2>6, <2>7, <4>1 DEF Newer
      <4> QED
        BY <2>6, <3>2, <4>1, <4>2 DEF Precedes
    <3> QED
      BY <3>1, <3>2
  <2>11. ExactStream'
    BY <1>2, <1>19, <1>20, <1>21, <2>0, <2>8, <2>9, <2>10 DEF ExactStream
  <2> QED
    BY <2>1, <2>2, <2>3, <2>4, <2>11 DEF ExactInv
<1> QED
  BY <1>32, <1>33

\* The merge ends with the results s: it has left something out only at the limit.
LEMMA MergeEnds ==
  ASSUME QueryInv, pc = "merge", NEW s \in Seq(Events), Merged(s), Len(s) <= EmitLimit,
         UNCHANGED <<database, client, boundary, rounds, valid, deepest, resume, open, again>>,
         buffer' \in [ScanKeys -> SUBSET IndexEntries], pending' \subseteq ScanKeys,
         \A e \in Range(s) : lev[e] # 0 /\ ~AtFloor(e),
         \A e : Stays(e) /\ Under(e, boundary) =>
            /\ \A k \in 1 .. Len(s) : (\A i \in 1 .. k : s[i] # e) => Newer(s[k], e)
            /\ e \in Range(s) \/ ~(Len(s) < EmitLimit)
  PROVE  /\ QueryInv'
         /\ /\ ExactInv
            /\ \A e \in Range(s) : Scanned(e) /\ Under(e, boundary)
            /\ \A i, j \in 1 .. Len(s) : i < j => Precedes(s[i], s[j])
            => ExactInv'
<1>1. /\ UNCHANGED <<stored, lev, inserts, deletes, stable, filter, cursor, page, delivered,
                     boundary, rounds, valid, deepest, resume, open, again, hydrated>>
      /\ merged' = s /\ pc' = "hydrate"
  BY DEF database, client, Merged
<1>2. /\ \A d, e : (Newer(d, e)' <=> Newer(d, e)) /\ (Precedes(d, e)' <=> Precedes(d, e))
      /\ \A e, b : Under(e, b)' <=> Under(e, b)
      /\ \A e : Scanned(e)' <=> Scanned(e)
  BY <1>1, Frame
<1>3. /\ ScanKeys' = ScanKeys /\ IndexEntries' = IndexEntries /\ Values' = Values
      /\ \A e : Matches(e)' <=> Matches(e)
  BY <1>1, FilterFrame
<1>4. /\ \A e : AtFloor(e)' <=> AtFloor(e)
      /\ \A e : Stays(e)' <=> Stays(e)
      /\ NotAbove(boundary, cursor)' <=> NotAbove(boundary, cursor)
      /\ EmitLimit' = EmitLimit /\ (Exhausted' <=> Len(s) < EmitLimit)
  BY <1>1, <1>3 DEF AtFloor, Stays, NotAbove, EmitLimit, Exhausted
<1>5. InRound /\ InRound'
  BY <1>1 DEF InRound
<1>6. TypeOK /\ hydrated = 0
  BY DEF QueryInv, RoundInv
<1>7. TypeOK'
  <2>1. hydrated' \in 0 .. Len(s)
    BY <1>1, <1>6
  <2>2. buffer' \in [ScanKeys -> SUBSET EntriesOf(SelectIndex(filter), Events)]
    BY DEF IndexEntries
  <2> QED
    BY <1>1, <1>3, <1>4, <1>6, <2>1, <2>2 DEF TypeOK
<1>8. Numbered' /\ ClientInv'
  BY <1>1 DEF QueryInv, Numbered, ClientInv
<1>9. StreamInv' /\ CompleteInv'
  BY <1>1 DEF StreamInv, CompleteInv
<1>10. MergedInv'
  BY <1>1, <1>2, <1>4 DEF MergedInv
<1>11. PageInv'
  BY <1>1, <1>2, <1>4, <1>5 DEF QueryInv, PageInv
<1>12. RoundInv'
  BY <1>1, <1>2, <1>4, <1>6 DEF RoundInv
<1>13. QueryInv'
  BY <1>7, <1>8, <1>9, <1>10, <1>11, <1>12 DEF QueryInv
<1>14. ASSUME ExactInv, \A e \in Range(s) : Scanned(e) /\ Under(e, boundary),
              \A i, j \in 1 .. Len(s) : i < j => Precedes(s[i], s[j])
       PROVE  ExactInv'
  <2>0. ExactClient /\ ExactPage /\ ExactStream
    BY <1>14 DEF ExactInv
  <2>1. ExactClient'
    BY <1>1, <1>2, <2>0 DEF ExactClient
  <2>2. ExactPage'
    BY <1>1, <1>2, <1>3, <1>4, <1>5, <2>0 DEF ExactPage
  <2>3. ExactMerged'
    BY <1>1, <1>2, <1>14 DEF ExactMerged
  <2>4. ExactStream'
    BY <1>1 DEF ExactStream
  <2>5. ExactHydrate'
    <3>1. \A v \in Range(valid) : v \in Events /\ ~Under(v, boundary)
      BY <1>5, <2>0 DEF ExactStream, ExactPage, Scanned
    <3>2. lev \in [Events -> Nat] /\ boundary \in Cursors
      BY <1>6 DEF TypeOK
    <3>3. \A j \in 1 .. Len(s) : s[j] \in Range(s) /\ s[j] \in Events
      BY RangeProperties
    <3>4. \A v \in Range(valid), j \in 1 .. Len(s) : Precedes(v, s[j])
      BY <1>14, <3>1, <3>2, <3>3, Order DEF Precedes
    <3> QED
      BY <1>1, <1>2, <3>1, <3>4 DEF ExactHydrate
  <2> QED
    BY <2>1, <2>2, <2>3, <2>4, <2>5 DEF ExactInv
<1> QED
  BY <1>13, <1>14

\* The heap is empty: no stream goes on, and everything that stays was merged.
LEMMA HeapEmptyStep == QueryInv /\ HeapEmpty => QueryInv' /\ (ExactInv => ExactInv')
<1> SUFFICES ASSUME QueryInv, HeapEmpty PROVE QueryInv' /\ (ExactInv => ExactInv')
  OBVIOUS
<1>1. /\ pc = "merge" /\ pending = {} /\ Live = {} /\ Merged(merged)
      /\ UNCHANGED <<database, client, boundary, rounds, valid, deepest, resume, open, pending,
                     again, buffer>>
  BY DEF HeapEmpty
<1>2. TypeOK /\ MergedInv /\ StreamInv /\ CompleteInv /\ InRound
  BY <1>1 DEF QueryInv, InRound
<1>3. \A p \in ScanKeys : buffer[p] = {}
  BY <1>1 DEF Live
<1>4. open = {}
  BY <1>1, <1>2, <1>3 DEF StreamInv, TypeOK
<1>5. \A e : Stays(e) /\ Under(e, boundary) => e \in Range(merged)
  <2> SUFFICES ASSUME NEW e, Stays(e), Under(e, boundary) PROVE e \in Range(merged)
    OBVIOUS
  <2>1. filter \in Filters /\ e \in Events /\ Residual(filter, e)
    BY <1>2 DEF Stays, Matches, TypeOK
  <2>2. PICK p \in ScanKeys : p \in IndexKeys(SelectIndex(filter), e)
    BY <2>1, PrefixOfMatch DEF ScanKeys
  <2> QED
    BY <1>1, <1>2, <1>3, <1>4, <2>2 DEF CompleteInv
<1>6. /\ merged \in Seq(Events) /\ Len(merged) <= EmitLimit
      /\ buffer' \in [ScanKeys -> SUBSET IndexEntries] /\ pending' \subseteq ScanKeys
  BY <1>1, <1>2 DEF TypeOK, IndexEntries
<1>7. /\ \A e \in Range(merged) : lev[e] # 0 /\ ~AtFloor(e)
      /\ \A e : Stays(e) /\ Under(e, boundary) =>
            \A k \in 1 .. Len(merged) : (\A i \in 1 .. k : merged[i] # e) => Newer(merged[k], e)
  BY <1>2 DEF MergedInv
<1>8. QueryInv'
  BY <1>1, <1>5, <1>6, <1>7, MergeEnds
<1>9. ASSUME ExactInv PROVE ExactInv'
  <2>1. /\ \A e \in Range(merged) : Scanned(e) /\ Under(e, boundary)
        /\ \A i, j \in 1 .. Len(merged) : i < j => Precedes(merged[i], merged[j])
    BY <1>2, <1>9 DEF ExactInv, ExactMerged
  <2> QED
    BY <1>1, <1>5, <1>6, <1>7, <1>9, <2>1, MergeEnds
<1> QED
  BY <1>8, <1>9

\* The newest candidate is not older than any event that stays and is still to come.
LEMMA PopFacts ==
  ASSUME QueryInv, pc = "merge", pending = {}, NEW p \in Live,
         \A q \in Live : ~Newer(HeadOf(q)[2], HeadOf(p)[2])
  PROVE  /\ HeadOf(p) \in buffer[p] /\ HeadOf(p)[2] \in Events
         /\ lev[HeadOf(p)[2]] # 0 /\ ~AtFloor(HeadOf(p)[2])
         /\ \A q \in Live : \A y \in buffer[q] : y[1] = q => Precedes(HeadOf(p)[2], y[2])
         /\ \A q \in open : Bound(q) <= Created[HeadOf(p)[2]]
         /\ \A e : Stays(e) /\ Under(e, boundary) =>
               e \in Range(merged) \/ Precedes(HeadOf(p)[2], e)
<1> DEFINE d == HeadOf(p)[2]
<1>1. TypeOK /\ Numbered /\ StreamInv /\ CompleteInv
  BY DEF QueryInv
<1>2. filter \in Filters /\ lev \in [Events -> Nat] /\ \A q \in ScanKeys : buffer[q] \subseteq IndexEntries
  BY <1>1 DEF TypeOK, IndexEntries
<1>3. /\ \A x \in IndexEntries : /\ x[2] \in Events /\ x[1] \in Values /\ Created[x[2]] \in Nat
                            /\ lev[x[2]] \in Nat
                            /\ Key(x) \in KeyOf /\ Key(x).val = x[1] /\ Key(x).ts = Created[x[2]]
      /\ \A v \in Values : RankOf(v) \in Nat
  BY <1>2, EntryFacts DEF IndexEntries
<1>4. \A q \in Live : q \in ScanKeys /\ buffer[q] # {}
  BY DEF Live
<1>5. \A q \in ScanKeys : \A x \in buffer[q] :
         /\ lev[x[2]] # 0 /\ ~AtFloor(x[2]) /\ ~Above(resume[q], Key(x))
         /\ x[1] = q \/ RankOf(x[1]) < RankOf(q)
  BY <1>1 DEF StreamInv
<1>6. \A q \in Live : /\ HeadOf(q) \in buffer[q]
                      /\ \A y \in buffer[q] \ {HeadOf(q)} : Before(HeadOf(q), y)
  BY <1>1, <1>2, <1>4, <1>5, HeadProperties
<1>7. \A q \in Live : /\ HeadOf(q)[2] \in Events /\ lev[HeadOf(q)[2]] # 0 /\ HeadOf(q) \in IndexEntries
                      /\ HeadOf(q) \in buffer[q]
  BY <1>2, <1>3, <1>4, <1>5, <1>6
<1>8. /\ HeadOf(p) \in buffer[p] /\ d \in Events /\ lev[d] # 0 /\ ~AtFloor(d)
      /\ Created[d] \in Nat /\ lev[d] \in Nat
  BY <1>2, <1>3, <1>4, <1>5, <1>7
<1>9. ASSUME NEW q \in Live PROVE Precedes(d, HeadOf(q)[2])
  <2> DEFINE h == HeadOf(q)[2]
  <2>1. h \in Events /\ lev[h] # 0 /\ Created[h] \in Nat /\ lev[h] \in Nat /\ ~Newer(h, d)
    BY <1>2, <1>3, <1>7
  <2>2. lev[h] = lev[d] => h = d
    BY <1>1, <1>8, <2>1 DEF Numbered
  <2> HIDE DEF h, d
  <2> QED
    BY <1>8, <2>1, <2>2 DEF Precedes, Newer, h
<1> HIDE DEF d
<1>10. \A e \in Events : Created[e] \in Nat /\ lev[e] \in Nat
  BY <1>2, QueryConstants
<1>11. ASSUME NEW q \in Live, NEW y \in buffer[q], y[1] = q PROVE Precedes(d, y[2])
  <2> DEFINE h == HeadOf(q)
  <2>1. y \in IndexEntries /\ h \in IndexEntries /\ h \in buffer[q] /\ y[2] \in Events /\ h[2] \in Events
    BY <1>2, <1>3, <1>4, <1>7
  <2>2. CASE y = h
    BY <1>9, <2>2
  <2>3. CASE y # h
    <3>1. Before(h, y)
      BY <1>6, <2>3
    <3>2. h[1] = q \/ RankOf(h[1]) < RankOf(q)
      BY <1>4, <1>5, <2>1
    <3> HIDE DEF h
    <3>3. Newer(h[2], y[2])
      <4>1. CASE Above(Key(h), Key(y))
        <5>1. RankOf(h[1]) > RankOf(q) \/ (h[1] = q /\ Created[h[2]] > Created[y[2]])
          BY <1>2, <1>3, <1>11, <2>1, <4>1, AboveOrder
        <5>2. RankOf(h[1]) \in Nat /\ RankOf(q) \in Nat
          BY <1>3, <1>11, <2>1
        <5>3. Created[h[2]] > Created[y[2]]
          BY <3>2, <5>1, <5>2
        <5> QED
          BY <1>10, <2>1, <5>3 DEF Newer
      <4>2. CASE Key(h) = Key(y) /\ lev[h[2]] > lev[y[2]]
        <5>1. Created[h[2]] = Created[y[2]]
          BY <1>3, <2>1, <4>2
        <5> QED
          BY <1>10, <2>1, <4>2, <5>1 DEF Newer
      <4> QED
        BY <3>1, <4>1, <4>2 DEF Before
    <3>4. Precedes(d, h[2])
      BY <1>9 DEF h
    <3> QED
      BY <1>2, <1>8, <2>1, <3>3, <3>4, NewerOrder DEF Precedes
  <2> QED
    BY <2>2, <2>3
<1>12. ASSUME NEW q \in open, Bound(q) # 0
       PROVE  \E h \in Events : Bound(q) <= Created[h] /\ Precedes(d, h)
  <2>1. q \in ScanKeys /\ q \in Live
    BY <1>1 DEF StreamInv, TypeOK, Live
  <2> DEFINE h == HeadOf(q)
  <2>2. h \in IndexEntries /\ h \in buffer[q] /\ h[2] \in Events
    BY <1>7, <2>1
  <2>3. ~Above(resume[q], Key(h)) /\ (h[1] = q \/ RankOf(h[1]) < RankOf(q))
    BY <1>5, <2>1, <2>2
  <2>4. resume[q].val = q /\ Bound(q) = resume[q].ts
    BY <1>12 DEF Bound
  <2>5. resume[q] \in KeyOf
    BY <1>1, <2>1 DEF TypeOK, KeyOf
  <2>6. Precedes(d, h[2])
    BY <1>9, <2>1
  <2> HIDE DEF h
  <2>7. ~(RankOf(q) > RankOf(h[1])) /\ ~(q = h[1] /\ resume[q].ts > Created[h[2]])
    BY <1>2, <1>3, <2>2, <2>3, <2>4, <2>5, AboveOrder
  <2>8. RankOf(q) \in Nat /\ RankOf(h[1]) \in Nat /\ Created[h[2]] \in Nat /\ resume[q].ts \in Nat
    BY <1>3, <2>2, <2>4, <2>5 DEF KeyOf
  <2>9. resume[q].ts <= Created[h[2]]
    BY <2>3, <2>7, <2>8
  <2> QED
    BY <2>2, <2>4, <2>6, <2>9
<1>13. ASSUME NEW h \in Events, Precedes(d, h) PROVE Created[h] <= Created[d]
  BY <1>8, <1>10, <1>13 DEF Precedes, Newer
<1>14. \A q \in open : Bound(q) \in Nat
  BY <1>1 DEF TypeOK, Bound
<1>15. ASSUME NEW q \in open PROVE Bound(q) <= Created[d]
  <2>1. CASE Bound(q) = 0
    BY <1>8, <2>1
  <2>2. CASE Bound(q) # 0
    <3>1. PICK h \in Events : Bound(q) <= Created[h] /\ Precedes(d, h)
      BY <1>12, <2>2
    <3>2. Created[h] <= Created[d]
      BY <1>13, <3>1
    <3> QED
      BY <1>8, <1>10, <1>14, <3>1, <3>2
  <2> QED
    BY <2>1, <2>2
<1>16. ASSUME NEW e, Stays(e), Under(e, boundary), e \notin Range(merged) PROVE Precedes(d, e)
  <2>1. filter \in Filters /\ e \in Events /\ Residual(filter, e)
    BY <1>1, <1>16 DEF Stays, Matches, TypeOK
  <2>2. PICK q \in ScanKeys : q \in IndexKeys(SelectIndex(filter), e)
    BY <2>1, PrefixOfMatch DEF ScanKeys
  <2>3. <<q, e>> \in buffer[q] \/ (q \in open /\ Created[e] < Bound(q))
    BY <1>1, <1>16, <2>2 DEF CompleteInv
  <2>4. CASE <<q, e>> \in buffer[q]
    <3>1. q \in Live /\ <<q, e>>[1] = q /\ <<q, e>>[2] = e
      BY <2>2, <2>4 DEF Live
    <3> QED
      BY <1>11, <2>4, <3>1
  <2>5. CASE q \in open /\ Created[e] < Bound(q)
    <3>1. Created[e] < Created[d]
      BY <1>8, <1>10, <1>14, <1>15, <2>1, <2>5
    <3> QED
      BY <1>8, <1>10, <2>1, <3>1 DEF Precedes, Newer
  <2> QED
    BY <2>3, <2>4, <2>5
<1> QED
  BY <1>8, <1>11, <1>15, <1>16 DEF d

\* The newest candidate is emitted.
LEMMA PopStep == QueryInv /\ Pop => QueryInv' /\ (ExactInv => ExactInv')
<1> SUFFICES ASSUME QueryInv, Pop PROVE QueryInv' /\ (ExactInv => ExactInv')
  OBVIOUS
<1>1. /\ pc = "merge" /\ pending = {}
      /\ UNCHANGED <<database, client, boundary, rounds, valid, deepest, resume, open, again>>
  BY DEF Pop
<1>2. PICK p \in Live :
        /\ \A q \in Live : ~Newer(HeadOf(q)[2], HeadOf(p)[2])
        /\ IF Len(merged) + 1 >= EmitLimit
           THEN Merged(Append(merged, HeadOf(p)[2])) /\ UNCHANGED <<buffer, pending>>
           ELSE /\ merged' = Append(merged, HeadOf(p)[2])
                /\ buffer' = [buffer EXCEPT ![p] = @ \ {HeadOf(p)}]
                /\ pending' = IF buffer[p] = {HeadOf(p)} /\ p \in open THEN {p} ELSE {}
                /\ UNCHANGED <<pc, hydrated>>
  BY DEF Pop
<1> DEFINE h == HeadOf(p)
           e == h[2]
<1>3. TypeOK /\ MergedInv /\ StreamInv /\ CompleteInv /\ RoundInv /\ InRound
  BY <1>1 DEF QueryInv, InRound
<1>4. /\ h \in buffer[p] /\ e \in Events /\ lev[e] # 0 /\ ~AtFloor(e)
      /\ \A q \in Live : \A y \in buffer[q] : y[1] = q => Precedes(e, y[2])
      /\ \A q \in open : Bound(q) <= Created[e]
      /\ \A d : Stays(d) /\ Under(d, boundary) => d \in Range(merged) \/ Precedes(e, d)
  BY <1>1, <1>2, PopFacts
<1> DEFINE s == Append(merged, e)
           n == Len(merged)
<1> HIDE DEF h
<1>5. /\ s \in Seq(Events) /\ Len(s) = n + 1 /\ s[n + 1] = e /\ n \in Nat
      /\ \A i \in 1 .. n : s[i] = merged[i] /\ merged[i] \in Range(merged)
      /\ \A x : x \in Range(s) <=> x \in Range(merged) \/ x = e
      /\ \A x : x \in Range(merged) <=> \E i \in 1 .. n : merged[i] = x
  <2>1. merged \in Seq(Events) /\ n \in Nat
    BY <1>3 DEF TypeOK
  <2> QED
    BY <1>4, <2>1, AppendRange, RangeProperties
<1> HIDE DEF e, s, n
<1>6. EmitLimit \in Nat /\ n < EmitLimit /\ p \in ScanKeys /\ buffer \in [ScanKeys -> SUBSET IndexEntries]
  BY <1>1, <1>3, QueryConstants DEF EmitLimit, RoundInv, n, Live, TypeOK, IndexEntries
<1>7. \A x \in Range(s) : lev[x] # 0 /\ ~AtFloor(x)
  BY <1>3, <1>4, <1>5 DEF MergedInv
<1>8. ASSUME NEW d, Stays(d), Under(d, boundary), NEW k \in 1 .. Len(s), \A i \in 1 .. k : s[i] # d
      PROVE  Newer(s[k], d)
  <2>1. CASE k \in 1 .. n
    <3>1. \A i \in 1 .. k : i \in 1 .. n /\ merged[i] # d
      BY <1>5, <1>8, <2>1
    <3>2. Newer(merged[k], d)
      BY <1>3, <1>8, <2>1, <3>1 DEF MergedInv, n
    <3> QED
      BY <1>5, <2>1, <3>2
  <2>2. CASE k = n + 1
    <3>1. \A i \in 1 .. n : merged[i] # d
      BY <1>5, <1>8, <2>2
    <3>2. d \notin Range(merged) /\ s[k] = e /\ e # d
      BY <1>5, <1>8, <2>2, <3>1
    <3> QED
      BY <1>4, <1>8, <3>2 DEF Precedes
  <2> QED
    BY <1>5, <2>1, <2>2
<1>9. ASSUME ExactInv
      PROVE  /\ \A x \in Range(s) : Scanned(x) /\ Under(x, boundary)
             /\ \A i, j \in 1 .. Len(s) : i < j => Precedes(s[i], s[j])
             /\ \A q \in ScanKeys : \A y \in buffer[q] : \A m \in Range(s) : Precedes(m, y[2])
             /\ \A q \in open : \A m \in Range(s) : Bound(q) <= Created[m]
  <2>0. ExactMerged /\ ExactStream
    BY <1>9 DEF ExactInv
  <2>1. /\ Scanned(e) /\ Under(e, boundary)
        /\ \A m \in Range(merged) : Precedes(m, e)
    BY <1>1, <1>4, <1>6, <2>0 DEF ExactStream, e
  <2>2. \A x \in Range(s) : Scanned(x) /\ Under(x, boundary)
    BY <1>3, <1>5, <2>0, <2>1 DEF ExactMerged
  <2>3. ASSUME NEW i \in 1 .. n + 1, NEW j \in 1 .. n + 1, i < j PROVE Precedes(s[i], s[j])
    <3>1. i \in 1 .. n
      BY <1>5, <2>3
    <3>2. CASE j \in 1 .. n
      BY <1>3, <1>5, <2>0, <2>3, <3>1, <3>2 DEF ExactMerged, n
    <3>3. CASE j = n + 1
      BY <1>5, <2>1, <3>1, <3>3
    <3> QED
      BY <1>5, <3>2, <3>3
  <2>4. \A q \in ScanKeys : \A y \in buffer[q] : Precedes(e, y[2])
    BY <1>1, <1>4, <2>0 DEF ExactStream, Live
  <2>5. \A q \in ScanKeys : \A y \in buffer[q] : \A m \in Range(s) : Precedes(m, y[2])
    BY <1>1, <1>5, <2>0, <2>4 DEF ExactStream
  <2>6. \A q \in open : \A m \in Range(s) : Bound(q) <= Created[m]
    BY <1>1, <1>4, <1>5, <2>0 DEF ExactStream
  <2> QED
    BY <1>5, <2>2, <2>3, <2>5, <2>6
<1>10. CASE Len(merged) + 1 >= EmitLimit
  <2>1. Merged(s) /\ UNCHANGED <<buffer, pending>>
    BY <1>2, <1>10 DEF s, e, h
  <2>2. Len(s) <= EmitLimit /\ ~(Len(s) < EmitLimit)
    BY <1>5, <1>6, <1>10 DEF n
  <2>3. buffer' \in [ScanKeys -> SUBSET IndexEntries] /\ pending' \subseteq ScanKeys
    BY <1>1, <1>6, <2>1
  <2>4. \A d : Stays(d) /\ Under(d, boundary) =>
           /\ \A k \in 1 .. Len(s) : (\A i \in 1 .. k : s[i] # d) => Newer(s[k], d)
           /\ d \in Range(s) \/ ~(Len(s) < EmitLimit)
    BY <1>8, <2>2
  <2> HIDE DEF QueryInv, ExactInv
  <2>5. QueryInv'
    BY <1>1, <1>5, <1>7, <2>1, <2>2, <2>3, <2>4, MergeEnds
  <2>6. ASSUME ExactInv PROVE ExactInv'
    BY <1>1, <1>5, <1>7, <1>9, <2>1, <2>2, <2>3, <2>4, <2>6, MergeEnds
  <2> QED
    BY <2>5, <2>6
<1>11. CASE ~(Len(merged) + 1 >= EmitLimit)
  <2>1. /\ merged' = s /\ pc' = pc /\ hydrated' = hydrated
        /\ buffer' = [buffer EXCEPT ![p] = @ \ {h}]
        /\ pending' = IF buffer[p] = {h} /\ p \in open THEN {p} ELSE {}
    BY <1>2, <1>11 DEF s, e, h
  <2>2. UNCHANGED <<stored, lev, inserts, deletes, stable, pc, filter, cursor, page, delivered,
                    boundary, rounds, valid, deepest, resume, open, again, hydrated>>
    BY <1>1, <2>1 DEF database, client
  <2>3. /\ \A x, y : (Newer(x, y)' <=> Newer(x, y)) /\ (Precedes(x, y)' <=> Precedes(x, y))
        /\ \A x, b : Under(x, b)' <=> Under(x, b)
        /\ \A x : Scanned(x)' <=> Scanned(x)
    BY <2>2, Frame
  <2>4. /\ ScanKeys' = ScanKeys /\ IndexEntries' = IndexEntries /\ Values' = Values
        /\ \A v : RankOf(v)' = RankOf(v)
        /\ \A k, l : Above(k, l)' <=> Above(k, l)
        /\ \A x : Matches(x)' <=> Matches(x)
    BY <2>2, FilterFrame
  <2>5. /\ \A q : Bound(q)' = Bound(q)
        /\ Start' = Start /\ (InRound' <=> InRound) /\ EmitLimit' = EmitLimit
        /\ \A x : AtFloor(x)' <=> AtFloor(x)
        /\ \A x : Key(x)' = Key(x)
        /\ \A x : Stays(x)' <=> Stays(x)
        /\ NotAbove(boundary, cursor)' <=> NotAbove(boundary, cursor)
    BY <2>2, <2>4 DEF Bound, Start, InRound, EmitLimit, AtFloor, Key, Stays, NotAbove
  <2>6. /\ buffer' \in [ScanKeys -> SUBSET IndexEntries] /\ buffer'[p] = buffer[p] \ {h}
        /\ \A q \in ScanKeys \ {p} : buffer'[q] = buffer[q]
    BY <1>6, <2>1
  <2>7. \A q \in ScanKeys : \A y : /\ y \in buffer'[q] => y \in buffer[q]
                                   /\ y \in buffer[q] => y \in buffer'[q] \/ y = h
    BY <2>6
  <2>8. Len(s) < EmitLimit
    BY <1>5, <1>6, <1>11 DEF n
  <2>9. TypeOK'
    <3>1. pending' \subseteq ScanKeys /\ Len(s) <= EmitLimit /\ hydrated \in 0 .. Len(s)
      BY <1>1, <1>3, <1>5, <1>6, <2>1, <2>8 DEF RoundInv
    <3>2. buffer' \in [ScanKeys -> SUBSET EntriesOf(SelectIndex(filter), Events)]
      BY <2>6 DEF IndexEntries
    <3> QED
      BY <1>3, <1>5, <2>1, <2>2, <2>4, <2>5, <3>1, <3>2 DEF TypeOK
  <2>10. Numbered' /\ ClientInv'
    BY <2>2 DEF QueryInv, Numbered, ClientInv
  <2>11. StreamInv'
    <3>1. pending' \subseteq open /\ ~again
      BY <1>1, <1>3, <2>1 DEF StreamInv
    <3>2. \A q \in open : q \in pending' <=> buffer'[q] = {}
      <4>1. \A q \in open : buffer[q] # {} /\ q \in ScanKeys
        BY <1>1, <1>3 DEF StreamInv, TypeOK
      <4>2. buffer[p] = {h} <=> buffer'[p] = {}
        BY <1>4, <2>6
      <4> QED
        BY <2>1, <2>6, <4>1, <4>2
    <3>3. \A q \in ScanKeys : resume[q].val = q \/ RankOf(resume[q].val) < RankOf(q)
      BY <1>1, <1>3 DEF StreamInv
    <3>4. \A q \in ScanKeys : \A x \in buffer'[q] :
            /\ lev[x[2]] # 0 /\ ~AtFloor(x[2]) /\ ~Above(resume[q], Key(x))
            /\ x[1] = q \/ RankOf(x[1]) < RankOf(q)
      BY <1>1, <1>3, <2>7 DEF StreamInv
    <3>5. \A q \in ScanKeys : \A x \in buffer'[q] : ~Above(resume[q], Key(x))'
      BY <2>2, <2>4, <2>5, <3>4
    <3> QED
      BY <2>2, <2>4, <2>5, <3>1, <3>2, <3>3, <3>4, <3>5 DEF StreamInv
  <2>12. CompleteInv'
    <3> SUFFICES ASSUME NEW d, Stays(d), Under(d, boundary),
                        NEW q \in ScanKeys, q \in IndexKeys(SelectIndex(filter), d)
                 PROVE  d \in Range(s) \/ <<q, d>> \in buffer'[q] \/ (q \in open /\ Created[d] < Bound(q))
      BY <2>1, <2>2, <2>3, <2>4, <2>5 DEF CompleteInv
    <3>1. d \in Range(merged) \/ <<q, d>> \in buffer[q] \/ (q \in open /\ Created[d] < Bound(q))
      BY <1>1, <1>3 DEF CompleteInv
    <3>2. <<q, d>> = h => d = e
      BY DEF e
    <3> QED
      BY <1>5, <2>7, <3>1, <3>2
  <2>13. MergedInv'
    BY <1>7, <1>8, <2>1, <2>2, <2>3, <2>5 DEF MergedInv
  <2>14. PageInv'
    BY <2>2, <2>3, <2>5 DEF QueryInv, PageInv
  <2>15. RoundInv'
    BY <1>1, <1>3, <2>1, <2>2, <2>5, <2>8 DEF RoundInv
  <2>16. QueryInv'
    BY <2>9, <2>10, <2>11, <2>12, <2>13, <2>14, <2>15 DEF QueryInv
  <2>17. ASSUME ExactInv PROVE ExactInv'
    <3>0. ExactClient /\ ExactPage /\ ExactStream
      BY <2>17 DEF ExactInv
    <3>1. ExactClient'
      BY <2>2, <2>3, <3>0 DEF ExactClient
    <3>2. ExactPage'
      BY <2>2, <2>3, <2>4, <2>5, <3>0 DEF ExactPage
    <3>3. ExactMerged'
      BY <1>9, <2>1, <2>2, <2>3, <2>17 DEF ExactMerged
    <3>4. ExactStream'
      BY <1>1, <1>9, <2>1, <2>2, <2>3, <2>4, <2>5, <2>7, <2>17, <3>0 DEF ExactStream
    <3>5. ExactHydrate'
      BY <1>1, <2>2 DEF ExactHydrate
    <3> QED
      BY <3>1, <3>2, <3>3, <3>4, <3>5 DEF ExactInv
  <2> QED
    BY <2>16, <2>17
<1> QED
  BY <1>10, <1>11


\* An event is put on the page, or passed over.
LEMMA HydrateStep == QueryInv /\ Hydrate => QueryInv' /\ (ExactInv => ExactInv')
<1> SUFFICES ASSUME QueryInv, Hydrate PROVE QueryInv' /\ (ExactInv => ExactInv')
  OBVIOUS
<1> DEFINE h == hydrated + 1
           e == merged[h]
<1>1. /\ pc = "hydrate" /\ hydrated < Len(merged) /\ hydrated' = hydrated + 1
      /\ valid' = IF Taken(e) THEN Append(valid, e) ELSE valid
      /\ UNCHANGED <<database, pc, client, boundary, rounds, deepest, resume, open, pending,
                     again, buffer, merged>>
  BY DEF Hydrate
<1>2. UNCHANGED <<stored, lev, inserts, deletes, stable, pc, filter, cursor, page, delivered,
                  boundary, rounds, deepest, resume, open, pending, again, buffer, merged>>
  BY <1>1 DEF database, client
<1>3. TypeOK /\ MergedInv /\ PageInv /\ RoundInv /\ InRound
  BY <1>1 DEF QueryInv, InRound
<1>4. /\ merged \in Seq(Events) /\ valid \in Seq(Events) /\ lev \in [Events -> Nat]
      /\ Len(merged) \in Nat /\ hydrated \in 0 .. Len(merged) /\ Len(valid) \in Nat /\ Len(valid) <= Limit
      /\ boundary \in Cursors
  BY <1>3 DEF TypeOK
<1>5. /\ h \in 1 .. Len(merged) /\ e \in Events /\ e \in Range(merged)
      /\ \A i : i \in 1 .. h <=> i \in 1 .. hydrated \/ i = h
  BY <1>1, <1>4, RangeProperties
<1> HIDE DEF h
<1>6. lev[e] # 0 /\ \A d : Stays(d) /\ Under(d, boundary) /\ (\A i \in 1 .. h : merged[i] # d) => Newer(e, d)
  BY <1>3, <1>5 DEF MergedInv
<1>7. /\ Taken(e) <=> /\ Under(e, boundary) /\ \A i \in 1 .. hydrated : merged[i] # e
                      /\ Len(valid) < Limit /\ e \notin Unreadable /\ Residual(filter, e)
      /\ Limit \in Nat
  <2>1. BelowBoundary(e) <=> Under(e, boundary)
    BY DEF BelowBoundary, Under
  <2>2. e \notin {merged[i] : i \in 1 .. hydrated} <=> \A i \in 1 .. hydrated : merged[i] # e
    OBVIOUS
  <2> QED
    BY <2>1, <2>2, QueryConstants DEF Taken
<1> HIDE DEF e
<1>8. /\ valid' \in Seq(Events) /\ Len(valid') <= Limit
      /\ \A x : x \in Range(valid') <=> x \in Range(valid) \/ (Taken(e) /\ x = e)
      /\ ~Taken(e) => valid' = valid
      /\ Taken(e) => /\ Len(valid') = Len(valid) + 1 /\ valid'[Len(valid) + 1] = e
                     /\ \A i \in 1 .. Len(valid) : valid'[i] = valid[i]
  <2>1. CASE Taken(e)
    BY <1>1, <1>4, <1>5, <1>7, <2>1, AppendRange DEF e
  <2>2. CASE ~Taken(e)
    BY <1>1, <1>4, <2>2 DEF e
  <2> QED
    BY <2>1, <2>2
<1>9. /\ \A x, y : (Newer(x, y)' <=> Newer(x, y)) /\ (Precedes(x, y)' <=> Precedes(x, y))
      /\ \A x, b : Under(x, b)' <=> Under(x, b)
      /\ \A x : Scanned(x)' <=> Scanned(x)
  BY <1>2, Frame
<1>10. /\ ScanKeys' = ScanKeys /\ IndexEntries' = IndexEntries /\ Values' = Values
       /\ \A x : Matches(x)' <=> Matches(x)
  BY <1>2, FilterFrame
<1>11. /\ InRound' /\ EmitLimit' = EmitLimit /\ (Exhausted' <=> Exhausted)
       /\ \A x : AtFloor(x)' <=> AtFloor(x)
       /\ \A x : Stays(x)' <=> Stays(x)
       /\ NotAbove(boundary, cursor)' <=> NotAbove(boundary, cursor)
  BY <1>1, <1>2, <1>10 DEF InRound, EmitLimit, Exhausted, AtFloor, Stays, NotAbove
<1>12. TypeOK'
  <2>1. hydrated' \in 0 .. Len(merged)
    BY <1>1, <1>4
  <2> QED
    BY <1>2, <1>3, <1>8, <1>10, <1>11, <2>1 DEF TypeOK
<1>13. Numbered' /\ ClientInv'
  BY <1>2 DEF QueryInv, Numbered, ClientInv
<1>14. StreamInv' /\ CompleteInv'
  BY <1>1, <1>2 DEF StreamInv, CompleteInv
<1>15. MergedInv'
  BY <1>2, <1>3, <1>9, <1>11 DEF MergedInv
<1>16. PageInv'
  <2>1. \A v \in Range(valid) : lev[v] # 0
    BY <1>3 DEF PageInv
  <2>2. ASSUME NEW d, Stays(d), Under(d, cursor), d \notin Range(valid')
        PROVE  Under(d, boundary) /\ \A v \in Range(valid') : Newer(v, d)
    <3>1. d \notin Range(valid) /\ (Taken(e) => d # e)
      BY <1>8, <2>2
    <3>2. Under(d, boundary) /\ \A v \in Range(valid) : Newer(v, d)
      BY <1>3, <2>2, <3>1 DEF PageInv
    <3>3. ASSUME Taken(e) PROVE Newer(e, d)
      <4>1. \A i \in 1 .. hydrated : merged[i] # d
        <5>1. Len(valid) # Limit
          BY <1>4, <1>7, <3>3
        <5> QED
          BY <1>1, <1>3, <2>2, <3>1, <3>2, <5>1 DEF RoundInv
      <4>2. \A i \in 1 .. h : merged[i] # d
        BY <1>5, <3>1, <3>3, <4>1 DEF e
      <4> QED
        BY <1>6, <2>2, <3>2, <4>2
    <3> QED
      BY <1>8, <3>2, <3>3
  <2> QED
    BY <1>2, <1>6, <1>8, <1>9, <1>11, <2>1, <2>2 DEF PageInv
<1>17. RoundInv'
  <2>1. ASSUME NEW d, Stays(d), Under(d, boundary), NEW i \in 1 .. h, merged[i] = d
        PROVE  d \in Range(valid') \/ Len(valid') = Limit
    <3>1. \A j \in 1 .. hydrated : merged[j] = d => d \in Range(valid) \/ Len(valid) = Limit
      BY <1>1, <1>3, <2>1 DEF RoundInv
    <3>2. CASE \E j \in 1 .. hydrated : merged[j] = d
      <4>1. d \in Range(valid) \/ Len(valid) = Limit
        BY <3>1, <3>2
      <4>2. Len(valid) = Limit => valid' = valid
        BY <1>4, <1>7, <1>8
      <4> QED
        BY <1>8, <4>1, <4>2
    <3>3. CASE \A j \in 1 .. hydrated : merged[j] # d
      <4>1. d = e
        BY <1>5, <2>1, <3>3 DEF e
      <4>2. e \notin Unreadable /\ Residual(filter, e)
        BY <2>1, <4>1 DEF Stays, Matches
      <4>3. CASE Len(valid) < Limit
        BY <1>7, <1>8, <2>1, <3>3, <4>1, <4>2, <4>3
      <4>4. CASE ~(Len(valid) < Limit)
        BY <1>4, <1>7, <1>8, <4>4
      <4> QED
        BY <4>3, <4>4
    <3> QED
      BY <3>2, <3>3
  <2>2. \A d : Stays(d) /\ Under(d, boundary) => d \in Range(merged) \/ ~Exhausted
    BY <1>1, <1>3 DEF RoundInv
  <2> QED
    BY <1>1, <1>2, <1>9, <1>11, <2>1, <2>2 DEF RoundInv, h
<1>18. QueryInv'
  BY <1>12, <1>13, <1>14, <1>15, <1>16, <1>17 DEF QueryInv
<1>19. ASSUME ExactInv PROVE ExactInv'
  <2>0. ExactClient /\ ExactPage /\ ExactMerged /\ ExactHydrate
    BY <1>19 DEF ExactInv
  <2>1. Scanned(e) /\ Under(e, boundary)
    BY <1>3, <1>5, <2>0 DEF ExactMerged
  <2>2. ASSUME Taken(e), NEW v \in Range(valid) PROVE Newer(v, e)
    <3>1. Precedes(v, e)
      BY <1>1, <1>4, <1>5, <2>0 DEF ExactHydrate, h, e
    <3>2. v # e
      BY <1>1, <1>7, <2>0, <2>1, <2>2 DEF ExactHydrate
    <3> QED
      BY <3>1, <3>2 DEF Precedes
  <2>3. ExactClient'
    BY <1>2, <1>9, <2>0 DEF ExactClient
  <2>4. ExactPage'
    <3>1. \A i, j \in 1 .. Len(valid') : i < j => Newer(valid'[i], valid'[j])
      <4>1. \A i \in 1 .. Len(valid) : valid[i] \in Range(valid)
        BY <1>4, RangeProperties
      <4>2. \A i, j \in 1 .. Len(valid) : i < j => Newer(valid[i], valid[j])
        BY <1>3, <2>0 DEF ExactPage
      <4>3. CASE Taken(e)
        <5> SUFFICES ASSUME NEW i \in 1 .. Len(valid) + 1, NEW j \in 1 .. Len(valid) + 1, i < j
                     PROVE  Newer(valid'[i], valid'[j])
          BY <1>8, <4>3
        <5>1. i \in 1 .. Len(valid) /\ (j \in 1 .. Len(valid) \/ j = Len(valid) + 1)
          BY <1>4
        <5> QED
          BY <1>8, <2>2, <4>1, <4>2, <4>3, <5>1
      <4>4. CASE ~Taken(e)
        BY <1>8, <4>2, <4>4
      <4> QED
        BY <4>3, <4>4
    <3>2. ASSUME Taken(e) PROVE Matches(e) /\ Under(e, cursor)
      <4>1. Matches(e)
        BY <1>7, <2>1, <3>2 DEF Matches, Scanned
      <4>2. cursor \in Cursors
        <5>1. cursor # End
          BY <1>1 DEF QueryInv, ClientInv
        <5> QED
          BY <1>3, <5>1 DEF TypeOK
      <4>3. NotAbove(boundary, cursor)
        BY <1>3, <2>0 DEF ExactPage
      <4> QED
        BY <1>4, <1>5, <2>1, <4>1, <4>2, <4>3, Order
    <3>3. \A x \in Range(valid') : Scanned(x) /\ Matches(x) /\ Under(x, cursor)
      BY <1>3, <1>8, <2>0, <2>1, <3>2 DEF ExactPage
    <3> QED
      BY <1>2, <1>3, <1>9, <1>10, <1>11, <2>0, <3>1, <3>3 DEF ExactPage
  <2>5. ExactMerged'
    BY <1>2, <1>3, <1>9, <2>0 DEF ExactMerged
  <2>6. ExactStream'
    BY <1>1, <1>2 DEF ExactStream
  <2>7. ExactHydrate'
    <3>1. ASSUME NEW v \in Range(valid'), NEW j \in 1 .. Len(merged), j > h
          PROVE  Precedes(v, merged[j])
      <4>1. j > hydrated
        BY <1>4, <3>1 DEF h
      <4>2. v = e => Precedes(v, merged[j])
        BY <1>3, <1>5, <2>0, <3>1 DEF ExactMerged, e
      <4> QED
        BY <1>1, <1>8, <2>0, <4>1, <4>2 DEF ExactHydrate
    <3>2. ASSUME NEW v \in Range(valid')
          PROVE  ~Under(v, boundary) \/ \E i \in 1 .. h : merged[i] = v
      <4>1. v = e => \E i \in 1 .. h : merged[i] = v
        BY <1>5 DEF e
      <4> QED
        BY <1>1, <1>5, <1>8, <2>0, <4>1 DEF ExactHydrate
    <3> QED
      BY <1>1, <1>2, <1>9, <3>1, <3>2 DEF ExactHydrate, h
  <2> QED
    BY <2>3, <2>4, <2>5, <2>6, <2>7 DEF ExactInv
<1> QED
  BY <1>18, <1>19

\* A query that fails leaves the client with what it had.
LEMMA HydrateFailsStep == QueryInv /\ HydrateFails => QueryInv' /\ (ExactInv => ExactInv')
<1> SUFFICES ASSUME QueryInv, HydrateFails PROVE QueryInv' /\ (ExactInv => ExactInv')
  OBVIOUS
<1>1. pc = "hydrate" /\ pc' = "client"
  BY DEF HydrateFails
<1>2. /\ UNCHANGED <<stored, lev, inserts, deletes, stable, filter, cursor, page, delivered,
                     boundary, rounds, valid, deepest>>
      /\ UNCHANGED <<resume, open, pending, again, buffer, merged, hydrated>>
  BY DEF HydrateFails, database, client, round
<1>3. ScanKeys' = ScanKeys /\ Values' = Values /\ EmitLimit' = EmitLimit
  BY <1>2, FilterFrame DEF EmitLimit
<1>4. \A x, y : Newer(x, y)' <=> Newer(x, y)
  BY <1>2, Frame
<1>5. TypeOK'
  BY <1>1, <1>2, <1>3 DEF QueryInv, TypeOK
<1>6. Numbered' /\ ClientInv'
  BY <1>1, <1>2 DEF QueryInv, Numbered, ClientInv
<1>7. StreamInv' /\ CompleteInv' /\ MergedInv' /\ PageInv' /\ RoundInv'
  BY <1>1 DEF StreamInv, CompleteInv, MergedInv, PageInv, RoundInv, InRound
<1>8. ASSUME ExactInv PROVE ExactInv'
  <2>1. ExactClient'
    BY <1>2, <1>4, <1>8 DEF ExactInv, ExactClient
  <2>2. ExactPage' /\ ExactMerged' /\ ExactStream' /\ ExactHydrate'
    BY <1>1 DEF ExactPage, ExactMerged, ExactStream, ExactHydrate, InRound
  <2> QED
    BY <2>1, <2>2 DEF ExactInv
<1> QED
  BY <1>5, <1>6, <1>7, <1>8 DEF QueryInv

\* A merge that was cut short has results, and the last of them is not at the boundary: what
\* stays and was not among them is below it.
LEMMA LastResult ==
  ASSUME QueryInv, pc = "hydrate", ~Exhausted
  PROVE  /\ LastMerged \in Cursors /\ LastMerged # Top /\ LastMerged # End /\ LastMerged # boundary
         /\ \A e : Stays(e) /\ Under(e, boundary) /\ e \notin Range(merged) => Under(e, LastMerged)
         /\ \E x \in Events : LastMerged = Pos(x) /\ (ExactInv => Scanned(x) /\ Under(x, cursor))
         /\ ExactInv => \A v \in Range(valid) : ~Under(v, LastMerged)
<1> DEFINE n == Len(merged)
           m == merged[n]
<1>1. TypeOK /\ MergedInv /\ InRound
  BY DEF QueryInv, InRound
<1>2. /\ merged \in Seq(Events) /\ n \in Nat /\ lev \in [Events -> Nat] /\ boundary \in Cursors
      /\ valid \in Seq(Events) /\ hydrated \in 0 .. n
  BY <1>1 DEF TypeOK
<1>3. EmitLimit \in Nat \ {0}
  BY QueryConstants DEF EmitLimit
<1>4. n \in 1 .. n /\ merged # <<>>
  BY <1>2, <1>3 DEF Exhausted
<1>5. /\ m \in Events /\ m \in Range(merged)
      /\ \A x : x \in Range(merged) <=> \E i \in 1 .. n : merged[i] = x
      /\ \A x \in Range(valid) : x \in Events
  BY <1>2, <1>4, RangeProperties
<1>6. LastMerged = Pos(m)
  BY <1>4 DEF LastMerged
<1> HIDE DEF m, n
<1>7. Pos(m) \in Cursors /\ Pos(m) # Top /\ Pos(m) # End /\ Pos(m).ts = Created[m] /\ Pos(m).lev = lev[m]
  BY <1>2, <1>5, Order DEF Pos
<1>8. Pos(m) # boundary
  <2>1. ~AtFloor(m)
    BY <1>1, <1>5 DEF MergedInv
  <2>2. lev[m] \in Nat
    BY <1>2, <1>5
  <2> QED
    BY <1>7, <2>1, <2>2 DEF AtFloor
<1>9. ASSUME NEW e, Stays(e), Under(e, boundary), e \notin Range(merged) PROVE Under(e, Pos(m))
  <2>1. \A i \in 1 .. n : merged[i] # e
    BY <1>5, <1>9
  <2>2. Newer(m, e)
    BY <1>1, <1>4, <1>9, <2>1 DEF MergedInv, n, m
  <2>3. e \in Events
    BY <1>1, <1>9 DEF TypeOK, Stays
  <2> QED
    BY <1>2, <1>5, <2>2, <2>3, Order
<1>10. ASSUME ExactInv
       PROVE  Scanned(m) /\ Under(m, cursor) /\ \A v \in Range(valid) : ~Under(v, Pos(m))
  <2>0. ExactPage /\ ExactMerged /\ ExactHydrate
    BY <1>10 DEF ExactInv
  <2>1. Scanned(m) /\ Under(m, boundary)
    BY <1>1, <1>5, <2>0 DEF ExactMerged
  <2>2. cursor \in Cursors
    <3>1. cursor # End
      BY DEF QueryInv, ClientInv
    <3> QED
      BY <1>1, <3>1 DEF TypeOK
  <2>3. Under(m, cursor)
    <3>1. NotAbove(boundary, cursor)
      BY <1>1, <2>0 DEF ExactPage
    <3> QED
      BY <1>2, <1>5, <2>1, <2>2, <3>1, Order
  <2>4. ASSUME NEW v \in Range(valid) PROVE ~Under(v, Pos(m))
    <3>1. v \in Events
      BY <1>5
    <3>2. ~Under(v, boundary) => Newer(v, m)
      BY <1>2, <1>5, <2>1, <3>1, Order
    <3>3. ASSUME NEW i \in 1 .. hydrated, merged[i] = v PROVE Precedes(v, m)
      <4>1. i \in 1 .. n /\ (i < n \/ i = n)
        BY <1>2
      <4> QED
        BY <1>1, <1>4, <2>0, <3>3, <4>1 DEF ExactMerged, Precedes, m, n
    <3>4. Precedes(v, m)
      BY <2>0, <3>2, <3>3 DEF ExactHydrate, Precedes
    <3>5. ~Newer(m, v)
      BY <1>2, <1>5, <3>1, <3>4, NewerOrder
    <3> QED
      BY <1>2, <1>5, <3>1, <3>5, Order
  <2> QED
    BY <2>1, <2>3, <2>4
<1> QED
  BY <1>5, <1>6, <1>7, <1>8, <1>9, <1>10

\* What stays, is below the cursor and is on no page yet is below the last result, or the page is
\* full, or there were no more results.
LEMMA LeftBelow ==
  ASSUME QueryInv, pc = "hydrate", hydrated = Len(merged), Len(valid) # Limit,
         NEW e, Stays(e), Under(e, cursor), e \notin Range(valid)
  PROVE  ~Exhausted /\ Under(e, LastMerged)
<1>1. TypeOK /\ PageInv /\ RoundInv /\ InRound
  BY DEF QueryInv, InRound
<1>2. Under(e, boundary)
  BY <1>1 DEF PageInv
<1>3. e \notin Range(merged)
  <2>1. merged \in Seq(Events)
    BY <1>1 DEF TypeOK
  <2>2. \A i \in 1 .. Len(merged) : merged[i] # e
    BY <1>1, <1>2 DEF RoundInv
  <2> QED
    BY <2>1, <2>2, RangeProperties
<1>4. ~Exhausted
  BY <1>1, <1>2, <1>3 DEF RoundInv
<1> QED
  BY <1>2, <1>3, <1>4, LastResult

\* The next round begins below the last result.
LEMMA NextRoundStep == QueryInv /\ NextRound => QueryInv' /\ (ExactInv => ExactInv')
<1> SUFFICES ASSUME QueryInv, NextRound PROVE QueryInv' /\ (ExactInv => ExactInv')
  OBVIOUS
<1>1. /\ pc = "hydrate" /\ hydrated = Len(merged) /\ pc' = "merge"
      /\ rounds' = rounds + 1 /\ deepest' = Deepest /\ BeginRound(LastMerged)
      /\ UNCHANGED <<database, client, valid>>
      /\ ~(Len(valid) >= Limit) /\ ~Exhausted /\ ~(rounds + 1 >= MaxRounds) /\ ~NoProgress
  BY DEF NextRound, LastRound, Enough
<1>2. TypeOK /\ ClientInv /\ PageInv /\ InRound
  BY <1>1 DEF QueryInv, InRound
<1>3. /\ valid \in Seq(Events) /\ Len(valid) \in Nat /\ rounds \in 0 .. MaxRounds - 1 /\ cursor # End
      /\ lev \in [Events -> Nat] /\ cursor \in Cursors
  BY <1>1, <1>2 DEF TypeOK, ClientInv
<1>4. Limit \in Nat \ {0} /\ MaxRounds \in Nat \ {0}
  BY QueryConstants
<1>5. Len(valid') < Limit /\ valid' = valid /\ Len(valid) # Limit /\ rounds' \in 0 .. MaxRounds - 1
  BY <1>1, <1>3, <1>4
<1>6. /\ LastMerged \in Cursors /\ LastMerged # Top
      /\ \E x \in Events : LastMerged = Pos(x) /\ (ExactInv => Scanned(x) /\ Under(x, cursor))
      /\ ExactInv => \A v \in Range(valid) : ~Under(v, LastMerged)
  BY <1>1, LastResult
<1>7. Deepest = LastMerged
  BY <1>1, <1>6 DEF Deepest
<1>8. \A v \in Range(valid') : lev[v] # 0
  BY <1>2, <1>5 DEF PageInv
<1>9. \A e : Stays(e) /\ Under(e, cursor) =>
         e \in Range(valid') \/ (Under(e, LastMerged) /\ \A v \in Range(valid') : Newer(v, e))
  <2> SUFFICES ASSUME NEW e, Stays(e), Under(e, cursor), e \notin Range(valid)
               PROVE  Under(e, LastMerged) /\ \A v \in Range(valid) : Newer(v, e)
    BY <1>5
  <2>1. \A v \in Range(valid) : Newer(v, e)
    BY <1>2 DEF PageInv
  <2> QED
    BY <1>1, <1>5, <2>1, LeftBelow
<1> HIDE DEF QueryInv, ExactInv
<1>10. QueryInv'
  BY <1>1, <1>3, <1>5, <1>6, <1>7, <1>8, <1>9, BeginRoundStep
<1>11. ASSUME ExactInv PROVE ExactInv'
  <2>1. ExactPage
    BY <1>11 DEF ExactInv
  <2>2. PICK x \in Events : LastMerged = Pos(x) /\ Scanned(x) /\ Under(x, cursor)
    BY <1>6, <1>11
  <2>3. NotAbove(LastMerged, cursor) /\ LastMerged.ts = Created[x]
    BY <1>3, <2>2, Order
  <2>4. LastMerged.ts <= filter.until
    BY <2>2, <2>3 DEF Scanned, InTime
  <2>5. /\ \A i, j \in 1 .. Len(valid') : i < j => Newer(valid'[i], valid'[j])
        /\ \A e \in Range(valid') : Scanned(e) /\ Matches(e) /\ Under(e, cursor) /\ ~Under(e, LastMerged)
    BY <1>2, <1>5, <1>6, <1>11, <2>1 DEF ExactPage
  <2>6. UNCHANGED <<database, client>> /\ valid' \in Seq(Events)
    BY <1>1, <1>3, <1>5
  <2> QED
    BY <1>1, <1>3, <1>6, <1>11, <2>3, <2>4, <2>5, <2>6, BeginRoundExact
<1> QED
  BY <1>10, <1>11

\* The next cursor passes by nothing that stays; and it is the end, or the position of an event
\* below the old cursor and not above the page.
LEMMA NextCursorProperties ==
  ASSUME QueryInv, pc = "hydrate", hydrated = Len(merged)
  PROVE  /\ NextCursor \in Cursors \cup {End}
         /\ \A e : Stays(e) /\ Under(e, cursor) =>
               e \in Range(valid) \/ (NextCursor # End /\ Under(e, NextCursor))
         /\ ExactInv =>
               \/ NextCursor = End
               \/ \E x \in Events : /\ NextCursor = Pos(x) /\ Scanned(x) /\ Under(x, cursor)
                                    /\ \A v \in Range(valid) : ~Newer(x, v)
<1>1. TypeOK /\ PageInv /\ InRound
  BY DEF QueryInv, InRound
<1> DEFINE n == Len(valid)
           z == valid[n]
<1>2. valid \in Seq(Events) /\ n \in Nat /\ lev \in [Events -> Nat] /\ Limit \in Nat \ {0}
  BY <1>1, QueryConstants DEF TypeOK
<1>3. \A x : x \in Range(valid) <=> \E i \in 1 .. n : valid[i] = x
  BY <1>2, RangeProperties
<1>4. ASSUME ~Exhausted
      PROVE  /\ Deepest = LastMerged /\ LastMerged \in Cursors /\ LastMerged # Top /\ LastMerged # End
             /\ \E x \in Events : LastMerged = Pos(x) /\ (ExactInv => Scanned(x) /\ Under(x, cursor))
  <2>1. /\ LastMerged \in Cursors /\ LastMerged # Top /\ LastMerged # End /\ LastMerged # boundary
        /\ \E x \in Events : LastMerged = Pos(x) /\ (ExactInv => Scanned(x) /\ Under(x, cursor))
    BY <1>4, LastResult
  <2> QED
    BY <2>1 DEF Deepest, NoProgress
<1>5. CASE n = Limit \/ (valid # <<>> /\ ~Exhausted)
  <2>1. n \in 1 .. n /\ NextCursor = Pos(z)
    BY <1>2, <1>5 DEF NextCursor
  <2>2. z \in Range(valid) /\ z \in Events
    BY <1>2, <1>3, <2>1
  <2> HIDE DEF z, n
  <2>3. Top \in Cursors /\ Pos(z) \in Cursors /\ Pos(z) # End
    <3>1. Top \in Cursors
      BY DEF Cursors
    <3> QED
      BY <1>2, <2>2, <3>1, Order
  <2>4. ASSUME NEW e, Stays(e), Under(e, cursor), e \notin Range(valid) PROVE Under(e, Pos(z))
    <3>1. Newer(z, e) /\ e \in Events
      BY <1>1, <2>2, <2>4 DEF PageInv, TypeOK, Stays
    <3> QED
      BY <1>2, <2>2, <2>3, <3>1, Order
  <2>5. ASSUME ExactInv
        PROVE  Scanned(z) /\ Under(z, cursor) /\ \A v \in Range(valid) : ~Newer(z, v)
    <3>1. /\ Scanned(z) /\ Under(z, cursor)
          /\ \A i, j \in 1 .. Len(valid) : i < j => Newer(valid[i], valid[j])
      BY <1>1, <2>2, <2>5 DEF ExactInv, ExactPage
    <3>2. ASSUME NEW v \in Range(valid) PROVE ~Newer(z, v)
      <4>1. PICK i \in 1 .. n : valid[i] = v
        BY <1>3
      <4>2. i = n \/ i < n
        BY <1>2
      <4>3. Precedes(v, z)
        BY <2>1, <3>1, <4>1, <4>2 DEF Precedes, z, n
      <4>4. v \in Events
        BY <1>2, <4>1 DEF n
      <4> QED
        BY <1>2, <2>2, <4>3, <4>4, NewerOrder
    <3> QED
      BY <3>1, <3>2
  <2> QED
    BY <2>1, <2>2, <2>3, <2>4, <2>5
<1>6. CASE n # Limit /\ valid = <<>> /\ ~Exhausted
  <2>1. NextCursor = LastMerged
    BY <1>4, <1>6 DEF NextCursor
  <2>2. Range(valid) = {}
    BY <1>2, <1>3, <1>6
  <2> QED
    BY <1>4, <1>6, <2>1, <2>2, LeftBelow
<1>7. CASE n # Limit /\ Exhausted
  <2>1. NextCursor = End
    BY <1>7 DEF NextCursor
  <2> QED
    BY <1>7, <2>1, LeftBelow
<1> QED
  BY <1>5, <1>6, <1>7

\* A page is given to the client.
LEMMA ReturnPageStep == QueryInv /\ ReturnPage => QueryInv' /\ (ExactInv => ExactInv')
<1> SUFFICES ASSUME QueryInv, ReturnPage PROVE QueryInv' /\ (ExactInv => ExactInv')
  OBVIOUS
<1>1. /\ pc = "hydrate" /\ hydrated = Len(merged)
      /\ page' = valid /\ delivered' = delivered \cup Range(valid) /\ cursor' = NextCursor
      /\ pc' = IF NextCursor = End THEN "done" ELSE "client"
  BY DEF ReturnPage
<1>2. /\ UNCHANGED <<stored, lev, inserts, deletes, stable, filter, boundary, rounds, valid, deepest>>
      /\ UNCHANGED <<resume, open, pending, again, buffer, merged, hydrated>>
  BY DEF ReturnPage, database, round
<1>3. ScanKeys' = ScanKeys /\ Values' = Values /\ EmitLimit' = EmitLimit
  BY <1>2, FilterFrame DEF EmitLimit
<1>4. TypeOK /\ InRound
  BY <1>1 DEF QueryInv, InRound
<1>5. /\ NextCursor \in Cursors \cup {End}
      /\ ExactInv =>
            \/ NextCursor = End
            \/ \E x \in Events : NextCursor = Pos(x) /\ Scanned(x)
  BY <1>1, NextCursorProperties
<1>6. valid \in Seq(Events) /\ Range(valid) \subseteq Events
  BY <1>4, RangeProperties DEF TypeOK
<1>7. TypeOK'
  BY <1>1, <1>2, <1>3, <1>4, <1>5, <1>6 DEF TypeOK
<1>8. Numbered' /\ ClientInv'
  BY <1>1, <1>2 DEF QueryInv, Numbered, ClientInv
<1>9. StreamInv' /\ CompleteInv' /\ MergedInv' /\ PageInv' /\ RoundInv'
  BY <1>1 DEF StreamInv, CompleteInv, MergedInv, PageInv, RoundInv, InRound
<1>10. ASSUME ExactInv PROVE ExactInv'
  <2>1. ExactClient'
    <3>1. \A x, y : Newer(x, y)' <=> Newer(x, y)
      BY <1>2, Frame
    <3>2. \A i, j \in 1 .. Len(page') : i < j => Newer(page'[i], page'[j])
      BY <1>1, <1>4, <1>10 DEF ExactInv, ExactPage
    <3>3. \A e \in Range(page') : lev[e] # 0
      BY <1>1, <1>4 DEF QueryInv, PageInv
    <3>4. ASSUME NextCursor \in Position PROVE NextCursor.ts <= filter.until
      <4>1. NextCursor # End
        BY <3>4, QueryConstants DEF Position
      <4>2. PICK x \in Events : NextCursor = Pos(x) /\ Scanned(x)
        BY <1>5, <1>10, <4>1
      <4> QED
        BY <4>2 DEF Pos, Scanned, InTime
    <3> QED
      BY <1>1, <1>2, <3>1, <3>2, <3>3, <3>4 DEF ExactClient
  <2>2. ExactPage' /\ ExactMerged' /\ ExactStream' /\ ExactHydrate'
    BY <1>1 DEF ExactPage, ExactMerged, ExactStream, ExactHydrate, InRound
  <2> QED
    BY <2>1, <2>2 DEF ExactInv
<1> QED
  BY <1>7, <1>8, <1>9, <1>10 DEF QueryInv

\* Every step of strfry and of the engine preserves the invariant.
LEMMA QueryStep ==
  QueryInv /\ (ValuesApart => ExactInv) /\ [Next]_vars => QueryInv' /\ (ValuesApart => ExactInv)'
<1> SUFFICES ASSUME QueryInv, ValuesApart => ExactInv, [Next]_vars
             PROVE  QueryInv' /\ (ValuesApart => ExactInv)'
  OBVIOUS
<1>1. UNCHANGED filter
  BY DEF Next, Engine, Insert, Delete, BeginPage, RefillStream, Refill, Pop, HeapEmpty, Hydrate,
         HydrateFails, NextRound, ReturnPage, vars, client
<1>2. ValuesApart' <=> ValuesApart
  BY <1>1, FilterFrame
<1>3. CASE RefillStream
  <2> DEFINE p == CHOOSE q \in pending : TRUE
  <2>1. pc = "merge" /\ pending # {} /\ Refill(p, NextWindow(p))
    BY <1>3 DEF RefillStream
  <2>2. QueryInv' /\ (ExactInv /\ ValuesApart => ExactInv')
    BY <2>1, RefillStep
  <2> QED
    BY <1>2, <2>2
<1>4. CASE UNCHANGED vars
  <2>1. /\ stable' \subseteq stable /\ stored' \subseteq stored /\ stable' \subseteq stored'
        /\ deletes' \in 0 .. MaxDeletes
        /\ UNCHANGED <<lev, inserts, pc, client, boundary, rounds, valid, deepest, round>>
    BY <1>4 DEF vars, database, QueryInv, TypeOK
  <2>2. QueryInv' /\ (ExactInv => ExactInv')
    BY <2>1, Fewer
  <2> QED
    BY <1>2, <2>2
<1>5. CASE Insert \/ Delete \/ BeginPage \/ Pop \/ HeapEmpty \/ Hydrate \/ HydrateFails
           \/ NextRound \/ ReturnPage
  <2>1. QueryInv' /\ (ExactInv => ExactInv')
    BY <1>5, InsertStep, DeleteStep, BeginPageStep, PopStep, HeapEmptyStep, HydrateStep,
       HydrateFailsStep, NextRoundStep, ReturnPageStep
  <2> QED
    BY <1>2, <2>1
<1> QED
  BY <1>3, <1>4, <1>5 DEF Next, Engine

\* The invariant holds throughout.
LEMMA QueryInvariant == Spec => [](QueryInv /\ (ValuesApart => ExactInv))
  BY QueryInit, QueryStep, PTL DEF Spec

-----------------------------------------------------------------------------
(* Results                                                                 *)

\* Every variable of the engine keeps its type, whatever the prefix guard lets in: the page
\* never outgrows its limit, the rounds their budget and the results their cap, and a cursor
\* is never one that the stall of a round made up (execute_query_internal).
THEOREM TypeCorrect == Spec => []TypeOK
<1>1. QueryInv => TypeOK
  BY DEF QueryInv
<1> QED
  BY <1>1, QueryInvariant, PTL

\* No round that another may follow ends at its own boundary, also where entries of other
\* tags are among the results (it may then end above it): the floor keeps the boundary's
\* entry out of every stream.  So the step to the second before a stalled boundary, which would pass events by, is never
\* taken (execute_query_internal, refill_stream).
THEOREM RoundsGetOn == Spec => [](pc = "hydrate" /\ ~Exhausted => ~NoProgress)
<1>1. QueryInv => (pc = "hydrate" /\ ~Exhausted => ~NoProgress)
  BY LastResult DEF NoProgress
<1> QED
  BY <1>1, QueryInvariant, PTL

\* Below a cursor in the feed is below it here.
LEMMA FeedBelow ==
  ASSUME NEW e, NEW c \in Cursors \cup {End}
  PROVE  /\ Feed!Below(e, c) <=> c # End /\ Under(e, c)
         /\ UNCHANGED lev => (Feed!Below(e, c)' <=> Feed!Below(e, c))
<1>1. Top # End
  BY QueryConstants
<1> QED
  BY <1>1 DEF Feed!Below, Under

\* A walk that has not begun is a feed that has not begun.
LEMMA FeedInit == Init => Feed!Init
<1> SUFFICES ASSUME Init PROVE Feed!Init
  OBVIOUS
<1>1. QueryInv
  BY QueryInit
<1>2. Range(page) = {} /\ delivered = {} /\ cursor = Top
  BY DEF Init, Range
<1>3. \A e \in stable : e \in DOMAIN lev /\ lev[e] # 0
  BY <1>1 DEF QueryInv, TypeOK, Numbered
<1> QED
  BY <1>2, <1>3 DEF Feed!Init

\* The return of a page is a page of the feed.
LEMMA FeedPage == QueryInv /\ (ValuesApart => ExactInv) /\ ReturnPage => Feed!Page
<1> SUFFICES ASSUME QueryInv, ValuesApart => ExactInv, ReturnPage PROVE Feed!Page
  OBVIOUS
<1> DEFINE wanted == {e \in Events : Matches(e)}
<1>1. /\ pc = "hydrate" /\ hydrated = Len(merged) /\ page' = valid /\ cursor' = NextCursor
      /\ delivered' = delivered \cup Range(valid) /\ UNCHANGED <<lev, stable, filter>>
  BY DEF ReturnPage, database
<1>2. TypeOK /\ ClientInv /\ InRound
  BY <1>1 DEF QueryInv, InRound
<1>3. /\ cursor # End /\ cursor \in Cursors /\ NextCursor \in Cursors \cup {End}
      /\ lev \in [Events -> Nat] /\ valid \in Seq(Events)
  BY <1>1, <1>2, NextCursorProperties DEF ClientInv, TypeOK
<1>4. wanted' = wanted /\ (ValuesApart' <=> ValuesApart) /\ DOMAIN lev = Events
      /\ Range(valid) \subseteq Events
  BY <1>1, <1>3, FilterFrame, RangeProperties
<1>5. \A e : /\ Feed!Below(e, cursor) <=> Under(e, cursor)
             /\ Feed!Below(e, NextCursor) <=> NextCursor # End /\ Under(e, NextCursor)
  BY <1>3, FeedBelow
<1>6. \A e \in stable \cap wanted :
         Feed!Below(e, cursor) /\ ~Feed!Below(e, cursor') => e \in delivered'
  <2>1. \A e : Stays(e) /\ Under(e, cursor) =>
           e \in Range(valid) \/ (NextCursor # End /\ Under(e, NextCursor))
    BY <1>1, NextCursorProperties
  <2>2. \A e \in stable \cap wanted : Stays(e)
    BY DEF Stays
  <2> QED
    BY <1>1, <1>5, <2>1, <2>2
<1>7. ASSUME ValuesApart
      PROVE  /\ \A e \in Range(valid) :
                   e \in wanted /\ lev[e] # 0 /\ Feed!Below(e, cursor) /\ ~Feed!Below(e, cursor')
             /\ \A e \in DOMAIN lev : Feed!Below(e, cursor') => Feed!Below(e, cursor)
  <2>1. \A e \in Range(valid) : e \in wanted /\ lev[e] # 0 /\ Under(e, cursor)
    BY <1>2, <1>4, <1>7 DEF ExactInv, ExactPage, Scanned
  <2>2. ASSUME NextCursor # End
        PROVE  /\ \A e \in Range(valid) : ~Under(e, NextCursor)
               /\ \A e \in Events : Under(e, NextCursor) => Under(e, cursor)
    <3>1. PICK x \in Events : /\ NextCursor = Pos(x) /\ Under(x, cursor)
                              /\ \A v \in Range(valid) : ~Newer(x, v)
      BY <1>1, <1>7, <2>2, NextCursorProperties
    <3>2. \A e \in Events : Under(e, Pos(x)) <=> Newer(x, e)
      BY <1>3, Order
    <3>3. \A e \in Events : Newer(x, e) => Under(e, cursor)
      BY <1>3, <3>1, Order DEF Precedes
    <3> QED
      BY <1>4, <3>1, <3>2, <3>3
  <2> QED
    BY <1>1, <1>4, <1>5, <2>1, <2>2
<1>8. UNCHANGED <<wanted, ValuesApart, lev, stable>>
  <2>1. ValuesApart' = ValuesApart
    BY <1>1 DEF ValuesApart, StartsWith, ScanKeys
  <2> QED
    BY <1>1, <1>4, <2>1
<1>9. Range(page)' = Range(valid) /\ delivered' = delivered \cup Range(page)'
  BY <1>1
<1> QED
  BY <1>3, <1>6, <1>7, <1>8, <1>9 DEF Feed!Page

\* A write of strfry is a write of the feed, and the client sees nothing of what the engine
\* does before it returns a page.
LEMMA FeedStep ==
  QueryInv /\ (ValuesApart => ExactInv) /\ [Next]_vars => [Feed!Next]_(Feed!vars)
<1> SUFFICES ASSUME QueryInv, ValuesApart => ExactInv, [Next]_vars PROVE [Feed!Next]_(Feed!vars)
  OBVIOUS
<1> DEFINE wanted == {e \in Events : Matches(e)}
<1>0. TypeOK
  BY DEF QueryInv
<1>1. CASE Insert
  <2>1. /\ UNCHANGED <<stable, filter, cursor, page, delivered>> /\ lev' \in [Events -> Nat]
        /\ \A e \in Events : lev[e] # 0 => lev'[e] = lev[e]
    BY <1>0, <1>1, InsertFrame DEF client
  <2>2. DOMAIN lev = Events /\ DOMAIN lev' = Events
    BY <1>0, <2>1 DEF TypeOK
  <2>3. wanted' = wanted /\ (ValuesApart' <=> ValuesApart)
    BY <2>1, FilterFrame
  <2>4. Feed!Write
    BY <2>1, <2>2, <2>3 DEF Feed!Write
  <2> QED
    BY <2>4 DEF Feed!Next
<1>2. CASE Delete
  <2>1. UNCHANGED <<lev, filter, cursor, page, delivered>> /\ stable' \subseteq stable
    BY <1>2 DEF Delete, client
  <2>2. wanted' = wanted /\ (ValuesApart' <=> ValuesApart)
    BY <2>1, FilterFrame
  <2>3. Feed!Write
    BY <2>1, <2>2 DEF Feed!Write
  <2> QED
    BY <2>3 DEF Feed!Next
<1>3. CASE ReturnPage
  BY <1>3, FeedPage DEF Feed!Next
<1>4. ASSUME \/ BeginPage \/ RefillStream \/ Pop \/ HeapEmpty
             \/ Hydrate \/ HydrateFails \/ NextRound \/ UNCHANGED vars
      PROVE  UNCHANGED <<stable, lev, filter, cursor, page, delivered>>
  BY <1>4 DEF BeginPage, RefillStream, Refill, Pop, HeapEmpty, Hydrate, HydrateFails, NextRound,
              vars, database, client
<1>5. ASSUME UNCHANGED <<stable, lev, filter, cursor, page, delivered>> PROVE UNCHANGED Feed!vars
  <2>1. wanted' = wanted /\ (ValuesApart' <=> ValuesApart)
    BY <1>5, FilterFrame
  <2> QED
    BY <1>5, <2>1 DEF Feed!vars
<1> QED
  BY <1>1, <1>2, <1>3, <1>4, <1>5 DEF Next, Engine

\* The engine implements the feed that its clients are promised.  For every filter, page, window
\* and round size, whatever values of tags the keys confuse and however strfry's writes fall
\* between the windows, the merge, hydration and the pages, no page passes by an event that
\* matches and stays; and where the keys tell the filter's values apart, the pages are in the
\* order (created_at, levId) DESC, in the filter and below one another (execute_query_internal,
\* merge_windowed, refill_stream, collect_window).
THEOREM QueryImplementsFeed == Spec => FeedSpec
<1>1. (ValuesApart => ExactInv) => NewestFirst
  BY DEF ExactInv, ExactClient, NewestFirst
<1> QED
  BY <1>1, FeedInit, FeedStep, QueryInvariant, PTL DEF Spec, FeedSpec, Feed!Spec

-----------------------------------------------------------------------------
(* What the feed promises at its end                                       *)

\* What is stored all the while lies below the cursor or has been delivered.
AheadOrDelivered ==
    \A e \in stable : Matches(e) => Feed!Below(e, cursor) \/ e \in delivered

\* A client that has paged to the end holds every event that matches its filter and was
\* stored all the while, whatever strfry wrote between its pages and whatever entries of
\* other tags were in its streams (next_cursor).
THEOREM NoEventStranded == Spec => []Feed!NoneStranded
<1> DEFINE Inv == QueryInv /\ (ValuesApart => ExactInv)
<1>1. Init => AheadOrDelivered
  BY DEF Init, AheadOrDelivered, Feed!Below
<1>2. Inv /\ AheadOrDelivered /\ [Next]_vars => AheadOrDelivered'
  <2> SUFFICES ASSUME Inv, AheadOrDelivered, [Next]_vars PROVE AheadOrDelivered'
    OBVIOUS
  <2>0. \A e \in stable : e \in Events /\ e \in DOMAIN lev /\ lev[e] # 0
    BY DEF QueryInv, TypeOK, Numbered
  <2> DEFINE wanted == {e \in Events : Matches(e)}
  <2>1. \A e \in stable : e \in wanted => Feed!Below(e, cursor) \/ e \in delivered
    BY DEF AheadOrDelivered
  <2>2. Feed!Write \/ Feed!Page \/ UNCHANGED Feed!vars
    BY FeedStep DEF Feed!Next
  <2>3. \A e \in stable' : e \in stable /\ (Matches(e)' => e \in wanted')
    <3>1. stable' \subseteq stable
      BY <2>2 DEF Feed!Write, Feed!Page, Feed!vars
    <3> QED
      BY <2>0, <3>1
  <2> SUFFICES ASSUME NEW e \in stable', e \in wanted'
               PROVE  Feed!Below(e, cursor)' \/ e \in delivered'
    BY <2>3 DEF AheadOrDelivered
  <2>4. CASE Feed!Write
    <3>1. wanted' = wanted /\ cursor' = cursor /\ delivered' = delivered /\ lev'[e] = lev[e]
      BY <2>0, <2>3, <2>4 DEF Feed!Write
    <3>2. Feed!Below(e, cursor) => Feed!Below(e, cursor)'
      BY <3>1 DEF Feed!Below
    <3> QED
      BY <2>1, <2>3, <3>1, <3>2
  <2>5. CASE Feed!Page
    <3>1. /\ wanted' = wanted /\ lev' = lev /\ delivered \subseteq delivered'
          /\ \A x \in stable \cap wanted :
                Feed!Below(x, cursor) /\ ~Feed!Below(x, cursor') => x \in delivered'
      BY <2>5 DEF Feed!Page
    <3>2. Feed!Below(e, cursor') <=> Feed!Below(e, cursor)'
      BY <3>1 DEF Feed!Below
    <3> QED
      BY <2>1, <2>3, <3>1, <3>2
  <2>6. CASE UNCHANGED Feed!vars
    <3>1. wanted' = wanted /\ cursor' = cursor /\ delivered' = delivered /\ lev' = lev
      BY <2>6 DEF Feed!vars
    <3>2. Feed!Below(e, cursor) => Feed!Below(e, cursor)'
      BY <3>1 DEF Feed!Below
    <3> QED
      BY <2>1, <2>3, <3>1, <3>2
  <2> QED
    BY <2>2, <2>4, <2>5, <2>6
<1>3. QueryInv /\ AheadOrDelivered => Feed!NoneStranded
  <2>1. Top # End
    BY QueryConstants
  <2> QED
    BY <2>1 DEF AheadOrDelivered, Feed!NoneStranded, Feed!Below
<1> HIDE DEF Inv
<1>4. Spec => []AheadOrDelivered
  BY <1>1, <1>2, QueryInvariant, PTL DEF Spec, Inv
<1> QED
  BY <1>3, <1>4, QueryInvariant, PTL
=============================================================================
