---------------------------- MODULE VerdictsProofs ----------------------------
(***************************************************************************)
(* Proofs about Verdicts, for every set of pubkeys, layers, configurations, *)
(* labels and fitted models, every batch size, and any number of runs,     *)
(* kills, tunes, exports and labels in any order; and then about the       *)
(* content layers those verdicts come from (Layers), for every set of      *)
(* posts, every width of the hashes and every threshold and knee.          *)
(***************************************************************************)
EXTENDS Verdicts, Layers, FiniteSetTheorems, SequenceTheorems, WellFoundedInduction, TLAPS

\* A row of the table weight, or none.
Value == Int \cup {None}

\* `run' has a run of its own.
Live == pc \in {"walk", "score", "closing"}

\* What the process may send to its writer.
Messages ==
    {Verdict(Stage(cfg, table), m[1], m[2]) :
        m \in {k \in pubkeys \X BOOLEAN : k[1] \in Listed => k[2]}}

\* The rows of the table run.
RunRows == [status : {"running", "aborted", "done"},
            snap : [tau : Int, bias : Int, w : [Layers -> Value]]]

TableTypes ==
    /\ weight \in [Rows -> Value]
    /\ pubkeys \subseteq Keys /\ todo \subseteq pubkeys
    /\ runs \in Seq(RunRows)
    /\ score = [r \in RunIds |-> [p \in Keys |-> score[r][p]]]
    /\ signal = [r \in RunIds |-> [p \in Keys |-> [l \in Layers |-> signal[r][p][l]]]]
    /\ scoredWith \in [RunIds -> SUBSET Layers]

ProcessTypes ==
    /\ pc \in {"down", "seed", "read", "begin", "walk", "score", "closing"}
    /\ starts \in 0 .. MaxStarts /\ seeded \in Nat
    /\ pc # "down" => cfg \in Configs
    /\ pc = "begin" \/ Live => table \in [Rows -> Value]
    /\ pc \in {"score", "closing"} => wq \in Seq(Messages)

\* The process, its run and the row of that run.
OwnRunInv ==
    /\ Len(runs) <= starts
    /\ pc \in {"seed", "read", "begin"} => Len(runs) < starts
    /\ Live => run \in DOMAIN runs /\ runs[run].snap = Snapshot
    /\ ~Live => run = None
    /\ pc \in {"walk", "score"} => runs[run].status # "done"
    /\ pc \in {"score", "closing"} => scoredWith[run] = cfg.on
    /\ pc \notin {"score", "closing"} => wq = <<>>
    /\ pc = "closing" /\ runs[run].status = "done" => todo = {}

\* The table weight is seeded before the first run begins, and never after.
SeedInv ==
    /\ pc \in {"read", "begin"} \/ runs # <<>> => \E k \in Rows : weight[k] # None
    /\ pc = "seed" => seeded < Len(SeedOrder)
    /\ pc = "seed" /\ seeded > 0 => runs = <<>>

\* What DoneIsReproducible says of one pubkey.  The flag follows from the score and the
\* recorded threshold whether the weights are recorded or not.
Reproduced(r, p) ==
    LET snap == runs[r].snap
        x    == [l \in scoredWith[r] |-> signal[r][p][l]]
    IN  score[r][p] # None =>
            /\ (\A l \in scoredWith[r] : snap.w[l] # None) => score[r][p].z = combine(snap.w, snap.bias, x)
            /\ score[r][p].suspected = (score[r][p].z > snap.tau)

\* A pubkey of the run is still to be scored, on its way to the writer, or its row is
\* the one that the parameters of the run give.
FreshInv ==
    pc \in {"score", "closing"} =>
        \A p \in pubkeys : p \in todo \/ (\E i \in 1 .. Len(wq) : wq[i].key = p) \/ Reproduced(run, p)

\* Rows are of pubkeys that were found; those of a run that is done and left behind
\* are reproduced by its row.
ScoresInv ==
    /\ \A r \in RunIds, p \in Keys : score[r][p] # None => p \in pubkeys /\ score[r][p].z \in Int
    /\ \A r \in DOMAIN runs : runs[r].status = "done" /\ r \notin torn /\ run # r =>
          \A p \in Keys : Reproduced(r, p)

\* ListedIsNeverAbsent, of signals without a score too.
ListedInv ==
    \A r \in RunIds, p \in Listed :
        /\ signal[r][p]["L0"] \in {None, 0}
        /\ score[r][p] # None => score[r][p].white

StoreInv == TableTypes /\ ProcessTypes /\ OwnRunInv /\ SeedInv /\ FreshInv /\ ScoresInv /\ ListedInv

\* No process will write to the run again.
Frozen(r) == r \in DOMAIN runs /\ runs[r].status = "done" /\ run # r

\* What `tune' has read of a run that is frozen still holds when it adopts.
TuneOwn ==
    /\ tune.at \in {"off", "queue", "labels", "fit", "adopt"}
    /\ tune.at # "off" => tune.run \in DOMAIN runs /\ (tune.calm => Frozen(tune.run))
    /\ tune.at = "adopt" =>
          /\ tune.fit \in [w : [Layers -> Int], bias : Int]
          /\ tune.calm => Backtest(tune.fit, Tau(tune.cfg, weight), tune.run, tune.labels)

AdoptedInv ==
    /\ adopted # None => adopted.run \in DOMAIN runs /\ (adopted.calm => Frozen(adopted.run))
    /\ AdoptedAgrees

TuneInv == TuneOwn /\ AdoptedInv

\* What `export' has read of a run that was done still holds when it makes the list.
ExportOwn ==
    /\ export.at \in {"off", "insert"}
    /\ export.at = "insert" =>
          /\ export.run \in DOMAIN runs
          /\ export.default => runs[export.run].status = "done" /\ export.tau = runs[export.run].snap.tau

\* The review queue of a run that `tune' chose itself holds no flagged pubkey.
QueueInv ==
    /\ tune.at = "queue" /\ tune.calm => \A p \in tune.sample : ~score[tune.run][p].suspected
    /\ \A r \in RunIds : <<"queue", r>> \in chosen =>
          Frozen(r) /\ \A q \in queue : q.run = r => ~score[r][q.key].suspected

ListOf(r)  == {s \in suspects : s.run = r}
Flagged(r) == {p \in Keys : score[r][p] # None /\ score[r][p].suspected}

\* What ReviewIsFinal says of a list alone.
InOrder(list, flagged) ==
    /\ {s.key : s \in list} = flagged
    /\ {s.rank : s \in list} = 1 .. Cardinality(list)
    /\ \A s, t \in list : s.rank < t.rank => s.z >= t.z

ListInv ==
    \A r \in RunIds : <<"list", r>> \in chosen =>
        /\ Frozen(r) /\ InOrder(ListOf(r), Flagged(r))
        /\ r \notin torn => \A s \in ListOf(r) : s.z > s.tau

ReviewInv == ExportOwn /\ QueueInv /\ ListInv

-----------------------------------------------------------------------------
(* Sums                                                                    *)

\* Induction over a set of numbers.
LEMMA SetInduction ==
  ASSUME NEW P, P \subseteq Nat, 0 \in P, \A n \in P : n + 1 \in P
  PROVE  P = Nat
<1> SUFFICES ASSUME Nat \ P # {} PROVE FALSE
  OBVIOUS
<1>1. PICK x \in Nat \ P : \A y \in Nat \ P : ~(<<y, x>> \in OpToRel(<, Nat))
  <2>1. IsWellFoundedOn(OpToRel(<, Nat), Nat)
    BY NatLessThanWellFounded
  <2> DEFINE R == OpToRel(<, Nat)
             T == Nat \ P
  <2>2. IsWellFoundedOn(R, Nat) /\ T \subseteq Nat /\ T # {}
    BY <2>1
  <2> HIDE DEF R, T
  <2>3. \E x \in T : \A y \in T : ~(<<y, x>> \in R)
    BY <2>2, WFMin
  <2> QED
    BY <2>3 DEF R, T
<1>2. x # 0 /\ x - 1 \in Nat /\ x - 1 < x
  OBVIOUS
<1>3. <<x - 1, x>> \in OpToRel(<, Nat)
  BY <1>2 DEF OpToRel
<1>4. x - 1 \in P
  BY <1>1, <1>2, <1>3
<1>5. (x - 1) + 1 \in P
  BY <1>4
<1> QED
  BY <1>5

\* A step of the sum over what is left of an index set.
AnyOf(s) == CHOOSE i \in s : TRUE
AddOne(f, g, s) == IF s = {} THEN 0 ELSE f[AnyOf(s)] + g[s \ {AnyOf(s)}]

\* What is left is smaller.
LEMMA OneLess ==
  ASSUME NEW S, IsFiniteSet(S), NEW s \in SUBSET S
  PROVE  /\ Cardinality(s) \in Nat /\ (Cardinality(s) = 0 <=> s = {})
         /\ s # {} => /\ AnyOf(s) \in s /\ s \ {AnyOf(s)} \in SUBSET S
                      /\ Cardinality(s \ {AnyOf(s)}) = Cardinality(s) - 1
<1>1. IsFiniteSet(s) /\ Cardinality(s) \in Nat
  BY FS_Subset, FS_CardinalityType
<1>2. Cardinality(s) = 0 <=> s = {}
  BY <1>1, FS_EmptySet
<1>3. ASSUME s # {} PROVE AnyOf(s) \in s
  BY <1>3 DEF AnyOf
<1>4. ASSUME s # {} PROVE Cardinality(s \ {AnyOf(s)}) = Cardinality(s) - 1
  BY <1>1, <1>3, <1>4, FS_RemoveElement
<1> QED
  BY <1>1, <1>2, <1>3, <1>4

\* The recursive definition of the sum has a solution.
LEMMA SumExists ==
  ASSUME NEW f, NEW S, IsFiniteSet(S)
  PROVE  \E g : g = [s \in SUBSET S |-> AddOne(f, g, s)]
<1> DEFINE W == SUBSET S
           Solves(g, n) == g = [s \in W |-> g[s]] /\ \A s \in W : Cardinality(s) <= n => g[s] = AddOne(f, g, s)
           P == {n \in Nat : \E g : Solves(g, n)}
<1>0. \A s \in W : /\ Cardinality(s) \in Nat /\ (Cardinality(s) = 0 <=> s = {})
                   /\ s # {} => s \ {AnyOf(s)} \in W /\ Cardinality(s \ {AnyOf(s)}) = Cardinality(s) - 1
  BY OneLess
<1> HIDE DEF W
<1>1. 0 \in P
  <2> DEFINE g == [s \in W |-> 0]
  <2>1. g = [s \in W |-> g[s]]
    OBVIOUS
  <2>2. ASSUME NEW s \in W, Cardinality(s) <= 0 PROVE g[s] = AddOne(f, g, s)
    <3>0. Cardinality(s) \in Nat /\ (Cardinality(s) = 0 <=> s = {})
      BY <1>0
    <3>1. Cardinality(s) = 0
      BY <2>2, <3>0
    <3>2. s = {}
      BY <3>0, <3>1
    <3> QED
      BY <3>2 DEF AddOne
  <2> HIDE DEF g
  <2>3. Solves(g, 0)
    BY <2>1, <2>2
  <2> QED
    BY <2>3
<1>2. ASSUME NEW n \in P PROVE n + 1 \in P
  <2>1. n \in Nat
    OBVIOUS
  <2>2. PICK g : Solves(g, n)
    OBVIOUS
  <2> DEFINE h == [s \in W |-> IF Cardinality(s) <= n THEN g[s] ELSE AddOne(f, g, s)]
  <2>3. h = [s \in W |-> h[s]]
    OBVIOUS
  <2>4. \A s \in W : h[s] = IF Cardinality(s) <= n THEN g[s] ELSE AddOne(f, g, s)
    OBVIOUS
  <2> HIDE DEF h
  <2>5. ASSUME NEW s \in W, Cardinality(s) <= n + 1 PROVE h[s] = AddOne(f, h, s)
    <3>1. h[s] = AddOne(f, g, s)
      BY <2>2, <2>4
    <3>2. CASE s = {}
      BY <3>1, <3>2 DEF AddOne
    <3>3. CASE s # {}
      <4>1. s \ {AnyOf(s)} \in W /\ Cardinality(s \ {AnyOf(s)}) <= n
        BY <1>0, <2>1, <2>5, <3>3
      <4>2. h[s \ {AnyOf(s)}] = g[s \ {AnyOf(s)}]
        BY <2>4, <4>1
      <4> QED
        BY <3>1, <3>3, <4>2 DEF AddOne
    <3> QED
      BY <3>2, <3>3
  <2>6. Solves(h, n + 1)
    BY <2>3, <2>5
  <2> QED
    BY <2>1, <2>6
<1>3. P \subseteq Nat
  OBVIOUS
<1> HIDE DEF P
<1>4. Cardinality(S) \in P
  <2>1. Cardinality(S) \in Nat
    BY FS_CardinalityType
  <2> QED
    BY <1>1, <1>2, <1>3, <2>1, SetInduction
<1>5. PICK g : Solves(g, Cardinality(S))
  BY <1>4 DEF P
<1>6. ASSUME NEW s \in W PROVE g[s] = AddOne(f, g, s)
  <2>1. Cardinality(s) <= Cardinality(S)
    BY FS_Subset DEF W
  <2> QED
    BY <1>5, <2>1
<1>7. g = [s \in W |-> AddOne(f, g, s)]
  BY <1>5, <1>6
<1> QED
  BY <1>7 DEF W

\* A sum of integers is one, in whichever order they are added up.
LEMMA TotalInt ==
  ASSUME NEW f, IsFiniteSet(DOMAIN f), \A i \in DOMAIN f : f[i] \in Int
  PROVE  Total(f) \in Int
<1> DEFINE S == DOMAIN f
           g == CHOOSE g : g = [s \in SUBSET S |-> AddOne(f, g, s)]
<1>1. g = [s \in SUBSET S |-> AddOne(f, g, s)]
  BY SumExists, Zenon
<1>2. Total(f) = g[S]
  BY Zenon DEF Total, FoldFunction, FoldFunctionOnSet, MapThenFoldSet, AddOne, AnyOf
<1> HIDE DEF g
<1>3. \A s \in SUBSET S : g[s] = AddOne(f, g, s)
  BY <1>1
<1> DEFINE P == {n \in Nat : \A s \in SUBSET S : Cardinality(s) <= n => g[s] \in Int}
<1>4. 0 \in P
  <2> SUFFICES ASSUME NEW s \in SUBSET S, Cardinality(s) <= 0 PROVE g[s] \in Int
    OBVIOUS
  <2>1. Cardinality(s) \in Nat /\ (Cardinality(s) = 0 <=> s = {})
    BY OneLess
  <2>2. Cardinality(s) = 0
    BY <2>1
  <2>3. s = {}
    BY <2>1, <2>2
  <2>4. g[s] = 0
    BY <1>3, <2>3 DEF AddOne
  <2> QED
    BY <2>4
<1>5. ASSUME NEW n \in P PROVE n + 1 \in P
  <2> SUFFICES ASSUME NEW s \in SUBSET S, Cardinality(s) <= n + 1 PROVE g[s] \in Int
    OBVIOUS
  <2>1. CASE s = {}
    <3>1. g[s] = AddOne(f, g, s)
      BY <1>3
    <3>2. AddOne(f, g, s) = 0
      BY <2>1, Zenon DEF AddOne
    <3> QED
      BY <3>1, <3>2
  <2>2. CASE s # {}
    <3>1. /\ AnyOf(s) \in s /\ s \ {AnyOf(s)} \in SUBSET S
          /\ Cardinality(s) \in Nat /\ Cardinality(s \ {AnyOf(s)}) = Cardinality(s) - 1
      BY <2>2, OneLess
    <3>2. g[s \ {AnyOf(s)}] \in Int
      BY <3>1
    <3>3. g[s] = f[AnyOf(s)] + g[s \ {AnyOf(s)}]
      BY <1>3, <2>2 DEF AddOne
    <3> QED
      BY <3>1, <3>2, <3>3
  <2> QED
    BY <2>1, <2>2
<1>6. P \subseteq Nat
  OBVIOUS
<1> HIDE DEF P
<1>7. Cardinality(S) \in P
  <2>1. Cardinality(S) \in Nat
    BY FS_CardinalityType
  <2> QED
    BY <1>4, <1>5, <1>6, <2>1, SetInduction
<1> QED
  BY <1>2, <1>7 DEF P

-----------------------------------------------------------------------------
(* Messages to the writer                                                  *)

\* Only the weights of the layers that were scored count.
LEMMA CombineSame ==
  ASSUME NEW v, NEW w, NEW b, NEW x, \A l \in DOMAIN x : v[l] = w[l]
  PROVE  combine(v, b, x) = combine(w, b, x)
<1>1. [l \in DOMAIN x |-> v[l] * x[l]] = [l \in DOMAIN x |-> w[l] * x[l]]
  OBVIOUS
<1> QED
  BY <1>1 DEF combine

\* What a message to the writer holds.
LEMMA MessageProperties ==
  ASSUME NEW v \in Messages, cfg \in Configs, table \in [Rows -> Value], pubkeys \subseteq Keys
  PROVE  /\ v.key \in pubkeys /\ v.x = [l \in cfg.on |-> v.x[l]]
         /\ v.row.z = combine(Stage(cfg, table).w, Bias(cfg, table), v.x)
         /\ v.row.suspected = (v.row.z > Tau(cfg, table))
         /\ v.key \in Listed => v.row.white /\ ("L0" \in cfg.on => v.x["L0"] = 0)
<1> DEFINE stage == Stage(cfg, table)
<1>1. PICK p \in pubkeys, white \in BOOLEAN : (p \in Listed => white) /\ v = Verdict(stage, p, white)
  BY DEF Messages
<1> DEFINE x == [l \in DOMAIN stage.w |-> SubScore(l, p, white)]
           z == combine(stage.w, stage.bias, x)
<1>2. v = [key |-> p, x |-> x, row |-> [z |-> z, white |-> white, suspected |-> z > stage.tau]]
  BY <1>1 DEF Verdict
<1>3. DOMAIN stage.w = cfg.on /\ stage.bias = Bias(cfg, table) /\ stage.tau = Tau(cfg, table)
  BY DEF Stage
<1>4. v.key = p /\ v.x = x /\ v.row.z = z /\ v.row.white = white /\ v.row.suspected = (z > stage.tau)
  BY <1>2
<1>5. x = [l \in cfg.on |-> x[l]]
  BY <1>3
<1>6. white /\ "L0" \in cfg.on => x["L0"] = 0
  BY <1>3 DEF SubScore
<1> HIDE DEF x, z, stage
<1> QED
  BY <1>1, <1>3, <1>4, <1>5, <1>6 DEF z, stage

\* The score of a message is a number.
LEMMA MessageScore ==
  ASSUME NEW v \in Messages, cfg \in Configs, table \in [Rows -> Value], pubkeys \subseteq Keys
  PROVE  v.row.z \in Int
<1> DEFINE w == Stage(cfg, table).w
           b == Bias(cfg, table)
<1>1. PICK p \in pubkeys, white \in BOOLEAN : v = Verdict(Stage(cfg, table), p, white)
  BY DEF Messages
<1> DEFINE x == [l \in cfg.on |-> SubScore(l, p, white)]
<1>2. /\ cfg.on \subseteq Layers /\ Layers \subseteq Rows /\ "_bias" \in Rows /\ IsFiniteSet(Layers)
      /\ cfg.w \in [Layers -> Int] /\ cfg.bias \in Int /\ Content[p] \in Int
  BY VerdictsConstants DEF Rows
<1>3. v.row.z = combine(w, b, x)
  BY <1>1 DEF Verdict, Stage
<1>4. ASSUME NEW l \in cfg.on PROVE w[l] \in Int
  <2>1. w[l] = Or(table[l], cfg.w[l]) /\ table[l] \in Value /\ cfg.w[l] \in Int
    BY <1>2 DEF Stage
  <2> QED
    BY <2>1 DEF Or, Value
<1>5. b \in Int
  <2>1. table["_bias"] \in Value
    BY <1>2
  <2> QED
    BY <1>2, <2>1 DEF Bias, Or, Value
<1>6. \A l \in cfg.on : x[l] \in Int
  BY <1>2 DEF SubScore
<1>7. DOMAIN x = cfg.on
  OBVIOUS
<1> HIDE DEF w, b, x
<1> DEFINE f == [l \in cfg.on |-> w[l] * x[l]]
<1>8. DOMAIN f = cfg.on /\ \A l \in cfg.on : f[l] \in Int
  BY <1>4, <1>6
<1>9. IsFiniteSet(cfg.on)
  BY <1>2, FS_Subset
<1>10. combine(w, b, x) = b + Total(f)
  BY <1>7 DEF combine
<1> HIDE DEF f
<1>11. Total(f) \in Int
  BY <1>8, <1>9, TotalInt
<1> QED
  BY <1>3, <1>5, <1>10, <1>11

\* The row and the signals of a message are reproduced by the row of the run.
LEMMA MessageReproduced ==
  ASSUME NEW v \in Messages, cfg \in Configs, table \in [Rows -> Value], pubkeys \subseteq Keys
  PROVE  /\ (\A l \in cfg.on : Snapshot.w[l] # None) => v.row.z = combine(Snapshot.w, Snapshot.bias, v.x)
         /\ v.row.suspected = (v.row.z > Snapshot.tau)
<1>1. cfg.on \subseteq Layers /\ Layers \subseteq Rows
  BY VerdictsConstants DEF Rows
<1>2. /\ Snapshot.w = [l \in Layers |-> table[l]]
      /\ Snapshot.bias = Bias(cfg, table) /\ Snapshot.tau = Tau(cfg, table)
  BY DEF Snapshot
<1>3. DOMAIN v.x = cfg.on
  BY MessageProperties
<1>4. ASSUME \A l \in cfg.on : Snapshot.w[l] # None
      PROVE  \A l \in cfg.on : Stage(cfg, table).w[l] = Snapshot.w[l]
  BY <1>1, <1>2, <1>4 DEF Stage, Or
<1>5. (\A l \in cfg.on : Snapshot.w[l] # None) =>
      combine(Stage(cfg, table).w, Bias(cfg, table), v.x) = combine(Snapshot.w, Bias(cfg, table), v.x)
  BY <1>3, <1>4, CombineSame
<1> QED
  BY <1>2, <1>5, MessageProperties

\* The run that the process is at is one of those there is room for.
LEMMA RunInRange ==
  ASSUME TableTypes, ProcessTypes, OwnRunInv
  PROVE  /\ DOMAIN runs \subseteq RunIds /\ DOMAIN runs = 1 .. Len(runs) /\ Len(runs) \in Nat
         /\ Live => run \in RunIds /\ run \in DOMAIN runs
<1>1. DOMAIN runs = 1 .. Len(runs) /\ Len(runs) \in Nat
  BY DEF TableTypes
<1>2. Len(runs) <= starts /\ starts <= MaxStarts /\ starts \in Nat /\ MaxStarts \in Nat
  BY VerdictsConstants DEF OwnRunInv, ProcessTypes
<1> QED
  BY <1>1, <1>2 DEF RunIds, OwnRunInv

-----------------------------------------------------------------------------
(* The tables and `run'                                                    *)

\* Nothing that the invariant of the tables looks at changes.
LEMMA StoreFrame ==
  ASSUME StoreInv, UNCHANGED <<weight, pubkeys, runs, score, signal, batch, torn, scoredWith, starts>>
  PROVE  StoreInv'
<1>1. TableTypes'
  BY DEF StoreInv, TableTypes, batch
<1>2. ProcessTypes'
  BY DEF StoreInv, ProcessTypes, batch, Messages, Live
<1>3. OwnRunInv'
  BY DEF StoreInv, OwnRunInv, batch, Live, Snapshot
<1>4. SeedInv'
  BY DEF StoreInv, SeedInv, batch
<1>5. FreshInv' /\ ScoresInv'
  BY DEF StoreInv, FreshInv, ScoresInv, batch, Reproduced
<1>6. ListedInv'
  BY DEF StoreInv, ListedInv
<1> QED
  BY <1>1, <1>2, <1>3, <1>4, <1>5, <1>6 DEF StoreInv

\* Initially nothing is stored.
LEMMA StoreInit == Init => StoreInv
<1> SUFFICES ASSUME Init PROVE StoreInv
  OBVIOUS
<1>1. Layers \subseteq Rows /\ MaxStarts \in Nat /\ Listed \subseteq Keys /\ "L0" \in Layers
  BY VerdictsConstants DEF Rows
<1>2. runs = <<>> /\ DOMAIN runs = {} /\ Len(runs) = 0
  BY DEF Init
<1>3. TableTypes
  <2>1. weight \in [Rows -> Value]
    BY DEF Init, Value
  <2>2. pubkeys \subseteq Keys /\ todo \subseteq pubkeys
    BY DEF Init
  <2>3. \A S : runs \in Seq(S)
    BY <1>2
  <2>4. score = [r \in RunIds |-> [p \in Keys |-> score[r][p]]]
    BY DEF Init
  <2>5. signal = [r \in RunIds |-> [p \in Keys |-> [l \in Layers |-> signal[r][p][l]]]]
    BY DEF Init
  <2>6. scoredWith \in [RunIds -> SUBSET Layers]
    BY DEF Init
  <2> QED
    BY <2>1, <2>2, <2>3, <2>4, <2>5, <2>6 DEF TableTypes
<1>4. ProcessTypes
  BY <1>1 DEF Init, ProcessTypes, Live
<1>5. OwnRunInv
  BY <1>2 DEF Init, OwnRunInv, Live
<1>6. SeedInv
  BY DEF Init, SeedInv
<1>7. FreshInv
  BY DEF Init, FreshInv
<1>8. ScoresInv
  BY <1>2 DEF Init, ScoresInv
<1>9. ListedInv
  BY <1>1 DEF Init, ListedInv
<1> QED
  BY <1>3, <1>4, <1>5, <1>6, <1>7, <1>8, <1>9 DEF StoreInv

\* What the row of a run gives depends on that row and the rows of the pubkey.
LEMMA ReproducedFrame ==
  ASSUME NEW r, NEW p, runs'[r].snap = runs[r].snap, scoredWith'[r] = scoredWith[r],
         score'[r][p] = score[r][p], signal'[r][p] = signal[r][p]
  PROVE  Reproduced(r, p)' <=> Reproduced(r, p)
BY DEF Reproduced

\* seed_weights_if_empty and the reading of the weights.
LEMMA StoreSeed == ASSUME StoreInv, Start \/ Seed \/ ReadWeights PROVE StoreInv'
<1>1. UNCHANGED <<pubkeys, runs, score, signal, run, todo, wq, torn, scoredWith>>
  BY DEF Start, Seed, ReadWeights, database, history
<1>2. pc \in {"down", "seed", "read"} /\ pc' \in {"seed", "read", "begin"}
  BY DEF Start, Seed, ReadWeights
<1>3. ~Live /\ ~Live' /\ run = None /\ wq = <<>>
  BY <1>2 DEF StoreInv, Live, OwnRunInv
<1>4. Len(SeedOrder) \in Nat /\ Len(SeedOrder) > 0 /\ DOMAIN SeedOrder = 1 .. Len(SeedOrder)
      /\ \A i \in 1 .. Len(SeedOrder) : SeedOrder[i] \in Rows
  <2>1. SeedOrder \in Seq(Rows) /\ Range(SeedOrder) = Rows
    BY VerdictsConstants DEF Rows
  <2>2. "_bias" \in Rows
    BY DEF Rows
  <2>3. PICK i \in DOMAIN SeedOrder : SeedOrder[i] = "_bias"
    BY <2>1, <2>2 DEF Range
  <2> QED
    BY <2>1, <2>3
<1>5. cfg' \in Configs
  BY <1>2 DEF Start, Seed, ReadWeights, StoreInv, ProcessTypes
<1>6. starts \in 0 .. MaxStarts /\ starts' \in 0 .. MaxStarts /\ starts' >= starts
      /\ (Start => starts' = starts + 1) /\ MaxStarts \in Nat
  BY VerdictsConstants DEF Start, Seed, ReadWeights, StoreInv, ProcessTypes, bounds
<1>7. seeded' \in Nat /\ seeded \in Nat
  BY DEF Start, Seed, ReadWeights, StoreInv, ProcessTypes
<1>8. weight \in [Rows -> Value] /\ weight' \in [Rows -> Value]
      /\ ((\E k \in Rows : weight[k] # None) => \E k \in Rows : weight'[k] # None)
      /\ (weight' # weight => \E k \in Rows : weight'[k] # None)
  <2>1. weight \in [Rows -> Value]
    BY DEF StoreInv, TableTypes
  <2>2. CASE weight' = weight
    BY <2>1, <2>2
  <2>3. CASE Seed /\ weight' # weight
    <3> DEFINE k == SeedOrder[seeded + 1]
    <3>1. weight' = [weight EXCEPT ![k] = Configured(k)] /\ pc = "seed"
      BY <2>3 DEF Seed
    <3>2. k \in Rows
      BY <1>4, <1>7, <3>1 DEF StoreInv, SeedInv
    <3>3. cfg \in Configs
      BY <1>2, <3>1 DEF StoreInv, ProcessTypes
    <3>4. Configured(k) \in Int
      BY <3>2, <3>3, VerdictsConstants DEF Configured, Rows
    <3>5. Configured(k) \in Value /\ Configured(k) # None
      BY <3>4, VerdictsConstants DEF Value
    <3> HIDE DEF k
    <3>6. weight'[k] = Configured(k) /\ weight' \in [Rows -> Value]
      BY <2>1, <3>1, <3>2, <3>5
    <3> QED
      BY <2>1, <3>2, <3>5, <3>6
  <2> QED
    BY <2>1, <2>2, <2>3 DEF Start, ReadWeights, database
<1>9. TableTypes'
  <2>1. runs' \in Seq(RunRows)
    BY <1>1 DEF StoreInv, TableTypes
  <2> QED
    BY <1>1, <1>8, <2>1 DEF StoreInv, TableTypes
<1>10. ProcessTypes'
  <2>1. pc' = "begin" => table' \in [Rows -> Value]
    BY <1>8 DEF Start, Seed, ReadWeights
  <2>2. pc' \notin {"score", "closing"}
    BY <1>2
  <2> QED
    BY <1>2, <1>3, <1>5, <1>6, <1>7, <2>1, <2>2 DEF ProcessTypes
<1>11. OwnRunInv'
  <2>1. Len(runs) \in Nat
    BY DEF StoreInv, TableTypes
  <2>2. Len(runs) <= starts /\ (pc \in {"seed", "read", "begin"} => Len(runs) < starts)
    BY DEF StoreInv, OwnRunInv
  <2>3. Len(runs') < starts'
    <3>1. CASE Start
      BY <1>1, <1>6, <2>1, <2>2, <3>1
    <3>2. CASE ~Start
      <4>1. Len(runs) < starts
        BY <2>2, <3>2 DEF Seed, ReadWeights
      <4> QED
        BY <1>1, <1>6, <2>1, <4>1
    <3> QED
      BY <3>1, <3>2
  <2>4. Len(runs') <= starts'
    BY <1>1, <1>6, <2>1, <2>3
  <2> QED
    BY <1>1, <1>2, <1>3, <2>3, <2>4 DEF OwnRunInv
<1>12. SeedInv'
  <2>1. CASE Start
    BY <1>1, <1>4, <1>8, <2>1 DEF StoreInv, SeedInv, Start, database
  <2>2. CASE ReadWeights
    BY <1>1, <1>8, <2>2 DEF StoreInv, SeedInv, ReadWeights
  <2>3. CASE Seed
    <3>1. pc = "seed" /\ seeded < Len(SeedOrder) /\ (seeded > 0 => runs = <<>>)
          /\ (runs # <<>> => \E k \in Rows : weight[k] # None)
      BY <2>3 DEF StoreInv, SeedInv, Seed
    <3>2. CASE seeded = 0 /\ \E k \in Rows : weight[k] # None
      BY <1>1, <1>8, <2>3, <3>2, <3>1 DEF Seed, SeedInv
    <3>3. CASE ~(seeded = 0 /\ \E k \in Rows : weight[k] # None)
      <4>1. runs = <<>>
        BY <1>7, <3>1, <3>3
      <4>2. seeded' = seeded + 1 /\ pc' = IF seeded' = Len(SeedOrder) THEN "read" ELSE "seed"
        BY <2>3, <3>3 DEF Seed
      <4>3. \E k \in Rows : weight'[k] # None
        <5> DEFINE k == SeedOrder[seeded + 1]
        <5>1. weight' = [weight EXCEPT ![k] = Configured(k)]
          BY <2>3, <3>3 DEF Seed
        <5>2. k \in Rows
          BY <1>4, <1>7, <3>1
        <5>3. cfg \in Configs
          BY <3>1 DEF StoreInv, ProcessTypes
        <5>4. Configured(k) \in Int
          BY <5>2, <5>3, VerdictsConstants DEF Configured, Rows
        <5>5. Configured(k) # None
          BY <5>4, VerdictsConstants
        <5> HIDE DEF k
        <5> QED
          BY <1>8, <5>1, <5>2, <5>5
      <4>4. pc' = "seed" => seeded' < Len(SeedOrder)
        <5>1. pc' = "seed" => seeded' # Len(SeedOrder)
          BY <4>2
        <5>2. ASSUME seeded' # Len(SeedOrder) PROVE seeded + 1 < Len(SeedOrder)
          <6> DEFINE n == Len(SeedOrder)
          <6>1. n \in Nat /\ seeded < n /\ seeded + 1 # n
            BY <1>4, <3>1, <4>2, <5>2
          <6> HIDE DEF n
          <6> QED
            BY <1>7, <6>1 DEF n
        <5> QED
          BY <4>2, <5>1, <5>2
      <4> QED
        BY <1>1, <4>1, <4>2, <4>3, <4>4 DEF SeedInv
    <3> QED
      BY <3>2, <3>3
  <2> QED
    BY <2>1, <2>2, <2>3
<1>13. FreshInv'
  BY <1>2 DEF FreshInv
<1>14. ScoresInv'
  BY <1>1 DEF StoreInv, ScoresInv, Reproduced
<1>15. ListedInv'
  BY <1>1 DEF StoreInv, ListedInv
<1> QED
  BY <1>9, <1>10, <1>11, <1>12, <1>13, <1>14, <1>15 DEF StoreInv

\* What the parameters of a run are.
LEMMA SnapshotType ==
  ASSUME cfg \in Configs, table \in [Rows -> Value]
  PROVE  Snapshot \in [tau : Int, bias : Int, w : [Layers -> Value]]
<1>1. Layers \subseteq Rows /\ "_bias" \in Rows /\ "_threshold" \in Rows
  BY DEF Rows
<1>2. cfg.tau \in Int /\ cfg.bias \in Int
  BY VerdictsConstants
<1>3. Tau(cfg, table) \in Int /\ Bias(cfg, table) \in Int
  BY <1>1, <1>2 DEF Tau, Bias, Or, Value
<1>4. [l \in Layers |-> table[l]] \in [Layers -> Value]
  BY <1>1
<1> QED
  BY <1>3, <1>4 DEF Snapshot

\* A column of the row of a run is written.
LEMMA RunUpdated ==
  ASSUME runs \in Seq(RunRows), NEW r \in DOMAIN runs,
         NEW s \in [tau : Int, bias : Int, w : [Layers -> Value]],
         NEW t \in {"running", "aborted", "done"},
         \/ runs' = [runs EXCEPT ![r].snap = s]   /\ t = runs[r].status
         \/ runs' = [runs EXCEPT ![r].status = t] /\ s = runs[r].snap
  PROVE  /\ runs' \in Seq(RunRows) /\ Len(runs') = Len(runs) /\ DOMAIN runs' = DOMAIN runs
         /\ runs'[r].snap = s /\ runs'[r].status = t
         /\ \A q \in DOMAIN runs : q # r => runs'[q] = runs[q]
<1>1. runs[r] \in RunRows /\ DOMAIN runs = 1 .. Len(runs) /\ Len(runs) \in Nat
  OBVIOUS
<1>2. runs[r] = [status |-> runs[r].status, snap |-> runs[r].snap]
  BY <1>1 DEF RunRows
<1>3. [runs[r] EXCEPT !.snap = s] = [status |-> runs[r].status, snap |-> s]
  BY <1>2
<1>4. [runs[r] EXCEPT !.status = t] = [status |-> t, snap |-> runs[r].snap]
  BY <1>2
<1> DEFINE row == [status |-> t, snap |-> s]
<1>5. row \in RunRows /\ row.status = t /\ row.snap = s
  BY DEF RunRows
<1>6. runs' = [runs EXCEPT ![r] = row]
  BY <1>3, <1>4
<1> HIDE DEF row
<1>7. runs' \in Seq(RunRows) /\ Len(runs') = Len(runs)
  BY <1>5, <1>6
<1>8. DOMAIN runs' = DOMAIN runs /\ runs'[r] = row /\ \A q \in DOMAIN runs : q # r => runs'[q] = runs[q]
  BY <1>1, <1>6
<1> QED
  BY <1>5, <1>7, <1>8

\* The run that begins or goes on has the parameters of now and is not done; the other
\* runs stay as they are.
LEMMA BeginRow ==
  ASSUME StoreInv, Begin
  PROVE  /\ runs' \in Seq(RunRows) /\ run' \in DOMAIN runs' /\ Len(runs') <= Len(runs) + 1
         /\ runs'[run'].snap = Snapshot /\ runs'[run'].status # "done"
         /\ DOMAIN runs \subseteq DOMAIN runs'
         /\ \A q \in DOMAIN runs' : q # run' => q \in DOMAIN runs /\ runs'[q] = runs[q]
         /\ \A q \in DOMAIN runs : runs[q].status = "done" => q # run'
<1>1. runs \in Seq(RunRows) /\ Len(runs) \in Nat /\ DOMAIN runs = 1 .. Len(runs)
  BY DEF StoreInv, TableTypes
<1>2. Snapshot \in [tau : Int, bias : Int, w : [Layers -> Value]]
  BY SnapshotType DEF StoreInv, ProcessTypes, Begin
<1>3. CASE BeginRun
  <2> DEFINE row == [status |-> "running", snap |-> Snapshot]
  <2>1. row \in RunRows /\ row.status # "done" /\ row.snap = Snapshot
    BY <1>2 DEF RunRows
  <2>2. runs' = Append(runs, row) /\ run' = Len(runs) + 1
    BY <1>3 DEF BeginRun
  <2> HIDE DEF row
  <2>3. runs' \in Seq(RunRows) /\ Len(runs') = Len(runs) + 1 /\ runs'[Len(runs) + 1] = row
        /\ \A i \in 1 .. Len(runs) : runs'[i] = runs[i]
    BY <1>1, <2>1, <2>2
  <2>4. DOMAIN runs' = 1 .. Len(runs) + 1
    BY <1>1, <2>3
  <2> QED
    BY <1>1, <2>1, <2>2, <2>3, <2>4
<1>4. CASE \E r \in LatestUndone : Resume(r)
  <2>1. PICK r \in LatestUndone : Resume(r)
    BY <1>4
  <2>2. r \in DOMAIN runs /\ runs[r].status # "done"
    BY <2>1 DEF LatestUndone
  <2>3. runs' = [runs EXCEPT ![r].snap = Snapshot] /\ run' = r
    BY <2>1 DEF Resume
  <2>4. runs[r].status \in {"running", "aborted", "done"}
    <3>1. runs[r] \in RunRows
      BY <1>1, <2>2
    <3> QED
      BY <3>1 DEF RunRows
  <2>5. /\ runs' \in Seq(RunRows) /\ Len(runs') = Len(runs) /\ DOMAIN runs' = DOMAIN runs
        /\ runs'[r].snap = Snapshot /\ runs'[r].status = runs[r].status
        /\ \A q \in DOMAIN runs : q # r => runs'[q] = runs[q]
    BY <1>1, <1>2, <2>2, <2>3, <2>4, RunUpdated
  <2> QED
    BY <1>1, <2>2, <2>3, <2>5
<1> QED
  BY <1>3, <1>4 DEF Begin

\* begin_run, or a run that goes on: its row holds the parameters of now.
LEMMA StoreBegin == ASSUME StoreInv, Begin PROVE StoreInv'
<1>1. /\ UNCHANGED <<weight, pubkeys, score, signal, cfg, table, todo, wq, torn, scoredWith, starts, seeded>>
      /\ pc = "begin" /\ pc' = "walk"
  BY DEF Begin, history, bounds
<1>2. /\ runs' \in Seq(RunRows) /\ run' \in DOMAIN runs' /\ Len(runs') <= Len(runs) + 1
      /\ runs'[run'].snap = Snapshot /\ runs'[run'].status # "done"
      /\ \A q \in DOMAIN runs' : q # run' => q \in DOMAIN runs /\ runs'[q] = runs[q]
  BY BeginRow
<1>3. cfg \in Configs /\ table \in [Rows -> Value] /\ run = None /\ wq = <<>>
  BY <1>1 DEF StoreInv, ProcessTypes, OwnRunInv, Live
<1>4. Snapshot' = Snapshot
  BY <1>1 DEF Snapshot
<1>5. TableTypes'
  BY <1>1, <1>2 DEF StoreInv, TableTypes
<1>6. ProcessTypes'
  BY <1>1, <1>3 DEF StoreInv, ProcessTypes, Live
<1>7. OwnRunInv'
  <2>1. Len(runs) \in Nat /\ Len(runs') \in Nat /\ starts \in Nat /\ Len(runs) < starts
    BY <1>1, <1>2, VerdictsConstants DEF StoreInv, TableTypes, ProcessTypes, OwnRunInv
  <2>2. Len(runs') <= starts'
    BY <1>1, <1>2, <2>1
  <2> QED
    BY <1>1, <1>2, <1>3, <1>4, <2>2 DEF OwnRunInv, Live
<1>8. SeedInv'
  BY <1>1 DEF StoreInv, SeedInv
<1>9. FreshInv'
  BY <1>1 DEF FreshInv
<1>10. ScoresInv'
  <2>1. ASSUME NEW r \in DOMAIN runs', runs'[r].status = "done" /\ r \notin torn' /\ run' # r,
               NEW p \in Keys
        PROVE  Reproduced(r, p)'
    <3>1. r \in DOMAIN runs /\ runs'[r] = runs[r]
      BY <1>2, <2>1
    <3>2. r \in Int
      BY <3>1 DEF StoreInv, TableTypes
    <3>3. run # r
      BY <1>3, <3>2, VerdictsConstants
    <3>4. Reproduced(r, p)
      BY <1>1, <2>1, <3>1, <3>3 DEF StoreInv, ScoresInv
    <3> QED
      BY <1>1, <3>1, <3>4, ReproducedFrame
  <2>2. \A r \in RunIds, p \in Keys : score'[r][p] # None => p \in pubkeys' /\ score'[r][p].z \in Int
    BY <1>1 DEF StoreInv, ScoresInv
  <2> QED
    BY <2>1, <2>2 DEF ScoresInv
<1>11. ListedInv'
  BY <1>1 DEF StoreInv, ListedInv
<1> QED
  BY <1>5, <1>6, <1>7, <1>8, <1>9, <1>10, <1>11 DEF StoreInv

\* The walk: whatever was found is to be scored.
LEMMA StoreWalk == ASSUME StoreInv, Walk PROVE StoreInv'
<1>1. /\ UNCHANGED <<weight, runs, score, signal, cfg, table, run, wq, torn, starts, seeded>>
      /\ pc = "walk" /\ pc' = "score" /\ todo' = pubkeys'
      /\ scoredWith' = [scoredWith EXCEPT ![run] = cfg.on]
  BY DEF Walk, bounds
<1>2. pubkeys \subseteq pubkeys' /\ pubkeys' \subseteq Keys
  <2>1. PICK found \in Walks : pubkeys' = pubkeys \cup found
    BY DEF Walk
  <2>2. found \subseteq Keys /\ pubkeys \subseteq Keys
    BY VerdictsConstants DEF StoreInv, TableTypes
  <2> QED
    BY <2>1, <2>2
<1>3. cfg \in Configs /\ cfg.on \subseteq Layers /\ table \in [Rows -> Value]
  BY <1>1, VerdictsConstants DEF StoreInv, ProcessTypes, Live
<1>4. /\ run \in DOMAIN runs /\ runs[run].status # "done" /\ runs[run].snap = Snapshot
      /\ run \in RunIds /\ DOMAIN runs \subseteq RunIds /\ wq = <<>>
  BY <1>1, RunInRange DEF StoreInv, OwnRunInv, Live
<1>5. scoredWith \in [RunIds -> SUBSET Layers]
  BY DEF StoreInv, TableTypes
<1>6. /\ scoredWith' \in [RunIds -> SUBSET Layers] /\ scoredWith'[run] = cfg.on
      /\ \A r \in RunIds : r # run => scoredWith'[r] = scoredWith[r]
  BY <1>1, <1>3, <1>4, <1>5
<1>7. TableTypes'
  BY <1>1, <1>2, <1>6 DEF StoreInv, TableTypes
<1>8. ProcessTypes'
  <2>1. wq' \in Seq(Messages')
    BY <1>1, <1>4
  <2> QED
    BY <1>1, <1>3, <2>1 DEF StoreInv, ProcessTypes
<1>9. OwnRunInv'
  <2>1. Snapshot' = Snapshot
    BY <1>1 DEF Snapshot
  <2> QED
    BY <1>1, <1>4, <1>6, <2>1 DEF StoreInv, OwnRunInv, Live
<1>10. SeedInv'
  BY <1>1 DEF StoreInv, SeedInv
<1>11. FreshInv'
  BY <1>1 DEF FreshInv
<1>12. ScoresInv'
  <2>1. ASSUME NEW r \in DOMAIN runs, runs[r].status = "done" /\ r \notin torn /\ run # r,
               NEW p \in Keys
        PROVE  Reproduced(r, p)'
    BY <1>1, <1>4, <1>6, <2>1, ReproducedFrame DEF StoreInv, ScoresInv
  <2>2. \A r \in RunIds, p \in Keys : score'[r][p] # None => p \in pubkeys' /\ score'[r][p].z \in Int
    BY <1>1, <1>2 DEF StoreInv, ScoresInv
  <2> QED
    BY <1>1, <2>1, <2>2 DEF ScoresInv
<1>13. ListedInv'
  BY <1>1 DEF StoreInv, ListedInv
<1> QED
  BY <1>7, <1>8, <1>9, <1>10, <1>11, <1>12, <1>13 DEF StoreInv

\* Every row of the run is reproduced once the pubkeys are scored and the writer has
\* nothing left.
LEMMA AllReproduced ==
  ASSUME StoreInv, pc = "closing", runs[run].status = "done", wq = <<>>, NEW p \in Keys
  PROVE  Reproduced(run, p)
<1>1. CASE p \in pubkeys
  <2>1. todo = {} /\ Len(wq) = 0
    BY DEF StoreInv, OwnRunInv
  <2>2. ~ \E i \in 1 .. Len(wq) : wq[i].key = p
    BY <2>1
  <2>3. p \in todo \/ (\E i \in 1 .. Len(wq) : wq[i].key = p) \/ Reproduced(run, p)
    BY <1>1 DEF StoreInv, FreshInv
  <2> QED
    BY <2>1, <2>2, <2>3
<1>2. CASE p \notin pubkeys
  <2>1. run \in RunIds
    BY RunInRange DEF StoreInv, Live
  <2>2. score[run][p] = None
    BY <1>2, <2>1 DEF StoreInv, ScoresInv
  <2> QED
    BY <2>2 DEF Reproduced
<1> QED
  BY <1>1, <1>2

\* The process ends; a run it leaves behind as done is torn or complete.
LEMMA StoreEnd == ASSUME StoreInv, Abort \/ Close \/ Kill PROVE StoreInv'
<1>1. /\ UNCHANGED <<weight, pubkeys, score, signal, scoredWith, starts>>
      /\ pc' = "down" /\ run' = None /\ todo' = {} /\ wq' = <<>> /\ seeded' = 0
      /\ torn \subseteq torn'
  BY DEF Abort, Close, Kill, End, history, bounds, database
<1>2. /\ runs' \in Seq(RunRows) /\ Len(runs') = Len(runs) /\ DOMAIN runs' = DOMAIN runs
      /\ \A q \in DOMAIN runs : runs'[q].status = "done" => runs'[q] = runs[q]
  <2>1. runs \in Seq(RunRows)
    BY DEF StoreInv, TableTypes
  <2>2. CASE Abort
    <3>1. run \in DOMAIN runs
      BY <2>2 DEF StoreInv, OwnRunInv, Live, Abort
    <3>2. runs' = [runs EXCEPT ![run].status = "aborted"]
      BY <2>2 DEF Abort
    <3>3. runs[run].snap \in [tau : Int, bias : Int, w : [Layers -> Value]]
      <4>1. runs[run] \in RunRows
        BY <2>1, <3>1
      <4> QED
        BY <4>1 DEF RunRows
    <3>4. /\ runs' \in Seq(RunRows) /\ Len(runs') = Len(runs) /\ DOMAIN runs' = DOMAIN runs
          /\ runs'[run].status = "aborted"
          /\ \A q \in DOMAIN runs : q # run => runs'[q] = runs[q]
      BY <2>1, <3>1, <3>2, <3>3, RunUpdated
    <3> QED
      BY <3>4
  <2>3. CASE ~Abort
    <3>1. runs' = runs
      BY <2>3 DEF Close, Kill, database
    <3> QED
      BY <2>1, <3>1
  <2> QED
    BY <2>2, <2>3
<1>3. ~Live'
  BY <1>1 DEF Live
<1>4. TableTypes'
  BY <1>1, <1>2 DEF StoreInv, TableTypes
<1>5. ProcessTypes'
  BY <1>1, <1>3 DEF StoreInv, ProcessTypes
<1>6. OwnRunInv'
  BY <1>1, <1>2, <1>3 DEF StoreInv, OwnRunInv
<1>7. SeedInv'
  <2>1. runs' # <<>> => runs # <<>>
    BY <1>2 DEF StoreInv, TableTypes
  <2> QED
    BY <1>1, <2>1 DEF StoreInv, SeedInv
<1>8. FreshInv'
  BY <1>1 DEF FreshInv
<1>9. ScoresInv'
  <2>1. ASSUME NEW r \in DOMAIN runs', runs'[r].status = "done" /\ r \notin torn' /\ run' # r,
               NEW p \in Keys
        PROVE  Reproduced(r, p)'
    <3>1. r \in DOMAIN runs /\ runs'[r] = runs[r] /\ r \notin torn
      BY <1>1, <1>2, <2>1
    <3>2. Reproduced(r, p)
      <4>1. CASE run # r
        BY <2>1, <3>1, <4>1 DEF StoreInv, ScoresInv
      <4>2. CASE run = r
        <5>1. Live
          <6>1. r \in Int
            BY <3>1 DEF StoreInv, TableTypes
          <6> QED
            BY <4>2, <6>1, VerdictsConstants DEF StoreInv, OwnRunInv
        <5>2. pc = "closing"
          BY <2>1, <3>1, <4>2, <5>1 DEF StoreInv, OwnRunInv, Live
        <5>3. wq = <<>>
          BY <2>1, <3>1, <4>2, <5>2 DEF Abort, Close, Kill
        <5> QED
          BY <2>1, <3>1, <4>2, <5>2, <5>3, AllReproduced
      <4> QED
        BY <4>1, <4>2
    <3> QED
      BY <1>1, <3>1, <3>2, ReproducedFrame
  <2>2. \A r \in RunIds, p \in Keys : score'[r][p] # None => p \in pubkeys' /\ score'[r][p].z \in Int
    BY <1>1 DEF StoreInv, ScoresInv
  <2> QED
    BY <2>1, <2>2 DEF ScoresInv
<1>10. ListedInv'
  BY <1>1 DEF StoreInv, ListedInv
<1> QED
  BY <1>4, <1>5, <1>6, <1>7, <1>8, <1>9, <1>10 DEF StoreInv

\* mark_run_done, with the writer still at work.
LEMMA StoreMarkDone == ASSUME StoreInv, MarkDone PROVE StoreInv'
<1>1. /\ UNCHANGED <<weight, pubkeys, score, signal, cfg, table, run, todo, wq, torn, scoredWith, starts, seeded>>
      /\ pc = "score" /\ pc' = "closing" /\ todo = {}
      /\ runs' = [runs EXCEPT ![run].status = "done"]
  BY DEF MarkDone, history, bounds
<1>2. /\ runs \in Seq(RunRows) /\ run \in DOMAIN runs /\ runs[run].snap = Snapshot
      /\ cfg \in Configs /\ table \in [Rows -> Value] /\ wq \in Seq(Messages)
  BY <1>1 DEF StoreInv, TableTypes, ProcessTypes, OwnRunInv, Live
<1>3. /\ runs' \in Seq(RunRows) /\ Len(runs') = Len(runs) /\ DOMAIN runs' = DOMAIN runs
      /\ runs'[run].status = "done" /\ runs'[run].snap = runs[run].snap
      /\ \A q \in DOMAIN runs : q # run => runs'[q] = runs[q]
  <2>1. runs[run].snap \in [tau : Int, bias : Int, w : [Layers -> Value]]
    <3>1. runs[run] \in RunRows
      BY <1>2
    <3> QED
      BY <3>1 DEF RunRows
  <2> QED
    BY <1>1, <1>2, <2>1, RunUpdated
<1>4. TableTypes'
  BY <1>1, <1>3 DEF StoreInv, TableTypes
<1>5. ProcessTypes'
  <2>1. Messages' = Messages
    BY <1>1 DEF Messages
  <2> QED
    BY <1>1, <1>2, <2>1 DEF StoreInv, ProcessTypes
<1>6. OwnRunInv'
  <2>1. Snapshot' = Snapshot
    BY <1>1 DEF Snapshot
  <2> QED
    BY <1>1, <1>2, <1>3, <2>1 DEF StoreInv, OwnRunInv, Live
<1>7. SeedInv'
  <2>1. runs' # <<>> => runs # <<>>
    BY <1>2, <1>3
  <2> QED
    BY <1>1, <2>1 DEF StoreInv, SeedInv
<1>8. FreshInv'
  <2>1. ASSUME NEW p \in pubkeys
        PROVE  p \in todo \/ (\E i \in 1 .. Len(wq) : wq[i].key = p) \/ Reproduced(run, p)'
    BY <1>1, <1>3, ReproducedFrame DEF StoreInv, FreshInv
  <2> QED
    BY <1>1, <2>1 DEF FreshInv
<1>9. ScoresInv'
  <2>1. ASSUME NEW r \in DOMAIN runs', runs'[r].status = "done" /\ r \notin torn' /\ run' # r,
               NEW p \in Keys
        PROVE  Reproduced(r, p)'
    BY <1>1, <1>3, <2>1, ReproducedFrame DEF StoreInv, ScoresInv
  <2>2. \A r \in RunIds, p \in Keys : score'[r][p] # None => p \in pubkeys' /\ score'[r][p].z \in Int
    BY <1>1 DEF StoreInv, ScoresInv
  <2> QED
    BY <2>1, <2>2 DEF ScoresInv
<1>10. ListedInv'
  BY <1>1 DEF StoreInv, ListedInv
<1> QED
  BY <1>4, <1>5, <1>6, <1>7, <1>8, <1>9, <1>10 DEF StoreInv

\* A batch puts a message about each of its pubkeys behind those that wait.
LEMMA BatchMessages ==
  ASSUME StoreInv, ScoreBatch, todo' # todo
  PROVE  /\ wq' \in Seq(Messages) /\ Len(wq') \in Nat /\ Len(wq) \in Nat /\ Len(wq) <= Len(wq')
         /\ \A i \in 1 .. Len(wq) : wq'[i] = wq[i]
         /\ \A p \in todo : p \in todo' \/ \E i \in 1 .. Len(wq') : wq'[i].key = p
<1>1. PICK answer \in SUBSET NextBatch, order \in Ascending(NextBatch) :
         LET white == Resolve(NextBatch, answer)
             stage == Stage(cfg, table)
         IN  wq' = wq \o [i \in DOMAIN order |-> Verdict(stage, order[i], white[order[i]])]
  BY DEF ScoreBatch
<1>2. pc = "score" /\ todo' = todo \ NextBatch /\ wq \in Seq(Messages)
  BY DEF ScoreBatch, StoreInv, ProcessTypes
<1>3. NextBatch \subseteq todo /\ todo \subseteq pubkeys /\ pubkeys \subseteq Keys
  BY DEF NextBatch, StoreInv, TableTypes
<1>4. Cardinality(NextBatch) \in Nat
  <2>1. IsFiniteSet(NextBatch)
    BY <1>3, FS_Subset, VerdictsConstants
  <2> QED
    BY <2>1, FS_CardinalityType
<1> DEFINE n == Cardinality(NextBatch)
           white == Resolve(NextBatch, answer)
           new == [i \in DOMAIN order |-> Verdict(Stage(cfg, table), order[i], white[order[i]])]
<1>5. order \in [1 .. n -> NextBatch] /\ Range(order) = NextBatch
  BY DEF Ascending
<1>6. ASSUME NEW p \in NextBatch PROVE Verdict(Stage(cfg, table), p, white[p]) \in Messages
  <2>1. white[p] = (p \in answer => p \in Listed)
    BY <1>6 DEF Resolve
  <2>2. white[p] \in BOOLEAN /\ (p \in Listed => white[p])
    BY <2>1
  <2>3. p \in pubkeys
    BY <1>3, <1>6
  <2> DEFINE m == <<p, white[p]>>
  <2>4. m \in pubkeys \X BOOLEAN /\ m[1] = p /\ m[2] = white[p]
    BY <2>2, <2>3
  <2> HIDE DEF m, white
  <2>5. m \in {k \in pubkeys \X BOOLEAN : k[1] \in Listed => k[2]}
    BY <2>2, <2>4
  <2> QED
    BY <2>4, <2>5 DEF Messages
<1>7. ASSUME NEW p, NEW w PROVE Verdict(Stage(cfg, table), p, w).key = p
  BY DEF Verdict
<1>8. wq' = wq \o new
  BY <1>1
<1>9. new \in Seq(Messages) /\ Len(new) = n /\ \A i \in 1 .. n : new[i].key = order[i]
  <2>1. DOMAIN new = 1 .. n
    BY <1>5
  <2>2. \A i \in 1 .. n : order[i] \in NextBatch
    BY <1>5
  <2>3. \A i \in 1 .. n : new[i] = Verdict(Stage(cfg, table), order[i], white[order[i]])
    BY <1>5
  <2>4. \A i \in 1 .. n : new[i] \in Messages
    BY <1>6, <2>2, <2>3
  <2>5. \A i \in 1 .. n : new[i].key = order[i]
    BY <1>7, <2>3
  <2>6. new = [i \in 1 .. n |-> new[i]]
    BY <2>1
  <2> HIDE DEF new, n
  <2>7. new \in [1 .. n -> Messages]
    BY <2>4, <2>6
  <2>8. n \in Nat
    BY <1>4 DEF n
  <2> QED
    BY <2>5, <2>7, <2>8
<1> HIDE DEF new, n, white
<1>10. n \in Nat
  BY <1>4 DEF n
<1>11. /\ wq' \in Seq(Messages) /\ Len(wq') = Len(wq) + n /\ Len(wq) \in Nat
       /\ \A i \in 1 .. Len(wq) : wq'[i] = wq[i]
       /\ \A i \in 1 .. n : wq'[Len(wq) + i] = new[i]
  <2>1. wq' \in Seq(Messages) /\ Len(wq) \in Nat /\ Len(wq') = Len(wq) + n
    <3>1. new \in Seq(Messages) /\ Len(new) = n
      BY <1>9
    <3>2. \A M : wq \in Seq(M) /\ new \in Seq(M)
                    => wq \o new \in Seq(M) /\ Len(wq) \in Nat /\ Len(wq \o new) = Len(wq) + Len(new)
      OBVIOUS
    <3> HIDE DEF Messages
    <3> QED
      BY <1>2, <1>8, <3>1, <3>2
  <2>2. \A i \in 1 .. Len(wq) : wq'[i] = wq[i]
    BY <1>2, <1>8, <1>9, <1>10
  <2>3. \A i \in 1 .. n : wq'[Len(wq) + i] = new[i]
    BY <1>2, <1>8, <1>9, <1>10
  <2> QED
    BY <2>1, <2>2, <2>3
<1>12. ASSUME NEW p \in todo, p \notin todo' PROVE \E i \in 1 .. Len(wq') : wq'[i].key = p
  <2>1. p \in Range(order)
    BY <1>2, <1>5, <1>12
  <2>2. PICK j \in 1 .. n : order[j] = p
    BY <1>5, <2>1 DEF Range
  <2>3. Len(wq) + j \in 1 .. Len(wq')
    BY <1>10, <1>11, <2>2
  <2>4. wq'[Len(wq) + j].key = p
    BY <1>9, <1>11, <2>2
  <2> QED
    BY <2>3, <2>4
<1> QED
  BY <1>10, <1>11, <1>12

\* A batch, or the failed fetch that ends the run.
LEMMA StoreScoreBatch == ASSUME StoreInv, ScoreBatch PROVE StoreInv'
<1>1. /\ UNCHANGED <<weight, pubkeys, runs, score, signal, cfg, table, run, torn, scoredWith, starts, seeded>>
      /\ pc = "score" /\ pc' \in {"score", "closing"} /\ todo' \subseteq todo
  BY DEF ScoreBatch, database, history, bounds
<1>2. /\ wq \in Seq(Messages) /\ runs[run].status # "done" /\ Live /\ Live'
      /\ cfg \in Configs /\ table \in [Rows -> Value]
  BY <1>1 DEF StoreInv, ProcessTypes, OwnRunInv, Live
<1>3. /\ wq' \in Seq(Messages)
      /\ \A p \in todo : p \in todo' \/ \E i \in 1 .. Len(wq') : wq'[i].key = p
      /\ \A i \in 1 .. Len(wq) : i \in 1 .. Len(wq') /\ wq'[i] = wq[i]
  <2>1. CASE todo' # todo
    BY <2>1, BatchMessages
  <2>2. CASE todo' = todo
    <3>1. NextBatch = {} \/ wq' = wq
      BY <2>2 DEF ScoreBatch, NextBatch
    <3>2. wq' = wq
      <4>1. ASSUME NextBatch = {}, NEW order \in Ascending(NextBatch), NEW stage, NEW white
            PROVE  wq \o [i \in DOMAIN order |-> Verdict(stage, order[i], white[order[i]])] = wq
        <5>1. Cardinality(NextBatch) = 0
          BY <4>1, FS_EmptySet
        <5>2. DOMAIN order = {}
          BY <4>1, <5>1 DEF Ascending
        <5>3. [i \in DOMAIN order |-> Verdict(stage, order[i], white[order[i]])] = <<>>
          BY <5>2
        <5> QED
          BY <1>2, <5>3
      <4> QED
        BY <3>1, <4>1 DEF ScoreBatch
    <3> QED
      BY <1>2, <2>2, <3>2
  <2> QED
    BY <2>1, <2>2
<1>4. TableTypes'
  BY <1>1 DEF StoreInv, TableTypes
<1>5. ProcessTypes'
  <2>1. Messages' = Messages
    BY <1>1 DEF Messages
  <2> QED
    BY <1>1, <1>2, <1>3, <2>1 DEF StoreInv, ProcessTypes
<1>6. OwnRunInv'
  <2>1. Snapshot' = Snapshot
    BY <1>1 DEF Snapshot
  <2> QED
    BY <1>1, <1>2, <2>1 DEF StoreInv, OwnRunInv
<1>7. SeedInv'
  BY <1>1 DEF StoreInv, SeedInv
<1>8. FreshInv'
  <2>1. ASSUME NEW p \in pubkeys
        PROVE  p \in todo' \/ (\E i \in 1 .. Len(wq') : wq'[i].key = p) \/ Reproduced(run, p)'
    <3>1. p \in todo \/ (\E i \in 1 .. Len(wq) : wq[i].key = p) \/ Reproduced(run, p)
      BY <1>1 DEF StoreInv, FreshInv
    <3>2. Reproduced(run, p) => Reproduced(run, p)'
      BY <1>1 DEF Reproduced
    <3> QED
      BY <1>3, <3>1, <3>2
  <2> QED
    BY <1>1, <2>1 DEF FreshInv
<1>9. ScoresInv'
  BY <1>1 DEF StoreInv, ScoresInv, Reproduced
<1>10. ListedInv'
  BY <1>1 DEF StoreInv, ListedInv
<1> QED
  BY <1>4, <1>5, <1>6, <1>7, <1>8, <1>9, <1>10 DEF StoreInv

\* A set of numbers up to a bound that is not empty has a greatest element.
LEMMA Greatest ==
  ASSUME NEW n \in Nat, NEW S \in SUBSET (1 .. n), S # {}
  PROVE  \E i \in S : \A j \in i + 1 .. n : j \notin S
<1> DEFINE T == {n - i : i \in S}
<1>1. T \subseteq Nat /\ T # {}
  <2>1. \A i \in S : n - i \in Nat
    OBVIOUS
  <2> QED
    BY <2>1
<1>2. PICK x \in T : \A y \in T : <<y, x>> \notin OpToRel(<, Nat)
  <2>1. IsWellFoundedOn(OpToRel(<, Nat), Nat)
    BY NatLessThanWellFounded
  <2> HIDE DEF T
  <2> QED
    BY <1>1, <2>1, WFMin
<1>3. PICK i \in S : x = n - i
  OBVIOUS
<1>4. ASSUME NEW j \in i + 1 .. n, j \in S PROVE FALSE
  <2>1. n - j \in T /\ n - j \in Nat /\ x \in Nat /\ n - j < x
    BY <1>1, <1>3, <1>4
  <2>2. <<n - j, x>> \in OpToRel(<, Nat)
    BY <2>1 DEF OpToRel
  <2> QED
    BY <1>2, <2>1, <2>2
<1> QED
  BY <1>4

\* What a transaction of the writer does to a pubkey: the row of the last message about
\* it, if there is one among the first n.
LEMMA CommitRows ==
  ASSUME StoreInv, Commit
  PROVE  /\ pc \in {"score", "closing"} /\ run \in RunIds
         /\ \A r \in RunIds : r # run => score'[r] = score[r] /\ signal'[r] = signal[r]
         /\ score' = [r \in RunIds |-> [p \in Keys |-> score'[r][p]]]
         /\ signal' = [r \in RunIds |-> [p \in Keys |-> [l \in Layers |-> signal'[r][p][l]]]]
         /\ wq' \in Seq(Messages)
         /\ \A p \in Keys :
               \/ /\ \E v \in Messages :
                        /\ v.key = p /\ score'[run][p] = v.row
                        /\ \A l \in Layers : signal'[run][p][l] = IF l \in cfg.on THEN v.x[l] ELSE signal[run][p][l]
               \/ /\ score'[run][p] = score[run][p] /\ signal'[run][p] = signal[run][p]
                  /\ \A i \in 1 .. Len(wq) : wq[i].key = p => \E j \in 1 .. Len(wq') : wq'[j].key = p
<1>1. PICK n \in 1 .. Len(wq) :
          /\ score' = [score EXCEPT ![run] = [p \in Keys |->
                 IF LastAbout(p, n) = {} THEN score[run][p]
                 ELSE wq[CHOOSE i \in LastAbout(p, n) : TRUE].row]]
          /\ signal' = [signal EXCEPT ![run] = [p \in Keys |->
                 IF LastAbout(p, n) = {} THEN signal[run][p]
                 ELSE Over(wq[CHOOSE i \in LastAbout(p, n) : TRUE].x, signal[run][p])]]
          /\ wq' = SubSeq(wq, n + 1, Len(wq))
  BY DEF Commit
<1>2. pc \in {"score", "closing"}
  <2>1. wq # <<>>
    BY <1>1
  <2> QED
    BY <2>1 DEF StoreInv, OwnRunInv
<1>3. /\ wq \in Seq(Messages) /\ Len(wq) \in Nat /\ run \in RunIds /\ cfg \in Configs
      /\ table \in [Rows -> Value] /\ pubkeys \subseteq Keys /\ cfg.on \subseteq Layers
  BY <1>2, RunInRange, VerdictsConstants DEF StoreInv, ProcessTypes, TableTypes, Live
<1>4. /\ DOMAIN score = RunIds /\ DOMAIN signal = RunIds
      /\ \A r \in RunIds : score[r] = [p \in Keys |-> score[r][p]]
                          /\ signal[r] = [p \in Keys |-> [l \in Layers |-> signal[r][p][l]]]
  BY DEF StoreInv, TableTypes
<1>5. /\ DOMAIN score' = RunIds /\ DOMAIN signal' = RunIds
      /\ \A r \in RunIds : r # run => score'[r] = score[r] /\ signal'[r] = signal[r]
      /\ score'[run] = [p \in Keys |-> IF LastAbout(p, n) = {} THEN score[run][p]
                                       ELSE wq[CHOOSE i \in LastAbout(p, n) : TRUE].row]
      /\ signal'[run] = [p \in Keys |-> IF LastAbout(p, n) = {} THEN signal[run][p]
                                       ELSE Over(wq[CHOOSE i \in LastAbout(p, n) : TRUE].x, signal[run][p])]
  BY <1>1, <1>3, <1>4
<1>6. wq' \in Seq(Messages) /\ Len(wq') = Len(wq) - n /\ \A j \in 1 .. Len(wq) - n : wq'[j] = wq[n + j]
  BY <1>1, <1>3
<1>7. ASSUME NEW p \in Keys, LastAbout(p, n) # {}
      PROVE  \E v \in Messages :
                /\ v.key = p /\ score'[run][p] = v.row
                /\ DOMAIN signal'[run][p] = Layers
                /\ \A l \in Layers : signal'[run][p][l] = IF l \in cfg.on THEN v.x[l] ELSE signal[run][p][l]
  <2> DEFINE c == CHOOSE i \in LastAbout(p, n) : TRUE
  <2>1. c \in LastAbout(p, n)
    BY <1>7
  <2> HIDE DEF c
  <2>2. c \in 1 .. Len(wq) /\ wq[c].key = p
    BY <1>1, <1>3, <2>1 DEF LastAbout
  <2>3. wq[c] \in Messages
    BY <1>3, <2>2
  <2>4. DOMAIN wq[c].x = cfg.on
    BY <1>3, <2>3, MessageProperties
  <2>5. score'[run][p] = wq[c].row /\ signal'[run][p] = Over(wq[c].x, signal[run][p])
    BY <1>5, <1>7 DEF c
  <2>6. DOMAIN signal[run][p] = Layers
    BY <1>3, <1>4
  <2>7. signal'[run][p] = [l \in Layers |-> IF l \in cfg.on THEN wq[c].x[l] ELSE signal[run][p][l]]
    BY <1>3, <2>4, <2>5, <2>6 DEF Over
  <2> QED
    BY <2>2, <2>3, <2>5, <2>7
<1>8. ASSUME NEW p \in Keys, LastAbout(p, n) = {}
      PROVE  /\ score'[run][p] = score[run][p] /\ signal'[run][p] = signal[run][p]
             /\ \A i \in 1 .. Len(wq) : wq[i].key = p => \E j \in 1 .. Len(wq') : wq'[j].key = p
  <2>1. score'[run][p] = score[run][p] /\ signal'[run][p] = signal[run][p]
    BY <1>5, <1>8
  <2>2. ASSUME NEW i \in 1 .. Len(wq), wq[i].key = p PROVE \E j \in 1 .. Len(wq') : wq'[j].key = p
    <3> DEFINE S == {k \in 1 .. n : wq[k].key = p}
    <3>1. i \notin S
      <4> SUFFICES ASSUME S # {} PROVE FALSE
        OBVIOUS
      <4>1. n \in Nat /\ S \in SUBSET (1 .. n)
        BY <1>3
      <4> HIDE DEF S
      <4>2. PICK k \in S : \A j \in k + 1 .. n : j \notin S
        BY <4>1, Greatest
      <4>3. k \in 1 .. n /\ wq[k].key = p
        BY <4>2 DEF S
      <4>4. \A j \in k + 1 .. n : j \in 1 .. n
        BY <4>1, <4>3
      <4>5. \A j \in k + 1 .. n : wq[j].key # p
        BY <4>2, <4>4 DEF S
      <4>6. k \in LastAbout(p, n)
        BY <4>3, <4>5 DEF LastAbout
      <4> QED
        BY <1>8, <4>6
    <3>2. i - n \in 1 .. Len(wq') /\ n + (i - n) = i
      BY <1>3, <1>6, <2>2, <3>1
    <3>3. wq'[i - n] = wq[i]
      BY <1>6, <3>2
    <3> QED
      BY <2>2, <3>2, <3>3
  <2> QED
    BY <2>1, <2>2
<1>9. score' = [r \in RunIds |-> [p \in Keys |-> score'[r][p]]]
  <2>1. score' = [r \in RunIds |-> score'[r]]
    BY <1>1, <1>5
  <2>2. \A r \in RunIds : score'[r] = [p \in Keys |-> score'[r][p]]
    BY <1>4, <1>5
  <2> QED
    BY <2>1, <2>2
<1>10. signal' = [r \in RunIds |-> [p \in Keys |-> [l \in Layers |-> signal'[r][p][l]]]]
  <2>1. signal' = [r \in RunIds |-> signal'[r]]
    BY <1>1, <1>5
  <2>2. \A r \in RunIds : signal'[r] = [p \in Keys |-> signal'[r][p]]
    BY <1>4, <1>5
  <2>3. ASSUME NEW r \in RunIds, NEW p \in Keys PROVE signal'[r][p] = [l \in Layers |-> signal'[r][p][l]]
    <3>1. signal[r][p] = [l \in Layers |-> signal[r][p][l]]
      BY <1>4
    <3>2. CASE r # run \/ LastAbout(p, n) = {}
      <4>1. signal'[r][p] = signal[r][p]
        BY <1>5, <1>8, <3>2
      <4> QED
        BY <3>1, <4>1
    <3>3. CASE r = run /\ LastAbout(p, n) # {}
      <4>1. DOMAIN signal'[r][p] = Layers
        BY <1>7, <3>3
      <4>2. signal'[run][p] = Over(wq[CHOOSE i \in LastAbout(p, n) : TRUE].x, signal[run][p])
        BY <1>5, <3>3
      <4> QED
        BY <3>3, <4>1, <4>2 DEF Over
    <3> QED
      BY <3>2, <3>3
  <2> QED
    BY <2>1, <2>2, <2>3
<1>11. \A p \in Keys :
          \/ \E v \in Messages :
                /\ v.key = p /\ score'[run][p] = v.row
                /\ \A l \in Layers : signal'[run][p][l] = IF l \in cfg.on THEN v.x[l] ELSE signal[run][p][l]
          \/ /\ score'[run][p] = score[run][p] /\ signal'[run][p] = signal[run][p]
             /\ \A i \in 1 .. Len(wq) : wq[i].key = p => \E j \in 1 .. Len(wq') : wq'[j].key = p
  <2> SUFFICES ASSUME NEW p \in Keys
               PROVE  \/ \E v \in Messages :
                            /\ v.key = p /\ score'[run][p] = v.row
                            /\ \A l \in Layers : signal'[run][p][l] = IF l \in cfg.on THEN v.x[l]
                                                                        ELSE signal[run][p][l]
                      \/ /\ score'[run][p] = score[run][p] /\ signal'[run][p] = signal[run][p]
                         /\ \A i \in 1 .. Len(wq) : wq[i].key = p => \E j \in 1 .. Len(wq') : wq'[j].key = p
    OBVIOUS
  <2>1. CASE LastAbout(p, n) = {}
    BY <1>8, <2>1
  <2>2. CASE LastAbout(p, n) # {}
    <3>1. PICK v \in Messages :
             /\ v.key = p /\ score'[run][p] = v.row
             /\ \A l \in Layers : signal'[run][p][l] = IF l \in cfg.on THEN v.x[l] ELSE signal[run][p][l]
      BY <1>7, <2>2, Zenon
    <3> QED
      BY <3>1
  <2> QED
    BY <2>1, <2>2
<1>12. /\ pc \in {"score", "closing"} /\ run \in RunIds /\ wq' \in Seq(Messages)
       /\ \A r \in RunIds : r # run => score'[r] = score[r] /\ signal'[r] = signal[r]
  BY <1>2, <1>3, <1>5, <1>6
<1> QED
  BY <1>9, <1>10, <1>11, <1>12, Zenon

\* A transaction of the writer.
LEMMA StoreCommit == ASSUME StoreInv, Commit PROVE StoreInv'
<1>1. UNCHANGED <<weight, pubkeys, runs, pc, cfg, table, run, todo, torn, scoredWith, starts, seeded>>
  BY DEF Commit, history, bounds
<1>2. /\ pc \in {"score", "closing"} /\ run \in RunIds
      /\ \A r \in RunIds : r # run => score'[r] = score[r] /\ signal'[r] = signal[r]
      /\ wq' \in Seq(Messages)
  BY CommitRows
<1>3. /\ Live /\ runs[run].snap = Snapshot /\ scoredWith[run] = cfg.on /\ DOMAIN runs \subseteq RunIds
      /\ cfg \in Configs /\ table \in [Rows -> Value] /\ pubkeys \subseteq Keys /\ cfg.on \subseteq Layers
  BY <1>2, RunInRange, VerdictsConstants DEF StoreInv, OwnRunInv, ProcessTypes, TableTypes, Live
<1>4. ASSUME NEW p \in Keys, NEW v \in Messages, v.key = p, score'[run][p] = v.row,
             \A l \in Layers : signal'[run][p][l] = IF l \in cfg.on THEN v.x[l] ELSE signal[run][p][l]
      PROVE  Reproduced(run, p)'
  <2> DEFINE x == [l \in cfg.on |-> signal'[run][p][l]]
  <2>1. v.x = [l \in cfg.on |-> v.x[l]]
    BY <1>3, MessageProperties
  <2>2. x = v.x
    BY <1>3, <1>4, <2>1
  <2> HIDE DEF x
  <2>3. /\ (\A l \in cfg.on : Snapshot.w[l] # None) => v.row.z = combine(Snapshot.w, Snapshot.bias, x)
        /\ v.row.suspected = (v.row.z > Snapshot.tau)
    BY <1>3, <2>2, MessageReproduced
  <2> QED
    BY <1>1, <1>3, <1>4, <2>3 DEF Reproduced, x
<1>5. TableTypes'
  BY <1>1, CommitRows DEF StoreInv, TableTypes
<1>6. ProcessTypes'
  <2>1. Messages' = Messages
    BY <1>1 DEF Messages
  <2> QED
    BY <1>1, <1>2, <1>3, <2>1 DEF StoreInv, ProcessTypes, Live
<1>7. OwnRunInv'
  <2>1. Snapshot' = Snapshot
    BY <1>1 DEF Snapshot
  <2> QED
    BY <1>1, <1>2, <2>1 DEF StoreInv, OwnRunInv, Live
<1>8. SeedInv'
  BY <1>1 DEF StoreInv, SeedInv
<1>9. FreshInv'
  <2>1. ASSUME NEW p \in pubkeys
        PROVE  p \in todo \/ (\E i \in 1 .. Len(wq') : wq'[i].key = p) \/ Reproduced(run, p)'
    <3>1. p \in todo \/ (\E i \in 1 .. Len(wq) : wq[i].key = p) \/ Reproduced(run, p)
      BY <1>2 DEF StoreInv, FreshInv
    <3>2. p \in Keys
      BY <1>3
    <3>3. CASE \E v \in Messages :
                 /\ v.key = p /\ score'[run][p] = v.row
                 /\ \A l \in Layers : signal'[run][p][l] = IF l \in cfg.on THEN v.x[l] ELSE signal[run][p][l]
      BY <1>4, <3>2, <3>3
    <3>4. CASE /\ score'[run][p] = score[run][p] /\ signal'[run][p] = signal[run][p]
               /\ \A i \in 1 .. Len(wq) : wq[i].key = p => \E j \in 1 .. Len(wq') : wq'[j].key = p
      <4>1. Reproduced(run, p) => Reproduced(run, p)'
        BY <1>1, <3>4 DEF Reproduced
      <4> QED
        BY <3>1, <3>4, <4>1
    <3> QED
      BY <3>2, <3>3, <3>4, CommitRows
  <2> QED
    BY <1>1, <2>1 DEF FreshInv
<1>10. ScoresInv'
  <2>1. ASSUME NEW r \in DOMAIN runs, runs[r].status = "done" /\ r \notin torn /\ run # r,
               NEW p \in Keys
        PROVE  Reproduced(r, p)'
    <3>1. score'[r] = score[r] /\ signal'[r] = signal[r]
      BY <1>2, <1>3, <2>1
    <3>2. Reproduced(r, p)
      BY <2>1 DEF StoreInv, ScoresInv
    <3> QED
      BY <1>1, <3>1, <3>2, ReproducedFrame
  <2>2. ASSUME NEW r \in RunIds, NEW p \in Keys, score'[r][p] # None PROVE p \in pubkeys /\ score'[r][p].z \in Int
    <3>1. CASE score'[r][p] = score[r][p]
      BY <2>2, <3>1 DEF StoreInv, ScoresInv
    <3>2. CASE score'[r][p] # score[r][p]
      <4>1. r = run
        BY <1>2, <3>2
      <4>2. PICK v \in Messages : v.key = p /\ score'[run][p] = v.row
        BY <3>2, <4>1, CommitRows
      <4> QED
        BY <1>3, <4>1, <4>2, MessageProperties, MessageScore
    <3> QED
      BY <3>1, <3>2
  <2> QED
    BY <1>1, <2>1, <2>2 DEF ScoresInv
<1>11. ListedInv'
  <2> SUFFICES ASSUME NEW r \in RunIds, NEW p \in Listed
               PROVE  /\ signal'[r][p]["L0"] \in {None, 0}
                      /\ score'[r][p] # None => score'[r][p].white
    BY DEF ListedInv
  <2>1. p \in Keys /\ "L0" \in Layers
    BY VerdictsConstants
  <2>2. signal[r][p]["L0"] \in {None, 0} /\ (score[r][p] # None => score[r][p].white)
    BY DEF StoreInv, ListedInv
  <2>3. CASE r = run
    <3>1. CASE \E v \in Messages :
                 /\ v.key = p /\ score'[run][p] = v.row
                 /\ \A l \in Layers : signal'[run][p][l] = IF l \in cfg.on THEN v.x[l] ELSE signal[run][p][l]
      <4>1. PICK v \in Messages :
                 /\ v.key = p /\ score'[run][p] = v.row
                 /\ \A l \in Layers : signal'[run][p][l] = IF l \in cfg.on THEN v.x[l] ELSE signal[run][p][l]
        BY <3>1
      <4>2. v.row.white /\ ("L0" \in cfg.on => v.x["L0"] = 0)
        BY <1>3, <4>1, MessageProperties
      <4>3. signal'[run][p]["L0"] = IF "L0" \in cfg.on THEN v.x["L0"] ELSE signal[run][p]["L0"]
        BY <2>1, <4>1
      <4> QED
        BY <2>2, <2>3, <4>1, <4>2, <4>3
    <3>2. CASE score'[run][p] = score[run][p] /\ signal'[run][p] = signal[run][p]
      BY <2>2, <2>3, <3>2
    <3> QED
      BY <2>1, <3>1, <3>2, CommitRows
  <2>4. CASE r # run
    BY <1>2, <2>2, <2>4
  <2> QED
    BY <2>3, <2>4
<1> QED
  BY <1>5, <1>6, <1>7, <1>8, <1>9, <1>10, <1>11 DEF StoreInv

\* write_weights: rows that are there stay there.
LEMMA StoreTuneAdopt == ASSUME StoreInv, TuneInv, TuneAdopt PROVE StoreInv'
<1>1. UNCHANGED <<pubkeys, runs, score, signal, batch, torn, scoredWith, starts>>
  BY DEF TuneAdopt, bounds
<1>2. weight \in [Rows -> Value]
  BY DEF StoreInv, TableTypes
<1>3. tune.fit.bias \in Int /\ tune.fit.w \in [Layers -> Int]
  BY DEF TuneAdopt, TuneInv, TuneOwn
<1>4. weight' = [k \in Rows |-> CASE weight[k] = None \/ k = "_threshold" -> weight[k]
                                  [] weight[k] # None /\ k = "_bias"       -> tune.fit.bias
                                  [] OTHER                                 -> tune.fit.w[k]]
  BY DEF TuneAdopt
<1>5. ASSUME NEW k \in Rows PROVE weight'[k] \in Value /\ (weight[k] # None => weight'[k] # None)
  <2>1. CASE weight[k] = None \/ k = "_threshold"
    BY <1>2, <1>4, <2>1
  <2>2. CASE weight[k] # None /\ k = "_bias"
    <3>1. weight'[k] = tune.fit.bias
      BY <1>4, <2>2
    <3> QED
      BY <1>3, <3>1, VerdictsConstants DEF Value
  <2>3. CASE weight[k] # None /\ k \in Layers
    <3>1. k # "_bias" /\ k # "_threshold"
      BY <2>3, VerdictsConstants
    <3>2. weight'[k] = tune.fit.w[k]
      BY <1>4, <2>3, <3>1
    <3>3. tune.fit.w[k] \in Int
      BY <1>3, <2>3
    <3> QED
      BY <3>2, <3>3, VerdictsConstants DEF Value
  <2> QED
    BY <2>1, <2>2, <2>3 DEF Rows
<1>6. weight' \in [Rows -> Value]
  <2>1. weight' = [k \in Rows |-> weight'[k]]
    BY <1>4
  <2> QED
    BY <1>5, <2>1
<1>7. TableTypes'
  BY <1>1, <1>6 DEF StoreInv, TableTypes, batch
<1>8. ProcessTypes'
  BY <1>1 DEF StoreInv, ProcessTypes, batch, Messages, Live
<1>9. OwnRunInv'
  BY <1>1 DEF StoreInv, OwnRunInv, batch, Live, Snapshot
<1>10. SeedInv'
  BY <1>1, <1>5 DEF StoreInv, SeedInv, batch
<1>11. FreshInv' /\ ScoresInv'
  BY <1>1 DEF StoreInv, FreshInv, ScoresInv, batch, Reproduced
<1>12. ListedInv'
  BY <1>1 DEF StoreInv, ListedInv
<1> QED
  BY <1>7, <1>8, <1>9, <1>10, <1>11, <1>12 DEF StoreInv

\* Every step of every command keeps the invariant of the tables.
LEMMA StoreStep == ASSUME StoreInv, TuneInv, [Next]_vars PROVE StoreInv'
<1>1. CASE Start \/ Seed \/ ReadWeights
  BY <1>1, StoreSeed
<1>2. CASE Begin
  BY <1>2, StoreBegin
<1>3. CASE Walk
  BY <1>3, StoreWalk
<1>4. CASE Abort \/ Close \/ Kill
  BY <1>4, StoreEnd
<1>5. CASE ScoreBatch
  BY <1>5, StoreScoreBatch
<1>6. CASE Commit
  BY <1>6, StoreCommit
<1>7. CASE MarkDone
  BY <1>7, StoreMarkDone
<1>8. CASE TuneAdopt
  BY <1>8, StoreTuneAdopt
<1>9. CASE Label \/ TuneStart \/ TuneQueue \/ TuneLabels \/ TuneFit \/ ExportStart \/ ExportInsert
           \/ UNCHANGED vars
  <2>1. UNCHANGED <<weight, pubkeys, runs, score, signal, batch, torn, scoredWith, starts>>
    BY <1>9 DEF Label, TuneStart, TuneQueue, TuneLabels, TuneFit, ExportStart, ExportInsert,
                vars, database, history, bounds
  <2> QED
    BY <2>1, StoreFrame
<1> QED
  BY <1>1, <1>2, <1>3, <1>4, <1>5, <1>6, <1>7, <1>8, <1>9 DEF Next

-----------------------------------------------------------------------------
(* `tune'                                                                  *)

\* Nothing is written to a run that is done and left behind, and it stays so.
LEMMA FrozenStays ==
  ASSUME StoreInv, [Next]_vars, NEW r, Frozen(r)
  PROVE  Frozen(r)' /\ score'[r] = score[r] /\ signal'[r] = signal[r]
<1>1. r \in DOMAIN runs /\ runs[r].status = "done" /\ run # r /\ r \in Int /\ r # None /\ r \in RunIds
  BY RunInRange, VerdictsConstants DEF Frozen, StoreInv
<1>2. runs \in Seq(RunRows)
  BY DEF StoreInv, TableTypes
<1>3. CASE Begin
  BY <1>1, <1>3, BeginRow DEF Frozen, Begin
<1>4. CASE Abort \/ MarkDone
  <2>1. PICK t \in {"aborted", "done"} : runs' = [runs EXCEPT ![run].status = t]
    BY <1>4 DEF Abort, MarkDone
  <2>2. DOMAIN runs' = DOMAIN runs /\ runs'[r] = runs[r]
    BY <1>1, <1>2, <2>1
  <2>3. run' \in {run, None} /\ score' = score /\ signal' = signal
    BY <1>4 DEF Abort, MarkDone, End
  <2> QED
    BY <1>1, <2>2, <2>3 DEF Frozen
<1>5. CASE Commit
  BY <1>1, <1>5, CommitRows DEF Frozen, Commit
<1>6. CASE Close \/ Kill
  BY <1>1, <1>6 DEF Frozen, Close, Kill, End, database
<1>7. CASE Start \/ Seed \/ ReadWeights \/ Walk \/ ScoreBatch
  BY <1>1, <1>7 DEF Frozen, Start, Seed, ReadWeights, Walk, ScoreBatch, database
<1>8. CASE Label \/ TuneStart \/ TuneQueue \/ TuneLabels \/ TuneFit \/ TuneAdopt \/ ExportStart
           \/ ExportInsert \/ UNCHANGED vars
  BY <1>1, <1>8 DEF Frozen, Label, TuneStart, TuneQueue, TuneLabels, TuneFit, TuneAdopt, ExportStart,
                    ExportInsert, vars, database, batch
<1> QED
  BY <1>3, <1>4, <1>5, <1>6, <1>7, <1>8 DEF Next

\* No run is forgotten, and once there is one only an adoption writes to the weights.
LEMMA WeightKept ==
  ASSUME StoreInv, [Next]_vars
  PROVE  /\ DOMAIN runs \subseteq DOMAIN runs'
         /\ runs # <<>> /\ ~TuneAdopt => weight' = weight
<1>1. runs \in Seq(RunRows)
  BY DEF StoreInv, TableTypes
<1>2. CASE Seed
  <2>1. runs' = runs /\ pc = "seed"
    BY <1>2 DEF Seed
  <2>2. seeded \in Nat /\ (seeded > 0 => runs = <<>>) /\ (runs # <<>> => \E k \in Rows : weight[k] # None)
    BY <2>1 DEF StoreInv, ProcessTypes, SeedInv
  <2>3. runs # <<>> => seeded = 0 /\ \E k \in Rows : weight[k] # None
    BY <2>2
  <2>4. runs # <<>> => weight' = weight
    BY <1>2, <2>3 DEF Seed
  <2> QED
    BY <2>1, <2>4
<1>3. CASE Begin
  BY <1>3, BeginRow DEF Begin
<1>4. CASE Abort \/ MarkDone
  <2>1. PICK t \in {"aborted", "done"} : runs' = [runs EXCEPT ![run].status = t]
    BY <1>4 DEF Abort, MarkDone
  <2>2. DOMAIN runs' = DOMAIN runs
    BY <2>1
  <2> QED
    BY <1>4, <2>2 DEF Abort, MarkDone
<1>5. CASE Start \/ ReadWeights \/ Walk \/ ScoreBatch \/ Commit \/ Close \/ Kill
  BY <1>5 DEF Start, ReadWeights, Walk, ScoreBatch, Commit, Close, Kill, database
<1>6. CASE Label \/ TuneStart \/ TuneQueue \/ TuneLabels \/ TuneFit \/ TuneAdopt \/ ExportStart
           \/ ExportInsert \/ UNCHANGED vars
  BY <1>6 DEF Label, TuneStart, TuneQueue, TuneLabels, TuneFit, TuneAdopt, ExportStart,
              ExportInsert, vars, database
<1> QED
  BY <1>2, <1>3, <1>4, <1>5, <1>6 DEF Next

\* A fitted model has a weight for every layer, whichever class the regression counts first.
LEMMA FittedType == Fitted \subseteq [w : [Layers -> Int], bias : Int]
<1>1. ASSUME NEW f \in [w : [Layers -> Int], bias : Int] PROVE Negated(f) \in [w : [Layers -> Int], bias : Int]
  <2>1. -f.bias \in Int /\ \A l \in Layers : -f.w[l] \in Int
    OBVIOUS
  <2>2. [l \in Layers |-> -f.w[l]] \in [Layers -> Int]
    BY <2>1
  <2> QED
    BY <2>1, <2>2 DEF Negated
<1>2. Fits \subseteq [w : [Layers -> Int], bias : Int]
  BY VerdictsConstants
<1>3. ASSUME NEW f \in Fits, NEW b \in BOOLEAN
      PROVE  Raw(f, b) \in [w : [Layers -> Int], bias : Int]
  BY <1>1, <1>2 DEF Raw
<1>4. ASSUME NEW f \in Fits, NEW b \in BOOLEAN
      PROVE  (IF b THEN Raw(f, b) ELSE Negated(Raw(f, b))) \in [w : [Layers -> Int], bias : Int]
  BY <1>1, <1>3
<1> QED
  BY <1>4 DEF Fitted

\* Initially nothing is tuned or adopted.
LEMMA TuneInit == Init => TuneInv
BY DEF Init, TuneInv, TuneOwn, AdoptedInv, AdoptedAgrees, Off

\* As long as `tune' does not go on, what it has read stands.
LEMMA TuneWaits ==
  ASSUME StoreInv, TuneInv, [Next]_vars, tune' = tune, ~TuneAdopt
  PROVE  TuneOwn'
<1>1. DOMAIN runs \subseteq DOMAIN runs' /\ (runs # <<>> => weight' = weight)
  BY WeightKept
<1>2. CASE tune.at = "off"
  BY <1>2 DEF TuneOwn
<1>3. CASE tune.at # "off"
  <2>1. tune.run \in DOMAIN runs /\ (tune.calm => Frozen(tune.run))
    BY <1>3 DEF TuneInv, TuneOwn
  <2>2. runs # <<>>
    BY <2>1
  <2>3. tune.calm => Frozen(tune.run)' /\ signal'[tune.run] = signal[tune.run]
    BY <2>1, FrozenStays
  <2>4. tune.at = "adopt" /\ tune.calm => Backtest(tune.fit, Tau(tune.cfg, weight), tune.run, tune.labels)'
    BY <1>1, <2>2, <2>3 DEF TuneInv, TuneOwn, Backtest, Flags, Features
  <2> QED
    BY <1>1, <2>1, <2>3, <2>4 DEF TuneInv, TuneOwn, Frozen
<1> QED
  BY <1>2, <1>3

\* The steps of `tune'.
LEMMA TuneGoesOn ==
  ASSUME StoreInv, TuneInv, TuneStart \/ TuneQueue \/ TuneLabels \/ TuneFit \/ TuneAdopt
  PROVE  TuneOwn'
<1>1. UNCHANGED <<runs, signal, run>>
  BY DEF TuneStart, TuneQueue, TuneLabels, TuneFit, TuneAdopt, database, batch
<1>2. \A r : Frozen(r)' <=> Frozen(r)
  BY <1>1 DEF Frozen
<1>3. CASE TuneStart
  <2>1. PICK c \in Configs, r \in DOMAIN runs, default \in BOOLEAN :
            /\ default => r \in LatestDone
            /\ tune' = [at |-> "queue", cfg |-> c, run |-> r, calm |-> default /\ Calm(r),
                        sample |-> Sample(r, c.sample)]
    BY <1>3 DEF TuneStart
  <2>2. tune'.at = "queue" /\ tune'.run = r /\ tune'.calm = (default /\ Calm(r))
    BY <2>1
  <2>3. ASSUME default, Calm(r) PROVE Frozen(r)
    <3>1. runs[r].status = "done"
      BY <2>1, <2>3 DEF LatestDone
    <3>2. r \in Int
      BY DEF StoreInv, TableTypes
    <3>3. run # r
      BY <2>3, <3>1, <3>2, VerdictsConstants DEF Calm, StoreInv, OwnRunInv, Live
    <3> QED
      BY <3>1, <3>3 DEF Frozen
  <2>4. tune'.run \in DOMAIN runs' /\ (tune'.calm => Frozen(r)')
    BY <1>1, <1>2, <2>2, <2>3
  <2> QED
    BY <2>2, <2>4 DEF TuneOwn, Frozen
<1>4. CASE tune'.at \in {"labels", "fit"} /\ tune.at # "off" /\ tune'.run = tune.run /\ tune'.calm = tune.calm
  BY <1>1, <1>4 DEF TuneInv, TuneOwn, Frozen
<1>5. CASE tune' = Off
  BY <1>5 DEF TuneOwn, Off
<1>6. CASE TuneQueue
  BY <1>4, <1>6 DEF TuneQueue
<1>7. CASE TuneLabels
  BY <1>4, <1>5, <1>7 DEF TuneLabels
<1>8. CASE TuneFit
  <2>1. PICK fit \in Fitted :
            tune' = IF Backtest(fit, Tau(tune.cfg, weight), tune.run, tune.labels)
                    THEN [at |-> "adopt", fit |-> fit, run |-> tune.run, calm |-> tune.calm,
                          cfg |-> tune.cfg, labels |-> tune.labels]
                    ELSE Off
    BY <1>8 DEF TuneFit
  <2>2. CASE Backtest(fit, Tau(tune.cfg, weight), tune.run, tune.labels)
    <3>1. /\ tune'.at = "adopt" /\ tune'.fit = fit /\ tune'.run = tune.run /\ tune'.calm = tune.calm
          /\ tune'.cfg = tune.cfg /\ tune'.labels = tune.labels
      BY <2>1, <2>2
    <3>2. fit \in [w : [Layers -> Int], bias : Int]
      BY FittedType
    <3>3. weight' = weight
      BY <1>8 DEF TuneFit, database
    <3>4. Backtest(tune.fit, Tau(tune.cfg, weight), tune.run, tune.labels)'
      BY <1>1, <2>2, <3>1, <3>3 DEF Backtest, Flags, Features
    <3>5. tune.at # "off"
      BY <1>8 DEF TuneFit
    <3> QED
      BY <1>1, <3>1, <3>2, <3>4, <3>5 DEF TuneInv, TuneOwn, Frozen
  <2>3. CASE ~Backtest(fit, Tau(tune.cfg, weight), tune.run, tune.labels)
    BY <1>5, <2>1, <2>3
  <2> QED
    BY <2>2, <2>3
<1>9. CASE TuneAdopt
  BY <1>5, <1>9 DEF TuneAdopt
<1> QED
  BY <1>3, <1>6, <1>7, <1>8, <1>9

\* What was adopted stands as long as nothing else is adopted.
LEMMA AdoptedStands ==
  ASSUME StoreInv, TuneInv, [Next]_vars, ~TuneAdopt
  PROVE  AdoptedInv'
<1>1. DOMAIN runs \subseteq DOMAIN runs' /\ (runs # <<>> => weight' = weight)
  BY WeightKept
<1>2. adopted' = adopted
  BY DEF Next, Start, Seed, ReadWeights, Begin, Walk, Abort, ScoreBatch, Commit, MarkDone, Close, Kill,
         Label, TuneStart, TuneQueue, TuneLabels, TuneFit, ExportStart, ExportInsert, vars, history
<1>3. CASE adopted = None
  BY <1>2, <1>3 DEF AdoptedInv, AdoptedAgrees
<1>4. CASE adopted # None
  <2>1. adopted.run \in DOMAIN runs /\ (adopted.calm => Frozen(adopted.run))
    BY <1>4 DEF TuneInv, AdoptedInv
  <2>2. weight' = weight
    BY <1>1, <2>1
  <2>3. adopted.calm => Frozen(adopted.run)' /\ signal'[adopted.run] = signal[adopted.run]
    BY <1>2, <2>1, FrozenStays
  <2>4. AdoptedAgrees'
    BY <1>2, <2>2, <2>3 DEF TuneInv, AdoptedInv, AdoptedAgrees, Flags, Features
  <2> QED
    BY <1>1, <1>2, <2>1, <2>3, <2>4 DEF AdoptedInv, Frozen
<1> QED
  BY <1>3, <1>4

\* An adoption: the backtest was made with the weights that are written and the threshold
\* that stays.
LEMMA Adopting == ASSUME StoreInv, TuneInv, TuneAdopt PROVE AdoptedInv'
<1>1. /\ UNCHANGED <<runs, signal, run>> /\ tune.at = "adopt"
      /\ adopted' = [run |-> tune.run, labels |-> tune.labels, calm |-> tune.calm]
  BY DEF TuneAdopt, batch
<1>2. adopted'.run = tune.run /\ adopted'.labels = tune.labels /\ adopted'.calm = tune.calm
  BY <1>1
<1>3. /\ tune.run \in DOMAIN runs /\ (tune.calm => Frozen(tune.run))
      /\ tune.calm => Backtest(tune.fit, Tau(tune.cfg, weight), tune.run, tune.labels)
  BY <1>1 DEF TuneInv, TuneOwn
<1>4. weight' = [k \in Rows |-> CASE weight[k] = None \/ k = "_threshold" -> weight[k]
                                  [] weight[k] # None /\ k = "_bias"       -> tune.fit.bias
                                  [] OTHER                                 -> tune.fit.w[k]]
  BY DEF TuneAdopt
<1>5. ASSUME tune.calm, \A k \in Rows : weight'[k] # None, NEW p \in Keys, tune.labels[p] # None
      PROVE  Flags(weight', weight'["_bias"], weight'["_threshold"], tune.run, p) <=> tune.labels[p]
  <2>1. "_bias" \in Rows /\ "_threshold" \in Rows /\ Layers \subseteq Rows
    BY DEF Rows
  <2>2. \A k \in Rows : weight[k] # None
    BY <1>4, <1>5
  <2>3. weight'["_threshold"] = Tau(tune.cfg, weight)
    BY <1>4, <2>1, <2>2 DEF Tau, Or
  <2>4. weight'["_bias"] = tune.fit.bias
    BY <1>4, <2>1, <2>2
  <2>5. ASSUME NEW l \in Layers PROVE weight'[l] = tune.fit.w[l]
    <3>1. l # "_bias" /\ l # "_threshold" /\ l \in Rows
      BY <2>1, VerdictsConstants
    <3> QED
      BY <1>4, <2>2, <3>1
  <2>6. DOMAIN Features(tune.run, p) = Layers
    BY DEF Features
  <2>7. combine(weight', tune.fit.bias, Features(tune.run, p)) = combine(tune.fit.w, tune.fit.bias, Features(tune.run, p))
    BY <2>5, <2>6, CombineSame
  <2>8. Flags(tune.fit.w, tune.fit.bias, Tau(tune.cfg, weight), tune.run, p) <=> tune.labels[p]
    BY <1>3, <1>5 DEF Backtest
  <2> QED
    BY <2>3, <2>4, <2>7, <2>8 DEF Flags
<1>6. AdoptedAgrees'
  BY <1>1, <1>2, <1>5 DEF AdoptedAgrees, Flags, Features
<1> QED
  BY <1>1, <1>2, <1>3, <1>6 DEF AdoptedInv, Frozen

\* Every step of every command keeps the invariant of `tune'.
LEMMA TuneStep == ASSUME StoreInv, TuneInv, [Next]_vars PROVE TuneInv'
<1>1. CASE TuneAdopt
  BY <1>1, TuneGoesOn, Adopting DEF TuneInv
<1>2. CASE TuneStart \/ TuneQueue \/ TuneLabels \/ TuneFit
  <2>1. ~TuneAdopt
    BY <1>2 DEF TuneStart, TuneQueue, TuneLabels, TuneFit, TuneAdopt, Off
  <2> QED
    BY <1>2, <2>1, TuneGoesOn, AdoptedStands DEF TuneInv
<1>3. CASE ~(TuneAdopt \/ TuneStart \/ TuneQueue \/ TuneLabels \/ TuneFit)
  <2>1. tune' = tune
    BY <1>3 DEF Next, Start, Seed, ReadWeights, Begin, Walk, Abort, ScoreBatch, Commit, MarkDone, Close,
                Kill, Label, ExportStart, ExportInsert, vars
  <2> QED
    BY <1>3, <2>1, TuneWaits, AdoptedStands DEF TuneInv
<1> QED
  BY <1>1, <1>2, <1>3

-----------------------------------------------------------------------------
(* `export' and the review queue                                           *)

\* The rank of a member of a finite set is one more than there are members before it: those
\* with a higher score, and of equal scores the smaller.
Ranked(S, z, before, rank) ==
    /\ IsFiniteSet(S) /\ S \subseteq Nat
    /\ \A p \in S : z[p] \in Int /\ before[p] \in SUBSET S /\ rank[p] = 1 + Cardinality(before[p])
    /\ \A p, q \in S : q \in before[p] <=> z[q] > z[p] \/ (z[q] = z[p] /\ q < p)

\* A list has a row for each.
HasRows(list, S, row, z, rank) ==
    /\ \A p \in S : row[p] \in list /\ row[p].key = p /\ row[p].z = z[p] /\ row[p].rank = rank[p]
    /\ \A s \in list : \E p \in S : s = row[p]

\* Ranked by score, and by pubkey among equal scores, the members of a finite set have the
\* ranks from 1 on, each once, and a lower rank means at least as high a score.
LEMMA Ranking ==
  ASSUME NEW S, NEW z, NEW before, NEW rank, Ranked(S, z, before, rank)
  PROVE  /\ {rank[p] : p \in S} = 1 .. Cardinality(S)
         /\ \A p, q \in S : rank[p] < rank[q] => z[p] >= z[q]
<1> USE DEF Ranked
<1> DEFINE n == Cardinality(S)
<1>1. n \in Nat
  BY FS_CardinalityType
<1>2. ASSUME NEW p \in S
      PROVE  /\ IsFiniteSet(before[p]) /\ Cardinality(before[p]) \in Nat
             /\ rank[p] = 1 + Cardinality(before[p]) /\ rank[p] \in 1 .. n
  <2>1. before[p] \in SUBSET S /\ p \notin before[p]
    OBVIOUS
  <2>2. rank[p] = 1 + Cardinality(before[p])
    OBVIOUS
  <2>3. IsFiniteSet(before[p]) /\ Cardinality(before[p]) \in Nat
        /\ Cardinality(before[p]) <= n /\ (n = Cardinality(before[p]) => S = before[p])
    BY <2>1, FS_Subset, FS_CardinalityType
  <2>4. Cardinality(before[p]) # n
    BY <2>1, <2>3
  <2> QED
    BY <1>1, <2>2, <2>3, <2>4
<1>3. ASSUME NEW p \in S, NEW q \in S, p \in before[q]
      PROVE  rank[p] < rank[q]
  <2>1. before[p] \in SUBSET before[q]
    <3>1. z[p] \in Int /\ z[q] \in Int /\ p \in Nat /\ q \in Nat /\ (z[p] > z[q] \/ (z[p] = z[q] /\ p < q))
      BY <1>3
    <3>2. ASSUME NEW o \in S, z[o] > z[p] \/ (z[o] = z[p] /\ o < p)
          PROVE  z[o] > z[q] \/ (z[o] = z[q] /\ o < q)
      <4>1. z[o] \in Int /\ o \in Nat
        OBVIOUS
      <4> QED
        BY <3>1, <3>2, <4>1
    <3> QED
      BY <3>2
  <2>2. p \notin before[p]
    OBVIOUS
  <2>3. IsFiniteSet(before[q]) /\ Cardinality(before[p]) \in Nat /\ Cardinality(before[q]) \in Nat
    BY <1>2
  <2>4. /\ Cardinality(before[p]) <= Cardinality(before[q])
        /\ Cardinality(before[q]) = Cardinality(before[p]) => before[q] = before[p]
    BY <2>1, <2>3, FS_Subset
  <2>5. Cardinality(before[q]) # Cardinality(before[p])
    BY <1>3, <2>2, <2>4
  <2>6. rank[p] = 1 + Cardinality(before[p]) /\ rank[q] = 1 + Cardinality(before[q])
    BY <1>2
  <2> QED
    BY <2>3, <2>4, <2>5, <2>6
<1>4. ASSUME NEW p \in S, NEW q \in S, p # q PROVE p \in before[q] \/ q \in before[p]
  <2>1. z[p] \in Int /\ z[q] \in Int /\ p \in Nat /\ q \in Nat
    OBVIOUS
  <2>2. \/ z[p] > z[q] \/ (z[p] = z[q] /\ p < q)
        \/ z[q] > z[p] \/ (z[q] = z[p] /\ q < p)
    BY <1>4, <2>1
  <2> QED
    BY <2>2
<1>5. ASSUME NEW p \in S, NEW q \in S, rank[p] < rank[q] PROVE z[p] >= z[q]
  <2>1. p # q /\ q \notin before[p]
    <3>1. rank[p] \in 1 .. n /\ rank[q] \in 1 .. n
      BY <1>2
    <3>2. rank[p] \in Int /\ rank[q] \in Int
      BY <1>1, <3>1
    <3> QED
      BY <1>3, <1>5, <3>2
  <2>2. p \in before[q]
    BY <1>4, <2>1
  <2>3. z[p] \in Int /\ z[q] \in Int /\ (z[p] > z[q] \/ z[p] = z[q])
    BY <2>2
  <2> QED
    BY <2>3
<1>6. {rank[p] : p \in S} = 1 .. n
  <2> DEFINE f == [p \in S |-> rank[p]]
  <2>1. f \in [S -> 1 .. n]
    BY <1>2
  <2>2. ASSUME NEW p \in S, NEW q \in S, f[p] = f[q] PROVE p = q
    <3>1. rank[p] = rank[q] /\ rank[p] \in Int
      BY <1>2, <2>2
    <3>2. ~(rank[p] < rank[q]) /\ ~(rank[q] < rank[p])
      BY <3>1
    <3> QED
      BY <1>3, <1>4, <3>2
  <2>3. f \in Injection(S, 1 .. n)
    BY <2>1, <2>2 DEF Injection, IsInjective
  <2>4. IsFiniteSet(1 .. n) /\ Cardinality(1 .. n) = n
    BY <1>1, FS_Interval
  <2> HIDE DEF f, n
  <2>5. f \in Surjection(S, 1 .. n)
    <3>1. Cardinality(S) = Cardinality(1 .. n)
      BY <2>4 DEF n
    <3> QED
      BY <2>3, <2>4, <3>1, FS_Injection
  <2>6. \A k \in 1 .. n : \E p \in S : f[p] = k
    BY <2>5 DEF Surjection
  <2>7. \A k \in 1 .. n : \E p \in S : rank[p] = k
    BY <2>6 DEF f
  <2> QED
    BY <1>2, <2>7
<1> QED
  BY <1>5, <1>6

\* The list that is made of a set of pubkeys with their scores.
LEMMA ListProperties ==
  ASSUME NEW S, NEW z, NEW before, NEW rank, Ranked(S, z, before, rank),
         NEW list, NEW row, HasRows(list, S, row, z, rank)
  PROVE  InOrder(list, S)
<1>0. /\ \A p \in S : row[p] \in list /\ row[p].key = p /\ row[p].z = z[p] /\ row[p].rank = rank[p]
      /\ \A s \in list : \E p \in S : s = row[p]
  BY DEF HasRows
<1>1. Cardinality(list) = Cardinality(S)
  <2> DEFINE f == [p \in S |-> row[p]]
  <2>1. f \in [S -> list]
    BY <1>0
  <2>2. \A p, q \in S : f[p] = f[q] => p = q
    BY <1>0
  <2>3. \A s \in list : \E p \in S : f[p] = s
    BY <1>0
  <2> HIDE DEF f
  <2>4. f \in Bijection(S, list)
    BY <2>1, <2>2, <2>3 DEF Bijection, Injection, Surjection, IsInjective
  <2>5. ExistsBijection(S, list)
    BY <2>4 DEF ExistsBijection
  <2> QED
    BY <2>5, FS_Bijection DEF Ranked
<1>2. {s.key : s \in list} = S
  BY <1>0
<1>3. {s.rank : s \in list} = {rank[p] : p \in S}
  <2>1. \A s \in list : s.rank \in {rank[p] : p \in S}
    BY <1>0
  <2>2. \A p \in S : rank[p] \in {s.rank : s \in list}
    BY <1>0
  <2> QED
    BY <2>1, <2>2
<1>4. /\ {rank[p] : p \in S} = 1 .. Cardinality(S)
      /\ \A p, q \in S : rank[p] < rank[q] => z[p] >= z[q]
  BY Ranking
<1>5. ASSUME NEW s \in list, NEW t \in list, s.rank < t.rank PROVE s.z >= t.z
  <2>1. PICK p \in S, q \in S : s = row[p] /\ t = row[q]
    BY <1>0
  <2> QED
    BY <1>0, <1>4, <1>5, <2>1
<1> QED
  BY <1>1, <1>2, <1>3, <1>4, <1>5 DEF InOrder

\* The row of a run that is done stays as it is; what is torn stays torn.
LEMMA DoneStays ==
  ASSUME StoreInv, [Next]_vars
  PROVE  /\ \A r \in DOMAIN runs : runs[r].status = "done" => r \in DOMAIN runs' /\ runs'[r] = runs[r]
         /\ torn \subseteq torn'
<1>1. runs \in Seq(RunRows)
  BY DEF StoreInv, TableTypes
<1>2. CASE Begin
  BY <1>2, BeginRow DEF Begin, history
<1>3. CASE Abort \/ MarkDone
  <2>1. PICK t \in {"aborted", "done"} : runs' = [runs EXCEPT ![run].status = t]
    BY <1>3 DEF Abort, MarkDone
  <2>2. runs[run].status # "done"
    BY <1>3 DEF StoreInv, OwnRunInv, Abort, MarkDone
  <2>3. DOMAIN runs' = DOMAIN runs /\ \A r \in DOMAIN runs : r # run => runs'[r] = runs[r]
    BY <1>1, <2>1
  <2> QED
    BY <1>3, <2>2, <2>3 DEF Abort, MarkDone, history
<1>4. CASE Kill
  BY <1>4 DEF Kill, database
<1>5. CASE Start \/ Seed \/ ReadWeights \/ Walk \/ ScoreBatch \/ Commit \/ Close
  BY <1>5 DEF Start, Seed, ReadWeights, Walk, ScoreBatch, Commit, Close, database, history
<1>6. CASE Label \/ TuneStart \/ TuneQueue \/ TuneLabels \/ TuneFit \/ TuneAdopt \/ ExportStart
           \/ ExportInsert \/ UNCHANGED vars
  BY <1>6 DEF Label, TuneStart, TuneQueue, TuneLabels, TuneFit, TuneAdopt, ExportStart,
              ExportInsert, vars, database, history
<1> QED
  BY <1>2, <1>3, <1>4, <1>5, <1>6 DEF Next

\* A run that is done is left behind, but for the last writes of its process.
LEMMA CalmIsFrozen ==
  ASSUME StoreInv, NEW r \in DOMAIN runs, runs[r].status = "done", Calm(r)
  PROVE  Frozen(r)
<1>1. r \in Int
  BY DEF StoreInv, TableTypes
<1>2. run # r
  BY <1>1, VerdictsConstants DEF Calm, StoreInv, OwnRunInv, Live
<1> QED
  BY <1>2 DEF Frozen

\* What `export' has read stands.
LEMMA ExportStep == ASSUME StoreInv, ReviewInv, [Next]_vars PROVE ExportOwn'
<1>1. CASE ExportStart
  <2>1. PICK r \in DOMAIN runs, default \in BOOLEAN :
            /\ default => r \in LatestDone
            /\ export' = [at |-> "insert", run |-> r, default |-> default, tau |-> runs[r].snap.tau]
    BY <1>1 DEF ExportStart
  <2>2. export'.at = "insert" /\ export'.run = r /\ export'.default = default /\ export'.tau = runs[r].snap.tau
    BY <2>1
  <2>3. runs' = runs
    BY <1>1 DEF ExportStart, database
  <2>4. default => runs[r].status = "done"
    BY <2>1 DEF LatestDone
  <2> QED
    BY <2>2, <2>3, <2>4 DEF ExportOwn
<1>2. CASE ExportInsert
  BY <1>2 DEF ExportInsert, ExportOwn, Off
<1>3. CASE ~ExportStart /\ ~ExportInsert
  <2>1. export' = export
    BY <1>3 DEF Next, Start, Seed, ReadWeights, Begin, Walk, Abort, ScoreBatch, Commit, MarkDone, Close,
                Kill, Label, TuneStart, TuneQueue, TuneLabels, TuneFit, TuneAdopt, vars
  <2>2. DOMAIN runs \subseteq DOMAIN runs'
    BY WeightKept
  <2> QED
    BY <2>1, <2>2, DoneStays DEF ReviewInv, ExportOwn
<1> QED
  BY <1>1, <1>2, <1>3

\* The review queue.
LEMMA QueueStep == ASSUME StoreInv, TuneInv, ReviewInv, [Next]_vars PROVE QueueInv'
<1>1. ASSUME NEW r \in RunIds, Frozen(r) PROVE Frozen(r)' /\ score'[r] = score[r]
  BY <1>1, FrozenStays
<1>2. \A r : Frozen(r) => r \in RunIds
  BY RunInRange DEF Frozen, StoreInv
<1>3. CASE TuneQueue
  <2>1. /\ tune.at = "queue" /\ tune'.at = "labels" /\ score' = score
        /\ queue' = {q \in queue : q.run # tune.run} \cup {[run |-> tune.run, key |-> p] : p \in tune.sample}
        /\ chosen' = IF tune.calm THEN chosen \cup {<<"queue", tune.run>>} ELSE chosen \ {<<"queue", tune.run>>}
    BY <1>3 DEF TuneQueue
  <2>2. ASSUME NEW r \in RunIds, <<"queue", r>> \in chosen'
        PROVE  Frozen(r)' /\ \A q \in queue' : q.run = r => ~score'[r][q.key].suspected
    <3>1. CASE r = tune.run
      <4>1. tune.calm
        BY <2>1, <2>2, <3>1
      <4>2. Frozen(r) /\ \A p \in tune.sample : ~score[r][p].suspected
        BY <2>1, <3>1, <4>1 DEF TuneInv, TuneOwn, ReviewInv, QueueInv
      <4>3. \A q \in queue' : q.run = r => \E p \in tune.sample : q.key = p
        BY <2>1, <3>1
      <4> QED
        BY <1>1, <2>1, <4>2, <4>3
    <3>2. CASE r # tune.run
      <4>1. <<"queue", r>> \in chosen
        BY <2>1, <2>2, <3>2
      <4>2. Frozen(r) /\ \A q \in queue : q.run = r => ~score[r][q.key].suspected
        BY <4>1 DEF ReviewInv, QueueInv
      <4>3. \A q \in queue' : q.run = r => q \in queue
        BY <2>1, <3>2
      <4> QED
        BY <1>1, <2>1, <4>2, <4>3
    <3> QED
      BY <3>1, <3>2
  <2> QED
    BY <2>1, <2>2 DEF QueueInv
<1>4. CASE ~TuneQueue
  <2>1. queue' = queue /\ \A r : <<"queue", r>> \in chosen' => <<"queue", r>> \in chosen
    <3>1. CASE ExportInsert
      <4>1. PICK r : chosen' \subseteq chosen \cup {<<"list", r>>}
        BY <3>1 DEF ExportInsert
      <4> QED
        BY <3>1, <4>1 DEF ExportInsert
    <3>2. CASE ~ExportInsert
      BY <1>4, <3>2 DEF Next, Start, Seed, ReadWeights, Begin, Walk, Abort, ScoreBatch, Commit, MarkDone,
                  Close, Kill, Label, TuneStart, TuneLabels, TuneFit, TuneAdopt, ExportStart, vars, database, history
    <3> QED
      BY <3>1, <3>2
  <2>2. ASSUME NEW r \in RunIds, <<"queue", r>> \in chosen'
        PROVE  Frozen(r)' /\ \A q \in queue' : q.run = r => ~score'[r][q.key].suspected
    <3>1. Frozen(r) /\ \A q \in queue : q.run = r => ~score[r][q.key].suspected
      BY <2>1, <2>2 DEF ReviewInv, QueueInv
    <3> QED
      BY <1>1, <2>1, <3>1
  <2>3. tune'.at = "queue" /\ tune'.calm => \A p \in tune'.sample : ~score'[tune'.run][p].suspected
    <3>1. CASE TuneStart
      <4>1. PICK c \in Configs, r \in DOMAIN runs :
                \E calm : tune' = [at |-> "queue", cfg |-> c, run |-> r, calm |-> calm,
                                   sample |-> Sample(r, c.sample)]
        BY <3>1 DEF TuneStart
      <4>2. tune'.run = r /\ tune'.sample = Sample(r, c.sample)
        BY <4>1
      <4>3. score' = score
        BY <3>1 DEF TuneStart, database
      <4>4. \A p \in Sample(r, c.sample) : ~score[r][p].suspected
        BY DEF Sample
      <4> QED
        BY <4>2, <4>3, <4>4
    <3>2. CASE tune' = tune
      <4>1. tune.at = "queue" /\ tune.calm => Frozen(tune.run)
        BY DEF TuneInv, TuneOwn
      <4> QED
        BY <1>1, <1>2, <3>2, <4>1 DEF ReviewInv, QueueInv
    <3>3. CASE TuneLabels
      BY <3>3 DEF TuneLabels, Off
    <3>4. CASE TuneFit
      BY <3>4 DEF TuneFit, Off
    <3>5. CASE TuneAdopt
      BY <3>5 DEF TuneAdopt, Off
    <3>6. CASE ~(TuneAdopt \/ TuneStart \/ TuneLabels \/ TuneFit)
      BY <1>4, <3>2, <3>6 DEF Next, Start, Seed, ReadWeights, Begin, Walk, Abort, ScoreBatch, Commit,
                  MarkDone, Close, Kill, Label, ExportStart, ExportInsert, vars
    <3> QED
      BY <3>1, <3>3, <3>4, <3>5, <3>6
  <2> QED
    BY <2>2, <2>3 DEF QueueInv
<1> QED
  BY <1>3, <1>4

\* materialize_suspected: the list of a run that is done and left behind.
LEMMA ListMade ==
  ASSUME StoreInv, ReviewInv, ExportInsert, NEW r, r = export.run, <<"list", r>> \in chosen'
  PROVE  /\ Frozen(r) /\ InOrder(ListOf(r)', Flagged(r))
         /\ r \notin torn => \A s \in ListOf(r)' : s.z > s.tau
<1> DEFINE S == Flagged(r)
           tau == export.tau
           before == [p \in S |-> {q \in S : Above(r, q, p)}]
           rank == [p \in S |-> 1 + Cardinality(before[p])]
           row == [p \in S |-> [run |-> r, key |-> p, z |-> score[r][p].z, tau |-> tau, rank |-> rank[p]]]
           z == [p \in S |-> score[r][p].z]
           made == {row[p] : p \in S}
<1>1. /\ suspects' = {s \in suspects : s.run # r} \cup made
      /\ export.default /\ Calm(r) /\ export.at = "insert"
  <2>1. /\ suspects' = {s \in suspects : s.run # r} \cup
                {[run |-> r, key |-> p, z |-> score[r][p].z, tau |-> tau,
                  rank |-> 1 + Cardinality({q \in S : Above(r, q, p)})] : p \in S}
        /\ export.default /\ Calm(r) /\ export.at = "insert"
    BY DEF ExportInsert, Flagged
  <2> QED
    BY <2>1
<1>2. /\ r \in DOMAIN runs /\ runs[r].status = "done" /\ tau = runs[r].snap.tau /\ r \in RunIds
  BY <1>1, RunInRange DEF ReviewInv, ExportOwn, StoreInv
<1>3. Frozen(r)
  BY <1>1, <1>2, CalmIsFrozen
<1>4. \A p \in S : rank[p] = 1 + Cardinality(before[p])
  OBVIOUS
<1> HIDE DEF rank
<1>5. \A p \in S : row[p].run = r /\ row[p].key = p /\ row[p].z = z[p] /\ row[p].tau = tau /\ row[p].rank = rank[p]
  OBVIOUS
<1>6. ASSUME NEW p \in S
      PROVE  p \in Keys /\ z[p] = score[r][p].z /\ z[p] \in Int /\ score[r][p].suspected /\ score[r][p] # None
  BY <1>2, <1>6 DEF StoreInv, ScoresInv, Flagged
<1> HIDE DEF row, z, tau
<1>7. ListOf(r)' = made
  <2>1. \A s \in made : s.run = r
    BY <1>5
  <2> HIDE DEF made
  <2> QED
    BY <1>1, <2>1 DEF ListOf
<1>8. InOrder(made, S)
  <2>1. IsFiniteSet(S) /\ S \subseteq Nat
    <3>1. S \in SUBSET Keys /\ IsFiniteSet(Keys) /\ Keys \subseteq Nat
      BY VerdictsConstants DEF Flagged
    <3> QED
      BY <3>1, FS_Subset
  <2>2. /\ \A p \in S : before[p] \in SUBSET S
        /\ \A p, q \in S : q \in before[p] <=> z[q] > z[p] \/ (z[q] = z[p] /\ q < p)
    BY <1>6 DEF Above
  <2>3. \A p \in S : z[p] \in Int
    BY <1>6
  <2>4. (\A p \in S : row[p] \in made) /\ \A s \in made : \E p \in S : s = row[p]
    OBVIOUS
  <2> HIDE DEF S, made, before
  <2>5. Ranked(S, z, before, rank)
    BY <1>4, <2>1, <2>2, <2>3 DEF Ranked
  <2>6. HasRows(made, S, row, z, rank)
    BY <1>5, <2>4 DEF HasRows
  <2> QED
    BY <2>5, <2>6, ListProperties
<1>9. ASSUME r \notin torn, NEW s \in made PROVE s.z > s.tau
  <2>1. PICK p \in S : s.z = z[p] /\ s.tau = tau
    BY <1>5
  <2>2. Reproduced(r, p)
    BY <1>2, <1>3, <1>6, <1>9 DEF StoreInv, ScoresInv, Frozen
  <2>3. score[r][p].suspected = (score[r][p].z > runs[r].snap.tau)
    BY <1>6, <2>2 DEF Reproduced
  <2> QED
    BY <1>2, <1>6, <2>1, <2>3
<1> HIDE DEF made
<1> QED
  BY <1>3, <1>7, <1>8, <1>9

\* The review list.
LEMMA ListStep == ASSUME StoreInv, ReviewInv, [Next]_vars PROVE ListInv'
<1> SUFFICES ASSUME NEW r \in RunIds, <<"list", r>> \in chosen'
             PROVE  /\ Frozen(r)' /\ InOrder(ListOf(r), Flagged(r))'
                    /\ r \notin torn' => \A s \in ListOf(r)' : s.z > s.tau
  BY DEF ListInv
<1>1. CASE ExportInsert /\ r = export.run
  <2>1. /\ Frozen(r) /\ InOrder(ListOf(r)', Flagged(r))
        /\ r \notin torn => \A s \in ListOf(r)' : s.z > s.tau
    BY <1>1, ListMade
  <2>2. Frozen(r)' /\ score' = score /\ torn' = torn
    BY <1>1, <2>1, FrozenStays DEF ExportInsert
  <2>3. Flagged(r)' = Flagged(r)
    BY <2>2 DEF Flagged
  <2> QED
    BY <2>1, <2>2, <2>3 DEF InOrder
<1>2. CASE ~(ExportInsert /\ r = export.run)
  <2>1. <<"list", r>> \in chosen /\ ListOf(r)' = ListOf(r)
    <3>1. CASE ExportInsert
      <4> DEFINE e == export.run
                 Rank(p) == 1 + Cardinality({q \in Flagged(e) : Above(e, q, p)})
                 new == {[run |-> e, key |-> p, z |-> score[e][p].z, tau |-> export.tau, rank |-> Rank(p)] :
                            p \in Flagged(e)}
      <4>1. /\ suspects' = {s \in suspects : s.run # e} \cup new
            /\ chosen' = IF export.default /\ Calm(e) THEN chosen \cup {<<"list", e>>} ELSE chosen \ {<<"list", e>>}
        BY <3>1 DEF ExportInsert, Flagged
      <4> HIDE DEF Rank
      <4>2. \A s \in new : s.run = e
        OBVIOUS
      <4>3. r # e
        BY <1>2, <3>1
      <4> HIDE DEF new, e
      <4>4. <<"list", r>> \in chosen
        BY <4>1, <4>3
      <4> QED
        BY <4>1, <4>2, <4>3, <4>4 DEF ListOf
    <3>2. CASE TuneQueue
      BY <3>2 DEF TuneQueue, ListOf
    <3>3. CASE ~ExportInsert /\ ~TuneQueue
      BY <3>3 DEF Next, Start, Seed, ReadWeights, Begin, Walk, Abort, ScoreBatch, Commit, MarkDone,
                  Close, Kill, Label, TuneStart, TuneLabels, TuneFit, TuneAdopt, ExportStart, vars, database,
                  history, ListOf
    <3> QED
      BY <3>1, <3>2, <3>3
  <2>2. /\ Frozen(r) /\ InOrder(ListOf(r), Flagged(r))
        /\ r \notin torn => \A s \in ListOf(r) : s.z > s.tau
    BY <2>1 DEF ReviewInv, ListInv
  <2>3. Frozen(r)' /\ score'[r] = score[r] /\ torn \subseteq torn'
    BY <2>2, FrozenStays, DoneStays
  <2>4. Flagged(r)' = Flagged(r)
    BY <2>3 DEF Flagged
  <2> QED
    BY <2>1, <2>2, <2>3, <2>4 DEF InOrder
<1> QED
  BY <1>1, <1>2

\* Initially there is no list and no queue.
LEMMA ReviewInit == Init => ReviewInv
BY DEF Init, ReviewInv, ExportOwn, QueueInv, ListInv, Off

-----------------------------------------------------------------------------
(* Theorems                                                                *)

\* The invariants hold together: an adoption and a review queue need what `tune' has
\* read, and what it and `export' have read needs the tables.
LEMMA VerdictsInvariant == Spec => [](StoreInv /\ TuneInv /\ ReviewInv)
<1>1. Init => StoreInv /\ TuneInv /\ ReviewInv
  BY StoreInit, TuneInit, ReviewInit
<1>2. StoreInv /\ TuneInv /\ ReviewInv /\ [Next]_vars => (StoreInv /\ TuneInv /\ ReviewInv)'
  BY StoreStep, TuneStep, ExportStep, QueueStep, ListStep DEF ReviewInv
<1> QED
  BY <1>1, <1>2, PTL DEF Spec

\* The row of a run that is done, with its writer idle and not torn by a kill, reproduces
\* every verdict of the run: bias, weights and threshold of the row and the recorded
\* signals give the recorded score and flag, although runs are resumed with new
\* parameters, killed between transactions, and weights are adopted meanwhile
\* (set_run_config_json, run_batch, writer_loop).
THEOREM Reproducible == Spec => []DoneIsReproducible
<1>1. ASSUME StoreInv PROVE DoneIsReproducible
  <2>1. ASSUME NEW r \in DOMAIN runs, NEW p \in Keys, Settled(r) PROVE Reproduced(r, p)
    <3>1. runs[r].status = "done" /\ r \notin torn /\ (run = r => wq = <<>>)
      BY <2>1 DEF Settled
    <3>2. CASE run # r
      BY <1>1, <3>1, <3>2 DEF StoreInv, ScoresInv
    <3>3. CASE run = r
      <4>1. r \in Int
        BY <1>1 DEF StoreInv, TableTypes
      <4>2. pc = "closing"
        BY <1>1, <3>1, <3>3, <4>1, VerdictsConstants DEF StoreInv, OwnRunInv, Live
      <4> QED
        BY <1>1, <3>1, <3>3, <4>2, AllReproduced
    <3> QED
      BY <3>2, <3>3
  <2> QED
    BY <2>1 DEF DoneIsReproducible, Reproduced
<1> QED
  BY <1>1, VerdictsInvariant, PTL

\* No run records a pubkey on the whitelist as absent, whatever the whitelist server
\* leaves unanswered (is_whitelisted_bulk).
THEOREM NeverAbsent == Spec => []ListedIsNeverAbsent
<1>1. StoreInv => ListedIsNeverAbsent
  BY DEF StoreInv, ListedInv, ListedIsNeverAbsent
<1> QED
  BY <1>1, VerdictsInvariant, PTL

\* Weights adopted from a run that `tune' chose itself agree with the labels they were
\* fitted to until the next adoption: no later run changes the signals they were tested
\* on or seeds the table again (backtest, write_weights, seed_weights_if_empty).
THEOREM AdoptionHolds == Spec => []AdoptedAgrees
<1>1. TuneInv => AdoptedAgrees
  BY DEF TuneInv, AdoptedInv
<1> QED
  BY <1>1, VerdictsInvariant, PTL

\* The list that `export' made of the run it chose itself is the list of the run's flags,
\* ranked from 1 on by score and beyond its threshold, and shares no pubkey with the
\* queue that `tune' made of the same run: no command that runs later or at the same
\* time writes to the run again (latest_done_run, materialize_suspected,
\* populate_review_queue).
THEOREM ReviewFinal == Spec => []ReviewIsFinal
<1>1. ASSUME StoreInv, ReviewInv PROVE ReviewIsFinal
  <2> SUFFICES ASSUME NEW r \in DOMAIN runs, <<"list", r>> \in chosen
               PROVE  /\ InOrder(ListOf(r), Flagged(r))
                      /\ r \notin torn => \A s \in ListOf(r) : s.z > s.tau
                      /\ <<"queue", r>> \in chosen =>
                            \A s \in ListOf(r) : [run |-> r, key |-> s.key] \notin queue
    BY DEF ReviewIsFinal, InOrder, ListOf, Flagged
  <2>1. r \in RunIds
    BY <1>1, RunInRange DEF StoreInv
  <2>2. InOrder(ListOf(r), Flagged(r)) /\ (r \notin torn => \A s \in ListOf(r) : s.z > s.tau)
    BY <1>1, <2>1 DEF ReviewInv, ListInv
  <2>3. ASSUME <<"queue", r>> \in chosen, NEW s \in ListOf(r), [run |-> r, key |-> s.key] \in queue
        PROVE  FALSE
    <3>1. score[r][s.key].suspected
      BY <2>2 DEF InOrder, Flagged
    <3>2. \A q \in queue : q.run = r => ~score[r][q.key].suspected
      BY <1>1, <2>1, <2>3 DEF ReviewInv, QueueInv
    <3> QED
      BY <2>3, <3>1, <3>2
  <2> QED
    BY <2>2, <2>3
<1> QED
  BY <1>1, VerdictsInvariant, PTL

-----------------------------------------------------------------------------
(* Layers: what the proofs share                                          *)

\* f has the value c at 0, and G leads from each value to the next.
Steps(G, S, N) == G \in [(1 .. N) \X S -> S]
Follows(f, c, G, S, N) ==
    f \in [0 .. N -> S] /\ f[0] = c /\ \A i \in 1 .. N : f[i] = G[<<i, f[i - 1]>>]

\* Such a function exists.
LEMMA RecursionExists ==
  ASSUME NEW S, NEW c \in S, NEW N \in Nat, NEW G, Steps(G, S, N)
  PROVE  \E f : Follows(f, c, G, S, N)
<1> USE DEF Steps, Follows
<1> DEFINE Solves(f, n) == f \in [0 .. N -> S] /\ f[0] = c /\ \A i \in 1 .. N : i <= n => f[i] = G[<<i, f[i - 1]>>]
           P == {n \in Nat : \E f : Solves(f, n)}
<1>1. 0 \in P
  <2> DEFINE f == [i \in 0 .. N |-> c]
  <2>1. Solves(f, 0)
    OBVIOUS
  <2> QED
    BY <2>1
<1>2. ASSUME NEW n \in P PROVE n + 1 \in P
  <2>1. n \in Nat
    OBVIOUS
  <2>2. PICK f : Solves(f, n)
    OBVIOUS
  <2> DEFINE h == [i \in 0 .. N |-> IF i <= n THEN f[i] ELSE IF i = n + 1 THEN G[<<i, f[i - 1]>>] ELSE c]
  <2>3. ASSUME NEW i \in 1 .. N PROVE G[<<i, f[i - 1]>>] \in S
    <3>1. i - 1 \in 0 .. N
      OBVIOUS
    <3>2. f[i - 1] \in S
      BY <2>2, <3>1
    <3> QED
      BY <3>2
  <2>4. \A i \in 0 .. N : h[i] \in S
    <3> SUFFICES ASSUME NEW i \in 0 .. N PROVE h[i] \in S
      OBVIOUS
    <3>1. i = n + 1 => i \in 1 .. N
      BY <2>1
    <3> QED
      BY <2>2, <2>3, <3>1
  <2>5. h \in [0 .. N -> S] /\ h[0] = c
    BY <2>1, <2>2, <2>4
  <2>6. ASSUME NEW i \in 1 .. N, i <= n + 1 PROVE h[i] = G[<<i, h[i - 1]>>]
    <3>1. i - 1 \in 0 .. N /\ i - 1 <= n /\ i \in 0 .. N
      BY <2>1, <2>6
    <3>2. h[i - 1] = f[i - 1]
      BY <3>1
    <3>3. CASE i <= n
      BY <2>2, <3>1, <3>2, <3>3
    <3>4. CASE i = n + 1
      BY <2>1, <3>1, <3>2, <3>4
    <3> QED
      BY <2>1, <2>6, <3>3, <3>4
  <2> HIDE DEF h
  <2>7. Solves(h, n + 1)
    BY <2>5, <2>6
  <2> QED
    BY <2>1, <2>7
<1>3. P \subseteq Nat
  OBVIOUS
<1> HIDE DEF P
<1>4. N \in P
  BY <1>1, <1>2, <1>3, SetInduction
<1>5. PICK f : Solves(f, N)
  BY <1>4 DEF P
<1> QED
  BY <1>5

\* A set of numbers has a least one.
LEMMA LeastMember ==
  ASSUME NEW T, T \subseteq Nat, T # {}
  PROVE  \E x \in T : \A y \in T : x <= y
<1>1. PICK x \in T : \A y \in T : ~(<<y, x>> \in OpToRel(<, Nat))
  <2>1. IsWellFoundedOn(OpToRel(<, Nat), Nat)
    BY NatLessThanWellFounded
  <2> DEFINE R == OpToRel(<, Nat)
  <2>2. IsWellFoundedOn(R, Nat)
    BY <2>1
  <2> HIDE DEF R
  <2>3. \E x \in T : \A y \in T : ~(<<y, x>> \in R)
    BY <2>2, WFMin
  <2> QED
    BY <2>3 DEF R
<1>2. \A y \in T : x <= y
  <2> SUFFICES ASSUME NEW y \in T, y < x PROVE FALSE
    OBVIOUS
  <2>1. <<y, x>> \in Nat \X Nat /\ <<y, x>>[1] < <<y, x>>[2]
    BY <1>1
  <2>2. <<y, x>> \in OpToRel(<, Nat)
    BY <2>1 DEF OpToRel
  <2> QED
    BY <1>1, <2>2
<1> QED
  BY <1>2

-----------------------------------------------------------------------------
(* Layers: the union-find of count_clusters                                *)

\* The chain of find: from x, parent by parent.
Climbs(p, x, h, N) ==
    /\ h \in [0 .. N -> 1 .. N] /\ h[0] = x
    /\ \A k \in 1 .. N : h[k] = p[h[k - 1]]

\* The recursion of find has a solution, and Up is its values.
LEMMA UpUnfolds ==
  ASSUME NEW N \in Nat, NEW p \in [1 .. N -> 1 .. N], NEW x \in 1 .. N
  PROVE  \E h : Climbs(p, x, h, N) /\ Up(p, x) = {h[k] : k \in 0 .. N}
<1> DEFINE Z == 1 .. N
           G == [y \in (1 .. N) \X Z |-> p[y[2]]]
<1>0. Len(p) = N
  OBVIOUS
<1>1. ASSUME NEW i \in 1 .. N, NEW k \in Z
      PROVE  G[<<i, k>>] = p[k] /\ G[<<i, k>>] \in Z
  OBVIOUS
<1>2. Steps(G, Z, N)
  <2>1. G \in [(1 .. N) \X Z -> Z]
    OBVIOUS
  <2> HIDE DEF G
  <2> QED
    BY <2>1 DEF Steps
<1> HIDE DEF G
<1>3. PICK f : Follows(f, x, G, Z, N)
  BY <1>2, RecursionExists
<1>4. \A k \in 0 .. N : f[k] = IF k = 0 THEN x ELSE p[f[k - 1]]
  <2>0. f[0] = x /\ \A k \in 0 .. N : k = 0 \/ k \in 1 .. N
    BY <1>3 DEF Follows
  <2> SUFFICES ASSUME NEW k \in 1 .. N PROVE f[k] = p[f[k - 1]]
    <3>1. \A k \in 1 .. N : k # 0
      OBVIOUS
    <3> QED
      BY <2>0, <3>1, Zenon
  <2>1. k - 1 \in 0 .. N
    OBVIOUS
  <2>2. f[k - 1] \in Z
    BY <1>3, <2>1 DEF Follows
  <2> QED
    BY <1>1, <1>3, <2>2 DEF Follows
<1>5. f = [k \in 0 .. N |-> IF k = 0 THEN x ELSE p[f[k - 1]]]
  BY <1>3, <1>4 DEF Follows
<1> DEFINE h == CHOOSE h1 : h1 = [k \in 0 .. N |-> IF k = 0 THEN x ELSE p[h1[k - 1]]]
<1>6. h = [k \in 0 .. N |-> IF k = 0 THEN x ELSE p[h[k - 1]]]
  BY <1>5, Zenon
<1>7. Up(p, x) = {h[k] : k \in 0 .. N}
  <2>1. Up(p, x) = LET up == CHOOSE h1 : h1 = [k \in 0 .. Len(p) |-> IF k = 0 THEN x ELSE p[h1[k - 1]]]
                   IN  {up[k] : k \in 0 .. Len(p)}
    BY Zenon DEF Up
  <2> QED
    BY <1>0, <2>1, Zenon
<1> HIDE DEF h
<1>8. h[0] = x /\ \A k \in 1 .. N : h[k] = p[h[k - 1]]
  <2>1. 0 \in 0 .. N /\ \A k \in 1 .. N : k \in 0 .. N /\ k # 0
    OBVIOUS
  <2> QED
    BY <1>6, <2>1, Zenon
<1>9. \A k \in 0 .. N : h[k] \in Z
  <2> DEFINE P == {k \in Nat : k <= N => h[k] \in Z}
  <2>1. 0 \in P
    BY <1>8
  <2>2. ASSUME NEW k \in P PROVE k + 1 \in P
    <3> SUFFICES ASSUME k + 1 <= N PROVE h[k + 1] \in Z
      OBVIOUS
    <3>1. k + 1 \in 1 .. N /\ (k + 1) - 1 = k /\ h[k] \in Z
      OBVIOUS
    <3> QED
      BY <1>8, <3>1
  <2>3. P \subseteq Nat
    OBVIOUS
  <2> HIDE DEF P
  <2>4. P = Nat
    BY <2>1, <2>2, <2>3, SetInduction
  <2> QED
    BY <2>4 DEF P
<1>10. h \in [0 .. N -> Z]
  BY <1>6, <1>9
<1> QED
  BY <1>7, <1>8, <1>10 DEF Climbs

\* The parents p form trees: R is the root of every event, and d falls towards it.
Tree(p, R, d, N) ==
    /\ p \in [1 .. N -> 1 .. N] /\ R \in [1 .. N -> 1 .. N] /\ d \in [1 .. N -> Nat]
    /\ \A x \in 1 .. N : /\ R[p[x]] = R[x] /\ p[R[x]] = R[x]
                         /\ p[x] = x => R[x] = x
                         /\ p[x] # x => d[p[x]] < d[x]
                         /\ R[x] # x => d[R[x]] < d[x]

\* find ends at the root, within as many steps as there are events, and stays in its tree.
LEMMA RootIs ==
  ASSUME NEW N \in Nat, NEW p, NEW R, NEW d, Tree(p, R, d, N), NEW x \in 1 .. N
  PROVE  /\ Up(p, x) \subseteq 1 .. N /\ \A y \in Up(p, x) : R[y] = R[x]
         /\ R[x] \in Up(p, x) /\ Root(p, x) = R[x]
<1>1. PICK h : Climbs(p, x, h, N) /\ Up(p, x) = {h[k] : k \in 0 .. N}
  BY UpUnfolds DEF Tree
<1>2. \A k \in 0 .. N : h[k] \in 1 .. N
  BY <1>1 DEF Climbs
<1>3. \A k \in 0 .. N : R[h[k]] = R[x]
  <2> DEFINE P == {k \in Nat : k <= N => R[h[k]] = R[x]}
  <2>1. 0 \in P
    BY <1>1 DEF Climbs
  <2>2. ASSUME NEW k \in P PROVE k + 1 \in P
    <3> SUFFICES ASSUME k + 1 <= N PROVE R[h[k + 1]] = R[x]
      OBVIOUS
    <3>1. k + 1 \in 1 .. N /\ k \in 0 .. N /\ (k + 1) - 1 = k /\ R[h[k]] = R[x]
      OBVIOUS
    <3>2. h[k + 1] = p[h[k]] /\ h[k] \in 1 .. N
      BY <1>1, <1>2, <3>1 DEF Climbs
    <3> QED
      BY <3>1, <3>2 DEF Tree
  <2>3. P \subseteq Nat
    OBVIOUS
  <2> HIDE DEF P
  <2>4. P = Nat
    BY <2>1, <2>2, <2>3, SetInduction
  <2> QED
    BY <2>4 DEF P
<1>4. Up(p, x) \subseteq 1 .. N /\ \A y \in Up(p, x) : R[y] = R[x]
  BY <1>1, <1>2, <1>3
<1>5. \E k \in 0 .. N : h[k] = R[x]
  <2> SUFFICES ASSUME \A k \in 0 .. N : h[k] # R[x] PROVE FALSE
    OBVIOUS
  <2>1. \A k \in 0 .. N : p[h[k]] # h[k]
    BY <1>2, <1>3 DEF Tree
  <2> DEFINE P == {m \in Nat : m <= N => \A k \in 0 .. N : k < m => d[h[m]] < d[h[k]]}
  <2>2. 0 \in P
    OBVIOUS
  <2>3. ASSUME NEW m \in P PROVE m + 1 \in P
    <3> SUFFICES ASSUME m + 1 <= N, NEW k \in 0 .. N, k < m + 1 PROVE d[h[m + 1]] < d[h[k]]
      OBVIOUS
    <3>1. m + 1 \in 1 .. N /\ m \in 0 .. N /\ (m + 1) - 1 = m
      OBVIOUS
    <3>2. h[m + 1] = p[h[m]] /\ h[m] \in 1 .. N /\ h[k] \in 1 .. N /\ p[h[m]] \in 1 .. N
      BY <1>1, <1>2, <3>1 DEF Climbs, Tree
    <3>3. d[h[m + 1]] < d[h[m]] /\ d[h[m + 1]] \in Nat /\ d[h[m]] \in Nat /\ d[h[k]] \in Nat
      BY <2>1, <3>1, <3>2 DEF Tree
    <3>4. k = m \/ d[h[m]] < d[h[k]]
      OBVIOUS
    <3> QED
      BY <3>3, <3>4
  <2>4. P \subseteq Nat
    OBVIOUS
  <2> HIDE DEF P
  <2>5. P = Nat
    BY <2>2, <2>3, <2>4, SetInduction
  <2>6. \A k, m \in 0 .. N : k < m => h[m] # h[k]
    <3> SUFFICES ASSUME NEW k \in 0 .. N, NEW m \in 0 .. N, k < m PROVE h[m] # h[k]
      OBVIOUS
    <3>1. m \in Nat /\ m <= N /\ d[h[k]] \in Nat
      BY <1>2 DEF Tree
    <3> QED
      BY <2>5, <3>1 DEF P
  <2>7. IsFiniteSet(0 .. N) /\ Cardinality(0 .. N) = N + 1 /\ IsFiniteSet(1 .. N) /\ Cardinality(1 .. N) = N
    <3>1. N \in Int /\ 0 \in Int /\ 1 \in Int /\ ~(0 > N) /\ N - 0 + 1 = N + 1 /\ N - 1 + 1 = N
      OBVIOUS
    <3>2. IsFiniteSet(0 .. N) /\ Cardinality(0 .. N) = IF 0 > N THEN 0 ELSE N - 0 + 1
      BY <3>1, FS_Interval, Zenon
    <3>3. IsFiniteSet(1 .. N) /\ Cardinality(1 .. N) = IF 1 > N THEN 0 ELSE N - 1 + 1
      BY <3>1, FS_Interval, Zenon
    <3>4. 1 > N => N = 0
      OBVIOUS
    <3> QED
      BY <3>1, <3>2, <3>3, <3>4
  <2>8. h \in [0 .. N -> 1 .. N]
    BY <1>1 DEF Climbs
  <2>9. \E k, m \in 0 .. N : k # m /\ h[k] = h[m]
    <3>1. Cardinality(1 .. N) < Cardinality(0 .. N)
      BY <2>7
    <3> QED
      BY <2>7, <2>8, <3>1, FS_PigeonHole
  <2> QED
    BY <2>6, <2>9
<1>6. R[x] \in Up(p, x) /\ p[R[x]] = R[x]
  BY <1>1, <1>5 DEF Tree
<1>7. \A r \in Up(p, x) : p[r] = r => r = R[x]
  BY <1>4 DEF Tree
<1>8. Root(p, x) = R[x]
  BY <1>6, <1>7 DEF Root
<1> QED
  BY <1>4, <1>6, <1>8

\* Path compression leaves every event in its tree.
LEMMA CompressedIs ==
  ASSUME NEW N \in Nat, NEW p, NEW R, NEW d, Tree(p, R, d, N), NEW x \in 1 .. N
  PROVE  Tree(Compressed(p, x), R, d, N)
<1> DEFINE q == Compressed(p, x)
<1>1. /\ Up(p, x) \subseteq 1 .. N /\ \A y \in Up(p, x) : R[y] = R[x]
      /\ R[x] \in Up(p, x) /\ Root(p, x) = R[x]
  BY RootIs
<1>2. q = [y \in 1 .. N |-> IF y \in Up(p, x) THEN R[x] ELSE p[y]]
  BY <1>1 DEF Compressed, Tree
<1>3. R[x] \in 1 .. N /\ R[R[x]] = R[x]
  BY DEF Tree
<1> HIDE DEF q
<1>4. q \in [1 .. N -> 1 .. N]
  BY <1>2, <1>3 DEF Tree
<1>5. ASSUME NEW y \in 1 .. N
      PROVE  /\ R[q[y]] = R[y] /\ q[R[y]] = R[y]
             /\ q[y] = y => R[y] = y
             /\ q[y] # y => d[q[y]] < d[y]
             /\ R[y] # y => d[R[y]] < d[y]
  <2>1. R[y] \in 1 .. N /\ R[R[y]] = R[y]
    BY DEF Tree
  <2>2. q[R[y]] = R[y]
    BY <1>1, <1>2, <2>1 DEF Tree
  <2>3. CASE y \in Up(p, x)
    BY <1>1, <1>2, <1>3, <2>2, <2>3 DEF Tree
  <2>4. CASE y \notin Up(p, x)
    BY <1>2, <2>2, <2>4 DEF Tree
  <2> QED
    BY <2>3, <2>4
<1> QED
  BY <1>4, <1>5 DEF Tree, q

\* The roots after a union: those of i have become that of j.
Merged(R, i, j, N) == [x \in 1 .. N |-> IF R[x] = R[i] THEN R[j] ELSE R[x]]

\* A union hangs the tree of i below the root of j, and changes no other tree.
LEMMA UnionIs ==
  ASSUME NEW N \in Nat, NEW p, NEW R, NEW d, Tree(p, R, d, N), NEW i \in 1 .. N, NEW j \in 1 .. N
  PROVE  \E e : Tree(Union(p, i, j), Merged(R, i, j, N), e, N)
<1> DEFINE both == Compressed(Compressed(p, i), j)
           M == Merged(R, i, j, N)
<1>1. Tree(both, R, d, N)
  BY CompressedIs
<1>2. Root(p, i) = R[i] /\ Root(p, j) = R[j]
  BY RootIs
<1>3. Union(p, i, j) = IF R[i] = R[j] THEN both ELSE [both EXCEPT ![R[i]] = R[j]]
  BY <1>2 DEF Union
<1> HIDE DEF both
<1>4. CASE R[i] = R[j]
  <2>1. M = R
    BY <1>1, <1>4 DEF Merged, Tree
  <2> QED
    BY <1>1, <1>3, <1>4, <2>1
<1>5. CASE R[i] # R[j]
  <2> DEFINE q == [both EXCEPT ![R[i]] = R[j]]
             e == [x \in 1 .. N |-> IF R[x] = R[i] THEN d[x] + d[R[j]] + 1 ELSE d[x]]
  <2>1. /\ R[i] \in 1 .. N /\ R[j] \in 1 .. N /\ R[R[i]] = R[i] /\ R[R[j]] = R[j]
        /\ d[R[j]] \in Nat
    BY <1>1 DEF Tree
  <2>2. q \in [1 .. N -> 1 .. N] /\ M \in [1 .. N -> 1 .. N] /\ e \in [1 .. N -> Nat]
    <3>1. q \in [1 .. N -> 1 .. N]
      BY <1>1, <2>1 DEF Tree
    <3>2. M \in [1 .. N -> 1 .. N]
      BY <1>1, <2>1 DEF Tree, Merged
    <3>3. \A x \in 1 .. N : d[x] \in Nat
      BY <1>1 DEF Tree
    <3>4. \A x \in 1 .. N : d[x] + d[R[j]] + 1 \in Nat
      BY <2>1, <3>3
    <3>5. e \in [1 .. N -> Nat]
      BY <3>3, <3>4
    <3> QED
      BY <3>1, <3>2, <3>5
  <2>3. ASSUME NEW x \in 1 .. N
        PROVE  /\ M[q[x]] = M[x] /\ q[M[x]] = M[x]
               /\ q[x] = x => M[x] = x
               /\ q[x] # x => e[q[x]] < e[x]
               /\ M[x] # x => e[M[x]] < e[x]
    <3>1. /\ both[x] \in 1 .. N /\ R[x] \in 1 .. N /\ d[x] \in Nat /\ d[both[x]] \in Nat /\ d[R[x]] \in Nat
          /\ R[both[x]] = R[x] /\ both[R[x]] = R[x] /\ R[R[x]] = R[x] /\ both[R[j]] = R[j]
          /\ both[x] = x => R[x] = x
          /\ both[x] # x => d[both[x]] < d[x]
          /\ R[x] # x => d[R[x]] < d[x]
      BY <1>1 DEF Tree
    <3>2. /\ M[x] = IF R[x] = R[i] THEN R[j] ELSE R[x]
          /\ q[x] = IF x = R[i] THEN R[j] ELSE both[x]
          /\ q[R[j]] = R[j] /\ M[R[j]] = R[j] /\ e[R[j]] = d[R[j]]
          /\ e[x] = IF R[x] = R[i] THEN d[x] + d[R[j]] + 1 ELSE d[x]
          /\ e[both[x]] = IF R[both[x]] = R[i] THEN d[both[x]] + d[R[j]] + 1 ELSE d[both[x]]
          /\ M[both[x]] = IF R[both[x]] = R[i] THEN R[j] ELSE R[both[x]]
          /\ e[R[x]] = IF R[R[x]] = R[i] THEN d[R[x]] + d[R[j]] + 1 ELSE d[R[x]]
          /\ q[R[x]] = IF R[x] = R[i] THEN R[j] ELSE both[R[x]]
      BY <1>1, <1>5, <2>1, <3>1 DEF Merged, Tree
    <3> HIDE DEF M, q, e
    <3>3. CASE x = R[i]
      BY <1>5, <2>1, <3>1, <3>2, <3>3
    <3>4. CASE x # R[i] /\ R[x] = R[i]
      BY <1>5, <2>1, <3>1, <3>2, <3>4
    <3>5. CASE R[x] # R[i]
      BY <1>5, <2>1, <3>1, <3>2, <3>5
    <3> QED
      BY <3>3, <3>4, <3>5
  <2> HIDE DEF M, q, e
  <2>4. Tree(q, M, e, N)
    BY <2>2, <2>3 DEF Tree
  <2> QED
    BY <1>3, <1>5, <2>4 DEF M, q
<1> QED
  BY <1>4, <1>5

-----------------------------------------------------------------------------
(* Layers: connected components                                            *)

\* Nearness has no direction.
LEMMA NearSymmetric ==
  ASSUME NEW hashes, NEW i, NEW j, Near(hashes, i, j)
  PROVE  Near(hashes, j, i)
<1>1. (hashes[i] \ hashes[j]) \cup (hashes[j] \ hashes[i]) = (hashes[j] \ hashes[i]) \cup (hashes[i] \ hashes[j])
  OBVIOUS
<1> QED
  BY <1>1, Zenon DEF Near, Hamming

\* The events one step further, and the sets that no step leaves.
Further(hashes, S) == {j \in DOMAIN hashes : \E m \in S : j = m \/ Near(hashes, m, j)}
Closed(hashes, S) == \A m \in S, j \in DOMAIN hashes : Near(hashes, m, j) => j \in S

\* The events reached from i in 0, 1, ... steps.
Spreads(h, hashes, i, N) ==
    /\ h \in [0 .. N -> SUBSET (1 .. N)] /\ h[0] = {i}
    /\ \A k \in 1 .. N : h[k] = Further(hashes, h[k - 1])

\* The recursion of Component has a solution, and the component is its last value.
LEMMA ComponentUnfolds ==
  ASSUME NEW N \in Nat, NEW hashes, Len(hashes) = N, DOMAIN hashes = 1 .. N, NEW i \in 1 .. N
  PROVE  \E h : Spreads(h, hashes, i, N) /\ Component(hashes, i) = h[N]
<1> DEFINE Z == SUBSET (1 .. N)
           G == [y \in (1 .. N) \X Z |-> Further(hashes, y[2])]
<1>0. {i} \in Z /\ \A S : Further(hashes, S) \in Z
  BY DEF Further
<1> HIDE DEF Z
<1>1. ASSUME NEW k \in 1 .. N, NEW S \in Z
      PROVE  G[<<k, S>>] = Further(hashes, S)
  OBVIOUS
<1>2. Steps(G, Z, N)
  <2>1. \A y \in (1 .. N) \X Z : G[y] \in Z
    BY <1>0
  <2>2. G \in [(1 .. N) \X Z -> Z]
    BY <2>1
  <2> HIDE DEF G
  <2> QED
    BY <2>2 DEF Steps
<1> HIDE DEF G
<1>3. PICK f : Follows(f, {i}, G, Z, N)
  BY <1>0, <1>2, RecursionExists
<1>4. \A k \in 0 .. N : f[k] = IF k = 0 THEN {i} ELSE Further(hashes, f[k - 1])
  <2>0. f[0] = {i} /\ \A k \in 0 .. N : k = 0 \/ k \in 1 .. N
    BY <1>3 DEF Follows
  <2> SUFFICES ASSUME NEW k \in 1 .. N PROVE f[k] = Further(hashes, f[k - 1])
    <3>1. \A k \in 1 .. N : k # 0
      OBVIOUS
    <3> QED
      BY <2>0, <3>1, Zenon
  <2>1. k - 1 \in 0 .. N
    OBVIOUS
  <2>2. f[k - 1] \in Z
    BY <1>3, <2>1 DEF Follows
  <2> QED
    BY <1>1, <1>3, <2>2 DEF Follows
<1>5. f = [k \in 0 .. N |-> IF k = 0 THEN {i} ELSE Further(hashes, f[k - 1])]
  BY <1>3, <1>4 DEF Follows
<1> DEFINE h == CHOOSE h1 : h1 = [k \in 0 .. N |-> IF k = 0 THEN {i} ELSE Further(hashes, h1[k - 1])]
<1>6. h = [k \in 0 .. N |-> IF k = 0 THEN {i} ELSE Further(hashes, h[k - 1])]
  BY <1>5, Zenon
<1>7. Component(hashes, i) = h[N]
  BY Zenon DEF Component, Further
<1> HIDE DEF h
<1>8. h[0] = {i} /\ \A k \in 1 .. N : h[k] = Further(hashes, h[k - 1])
  <2>1. 0 \in 0 .. N /\ \A k \in 1 .. N : k \in 0 .. N /\ k # 0
    OBVIOUS
  <2> QED
    BY <1>6, <2>1, Zenon
<1>9. \A k \in 0 .. N : h[k] \in Z
  <2>1. \A k \in 0 .. N : k = 0 \/ k \in 1 .. N
    OBVIOUS
  <2> QED
    BY <1>0, <1>8, <2>1, Zenon
<1>10. h \in [0 .. N -> Z]
  BY <1>6, <1>9
<1> QED
  BY <1>7, <1>8, <1>10 DEF Z, Spreads

\* The component of an event is the least set around it that no step leaves.
LEMMA ComponentIs ==
  ASSUME NEW N \in Nat, NEW hashes, Len(hashes) = N, DOMAIN hashes = 1 .. N, NEW i \in 1 .. N
  PROVE  /\ i \in Component(hashes, i) /\ Component(hashes, i) \subseteq 1 .. N
         /\ Closed(hashes, Component(hashes, i))
         /\ \A S : i \in S /\ Closed(hashes, S) => Component(hashes, i) \subseteq S
<1>0. PICK h : Spreads(h, hashes, i, N) /\ Component(hashes, i) = h[N]
  BY ComponentUnfolds
<1>1. /\ h \in [0 .. N -> SUBSET (1 .. N)] /\ h[0] = {i}
      /\ \A k \in 1 .. N : h[k] = Further(hashes, h[k - 1])
  BY <1>0 DEF Spreads
<1>2. \A n \in Nat : n + 1 <= N =>
         /\ n + 1 \in 1 .. N /\ n \in 0 .. N /\ n + 1 \in 0 .. N /\ (n + 1) - 1 = n
         /\ h[n + 1] = Further(hashes, h[n]) /\ h[n] \subseteq 1 .. N /\ h[n + 1] \subseteq 1 .. N
  <2> SUFFICES ASSUME NEW n \in Nat, n + 1 <= N
               PROVE  /\ n + 1 \in 1 .. N /\ n \in 0 .. N /\ n + 1 \in 0 .. N /\ (n + 1) - 1 = n
                      /\ h[n + 1] = Further(hashes, h[n]) /\ h[n] \subseteq 1 .. N /\ h[n + 1] \subseteq 1 .. N
    OBVIOUS
  <2>1. n + 1 \in 1 .. N /\ n \in 0 .. N /\ n + 1 \in 0 .. N /\ (n + 1) - 1 = n
    OBVIOUS
  <2>2. h[n + 1] = Further(hashes, h[(n + 1) - 1])
    BY <1>1, <2>1
  <2> QED
    BY <1>1, <2>1, <2>2
<1>3. ASSUME NEW n \in Nat, n + 1 <= N
      PROVE  /\ h[n] \subseteq h[n + 1]
             /\ Closed(hashes, h[n]) => h[n + 1] = h[n]
             /\ ~Closed(hashes, h[n]) => h[n + 1] # h[n]
  <2>1. h[n + 1] = Further(hashes, h[n]) /\ h[n] \subseteq 1 .. N
    BY <1>2, <1>3
  <2> QED
    <3>1. h[n] \subseteq h[n + 1]
      BY <2>1 DEF Further
    <3>2. Closed(hashes, h[n]) => h[n + 1] \subseteq h[n]
      BY <2>1 DEF Further, Closed
    <3>3. ASSUME ~Closed(hashes, h[n]) PROVE h[n + 1] # h[n]
      <4>1. PICK m \in h[n], j \in 1 .. N : Near(hashes, m, j) /\ j \notin h[n]
        BY <3>3 DEF Closed
      <4>2. j \in h[n + 1]
        BY <2>1, <4>1 DEF Further
      <4> QED
        BY <4>1, <4>2
    <3> QED
      BY <3>1, <3>2, <3>3
<1>4. IsFiniteSet(1 .. N) /\ Cardinality(1 .. N) = N
  BY FS_Interval
<1>5. \A S \in SUBSET (1 .. N) : IsFiniteSet(S) /\ Cardinality(S) \in Nat /\ Cardinality(S) <= N
  <2> SUFFICES ASSUME NEW S \in SUBSET (1 .. N)
               PROVE  IsFiniteSet(S) /\ Cardinality(S) \in Nat /\ Cardinality(S) <= N
    OBVIOUS
  <2>1. IsFiniteSet(S) /\ Cardinality(S) <= N
    <3> DEFINE I == 1 .. N
    <3>1. IsFiniteSet(I) /\ S \in SUBSET I /\ Cardinality(I) = N
      BY <1>4
    <3> HIDE DEF I
    <3>2. IsFiniteSet(S) /\ Cardinality(S) <= Cardinality(I)
      BY <3>1, FS_Subset
    <3> QED
      BY <3>1, <3>2
  <2> QED
    BY <2>1, FS_CardinalityType
<1>6. i \in h[N] /\ Closed(hashes, h[N])
  <2> DEFINE P == {n \in Nat : n <= N => i \in h[n] /\ (Closed(hashes, h[n]) \/ Cardinality(h[n]) >= n + 1)}
  <2>1. 0 \in P
    <3>1. Cardinality({i}) = 1
      BY FS_Singleton
    <3>2. i \in h[0] /\ Cardinality(h[0]) >= 0 + 1
      BY <1>1, <3>1
    <3> QED
      BY <3>2
  <2>2. ASSUME NEW n \in P PROVE n + 1 \in P
    <3> SUFFICES ASSUME n + 1 <= N
                 PROVE  i \in h[n + 1] /\ (Closed(hashes, h[n + 1]) \/ Cardinality(h[n + 1]) >= (n + 1) + 1)
      OBVIOUS
    <3>1. n \in Nat /\ n <= N /\ i \in h[n] /\ (Closed(hashes, h[n]) \/ Cardinality(h[n]) >= n + 1)
      OBVIOUS
    <3>2. /\ h[n] \subseteq h[n + 1]
          /\ Closed(hashes, h[n]) => h[n + 1] = h[n]
          /\ ~Closed(hashes, h[n]) => h[n + 1] # h[n]
      BY <1>3, <3>1
    <3>3. h[n] \in SUBSET (1 .. N) /\ h[n + 1] \in SUBSET (1 .. N)
      BY <1>2, <3>1
    <3>4. CASE Closed(hashes, h[n])
      BY <3>1, <3>2, <3>4
    <3>5. CASE ~Closed(hashes, h[n])
      <4>1. IsFiniteSet(h[n + 1]) /\ h[n] \in SUBSET h[n + 1]
        BY <1>5, <3>2, <3>3
      <4>2. Cardinality(h[n]) <= Cardinality(h[n + 1]) /\ Cardinality(h[n + 1]) # Cardinality(h[n])
        BY <3>2, <3>5, <4>1, FS_Subset
      <4>3. Cardinality(h[n]) \in Nat /\ Cardinality(h[n + 1]) \in Nat
        BY <1>5, <3>3
      <4> QED
        BY <3>1, <3>2, <3>5, <4>2, <4>3
    <3> QED
      BY <3>4, <3>5
  <2>3. P \subseteq Nat
    OBVIOUS
  <2> HIDE DEF P
  <2>4. P = Nat
    BY <2>1, <2>2, <2>3, SetInduction
  <2>5. i \in h[N] /\ (Closed(hashes, h[N]) \/ Cardinality(h[N]) >= N + 1)
    BY <2>4 DEF P
  <2>6. Cardinality(h[N]) \in Nat /\ Cardinality(h[N]) <= N
    <3>1. N \in 0 .. N
      OBVIOUS
    <3>2. h[N] \in SUBSET (1 .. N)
      BY <1>1, <3>1
    <3> QED
      BY <1>5, <3>2
  <2> QED
    BY <2>5, <2>6
<1>7. ASSUME NEW S, i \in S, Closed(hashes, S) PROVE h[N] \subseteq S
  <2> DEFINE P == {n \in Nat : n <= N => h[n] \subseteq S}
  <2>1. 0 \in P
    BY <1>1, <1>7
  <2>2. ASSUME NEW n \in P PROVE n + 1 \in P
    <3> SUFFICES ASSUME n + 1 <= N PROVE h[n + 1] \subseteq S
      OBVIOUS
    <3>1. h[n] \subseteq S /\ n \in Nat
      OBVIOUS
    <3>2. h[n + 1] = Further(hashes, h[n])
      BY <1>2, <3>1
    <3> QED
      BY <1>7, <3>1, <3>2, Zenon DEF Further, Closed
  <2>3. P \subseteq Nat
    OBVIOUS
  <2> HIDE DEF P
  <2>4. P = Nat
    BY <2>1, <2>2, <2>3, SetInduction
  <2> QED
    BY <2>4 DEF P
<1>8. h[N] \subseteq 1 .. N
  <2>1. N \in 0 .. N
    OBVIOUS
  <2> QED
    BY <1>1, <2>1
<1> QED
  BY <1>0, <1>6, <1>7, <1>8

\* Events of one component have that component, and near ones are of one component.
LEMMA ComponentSame ==
  ASSUME NEW N \in Nat, NEW hashes, Len(hashes) = N, DOMAIN hashes = 1 .. N
  PROVE  /\ \A i \in 1 .. N : \A j \in Component(hashes, i) : Component(hashes, j) = Component(hashes, i)
         /\ \A i, j \in 1 .. N : Near(hashes, i, j) => Component(hashes, i) = Component(hashes, j)
<1> DEFINE C(i) == Component(hashes, i)
<1>1. \A i \in 1 .. N : /\ i \in C(i) /\ C(i) \subseteq 1 .. N /\ Closed(hashes, C(i))
                        /\ \A S : i \in S /\ Closed(hashes, S) => C(i) \subseteq S
  BY ComponentIs
<1> HIDE DEF C
<1>2. \A i \in 1 .. N : \A j \in C(i) : j \in 1 .. N /\ C(j) \subseteq C(i)
  <2> SUFFICES ASSUME NEW i \in 1 .. N, NEW j \in C(i) PROVE j \in 1 .. N /\ C(j) \subseteq C(i)
    OBVIOUS
  <2>1. j \in 1 .. N
    BY <1>1
  <2> QED
    BY <1>1, <2>1, Zenon
<1>3. \A i, j \in 1 .. N : Near(hashes, i, j) => j \in C(i) /\ i \in C(j)
  <2> SUFFICES ASSUME NEW i \in 1 .. N, NEW j \in 1 .. N, Near(hashes, i, j) PROVE j \in C(i) /\ i \in C(j)
    OBVIOUS
  <2>1. Near(hashes, j, i)
    BY NearSymmetric
  <2> QED
    BY <1>1, <2>1, Zenon DEF Closed
<1>4. \A i, j \in 1 .. N : Near(hashes, i, j) => C(i) = C(j)
  <2> SUFFICES ASSUME NEW i \in 1 .. N, NEW j \in 1 .. N, Near(hashes, i, j) PROVE C(i) = C(j)
    OBVIOUS
  <2>1. C(j) \subseteq C(i) /\ C(i) \subseteq C(j)
    BY <1>2, <1>3
  <2> QED
    BY <2>1
<1>5. ASSUME NEW i \in 1 .. N, NEW j \in C(i) PROVE C(j) = C(i)
  <2> DEFINE S == {m \in 1 .. N : C(m) = C(i)}
  <2>1. i \in S
    OBVIOUS
  <2>2. Closed(hashes, S)
    <3> SUFFICES ASSUME NEW m \in S, NEW n \in DOMAIN hashes, Near(hashes, m, n) PROVE n \in S
      BY DEF Closed
    <3>1. m \in 1 .. N /\ n \in 1 .. N /\ C(m) = C(i)
      OBVIOUS
    <3>2. C(m) = C(n)
      BY <1>4, <3>1
    <3> QED
      BY <3>1, <3>2
  <2>3. C(i) \subseteq S
    BY <1>1, <2>1, <2>2
  <2> QED
    BY <2>3
<1> QED
  BY <1>4, <1>5 DEF C

-----------------------------------------------------------------------------
(* Layers: the two loops of count_clusters                                 *)

Forests(N) == {p \in [1 .. N -> 1 .. N] : \E R, d : Tree(p, R, d, N)}

\* Every root is of its events' component, and the near pairs that the loops
\* have passed, up to <<i, i + n>>, have one root.
Linked(hashes, p, N, i, n) ==
    \E R, d :
        /\ Tree(p, R, d, N)
        /\ \A x \in 1 .. N : Component(hashes, R[x]) = Component(hashes, x)
        /\ \A a, b \in 1 .. N : /\ a < b /\ Near(hashes, a, b)
                                /\ a < i \/ (a = i /\ b <= i + n)
                                => R[a] = R[b]

\* The parents stay a forest.
LEMMA JoinForest ==
  ASSUME NEW N \in Nat, NEW hashes, NEW p \in Forests(N), NEW i \in 1 .. N, NEW j \in 1 .. N
  PROVE  Join(hashes, p, i, j) \in Forests(N)
<1>1. PICK R, d : Tree(p, R, d, N)
  BY DEF Forests
<1>2. PICK e : Tree(Union(p, i, j), Merged(R, i, j, N), e, N)
  BY <1>1, UnionIs
<1>3. Union(p, i, j) \in Forests(N)
  BY <1>2 DEF Forests, Tree
<1> QED
  BY <1>3 DEF Join

\* One pair more.
LEMMA JoinIs ==
  ASSUME NEW N \in Nat, NEW hashes, Len(hashes) = N, DOMAIN hashes = 1 .. N, NEW p, NEW i \in 1 .. N,
         NEW n \in Nat, i + (n + 1) <= N, Linked(hashes, p, N, i, n)
  PROVE  Linked(hashes, Join(hashes, p, i, i + (n + 1)), N, i, n + 1)
<1> DEFINE j == i + (n + 1)
           C(x) == Component(hashes, x)
<1>0. j \in 1 .. N /\ \A b \in 1 .. N : b <= j => b <= i + n \/ b = j
  OBVIOUS
<1>1. PICK R, d : /\ Tree(p, R, d, N)
                  /\ \A x \in 1 .. N : C(R[x]) = C(x)
                  /\ \A a, b \in 1 .. N : /\ a < b /\ Near(hashes, a, b)
                                          /\ a < i \/ (a = i /\ b <= i + n)
                                          => R[a] = R[b]
  BY DEF Linked
<1> HIDE DEF j, C
<1>2. CASE Near(hashes, i, j)
  <2> DEFINE M == Merged(R, i, j, N)
  <2>1. PICK e : Tree(Union(p, i, j), M, e, N)
    BY <1>0, <1>1, UnionIs
  <2>2. Join(hashes, p, i, j) = Union(p, i, j)
    BY <1>2 DEF Join
  <2>3. C(i) = C(j)
    BY <1>0, <1>2, ComponentSame DEF C
  <2>4. \A x \in 1 .. N : M[x] = IF R[x] = R[i] THEN R[j] ELSE R[x]
    BY DEF Merged
  <2> HIDE DEF M
  <2>5. \A x \in 1 .. N : C(M[x]) = C(x)
    <3> SUFFICES ASSUME NEW x \in 1 .. N PROVE C(M[x]) = C(x)
      OBVIOUS
    <3>1. C(R[x]) = C(x) /\ C(R[i]) = C(i) /\ C(R[j]) = C(j)
      BY <1>0, <1>1
    <3>2. CASE R[x] = R[i]
      BY <2>3, <2>4, <3>1, <3>2, Zenon
    <3>3. CASE R[x] # R[i]
      BY <2>4, <3>1, <3>3, Zenon
    <3> QED
      BY <3>2, <3>3
  <2>6. ASSUME NEW a \in 1 .. N, NEW b \in 1 .. N, a < b, Near(hashes, a, b), a < i \/ (a = i /\ b <= j)
        PROVE  M[a] = M[b]
    <3>1. CASE a = i /\ b = j
      BY <1>0, <2>4, <3>1
    <3>2. CASE ~(a = i /\ b = j)
      <4>1. R[a] = R[b]
        BY <1>0, <1>1, <2>6, <3>2
      <4> QED
        BY <2>4, <4>1
    <3> QED
      BY <3>1, <3>2
  <2> QED
    BY <2>1, <2>2, <2>5, <2>6 DEF Linked, C, j
<1>3. CASE ~Near(hashes, i, j)
  <2>1. Join(hashes, p, i, j) = p
    BY <1>3 DEF Join
  <2>2. ASSUME NEW a \in 1 .. N, NEW b \in 1 .. N, a < b, Near(hashes, a, b), a < i \/ (a = i /\ b <= j)
        PROVE  R[a] = R[b]
    BY <1>0, <1>1, <1>3, <2>2
  <2> QED
    BY <1>1, <2>1, <2>2 DEF Linked, C, j
<1> QED
  BY <1>2, <1>3

\* The inner loop.
LEMMA JoinRowIs ==
  ASSUME NEW N \in Nat, NEW hashes, Len(hashes) = N, DOMAIN hashes = 1 .. N, NEW start \in Forests(N),
         NEW i \in 1 .. N
  PROVE  /\ JoinRow(hashes, start, i) \in Forests(N)
         /\ Linked(hashes, start, N, i, 0) => Linked(hashes, JoinRow(hashes, start, i), N, i, N - i)
<1> DEFINE Z == Forests(N)
           L == N - i
           G == [y \in (1 .. L) \X Z |-> Join(hashes, y[2], i, i + y[1])]
<1>0. L \in Nat /\ start \in Z /\ \A k \in 1 .. L : i + k \in 1 .. N
  OBVIOUS
<1>j. \A p \in Z, k \in 1 .. L : Join(hashes, p, i, i + k) \in Z
  BY <1>0, JoinForest
<1>l. N - i = L
  OBVIOUS
<1> HIDE DEF Z, L
<1>1. ASSUME NEW k \in 1 .. L, NEW p \in Z
      PROVE  G[<<k, p>>] = Join(hashes, p, i, i + k)
  OBVIOUS
<1>2. Steps(G, Z, L)
  <2>1. \A y \in (1 .. L) \X Z : G[y] \in Z
    BY <1>j
  <2>2. G \in [(1 .. L) \X Z -> Z]
    BY <2>1
  <2> HIDE DEF G
  <2> QED
    BY <2>2 DEF Steps
<1> HIDE DEF G
<1>3. PICK f : Follows(f, start, G, Z, L)
  BY <1>0, <1>2, RecursionExists
<1>4. \A k \in 0 .. L : f[k] = IF k = 0 THEN start ELSE Join(hashes, f[k - 1], i, i + k)
  <2>0. f[0] = start /\ \A k \in 0 .. L : k = 0 \/ k \in 1 .. L
    BY <1>0, <1>3 DEF Follows
  <2> SUFFICES ASSUME NEW k \in 1 .. L PROVE f[k] = Join(hashes, f[k - 1], i, i + k)
    <3>1. \A k \in 1 .. L : k # 0
      BY <1>0
    <3> QED
      BY <2>0, <3>1, Zenon
  <2>1. k - 1 \in 0 .. L
    BY <1>0
  <2>2. f[k - 1] \in Z
    BY <1>3, <2>1 DEF Follows
  <2> QED
    BY <1>1, <1>3, <2>2 DEF Follows
<1>5. f = [k \in 0 .. L |-> IF k = 0 THEN start ELSE Join(hashes, f[k - 1], i, i + k)]
  BY <1>3, <1>4 DEF Follows
<1> DEFINE h == CHOOSE h1 : h1 = [k \in 0 .. L |-> IF k = 0 THEN start ELSE Join(hashes, h1[k - 1], i, i + k)]
<1>6. h = [k \in 0 .. L |-> IF k = 0 THEN start ELSE Join(hashes, h[k - 1], i, i + k)]
  BY <1>5, Zenon
<1>7. JoinRow(hashes, start, i) = h[L]
  BY <1>l, Zenon DEF JoinRow
<1> HIDE DEF h
<1>8. h[0] = start /\ \A k \in 1 .. L : h[k] = Join(hashes, h[k - 1], i, i + k)
  <2>1. 0 \in 0 .. L /\ \A k \in 1 .. L : k \in 0 .. L /\ k # 0
    BY <1>0
  <2> QED
    BY <1>6, <2>1, Zenon
<1> DEFINE P == {k \in Nat : k <= L => h[k] \in Z /\ (Linked(hashes, start, N, i, 0) => Linked(hashes, h[k], N, i, k))}
<1>9. 0 \in P
  BY <1>0, <1>8
<1>10. ASSUME NEW k \in P PROVE k + 1 \in P
  <2> SUFFICES ASSUME k + 1 <= L
               PROVE  /\ h[k + 1] \in Z
                      /\ Linked(hashes, start, N, i, 0) => Linked(hashes, h[k + 1], N, i, k + 1)
    OBVIOUS
  <2>1. /\ k \in Nat /\ k + 1 \in 1 .. L /\ (k + 1) - 1 = k /\ i + (k + 1) <= N
        /\ h[k] \in Z /\ (Linked(hashes, start, N, i, 0) => Linked(hashes, h[k], N, i, k))
    BY <1>0 DEF L
  <2>2. h[k + 1] = Join(hashes, h[k], i, i + (k + 1))
    BY <1>8, <2>1
  <2>3. h[k + 1] \in Z
    BY <1>j, <2>1, <2>2
  <2>4. ASSUME Linked(hashes, h[k], N, i, k) PROVE Linked(hashes, h[k + 1], N, i, k + 1)
    BY <2>1, <2>2, <2>4, JoinIs
  <2> QED
    BY <2>1, <2>3, <2>4
<1>11. P \subseteq Nat
  OBVIOUS
<1> HIDE DEF P
<1>12. P = Nat
  BY <1>9, <1>10, <1>11, SetInduction
<1>13. h[L] \in Z /\ (Linked(hashes, start, N, i, 0) => Linked(hashes, h[L], N, i, L))
  BY <1>0, <1>12 DEF P
<1> QED
  BY <1>7, <1>13, <1>l DEF Z

\* A row that is through.
LEMMA NextRow ==
  ASSUME NEW N \in Nat, NEW hashes, NEW p, NEW i \in Nat, Linked(hashes, p, N, i, N - i)
  PROVE  Linked(hashes, p, N, i + 1, 0)
<1>1. PICK R, d : /\ Tree(p, R, d, N)
                  /\ \A x \in 1 .. N : Component(hashes, R[x]) = Component(hashes, x)
                  /\ \A a, b \in 1 .. N : /\ a < b /\ Near(hashes, a, b)
                                          /\ a < i \/ (a = i /\ b <= i + (N - i))
                                          => R[a] = R[b]
  BY DEF Linked
<1>2. ASSUME NEW a \in 1 .. N, NEW b \in 1 .. N, a < b, Near(hashes, a, b),
             a < i + 1 \/ (a = i + 1 /\ b <= (i + 1) + 0)
      PROVE  R[a] = R[b]
  <2>1. a < i \/ (a = i /\ b <= i + (N - i))
    BY <1>2
  <2> QED
    BY <1>1, <1>2, <2>1
<1> QED
  BY <1>1, <1>2 DEF Linked

\* The outer loop.
LEMMA JoinedIs ==
  ASSUME NEW N \in Nat, NEW hashes, Len(hashes) = N, DOMAIN hashes = 1 .. N
  PROVE  Linked(hashes, Joined(hashes), N, N + 1, 0)
<1> DEFINE Z == Forests(N)
           alone == [x \in 1 .. N |-> x]
           G == [y \in (1 .. N) \X Z |-> JoinRow(hashes, y[2], y[1])]
<1>a. Tree(alone, alone, [x \in 1 .. N |-> 0], N)
  BY DEF Tree
<1>b. alone \in Z
  BY <1>a DEF Forests, Tree
<1>c. Linked(hashes, alone, N, 0 + 1, 0)
  <2>1. \A x \in 1 .. N : Component(hashes, alone[x]) = Component(hashes, x)
    OBVIOUS
  <2>2. \A a, b \in 1 .. N : a < b /\ (a < 0 + 1 \/ (a = 0 + 1 /\ b <= (0 + 1) + 0)) => FALSE
    OBVIOUS
  <2> HIDE DEF alone
  <2> QED
    BY <1>a, <2>1, <2>2 DEF Linked
<1>j. \A p \in Z, i \in 1 .. N : JoinRow(hashes, p, i) \in Z
  BY JoinRowIs
<1> HIDE DEF Z, alone
<1>1. ASSUME NEW i \in 1 .. N, NEW p \in Z
      PROVE  G[<<i, p>>] = JoinRow(hashes, p, i)
  OBVIOUS
<1>2. Steps(G, Z, N)
  <2>1. \A y \in (1 .. N) \X Z : G[y] \in Z
    BY <1>j
  <2>2. G \in [(1 .. N) \X Z -> Z]
    BY <2>1
  <2> HIDE DEF G
  <2> QED
    BY <2>2 DEF Steps
<1> HIDE DEF G
<1>3. PICK f : Follows(f, alone, G, Z, N)
  BY <1>b, <1>2, RecursionExists
<1>4. \A i \in 0 .. N : f[i] = IF i = 0 THEN alone ELSE JoinRow(hashes, f[i - 1], i)
  <2>0. f[0] = alone /\ \A i \in 0 .. N : i = 0 \/ i \in 1 .. N
    BY <1>3 DEF Follows
  <2> SUFFICES ASSUME NEW i \in 1 .. N PROVE f[i] = JoinRow(hashes, f[i - 1], i)
    <3>1. \A i \in 1 .. N : i # 0
      OBVIOUS
    <3> QED
      BY <2>0, <3>1, Zenon
  <2>1. i - 1 \in 0 .. N
    OBVIOUS
  <2>2. f[i - 1] \in Z
    BY <1>3, <2>1 DEF Follows
  <2> QED
    BY <1>1, <1>3, <2>2 DEF Follows
<1>5. f = [i \in 0 .. N |-> IF i = 0 THEN alone ELSE JoinRow(hashes, f[i - 1], i)]
  BY <1>3, <1>4 DEF Follows
<1> DEFINE h == CHOOSE h1 : h1 = [i \in 0 .. N |-> IF i = 0 THEN alone ELSE JoinRow(hashes, h1[i - 1], i)]
<1>6. h = [i \in 0 .. N |-> IF i = 0 THEN alone ELSE JoinRow(hashes, h[i - 1], i)]
  BY <1>5, Zenon
<1>7. Joined(hashes) = h[N]
  BY Zenon DEF Joined, alone
<1> HIDE DEF h
<1>8. h[0] = alone /\ \A i \in 1 .. N : h[i] = JoinRow(hashes, h[i - 1], i)
  <2>1. 0 \in 0 .. N /\ \A i \in 1 .. N : i \in 0 .. N /\ i # 0
    OBVIOUS
  <2> QED
    BY <1>6, <2>1, Zenon
<1> DEFINE P == {i \in Nat : i <= N => h[i] \in Z /\ Linked(hashes, h[i], N, i + 1, 0)}
<1>9. 0 \in P
  BY <1>b, <1>c, <1>8
<1>10. ASSUME NEW i \in P PROVE i + 1 \in P
  <2> SUFFICES ASSUME i + 1 <= N PROVE h[i + 1] \in Z /\ Linked(hashes, h[i + 1], N, (i + 1) + 1, 0)
    OBVIOUS
  <2>1. /\ i \in Nat /\ i + 1 \in 1 .. N /\ i + 1 \in Nat /\ (i + 1) - 1 = i
        /\ h[i] \in Z /\ Linked(hashes, h[i], N, i + 1, 0)
    OBVIOUS
  <2>2. h[i + 1] = JoinRow(hashes, h[i], i + 1)
    BY <1>8, <2>1
  <2>3. h[i + 1] \in Z /\ Linked(hashes, h[i + 1], N, i + 1, N - (i + 1))
    BY <2>1, <2>2, JoinRowIs DEF Z
  <2> QED
    BY <2>1, <2>3, NextRow
<1>11. P \subseteq Nat
  OBVIOUS
<1> HIDE DEF P
<1>12. P = Nat
  BY <1>9, <1>10, <1>11, SetInduction
<1>13. Linked(hashes, h[N], N, N + 1, 0)
  BY <1>12 DEF P
<1> QED
  BY <1>7, <1>13

\* R has the root of every event, and the events of a component are those with its root.
Rooted(R, hashes, N) ==
    /\ R \in [1 .. N -> 1 .. N]
    /\ \A x \in 1 .. N : Root(Joined(hashes), x) = R[x] /\ R[R[x]] = R[x]
    /\ \A x \in 1 .. N : {y \in 1 .. N : R[y] = R[x]} = Component(hashes, x)

\* There is such an R.
LEMMA RootsAreComponents ==
  ASSUME NEW N \in Nat, NEW hashes, Len(hashes) = N, DOMAIN hashes = 1 .. N
  PROVE  \E R : Rooted(R, hashes, N)
<1> DEFINE C(x) == Component(hashes, x)
           p == Joined(hashes)
<1>1. PICK R, d : /\ Tree(p, R, d, N)
                  /\ \A x \in 1 .. N : C(R[x]) = C(x)
                  /\ \A a, b \in 1 .. N : /\ a < b /\ Near(hashes, a, b)
                                          /\ a < N + 1 \/ (a = N + 1 /\ b <= (N + 1) + 0)
                                          => R[a] = R[b]
  BY JoinedIs DEF Linked
<1>2. \A x \in 1 .. N : Root(p, x) = R[x]
  BY <1>1, RootIs
<1>3. \A a, b \in 1 .. N : Near(hashes, a, b) => R[a] = R[b]
  <2> SUFFICES ASSUME NEW a \in 1 .. N, NEW b \in 1 .. N, Near(hashes, a, b) PROVE R[a] = R[b]
    OBVIOUS
  <2>1. Near(hashes, b, a)
    BY NearSymmetric
  <2>2. a < N + 1 /\ b < N + 1 /\ (a < b \/ b < a \/ a = b)
    OBVIOUS
  <2> QED
    BY <1>1, <2>1, <2>2
<1>4. \A i \in 1 .. N : /\ i \in C(i) /\ C(i) \subseteq 1 .. N
                        /\ \A S : i \in S /\ Closed(hashes, S) => C(i) \subseteq S
  BY ComponentIs
<1> HIDE DEF C, p
<1>5. ASSUME NEW x \in 1 .. N PROVE {y \in 1 .. N : R[y] = R[x]} = C(x)
  <2> DEFINE S == {y \in 1 .. N : R[y] = R[x]}
  <2>1. x \in S
    OBVIOUS
  <2>2. Closed(hashes, S)
    BY <1>3 DEF Closed
  <2>3. C(x) \subseteq S
    BY <1>4, <2>1, <2>2
  <2>4. ASSUME NEW y \in S PROVE y \in C(x)
    <3>1. y \in 1 .. N /\ R[y] = R[x]
      OBVIOUS
    <3>2. C(y) = C(x)
      <4>1. C(R[y]) = C(y) /\ C(R[x]) = C(x)
        BY <1>1, <3>1
      <4> QED
        BY <3>1, <4>1, Zenon
    <3> QED
      BY <1>4, <3>1, <3>2
  <2> QED
    BY <2>3, <2>4
<1>6. R \in [1 .. N -> 1 .. N] /\ \A x \in 1 .. N : R[R[x]] = R[x]
  BY <1>1 DEF Tree
<1>7. Rooted(R, hashes, N)
  BY <1>2, <1>5, <1>6 DEF C, p, Rooted
<1> QED
  BY <1>7

\* count_clusters counts the components of two events or more.
LEMMA ClustersCounted ==
  ASSUME NEW N \in Nat, NEW hashes, Len(hashes) = N, DOMAIN hashes = 1 .. N
  PROVE  CountClusters(hashes) =
            Cardinality({c \in {Component(hashes, i) : i \in DOMAIN hashes} : Cardinality(c) >= 2})
<1> DEFINE C(x) == Component(hashes, x)
           groups == {c \in {C(i) : i \in DOMAIN hashes} : Cardinality(c) >= 2}
           own(r) == {i \in 1 .. N : Root(Joined(hashes), i) = r}
           T == {r \in 1 .. N : Cardinality(own(r)) >= 2}
           f == [r \in T |-> C(r)]
<1>0. PICK R : Rooted(R, hashes, N)
  BY RootsAreComponents
<1>1. /\ R \in [1 .. N -> 1 .. N]
      /\ \A x \in 1 .. N : Root(Joined(hashes), x) = R[x] /\ R[R[x]] = R[x]
      /\ \A x \in 1 .. N : {y \in 1 .. N : R[y] = R[x]} = C(x)
  BY <1>0 DEF Rooted
<1>2. \A r \in 1 .. N : own(r) = {y \in 1 .. N : R[y] = r}
  BY <1>1
<1>3. \A x \in 1 .. N : own(R[x]) = C(x)
  BY <1>1, <1>2
<1>4. \A x \in 1 .. N : C(R[x]) = C(x)
  <2> SUFFICES ASSUME NEW x \in 1 .. N PROVE C(R[x]) = C(x)
    OBVIOUS
  <2>1. R[x] \in 1 .. N /\ R[R[x]] = R[x]
    BY <1>1
  <2>2. {y \in 1 .. N : R[y] = R[R[x]]} = C(R[x]) /\ {y \in 1 .. N : R[y] = R[x]} = C(x)
    BY <1>1, <2>1
  <2> QED
    BY <2>1, <2>2
<1>5. \A r \in T : r \in 1 .. N /\ R[r] = r
  <2> SUFFICES ASSUME NEW r \in T PROVE r \in 1 .. N /\ R[r] = r
    OBVIOUS
  <2>1. r \in 1 .. N /\ Cardinality(own(r)) >= 2
    OBVIOUS
  <2>2. own(r) # {}
    <3> SUFFICES ASSUME own(r) = {} PROVE FALSE
      OBVIOUS
    <3>1. Cardinality({}) = 0
      BY FS_EmptySet
    <3> DEFINE n == Cardinality(own(r))
    <3>2. n = 0 /\ n >= 2
      BY <2>1, <3>1, Zenon
    <3> HIDE DEF n
    <3> QED
      BY <3>2
  <2>3. PICK x \in 1 .. N : R[x] = r
    BY <1>2, <2>1, <2>2
  <2> QED
    BY <1>1, <2>1, <2>3
<1>6. CountClusters(hashes) = Cardinality(T)
  BY DEF CountClusters
<1> HIDE DEF C, own
<1>7. f \in [T -> groups]
  <2> SUFFICES ASSUME NEW r \in T PROVE C(r) \in groups
    OBVIOUS
  <2>1. r \in 1 .. N /\ R[r] = r /\ Cardinality(own(r)) >= 2
    BY <1>5
  <2>2. own(r) = C(r)
    <3>1. own(R[r]) = C(r)
      BY <1>3, <2>1
    <3> QED
      BY <2>1, <3>1
  <2> QED
    BY <2>1, <2>2
<1>8. ASSUME NEW r \in T, NEW s \in T, C(r) = C(s) PROVE r = s
  <2>1. r \in 1 .. N /\ R[r] = r /\ s \in 1 .. N /\ R[s] = s
    BY <1>5
  <2>2. {y \in 1 .. N : R[y] = R[r]} = {y \in 1 .. N : R[y] = R[s]}
    BY <1>1, <1>8, <2>1
  <2>3. r \in {y \in 1 .. N : R[y] = R[r]}
    BY <2>1
  <2> QED
    BY <2>1, <2>2, <2>3
<1>9. ASSUME NEW c \in groups PROVE \E r \in T : C(r) = c
  <2>1. PICK x \in 1 .. N : c = C(x) /\ Cardinality(C(x)) >= 2
    OBVIOUS
  <2>2. R[x] \in 1 .. N /\ own(R[x]) = C(x) /\ C(R[x]) = C(x)
    BY <1>1, <1>3, <1>4, <2>1
  <2>3. R[x] \in T
    BY <2>1, <2>2
  <2> QED
    BY <2>1, <2>2, <2>3
<1>10. IsFiniteSet(T)
  <2>1. IsFiniteSet(1 .. N)
    BY FS_Interval
  <2>2. T \in SUBSET (1 .. N)
    OBVIOUS
  <2> HIDE DEF T
  <2> QED
    BY <2>1, <2>2, FS_Subset
<1>11. f \in Bijection(T, groups)
  <2>0. \A r \in T : f[r] = C(r)
    OBVIOUS
  <2> HIDE DEF f, T, groups
  <2>1. IsInjective(f)
    BY <1>7, <1>8, <2>0 DEF IsInjective
  <2>2. \A c \in groups : \E r \in T : f[r] = c
    BY <1>9, <2>0
  <2> QED
    BY <1>7, <2>1, <2>2 DEF Bijection, Injection, Surjection
<1>12. ExistsBijection(T, groups)
  BY <1>11, Zenon DEF ExistsBijection
<1>13. Cardinality(groups) = Cardinality(T)
  <2> HIDE DEF T, groups
  <2> QED
    BY <1>10, <1>12, FS_Bijection
<1> QED
  BY <1>6, <1>13 DEF C

\* Two things are two.
LEMMA Pair ==
  ASSUME NEW a, NEW b, a # b
  PROVE  Cardinality({a, b}) = 2
<1>1. IsFiniteSet({a}) /\ Cardinality({a}) = 1
  BY FS_Singleton
<1>2. Cardinality({a} \cup {b}) = IF b \in {a} THEN Cardinality({a}) ELSE Cardinality({a}) + 1
  BY <1>1, FS_AddElement
<1>3. b \notin {a} /\ {a} \cup {b} = {a, b}
  OBVIOUS
<1>4. Cardinality({a} \cup {b}) = 1 + 1
  BY <1>1, <1>2, <1>3
<1> QED
  BY <1>3, <1>4


\* repeated_ratio counts the events of these components.
LEMMA ClusteredCounted ==
  ASSUME NEW N \in Nat, NEW hashes, Len(hashes) = N, DOMAIN hashes = 1 .. N
  PROVE  {i \in DOMAIN hashes : \E j \in DOMAIN hashes \ {i} : Near(hashes, i, j)} =
            UNION {c \in {Component(hashes, i) : i \in DOMAIN hashes} : Cardinality(c) >= 2}
<1> DEFINE C(x) == Component(hashes, x)
           groups == {c \in {C(i) : i \in 1 .. N} : Cardinality(c) >= 2}
           near == {i \in 1 .. N : \E j \in (1 .. N) \ {i} : Near(hashes, i, j)}
<1>1. \A i \in 1 .. N : /\ i \in C(i) /\ C(i) \subseteq 1 .. N /\ Closed(hashes, C(i))
                        /\ \A S : i \in S /\ Closed(hashes, S) => C(i) \subseteq S
  BY ComponentIs
<1>2. \A i \in 1 .. N : \A j \in C(i) : C(j) = C(i)
  BY ComponentSame
<1> HIDE DEF C
<1>3. ASSUME NEW i \in 1 .. N PROVE IsFiniteSet(C(i))
  <2>1. IsFiniteSet(1 .. N)
    BY FS_Interval
  <2>2. C(i) \in SUBSET (1 .. N)
    BY <1>1
  <2> QED
    BY <2>1, <2>2, FS_Subset
<1>4. ASSUME NEW i \in near PROVE i \in UNION groups
  <2>1. PICK j \in 1 .. N : j # i /\ Near(hashes, i, j)
    OBVIOUS
  <2>2. i \in 1 .. N
    OBVIOUS
  <2>3. i \in C(i) /\ j \in C(i)
    BY <1>1, <2>1, <2>2 DEF Closed
  <2>4. Cardinality({i, j}) = 2
    BY <2>1, Pair
  <2>5. Cardinality(C(i)) \in Nat /\ Cardinality({i, j}) <= Cardinality(C(i))
    <3>1. IsFiniteSet(C(i)) /\ {i, j} \in SUBSET C(i)
      BY <1>3, <2>2, <2>3
    <3> QED
      BY <3>1, FS_Subset, FS_CardinalityType
  <2>6. C(i) \in groups
    BY <2>2, <2>4, <2>5
  <2> QED
    BY <2>3, <2>6
<1>5. ASSUME NEW i \in UNION groups PROVE i \in near
  <2>1. PICK x \in 1 .. N : i \in C(x) /\ Cardinality(C(x)) >= 2
    OBVIOUS
  <2>2. i \in 1 .. N /\ C(i) = C(x)
    BY <1>1, <1>2, <2>1
  <2> SUFFICES ASSUME \A j \in (1 .. N) \ {i} : ~Near(hashes, i, j) PROVE FALSE
    BY <2>2
  <2>3. Closed(hashes, {i})
    BY DEF Closed
  <2>4. C(i) = {i}
    BY <1>1, <2>2, <2>3
  <2>5. Cardinality({i}) = 1
    BY FS_Singleton
  <2> QED
    BY <2>1, <2>2, <2>4, <2>5
<1>6. near = UNION groups
  BY <1>4, <1>5
<1> QED
  BY <1>6 DEF C

-----------------------------------------------------------------------------
(* Layers: the clusters are the components                                 *)

\* The events of a pubkey are a sequence of posts.
LEMMA EventsTyped == LayersSpec => [](events \in Seq(Posts))
<1>1. LayersInit => events \in Seq(Posts)
  BY DEF LayersInit
<1>2. events \in Seq(Posts) /\ [LayersNext]_events => (events \in Seq(Posts))'
  <2> SUFFICES ASSUME events \in Seq(Posts), [LayersNext]_events PROVE events' \in Seq(Posts)
    OBVIOUS
  <2>1. CASE Post
    BY <2>1 DEF Post
  <2>2. CASE UNCHANGED events
    BY <2>2
  <2> QED
    BY <2>1, <2>2 DEF LayersNext
<1> QED
  BY <1>1, <1>2, PTL DEF LayersSpec

\* For every sequence of posts, whatever their hashes and the threshold, the union-find of
\* count_clusters counts the connected components of two events or more, and repeated_ratio
\* counts the events in them.
THEOREM ClustersCorrect == LayersSpec => []ClustersAreComponents
<1>1. events \in Seq(Posts) => ClustersAreComponents
  <2> SUFFICES ASSUME events \in Seq(Posts) PROVE ClustersAreComponents
    OBVIOUS
  <2> DEFINE hashes == SimHashes(events)
             N == Len(events)
             groups == {c \in {Component(hashes, i) : i \in DOMAIN hashes} : Cardinality(c) >= 2}
  <2>1. N \in Nat /\ Len(hashes) = N /\ DOMAIN hashes = 1 .. N
    BY DEF SimHashes
  <2> HIDE DEF hashes, N
  <2>2. CountClusters(hashes) = Cardinality(groups)
    BY <2>1, ClustersCounted
  <2>3. Clustered(hashes) = Cardinality(UNION groups)
    <3>1. {i \in DOMAIN hashes : \E j \in DOMAIN hashes \ {i} : Near(hashes, i, j)} = UNION groups
      BY <2>1, ClusteredCounted
    <3> HIDE DEF groups
    <3> QED
      BY <3>1, Zenon DEF Clustered
  <2> QED
    BY <2>2, <2>3, Zenon DEF ClustersAreComponents, hashes
<1> QED
  BY <1>1, EventsTyped, PTL

-----------------------------------------------------------------------------
(* Layers: the clusters with two neighbours in the other order             *)

\* s turns positions around: two times it leads back.
Turns(s, N) == s \in [1 .. N -> 1 .. N] /\ \A k \in 1 .. N : s[s[k]] = k

\* The exchange of i and i + 1.
Turn(i, N) == [k \in 1 .. N |-> IF k = i THEN i + 1 ELSE IF k = i + 1 THEN i ELSE k]

\* Swapped has at every position what was at the other one.
LEMMA SwappedIs ==
  ASSUME NEW E, NEW evs \in Seq(E), NEW i \in 1 .. Len(evs) - 1
  PROVE  /\ Turns(Turn(i, Len(evs)), Len(evs)) /\ Len(evs) \in Nat
         /\ Swapped(evs, i) \in Seq(E) /\ Len(Swapped(evs, i)) = Len(evs)
         /\ DOMAIN Swapped(evs, i) = 1 .. Len(evs) /\ DOMAIN evs = 1 .. Len(evs)
         /\ \A k \in 1 .. Len(evs) : Swapped(evs, i)[k] = evs[Turn(i, Len(evs))[k]]
<1> DEFINE N == Len(evs)
           s == Turn(i, N)
           other == Swapped(evs, i)
<1>1. N \in Nat /\ DOMAIN evs = 1 .. N /\ i \in 1 .. N /\ i + 1 \in 1 .. N /\ i # i + 1
  OBVIOUS
<1>2. \A k \in 1 .. N : s[k] = IF k = i THEN i + 1 ELSE IF k = i + 1 THEN i ELSE k
  BY DEF Turn
<1>3. Turns(s, N)
  <2>1. s \in [1 .. N -> 1 .. N]
    BY <1>1 DEF Turn
  <2>2. \A k \in 1 .. N : s[s[k]] = k
    <3> HIDE DEF s, N
    <3> QED
      BY <1>1, <1>2
  <2> QED
    BY <2>1, <2>2 DEF Turns
<1>4. other \in Seq(E) /\ Len(other) = N /\ DOMAIN other = 1 .. N
  BY <1>1 DEF Swapped
<1>5. \A k \in 1 .. N : other[k] = IF k = i THEN evs[i + 1] ELSE IF k = i + 1 THEN evs[i] ELSE evs[k]
  BY <1>1 DEF Swapped
<1> HIDE DEF s, N, other
<1>6. \A k \in 1 .. N : other[k] = evs[s[k]]
  BY <1>2, <1>5
<1> QED
  BY <1>1, <1>3, <1>4, <1>6 DEF s, N, other

\* Positions are counted alike before and after a turn.
LEMMA Recount ==
  ASSUME NEW N \in Nat, NEW s, Turns(s, N), NEW A \in SUBSET (1 .. N), NEW B \in SUBSET (1 .. N),
         \A k \in 1 .. N : k \in B <=> s[k] \in A
  PROVE  Cardinality(B) = Cardinality(A)
<1> DEFINE f == [k \in B |-> s[k]]
<1>1. f \in [B -> A]
  BY DEF Turns
<1>2. IsInjective(f)
  BY DEF IsInjective, Turns
<1>3. \A a \in A : \E k \in B : f[k] = a
  <2> SUFFICES ASSUME NEW a \in A PROVE \E k \in B : f[k] = a
    OBVIOUS
  <2>1. s[a] \in 1 .. N /\ s[s[a]] = a
    BY DEF Turns
  <2>2. s[a] \in B
    BY <2>1
  <2>3. f[s[a]] = a
    BY <2>1, <2>2
  <2> QED
    BY <2>2, <2>3
<1>4. f \in Bijection(B, A)
  <2> HIDE DEF f
  <2> QED
    BY <1>1, <1>2, <1>3 DEF Bijection, Injection, Surjection
<1>5. ExistsBijection(B, A)
  BY <1>4, Zenon DEF ExistsBijection
<1>6. IsFiniteSet(B)
  <2>1. IsFiniteSet(1 .. N)
    BY FS_Interval
  <2> QED
    BY <2>1, FS_Subset
<1> QED
  BY <1>5, <1>6, FS_Bijection

\* g is h after the turn s.
Turned(h, g, s, N) ==
    /\ Turns(s, N) /\ Len(h) = N /\ DOMAIN h = 1 .. N /\ Len(g) = N /\ DOMAIN g = 1 .. N
    /\ \A k \in 1 .. N : g[k] = h[s[k]]

\* And h is g after it.
LEMMA TurnedBack ==
  ASSUME NEW N \in Nat, NEW h, NEW g, NEW s, Turned(h, g, s, N)
  PROVE  Turned(g, h, s, N)
<1>1. ASSUME NEW k \in 1 .. N PROVE h[k] = g[s[k]]
  <2>1. s[k] \in 1 .. N /\ s[s[k]] = k
    BY DEF Turned, Turns
  <2>2. g[s[k]] = h[s[s[k]]]
    BY <2>1 DEF Turned
  <2> QED
    BY <2>1, <2>2
<1> QED
  BY <1>1 DEF Turned

\* Nearness turns with the hashes.
LEMMA NearTurned ==
  ASSUME NEW N \in Nat, NEW h, NEW g, NEW s, Turned(h, g, s, N), NEW a \in 1 .. N, NEW b \in 1 .. N
  PROVE  Near(g, a, b) <=> Near(h, s[a], s[b])
<1>1. g[a] = h[s[a]] /\ g[b] = h[s[b]]
  BY DEF Turned
<1> QED
  BY <1>1, Zenon DEF Near

\* A component lies within the turned one.
LEMMA ComponentWithin ==
  ASSUME NEW N \in Nat, NEW h, NEW g, NEW s, Turned(h, g, s, N), NEW x \in 1 .. N
  PROVE  Component(g, x) \subseteq {y \in 1 .. N : s[y] \in Component(h, s[x])}
<1> DEFINE C == Component(h, s[x])
           S == {y \in 1 .. N : s[y] \in C}
<1>1. s[x] \in 1 .. N /\ \A y \in 1 .. N : s[y] \in 1 .. N
  BY DEF Turned, Turns
<1>2. s[x] \in C /\ Closed(h, C)
  BY <1>1, ComponentIs DEF Turned
<1> HIDE DEF C
<1>3. Closed(g, S)
  <2> SUFFICES ASSUME NEW m \in S, NEW j \in 1 .. N, Near(g, m, j) PROVE j \in S
    BY DEF Closed, Turned
  <2>1. m \in 1 .. N /\ s[m] \in C /\ s[j] \in 1 .. N
    BY <1>1
  <2>2. Near(h, s[m], s[j])
    BY <2>1, NearTurned
  <2>3. s[j] \in C
    BY <1>2, <2>1, <2>2 DEF Closed, Turned
  <2> QED
    BY <2>3
<1>4. x \in S
  BY <1>2
<1> QED
  BY <1>3, <1>4, ComponentIs DEF C, Turned

\* Components turn with the hashes.
LEMMA ComponentTurned ==
  ASSUME NEW N \in Nat, NEW h, NEW g, NEW s, Turned(h, g, s, N), NEW x \in 1 .. N
  PROVE  Component(g, x) = {y \in 1 .. N : s[y] \in Component(h, s[x])}
<1>1. Component(g, x) \subseteq {y \in 1 .. N : s[y] \in Component(h, s[x])}
  BY ComponentWithin
<1>2. \A y \in 1 .. N : s[y] \in 1 .. N /\ s[s[y]] = y
  BY DEF Turned, Turns
<1>3. Component(h, s[x]) \subseteq {y \in 1 .. N : s[y] \in Component(g, s[s[x]])}
  BY <1>2, TurnedBack, ComponentWithin
<1>4. ASSUME NEW y \in 1 .. N, s[y] \in Component(h, s[x]) PROVE y \in Component(g, x)
  <2>1. s[s[y]] \in Component(g, s[s[x]])
    BY <1>3, <1>4
  <2> QED
    BY <1>2, <2>1
<1> QED
  BY <1>1, <1>4

\* The clusters and the clustered events are as many in either order.
LEMMA ClustersTurned ==
  ASSUME NEW N \in Nat, NEW h, NEW g, NEW s, Turned(h, g, s, N)
  PROVE  CountClusters(g) = CountClusters(h) /\ Clustered(g) = Clustered(h)
<1> DEFINE G(k) == {c \in {Component(k, i) : i \in 1 .. N} : Cardinality(c) >= 2}
           back(c) == {y \in 1 .. N : s[y] \in c}
           f == [c \in G(h) |-> back(c)]
<1>0. /\ Len(h) = N /\ DOMAIN h = 1 .. N /\ Len(g) = N /\ DOMAIN g = 1 .. N /\ Turns(s, N)
      /\ \A y \in 1 .. N : s[y] \in 1 .. N /\ s[s[y]] = y
  BY DEF Turned, Turns
<1>1. CountClusters(g) = Cardinality(G(g)) /\ CountClusters(h) = Cardinality(G(h))
  BY <1>0, ClustersCounted
<1>2. \A x \in 1 .. N : Component(g, x) = back(Component(h, s[x]))
  BY ComponentTurned
<1>3. \A x \in 1 .. N : Component(h, x) \in SUBSET (1 .. N)
  BY <1>0, ComponentIs
<1>4. \A c \in SUBSET (1 .. N) : Cardinality(back(c)) = Cardinality(c)
  <2> SUFFICES ASSUME NEW c \in SUBSET (1 .. N) PROVE Cardinality(back(c)) = Cardinality(c)
    OBVIOUS
  <2>1. back(c) \in SUBSET (1 .. N) /\ \A k \in 1 .. N : k \in back(c) <=> s[k] \in c
    OBVIOUS
  <2> HIDE DEF back
  <2> QED
    BY <1>0, <2>1, Recount
<1>5. \A c, e \in SUBSET (1 .. N) : back(c) = back(e) => c = e
  <2> SUFFICES ASSUME NEW c \in SUBSET (1 .. N), NEW e \in SUBSET (1 .. N), back(c) = back(e)
               PROVE  c = e
    OBVIOUS
  <2>1. ASSUME NEW y \in 1 .. N PROVE y \in c <=> y \in e
    <3>1. s[y] \in 1 .. N /\ s[s[y]] = y
      BY <1>0
    <3>2. s[y] \in back(c) <=> s[y] \in back(e)
      OBVIOUS
    <3> QED
      BY <3>1, <3>2
  <2> QED
    BY <2>1
<1> HIDE DEF back
<1>6. \A c \in G(h) : c \in SUBSET (1 .. N) /\ back(c) \in G(g)
  <2> SUFFICES ASSUME NEW c \in G(h) PROVE c \in SUBSET (1 .. N) /\ back(c) \in G(g)
    OBVIOUS
  <2>1. PICK x \in 1 .. N : c = Component(h, x) /\ Cardinality(c) >= 2
    OBVIOUS
  <2>2. c \in SUBSET (1 .. N)
    BY <1>3, <2>1
  <2>3. s[x] \in 1 .. N /\ Component(g, s[x]) = back(c)
    BY <1>0, <1>2, <2>1
  <2>4. Cardinality(back(c)) >= 2
    BY <1>4, <2>1, <2>2
  <2> QED
    BY <2>2, <2>3, <2>4
<1>7. \A e \in G(g) : \E c \in G(h) : back(c) = e
  <2> SUFFICES ASSUME NEW e \in G(g) PROVE \E c \in G(h) : back(c) = e
    OBVIOUS
  <2>1. PICK x \in 1 .. N : e = Component(g, x) /\ Cardinality(e) >= 2
    OBVIOUS
  <2>2. s[x] \in 1 .. N /\ e = back(Component(h, s[x]))
    BY <1>0, <1>2, <2>1
  <2>3. Cardinality(Component(h, s[x])) >= 2
    BY <1>3, <1>4, <2>1, <2>2
  <2> QED
    BY <2>2, <2>3
<1>8. IsFiniteSet(G(h))
  <2>1. IsFiniteSet(1 .. N)
    BY FS_Interval
  <2>2. IsFiniteSet(SUBSET (1 .. N))
    BY <2>1, FS_SUBSET
  <2>3. G(h) \in SUBSET (SUBSET (1 .. N))
    BY <1>6
  <2> HIDE DEF G
  <2> QED
    BY <2>2, <2>3, FS_Subset
<1> HIDE DEF G
<1>9. f \in Bijection(G(h), G(g))
  <2>0. \A c \in G(h) : f[c] = back(c)
    OBVIOUS
  <2>1. f \in [G(h) -> G(g)]
    BY <1>6
  <2> HIDE DEF f
  <2>2. IsInjective(f)
    BY <1>5, <1>6, <2>0, <2>1 DEF IsInjective
  <2>3. \A e \in G(g) : \E c \in G(h) : f[c] = e
    BY <1>7, <2>0
  <2> QED
    BY <2>1, <2>2, <2>3 DEF Bijection, Injection, Surjection
<1>10. ExistsBijection(G(h), G(g))
  BY <1>9, Zenon DEF ExistsBijection
<1>11. Cardinality(G(g)) = Cardinality(G(h))
  BY <1>8, <1>10, FS_Bijection
<1>12. Clustered(g) = Clustered(h)
  <2> DEFINE A == {i \in 1 .. N : \E j \in (1 .. N) \ {i} : Near(h, i, j)}
             B == {i \in 1 .. N : \E j \in (1 .. N) \ {i} : Near(g, i, j)}
  <2>1. ASSUME NEW k \in 1 .. N PROVE k \in B <=> s[k] \in A
    <3>1. s[k] \in 1 .. N /\ s[s[k]] = k
      BY <1>0
    <3>2. ASSUME NEW j \in (1 .. N) \ {k}, Near(g, k, j) PROVE s[k] \in A
      <4>1. s[j] \in 1 .. N /\ s[s[j]] = j /\ s[j] # s[k]
        BY <1>0, <3>1
      <4>2. Near(h, s[k], s[j])
        BY <3>2, NearTurned
      <4> QED
        BY <3>1, <4>1, <4>2
    <3>3. ASSUME NEW j \in (1 .. N) \ {s[k]}, Near(h, s[k], j) PROVE k \in B
      <4>1. s[j] \in 1 .. N /\ s[s[j]] = j /\ s[j] # k
        BY <1>0, <3>1
      <4>2. Near(g, k, s[j])
        BY <3>3, <4>1, NearTurned
      <4> QED
        BY <4>1, <4>2
    <3> QED
      BY <3>1, <3>2, <3>3
  <2>2. A \in SUBSET (1 .. N) /\ B \in SUBSET (1 .. N)
    OBVIOUS
  <2>3. Clustered(h) = Cardinality(A) /\ Clustered(g) = Cardinality(B)
    BY <1>0 DEF Clustered
  <2> HIDE DEF A, B
  <2> QED
    BY <1>0, <2>1, <2>2, <2>3, Recount
<1> QED
  BY <1>1, <1>11, <1>12

-----------------------------------------------------------------------------
(* Layers: sums and counts over sequences                                  *)

\* f has the partial sums of x.
Sums(f, x) ==
    f \in [0 .. Len(x) -> Nat] /\ f[0] = 0 /\ \A i \in 1 .. Len(x) : f[i] = f[i - 1] + x[i]

\* Added is the last of the partial sums.
LEMMA AddedIs ==
  ASSUME NEW x \in Seq(Nat)
  PROVE  \E f : Sums(f, x) /\ Added(x) = f[Len(x)]
<1> DEFINE N == Len(x)
           G == [a \in (1 .. N) \X Nat |-> a[2] + x[a[1]]]
<1>0. N \in Nat /\ \A k \in 1 .. N : x[k] \in Nat
  OBVIOUS
<1>l. Len(x) = N
  OBVIOUS
<1> HIDE DEF N
<1>1. \A k \in 1 .. N, v \in Nat : G[<<k, v>>] = v + x[k]
  OBVIOUS
<1>2. Steps(G, Nat, N)
  <2>1. \A a \in (1 .. N) \X Nat : a[2] + x[a[1]] \in Nat
    BY <1>0
  <2> QED
    BY <2>1 DEF Steps
<1> HIDE DEF G
<1>3. PICK f : Follows(f, 0, G, Nat, N)
  BY <1>0, <1>2, RecursionExists
<1>4. \A k \in 0 .. N : f[k] = IF k = 0 THEN 0 ELSE f[k - 1] + x[k]
  <2>0. f[0] = 0 /\ \A k \in 0 .. N : k = 0 \/ k \in 1 .. N
    BY <1>0, <1>3 DEF Follows
  <2> SUFFICES ASSUME NEW k \in 1 .. N PROVE f[k] = f[k - 1] + x[k]
    <3>1. \A k \in 1 .. N : k # 0
      BY <1>0
    <3> QED
      BY <2>0, <3>1, Zenon
  <2>1. k - 1 \in 0 .. N
    BY <1>0
  <2>2. f[k - 1] \in Nat
    BY <1>3, <2>1 DEF Follows
  <2> QED
    BY <1>1, <1>3, <2>2 DEF Follows
<1>5. f = [k \in 0 .. N |-> IF k = 0 THEN 0 ELSE f[k - 1] + x[k]]
  BY <1>3, <1>4 DEF Follows
<1> DEFINE h == CHOOSE h1 : h1 = [k \in 0 .. N |-> IF k = 0 THEN 0 ELSE h1[k - 1] + x[k]]
<1>6. h = [k \in 0 .. N |-> IF k = 0 THEN 0 ELSE h[k - 1] + x[k]]
  BY <1>5, Zenon
<1>7. Added(x) = h[N]
  BY <1>l, Zenon DEF Added
<1> HIDE DEF h
<1>8. h[0] = 0 /\ \A k \in 1 .. N : h[k] = h[k - 1] + x[k]
  <2>1. 0 \in 0 .. N /\ \A k \in 1 .. N : k \in 0 .. N /\ k # 0
    BY <1>0
  <2> QED
    BY <1>6, <2>1, Zenon
<1> DEFINE P == {k \in Nat : k <= N => h[k] \in Nat}
<1>9. 0 \in P
  BY <1>8
<1>10. ASSUME NEW k \in P PROVE k + 1 \in P
  <2> SUFFICES ASSUME k + 1 <= N PROVE h[k + 1] \in Nat
    OBVIOUS
  <2>1. k + 1 \in 1 .. N /\ (k + 1) - 1 = k /\ h[k] \in Nat
    BY <1>0
  <2>2. h[k + 1] = h[k] + x[k + 1]
    BY <1>8, <2>1
  <2> QED
    BY <1>0, <2>1, <2>2
<1>11. P \subseteq Nat
  OBVIOUS
<1> HIDE DEF P
<1>12. P = Nat
  BY <1>9, <1>10, <1>11, SetInduction
<1>13. \A k \in 0 .. N : h[k] \in Nat
  BY <1>0, <1>12 DEF P
<1>14. h \in [0 .. N -> Nat]
  BY <1>6, <1>13
<1> QED
  BY <1>7, <1>8, <1>14, <1>l DEF Sums

\* The sum of the sums.
LEMMA AddedPlus ==
  ASSUME NEW N \in Nat, NEW x \in Seq(Nat), NEW y \in Seq(Nat), NEW z \in Seq(Nat),
         Len(x) = N, Len(y) = N, Len(z) = N, \A k \in 1 .. N : z[k] = x[k] + y[k]
  PROVE  Added(z) = Added(x) + Added(y)
<1>1. PICK f : Sums(f, x) /\ Added(x) = f[N]
  BY AddedIs
<1>2. PICK g : Sums(g, y) /\ Added(y) = g[N]
  BY AddedIs
<1>3. PICK h : Sums(h, z) /\ Added(z) = h[N]
  BY AddedIs
<1>a. \A k \in 0 .. N : f[k] \in Nat /\ g[k] \in Nat
  BY <1>1, <1>2 DEF Sums
<1>b. \A k \in 1 .. N : x[k] \in Nat /\ y[k] \in Nat
  OBVIOUS
<1> DEFINE P == {k \in Nat : k <= N => h[k] = f[k] + g[k]}
<1>4. 0 \in P
  BY <1>1, <1>2, <1>3 DEF Sums
<1>5. ASSUME NEW k \in P PROVE k + 1 \in P
  <2> SUFFICES ASSUME k + 1 <= N PROVE h[k + 1] = f[k + 1] + g[k + 1]
    OBVIOUS
  <2>1. k + 1 \in 1 .. N /\ (k + 1) - 1 = k /\ k \in 0 .. N /\ h[k] = f[k] + g[k]
    OBVIOUS
  <2>2. h[k + 1] = h[k] + z[k + 1] /\ f[k + 1] = f[k] + x[k + 1] /\ g[k + 1] = g[k] + y[k + 1]
    BY <1>1, <1>2, <1>3, <2>1 DEF Sums
  <2>3. f[k] \in Nat /\ g[k] \in Nat /\ x[k + 1] \in Nat /\ y[k + 1] \in Nat
    BY <1>a, <1>b, <2>1
  <2>4. h[k + 1] = (f[k] + g[k]) + (x[k + 1] + y[k + 1])
    BY <2>1, <2>2
  <2>6. (f[k] + g[k]) + (x[k + 1] + y[k + 1]) = (f[k] + x[k + 1]) + (g[k] + y[k + 1])
    <3> DEFINE a == f[k]
               b == g[k]
               c == x[k + 1]
               d == y[k + 1]
    <3>1. a \in Nat /\ b \in Nat /\ c \in Nat /\ d \in Nat
      BY <2>3
    <3> HIDE DEF a, b, c, d
    <3>2. (a + b) + (c + d) = (a + c) + (b + d)
      BY <3>1
    <3> QED
      BY <3>2 DEF a, b, c, d
  <2>7. f[k + 1] + g[k + 1] = (f[k] + x[k + 1]) + (g[k] + y[k + 1])
    BY <2>2
  <2> QED
    BY <2>4, <2>6, <2>7
<1>6. P \subseteq Nat
  OBVIOUS
<1> HIDE DEF P
<1>7. P = Nat
  BY <1>4, <1>5, <1>6, SetInduction
<1> QED
  BY <1>1, <1>2, <1>3, <1>7 DEF P

\* The sum does not see the order of two neighbours.
LEMMA AddedTurned ==
  ASSUME NEW x \in Seq(Nat), NEW y \in Seq(Nat), NEW N \in Nat, Len(x) = N, Len(y) = N,
         NEW i \in 1 .. N - 1, \A k \in 1 .. N : y[k] = x[Turn(i, N)[k]]
  PROVE  Added(y) = Added(x)
<1>0. /\ i \in 1 .. N /\ i + 1 \in 1 .. N /\ i - 1 \in 0 .. N /\ i \in 0 .. N /\ i \in Nat
      /\ \A k \in 1 .. N : x[k] \in Nat /\ y[k] \in Nat
  OBVIOUS
<1>1. y[i] = x[i + 1] /\ y[i + 1] = x[i] /\ \A k \in 1 .. N : k # i /\ k # i + 1 => y[k] = x[k]
  BY <1>0 DEF Turn
<1>2. PICK f : Sums(f, x) /\ Added(x) = f[N]
  BY AddedIs
<1>3. PICK g : Sums(g, y) /\ Added(y) = g[N]
  BY AddedIs
<1>4. \A k \in 0 .. N : f[k] \in Nat /\ g[k] \in Nat
  BY <1>2, <1>3 DEF Sums
<1>5. \A k \in 1 .. N : f[k] = f[k - 1] + x[k] /\ g[k] = g[k - 1] + y[k]
  BY <1>2, <1>3 DEF Sums
<1> DEFINE P == {k \in Nat : k <= N => g[k] = IF k = i THEN f[i - 1] + x[i + 1] ELSE f[k]}
<1>6. 0 \in P
  BY <1>2, <1>3 DEF Sums
<1>7. ASSUME NEW k \in P PROVE k + 1 \in P
  <2> SUFFICES ASSUME k + 1 <= N
               PROVE  g[k + 1] = IF k + 1 = i THEN f[i - 1] + x[i + 1] ELSE f[k + 1]
    OBVIOUS
  <2>1. k + 1 \in 1 .. N /\ (k + 1) - 1 = k /\ k \in 0 .. N /\ k \in Nat
    OBVIOUS
  <2>2. g[k] = IF k = i THEN f[i - 1] + x[i + 1] ELSE f[k]
    BY <2>1
  <2>3. f[k + 1] = f[k] + x[k + 1] /\ g[k + 1] = g[k] + y[k + 1]
    BY <1>5, <2>1
  <2>4. CASE k + 1 = i
    <3>1. k # i /\ k = i - 1
      BY <1>0, <2>1, <2>4
    <3> QED
      BY <1>1, <2>2, <2>3, <2>4, <3>1
  <2>5. CASE k = i
    <3>1. g[k + 1] = (f[i - 1] + x[i + 1]) + x[i] /\ k + 1 # i
      BY <1>1, <2>1, <2>2, <2>3, <2>5
    <3>2. f[k + 1] = (f[i - 1] + x[i]) + x[i + 1]
      BY <1>0, <1>5, <2>3, <2>5
    <3>3. f[i - 1] \in Nat /\ x[i] \in Nat /\ x[i + 1] \in Nat
      BY <1>0, <1>4
    <3>4. (f[i - 1] + x[i + 1]) + x[i] = (f[i - 1] + x[i]) + x[i + 1]
      <4> DEFINE a == f[i - 1]
                 b == x[i]
                 c == x[i + 1]
      <4>1. a \in Nat /\ b \in Nat /\ c \in Nat
        BY <3>3
      <4> HIDE DEF a, b, c
      <4>2. (a + c) + b = (a + b) + c
        BY <4>1
      <4> QED
        BY <4>2 DEF a, b, c
    <3>5. g[k + 1] = f[k + 1]
      BY <3>1, <3>2, <3>4
    <3> QED
      BY <3>1, <3>5
  <2>6. CASE k # i /\ k + 1 # i
    <3>1. k + 1 # i + 1
      BY <1>0, <2>1, <2>6
    <3>2. y[k + 1] = x[k + 1]
      BY <1>1, <2>1, <2>6, <3>1
    <3> QED
      BY <2>2, <2>3, <2>6, <3>2
  <2> QED
    BY <2>4, <2>5, <2>6
<1>8. P \subseteq Nat
  OBVIOUS
<1> HIDE DEF P
<1>9. P = Nat
  BY <1>6, <1>7, <1>8, SetInduction
<1>10. g[N] = f[N]
  <2>1. N \in P /\ N <= N /\ N # i
    BY <1>9
  <2> QED
    BY <2>1 DEF P
<1> QED
  BY <1>2, <1>3, <1>10

\* The members of s that are in A, each as often as it occurs.
Hits(A, s) == Cardinality({k \in DOMAIN s : s[k] \in A})

\* They are a number, and none outside.
LEMMA HitsTyped ==
  ASSUME NEW E, NEW s \in Seq(E), NEW A
  PROVE  Hits(A, s) \in Nat /\ IsFiniteSet({k \in DOMAIN s : s[k] \in A})
<1> DEFINE K == {k \in DOMAIN s : s[k] \in A}
<1>1. IsFiniteSet(1 .. Len(s))
  BY FS_Interval
<1>2. K \in SUBSET (1 .. Len(s))
  OBVIOUS
<1>3. Hits(A, s) = Cardinality(K)
  BY DEF Hits
<1> HIDE DEF K
<1>4. IsFiniteSet(K)
  BY <1>1, <1>2, FS_Subset
<1>5. Cardinality(K) \in Nat
  BY <1>4, FS_CardinalityType
<1> QED
  BY <1>3, <1>4, <1>5 DEF K

\* Of two sequences one behind the other: those of the one and those of the other.
LEMMA HitsJoined ==
  ASSUME NEW E, NEW s \in Seq(E), NEW t \in Seq(E), NEW A
  PROVE  Hits(A, s \o t) = Hits(A, s) + Hits(A, t)
<1> DEFINE n == Len(s)
           m == Len(t)
           X == {k \in 1 .. n : s[k] \in A}
           Y == {k \in 1 .. m : t[k] \in A}
           Z == {k \in 1 .. n + m : (s \o t)[k] \in A}
           W == {k \in n + 1 .. n + m : t[k - n] \in A}
           f == [k \in Y |-> k + n]
<1>0. /\ n \in Nat /\ m \in Nat /\ DOMAIN s = 1 .. n /\ DOMAIN t = 1 .. m /\ DOMAIN (s \o t) = 1 .. n + m
      /\ \A k \in 1 .. n + m : (s \o t)[k] = IF k <= n THEN s[k] ELSE t[k - n]
  OBVIOUS
<1>1. Hits(A, s) = Cardinality(X) /\ Hits(A, t) = Cardinality(Y) /\ Hits(A, s \o t) = Cardinality(Z)
  BY <1>0 DEF Hits
<1>2. IsFiniteSet(X) /\ IsFiniteSet(Y)
  BY <1>0, HitsTyped
<1> HIDE DEF n, m
<1>3. f \in Bijection(Y, W)
  <2>1. f \in [Y -> W]
    <3>1. ASSUME NEW k \in Y PROVE k + n \in n + 1 .. n + m /\ (k + n) - n = k /\ t[k] \in A
      BY <1>0
    <3>2. \A k \in Y : k + n \in W
      BY <3>1
    <3> QED
      BY <3>2
  <2>2. IsInjective(f)
    BY <1>0 DEF IsInjective
  <2>3. \A w \in W : \E k \in Y : f[k] = w
    <3> SUFFICES ASSUME NEW w \in W PROVE \E k \in Y : f[k] = w
      OBVIOUS
    <3>1. w - n \in 1 .. m /\ (w - n) + n = w /\ t[w - n] \in A
      BY <1>0
    <3>2. w - n \in Y
      BY <3>1
    <3> QED
      BY <3>1, <3>2
  <2> HIDE DEF f
  <2> QED
    BY <2>1, <2>2, <2>3 DEF Bijection, Injection, Surjection
<1>4. ExistsBijection(Y, W)
  BY <1>3, Zenon DEF ExistsBijection
<1>5. Z = X \cup W /\ X \cap W = {}
  <2>1. \A k \in Z : k \in X \cup W
    BY <1>0
  <2>2. \A k \in X \cup W : k \in Z
    BY <1>0
  <2>3. X \cap W = {}
    BY <1>0
  <2> QED
    BY <2>1, <2>2, <2>3
<1> HIDE DEF X, Y, Z, W
<1>6. IsFiniteSet(W) /\ Cardinality(W) = Cardinality(Y)
  BY <1>2, <1>4, FS_Bijection
<1>7. Cardinality(X \cup W) = Cardinality(X) + Cardinality(W) - Cardinality(X \cap W)
  BY <1>2, <1>6, FS_Union
<1>8. Cardinality(X \cap W) = 0 /\ Cardinality(X) \in Nat /\ Cardinality(W) \in Nat
  BY <1>2, <1>5, <1>6, FS_EmptySet, FS_CardinalityType
<1> QED
  BY <1>1, <1>5, <1>6, <1>7, <1>8

\* Nothing is found in the empty sequence, and its sum is zero.
LEMMA NothingFound ==
  /\ Added(<<>>) = 0 /\ \A A : Hits(A, <<>>) = 0
<1>1. PICK f : Sums(f, <<>>) /\ Added(<<>>) = f[Len(<<>>)]
  <2>1. <<>> \in Seq(Nat)
    OBVIOUS
  <2> QED
    BY <2>1, AddedIs
<1>2. Added(<<>>) = 0
  BY <1>1 DEF Sums
<1>3. ASSUME NEW A PROVE Hits(A, <<>>) = 0
  <2>1. {k \in DOMAIN <<>> : <<>>[k] \in A} = {}
    OBVIOUS
  <2> QED
    BY <2>1, FS_EmptySet DEF Hits
<1> QED
  BY <1>2, <1>3

\* FlattenSeq puts the sequences of ss one behind the other, from nothing.
LEMMA FlattenIs ==
  ASSUME NEW E, NEW ss \in Seq(Seq(E))
  PROVE  \E f : /\ f \in [0 .. Len(ss) -> Seq(E)] /\ f[0] = <<>>
                /\ \A k \in 1 .. Len(ss) : f[k] = f[k - 1] \o ss[k]
                /\ FlattenSeq(ss) = f[Len(ss)]
<1> DEFINE N == Len(ss)
           Z == Seq(E)
           G == [a \in (1 .. N) \X Z |-> a[2] \o ss[a[1]]]
<1>0. N \in Nat /\ (\A k \in 1 .. N : ss[k] \in Z) /\ <<>> \in Z
  OBVIOUS
<1>l. Len(ss) = N
  OBVIOUS
<1>z. \A v, w \in Z : v \o w \in Z
  OBVIOUS
<1>e. \A v \in Z : <<>> \o v = v
  OBVIOUS
<1>n. N = 0 => ss = <<>>
  OBVIOUS
<1> HIDE DEF N, Z
<1>1. \A k \in 1 .. N, v \in Z : G[<<k, v>>] = v \o ss[k]
  OBVIOUS
<1>2. Steps(G, Z, N)
  <2>1. \A a \in (1 .. N) \X Z : a[2] \o ss[a[1]] \in Z
    BY <1>0, <1>z
  <2> QED
    BY <2>1 DEF Steps
<1> HIDE DEF G
<1>3. PICK f : Follows(f, <<>>, G, Z, N)
  BY <1>0, <1>2, RecursionExists
<1>4. /\ f \in [0 .. N -> Z] /\ f[0] = <<>> /\ \A k \in 1 .. N : f[k] = f[k - 1] \o ss[k]
  <2>1. f \in [0 .. N -> Z] /\ f[0] = <<>>
    BY <1>3 DEF Follows
  <2>2. ASSUME NEW k \in 1 .. N PROVE f[k] = f[k - 1] \o ss[k]
    <3>1. k - 1 \in 0 .. N
      BY <1>0
    <3>2. f[k - 1] \in Z
      BY <2>1, <3>1
    <3> QED
      BY <1>1, <1>3, <3>2 DEF Follows
  <2> QED
    BY <2>1, <2>2
<1>5. CASE N = 0
  <2>1. FlattenSeq(ss) = ss
    BY <1>5, <1>l DEF FlattenSeq
  <2> QED
    BY <1>4, <1>5, <1>l, <1>n, <2>1 DEF Z
<1>6. CASE N # 0
  <2> DEFINE g == [k \in 1 .. N |-> f[k]]
             h == CHOOSE h1 : h1 = [k \in 1 .. N |-> IF k = 1 THEN ss[k] ELSE h1[k - 1] \o ss[k]]
  <2>1. \A k \in 1 .. N : g[k] = IF k = 1 THEN ss[k] ELSE g[k - 1] \o ss[k]
    <3> SUFFICES ASSUME NEW k \in 1 .. N PROVE f[k] = IF k = 1 THEN ss[k] ELSE g[k - 1] \o ss[k]
      OBVIOUS
    <3>1. CASE k = 1
      <4>1. f[1] = f[0] \o ss[1]
        <5>1. 1 - 1 = 0
          OBVIOUS
        <5> QED
          BY <1>4, <3>1, <5>1
      <4> QED
        BY <1>0, <1>4, <1>e, <3>1, <4>1
    <3>2. CASE k # 1
      <4>1. k - 1 \in 1 .. N
        BY <1>0, <3>2
      <4>2. g[k - 1] = f[k - 1]
        BY <4>1
      <4> QED
        BY <1>4, <3>2, <4>2
    <3> QED
      BY <3>1, <3>2
  <2>2. g = [k \in 1 .. N |-> IF k = 1 THEN ss[k] ELSE g[k - 1] \o ss[k]]
    BY <2>1
  <2>3. \A k \in 1 .. N : g[k] = f[k]
    OBVIOUS
  <2> HIDE DEF g
  <2>4. h = [k \in 1 .. N |-> IF k = 1 THEN ss[k] ELSE h[k - 1] \o ss[k]]
    BY <2>2, Zenon
  <2>5. FlattenSeq(ss) = h[N]
    BY <1>6, <1>l, Zenon DEF FlattenSeq
  <2> HIDE DEF h
  <2>6. h[1] = ss[1] /\ \A k \in 2 .. N : h[k] = h[k - 1] \o ss[k]
    <3>1. 1 \in 1 .. N /\ \A k \in 2 .. N : k \in 1 .. N /\ k # 1
      BY <1>0, <1>6
    <3> QED
      BY <2>4, <3>1, Zenon
  <2> DEFINE P == {k \in Nat : k + 1 <= N => h[k + 1] = f[k + 1]}
  <2>7. 0 \in P
    <3>1. f[1] = ss[1]
      <4>1. 1 \in 1 .. N
        BY <1>0, <1>6
      <4> QED
        BY <2>1, <2>3, <4>1
    <3> QED
      BY <2>6, <3>1
  <2>8. ASSUME NEW k \in P PROVE k + 1 \in P
    <3> SUFFICES ASSUME (k + 1) + 1 <= N PROVE h[(k + 1) + 1] = f[(k + 1) + 1]
      OBVIOUS
    <3>1. /\ (k + 1) + 1 \in 2 .. N /\ (k + 1) + 1 \in 1 .. N /\ ((k + 1) + 1) - 1 = k + 1
          /\ h[k + 1] = f[k + 1]
      BY <1>0
    <3>2. h[(k + 1) + 1] = h[k + 1] \o ss[(k + 1) + 1]
      BY <2>6, <3>1
    <3>3. f[(k + 1) + 1] = f[k + 1] \o ss[(k + 1) + 1]
      BY <1>4, <3>1
    <3> QED
      BY <3>1, <3>2, <3>3
  <2>9. P \subseteq Nat
    OBVIOUS
  <2> HIDE DEF P
  <2>10. P = Nat
    BY <2>7, <2>8, <2>9, SetInduction
  <2>11. N - 1 \in Nat /\ (N - 1) + 1 = N
    BY <1>0, <1>6
  <2>12. h[N] = f[N]
    <3>1. N - 1 \in P
      BY <2>10, <2>11
    <3> QED
      BY <2>11, <3>1 DEF P
  <2> QED
    BY <1>4, <1>l, <2>5, <2>12 DEF Z
<1> QED
  BY <1>5, <1>6

\* What is found in each of the sequences.
HitsEach(A, ss) == [k \in 1 .. Len(ss) |-> Hits(A, ss[k])]

\* A function on 1 .. N is a sequence.
LEMMA FunctionIsSeq ==
  ASSUME NEW S, NEW N \in Nat, NEW f \in [1 .. N -> S]
  PROVE  f \in Seq(S) /\ Len(f) = N /\ DOMAIN f = 1 .. N
<1>1. f \in Seq(S)
  BY SeqDef
<1> QED
  BY <1>1

\* It is a sequence of numbers.
LEMMA HitsEachTyped ==
  ASSUME NEW E, NEW ss \in Seq(Seq(E)), NEW A
  PROVE  /\ HitsEach(A, ss) \in Seq(Nat) /\ Len(HitsEach(A, ss)) = Len(ss)
         /\ \A k \in 1 .. Len(ss) : HitsEach(A, ss)[k] = Hits(A, ss[k])
<1>1. Len(ss) \in Nat /\ \A k \in 1 .. Len(ss) : ss[k] \in Seq(E)
  OBVIOUS
<1>2. \A k \in 1 .. Len(ss) : Hits(A, ss[k]) \in Nat
  BY <1>1, HitsTyped
<1>3. HitsEach(A, ss) \in [1 .. Len(ss) -> Nat]
  BY <1>2 DEF HitsEach
<1>4. \A k \in 1 .. Len(ss) : HitsEach(A, ss)[k] = Hits(A, ss[k])
  BY DEF HitsEach
<1> QED
  BY <1>1, <1>3, <1>4, FunctionIsSeq

\* What is found in all of them is found in one of them.
LEMMA FlattenHits ==
  ASSUME NEW E, NEW ss \in Seq(Seq(E)), NEW A
  PROVE  FlattenSeq(ss) \in Seq(E) /\ Hits(A, FlattenSeq(ss)) = Added(HitsEach(A, ss))
<1> DEFINE N == Len(ss)
           x == HitsEach(A, ss)
<1>0. N \in Nat /\ Len(ss) = N /\ \A k \in 1 .. N : ss[k] \in Seq(E)
  OBVIOUS
<1>3. x \in Seq(Nat) /\ Len(x) = N /\ \A k \in 1 .. N : x[k] = Hits(A, ss[k])
  BY HitsEachTyped
<1>1. PICK f : /\ f \in [0 .. N -> Seq(E)] /\ f[0] = <<>>
               /\ \A k \in 1 .. N : f[k] = f[k - 1] \o ss[k]
               /\ FlattenSeq(ss) = f[N]
  BY FlattenIs
<1> HIDE DEF N, x
<1>2. PICK g : Sums(g, x) /\ Added(x) = g[N]
  BY <1>3, AddedIs
<1> DEFINE P == {k \in Nat : k <= N => Hits(A, f[k]) = g[k]}
<1>4. 0 \in P
  BY <1>1, <1>2, NothingFound DEF Sums
<1>5. ASSUME NEW k \in P PROVE k + 1 \in P
  <2> SUFFICES ASSUME k + 1 <= N PROVE Hits(A, f[k + 1]) = g[k + 1]
    OBVIOUS
  <2>1. k + 1 \in 1 .. N /\ (k + 1) - 1 = k /\ k \in 0 .. N /\ Hits(A, f[k]) = g[k]
    BY <1>0
  <2>2. f[k + 1] = f[k] \o ss[k + 1] /\ f[k] \in Seq(E) /\ ss[k + 1] \in Seq(E)
    BY <1>0, <1>1, <2>1
  <2>3. g[k + 1] = g[k] + x[k + 1] /\ x[k + 1] = Hits(A, ss[k + 1])
    BY <1>0, <1>2, <1>3, <2>1 DEF Sums
  <2>4. Hits(A, f[k] \o ss[k + 1]) = Hits(A, f[k]) + Hits(A, ss[k + 1])
    BY <2>2, HitsJoined
  <2> QED
    BY <2>1, <2>2, <2>3, <2>4
<1>6. P \subseteq Nat
  OBVIOUS
<1> HIDE DEF P
<1>7. P = Nat
  BY <1>4, <1>5, <1>6, SetInduction
<1>8. Hits(A, f[N]) = g[N]
  BY <1>0, <1>7 DEF P
<1>9. f[N] \in Seq(E)
  BY <1>0, <1>1
<1> QED
  BY <1>1, <1>2, <1>8, <1>9 DEF x

\* tt is ss after the exchange of i and i + 1.
Exchanged(ss, tt, i) ==
    /\ i \in 1 .. Len(ss) - 1 /\ Len(tt) = Len(ss)
    /\ \A k \in 1 .. Len(ss) : tt[k] = ss[Turn(i, Len(ss))[k]]

\* The sum of what is found in each does not see the order of two neighbours.
LEMMA HitsEachTurned ==
  ASSUME NEW E, NEW ss \in Seq(Seq(E)), NEW tt \in Seq(Seq(E)), NEW i, Exchanged(ss, tt, i), NEW A
  PROVE  Added(HitsEach(A, tt)) = Added(HitsEach(A, ss))
<1> DEFINE N == Len(ss)
           x == HitsEach(A, ss)
           y == HitsEach(A, tt)
<1>0. N \in Nat /\ Len(tt) = N /\ i \in 1 .. N - 1 /\ Len(ss) = N
  BY DEF Exchanged
<1>1. \A k \in 1 .. N : tt[k] = ss[Turn(i, N)[k]] /\ Turn(i, N)[k] \in 1 .. N
  <2>1. \A k \in 1 .. N : tt[k] = ss[Turn(i, N)[k]]
    BY DEF Exchanged
  <2> HIDE DEF N
  <2>2. i + 1 \in 1 .. N /\ i \in 1 .. N
    BY <1>0
  <2>3. \A k \in 1 .. N : Turn(i, N)[k] = IF k = i THEN i + 1 ELSE IF k = i + 1 THEN i ELSE k
    BY DEF Turn
  <2>4. \A k \in 1 .. N : Turn(i, N)[k] \in 1 .. N
    BY <2>2, <2>3
  <2> QED
    BY <2>1, <2>4
<1>2. x \in Seq(Nat) /\ Len(x) = N /\ \A k \in 1 .. N : x[k] = Hits(A, ss[k])
  BY HitsEachTyped
<1>3. y \in Seq(Nat) /\ Len(y) = N /\ \A k \in 1 .. N : y[k] = Hits(A, tt[k])
  BY <1>0, HitsEachTyped
<1> HIDE DEF N, x, y
<1>4. \A k \in 1 .. N : y[k] = x[Turn(i, N)[k]]
  BY <1>1, <1>2, <1>3
<1>5. Added(y) = Added(x)
  BY <1>0, <1>2, <1>3, <1>4, AddedTurned
<1> QED
  BY <1>5 DEF x, y

\* The order of two neighbours does not change what is found in all of them.
LEMMA FlattenTurned ==
  ASSUME NEW E, NEW ss \in Seq(Seq(E)), NEW tt \in Seq(Seq(E)), NEW i, Exchanged(ss, tt, i), NEW A
  PROVE  /\ FlattenSeq(ss) \in Seq(E) /\ FlattenSeq(tt) \in Seq(E)
         /\ Hits(A, FlattenSeq(tt)) = Hits(A, FlattenSeq(ss))
<1>1. FlattenSeq(ss) \in Seq(E) /\ Hits(A, FlattenSeq(ss)) = Added(HitsEach(A, ss))
  BY FlattenHits
<1>2. FlattenSeq(tt) \in Seq(E) /\ Hits(A, FlattenSeq(tt)) = Added(HitsEach(A, tt))
  BY FlattenHits
<1> QED
  BY <1>1, <1>2, HitsEachTurned

\* And so it is with a space before each but the first.
LEMMA SpacedHits ==
  ASSUME NEW parts \in Seq(Seq(Character)), NEW A
  PROVE  /\ Spaced(parts) \in Seq(Character)
         /\ Hits(A, Spaced(parts)) = Added(HitsEach(A, parts))
              + Added([k \in 1 .. Len(parts) |-> IF k = 1 THEN 0 ELSE Hits(A, <<Space>>)])
<1> DEFINE N == Len(parts)
           C == Character
           ss == [k \in 1 .. N |-> IF k = 1 THEN parts[k] ELSE <<Space>> \o parts[k]]
           y == [k \in 1 .. N |-> IF k = 1 THEN 0 ELSE Hits(A, <<Space>>)]
           x == HitsEach(A, parts)
           z == HitsEach(A, ss)
<1>0. N \in Nat /\ Len(parts) = N /\ DOMAIN parts = 1 .. N /\ \A k \in 1 .. N : parts[k] \in Seq(C)
  OBVIOUS
<1>1. <<Space>> \in Seq(C)
  <2>1. Space \in C
    BY DEF Character
  <2> HIDE DEF C
  <2> QED
    BY <2>1
<1>2. Spaced(parts) = FlattenSeq(ss)
  BY <1>0 DEF Spaced
<1> HIDE DEF N, C
<1>3. ss \in Seq(Seq(C)) /\ Len(ss) = N
  <2>1. \A k \in 1 .. N : <<Space>> \o parts[k] \in Seq(C)
    BY <1>0, <1>1
  <2>2. ss \in [1 .. N -> Seq(C)]
    BY <1>0, <2>1
  <2> HIDE DEF ss
  <2> QED
    BY <1>0, <2>2, FunctionIsSeq
<1>4. \A k \in 1 .. N : ss[k] = IF k = 1 THEN parts[k] ELSE <<Space>> \o parts[k]
  OBVIOUS
<1> HIDE DEF ss
<1>5. y \in Seq(Nat) /\ Len(y) = N
  <2>1. Hits(A, <<Space>>) \in Nat
    BY <1>1, HitsTyped
  <2>2. y \in [1 .. N -> Nat]
    BY <2>1
  <2> HIDE DEF y
  <2> QED
    BY <1>0, <2>2, FunctionIsSeq
<1>6. x \in Seq(Nat) /\ Len(x) = N /\ \A k \in 1 .. N : x[k] = Hits(A, parts[k])
  BY <1>0, HitsEachTyped DEF C
<1>7. z \in Seq(Nat) /\ Len(z) = N /\ \A k \in 1 .. N : z[k] = Hits(A, ss[k])
  BY <1>3, HitsEachTyped
<1>8. \A k \in 1 .. N : y[k] = IF k = 1 THEN 0 ELSE Hits(A, <<Space>>)
  OBVIOUS
<1>9. ASSUME NEW k \in 1 .. N PROVE z[k] = x[k] + y[k]
  <2>1. z[k] = Hits(A, ss[k]) /\ x[k] = Hits(A, parts[k]) /\ Hits(A, parts[k]) \in Nat
    BY <1>0, <1>6, <1>7, HitsTyped
  <2>2. Hits(A, <<Space>> \o parts[k]) = Hits(A, <<Space>>) + Hits(A, parts[k])
    BY <1>0, <1>1, HitsJoined
  <2>3. Hits(A, <<Space>>) \in Nat
    BY <1>1, HitsTyped
  <2>4. CASE k = 1
    <3>1. ss[k] = parts[k] /\ y[k] = 0
      BY <1>4, <1>8, <2>4
    <3> QED
      BY <2>1, <3>1
  <2>5. CASE k # 1
    <3>1. ss[k] = <<Space>> \o parts[k] /\ y[k] = Hits(A, <<Space>>)
      BY <1>4, <1>8, <2>5
    <3> QED
      BY <2>1, <2>2, <2>3, <3>1
  <2> QED
    BY <2>4, <2>5
<1> HIDE DEF x, y, z
<1>10. Added(z) = Added(x) + Added(y)
  BY <1>0, <1>5, <1>6, <1>7, <1>9, AddedPlus
<1>11. FlattenSeq(ss) \in Seq(C) /\ Hits(A, FlattenSeq(ss)) = Added(z)
  BY <1>3, FlattenHits DEF z
<1> QED
  BY <1>2, <1>10, <1>11 DEF x, y, C, N

\* The order of two neighbours does not change what is found in the whole text.
LEMMA SpacedTurned ==
  ASSUME NEW ss \in Seq(Seq(Character)), NEW tt \in Seq(Seq(Character)), NEW i, Exchanged(ss, tt, i), NEW A
  PROVE  /\ Spaced(ss) \in Seq(Character) /\ Spaced(tt) \in Seq(Character)
         /\ Hits(A, Spaced(tt)) = Hits(A, Spaced(ss))
<1> DEFINE y(n) == Added([k \in 1 .. n |-> IF k = 1 THEN 0 ELSE Hits(A, <<Space>>)])
<1>1. Spaced(ss) \in Seq(Character) /\ Hits(A, Spaced(ss)) = Added(HitsEach(A, ss)) + y(Len(ss))
  BY SpacedHits
<1>2. Spaced(tt) \in Seq(Character) /\ Hits(A, Spaced(tt)) = Added(HitsEach(A, tt)) + y(Len(tt))
  BY SpacedHits
<1>3. Len(tt) = Len(ss) /\ Added(HitsEach(A, tt)) = Added(HitsEach(A, ss))
  BY HitsEachTurned DEF Exchanged
<1> HIDE DEF y
<1> QED
  BY <1>1, <1>2, <1>3

\* Two sequences in which every set is found as often are as long and count the same.
LEMMA SameHits ==
  ASSUME NEW E, NEW s \in Seq(E), NEW t \in Seq(E), \A A : Hits(A, t) = Hits(A, s)
  PROVE  Len(t) = Len(s) /\ Counts(t) = Counts(s)
<1>1. ASSUME NEW q \in Seq(E) PROVE Hits(E, q) = Len(q)
  <2>1. {k \in DOMAIN q : q[k] \in E} = 1 .. Len(q) /\ Len(q) \in Nat
    OBVIOUS
  <2>2. Cardinality(1 .. Len(q)) = Len(q)
    <3>1. \A n \in Nat : Cardinality(1 .. n) = n
      <4> SUFFICES ASSUME NEW n \in Nat PROVE Cardinality(1 .. n) = n
        OBVIOUS
      <4>1. Cardinality(1 .. n) = IF 1 > n THEN 0 ELSE n - 1 + 1
        BY FS_Interval
      <4> QED
        BY <4>1
    <3> QED
      BY <2>1, <3>1
  <2> QED
    BY <2>1, <2>2 DEF Hits
<1>2. ASSUME NEW q \in Seq(E), NEW c PROVE c \in Range(q) <=> Hits({c}, q) # 0
  <2> DEFINE K == {k \in DOMAIN q : q[k] \in {c}}
  <2>1. IsFiniteSet(K)
    BY HitsTyped
  <2>2. Cardinality(K) = 0 <=> K = {}
    BY <2>1, FS_EmptySet
  <2>3. c \in Range(q) <=> K # {}
    BY DEF Range
  <2> HIDE DEF K
  <2> QED
    BY <2>2, <2>3 DEF Hits, K
<1>3. ASSUME NEW q \in Seq(E) PROVE Counts(q) = [c \in Range(q) |-> Hits({c}, q)]
  <2>1. ASSUME NEW c PROVE {k \in DOMAIN q : q[k] = c} = {k \in DOMAIN q : q[k] \in {c}}
    OBVIOUS
  <2> QED
    BY <2>1 DEF Counts, Hits
<1>4. Range(t) = Range(s)
  BY <1>2
<1>5. Counts(t) = Counts(s)
  <2>1. Counts(t) = [c \in Range(s) |-> Hits({c}, t)]
    BY <1>3, <1>4
  <2>2. Counts(s) = [c \in Range(s) |-> Hits({c}, s)]
    BY <1>3
  <2> QED
    BY <2>1, <2>2
<1> QED
  BY <1>1, <1>5

-----------------------------------------------------------------------------
(* Layers: the order of the events                                         *)

\* The parts of a post.
LEMMA PostTyped ==
  ASSUME NEW e \in Posts
  PROVE  e.content \in Seq(Token) /\ e.p \in Nat /\ e.t \in Nat
<1>1. e \in [content : Seq(Token), p : Nat, t : Nat]
  BY LayersConstants
<1> HIDE DEF Token
<1> QED
  BY <1>1

\* Its text is one of characters, its lower-case form one of tokens, and so are its words.
LEMMA TextTyped ==
  ASSUME NEW e \in Posts
  PROVE  /\ Text(e) \in Seq(Character) /\ Normalize(e.content) \in Seq(Token)
         /\ WordsOf(Normalize(e.content)) \in Seq(Token)
<1> DEFINE c == e.content
           N == Len(c)
           parts == [k \in DOMAIN c |-> Chars[Lower[c[k]]]]
           lower == [k \in DOMAIN c |-> Lower[c[k]]]
           words == [k \in DOMAIN lower |-> Words[lower[k]]]
           T == Token
           Q == Character
<1>1. N \in Nat /\ DOMAIN c = 1 .. N /\ \A k \in 1 .. N : c[k] \in T
  <2>1. c \in Seq(T)
    BY PostTyped
  <2> HIDE DEF T, c
  <2> QED
    BY <2>1
<1>2. Lower \in [T -> T] /\ Chars \in [T -> Seq(Q)] /\ Words \in [T -> Seq(T)]
  BY LayersConstants
<1>3. Text(e) = Spaced(parts) /\ Normalize(c) = lower
  BY DEF Text, Normalize
<1> HIDE DEF T, Q, N, c
<1>4. parts \in Seq(Seq(Q))
  <2>1. parts \in [1 .. N -> Seq(Q)]
    BY <1>1, <1>2
  <2> HIDE DEF parts
  <2> QED
    BY <1>1, <2>1, FunctionIsSeq
<1>5. lower \in Seq(T) /\ DOMAIN lower = 1 .. N /\ \A k \in 1 .. N : lower[k] \in T
  <2>1. lower \in [1 .. N -> T]
    BY <1>1, <1>2
  <2> HIDE DEF lower
  <2> QED
    BY <1>1, <2>1, FunctionIsSeq
<1>6. WordsOf(lower) = FlattenSeq(words)
  BY DEF WordsOf
<1> HIDE DEF lower, parts
<1>7. words \in Seq(Seq(T))
  <2>1. words \in [1 .. N -> Seq(T)]
    BY <1>2, <1>5
  <2> HIDE DEF words
  <2> QED
    BY <1>1, <2>1, FunctionIsSeq
<1> HIDE DEF words
<1>8. Spaced(parts) \in Seq(Q)
  BY <1>4, SpacedHits DEF Q
<1>9. FlattenSeq(words) \in Seq(T)
  BY <1>7, FlattenHits
<1> QED
  BY <1>3, <1>5, <1>6, <1>8, <1>9 DEF T, Q, c

\* The same of every event, before and after the exchange.
LEMMA MappedExchanged ==
  ASSUME NEW N \in Nat, NEW i \in 1 .. N - 1, NEW S, NEW ss \in [1 .. N -> S], NEW tt \in [1 .. N -> S],
         \A k \in 1 .. N : tt[k] = ss[Turn(i, N)[k]]
  PROVE  ss \in Seq(S) /\ tt \in Seq(S) /\ Len(ss) = N /\ Len(tt) = N /\ Exchanged(ss, tt, i)
<1>1. ss \in Seq(S) /\ tt \in Seq(S) /\ Len(ss) = N /\ Len(tt) = N
  BY FunctionIsSeq
<1> QED
  BY <1>1 DEF Exchanged

\* The characters of a text, each with whether a grapheme begins there.
Marks(text) == [k \in 1 .. Len(text) |-> <<text[k], IF k \in Graphemes(text) THEN 1 ELSE 0>>]
MarksEach(parts) == [k \in 1 .. Len(parts) |-> Marks(parts[k])]
Marked == Character \X {0, 1}

\* They are a sequence as long as the text.
LEMMA MarksTyped ==
  ASSUME NEW t \in Seq(Character)
  PROVE  /\ Marks(t) \in Seq(Marked) /\ Len(Marks(t)) = Len(t)
         /\ \A k \in 1 .. Len(t) :
                Marks(t)[k] = <<t[k], IF k = 1 \/ <<t[k - 1], t[k]>> \notin Clings THEN 1 ELSE 0>>
<1> DEFINE C == Character
<1>1. Len(t) \in Nat /\ DOMAIN t = 1 .. Len(t) /\ \A k \in 1 .. Len(t) : t[k] \in C
  OBVIOUS
<1> HIDE DEF C
<1>2. \A k \in 1 .. Len(t) : k \in Graphemes(t) <=> (k = 1 \/ <<t[k - 1], t[k]>> \notin Clings)
  BY <1>1 DEF Graphemes
<1>3. Marks(t) \in [1 .. Len(t) -> C \X {0, 1}]
  BY <1>1 DEF Marks
<1>4. \A k \in 1 .. Len(t) : Marks(t)[k] = <<t[k], IF k \in Graphemes(t) THEN 1 ELSE 0>>
  BY DEF Marks
<1>5. Marks(t) \in Seq(C \X {0, 1}) /\ Len(Marks(t)) = Len(t)
  BY <1>1, <1>3, FunctionIsSeq
<1> QED
  BY <1>2, <1>4, <1>5 DEF C, Marked

\* One character before a text.
LEMMA LedBy ==
  ASSUME NEW E, NEW c \in E, NEW p \in Seq(E)
  PROVE  /\ <<c>> \o p \in Seq(E) /\ Len(<<c>> \o p) = Len(p) + 1 /\ (<<c>> \o p)[1] = c /\ <<c>> \o p # <<>>
         /\ (p = <<>> => (<<c>> \o p)[Len(<<c>> \o p)] = c)
         /\ (p # <<>> => (<<c>> \o p)[Len(<<c>> \o p)] = p[Len(p)])
<1> DEFINE b == <<c>> \o p
<1>1. Len(p) \in Nat /\ Len(b) = Len(p) + 1 /\ b \in Seq(E)
  OBVIOUS
<1>2. b[1] = c /\ \A j \in 1 .. Len(p) : b[1 + j] = p[j]
  OBVIOUS
<1>3. (p = <<>> => Len(p) = 0) /\ (p # <<>> => Len(p) # 0)
  OBVIOUS
<1> HIDE DEF b
<1>4. b # <<>>
  BY <1>1
<1>5. p = <<>> => b[Len(b)] = c
  BY <1>1, <1>2, <1>3
<1>6. p # <<>> => b[Len(b)] = p[Len(p)]
  <2>1. p # <<>> => Len(p) \in 1 .. Len(p) /\ Len(b) = 1 + Len(p)
    BY <1>1, <1>3
  <2> QED
    BY <1>2, <2>1
<1> QED
  BY <1>1, <1>2, <1>4, <1>5, <1>6 DEF b

\* A sequence that begins like x and goes on like y is the one behind the other.
LEMMA SeamIs ==
  ASSUME NEW E, NEW x \in Seq(E), NEW y \in Seq(E), NEW z \in Seq(E), Len(z) = Len(x) + Len(y),
         \A k \in 1 .. Len(x) : z[k] = x[k], \A k \in 1 .. Len(y) : z[Len(x) + k] = y[k]
  PROVE  z = x \o y
<1> DEFINE n == Len(x)
           m == Len(y)
           w == x \o y
<1>1. /\ n \in Nat /\ m \in Nat /\ w \in Seq(E) /\ Len(w) = n + m /\ Len(z) = n + m
      /\ \A k \in 1 .. n : w[k] = x[k]
      /\ \A k \in 1 .. m : w[n + k] = y[k]
  OBVIOUS
<1>2. (\A k \in 1 .. n : z[k] = x[k]) /\ (\A k \in 1 .. m : z[n + k] = y[k])
  OBVIOUS
<1> HIDE DEF n, m, w
<1>3. ASSUME NEW k \in 1 .. n + m PROVE z[k] = w[k]
  <2>1. CASE k <= n
    BY <1>1, <1>2, <2>1
  <2>2. CASE ~(k <= n)
    <3>1. n \in Nat /\ m \in Nat /\ k \in Nat
      BY <1>1
    <3>2. k - n \in 1 .. m /\ n + (k - n) = k
      BY <2>2, <3>1
    <3>3. w[n + (k - n)] = y[k - n] /\ z[n + (k - n)] = y[k - n]
      BY <1>1, <1>2, <3>2
    <3> QED
      BY <3>2, <3>3
  <2> QED
    BY <2>1, <2>2
<1>4. z = w
  BY <1>1, <1>3
<1> QED
  BY <1>4 DEF w

\* Nothing clings across the seam of two texts: each keeps its graphemes.
LEMMA MarksJoined ==
  ASSUME NEW a \in Seq(Character), NEW b \in Seq(Character),
         a = <<>> \/ b = <<>> \/ <<a[Len(a)], b[1]>> \notin Clings
  PROVE  Marks(a \o b) = Marks(a) \o Marks(b)
<1> DEFINE C == Character
           n == Len(a)
           m == Len(b)
           c == a \o b
           M == C \X {0, 1}
           q(t, k) == <<t[k], IF k = 1 \/ <<t[k - 1], t[k]>> \notin Clings THEN 1 ELSE 0>>
<1>1. /\ n \in Nat /\ m \in Nat /\ c \in Seq(C) /\ Len(c) = n + m
      /\ \A k \in 1 .. n : c[k] = a[k]
      /\ \A k \in 1 .. m : c[n + k] = b[k]
  OBVIOUS
<1>2. (a = <<>> <=> n = 0) /\ (b = <<>> <=> m = 0)
  OBVIOUS
<1>3. Marks(a) \in Seq(M) /\ Len(Marks(a)) = n /\ \A k \in 1 .. n : Marks(a)[k] = q(a, k)
  BY MarksTyped DEF Marked
<1>4. Marks(b) \in Seq(M) /\ Len(Marks(b)) = m /\ \A k \in 1 .. m : Marks(b)[k] = q(b, k)
  BY MarksTyped DEF Marked
<1>5. Marks(c) \in Seq(M) /\ Len(Marks(c)) = n + m /\ \A k \in 1 .. n + m : Marks(c)[k] = q(c, k)
  BY <1>1, MarksTyped DEF Marked
<1>6. n = 0 \/ m = 0 \/ <<a[n], b[1]>> \notin Clings
  BY <1>2
<1> HIDE DEF C, n, m, c, M
<1>7. ASSUME NEW k \in 1 .. n PROVE q(c, k) = q(a, k)
  <2>1. c[k] = a[k] /\ (k # 1 => c[k - 1] = a[k - 1])
    BY <1>1
  <2> QED
    BY <2>1
<1>8. ASSUME NEW k \in 1 .. m PROVE q(c, n + k) = q(b, k)
  <2>1. c[n + k] = b[k]
    BY <1>1
  <2>2. CASE k = 1
    <3>1. CASE n = 0
      BY <1>1, <2>1, <2>2, <3>1
    <3>2. CASE n # 0
      <4>1. c[(n + k) - 1] = a[n] /\ n + k # 1 /\ m # 0
        BY <1>1, <2>2, <3>2
      <4>2. <<c[(n + k) - 1], c[n + k]>> \notin Clings
        BY <1>6, <2>1, <2>2, <3>2, <4>1
      <4> QED
        BY <2>1, <2>2, <4>2
    <3> QED
      BY <3>1, <3>2
  <2>3. CASE k # 1
    <3>1. k - 1 \in 1 .. m /\ n + (k - 1) = (n + k) - 1 /\ n + k # 1
      BY <1>1, <2>3
    <3>2. c[(n + k) - 1] = b[k - 1]
      BY <1>1, <3>1
    <3> QED
      BY <2>1, <2>3, <3>1, <3>2
  <2> QED
    BY <2>2, <2>3
<1> HIDE DEF q
<1> DEFINE x == Marks(a)
           y == Marks(b)
           z == Marks(c)
<1> HIDE DEF x, y, z
<1>9. x \in Seq(M) /\ y \in Seq(M) /\ z \in Seq(M) /\ Len(x) = n /\ Len(y) = m /\ Len(z) = n + m
  BY <1>3, <1>4, <1>5 DEF x, y, z
<1>10. /\ \A k \in 1 .. n : z[k] = x[k]
       /\ \A k \in 1 .. m : z[n + k] = y[k]
  <2>1. \A k \in 1 .. n : k \in 1 .. n + m
    BY <1>1
  <2>2. \A k \in 1 .. m : n + k \in 1 .. n + m
    BY <1>1
  <2> QED
    BY <1>3, <1>4, <1>5, <1>7, <1>8, <2>1, <2>2 DEF x, y, z
<1>11. z = x \o y
  <2>1. Len(z) = Len(x) + Len(y)
    BY <1>9
  <2>2. \A k \in 1 .. Len(x) : z[k] = x[k]
    BY <1>9, <1>10
  <2>3. \A k \in 1 .. Len(y) : z[Len(x) + k] = y[k]
    BY <1>9, <1>10
  <2>4. x \in Seq(M) /\ y \in Seq(M) /\ z \in Seq(M)
    BY <1>9
  <2> QED
    BY <2>1, <2>2, <2>3, <2>4, SeamIs
<1> QED
  BY <1>11 DEF x, y, z, c

\* The graphemes, and those that are emoji, are marks of a kind.
LEMMA GraphemesMarked ==
  ASSUME NEW t \in Seq(Character)
  PROVE  /\ Cardinality(Graphemes(t)) = Hits(Character \X {1}, Marks(t))
         /\ Cardinality(EmojiGraphemes(t)) = Hits((Character \cap Emoji) \X {1}, Marks(t))
<1> DEFINE C == Character
           N == Len(t)
<1>1. N \in Nat /\ DOMAIN t = 1 .. N /\ \A k \in 1 .. N : t[k] \in C
  OBVIOUS
<1>2. /\ DOMAIN Marks(t) = 1 .. N
      /\ \A k \in 1 .. N : Marks(t)[k] = <<t[k], IF k \in Graphemes(t) THEN 1 ELSE 0>>
  BY DEF Marks
<1>3. Graphemes(t) \subseteq 1 .. N
  BY <1>1 DEF Graphemes
<1>4. EmojiGraphemes(t) = {k \in Graphemes(t) : t[k] \in Emoji}
  BY DEF EmojiGraphemes
<1> HIDE DEF C, N
<1> DEFINE m == Marks(t)
           G == Graphemes(t)
<1> HIDE DEF m, G
<1>a. \A k \in 1 .. N : m[k] = <<t[k], IF k \in G THEN 1 ELSE 0>>
  BY <1>2 DEF m, G
<1>b. \A k \in 1 .. N : m[k] \in C \X {1} <=> k \in G
  <2> SUFFICES ASSUME NEW k \in 1 .. N PROVE m[k] \in C \X {1} <=> k \in G
    OBVIOUS
  <2>1. CASE k \in G
    <3>1. m[k] = <<t[k], 1>> /\ t[k] \in C
      BY <1>1, <1>a, <2>1
    <3> QED
      BY <2>1, <3>1
  <2>2. CASE k \notin G
    <3>1. m[k] = <<t[k], 0>>
      BY <1>a, <2>2
    <3> QED
      BY <2>2, <3>1
  <2> QED
    BY <2>1, <2>2
<1>c. \A k \in 1 .. N : m[k] \in (C \cap Emoji) \X {1} <=> k \in G /\ t[k] \in Emoji
  <2> SUFFICES ASSUME NEW k \in 1 .. N PROVE m[k] \in (C \cap Emoji) \X {1} <=> k \in G /\ t[k] \in Emoji
    OBVIOUS
  <2>1. CASE k \in G
    <3>1. m[k] = <<t[k], 1>> /\ t[k] \in C
      BY <1>1, <1>a, <2>1
    <3> QED
      BY <2>1, <3>1
  <2>2. CASE k \notin G
    <3>1. m[k] = <<t[k], 0>>
      BY <1>a, <2>2
    <3> QED
      BY <2>2, <3>1
  <2> QED
    BY <2>1, <2>2
<1>d. DOMAIN m = 1 .. N /\ G \subseteq 1 .. N
  BY <1>2, <1>3 DEF m, G
<1>5. {k \in DOMAIN m : m[k] \in C \X {1}} = G
  <2> DEFINE X == C \X {1}
  <2> HIDE DEF X
  <2>1. \A k \in 1 .. N : m[k] \in X <=> k \in G
    BY <1>b DEF X
  <2>2. {k \in DOMAIN m : m[k] \in X} = G
    BY <1>d, <2>1
  <2> QED
    BY <2>2 DEF X
<1>6. {k \in DOMAIN m : m[k] \in (C \cap Emoji) \X {1}} = {k \in G : t[k] \in Emoji}
  <2> DEFINE X == (C \cap Emoji) \X {1}
  <2> HIDE DEF X
  <2>1. \A k \in 1 .. N : m[k] \in X <=> k \in G /\ t[k] \in Emoji
    BY <1>c DEF X
  <2>2. {k \in DOMAIN m : m[k] \in X} = {k \in G : t[k] \in Emoji}
    BY <1>d, <2>1
  <2> QED
    BY <2>2 DEF X
<1> QED
  BY <1>4, <1>5, <1>6, Zenon DEF Hits, C, m, G

\* A text whose ends do not join a space.
Loose(t) == t # <<>> => <<Space, t[1]>> \notin Clings /\ <<t[Len(t)], Space>> \notin Clings

\* Of such texts, with a space before each but the first, every one keeps its graphemes.
LEMMA SpacedMarks ==
  ASSUME NEW parts \in Seq(Seq(Character)), \A k \in 1 .. Len(parts) : Loose(parts[k]), NEW A
  PROVE  Hits(A, Marks(Spaced(parts))) = Added(HitsEach(A, MarksEach(parts)))
             + Added([k \in 1 .. Len(parts) |-> IF k = 1 THEN 0 ELSE Hits(A, Marks(<<Space>>))])
<1> DEFINE N == Len(parts)
           C == Character
           S == <<Space>>
           ss == [k \in 1 .. N |-> IF k = 1 THEN parts[k] ELSE S \o parts[k]]
           mm == MarksEach(parts)
           x == HitsEach(A, mm)
           y == [k \in 1 .. N |-> IF k = 1 THEN 0 ELSE Hits(A, Marks(S))]
           z == [k \in 1 .. N |-> Hits(A, Marks(ss[k]))]
           M == Marked
<1>0. N \in Nat /\ Len(parts) = N /\ DOMAIN parts = 1 .. N /\ \A k \in 1 .. N : parts[k] \in Seq(C)
  OBVIOUS
<1>1. S \in Seq(C) /\ Len(S) = 1 /\ S[1] = Space
  <2>1. Space \in C
    BY DEF Character
  <2> HIDE DEF C
  <2> QED
    BY <2>1
<1>2. Spaced(parts) = FlattenSeq(ss)
  BY <1>0 DEF Spaced
<1>3. \A t \in Seq(C) : Marks(t) \in Seq(M) /\ Hits(A, Marks(t)) \in Nat
  <2>1. \A t \in Seq(C) : Marks(t) \in Seq(M)
    BY MarksTyped
  <2> HIDE DEF C, M
  <2> QED
    BY <2>1, HitsTyped
<1>l. \A k \in 1 .. N : Loose(parts[k])
  OBVIOUS
<1>b. \A a, b \in Seq(C) : a = <<>> \/ b = <<>> \/ <<a[Len(a)], b[1]>> \notin Clings
                               => Marks(a \o b) = Marks(a) \o Marks(b)
  BY MarksJoined
<1>s. <<Space, Space>> \notin Clings
  BY LayersConstants
<1> HIDE DEF N, C, S, M
<1>4. ss \in Seq(Seq(C)) /\ Len(ss) = N /\ \A k \in 1 .. N : ss[k] \in Seq(C)
  <2>1. \A k \in 1 .. N : S \o parts[k] \in Seq(C)
    BY <1>0, <1>1
  <2>2. ss \in [1 .. N -> Seq(C)]
    BY <1>0, <2>1
  <2> HIDE DEF ss
  <2> QED
    BY <1>0, <2>2, FunctionIsSeq
<1>5. \A k \in 1 .. N : ss[k] = IF k = 1 THEN parts[k] ELSE S \o parts[k]
  OBVIOUS
<1> HIDE DEF ss
<1>6. mm \in Seq(Seq(M)) /\ Len(mm) = N /\ \A k \in 1 .. N : mm[k] = Marks(parts[k])
  <2>1. mm \in [1 .. N -> Seq(M)] /\ \A k \in 1 .. N : mm[k] = Marks(parts[k])
    BY <1>0, <1>3 DEF MarksEach
  <2> HIDE DEF mm
  <2> QED
    BY <1>0, <2>1, FunctionIsSeq
<1> HIDE DEF mm
<1>7. x \in Seq(Nat) /\ Len(x) = N /\ \A k \in 1 .. N : x[k] = Hits(A, mm[k])
  BY <1>6, HitsEachTyped
<1>8. y \in Seq(Nat) /\ Len(y) = N /\ \A k \in 1 .. N : y[k] = IF k = 1 THEN 0 ELSE Hits(A, Marks(S))
  <2>1. y \in [1 .. N -> Nat] /\ \A k \in 1 .. N : y[k] = IF k = 1 THEN 0 ELSE Hits(A, Marks(S))
    BY <1>1, <1>3
  <2> HIDE DEF y
  <2> QED
    BY <1>0, <2>1, FunctionIsSeq
<1>9. z \in Seq(Nat) /\ Len(z) = N /\ \A k \in 1 .. N : z[k] = Hits(A, Marks(ss[k]))
  <2>1. z \in [1 .. N -> Nat] /\ \A k \in 1 .. N : z[k] = Hits(A, Marks(ss[k]))
    BY <1>3, <1>4
  <2> HIDE DEF z
  <2> QED
    BY <1>0, <2>1, FunctionIsSeq
<1> HIDE DEF x, y, z
<1>10. ASSUME NEW k \in 1 .. N PROVE z[k] = x[k] + y[k]
  <2>1. z[k] = Hits(A, Marks(ss[k])) /\ x[k] = Hits(A, Marks(parts[k])) /\ x[k] \in Nat
    BY <1>0, <1>3, <1>6, <1>7, <1>9
  <2>2. CASE k = 1
    <3>1. ss[k] = parts[k] /\ y[k] = 0
      BY <1>5, <1>8, <2>2
    <3> QED
      BY <2>1, <3>1
  <2>3. CASE k # 1
    <3>1. ss[k] = S \o parts[k] /\ y[k] = Hits(A, Marks(S))
      BY <1>5, <1>8, <2>3
    <3>2. parts[k] \in Seq(C) /\ (parts[k] = <<>> \/ <<S[Len(S)], parts[k][1]>> \notin Clings)
      BY <1>0, <1>1, <1>l DEF Loose
    <3>3. Marks(S \o parts[k]) = Marks(S) \o Marks(parts[k])
      BY <1>1, <1>b, <3>2
    <3>4. Hits(A, Marks(S) \o Marks(parts[k])) = Hits(A, Marks(S)) + Hits(A, Marks(parts[k]))
      BY <1>1, <1>3, <3>2, HitsJoined
    <3>5. Hits(A, Marks(S)) \in Nat
      BY <1>1, <1>3
    <3> QED
      BY <2>1, <3>1, <3>3, <3>4, <3>5
  <2> QED
    BY <2>2, <2>3
<1>11. Added(z) = Added(x) + Added(y)
  BY <1>0, <1>7, <1>8, <1>9, <1>10, AddedPlus
<1>12. PICK f : /\ f \in [0 .. N -> Seq(C)] /\ f[0] = <<>>
                /\ \A k \in 1 .. N : f[k] = f[k - 1] \o ss[k]
                /\ FlattenSeq(ss) = f[N]
  BY <1>4, FlattenIs
<1>13. PICK g : Sums(g, z) /\ Added(z) = g[N]
  BY <1>9, AddedIs
<1> DEFINE ends(t) == t = <<>> \/ <<t[Len(t)], Space>> \notin Clings
           P == {k \in Nat : k <= N => Hits(A, Marks(f[k])) = g[k] /\ ends(f[k])}
<1>14. 0 \in P
  <2>1. Marks(<<>>) = <<>>
    BY DEF Marks
  <2> QED
    BY <1>12, <1>13, <2>1, NothingFound DEF Sums
<1>15. ASSUME NEW k \in P PROVE k + 1 \in P
  <2> SUFFICES ASSUME k + 1 <= N PROVE Hits(A, Marks(f[k + 1])) = g[k + 1] /\ ends(f[k + 1])
    OBVIOUS
  <2>1. /\ k + 1 \in 1 .. N /\ (k + 1) - 1 = k /\ k \in 0 .. N
        /\ Hits(A, Marks(f[k])) = g[k] /\ ends(f[k])
    BY <1>0
  <2> DEFINE a == f[k]
             b == ss[k + 1]
             p == parts[k + 1]
  <2>2. f[k + 1] = a \o b /\ a \in Seq(C) /\ b \in Seq(C) /\ p \in Seq(C) /\ Loose(p) /\ ends(a)
    BY <1>0, <1>4, <1>12, <1>l, <2>1
  <2>3. g[k + 1] = g[k] + Hits(A, Marks(b))
    BY <1>0, <1>9, <1>13, <2>1 DEF Sums
  <2>4. (k = 0 => a = <<>> /\ b = p) /\ (k # 0 => b = S \o p)
    <3>1. k \in Nat /\ (k + 1 = 1 <=> k = 0)
      BY <2>1
    <3>2. ss[k + 1] = IF k + 1 = 1 THEN parts[k + 1] ELSE S \o parts[k + 1]
      BY <1>5, <2>1
    <3>3. k = 0 => f[k] = <<>>
      BY <1>12
    <3> QED
      BY <3>1, <3>2, <3>3
  <2>c. Hits(A, Marks(a)) = g[k]
    BY <2>1
  <2> HIDE DEF a, b, p
  <2>5. k # 0 => b[1] = Space /\ Len(b) = Len(p) + 1 /\ b # <<>>
                 /\ (p = <<>> => b[Len(b)] = Space) /\ (p # <<>> => b[Len(b)] = p[Len(p)])
    <3> SUFFICES ASSUME k # 0
                 PROVE  b[1] = Space /\ Len(b) = Len(p) + 1 /\ b # <<>>
                        /\ (p = <<>> => b[Len(b)] = Space) /\ (p # <<>> => b[Len(b)] = p[Len(p)])
      OBVIOUS
    <3>1. b = <<Space>> \o p /\ Space \in C /\ p \in Seq(C)
      BY <2>2, <2>4 DEF S, C, Character
    <3> QED
      BY <3>1, LedBy
  <2>6. a = <<>> \/ b = <<>> \/ <<a[Len(a)], b[1]>> \notin Clings
    BY <2>2, <2>4, <2>5
  <2>7. Marks(a \o b) = Marks(a) \o Marks(b)
    BY <1>b, <2>2, <2>6
  <2>8. Hits(A, Marks(a) \o Marks(b)) = Hits(A, Marks(a)) + Hits(A, Marks(b))
    BY <1>3, <2>2, HitsJoined
  <2>9. ends(a \o b)
    <3>1. CASE k = 0
      <4>1. a \o b = p
        BY <2>2, <2>4, <3>1
      <4> QED
        BY <2>2, <4>1 DEF Loose
    <3>2. CASE k # 0
      <4>1. (a \o b)[Len(a \o b)] = b[Len(b)]
        BY <2>2, <2>5, <3>2
      <4>2. <<b[Len(b)], Space>> \notin Clings
        BY <1>s, <2>2, <2>5, <3>2 DEF Loose
      <4> QED
        BY <4>1, <4>2
    <3> QED
      BY <3>1, <3>2
  <2> QED
    BY <2>2, <2>3, <2>7, <2>8, <2>9, <2>c
<1>16. P \subseteq Nat
  OBVIOUS
<1> HIDE DEF P
<1>17. P = Nat
  BY <1>14, <1>15, <1>16, SetInduction
<1>18. Hits(A, Marks(f[N])) = g[N]
  <2>1. N \in P
    BY <1>0, <1>17
  <2> QED
    BY <1>0, <2>1 DEF P
<1> QED
  BY <1>2, <1>11, <1>12, <1>13, <1>18 DEF x, y, mm, S, N

\* The order of two neighbours does not change how many marks of a kind there are.
LEMMA MarksTurned ==
  ASSUME NEW ss \in Seq(Seq(Character)), NEW tt \in Seq(Seq(Character)), NEW i, Exchanged(ss, tt, i),
         \A k \in 1 .. Len(ss) : Loose(ss[k]) /\ Loose(tt[k]), NEW A
  PROVE  Hits(A, Marks(Spaced(tt))) = Hits(A, Marks(Spaced(ss)))
<1> DEFINE N == Len(ss)
           C == Character
           M == Marked
           y(n) == Added([k \in 1 .. n |-> IF k = 1 THEN 0 ELSE Hits(A, Marks(<<Space>>))])
           s == MarksEach(ss)
           t == MarksEach(tt)
<1>1. Len(ss) = N /\ Len(tt) = N /\ N \in Nat /\ i \in 1 .. N - 1 /\ \A k \in 1 .. N : tt[k] = ss[Turn(i, N)[k]]
  BY DEF Exchanged
<1>2. Hits(A, Marks(Spaced(ss))) = Added(HitsEach(A, s)) + y(N)
  BY SpacedMarks
<1>3. Hits(A, Marks(Spaced(tt))) = Added(HitsEach(A, t)) + y(N)
  <2>1. \A k \in 1 .. Len(tt) : Loose(tt[k])
    BY <1>1
  <2>2. Hits(A, Marks(Spaced(tt))) = Added(HitsEach(A, t)) + y(Len(tt))
    BY <2>1, SpacedMarks
  <2> QED
    BY <1>1, <2>2
<1>4. \A k \in 1 .. N : ss[k] \in Seq(C) /\ tt[k] \in Seq(C)
  BY <1>1
<1>5. \A q \in Seq(C) : Marks(q) \in Seq(M)
  BY MarksTyped
<1>6. \A k \in 1 .. N : Turn(i, N)[k] \in 1 .. N
  BY <1>1 DEF Turn
<1> HIDE DEF N, C, M, y
<1>7. s \in [1 .. N -> Seq(M)] /\ t \in [1 .. N -> Seq(M)] /\ \A k \in 1 .. N : t[k] = s[Turn(i, N)[k]]
  BY <1>1, <1>4, <1>5, <1>6 DEF MarksEach
<1> HIDE DEF s, t
<1>8. s \in Seq(Seq(M)) /\ t \in Seq(Seq(M)) /\ Exchanged(s, t, i)
  <2> DEFINE Z == Seq(M)
  <2>1. s \in [1 .. N -> Z] /\ t \in [1 .. N -> Z] /\ \A k \in 1 .. N : t[k] = s[Turn(i, N)[k]]
    BY <1>7
  <2>2. N \in Nat /\ i \in 1 .. N - 1
    BY <1>1
  <2> HIDE DEF Z
  <2>3. s \in Seq(Z) /\ t \in Seq(Z) /\ Exchanged(s, t, i)
    BY <2>1, <2>2, MappedExchanged
  <2> QED
    BY <2>3 DEF Z
<1>9. Added(HitsEach(A, t)) = Added(HitsEach(A, s))
  BY <1>8, HitsEachTurned
<1> QED
  BY <1>2, <1>3, <1>9

\* other is evs after the exchange of i and i + 1.
LEMMA SwappedPosts ==
  ASSUME NEW evs \in Seq(Posts), NEW i \in 1 .. Len(evs) - 1
  PROVE  /\ Len(evs) \in Nat /\ DOMAIN evs = 1 .. Len(evs) /\ DOMAIN Swapped(evs, i) = 1 .. Len(evs)
         /\ Len(Swapped(evs, i)) = Len(evs) /\ Turns(Turn(i, Len(evs)), Len(evs))
         /\ \A k \in 1 .. Len(evs) :
                /\ Turn(i, Len(evs))[k] \in 1 .. Len(evs)
                /\ Swapped(evs, i)[k] = evs[Turn(i, Len(evs))[k]]
                /\ evs[k] \in Posts /\ Swapped(evs, i)[k] \in Posts
<1>1. /\ Turns(Turn(i, Len(evs)), Len(evs)) /\ Len(evs) \in Nat
      /\ Swapped(evs, i) \in Seq(Posts) /\ Len(Swapped(evs, i)) = Len(evs)
      /\ DOMAIN Swapped(evs, i) = 1 .. Len(evs) /\ DOMAIN evs = 1 .. Len(evs)
      /\ \A k \in 1 .. Len(evs) : Swapped(evs, i)[k] = evs[Turn(i, Len(evs))[k]]
  BY SwappedIs
<1>2. \A k \in 1 .. Len(evs) : Turn(i, Len(evs))[k] \in 1 .. Len(evs)
  BY <1>1 DEF Turns
<1>3. \A k \in 1 .. Len(evs) : evs[k] \in Posts
  OBVIOUS
<1> QED
  BY <1>1, <1>2, <1>3

\* The text of all events has as many of everything in either order.
LEMMA ConcatTurned ==
  ASSUME NEW evs \in Seq(Posts), NEW i \in 1 .. Len(evs) - 1, NEW A
  PROVE  /\ Concat(evs) \in Seq(Character) /\ Concat(Swapped(evs, i)) \in Seq(Character)
         /\ Hits(A, Concat(Swapped(evs, i))) = Hits(A, Concat(evs))
<1> DEFINE N == Len(evs)
           other == Swapped(evs, i)
           Q == Seq(Character)
           ss == [k \in DOMAIN evs |-> Text(evs[k])]
           tt == [k \in DOMAIN other |-> Text(other[k])]
<1>1. /\ N \in Nat /\ DOMAIN evs = 1 .. N /\ DOMAIN other = 1 .. N /\ i \in 1 .. N - 1
      /\ \A k \in 1 .. N : /\ Turn(i, N)[k] \in 1 .. N /\ other[k] = evs[Turn(i, N)[k]]
                           /\ evs[k] \in Posts /\ other[k] \in Posts
  BY SwappedPosts
<1>2. Concat(evs) = Spaced(ss) /\ Concat(other) = Spaced(tt)
  BY DEF Concat
<1> HIDE DEF N, other, Q
<1>3. \A e \in Posts : Text(e) \in Q
  BY TextTyped DEF Q
<1>4. ss \in [1 .. N -> Q] /\ tt \in [1 .. N -> Q] /\ \A k \in 1 .. N : tt[k] = ss[Turn(i, N)[k]]
  BY <1>1, <1>3
<1> HIDE DEF ss, tt
<1>5. ss \in Seq(Q) /\ tt \in Seq(Q) /\ Exchanged(ss, tt, i)
  BY <1>1, <1>4, MappedExchanged
<1> QED
  BY <1>2, <1>5, SpacedTurned DEF Q, other

\* So have the tokens of all events.
LEMMA TokensTurned ==
  ASSUME NEW evs \in Seq(Posts), NEW i \in 1 .. Len(evs) - 1, NEW A
  PROVE  /\ Tokens(evs) \in Seq(Token) /\ Tokens(Swapped(evs, i)) \in Seq(Token)
         /\ Hits(A, Tokens(Swapped(evs, i))) = Hits(A, Tokens(evs))
<1> DEFINE N == Len(evs)
           other == Swapped(evs, i)
           Q == Seq(Token)
           ss == [k \in DOMAIN evs |-> Normalize(evs[k].content)]
           tt == [k \in DOMAIN other |-> Normalize(other[k].content)]
<1>1. /\ N \in Nat /\ DOMAIN evs = 1 .. N /\ DOMAIN other = 1 .. N /\ i \in 1 .. N - 1
      /\ \A k \in 1 .. N : /\ Turn(i, N)[k] \in 1 .. N /\ other[k] = evs[Turn(i, N)[k]]
                           /\ evs[k] \in Posts /\ other[k] \in Posts
  BY SwappedPosts
<1>2. Tokens(evs) = FlattenSeq(ss) /\ Tokens(other) = FlattenSeq(tt)
  BY DEF Tokens
<1> HIDE DEF N, other, Q
<1>3. \A e \in Posts : Normalize(e.content) \in Q
  BY TextTyped DEF Q
<1>4. ss \in [1 .. N -> Q] /\ tt \in [1 .. N -> Q] /\ \A k \in 1 .. N : tt[k] = ss[Turn(i, N)[k]]
  BY <1>1, <1>3
<1> HIDE DEF ss, tt
<1>5. ss \in Seq(Q) /\ tt \in Seq(Q) /\ Exchanged(ss, tt, i)
  BY <1>1, <1>4, MappedExchanged
<1> QED
  BY <1>2, <1>5, FlattenTurned DEF Q, other

\* And the words.
LEMMA WordsTurned ==
  ASSUME NEW evs \in Seq(Posts), NEW i \in 1 .. Len(evs) - 1, NEW A
  PROVE  /\ WordsIn(evs) \in Seq(Token) /\ WordsIn(Swapped(evs, i)) \in Seq(Token)
         /\ Hits(A, WordsIn(Swapped(evs, i))) = Hits(A, WordsIn(evs))
<1> DEFINE N == Len(evs)
           other == Swapped(evs, i)
           Q == Seq(Token)
           ss == [k \in DOMAIN evs |-> WordsOf(Normalize(evs[k].content))]
           tt == [k \in DOMAIN other |-> WordsOf(Normalize(other[k].content))]
<1>1. /\ N \in Nat /\ DOMAIN evs = 1 .. N /\ DOMAIN other = 1 .. N /\ i \in 1 .. N - 1
      /\ \A k \in 1 .. N : /\ Turn(i, N)[k] \in 1 .. N /\ other[k] = evs[Turn(i, N)[k]]
                           /\ evs[k] \in Posts /\ other[k] \in Posts
  BY SwappedPosts
<1>2. WordsIn(evs) = FlattenSeq(ss) /\ WordsIn(other) = FlattenSeq(tt)
  BY DEF WordsIn
<1> HIDE DEF N, other, Q
<1>3. \A e \in Posts : WordsOf(Normalize(e.content)) \in Q
  BY TextTyped DEF Q
<1>4. ss \in [1 .. N -> Q] /\ tt \in [1 .. N -> Q] /\ \A k \in 1 .. N : tt[k] = ss[Turn(i, N)[k]]
  BY <1>1, <1>3
<1> HIDE DEF ss, tt
<1>5. ss \in Seq(Q) /\ tt \in Seq(Q) /\ Exchanged(ss, tt, i)
  BY <1>1, <1>4, MappedExchanged
<1> QED
  BY <1>2, <1>5, FlattenTurned DEF Q, other

\* The sums of the p-tags and of the t-tags.
LEMMA TagsTurned ==
  ASSUME NEW evs \in Seq(Posts), NEW i \in 1 .. Len(evs) - 1
  PROVE  PTags(Swapped(evs, i)) = PTags(evs) /\ TTags(Swapped(evs, i)) = TTags(evs)
<1> DEFINE N == Len(evs)
           other == Swapped(evs, i)
           xp == [k \in DOMAIN evs |-> evs[k].p]
           yp == [k \in DOMAIN other |-> other[k].p]
           xt == [k \in DOMAIN evs |-> evs[k].t]
           yt == [k \in DOMAIN other |-> other[k].t]
<1>1. /\ N \in Nat /\ DOMAIN evs = 1 .. N /\ DOMAIN other = 1 .. N /\ i \in 1 .. N - 1
      /\ \A k \in 1 .. N : /\ Turn(i, N)[k] \in 1 .. N /\ other[k] = evs[Turn(i, N)[k]]
                           /\ evs[k] \in Posts /\ other[k] \in Posts
  BY SwappedPosts
<1>2. PTags(evs) = Added(xp) /\ PTags(other) = Added(yp) /\ TTags(evs) = Added(xt) /\ TTags(other) = Added(yt)
  BY DEF PTags, TTags
<1> HIDE DEF N, other
<1>3. \A e \in Posts : e.p \in Nat /\ e.t \in Nat
  BY PostTyped
<1>4. xp \in [1 .. N -> Nat] /\ yp \in [1 .. N -> Nat] /\ \A k \in 1 .. N : yp[k] = xp[Turn(i, N)[k]]
  BY <1>1, <1>3
<1>5. xt \in [1 .. N -> Nat] /\ yt \in [1 .. N -> Nat] /\ \A k \in 1 .. N : yt[k] = xt[Turn(i, N)[k]]
  BY <1>1, <1>3
<1> HIDE DEF xp, yp, xt, yt
<1>6. xp \in Seq(Nat) /\ yp \in Seq(Nat) /\ Len(xp) = N /\ Len(yp) = N
  BY <1>1, <1>4, FunctionIsSeq
<1>7. xt \in Seq(Nat) /\ yt \in Seq(Nat) /\ Len(xt) = N /\ Len(yt) = N
  BY <1>1, <1>5, FunctionIsSeq
<1>8. Added(yp) = Added(xp)
  <2>1. \A k \in 1 .. N : yp[k] = xp[Turn(i, N)[k]]
    BY <1>4
  <2> QED
    BY <1>1, <1>6, <2>1, AddedTurned
<1>9. Added(yt) = Added(xt)
  <2>1. \A k \in 1 .. N : yt[k] = xt[Turn(i, N)[k]]
    BY <1>5
  <2> QED
    BY <1>1, <1>7, <2>1, AddedTurned
<1> QED
  BY <1>2, <1>8, <1>9 DEF other

\* The linking events and the count of every host.
LEMMA HostsTurned ==
  ASSUME NEW evs \in Seq(Posts), NEW i \in 1 .. Len(evs) - 1
  PROVE  /\ Linking(Swapped(evs, i)) = Linking(evs)
         /\ HostCounts(Swapped(evs, i)) = HostCounts(evs)
<1> DEFINE N == Len(evs)
           other == Swapped(evs, i)
           s == Turn(i, N)
<1>1. /\ N \in Nat /\ DOMAIN evs = 1 .. N /\ DOMAIN other = 1 .. N /\ Turns(s, N)
      /\ \A k \in 1 .. N : s[k] \in 1 .. N /\ other[k] = evs[s[k]]
  BY SwappedPosts
<1> HIDE DEF N, other, s
<1>2. \A k \in 1 .. N : s[s[k]] = k
  BY <1>1 DEF Turns
<1>3. Linking(other) = Linking(evs)
  <2> DEFINE A == {k \in 1 .. N : HostsOf(evs[k]) # {}}
             B == {k \in 1 .. N : HostsOf(other[k]) # {}}
  <2>1. Linking(evs) = Cardinality(A) /\ Linking(other) = Cardinality(B)
    BY <1>1 DEF Linking
  <2>2. \A k \in 1 .. N : k \in B <=> s[k] \in A
    BY <1>1
  <2>3. A \in SUBSET (1 .. N) /\ B \in SUBSET (1 .. N)
    OBVIOUS
  <2> HIDE DEF A, B
  <2> QED
    BY <1>1, <2>1, <2>2, <2>3, Recount
<1>4. ASSUME NEW h
      PROVE  Cardinality({k \in 1 .. N : h \in HostsOf(other[k])})
                 = Cardinality({k \in 1 .. N : h \in HostsOf(evs[k])})
  <2> DEFINE A == {k \in 1 .. N : h \in HostsOf(evs[k])}
             B == {k \in 1 .. N : h \in HostsOf(other[k])}
  <2>2. \A k \in 1 .. N : k \in B <=> s[k] \in A
    BY <1>1
  <2>3. A \in SUBSET (1 .. N) /\ B \in SUBSET (1 .. N)
    OBVIOUS
  <2> HIDE DEF A, B
  <2>4. Cardinality(B) = Cardinality(A)
    BY <1>1, <2>2, <2>3, Recount
  <2> QED
    BY <2>4 DEF A, B
<1> DEFINE D == UNION {HostsOf(evs[k]) : k \in 1 .. N}
<1>5. UNION {HostsOf(other[k]) : k \in 1 .. N} = D
  <2>1. \A h : (\E k \in 1 .. N : h \in HostsOf(other[k])) <=> (\E k \in 1 .. N : h \in HostsOf(evs[k]))
    BY <1>1, <1>2
  <2> QED
    BY <2>1
<1>6. HostCounts(evs) = [h \in D |-> Cardinality({k \in 1 .. N : h \in HostsOf(evs[k])})]
  BY <1>1 DEF HostCounts
<1>7. HostCounts(other) = [h \in D |-> Cardinality({k \in 1 .. N : h \in HostsOf(other[k])})]
  BY <1>1, <1>5 DEF HostCounts
<1> HIDE DEF D
<1>8. HostCounts(other) = HostCounts(evs)
  BY <1>4, <1>6, <1>7
<1> QED
  BY <1>3, <1>8 DEF other

\* The value and the evidence of L1.
LEMMA L1Turned ==
  ASSUME NEW evs \in Seq(Posts), NEW i \in 1 .. Len(evs) - 1
  PROVE  L1(Swapped(evs, i)) = L1(evs)
<1> DEFINE N == Len(evs)
           other == Swapped(evs, i)
           s == Turn(i, N)
           h == SimHashes(evs)
           g == SimHashes(other)
           S == {FingerprintOf[evs[k].content].simhash : k \in 1 .. N}
<1>1. /\ N \in Nat /\ DOMAIN evs = 1 .. N /\ DOMAIN other = 1 .. N /\ Turns(s, N) /\ Len(other) = N
      /\ \A k \in 1 .. N : s[k] \in 1 .. N /\ other[k] = evs[s[k]]
  BY SwappedPosts
<1> HIDE DEF N, other, s
<1>2. /\ h = [k \in 1 .. N |-> FingerprintOf[evs[k].content].simhash]
      /\ g = [k \in 1 .. N |-> FingerprintOf[other[k].content].simhash]
  BY <1>1 DEF SimHashes
<1> HIDE DEF h, g
<1>3. h \in [1 .. N -> S] /\ g \in [1 .. N -> S] /\ \A k \in 1 .. N : g[k] = h[s[k]]
  BY <1>1, <1>2
<1> HIDE DEF S
<1>4. Turned(h, g, s, N)
  <2>1. Len(h) = N /\ DOMAIN h = 1 .. N /\ Len(g) = N /\ DOMAIN g = 1 .. N
    BY <1>1, <1>3, FunctionIsSeq
  <2> QED
    BY <1>1, <1>3, <2>1 DEF Turned
<1>5. CountClusters(g) = CountClusters(h) /\ Clustered(g) = Clustered(h)
  BY <1>1, <1>4, ClustersTurned
<1>6. Len(other) = Len(evs)
  BY <1>1 DEF N
<1> QED
  BY <1>5, <1>6 DEF L1, other, h, g

\* No content hash belongs to two fingerprints.
NoCollisions ==
    \A p, q \in Posts :
        FingerprintOf[p.content].content_hash = FingerprintOf[q.content].content_hash
            => FingerprintOf[p.content] = FingerprintOf[q.content]

\* Then the rows are those of all events, whichever of equal ones comes first.
LEMMA FingerprintsAre ==
  ASSUME NoCollisions, NEW evs, NEW N \in Nat, DOMAIN evs = 1 .. N, \A k \in 1 .. N : evs[k] \in Posts
  PROVE  Fingerprints(evs) = IF Len(evs) < MinEvents THEN {} ELSE {FingerprintOf[evs[k].content] : k \in 1 .. N}
<1> DEFINE rows == [k \in DOMAIN evs |-> FingerprintOf[evs[k].content]]
           firsts == {k \in DOMAIN evs : \A m \in 1 .. k - 1 : rows[m].content_hash # rows[k].content_hash}
<1>1. Fingerprints(evs) = IF Len(evs) < MinEvents THEN {} ELSE {rows[k] : k \in firsts}
  BY DEF Fingerprints
<1>2. \A k \in 1 .. N : rows[k] = FingerprintOf[evs[k].content]
  OBVIOUS
<1>3. \A k, m \in 1 .. N : rows[k].content_hash = rows[m].content_hash => rows[k] = rows[m]
  BY <1>2 DEF NoCollisions
<1> HIDE DEF rows
<1>4. ASSUME NEW k \in 1 .. N PROVE \E m \in firsts : rows[m] = rows[k]
  <2> DEFINE T == {m \in 1 .. N : rows[m].content_hash = rows[k].content_hash}
  <2>1. T \subseteq Nat /\ T # {}
    OBVIOUS
  <2> HIDE DEF T
  <2>2. PICK m \in T : \A y \in T : m <= y
    BY <2>1, LeastMember
  <2>3. m \in 1 .. N /\ rows[m].content_hash = rows[k].content_hash
    BY DEF T
  <2>4. ASSUME NEW j \in 1 .. m - 1 PROVE rows[j].content_hash # rows[m].content_hash
    <3>1. j \in 1 .. N /\ ~(m <= j)
      BY <2>3
    <3>2. j \notin T
      BY <2>2, <3>1
    <3> QED
      BY <2>3, <3>1, <3>2 DEF T
  <2>5. m \in firsts
    BY <2>3, <2>4
  <2> QED
    BY <1>3, <2>3, <2>5
<1>5. {rows[k] : k \in firsts} = {rows[k] : k \in 1 .. N}
  <2>1. \A k \in firsts : k \in 1 .. N
    OBVIOUS
  <2> HIDE DEF firsts
  <2> QED
    BY <1>4, <2>1
<1>6. {rows[k] : k \in 1 .. N} = {FingerprintOf[evs[k].content] : k \in 1 .. N}
  BY <1>2
<1> HIDE DEF firsts
<1> QED
  BY <1>1, <1>5, <1>6

\* The fingerprints.
LEMMA FingerprintsTurned ==
  ASSUME NoCollisions, NEW evs \in Seq(Posts), NEW i \in 1 .. Len(evs) - 1
  PROVE  Fingerprints(Swapped(evs, i)) = Fingerprints(evs)
<1> DEFINE N == Len(evs)
           other == Swapped(evs, i)
           s == Turn(i, N)
<1>1. /\ N \in Nat /\ DOMAIN evs = 1 .. N /\ DOMAIN other = 1 .. N /\ Turns(s, N) /\ Len(other) = N
      /\ \A k \in 1 .. N : /\ s[k] \in 1 .. N /\ other[k] = evs[s[k]]
                           /\ evs[k] \in Posts /\ other[k] \in Posts
  BY SwappedPosts
<1>2. Len(evs) = N
  OBVIOUS
<1> HIDE DEF N, other, s
<1>3. \A k \in 1 .. N : s[s[k]] = k
  BY <1>1 DEF Turns
<1>4. Fingerprints(evs) = IF N < MinEvents THEN {} ELSE {FingerprintOf[evs[k].content] : k \in 1 .. N}
  <2>1. N \in Nat /\ DOMAIN evs = 1 .. N /\ \A k \in 1 .. N : evs[k] \in Posts
    BY <1>1
  <2>2. Fingerprints(evs)
            = IF Len(evs) < MinEvents THEN {} ELSE {FingerprintOf[evs[k].content] : k \in 1 .. N}
    BY <2>1, FingerprintsAre, Zenon
  <2> QED
    BY <1>2, <2>2
<1>5. Fingerprints(other) = IF N < MinEvents THEN {} ELSE {FingerprintOf[other[k].content] : k \in 1 .. N}
  <2>1. N \in Nat /\ DOMAIN other = 1 .. N /\ \A k \in 1 .. N : other[k] \in Posts
    BY <1>1
  <2>2. Fingerprints(other)
            = IF Len(other) < MinEvents THEN {} ELSE {FingerprintOf[other[k].content] : k \in 1 .. N}
    BY <2>1, FingerprintsAre, Zenon
  <2> QED
    BY <1>1, <2>2
<1>6. {FingerprintOf[other[k].content] : k \in 1 .. N} = {FingerprintOf[evs[k].content] : k \in 1 .. N}
  BY <1>1, <1>3
<1> QED
  BY <1>4, <1>5, <1>6 DEF other

\* The graphemes of the text of all events, where no content joins a space.
LEMMA GraphemesTurned ==
  ASSUME NEW evs \in Seq(Posts), NEW i \in 1 .. Len(evs) - 1, ContentsApart(evs)
  PROVE  /\ Cardinality(Graphemes(Concat(Swapped(evs, i)))) = Cardinality(Graphemes(Concat(evs)))
         /\ Cardinality(EmojiGraphemes(Concat(Swapped(evs, i)))) = Cardinality(EmojiGraphemes(Concat(evs)))
<1> DEFINE N == Len(evs)
           other == Swapped(evs, i)
           Q == Seq(Character)
           ss == [k \in DOMAIN evs |-> Text(evs[k])]
           tt == [k \in DOMAIN other |-> Text(other[k])]
<1>1. /\ N \in Nat /\ DOMAIN evs = 1 .. N /\ DOMAIN other = 1 .. N /\ i \in 1 .. N - 1
      /\ \A k \in 1 .. N : /\ Turn(i, N)[k] \in 1 .. N /\ other[k] = evs[Turn(i, N)[k]]
                           /\ evs[k] \in Posts /\ other[k] \in Posts
  BY SwappedPosts
<1>2. Concat(evs) = Spaced(ss) /\ Concat(other) = Spaced(tt)
  BY DEF Concat
<1>3. Concat(evs) \in Q /\ Concat(other) \in Q
  BY ConcatTurned
<1>4. \A k \in DOMAIN evs : Loose(Text(evs[k]))
  BY DEF ContentsApart, Loose
<1> HIDE DEF N, other, Q
<1>5. \A e \in Posts : Text(e) \in Q
  BY TextTyped DEF Q
<1>6. ss \in [1 .. N -> Q] /\ tt \in [1 .. N -> Q] /\ \A k \in 1 .. N : tt[k] = ss[Turn(i, N)[k]]
  BY <1>1, <1>5
<1>7. \A k \in 1 .. N : Loose(ss[k])
  BY <1>1, <1>4
<1> HIDE DEF ss, tt
<1>8. ss \in Seq(Q) /\ tt \in Seq(Q) /\ Len(ss) = N /\ Exchanged(ss, tt, i)
  <2>1. ss \in Seq(Q) /\ tt \in Seq(Q) /\ Exchanged(ss, tt, i)
    BY <1>1, <1>6, MappedExchanged
  <2>2. Len(ss) = N
    BY <1>1, <1>6, FunctionIsSeq
  <2> QED
    BY <2>1, <2>2
<1>9. \A k \in 1 .. N : Loose(tt[k])
  BY <1>1, <1>6, <1>7
<1>10. \A A : Hits(A, Marks(Spaced(tt))) = Hits(A, Marks(Spaced(ss)))
  BY <1>7, <1>8, <1>9, MarksTurned DEF Q
<1>11. \A t \in Q : /\ Cardinality(Graphemes(t)) = Hits(Character \X {1}, Marks(t))
                    /\ Cardinality(EmojiGraphemes(t)) = Hits((Character \cap Emoji) \X {1}, Marks(t))
  BY GraphemesMarked DEF Q
<1> QED
  BY <1>2, <1>3, <1>10, <1>11 DEF other

\* What L3 stores: its entropy and hashtag density always, all of it where no content
\* joins a space.
LEMMA L3Turned ==
  ASSUME NEW evs \in Seq(Posts), NEW i \in 1 .. Len(evs) - 1, NEW r
  PROVE  /\ L3(Swapped(evs, i), r).bits = L3(evs, r).bits
         /\ L3(Swapped(evs, i), r).tags = L3(evs, r).tags
         /\ ContentsApart(evs) => L3(Swapped(evs, i), r) = L3(evs, r)
<1> DEFINE other == Swapped(evs, i)
           a == Concat(evs)
           b == Concat(other)
<1>1. a \in Seq(Character) /\ b \in Seq(Character) /\ \A A : Hits(A, b) = Hits(A, a)
  BY ConcatTurned
<1>2. evs # <<>> /\ other # <<>>
  <2>1. Len(evs) # 0 /\ Len(other) = Len(evs)
    BY SwappedPosts
  <2> QED
    BY <2>1
<1>3. Tokens(evs) \in Seq(Token) /\ Tokens(other) \in Seq(Token)
      /\ \A A : Hits(A, Tokens(other)) = Hits(A, Tokens(evs))
  BY TokensTurned
<1>4. WordsIn(evs) \in Seq(Token) /\ WordsIn(other) \in Seq(Token)
      /\ \A A : Hits(A, WordsIn(other)) = Hits(A, WordsIn(evs))
  BY WordsTurned
<1> HIDE DEF other, a, b
<1>5. Len(b) = Len(a) /\ Counts(b) = Counts(a)
  BY <1>1, SameHits
<1>6. ContentsApart(evs) => /\ Cardinality(Graphemes(b)) = Cardinality(Graphemes(a))
                      /\ Cardinality(EmojiGraphemes(b)) = Cardinality(EmojiGraphemes(a))
  BY GraphemesTurned DEF a, b, other
<1>7. Hashtags(Tokens(other)) = Hashtags(Tokens(evs))
  <2> DEFINE T == Token
             H == {t \in T : Hashtag[t]}
  <2>1. ASSUME NEW q \in Seq(T) PROVE Hashtags(q) = Hits(H, q)
    <3>1. \A k \in DOMAIN q : q[k] \in T
      OBVIOUS
    <3>2. {k \in DOMAIN q : Hashtag[q[k]]} = {k \in DOMAIN q : q[k] \in H}
      BY <3>1, Zenon
    <3> QED
      BY <3>2, Zenon DEF Hashtags, Hits
  <2> HIDE DEF T, H
  <2>2. Tokens(evs) \in Seq(T) /\ Tokens(other) \in Seq(T)
    BY <1>3 DEF T
  <2> QED
    BY <1>3, <2>1, <2>2
<1>8. Len(WordsIn(other)) = Len(WordsIn(evs))
  BY <1>4, SameHits
<1>9. Shannon(b) = Shannon(a)
  BY <1>5 DEF Shannon
<1> DEFINE h(text) == Most(Shannon(text) + r, 0)
           tags(es) == Part(Hashtags(Tokens(es)), Most(Len(WordsIn(es)), 1))
           emoji(text) == Part(Cardinality(EmojiGraphemes(text)), Most(Cardinality(Graphemes(text)), 1))
           value(es, text) ==
               Clamp(Most(EntropyComponent(h(text), Len(text)),
                          Most(Knee(emoji(text), EmojiKnee), Knee(tags(es), HashtagKnee))))
<1>10. L3(evs, r) = [value |-> value(evs, a), bits |-> h(a), emoji |-> emoji(a), tags |-> tags(evs)]
  BY <1>2, Zenon DEF L3, a
<1>11. L3(other, r) = [value |-> value(other, b), bits |-> h(b), emoji |-> emoji(b), tags |-> tags(other)]
  BY <1>2, Zenon DEF L3, b
<1>12. h(b) = h(a) /\ tags(other) = tags(evs)
  BY <1>7, <1>8, <1>9
<1>13. ContentsApart(evs) => emoji(b) = emoji(a) /\ value(other, b) = value(evs, a)
  BY <1>5, <1>6, <1>12
<1> HIDE DEF h, tags, emoji, value
<1>14. ContentsApart(evs) => L3(other, r) = L3(evs, r)
  BY <1>10, <1>11, <1>12, <1>13, Zenon
<1>15. L3(other, r).bits = L3(evs, r).bits /\ L3(other, r).tags = L3(evs, r).tags
  BY <1>10, <1>11, <1>12
<1> QED
  BY <1>14, <1>15 DEF other

\* The value and the evidence of L4.
LEMMA L4Turned ==
  ASSUME NEW evs \in Seq(Posts), NEW i \in 1 .. Len(evs) - 1
  PROVE  L4(Swapped(evs, i)) = L4(evs)
<1> DEFINE other == Swapped(evs, i)
           top(counts) ==
               CHOOSE h \in DOMAIN counts : \A g \in DOMAIN counts \ {h} :
                   counts[h] > counts[g] \/ (counts[h] = counts[g] /\ HostRank[h] < HostRank[g])
<1>1. Len(other) = Len(evs)
  BY SwappedPosts
<1>2. Linking(other) = Linking(evs) /\ HostCounts(other) = HostCounts(evs)
  BY HostsTurned
<1>3. PTags(other) = PTags(evs) /\ TTags(other) = TTags(evs)
  BY TagsTurned
<1>4. TopHost(evs) = top(HostCounts(evs)) /\ TopHost(other) = top(HostCounts(other))
  BY Zenon DEF TopHost
<1> HIDE DEF other, top
<1>5. TopHost(other) = TopHost(evs)
  BY <1>2, <1>4
<1> QED
  BY <1>1, <1>2, <1>3, <1>5, Zenon DEF L4, other

\* Where no content hash belongs to two fingerprints, what L1 and L4 store and the
\* fingerprints are the same in whatever order the events are read, and so is what
\* entropy and hashtag density L3 may store for them; its emoji density and its value
\* too, unless a content begins or ends in the middle of a grapheme.  Every order is
\* reached by exchanges of neighbours.
THEOREM OrderDoesNotMatter == NoCollisions => (LayersSpec => []OrderFree)
<1>1. NoCollisions /\ events \in Seq(Posts) => OrderFree
  <2> SUFFICES ASSUME NoCollisions, events \in Seq(Posts), NEW i \in 1 .. Len(events) - 1
               PROVE  /\ L1(Swapped(events, i)) = L1(events) /\ L4(Swapped(events, i)) = L4(events)
                      /\ Fingerprints(Swapped(events, i)) = Fingerprints(events)
                      /\ {<<o.bits, o.tags>> : o \in Entropies(Swapped(events, i))}
                             = {<<o.bits, o.tags>> : o \in Entropies(events)}
                      /\ ContentsApart(events) => Entropies(Swapped(events, i)) = Entropies(events)
    BY Zenon DEF OrderFree
  <2> DEFINE other == Swapped(events, i)
  <2>1. L1(other) = L1(events)
    BY L1Turned
  <2>2. L4(other) = L4(events)
    BY L4Turned
  <2>3. Fingerprints(other) = Fingerprints(events)
    BY FingerprintsTurned
  <2>4. \A r : /\ L3(other, r).bits = L3(events, r).bits /\ L3(other, r).tags = L3(events, r).tags
               /\ ContentsApart(events) => L3(other, r) = L3(events, r)
    BY L3Turned
  <2>5. ASSUME NEW es
        PROVE  {<<o.bits, o.tags>> : o \in Entropies(es)} = {<<L3(es, r).bits, L3(es, r).tags>> : r \in Rounding}
    BY DEF Entropies
  <2> HIDE DEF other
  <2>6. {<<o.bits, o.tags>> : o \in Entropies(other)} = {<<o.bits, o.tags>> : o \in Entropies(events)}
    <3>1. \A r \in Rounding : <<L3(other, r).bits, L3(other, r).tags>> = <<L3(events, r).bits, L3(events, r).tags>>
      BY <2>4, Zenon
    <3>2. {<<L3(other, r).bits, L3(other, r).tags>> : r \in Rounding}
              = {<<L3(events, r).bits, L3(events, r).tags>> : r \in Rounding}
      BY <3>1, Zenon
    <3> QED
      BY <2>5, <3>2
  <2>7. ContentsApart(events) => Entropies(other) = Entropies(events)
    <3> SUFFICES ASSUME ContentsApart(events) PROVE Entropies(other) = Entropies(events)
      OBVIOUS
    <3>1. \A r \in Rounding : L3(other, r) = L3(events, r)
      BY <2>4, Zenon
    <3> QED
      BY <3>1, Zenon DEF Entropies
  <2> QED
    BY <2>1, <2>2, <2>3, <2>6, <2>7 DEF other
<1>2. ASSUME NoCollisions PROVE LayersSpec => []OrderFree
  <2>1. events \in Seq(Posts) => OrderFree
    BY <1>1, <1>2
  <2> QED
    BY <2>1, EventsTyped, PTL
<1> QED
  BY <1>2

=============================================================================
