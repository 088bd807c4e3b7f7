---------------------------- MODULE CrawlerProofs ----------------------------
(***************************************************************************)
(* Proofs about Crawler and GraphStore, for every set of pubkeys, lists,   *)
(* relays and thresholds and every number of faults.                       *)
(***************************************************************************)
EXTENDS Crawler, FiniteSetTheorems, WellFoundedInduction, TLAPS

-----------------------------------------------------------------------------
(* The schedule of misses                                                  *)

\* Induction over a set of numbers.
LEMMA SetInduction ==
  ASSUME NEW P, P \subseteq Nat, 0 \in P, \A n \in P : n + 1 \in P
  PROVE  P = Nat
<1> SUFFICES ASSUME Nat \ P # {} PROVE FALSE
  OBVIOUS
<1>1. PICK x \in Nat \ P : \A y \in Nat \ P : ~(<<y, x>> \in OpToRel(<, Nat))
  <2>1. IsWellFoundedOn(OpToRel(<, Nat), Nat)
    BY NatLessThanWellFounded
  <2> DEFINE R == OpToRel(<, Nat)
             T == Nat \ P
  <2>2. IsWellFoundedOn(R, Nat) /\ T \subseteq Nat /\ T # {}
    BY <2>1
  <2> HIDE DEF R, T
  <2>3. \E x \in T : \A y \in T : ~(<<y, x>> \in R)
    BY <2>2, WFMin
  <2> QED
    BY <2>3 DEF R, T
<1>2. \A y \in Nat \ P : ~(y < x)
  <2> SUFFICES ASSUME NEW y \in Nat \ P, y < x PROVE FALSE
    OBVIOUS
  <2>1. <<y, x>> \in Nat \X Nat /\ <<y, x>>[1] < <<y, x>>[2]
    BY <1>1
  <2>2. <<y, x>> \in OpToRel(<, Nat)
    BY <2>1 DEF OpToRel
  <2> QED
    BY <1>1, <2>2
<1>3. x \in Nat /\ x \notin P /\ x # 0
  BY <1>1
<1>4. x - 1 \in Nat /\ x - 1 < x /\ (x - 1) + 1 = x
  BY <1>3
<1>5. x - 1 \in P
  BY <1>2, <1>4
<1> QED
  BY <1>3, <1>4, <1>5

\* The smaller and the larger of two numbers.
LEMMA MinMaxOfTwo ==
  ASSUME NEW a \in Int, NEW b \in Int
  PROVE  /\ Min({a, b}) = (IF a <= b THEN a ELSE b)
         /\ Max({a, b}) = (IF a >= b THEN a ELSE b)
<1>1. \E x \in {a, b} : \A y \in {a, b} : x <= y
  OBVIOUS
<1>2. \E x \in {a, b} : \A y \in {a, b} : x >= y
  OBVIOUS
<1>3. Min({a, b}) \in {a, b} /\ Min({a, b}) <= a /\ Min({a, b}) <= b
  BY <1>1 DEF Min
<1>4. Max({a, b}) \in {a, b} /\ Max({a, b}) >= a /\ Max({a, b}) >= b
  BY <1>2 DEF Max
<1> QED
  BY <1>3, <1>4

\* The interval after one more miss, from the one before.
Wider(x) == IF x > (MaxBackoff - 1) \div Ratio THEN MaxBackoff ELSE x * Ratio

\* The guard of the multiplication keeps the product below the cap: the interval
\* does not overflow, however many misses there are.
LEMMA WiderBounded ==
  ASSUME NEW x \in Nat \ {0}
  PROVE  Wider(x) \in Nat \ {0} /\ (x <= MaxBackoff => x <= Wider(x) /\ Wider(x) <= MaxBackoff)
<1> DEFINE q == (MaxBackoff - 1) \div Ratio
<1>1. MaxBackoff \in Nat \ {0} /\ Ratio \in Nat \ {0}
  BY StoreAssumption
<1>2. q \in Nat /\ q * Ratio <= MaxBackoff - 1
  BY <1>1
<1> HIDE DEF q
<1>3. CASE x > q
  <2>1. Wider(x) = MaxBackoff
    BY <1>3 DEF Wider, q
  <2> QED
    BY <1>1, <2>1
<1>4. CASE x <= q
  <2>1. Wider(x) = x * Ratio
    BY <1>2, <1>4 DEF Wider, q
  <2>2. x <= x * Ratio
    BY <1>1
  <2>3. x * Ratio \in Nat
    BY <1>1
  <2>4. x * Ratio <= q * Ratio
    <3>1. q - x \in Nat /\ (q - x) * Ratio \in Nat
      BY <1>1, <1>2, <1>4
    <3>2. (q - x) * Ratio = q * Ratio - x * Ratio
      BY <1>1, <1>2
    <3>3. q * Ratio \in Nat
      BY <1>1, <1>2
    <3> QED
      BY <2>3, <3>1, <3>2, <3>3
  <2>5. q * Ratio \in Nat
    BY <1>1, <1>2
  <2> QED
    BY <1>1, <1>2, <2>1, <2>2, <2>3, <2>4, <2>5
<1> QED
  BY <1>2, <1>3, <1>4

\* The guard is exact (backoff.go:58, "result*ratio >= cap is equivalent to
\* result > (cap-1)/ratio for positive integers"): one step multiplies and clamps.
LEMMA WiderClamps ==
  ASSUME NEW x \in Nat \ {0}
  PROVE  Wider(x) = IF x * Ratio <= MaxBackoff THEN x * Ratio ELSE MaxBackoff
<1> DEFINE q == (MaxBackoff - 1) \div Ratio
<1>1. MaxBackoff \in Nat \ {0} /\ Ratio \in Nat \ {0} /\ x * Ratio \in Nat
  BY StoreAssumption
<1>2. q \in Nat /\ q * Ratio <= MaxBackoff - 1 /\ MaxBackoff - 1 < q * Ratio + Ratio
  BY <1>1
<1>3. q * Ratio \in Nat
  BY <1>1, <1>2
<1>4. Wider(x) = IF x > q THEN MaxBackoff ELSE x * Ratio
  BY DEF Wider
<1> HIDE DEF q
<1>5. CASE x > q
  <2>1. x - q - 1 \in Nat /\ (x - q - 1) * Ratio \in Nat
    BY <1>1, <1>2, <1>5
  <2>2. (x - q - 1) * Ratio = x * Ratio - q * Ratio - Ratio
    BY <1>1, <1>2
  <2>3. x * Ratio >= MaxBackoff
    BY <1>1, <1>2, <1>3, <2>1, <2>2
  <2> QED
    BY <1>1, <1>4, <1>5, <2>3
<1>6. CASE ~(x > q)
  <2>1. q - x \in Nat /\ (q - x) * Ratio \in Nat
    BY <1>1, <1>2, <1>6
  <2>2. (q - x) * Ratio = q * Ratio - x * Ratio
    BY <1>1, <1>2
  <2>3. x * Ratio <= MaxBackoff
    BY <1>1, <1>2, <1>3, <2>1, <2>2
  <2> QED
    BY <1>4, <1>6, <2>3
<1> QED
  BY <1>5, <1>6

\* g holds the first n + 1 intervals.
Widens(g, n) ==
    /\ g \in [0 .. n -> Nat \ {0}]
    /\ g[0] = Base
    /\ \A m \in 1 .. n : g[m] = Wider(g[m - 1])

\* There are n + 1 first intervals, for every n.
LEMMA IntervalsExist == \A n \in Nat : \E g : Widens(g, n)
<1> DEFINE P == {n \in Nat : \E g : Widens(g, n)}
<1>1. 0 \in P
  <2>1. Widens([m \in 0 .. 0 |-> Base], 0)
    BY StoreAssumption DEF Widens
  <2> QED
    BY <2>1
<1>2. ASSUME NEW n \in P PROVE n + 1 \in P
  <2>1. n \in Nat /\ \E g : Widens(g, n)
    OBVIOUS
  <2>2. PICK g : Widens(g, n)
    BY <2>1
  <2> DEFINE h == [m \in 0 .. n + 1 |-> IF m <= n THEN g[m] ELSE Wider(g[n])]
  <2>3. /\ g \in [0 .. n -> Nat \ {0}] /\ g[0] = Base
        /\ \A m \in 1 .. n : g[m] = Wider(g[m - 1])
    BY <2>2 DEF Widens
  <2>4. g[n] \in Nat \ {0}
    BY <2>1, <2>3
  <2>5. Wider(g[n]) \in Nat \ {0}
    BY <2>4, WiderBounded
  <2>6. h \in [0 .. n + 1 -> Nat \ {0}]
    BY <2>1, <2>3, <2>5
  <2>7. (\A m \in 0 .. n : h[m] = g[m]) /\ h[n + 1] = Wider(g[n])
    BY <2>1
  <2> HIDE DEF h
  <2>8. h[0] = Base
    BY <2>1, <2>3, <2>7
  <2>9. \A m \in 1 .. n + 1 : h[m] = Wider(h[m - 1])
    <3> SUFFICES ASSUME NEW m \in 1 .. n + 1 PROVE h[m] = Wider(h[m - 1])
      OBVIOUS
    <3>1. m - 1 \in 0 .. n
      BY <2>1
    <3>2. CASE m = n + 1
      <4>1. m - 1 = n
        BY <2>1, <3>2
      <4> QED
        BY <2>7, <3>1, <3>2, <4>1
    <3>3. CASE m \in 1 .. n
      <4>1. m \in 0 .. n
        BY <2>1, <3>3
      <4> QED
        BY <2>3, <2>7, <3>1, <3>3, <4>1
    <3> QED
      BY <2>1, <3>2, <3>3
  <2>10. Widens(h, n + 1)
    BY <2>6, <2>8, <2>9 DEF Widens
  <2> QED
    BY <2>1, <2>10
<1> HIDE DEF P
<1>3. P \subseteq Nat
  BY DEF P
<1>4. P = Nat
  BY <1>1, <1>2, <1>3, SetInduction
<1> QED
  BY <1>4 DEF P

\* The intervals up to n are the first of those up to n + 1.
LEMMA IntervalsRestrict ==
  ASSUME NEW n \in Nat, NEW g, Widens(g, n + 1)
  PROVE  Widens([m \in 0 .. n |-> g[m]], n)
<1> DEFINE h == [m \in 0 .. n |-> g[m]]
<1>1. /\ g \in [0 .. n + 1 -> Nat \ {0}] /\ g[0] = Base
      /\ \A m \in 1 .. n + 1 : g[m] = Wider(g[m - 1])
  BY DEF Widens
<1>2. \A m \in 0 .. n : m \in 0 .. n + 1
  OBVIOUS
<1>3. h \in [0 .. n -> Nat \ {0}] /\ \A m \in 0 .. n : h[m] = g[m]
  BY <1>1, <1>2
<1> HIDE DEF h
<1>4. \A m \in 1 .. n : m \in 0 .. n /\ m - 1 \in 0 .. n /\ m \in 1 .. n + 1
  OBVIOUS
<1>5. \A m \in 1 .. n : h[m] = Wider(h[m - 1])
  BY <1>1, <1>3, <1>4
<1>6. 0 \in 0 .. n
  OBVIOUS
<1>7. h[0] = Base
  BY <1>1, <1>3, <1>6
<1>8. Widens(h, n)
  BY <1>3, <1>5, <1>7 DEF Widens
<1> QED
  BY <1>8 DEF h

\* They are determined.
LEMMA IntervalsUnique ==
    \A n \in Nat : \A g, h : Widens(g, n) /\ Widens(h, n) => g[n] = h[n]
<1> DEFINE P == {n \in Nat : \A g, h : Widens(g, n) /\ Widens(h, n) => g[n] = h[n]}
<1>1. 0 \in P
  BY DEF Widens
<1>2. ASSUME NEW n \in P PROVE n + 1 \in P
  <2>1. n \in Nat
    OBVIOUS
  <2> SUFFICES ASSUME NEW g, NEW h, Widens(g, n + 1), Widens(h, n + 1)
               PROVE  g[n + 1] = h[n + 1]
    BY <2>1
  <2> DEFINE g1 == [m \in 0 .. n |-> g[m]]
             h1 == [m \in 0 .. n |-> h[m]]
  <2>2. Widens(g1, n) /\ Widens(h1, n)
    BY <2>1, IntervalsRestrict
  <2>3. n \in 0 .. n /\ n + 1 \in 1 .. n + 1 /\ (n + 1) - 1 = n
    BY <2>1
  <2>4. g1[n] = g[n] /\ h1[n] = h[n]
    BY <2>3
  <2> HIDE DEF g1, h1
  <2>5. g1[n] = h1[n]
    BY <2>2
  <2>6. g[n + 1] = Wider(g[n]) /\ h[n + 1] = Wider(h[n])
    BY <2>3 DEF Widens
  <2> QED
    BY <2>4, <2>5, <2>6
<1> HIDE DEF P
<1>3. P \subseteq Nat
  BY DEF P
<1>4. P = Nat
  BY <1>1, <1>2, <1>3, SetInduction
<1> QED
  BY <1>4 DEF P

\* The recursive definition has a solution, so Grown is one.
LEMMA GrownUnfolds ==
    Grown = [n \in Nat |-> IF n = 0 THEN Base
                           ELSE IF Grown[n - 1] > (MaxBackoff - 1) \div Ratio THEN MaxBackoff
                           ELSE Grown[n - 1] * Ratio]
<1> DEFINE I(n) == CHOOSE g : Widens(g, n)
           F == [n \in Nat |-> I(n)[n]]
<1>1. \A n \in Nat : Widens(I(n), n)
  BY IntervalsExist
<1>2. \A n \in Nat : F[n] = I(n)[n]
  OBVIOUS
<1>3. F[0] = Base
  BY <1>1, <1>2 DEF Widens
<1>4. ASSUME NEW n \in Nat \ {0} PROVE F[n] = Wider(F[n - 1])
  <2> DEFINE k == n - 1
             h == [m \in 0 .. k |-> I(n)[m]]
  <2>1. k \in Nat /\ n = k + 1 /\ k \in 0 .. k /\ n \in 1 .. n
    OBVIOUS
  <2>2. Widens(I(n), n)
    BY <1>1
  <2>3. Widens(h, k)
    <3> HIDE DEF k, I
    <3>1. Widens(I(n), k + 1)
      BY <2>1, <2>2
    <3> QED
      BY <2>1, <3>1, IntervalsRestrict
  <2>4. Widens(I(k), k)
    BY <1>1, <2>1
  <2>5. h[k] = I(n)[k]
    BY <2>1
  <2>6. I(n)[n] = Wider(I(n)[k])
    BY <2>1, <2>2 DEF Widens
  <2> HIDE DEF h, k, I, F
  <2>7. h[k] = I(k)[k]
    BY <2>1, <2>3, <2>4, IntervalsUnique
  <2>8. F[n] = I(n)[n] /\ F[k] = I(k)[k]
    BY <1>2, <2>1
  <2>9. F[n] = Wider(F[k])
    BY <2>5, <2>6, <2>7, <2>8
  <2> QED
    BY <2>9 DEF k
<1>5. F = [n \in Nat |-> IF n = 0 THEN Base ELSE Wider(F[n - 1])]
  <2>1. \A n \in Nat : F[n] = IF n = 0 THEN Base ELSE Wider(F[n - 1])
    <3> HIDE DEF F
    <3> QED
      BY <1>3, <1>4
  <2>2. F = [n \in Nat |-> F[n]]
    OBVIOUS
  <2> HIDE DEF F
  <2> QED
    BY <2>1, <2>2
<1>6. F = [n \in Nat |-> IF n = 0 THEN Base
                         ELSE IF F[n - 1] > (MaxBackoff - 1) \div Ratio THEN MaxBackoff
                         ELSE F[n - 1] * Ratio]
  <2> HIDE DEF F
  <2> QED
    BY <1>5 DEF Wider
<1> HIDE DEF F
<1>7. \E f : f = [n \in Nat |-> IF n = 0 THEN Base
                         ELSE IF f[n - 1] > (MaxBackoff - 1) \div Ratio THEN MaxBackoff
                         ELSE f[n - 1] * Ratio]
  BY <1>6
<1> QED
  BY <1>7, Zenon DEF Grown

\* The intervals before the cap is applied to the first one.
LEMMA GrownPositive ==
    \A n \in Nat : /\ Grown[n] \in Nat \ {0}
                   /\ Grown[n + 1] = Wider(Grown[n])
<1>1. Grown[0] = Base
  BY GrownUnfolds
<1>2. ASSUME NEW n \in Nat PROVE Grown[n + 1] = Wider(Grown[n])
  <2>1. n + 1 \in Nat /\ n + 1 # 0 /\ (n + 1) - 1 = n
    OBVIOUS
  <2> QED
    BY <2>1, GrownUnfolds DEF Wider
<1> DEFINE P == {n \in Nat : Grown[n] \in Nat \ {0}}
<1>3. 0 \in P
  BY <1>1, StoreAssumption
<1>4. ASSUME NEW n \in P PROVE n + 1 \in P
  BY <1>2, WiderBounded
<1> HIDE DEF P
<1>5. P \subseteq Nat
  BY DEF P
<1>6. P = Nat
  BY <1>3, <1>4, <1>5, SetInduction
<1> QED
  BY <1>2, <1>6 DEF P

\* The interval grows geometrically and is clamped at the cap: one more miss
\* multiplies it by the ratio, or makes it the cap. So after any number of misses
\* the next visit is at least one hour and at most MaxBackoff away, and never
\* nearer than after fewer misses (backoff.go, BackoffInterval).
THEOREM BackoffGeometric ==
  ASSUME NEW n \in Nat
  PROVE  /\ BackoffInterval(n) \in 1 .. MaxBackoff
         /\ BackoffInterval(n) <= BackoffInterval(n + 1)
         /\ BackoffInterval(0) = Min({Base, MaxBackoff})
         /\ BackoffInterval(n + 1) = Min({BackoffInterval(n) * Ratio, MaxBackoff})
<1>0. MaxBackoff \in Nat \ {0} /\ Base \in Nat \ {0} /\ Ratio \in Nat \ {0}
  BY StoreAssumption
<1> DEFINE X(m) == IF m <= 0 \/ Ratio <= 1 THEN Base ELSE Grown[m]
<1>1. \A m \in Nat : X(m) \in Nat \ {0}
  BY <1>0, GrownPositive
<1>2. \A m \in Nat : BackoffInterval(m) = IF X(m) <= MaxBackoff THEN X(m) ELSE MaxBackoff
  <2> SUFFICES ASSUME NEW m \in Nat
               PROVE  BackoffInterval(m) = IF X(m) <= MaxBackoff THEN X(m) ELSE MaxBackoff
    OBVIOUS
  <2>1. BackoffInterval(m) = Min({X(m), MaxBackoff})
    BY DEF BackoffInterval
  <2>2. X(m) \in Int /\ MaxBackoff \in Int
    BY <1>0, <1>1
  <2> HIDE DEF X
  <2> QED
    BY <2>1, <2>2, MinMaxOfTwo
<1>3. X(n + 1) = IF Ratio <= 1 THEN X(n) ELSE Wider(X(n))
  <2>1. CASE Ratio <= 1
    BY <2>1
  <2>2. CASE ~(Ratio <= 1)
    <3>1. Grown[0] = Base /\ Grown[n + 1] = Wider(Grown[n])
      BY GrownUnfolds, GrownPositive
    <3>2. X(n) = Grown[n] /\ X(n + 1) = Grown[n + 1]
      BY <2>2, <3>1
    <3> HIDE DEF X
    <3> QED
      BY <2>2, <3>1, <3>2
  <2> QED
    BY <2>1, <2>2
<1>4. X(0) = Base
  OBVIOUS
<1> HIDE DEF X
<1> DEFINE b == BackoffInterval(n)
<1>5. b \in 1 .. MaxBackoff /\ b * Ratio \in Nat /\ b <= b * Ratio
  <2>1. b \in Nat \ {0} /\ b <= MaxBackoff
    BY <1>0, <1>1, <1>2
  <2> HIDE DEF b
  <2> QED
    BY <1>0, <2>1
<1>6. BackoffInterval(n + 1) = IF b * Ratio <= MaxBackoff THEN b * Ratio ELSE MaxBackoff
  <2>1. n + 1 \in Nat
    OBVIOUS
  <2>2. CASE Ratio <= 1
    <3>1. Ratio = 1 /\ b * Ratio = b
      BY <1>0, <1>5, <2>2
    <3>2. BackoffInterval(n + 1) = b
      BY <1>2, <1>3, <2>1, <2>2
    <3> QED
      BY <1>0, <1>5, <3>1, <3>2
  <2>3. CASE ~(Ratio <= 1) /\ X(n) <= MaxBackoff
    <3>1. b = X(n) /\ X(n) \in Nat \ {0}
      BY <1>1, <1>2, <2>3
    <3>2. X(n + 1) = IF X(n) * Ratio <= MaxBackoff THEN X(n) * Ratio ELSE MaxBackoff
      BY <1>3, <2>3, <3>1, WiderClamps
    <3>3. BackoffInterval(n + 1) = IF X(n + 1) <= MaxBackoff THEN X(n + 1) ELSE MaxBackoff
      BY <1>2, <2>1
    <3> HIDE DEF b
    <3> QED
      BY <1>0, <1>5, <3>1, <3>2, <3>3
  <2>4. CASE ~(Ratio <= 1) /\ ~(X(n) <= MaxBackoff)
    <3>1. b = MaxBackoff /\ X(n) \in Nat \ {0}
      BY <1>1, <1>2, <2>4
    <3>2. X(n + 1) = IF X(n) * Ratio <= MaxBackoff THEN X(n) * Ratio ELSE MaxBackoff
      BY <1>3, <2>4, <3>1, WiderClamps
    <3>3. X(n) * Ratio > MaxBackoff
      <4>1. X(n) * Ratio >= X(n) /\ X(n) * Ratio \in Nat
        BY <1>0, <3>1
      <4> QED
        BY <1>0, <2>4, <3>1, <4>1
    <3>4. BackoffInterval(n + 1) = IF X(n + 1) <= MaxBackoff THEN X(n + 1) ELSE MaxBackoff
      BY <1>2, <2>1
    <3>5. X(n) * Ratio \in Nat
      BY <1>0, <3>1
    <3>6. X(n + 1) = MaxBackoff
      BY <1>0, <3>2, <3>3, <3>5
    <3>7. BackoffInterval(n + 1) = MaxBackoff
      BY <1>0, <3>4, <3>6
    <3> HIDE DEF b
    <3> QED
      BY <1>0, <1>5, <3>1, <3>7
  <2> QED
    BY <2>2, <2>3, <2>4
<1>7. BackoffInterval(0) = Min({Base, MaxBackoff})
  BY <1>4 DEF BackoffInterval
<1> HIDE DEF b
<1>8. Min({b * Ratio, MaxBackoff}) = IF b * Ratio <= MaxBackoff THEN b * Ratio ELSE MaxBackoff
  BY <1>0, <1>5, MinMaxOfTwo
<1>9. b <= BackoffInterval(n + 1)
  BY <1>0, <1>5, <1>6
<1> QED
  BY <1>5, <1>6, <1>7, <1>8, <1>9 DEF b

-----------------------------------------------------------------------------
(* The transactions of the graph store                                     *)

\* A step of the crawler is at most one transaction.
Transaction ==
    \/ UNCHANGED graph
    \/ BackfillNextAttempt
    \/ \E e \in Events : Update(e)
    \/ \E k \in Keys \ Valid : RecoverOrPurge(k)
    \/ \E S, H \in SUBSET Keys : StampAttempted(S, H)

\* Every step is a transaction.
LEMMA EveryStepIsATransaction == BatchTypes /\ [Next]_vars => Transaction
<1> SUFFICES ASSUME BatchTypes, [Next]_vars PROVE Transaction
  OBVIOUS
<1>1. CASE Start \/ StartFails
  BY <1>1 DEF Start, StartFails, Transaction
<1>2. CASE HandleEvent
  <2>1. PICK e \in buffered :
           IF e \in processed THEN UNCHANGED <<graph, hits, skip, processed, faults>>
           ELSE ProcessFetchedEvent(e)
    BY <1>2 DEF HandleEvent
  <2>2. UNCHANGED graph \/ Update(e)
    BY <2>1 DEF ProcessFetchedEvent, AlreadyKnown, Updated, UpdateFails
  <2>3. e \in Events
    BY DEF BatchTypes
  <2> QED
    BY <2>2, <2>3 DEF Transaction
<1>3. CASE FixKey
  <2>1. PICK k \in marking \ Valid : RecoverOrPurge(k) \/ UNCHANGED graph
    BY <1>3 DEF FixKey
  <2>2. k \in Keys \ Valid
    BY DEF BatchTypes
  <2> QED
    BY <2>1, <2>2 DEF Transaction
<1>4. CASE Stamp \/ StampRetried
  <2>1. StampAttempted(marking, hits) \/ UNCHANGED graph
    BY <1>4 DEF Stamp, StampRetried
  <2>2. marking \in SUBSET Keys /\ hits \in SUBSET Keys
    BY DEF BatchTypes
  <2> QED
    BY <2>1, <2>2 DEF Transaction
<1>5. CASE UNCHANGED graph
  BY <1>5 DEF Transaction
<1>6. ASSUME NEW r \in Relays, Goroutine(r) \/ Rested(r) PROVE UNCHANGED graph
  BY <1>6 DEF Goroutine, Deliver, QuerySucceeds, QueryFails, QueryInterrupted, Returned,
              LeftoverReturns, Rested
<1> QED
  BY <1>1, <1>2, <1>3, <1>4, <1>5, <1>6
     DEF Next, MainStep, vars, Shutdown, BeginBatch, WorkComplete, UpdateFatal, HandleError,
         ChannelsClosed, EndFetch, ContextDone, DrainEnds, StampFatal, Timeout, Tick

\* What RecoverOrPurge does to a malformed node.
LEMMA RepairCases ==
  ASSUME NEW k \in Keys \ Valid, RecoverOrPurge(k)
  PROVE  \/ UNCHANGED graph
         \/ k \in stored /\ Lower[k] \in Valid \ stored /\ RenameNode(k, Lower[k])
         \/ k \in stored /\ DeleteNodes(k)
  BY DEF RecoverOrPurge

\* The clock stays within its bound.
LEMMA ClockStep == now \in 0..MaxTime /\ [Next]_vars => now' \in 0..MaxTime
<1> SUFFICES ASSUME now \in 0..MaxTime, [Next]_vars PROVE now' \in 0..MaxTime
  OBVIOUS
<1>1. CASE Tick
  BY <1>1, StoreAssumption DEF Tick
<1>2. CASE now' = now
  BY <1>2
<1>3. ASSUME NEW r \in Relays, Goroutine(r) \/ Rested(r) PROVE now' = now
  BY <1>3 DEF Goroutine, Deliver, QuerySucceeds, QueryFails, QueryInterrupted, Returned,
              LeftoverReturns, Rested
<1> QED
  BY <1>1, <1>2, <1>3
     DEF Next, MainStep, vars, Start, StartFails, Shutdown, Exit, BeginBatch, WorkComplete,
         HandleEvent, UpdateFatal, HandleError, ChannelsClosed, EndFetch, ContextDone, DrainEnds,
         FixKey, Stamp, StampRetried, StampFatal, NextLoop, Timeout

Dates == {Never} \cup 0..(MaxTime + Max({Cadence, MaxBackoff}))

\* A date one cadence or one back-off ahead is in range.
LEMMA DatesInRange ==
  ASSUME now \in 0..MaxTime
  PROVE  /\ Cadence \in Dates \ {Never} /\ now + Cadence \in Dates \ {Never}
         /\ \A n \in Nat : now + BackoffInterval(n) \in Dates \ {Never}
<1>1. Cadence \in Nat \ {0} /\ MaxBackoff \in Nat \ {0} /\ MaxTime \in Nat
  BY StoreAssumption
<1>2. Max({Cadence, MaxBackoff}) = IF Cadence >= MaxBackoff THEN Cadence ELSE MaxBackoff
  BY <1>1, MinMaxOfTwo
<1>3. \A n \in Nat : BackoffInterval(n) \in 1 .. MaxBackoff
  BY BackoffGeometric
<1> QED
  BY <1>1, <1>2, <1>3 DEF Dates, Never

\* The count of a followee gained or lost; the cases exclude each other.
LEMMA AdjustedCountCases ==
  ASSUME NEW k, NEW old, NEW list, NEW known, followerCount[k] \in Nat
  PROVE  /\ AdjustedCount(k, old, list, known) \in Nat
         /\ k \in list \ known => AdjustedCount(k, old, list, known) = 1
         /\ k \in (list \cap known) \ old =>
               AdjustedCount(k, old, list, known) = followerCount[k] + 1
         /\ k \in old \ list /\ followerCount[k] > 0 =>
               AdjustedCount(k, old, list, known) = followerCount[k] - 1
         /\ (k \in list /\ k \in known /\ k \in old) \/ (k \notin list /\ k \notin old) =>
               AdjustedCount(k, old, list, known) = followerCount[k]
<1>1. CASE k \in list \ known
  BY <1>1 DEF AdjustedCount
<1>2. CASE k \in (list \cap known) \ old
  BY <1>2 DEF AdjustedCount
<1>3. CASE k \in old \ list
  <2> DEFINE c == followerCount[k] - 1
  <2>1. AdjustedCount(k, old, list, known) = Max({0, c})
    BY <1>3 DEF AdjustedCount
  <2>2. c \in Int
    OBVIOUS
  <2>3. Max({0, c}) = IF 0 >= c THEN 0 ELSE c
    <3> DEFINE z == 0
    <3>1. z \in Int
      OBVIOUS
    <3> HIDE DEF c, z
    <3>2. Max({z, c}) = IF z >= c THEN z ELSE c
      BY <2>2, <3>1, MinMaxOfTwo
    <3> QED
      BY <3>2 DEF z
  <2> QED
    BY <1>3, <2>1, <2>3
<1>4. CASE k \notin list \ known /\ k \notin (list \cap known) \ old /\ k \notin old \ list
  BY <1>4 DEF AdjustedCount
<1> QED
  BY <1>1, <1>2, <1>3, <1>4

\* Every transaction keeps the types of the graph.
LEMMA GraphTypesStep == GraphTypes /\ BatchTypes /\ [Next]_vars => GraphTypes'
<1> SUFFICES ASSUME GraphTypes, BatchTypes, [Next]_vars PROVE GraphTypes'
  OBVIOUS
<1>0. now' \in 0..MaxTime
  BY ClockStep DEF GraphTypes
<1>T. /\ stored \subseteq Keys /\ uncrawled \subseteq stored /\ attempted \subseteq stored
      /\ version \in [Keys -> Nat] /\ follows \in [Keys -> SUBSET Keys]
      /\ followerCount \in [Keys -> Nat] /\ missCount \in [Keys -> Nat]
      /\ nextAttempt \in [Keys -> Dates]
      /\ now \in 0..MaxTime
  BY DEF GraphTypes, Dates
<1>S. ASSUME /\ stored' \subseteq Keys /\ uncrawled' \subseteq stored' /\ attempted' \subseteq stored'
             /\ version' \in [Keys -> Nat] /\ follows' \in [Keys -> SUBSET Keys]
             /\ followerCount' \in [Keys -> Nat] /\ missCount' \in [Keys -> Nat]
             /\ nextAttempt' \in [Keys -> Dates]
      PROVE  GraphTypes'
  BY <1>0, <1>S DEF GraphTypes, Dates
<1>1. CASE UNCHANGED graph
  BY <1>1, <1>T, <1>S DEF graph
<1>2. CASE BackfillNextAttempt
  <2>1. nextAttempt' \in [Keys -> Dates] /\ missCount' \in [Keys -> Nat]
    BY <1>2, <1>T, DatesInRange DEF BackfillNextAttempt
  <2> QED
    BY <1>2, <1>T, <1>S, <2>1 DEF BackfillNextAttempt
<1>3. ASSUME NEW e \in Events, Update(e) PROVE GraphTypes'
  <2> DEFINE a == Author[e]
             l == Follows[e]
  <2>1. a \in Keys /\ l \subseteq Keys /\ CreatedAt[e] \in Nat
    BY StoreAssumption, CrawlerAssumption
  <2>2. CASE UpToDate(a, CreatedAt[e])
    BY <1>3, <1>1, <2>2 DEF Update, AddFollowers
  <2>3. CASE ~UpToDate(a, CreatedAt[e])
    <3>1. /\ stored' = stored \cup {a} \cup l
          /\ version' = [version EXCEPT ![a] = CreatedAt[e]]
          /\ follows' = [follows EXCEPT ![a] = l]
          /\ followerCount' = [k \in Keys |-> AdjustedCount(k, follows[a], l, stored \cup {a})]
          /\ uncrawled' = uncrawled \cup NewNodes(a, l)
          /\ UNCHANGED <<attempted, nextAttempt, missCount>>
      BY <1>3, <2>3 DEF Update, AddFollowers
    <3> HIDE DEF a, l
    <3>2. \A k \in Keys : AdjustedCount(k, follows[a], l, stored \cup {a}) \in Nat
      <4> SUFFICES ASSUME NEW k \in Keys
                   PROVE  AdjustedCount(k, follows[a], l, stored \cup {a}) \in Nat
        OBVIOUS
      <4>1. followerCount[k] \in Nat
        BY <1>T
      <4> QED
        BY <4>1, AdjustedCountCases
    <3>3. followerCount' \in [Keys -> Nat]
      BY <3>1, <3>2
    <3> QED
      BY <1>T, <1>S, <2>1, <3>1, <3>3 DEF NewNodes
  <2> QED
    BY <2>2, <2>3
<1>4. ASSUME NEW k \in Keys \ Valid, RecoverOrPurge(k) PROVE GraphTypes'
  <2>1. CASE k \in stored /\ Lower[k] \in Valid \ stored /\ RenameNode(k, Lower[k])
    <3> DEFINE g == Lower[k]
    <3>1. g \in Keys
      BY <2>1, StoreAssumption
    <3>2. Never \in Dates
      BY DEF Dates
    <3>3. version' \in [Keys -> Nat] /\ followerCount' \in [Keys -> Nat] /\ missCount' \in [Keys -> Nat]
      BY <1>T, <2>1, <3>1 DEF RenameNode
    <3>4. nextAttempt' \in [Keys -> Dates]
      BY <1>T, <2>1, <3>1, <3>2 DEF RenameNode
    <3>5. follows' \in [Keys -> SUBSET Keys]
      BY <1>T, <2>1, <3>1 DEF RenameNode
    <3>6. stored' \subseteq Keys /\ uncrawled' \subseteq stored' /\ attempted' \subseteq stored'
      BY <1>T, <2>1, <3>1 DEF RenameNode
    <3> QED
      BY <1>S, <3>3, <3>4, <3>5, <3>6
  <2>2. CASE k \in stored /\ DeleteNodes(k)
    <3>1. Never \in Dates
      BY DEF Dates
    <3> QED
      BY <1>T, <1>S, <2>2, <3>1 DEF DeleteNodes
  <2> QED
    BY <1>1, <1>4, <2>1, <2>2, RepairCases
<1>5. ASSUME NEW S \in SUBSET Keys, NEW H \in SUBSET Keys, StampAttempted(S, H) PROVE GraphTypes'
  <2>1. missCount' \in [Keys -> Nat]
    BY <1>5, <1>T DEF StampAttempted
  <2>2. nextAttempt' \in [Keys -> Dates]
    BY <1>5, <1>T, DatesInRange DEF StampAttempted
  <2> QED
    BY <1>5, <1>T, <1>S, <2>1, <2>2 DEF StampAttempted
<1> QED
  BY <1>1, <1>2, <1>3, <1>4, <1>5, EveryStepIsATransaction DEF Transaction

-----------------------------------------------------------------------------
(* The graph is what the contact lists say                                 *)

Followers(k) == {j \in stored : k \in follows[j]}

\* A node that does not exist, or is malformed, has no list and no followers, and
\* edges end at valid nodes that exist.
NoStrayEdges ==
    /\ \A k \in Keys : k \notin stored \/ k \notin Valid =>
          version[k] = 0 /\ follows[k] = {} /\ followerCount[k] = 0
    /\ \A k \in Keys : follows[k] \subseteq stored \cap Valid

GraphInv == IsFiniteSet(stored) /\ NoStrayEdges /\ ListMatchesVersion /\ CountsExact

\* A new list moves the signer in or out of the followers of each node.
LEMMA UpdateKeepsGraph ==
  ASSUME GraphTypes, GraphInv, NEW e \in Events, Update(e)
  PROVE  GraphInv'
<1> DEFINE a == Author[e]
           l == Follows[e]
           t == CreatedAt[e]
           old == follows[a]
           known == stored \cup {a}
<1>1. a \in Valid /\ a \in Keys /\ l \subseteq Valid /\ l \subseteq Keys /\ t \in Nat \ {0} /\ IsFiniteSet(l)
  BY StoreAssumption, CrawlerAssumption
<1>2. CASE UpToDate(a, t)
  <2>1. UNCHANGED graph
    BY <1>2 DEF Update, AddFollowers
  <2> QED
    BY <2>1 DEF graph, GraphInv, NoStrayEdges, ListMatchesVersion, CountsExact
<1>3. CASE ~UpToDate(a, t)
  <2>1. /\ stored' = known \cup l
        /\ version' = [version EXCEPT ![a] = t]
        /\ follows' = [follows EXCEPT ![a] = l]
        /\ followerCount' = [k \in Keys |-> AdjustedCount(k, old, l, known)]
    BY <1>3 DEF Update, AddFollowers
  <2>2. /\ stored \subseteq Keys /\ version \in [Keys -> Nat] /\ follows \in [Keys -> SUBSET Keys]
        /\ followerCount \in [Keys -> Nat]
    BY DEF GraphTypes
  <2>3. IsFiniteSet(stored) /\ NoStrayEdges /\ ListMatchesVersion /\ CountsExact
    BY DEF GraphInv
  <2>4. a \notin stored => old = {}
    BY <1>1, <2>3 DEF NoStrayEdges
  <2>5. old \subseteq stored \cap Valid
    BY <1>1, <2>3 DEF NoStrayEdges
  <2> HIDE DEF a, l, t, old, known
  <2>6. IsFiniteSet(stored')
    <3>1. IsFiniteSet(known)
      BY <2>3, FS_AddElement DEF known
    <3> QED
      BY <1>1, <2>1, <3>1, FS_Union
  <2>7. /\ \A k \in Keys : follows'[k] = IF k = a THEN l ELSE follows[k]
        /\ \A k \in Keys : version'[k] = IF k = a THEN t ELSE version[k]
        /\ \A k \in Keys : followerCount'[k] = AdjustedCount(k, old, l, known)
    BY <1>1, <2>1, <2>2
  <2>8. NoStrayEdges'
    <3>1. ASSUME NEW k \in Keys, k \notin stored' \/ k \notin Valid
          PROVE  version'[k] = 0 /\ follows'[k] = {} /\ followerCount'[k] = 0
      <4>1. k # a /\ k \notin l /\ (k \notin stored \/ k \notin Valid) /\ k \notin old
        BY <1>1, <2>1, <2>5, <3>1 DEF known
      <4>2. version[k] = 0 /\ follows[k] = {} /\ followerCount[k] = 0
        BY <2>3, <4>1 DEF NoStrayEdges
      <4>3. AdjustedCount(k, old, l, known) = followerCount[k]
        BY <2>2, <4>1, AdjustedCountCases
      <4> QED
        BY <2>7, <4>1, <4>2, <4>3
    <3>2. ASSUME NEW k \in Keys PROVE follows'[k] \subseteq stored' \cap Valid
      BY <1>1, <2>1, <2>3, <2>7 DEF NoStrayEdges, known
    <3> QED
      BY <3>1, <3>2 DEF NoStrayEdges
  <2>9. ListMatchesVersion'
    <3> SUFFICES ASSUME NEW k \in stored'
                 PROVE  \/ version'[k] = 0 /\ follows'[k] = {}
                        \/ \E x \in Events : /\ Author[x] = k /\ CreatedAt[x] = version'[k]
                                             /\ Follows[x] = follows'[k]
      BY DEF ListMatchesVersion
    <3>0. k \in Keys
      BY <1>1, <2>1, <2>2 DEF known
    <3>1. CASE k = a
      BY <2>7, <3>0, <3>1 DEF a, l, t
    <3>2. CASE k # a /\ k \in stored
      BY <2>3, <2>7, <3>0, <3>2 DEF ListMatchesVersion
    <3>3. CASE k # a /\ k \notin stored
      BY <2>3, <2>7, <3>0, <3>3 DEF NoStrayEdges
    <3> QED
      BY <3>1, <3>2, <3>3
  <2>10. CountsExact'
    <3> SUFFICES ASSUME NEW k \in stored'
                 PROVE  followerCount'[k] = Cardinality(Followers(k)')
      BY DEF CountsExact, Followers
    <3>0. k \in Keys /\ k \in known \cup l /\ followerCount[k] \in Nat
      BY <1>1, <2>1, <2>2 DEF known
    <3>1. followerCount[k] = Cardinality(Followers(k)) /\ IsFiniteSet(Followers(k))
      <4>1. IsFiniteSet(Followers(k))
        BY <2>3, FS_Subset DEF Followers
      <4>2. CASE k \in stored
        BY <2>3, <4>1, <4>2 DEF CountsExact, Followers
      <4>3. CASE k \notin stored
        <5>1. Followers(k) = {}
          BY <2>2, <2>3, <4>3 DEF NoStrayEdges, Followers
        <5>2. followerCount[k] = 0
          BY <2>3, <3>0, <4>3 DEF NoStrayEdges
        <5> QED
          BY <4>1, <5>1, <5>2, FS_EmptySet
      <4> QED
        BY <4>1, <4>2, <4>3
    <3>2. Followers(k)' = IF k \in l THEN Followers(k) \cup {a} ELSE Followers(k) \ {a}
      <4>1. ASSUME NEW j \in stored', j # a PROVE j \in Followers(k)' <=> j \in Followers(k)
        <5>1. j \in Keys /\ follows'[j] = follows[j]
          BY <1>1, <2>1, <2>2, <2>7, <4>1 DEF known
        <5>2. j \notin stored => follows[j] = {}
          BY <2>3, <5>1 DEF NoStrayEdges
        <5> QED
          BY <5>1, <5>2 DEF Followers
      <4>2. a \in stored' /\ (a \in Followers(k)' <=> k \in l)
        BY <1>1, <2>1, <2>7 DEF Followers, known
      <4>3. Followers(k)' \subseteq stored' /\ Followers(k) \subseteq stored'
        BY <2>1 DEF Followers, known
      <4> QED
        BY <4>1, <4>2, <4>3
    <3>3. a \in Followers(k) <=> k \in old
      BY <1>1, <2>4 DEF Followers, old
    <3>4. k \in old => k \in known
      BY <2>5 DEF known
    <3>5. CASE k \in l
      <4>1. Cardinality(Followers(k)') =
               IF k \in old THEN Cardinality(Followers(k)) ELSE Cardinality(Followers(k)) + 1
        BY <3>1, <3>2, <3>3, <3>5, FS_AddElement
      <4>2. k \notin known => followerCount[k] = 0
        BY <2>3, <3>0 DEF NoStrayEdges, known
      <4>3. /\ k \notin known => AdjustedCount(k, old, l, known) = 1
            /\ k \in known /\ k \notin old =>
                  AdjustedCount(k, old, l, known) = followerCount[k] + 1
            /\ k \in known /\ k \in old => AdjustedCount(k, old, l, known) = followerCount[k]
        BY <3>0, <3>5, AdjustedCountCases
      <4> QED
        BY <2>7, <3>0, <3>1, <3>4, <4>1, <4>2, <4>3
    <3>6. CASE k \notin l
      <4>1. Cardinality(Followers(k)') =
               IF k \in old THEN Cardinality(Followers(k)) - 1 ELSE Cardinality(Followers(k))
        BY <3>1, <3>2, <3>3, <3>6, FS_RemoveElement
      <4>2. k \in old => followerCount[k] > 0
        BY <3>0, <3>1, <3>3, FS_EmptySet
      <4>3. /\ k \in old => AdjustedCount(k, old, l, known) = followerCount[k] - 1
            /\ k \notin old => AdjustedCount(k, old, l, known) = followerCount[k]
        BY <3>0, <3>6, <4>2, AdjustedCountCases
      <4> QED
        BY <2>7, <3>0, <3>1, <4>1, <4>3
    <3> QED
      BY <3>5, <3>6
  <2> QED
    BY <2>6, <2>8, <2>9, <2>10 DEF GraphInv
<1> QED
  BY <1>2, <1>3

\* Renaming a malformed node moves no edge: it has none, and the new name had no
\* node.
LEMMA RenameKeepsGraph ==
  ASSUME GraphTypes, GraphInv, NEW bad \in Keys \ Valid, NEW good \in Valid \ stored,
         bad \in stored, RenameNode(bad, good)
  PROVE  /\ GraphInv'
         /\ stored' = (stored \ {bad}) \cup {good}
         /\ version' = version
<1>1. good \in Keys /\ good # bad
  BY StoreAssumption
<1>2. /\ stored \subseteq Keys /\ version \in [Keys -> Nat] /\ follows \in [Keys -> SUBSET Keys]
      /\ followerCount \in [Keys -> Nat]
  BY DEF GraphTypes
<1>3. IsFiniteSet(stored) /\ NoStrayEdges /\ ListMatchesVersion /\ CountsExact
  BY DEF GraphInv
<1>4. stored' = (stored \ {bad}) \cup {good}
  BY DEF RenameNode
<1>5. /\ version[bad] = 0 /\ follows[bad] = {} /\ followerCount[bad] = 0
      /\ version[good] = 0 /\ follows[good] = {} /\ followerCount[good] = 0
  BY <1>1, <1>3 DEF NoStrayEdges
<1>6. version' = version /\ followerCount' = followerCount
  <2>1. /\ version' = [version EXCEPT ![good] = version[bad], ![bad] = 0]
        /\ followerCount' = [followerCount EXCEPT ![good] = followerCount[bad], ![bad] = 0]
    BY DEF RenameNode
  <2> QED
    BY <1>1, <1>2, <1>5, <2>1
<1>7. follows' = follows
  <2>1. follows' = [k \in Keys |-> {IF j = bad THEN good ELSE j :
                       j \in [follows EXCEPT ![good] = follows[bad], ![bad] = {}][k]}]
    BY DEF RenameNode
  <2>2. [follows EXCEPT ![good] = follows[bad], ![bad] = {}] = follows
    BY <1>1, <1>2, <1>5
  <2>3. ASSUME NEW k \in Keys PROVE {IF j = bad THEN good ELSE j : j \in follows[k]} = follows[k]
    <3>1. bad \notin follows[k]
      BY <1>3 DEF NoStrayEdges
    <3> QED
      BY <3>1
  <2>4. follows' = [k \in Keys |-> {IF j = bad THEN good ELSE j : j \in follows[k]}]
    BY <2>1, <2>2
  <2> QED
    BY <1>2, <2>3, <2>4
<1>8. \A k \in Keys : bad \notin follows[k] /\ good \notin follows[k]
  BY <1>3 DEF NoStrayEdges
<1>9. IsFiniteSet(stored')
  BY <1>3, <1>4, FS_RemoveElement, FS_AddElement
<1>10. NoStrayEdges'
  <2>1. ASSUME NEW k \in Keys, k \notin stored' \/ k \notin Valid
        PROVE  version[k] = 0 /\ follows[k] = {} /\ followerCount[k] = 0
    BY <1>1, <1>3, <1>4, <1>5, <2>1 DEF NoStrayEdges
  <2>2. ASSUME NEW k \in Keys PROVE follows[k] \subseteq stored' \cap Valid
    BY <1>3, <1>4, <1>8 DEF NoStrayEdges
  <2> QED
    BY <1>6, <1>7, <2>1, <2>2 DEF NoStrayEdges
<1>11. ListMatchesVersion'
  BY <1>3, <1>4, <1>5, <1>6, <1>7 DEF ListMatchesVersion
<1>12. CountsExact'
  <2> SUFFICES ASSUME NEW k \in stored' PROVE followerCount'[k] = Cardinality(Followers(k)')
    BY DEF CountsExact, Followers
  <2>1. Followers(k)' = Followers(k)
    BY <1>2, <1>4, <1>5, <1>7 DEF Followers
  <2>2. CASE k = good
    <3>1. Followers(k) = {}
      BY <1>2, <1>8, <2>2 DEF Followers
    <3> QED
      BY <1>5, <1>6, <2>1, <2>2, <3>1, FS_EmptySet
  <2>3. CASE k # good
    BY <1>3, <1>4, <1>6, <2>1, <2>3 DEF CountsExact, Followers
  <2> QED
    BY <2>2, <2>3
<1> QED
  BY <1>4, <1>6, <1>9, <1>10, <1>11, <1>12 DEF GraphInv

\* Neither does deleting one.
LEMMA DeleteKeepsGraph ==
  ASSUME GraphTypes, GraphInv, NEW bad \in Keys \ Valid, bad \in stored, DeleteNodes(bad)
  PROVE  GraphInv' /\ version' = version
<1>1. /\ stored \subseteq Keys /\ version \in [Keys -> Nat] /\ follows \in [Keys -> SUBSET Keys]
      /\ followerCount \in [Keys -> Nat]
  BY DEF GraphTypes
<1>2. IsFiniteSet(stored) /\ NoStrayEdges /\ ListMatchesVersion /\ CountsExact
  BY DEF GraphInv
<1>3. version[bad] = 0 /\ follows[bad] = {} /\ followerCount[bad] = 0
  BY <1>2 DEF NoStrayEdges
<1>4. \A k \in Keys : bad \notin follows[k]
  BY <1>2 DEF NoStrayEdges
<1>5. stored' = stored \ {bad} /\ version' = version /\ followerCount' = followerCount
  BY <1>1, <1>3 DEF DeleteNodes
<1>6. follows' = follows
  <2>1. follows' = [k \in Keys |-> IF k = bad THEN {} ELSE follows[k] \ {bad}]
    BY DEF DeleteNodes
  <2>2. \A k \in Keys : (IF k = bad THEN {} ELSE follows[k] \ {bad}) = follows[k]
    BY <1>3, <1>4
  <2> QED
    BY <1>1, <2>1, <2>2
<1>7. IsFiniteSet(stored')
  BY <1>2, <1>5, FS_RemoveElement
<1>8. NoStrayEdges'
  BY <1>2, <1>3, <1>4, <1>5, <1>6 DEF NoStrayEdges
<1>9. ListMatchesVersion'
  BY <1>2, <1>5, <1>6 DEF ListMatchesVersion
<1>10. CountsExact'
  <2> SUFFICES ASSUME NEW k \in stored' PROVE followerCount'[k] = Cardinality(Followers(k)')
    BY DEF CountsExact, Followers
  <2>1. Followers(k)' = Followers(k)
    BY <1>3, <1>5, <1>6 DEF Followers
  <2> QED
    BY <1>2, <1>5, <2>1 DEF CountsExact, Followers
<1> QED
  BY <1>5, <1>7, <1>8, <1>9, <1>10 DEF GraphInv

\* Every transaction keeps the graph consistent.
LEMMA GraphStep == GraphInv /\ GraphTypes /\ BatchTypes /\ [Next]_vars => GraphInv'
<1> SUFFICES ASSUME GraphInv, GraphTypes, BatchTypes, [Next]_vars PROVE GraphInv'
  OBVIOUS
<1>1. CASE UNCHANGED <<stored, version, follows, followerCount>>
  BY <1>1 DEF GraphInv, NoStrayEdges, ListMatchesVersion, CountsExact
<1>2. CASE UNCHANGED graph \/ BackfillNextAttempt \/ \E S, H \in SUBSET Keys : StampAttempted(S, H)
  BY <1>1, <1>2 DEF graph, BackfillNextAttempt, StampAttempted
<1>3. CASE \E e \in Events : Update(e)
  BY <1>3, UpdateKeepsGraph
<1>4. CASE \E k \in Keys \ Valid : RecoverOrPurge(k)
  <2>1. PICK k \in Keys \ Valid : RecoverOrPurge(k)
    BY <1>4
  <2> QED
    BY <1>2, <2>1, RepairCases, RenameKeepsGraph, DeleteKeepsGraph
<1> QED
  BY <1>2, <1>3, <1>4, EveryStepIsATransaction DEF Transaction

\* A list is replaced by a newer one only, and repairs touch no valid node's list.
LEMMA VersionsGrow ==
  ASSUME GraphInv, GraphTypes, BatchTypes, [Next]_vars, NEW k \in Valid
  PROVE  version'[k] >= version[k]
<1>0. version \in [Keys -> Nat] /\ k \in Keys
  BY StoreAssumption DEF GraphTypes
<1>1. CASE version' = version
  BY <1>0, <1>1
<1>2. CASE \E e \in Events : Update(e)
  <2>1. PICK e \in Events : Update(e)
    BY <1>2
  <2>2. Author[e] \in Keys /\ CreatedAt[e] \in Nat
    BY StoreAssumption, CrawlerAssumption
  <2>3. CASE UpToDate(Author[e], CreatedAt[e])
    BY <1>1, <2>1, <2>3 DEF Update, AddFollowers, graph
  <2>4. CASE ~UpToDate(Author[e], CreatedAt[e])
    <3>1. version' = [version EXCEPT ![Author[e]] = CreatedAt[e]]
      BY <2>1, <2>4 DEF Update, AddFollowers
    <3>2. CreatedAt[e] >= version[Author[e]]
      BY <1>0, <2>2, <2>4 DEF UpToDate, GraphInv, NoStrayEdges
    <3> QED
      BY <1>0, <2>2, <3>1, <3>2
  <2> QED
    BY <2>3, <2>4
<1>3. CASE \E j \in Keys \ Valid : RecoverOrPurge(j)
  <2>1. PICK j \in Keys \ Valid : RecoverOrPurge(j)
    BY <1>3
  <2>2. version' = version
    BY <2>1, RepairCases, RenameKeepsGraph, DeleteKeepsGraph DEF graph
  <2> QED
    BY <1>1, <2>2
<1> QED
  BY <1>1, <1>2, <1>3, EveryStepIsATransaction
     DEF Transaction, graph, BackfillNextAttempt, StampAttempted

-----------------------------------------------------------------------------
(* The pool of relays                                                      *)

Bound(c) == Max({1, Threshold[c] - 1})

\* The bound of a class allows one failure and every count below the threshold.
LEMMA BoundProperties ==
  ASSUME NEW c \in Class
  PROVE  Bound(c) \in Nat /\ Bound(c) >= 1 /\ Bound(c) >= Threshold[c] - 1 /\ Threshold[c] \in Nat
<1> DEFINE one == 1
           t == Threshold[c] - 1
<1>1. Threshold[c] \in Nat \ {0} /\ t \in Int /\ one \in Int
  BY CrawlerAssumption
<1> HIDE DEF one, t
<1>2. Max({one, t}) = IF one >= t THEN one ELSE t
  BY <1>1, MinMaxOfTwo
<1> QED
  BY <1>1, <1>2 DEF Bound, one, t

\* Counts of failures by class that are below the threshold, or one.
Counts == {f \in [Class -> Nat] : \A c \in Class : f[c] <= Bound(c)}

\* The ways a relay's counts change keep them there.
LEMMA CountsProperties ==
  /\ NoFails \in Counts
  /\ [NoFails EXCEPT !["transport"] = 1] \in Counts
  /\ \A f \in Counts : [c \in Class |-> f[c] \div 2] \in Counts
  /\ \A f \in Counts, c \in Class :
        ~(f[c] + 1 >= Threshold[c]) => [f EXCEPT ![c] = @ + 1] \in Counts
<1>1. \A c \in Class : Bound(c) \in Nat /\ Bound(c) >= 1 /\ Bound(c) >= Threshold[c] - 1 /\ Threshold[c] \in Nat
  BY BoundProperties
<1>2. NoFails \in Counts /\ [NoFails EXCEPT !["transport"] = 1] \in Counts
  <2> DEFINE one == [NoFails EXCEPT !["transport"] = 1]
  <2>1. \A c \in Class : NoFails[c] = 0 /\ (one[c] = 0 \/ one[c] = 1)
    BY DEF NoFails
  <2>2. NoFails \in [Class -> Nat] /\ one \in [Class -> Nat]
    BY DEF NoFails
  <2> HIDE DEF one
  <2>3. \A c \in Class : NoFails[c] <= Bound(c) /\ one[c] <= Bound(c)
    BY <1>1, <2>1
  <2>4. NoFails \in Counts /\ one \in Counts
    BY <2>2, <2>3 DEF Counts
  <2> QED
    BY <2>4 DEF one
<1>3. ASSUME NEW f \in Counts PROVE [c \in Class |-> f[c] \div 2] \in Counts
  <2>1. \A c \in Class : f[c] \in Nat /\ f[c] <= Bound(c)
    BY DEF Counts
  <2>2. \A n \in Nat : n \div 2 \in Nat /\ n \div 2 <= n
    OBVIOUS
  <2>3. \A c \in Class : f[c] \div 2 \in Nat /\ f[c] \div 2 <= Bound(c)
    BY <1>1, <2>1, <2>2
  <2> QED
    BY <2>3 DEF Counts
<1>4. ASSUME NEW f \in Counts, NEW c \in Class, ~(f[c] + 1 >= Threshold[c])
      PROVE  [f EXCEPT ![c] = @ + 1] \in Counts
  BY <1>1, <1>4 DEF Counts
<1> QED
  BY <1>2, <1>3, <1>4

LinkStates == {"up", "down", "resting"}
Pooled ==
    ejected \subseteq Relays /\ link \in [Relays -> LinkStates] /\ fails \in [Relays -> Counts]

\* The pool with its counts written as one set.
LEMMA PooledIsTyped == Pooled <=> PoolTypes
  BY DEF Pooled, PoolTypes, Counts, Bound, LinkStates

\* Closing relays keeps the pool's types.
LEMMA MarkRelaysDeadTypes ==
  ASSUME Pooled, NEW dead \in SUBSET Relays, NEW c \in Class, MarkRelaysDead(dead, c)
  PROVE  Pooled'
<1> DEFINE out == {r \in dead : Ejects(r, c)}
<1>1. /\ ejected' = ejected \cup out
      /\ link' = [r \in Relays |-> IF r \in out THEN "down"
                                   ELSE IF r \in dead THEN "resting" ELSE link[r]]
      /\ fails' = [r \in Relays |-> IF r \in out THEN NoFails
                                    ELSE IF r \in dead THEN [fails[r] EXCEPT ![c] = @ + 1]
                                    ELSE fails[r]]
  BY DEF MarkRelaysDead
<1>2. \A r \in dead \ out : ~(fails[r][c] + 1 >= Threshold[c])
  BY DEF Ejects
<1>3. \A r \in dead \ out : [fails[r] EXCEPT ![c] = @ + 1] \in Counts
  BY <1>2, CountsProperties DEF Pooled
<1> HIDE DEF out
<1>4. out \subseteq Relays
  BY DEF out
<1>5. fails' \in [Relays -> Counts]
  BY <1>1, <1>3, CountsProperties DEF Pooled
<1>6. link' \in [Relays -> LinkStates]
  BY <1>1 DEF Pooled, LinkStates
<1> QED
  BY <1>1, <1>4, <1>5, <1>6 DEF Pooled

\* So does reconnecting them.
LEMMA ReconnectTypes ==
  ASSUME Pooled, ReconnectRelays
  PROVE  Pooled'
<1> DEFINE tried == {r \in Pool : link[r] = "down"}
           Out(ok) == {r \in tried \ ok : Ejects(r, "transport")}
<1>1. PICK ok \in SUBSET tried :
         /\ ejected' = ejected \cup Out(ok)
         /\ link' = [r \in Relays |->
                CASE r \in ok -> "up"
                  [] r \in (tried \ ok) \ Out(ok) -> "resting"
                  [] OTHER -> link[r]]
         /\ fails' = [r \in Relays |->
                CASE r \in Out(ok) -> NoFails
                  [] r \in ok -> [c \in Class |-> fails[r][c] \div 2]
                  [] r \in (tried \ ok) \ Out(ok) -> [fails[r] EXCEPT !["transport"] = @ + 1]
                  [] OTHER -> fails[r]]
  BY DEF ReconnectRelays
<1> DEFINE out == Out(ok)
<1>2. out \subseteq Relays /\ ok \subseteq Relays /\ out \cap ok = {}
  BY DEF Pool
<1>3. \A r \in (tried \ ok) \ out : ~(fails[r]["transport"] + 1 >= Threshold["transport"])
  BY DEF Ejects
<1>4. "transport" \in Class
  BY CrawlerAssumption
<1>5. \A r \in (tried \ ok) \ out : [fails[r] EXCEPT !["transport"] = @ + 1] \in Counts
  BY <1>3, <1>4, CountsProperties DEF Pooled, Pool
<1>6. \A r \in Relays : fails[r] \in Counts /\ [c \in Class |-> fails[r][c] \div 2] \in Counts
  BY CountsProperties DEF Pooled
<1> HIDE DEF tried, Out, out
<1>7. ASSUME NEW r \in Relays
      PROVE  (CASE r \in out -> NoFails
                [] r \in ok -> [c \in Class |-> fails[r][c] \div 2]
                [] r \in (tried \ ok) \ out -> [fails[r] EXCEPT !["transport"] = @ + 1]
                [] OTHER -> fails[r]) \in Counts
  <2>1. CASE r \in out
    BY <1>2, <2>1, CountsProperties
  <2>2. CASE r \in ok
    BY <1>2, <1>6, <2>2
  <2>3. CASE r \in (tried \ ok) \ out
    BY <1>5, <2>3
  <2>4. CASE r \notin out /\ r \notin ok /\ r \notin (tried \ ok) \ out
    BY <1>6, <2>4
  <2> QED
    BY <2>1, <2>2, <2>3, <2>4
<1>8. fails' \in [Relays -> Counts]
  BY <1>1, <1>7 DEF out
<1>9. link' \in [Relays -> LinkStates]
  BY <1>1 DEF Pooled, LinkStates
<1> QED
  BY <1>1, <1>2, <1>8, <1>9 DEF Pooled, out

\* The pool keeps its types: a relay that is not ejected stays below the
\* threshold of every class.
LEMMA PoolStep == Pooled /\ BatchTypes /\ [Next]_vars => Pooled'
<1> SUFFICES ASSUME Pooled, BatchTypes, [Next]_vars PROVE Pooled'
  OBVIOUS
<1>0. /\ NoFails \in Counts /\ [NoFails EXCEPT !["transport"] = 1] \in Counts
      /\ "transport" \in Class
  BY CountsProperties, CrawlerAssumption
<1>1. CASE UNCHANGED poolVars
  BY <1>1 DEF poolVars, Pooled
<1>2. CASE Start
  <2>1. PICK up \in (SUBSET Pool) \ {{}} :
          /\ link' = [r \in Relays |-> IF r \in up THEN "up"
                                       ELSE IF r \in Pool THEN "resting" ELSE "down"]
          /\ fails' = [r \in Relays |-> IF r \in Pool \ up
                          THEN [NoFails EXCEPT !["transport"] = 1] ELSE NoFails]
    BY <1>2 DEF Start
  <2>2. fails' \in [Relays -> Counts]
    BY <1>0, <2>1
  <2>3. link' \in [Relays -> LinkStates]
    BY <2>1 DEF LinkStates
  <2> QED
    BY <1>2, <2>2, <2>3 DEF Start, Pooled
<1>3. CASE Exit
  BY <1>0, <1>3 DEF Exit, Pooled, LinkStates
<1>4. CASE BeginBatch
  BY <1>4, ReconnectTypes DEF BeginBatch
<1>5. CASE HandleError
  <2>1. PICK err \in errors : MarkRelaysDead({err[1]}, err[2])
    BY <1>5 DEF HandleError
  <2>2. {err[1]} \in SUBSET Relays /\ err[2] \in Class
    BY DEF BatchTypes
  <2> QED
    BY <2>1, <2>2, MarkRelaysDeadTypes
<1>6. CASE DrainEnds
  <2>1. CASE late
    <3>1. Outstanding \in SUBSET Relays /\ MarkRelaysDead(Outstanding, "transport")
      BY <1>6, <2>1 DEF DrainEnds, CloseOutstanding, Outstanding, Up
    <3> QED
      BY <1>0, <3>1, MarkRelaysDeadTypes
  <2>2. CASE ~late
    BY <1>6, <2>2 DEF DrainEnds, CloseOutstanding, Pooled, LinkStates
  <2> QED
    BY <2>1, <2>2
<1>7. ASSUME NEW r \in Relays, Goroutine(r) \/ Rested(r) PROVE Pooled'
  <2>1. CASE Rested(r)
    BY <2>1 DEF Rested, Pooled, LinkStates
  <2>2. CASE Goroutine(r)
    <3>1. UNCHANGED <<ejected, link>>
      BY <2>2 DEF Goroutine, Deliver, QuerySucceeds, QueryFails, QueryInterrupted, Returned,
                  LeftoverReturns, poolVars
    <3>2. fails' = fails \/ fails' = [fails EXCEPT ![r] = NoFails]
      BY <2>2 DEF Goroutine, Deliver, QuerySucceeds, QueryFails, QueryInterrupted, Returned,
                  LeftoverReturns, poolVars
    <3>3. fails' \in [Relays -> Counts]
      BY <1>0, <3>2 DEF Pooled
    <3> QED
      BY <3>1, <3>3 DEF Pooled
  <2> QED
    BY <1>7, <2>1, <2>2
<1> QED
  BY <1>1, <1>2, <1>3, <1>4, <1>5, <1>6, <1>7
     DEF Next, MainStep, vars, StartFails, Shutdown, WorkComplete, HandleEvent, UpdateFatal,
         ChannelsClosed, ContextDone, FixKey, Stamp, StampRetried, StampFatal, NextLoop,
         Timeout, Tick

-----------------------------------------------------------------------------
(* The loop and its goroutines                                             *)

TaskStates == {"idle", "running", "done"}

\* Failures are only ever counted up, and within their bound.
LEMMA FaultsStep ==
  ASSUME LoopTypes, [Next]_vars
  PROVE  faults' \in 0..MaxFaults /\ faults' >= faults
<1>0. faults \in 0..MaxFaults /\ MaxFaults \in Nat
  BY CrawlerAssumption DEF LoopTypes
<1>1. CASE faults' = faults
  BY <1>0, <1>1
<1>2. CASE faults < MaxFaults /\ faults' = faults + 1
  BY <1>0, <1>2
<1>3. CASE BeginBatch
  <2>1. PICK slow \in SUBSET {r \in Relays : task[r] = "running"} :
          faults' = faults + Cardinality(slow) /\ faults' <= MaxFaults
    BY <1>3 DEF BeginBatch, Launch
  <2>2. IsFiniteSet(slow)
    <3>1. slow \subseteq Relays
      OBVIOUS
    <3> QED
      BY <3>1, CrawlerAssumption, FS_Subset
  <2>3. Cardinality(slow) \in Nat
    BY <2>2, FS_CardinalityType
  <2> QED
    BY <1>0, <2>1, <2>3
<1>4. ASSUME NEW r \in Relays, Goroutine(r) \/ Rested(r) PROVE faults' = faults
  BY <1>4 DEF Goroutine, Deliver, QuerySucceeds, QueryFails, QueryInterrupted, Returned,
              LeftoverReturns, Rested
<1>5. CASE HandleEvent
  <2>1. faults' = faults \/ (faults < MaxFaults /\ faults' = faults + 1)
    BY <1>5 DEF HandleEvent, ProcessFetchedEvent, AlreadyKnown, Updated, UpdateFails
  <2> QED
    BY <1>1, <1>2, <2>1
<1>6. CASE Start \/ FixKey
  BY <1>1, <1>2, <1>6 DEF Start, FixKey
<1> QED
  BY <1>1, <1>2, <1>3, <1>4, <1>5, <1>6
     DEF Next, MainStep, vars, StartFails, Shutdown, WorkComplete, UpdateFatal, HandleError,
         ChannelsClosed, EndFetch, ContextDone, DrainEnds, Stamp, StampRetried, StampFatal,
         Timeout, Tick

\* The main loop stays in its phases.
LEMMA PhaseStep ==
  ASSUME LoopTypes, [Next]_vars
  PROVE  phase' \in {"off", "select", "fetch", "drain", "mark"}
<1>1. CASE phase' = phase
  BY <1>1 DEF LoopTypes
<1>2. ASSUME NEW r \in Relays, Goroutine(r) \/ Rested(r) PROVE phase' = phase
  BY <1>2 DEF Goroutine, Deliver, QuerySucceeds, QueryFails, QueryInterrupted, Returned,
              LeftoverReturns, Rested
<1> QED
  BY <1>1, <1>2
     DEF Next, MainStep, vars, Start, StartFails, Shutdown, Exit, BeginBatch, WorkComplete,
         HandleEvent, UpdateFatal, HandleError, ChannelsClosed, EndFetch, ContextDone, DrainEnds,
         FixKey, Stamp, StampRetried, StampFatal, NextLoop, Timeout, Tick

\* What a step does to the goroutines of a batch and their context.
LEMMA LoopStep == LoopTypes /\ [Next]_vars => LoopTypes'
<1> SUFFICES ASSUME LoopTypes, [Next]_vars PROVE LoopTypes'
  OBVIOUS
<1>0. faults' \in 0..MaxFaults /\ phase' \in {"off", "select", "fetch", "drain", "mark"}
  BY FaultsStep, PhaseStep
<1> DEFINE Goroutines == /\ task \in [Relays -> TaskStates]
                         /\ leftover \subseteq Relays /\ stamped \subseteq Relays
           Ctx == context \in {"open", "cancelled", "late"} /\ late \in BOOLEAN
<1>1. Goroutines /\ Ctx
  BY DEF LoopTypes, TaskStates
<1>2. SUFFICES Goroutines' /\ Ctx'
  BY <1>0 DEF LoopTypes, TaskStates
<1>3. CASE UNCHANGED <<task, leftover, stamped, context, late>>
  BY <1>1, <1>3
<1>4. CASE Exit
  BY <1>4 DEF Exit, TaskStates
<1>5. CASE BeginBatch
  BY <1>1, <1>5 DEF BeginBatch, Launch, TaskStates
<1>6. CASE NextLoop
  BY <1>1, <1>6 DEF NextLoop, TaskStates
<1>7. CASE EndFetch
  BY <1>1, <1>7 DEF EndFetch
<1>8. CASE ContextDone
  <2>1. late' \in BOOLEAN
    BY <1>8, Zenon DEF ContextDone
  <2> QED
    BY <1>1, <1>8, <2>1 DEF ContextDone
<1>9. CASE Timeout
  BY <1>1, <1>9 DEF Timeout
<1>10. ASSUME NEW r \in Relays, Goroutine(r) \/ Rested(r) PROVE Goroutines' /\ Ctx'
  <2>1. CASE Deliver(r) \/ Rested(r)
    BY <1>1, <2>1 DEF Deliver, Rested, fetchVars
  <2>2. CASE LeftoverReturns(r)
    BY <1>1, <2>2 DEF LeftoverReturns
  <2>3. CASE Returned(r)
    BY <1>1, <2>3 DEF Returned, TaskStates
  <2> QED
    BY <1>10, <2>1, <2>2, <2>3 DEF Goroutine, QuerySucceeds, QueryFails, QueryInterrupted
<1> QED
  BY <1>3, <1>4, <1>5, <1>6, <1>7, <1>8, <1>9, <1>10
     DEF Next, MainStep, vars, fetchVars, Start, StartFails, Shutdown, WorkComplete, HandleEvent,
         UpdateFatal, HandleError, ChannelsClosed, DrainEnds, FixKey, Stamp, StampRetried,
         StampFatal, Tick

\* Only a goroutine that has returned is stamped with the generation of its batch,
\* and no goroutine outlives the process. With this, that no relay which is up has
\* a goroutine running after a fetch is inductive.
TaskInv ==
    /\ phase = "off" => \A r \in Relays : task[r] = "idle"
    /\ \A r \in stamped : task[r] = "done"
    /\ NoneStuckOnOpenConnection

\* At the end of a fetch whatever is still up has been stamped.
LEMMA NoneOutstanding ==
  ASSUME LoopTypes, TaskInv, CloseOutstanding, NEW r \in Relays, link'[r] = "up"
  PROVE  task[r] # "running"
<1>1. r \in Up /\ r \in stamped
  <2>1. CASE late
    BY <2>1 DEF CloseOutstanding, MarkRelaysDead, Outstanding, Up
  <2>2. CASE ~late
    BY <2>2 DEF CloseOutstanding, Outstanding, Up
  <2> QED
    BY <2>1, <2>2
<1> QED
  BY <1>1 DEF TaskInv

\* Every step keeps it.
LEMMA TaskStep == LoopTypes /\ TaskInv /\ [Next]_vars => TaskInv'
<1> SUFFICES ASSUME LoopTypes, TaskInv, [Next]_vars PROVE TaskInv'
  OBVIOUS
<1>1. CASE UNCHANGED <<phase, task, stamped, link>>
  BY <1>1 DEF TaskInv, NoneStuckOnOpenConnection, Up
<1>2. CASE Start
  <2>1. \A r \in Relays : task'[r] = "idle"
    BY <1>2 DEF Start, fetchVars, TaskInv
  <2>2. stamped' = stamped
    BY <1>2 DEF Start, fetchVars
  <2>3. \A r \in stamped' : task'[r] = "done"
    BY <1>2, <2>2 DEF Start, fetchVars, TaskInv
  <2> QED
    BY <1>2, <2>1, <2>3 DEF Start, TaskInv, NoneStuckOnOpenConnection, Up
<1>3. CASE Exit
  BY <1>3 DEF Exit, TaskInv, NoneStuckOnOpenConnection, Up
<1>4. CASE BeginBatch
  BY <1>4 DEF BeginBatch, Launch, TaskInv, NoneStuckOnOpenConnection
<1>5. CASE HandleError
  <2>1. phase' = "fetch" /\ UNCHANGED <<task, stamped>>
    BY <1>5 DEF HandleError
  <2> QED
    BY <2>1 DEF TaskInv, NoneStuckOnOpenConnection
<1>6. CASE ChannelsClosed
  <2>1. phase' = "mark" /\ UNCHANGED <<task, stamped, link>>
    BY <1>6 DEF ChannelsClosed, EndFetch, poolVars
  <2>2. \A r \in Relays : task[r] # "running"
    BY <1>6 DEF ChannelsClosed, Launched, Done
  <2> QED
    BY <2>1, <2>2 DEF TaskInv, NoneStuckOnOpenConnection, Up
<1>7. CASE ContextDone
  BY <1>7 DEF ContextDone, TaskInv, NoneStuckOnOpenConnection
<1>8. CASE DrainEnds
  <2>1. phase' = "mark" /\ UNCHANGED <<task, stamped>> /\ CloseOutstanding
    BY <1>8 DEF DrainEnds, EndFetch
  <2>2. \A r \in Relays : link'[r] = "up" => task[r] # "running"
    BY <2>1, NoneOutstanding
  <2> QED
    BY <2>1, <2>2 DEF TaskInv, NoneStuckOnOpenConnection, Up
<1>9. CASE NextLoop /\ phase = "mark"
  <2>1. /\ phase' = "select" /\ stamped' = {} /\ link' = link
        /\ task' = [r \in Relays |-> IF task[r] = "running" THEN "running" ELSE "idle"]
    BY <1>9 DEF NextLoop, poolVars
  <2> QED
    BY <1>9, <2>1 DEF TaskInv, NoneStuckOnOpenConnection, Up
<1>10. ASSUME NEW r \in Relays, Goroutine(r) PROVE TaskInv'
  <2>1. CASE Deliver(r)
    BY <1>1, <2>1 DEF Deliver, poolVars
  <2>2. CASE LeftoverReturns(r)
    BY <2>2 DEF LeftoverReturns, TaskInv, NoneStuckOnOpenConnection, Up
  <2>3. CASE Returned(r)
    <3>1. /\ task[r] = "running" /\ task' = [task EXCEPT ![r] = "done"]
          /\ stamped' = stamped \cup {r} /\ UNCHANGED <<phase, link>>
      BY <2>3 DEF Returned
    <3>2. \A s \in Relays : task'[s] = IF s = r THEN "done" ELSE task[s]
      BY <3>1 DEF LoopTypes
    <3>3. phase # "off"
      BY <3>1 DEF TaskInv
    <3>4. \A s \in stamped' : s \in Relays /\ task'[s] = "done"
      BY <3>1, <3>2 DEF TaskInv, LoopTypes
    <3> QED
      BY <3>1, <3>2, <3>3, <3>4 DEF TaskInv, NoneStuckOnOpenConnection, Up
  <2> QED
    BY <1>10, <2>1, <2>2, <2>3 DEF Goroutine, QuerySucceeds, QueryFails, QueryInterrupted
<1>11. ASSUME NEW r \in Relays, Rested(r) PROVE TaskInv'
  <2>1. /\ link' = [link EXCEPT ![r] = "down"] /\ UNCHANGED <<phase, task, stamped>>
    BY <1>11 DEF Rested, fetchVars
  <2>2. Up' \subseteq Up
    BY <2>1 DEF Up
  <2> QED
    BY <2>1, <2>2 DEF TaskInv, NoneStuckOnOpenConnection
<1> QED
  BY <1>1, <1>2, <1>3, <1>4, <1>5, <1>6, <1>7, <1>8, <1>9, <1>10, <1>11
     DEF Next, MainStep, vars, fetchVars, poolVars, StartFails, Shutdown, WorkComplete,
         HandleEvent, UpdateFatal, FixKey, Stamp, StampRetried, StampFatal, Timeout, Tick

-----------------------------------------------------------------------------
(* The batch                                                               *)

\* MarkAttempted has keys to deal with only while it runs, and while a batch runs
\* the sample it was selected with is not due yet.
BatchInv ==
    /\ phase # "mark" => marking = {}
    /\ phase \in {"fetch", "drain", "mark"} => sample.age < SampleEvery

\* Only nodes of the graph are selected.
LEMMA StaleAreStored ==
  ASSUME GraphTypes, NEW stale \in GetStalePubkeys
  PROVE  stale \subseteq stored
<1>1. PICK front \in TopByFollowers(uncrawled, Limit) :
         stale \in {front \cup aged : aged \in TopByFollowers(Aged, Limit - Cardinality(front))}
  BY DEF GetStalePubkeys
<1>2. PICK aged \in TopByFollowers(Aged, Limit - Cardinality(front)) : stale = front \cup aged
  BY <1>1
<1>3. front \subseteq uncrawled /\ aged \subseteq Aged
  BY DEF TopByFollowers
<1> QED
  BY <1>2, <1>3 DEF Aged, GraphTypes

\* A cached sample is used for the batches of one interval.
LEMMA SampleStep ==
  ASSUME BatchTypes
  PROVE  Sampled \in [empty : BOOLEAN, age : 0..SampleEvery] /\ Sampled.age < SampleEvery
<1>0. SampleEvery \in Nat \ {0}
  BY CrawlerAssumption
<1>1. sample \in [empty : BOOLEAN, age : 0..SampleEvery]
  BY DEF BatchTypes
<1>2. CASE sample.age >= SampleEvery
  <2>1. Sampled = [empty |-> stored = {}, age |-> 0]
    BY <1>2 DEF Sampled
  <2>2. (stored = {}) \in BOOLEAN
    BY Zenon
  <2> DEFINE b == (stored = {})
  <2>3. b \in BOOLEAN /\ Sampled = [empty |-> b, age |-> 0]
    BY <2>1, <2>2
  <2> HIDE DEF b
  <2> QED
    BY <1>0, <2>3
<1>3. CASE ~(sample.age >= SampleEvery)
  <2>1. Sampled = sample
    BY <1>3 DEF Sampled
  <2>2. sample.age \in 0..SampleEvery
    BY <1>1
  <2> QED
    BY <1>0, <1>1, <1>3, <2>1, <2>2
<1> QED
  BY <1>2, <1>3

\* Every step keeps the batch in its types.
LEMMA BatchStep == GraphTypes /\ BatchTypes /\ BatchInv /\ [Next]_vars => BatchTypes' /\ BatchInv'
<1> SUFFICES ASSUME GraphTypes, BatchTypes, BatchInv, [Next]_vars PROVE BatchTypes' /\ BatchInv'
  OBVIOUS
<1>0. SampleEvery \in Nat \ {0} /\ Valid \subseteq Keys /\ Seed \in Keys
      /\ \A e \in Events : Author[e] \in Keys
  BY CrawlerAssumption, StoreAssumption
<1> DEFINE batchVars == <<batch, buffered, processed, errors, hits, skip, marking, sample>>
<1>1. CASE UNCHANGED <<batchVars, phase>>
  BY <1>1 DEF BatchTypes, BatchInv
<1>2. Fresh \in [empty : BOOLEAN, age : 0..SampleEvery]
  BY <1>0 DEF Fresh
<1>3. CASE Start
  <2>1. sample' = Fresh /\ phase' = "select" /\ phase = "off" /\ UNCHANGED <<fetchVars, batch, marking>>
    BY <1>3 DEF Start
  <2> QED
    BY <1>2, <2>1 DEF BatchTypes, BatchInv, fetchVars
<1>4. CASE Exit
  <2>1. /\ phase' = "off" /\ batch' = NoBatch /\ sample' = Fresh
        /\ buffered' = {} /\ errors' = {} /\ processed' = {} /\ hits' = {} /\ skip' = {}
        /\ marking' = {}
    BY <1>4 DEF Exit
  <2>2. DOMAIN batch' = {}
    BY <2>1 DEF NoBatch
  <2> QED
    BY <1>2, <2>1, <2>2 DEF BatchTypes, BatchInv
<1>5. CASE BeginBatch
  <2>1. PICK stale \in GetStalePubkeys : batch' = Selected(stale)
    BY <1>5 DEF BeginBatch
  <2>2. stale \subseteq Keys
    BY StaleAreStored DEF GraphTypes
  <2>3. DOMAIN batch' \subseteq Keys /\ \A k \in DOMAIN batch' : batch'[k] \in Nat
    <3> DEFINE S == stale \cup (IF Sampled.empty THEN {Seed} ELSE {})
               V(k) == IF k = Seed /\ Sampled.empty THEN 0 ELSE version[k]
    <3>1. batch' = [k \in S |-> V(k)]
      BY <2>1 DEF Selected
    <3>2. S \subseteq Keys
      BY <1>0, <2>2
    <3>3. \A k \in Keys : V(k) \in Nat
      BY DEF GraphTypes
    <3> HIDE DEF S, V
    <3> QED
      BY <3>1, <3>2, <3>3
  <2>4. /\ phase = "select" /\ phase' = "fetch" /\ sample' = Sampled /\ marking' = marking
        /\ buffered' = {} /\ errors' = {} /\ processed' = {} /\ hits' = {} /\ skip' = {}
    BY <1>5 DEF BeginBatch, Launch
  <2> QED
    BY <2>3, <2>4, SampleStep DEF BatchTypes, BatchInv
<1>6. CASE NextLoop /\ phase = "mark"
  <2>1. /\ phase' = "select" /\ sample' = [sample EXCEPT !.age = @ + 1]
        /\ batch' = NoBatch /\ marking' = {} /\ processed' = {} /\ hits' = {} /\ skip' = {}
        /\ UNCHANGED <<buffered, errors>>
    BY <1>6 DEF NextLoop
  <2>2. DOMAIN batch' = {}
    BY <2>1 DEF NoBatch
  <2>3. sample.age \in 0..SampleEvery /\ sample.age < SampleEvery
    BY <1>6 DEF BatchTypes, BatchInv
  <2>4. sample.age + 1 \in 0..SampleEvery
    BY <1>0, <2>3
  <2>5. sample' \in [empty : BOOLEAN, age : 0..SampleEvery]
    BY <2>1, <2>4 DEF BatchTypes
  <2> QED
    BY <2>1, <2>2, <2>5 DEF BatchTypes, BatchInv
<1>7. CASE EndFetch /\ phase \in {"fetch", "drain"}
  <2>1. /\ phase' = "mark" /\ marking' = DOMAIN batch \ skip /\ errors' = {}
        /\ UNCHANGED <<batch, buffered, processed, hits, skip, sample>>
    BY <1>7 DEF EndFetch, AttemptableBatchKeys
  <2> QED
    BY <1>7, <2>1 DEF BatchTypes, BatchInv
<1>8. CASE ContextDone \/ Timeout
  BY <1>8 DEF ContextDone, Timeout, BatchTypes, BatchInv
<1>9. CASE HandleEvent
  <2>1. PICK e \in buffered :
          /\ buffered' = buffered \ {e}
          /\ IF e \in processed THEN UNCHANGED <<graph, hits, skip, processed, faults>>
             ELSE ProcessFetchedEvent(e)
    BY <1>9 DEF HandleEvent
  <2>2. Author[e] \in Keys /\ e \in Events
    BY <1>0 DEF BatchTypes
  <2>3. /\ hits' = hits \/ hits' = hits \cup {Author[e]}
        /\ skip' \subseteq skip \cup {Author[e]}
        /\ processed' \subseteq processed \cup {e}
    BY <2>1 DEF ProcessFetchedEvent, AlreadyKnown, Updated, UpdateFails
  <2>4. UNCHANGED <<phase, errors, batch, marking, sample>>
    BY <1>9 DEF HandleEvent
  <2>5. buffered' \subseteq Events /\ processed' \subseteq Events
    BY <2>1, <2>2, <2>3 DEF BatchTypes
  <2>6. hits' \subseteq Keys /\ skip' \subseteq Keys
    BY <2>2, <2>3 DEF BatchTypes
  <2> QED
    BY <2>4, <2>5, <2>6 DEF BatchTypes, BatchInv
<1>10. CASE HandleError
  <2>1. errors' \subseteq errors /\ UNCHANGED <<phase, batch, buffered, processed, hits, skip, marking, sample>>
    BY <1>10 DEF HandleError
  <2> QED
    BY <2>1 DEF BatchTypes, BatchInv
<1>11. CASE FixKey
  <2>1. phase' = "mark" /\ phase = "mark" /\ marking' \subseteq marking
        /\ UNCHANGED <<batch, buffered, processed, errors, hits, skip, sample>>
    BY <1>11 DEF FixKey, fetchVars
  <2> QED
    BY <2>1 DEF BatchTypes, BatchInv
<1>12. CASE StampRetried
  <2>1. phase' = "mark" /\ phase = "mark" /\ marking' = DOMAIN batch \ skip
        /\ UNCHANGED <<batch, buffered, processed, errors, hits, skip, sample>>
    BY <1>12 DEF StampRetried, fetchVars, AttemptableBatchKeys
  <2> QED
    BY <2>1 DEF BatchTypes, BatchInv
<1>13. ASSUME NEW r \in Relays, Goroutine(r) \/ Rested(r) PROVE BatchTypes' /\ BatchInv'
  <2>1. UNCHANGED <<phase, batch, processed, hits, skip, marking, sample>>
    BY <1>13 DEF Goroutine, Deliver, QuerySucceeds, QueryFails, QueryInterrupted, Returned,
                 LeftoverReturns, Rested, fetchVars
  <2>2. buffered' \subseteq Events
    BY <1>13 DEF Goroutine, Deliver, QuerySucceeds, QueryFails, QueryInterrupted, Returned,
                 LeftoverReturns, Rested, fetchVars, BatchTypes
  <2>3. errors' \subseteq Relays \X Class
    <3>1. CASE QueryFails(r)
      BY <3>1 DEF QueryFails, BatchTypes
    <3>2. CASE ~QueryFails(r)
      BY <1>13, <3>2 DEF Goroutine, Deliver, QuerySucceeds, QueryInterrupted,
                         LeftoverReturns, Rested, fetchVars, BatchTypes
    <3> QED
      BY <3>1, <3>2
  <2> QED
    BY <2>1, <2>2, <2>3 DEF BatchTypes, BatchInv
<1> QED
  BY <1>1, <1>3, <1>4, <1>5, <1>6, <1>7, <1>8, <1>9, <1>10, <1>11, <1>12, <1>13
     DEF Next, MainStep, vars, fetchVars, StartFails, Shutdown, WorkComplete, UpdateFatal,
         ChannelsClosed, DrainEnds, Stamp, StampFatal, Tick

-----------------------------------------------------------------------------
(* The frontier and the schedule                                           *)

\* Nodes attempted that have no date.
Undated == {k \in attempted : nextAttempt[k] = Never}

\* The pubkey of a node an older crawler left, or what a repair made of it.
FromLegacy(k) == \E l \in Legacy : k \in {l, Lower[l]}

FrontierExact == \A k \in stored : k \in uncrawled <=> k \notin attempted
UndatedFromLegacy == \A k \in Undated : FromLegacy(k)

\* Nodes lack a date only before the first backfill, or after a failure.
UndatedExcused == Undated # {} => phase = "off" \/ faults > 0

ScheduleInv == FrontierExact /\ UndatedFromLegacy /\ UndatedExcused

\* A stamp takes nodes out of the frontier and dates them.
LEMMA StampKeepsSchedule ==
  ASSUME GraphTypes, FrontierExact, NEW S \in SUBSET Keys, NEW H \in SUBSET Keys,
         StampAttempted(S, H)
  PROVE  FrontierExact' /\ Undated' \subseteq Undated
<1> DEFINE marked == S \cap stored
<1>1. /\ attempted' = attempted \cup marked /\ uncrawled' = uncrawled \ marked
      /\ stored' = stored
      /\ nextAttempt' = [k \in Keys |->
             CASE k \in marked \cap H -> now + Cadence
               [] k \in marked \ H -> now + BackoffInterval(missCount[k])
               [] OTHER -> nextAttempt[k]]
  BY DEF StampAttempted
<1>2. now + Cadence # Never /\ \A k \in Keys : now + BackoffInterval(missCount[k]) # Never
  BY DatesInRange DEF GraphTypes
<1>3. \A k \in marked : nextAttempt'[k] # Never
  <2> SUFFICES ASSUME NEW k \in marked PROVE nextAttempt'[k] # Never
    OBVIOUS
  <2>1. k \in Keys
    OBVIOUS
  <2>2. CASE k \in H
    <3>1. nextAttempt'[k] = now + Cadence
      BY <1>1, <2>1, <2>2
    <3> QED
      BY <1>2, <3>1
  <2>3. CASE k \notin H
    <3>1. nextAttempt'[k] = now + BackoffInterval(missCount[k])
      BY <1>1, <2>1, <2>3
    <3> QED
      BY <1>2, <2>1, <3>1
  <2> QED
    BY <2>2, <2>3
<1>4. \A k \in Keys \ marked : nextAttempt'[k] = nextAttempt[k]
  BY <1>1
<1> HIDE DEF marked
<1>5. attempted \subseteq Keys
  BY DEF GraphTypes
<1>6. Undated' \subseteq Undated
  BY <1>1, <1>3, <1>4, <1>5 DEF Undated
<1>7. marked \subseteq stored
  BY DEF marked
<1> QED
  BY <1>1, <1>6, <1>7 DEF FrontierExact

\* After a backfill no node attempted is without a date.
LEMMA BackfillDatesAll ==
  ASSUME GraphTypes, FrontierExact, BackfillNextAttempt
  PROVE  FrontierExact' /\ Undated' = {}
<1>1. /\ nextAttempt' = [k \in Keys |-> IF k \in Undated THEN Cadence ELSE nextAttempt[k]]
      /\ UNCHANGED <<stored, uncrawled, attempted>>
  BY DEF BackfillNextAttempt, Undated
<1>2. Cadence # Never
  BY DatesInRange DEF GraphTypes
<1>3. attempted \subseteq Keys
  BY DEF GraphTypes
<1>4. \A k \in attempted : nextAttempt'[k] # Never
  BY <1>1, <1>2, <1>3 DEF Undated
<1> QED
  BY <1>1, <1>4 DEF FrontierExact, Undated

\* New nodes enter the frontier; nothing else of the schedule changes.
LEMMA UpdateKeepsSchedule ==
  ASSUME GraphTypes, FrontierExact, NEW e \in Events, Update(e)
  PROVE  FrontierExact' /\ Undated' = Undated
<1>1. CASE UNCHANGED graph
  BY <1>1 DEF graph, FrontierExact, Undated
<1>2. CASE ~UpToDate(Author[e], CreatedAt[e])
  <2>1. /\ stored' = stored \cup {Author[e]} \cup Follows[e]
        /\ uncrawled' = uncrawled \cup ((Follows[e] \cup {Author[e]}) \ stored)
        /\ UNCHANGED <<attempted, nextAttempt>>
    BY <1>2 DEF Update, AddFollowers, NewNodes
  <2>2. attempted \subseteq stored
    BY DEF GraphTypes
  <2> QED
    BY <2>1, <2>2 DEF FrontierExact, Undated
<1> QED
  BY <1>1, <1>2 DEF Update, AddFollowers

\* The lowercase form of a key from an older crawler is one too.
LEMMA LegacyLower ==
  ASSUME NEW k \in Keys, FromLegacy(k)
  PROVE  FromLegacy(Lower[k])
<1>1. PICK l \in Legacy : k \in {l, Lower[l]}
  BY DEF FromLegacy
<1>2. l \in Keys /\ (Lower[l] \in Keys => Lower[Lower[l]] = Lower[l])
  BY StoreAssumption
<1>3. Lower[k] = Lower[l]
  BY <1>1, <1>2
<1> QED
  BY <1>3 DEF FromLegacy

\* A node that is renamed keeps its place in the frontier and its date.
LEMMA RenameKeepsSchedule ==
  ASSUME GraphTypes, FrontierExact, UndatedFromLegacy,
         NEW k \in Keys \ Valid, k \in stored, Lower[k] \in Valid \ stored,
         RenameNode(k, Lower[k])
  PROVE  FrontierExact' /\ UndatedFromLegacy' /\ (Undated = {} => Undated' = {})
<1> DEFINE g == Lower[k]
           Named(S) == {IF j = k THEN g ELSE j : j \in S}
<1>1. g \in Keys /\ g # k /\ g \notin stored
  BY StoreAssumption
<1>2. /\ stored' = Named(stored) /\ uncrawled' = Named(uncrawled)
      /\ attempted' = Named(attempted)
      /\ nextAttempt' = [nextAttempt EXCEPT ![g] = nextAttempt[k], ![k] = Never]
  BY DEF RenameNode
<1>3. ASSUME NEW S, S \subseteq stored
      PROVE  \A j : j \in Named(S) <=> (j = g /\ k \in S) \/ (j # k /\ j \in S)
  BY <1>1, <1>3
<1>4. uncrawled \subseteq stored /\ attempted \subseteq stored /\ stored \subseteq Keys
  BY DEF GraphTypes
<1>5. nextAttempt'[g] = nextAttempt[k] /\ \A j \in Keys \ {g, k} : nextAttempt'[j] = nextAttempt[j]
  BY <1>1, <1>2 DEF GraphTypes
<1>6. \A j : /\ j \in stored' <=> (j = g /\ k \in stored) \/ (j # k /\ j \in stored)
             /\ j \in uncrawled' <=> (j = g /\ k \in uncrawled) \/ (j # k /\ j \in uncrawled)
             /\ j \in attempted' <=> (j = g /\ k \in attempted) \/ (j # k /\ j \in attempted)
  BY <1>2, <1>3, <1>4
<1>7. FromLegacy(k) => FromLegacy(g)
  BY LegacyLower
<1> HIDE DEF g, Named
<1>8. FrontierExact'
  BY <1>1, <1>4, <1>6 DEF FrontierExact
<1>9. \A j \in Undated' : (j = g /\ k \in Undated) \/ j \in Undated
  BY <1>1, <1>4, <1>5, <1>6 DEF Undated
<1> QED
  BY <1>7, <1>8, <1>9 DEF UndatedFromLegacy, FromLegacy

\* A node that is deleted leaves the schedule.
LEMMA DeleteKeepsSchedule ==
  ASSUME GraphTypes, FrontierExact, NEW k \in Keys, DeleteNodes(k)
  PROVE  FrontierExact' /\ Undated' \subseteq Undated
<1>1. /\ stored' = stored \ {k} /\ uncrawled' = uncrawled \ {k} /\ attempted' = attempted \ {k}
      /\ nextAttempt' = [nextAttempt EXCEPT ![k] = Never]
  BY DEF DeleteNodes
<1>2. \A j \in Keys \ {k} : nextAttempt'[j] = nextAttempt[j]
  BY <1>1 DEF GraphTypes
<1>3. attempted \subseteq Keys
  BY DEF GraphTypes
<1> QED
  BY <1>1, <1>2, <1>3 DEF FrontierExact, Undated

\* So no transaction loses a node or a date.
LEMMA TransactionKeepsSchedule ==
  ASSUME GraphTypes, FrontierExact, UndatedFromLegacy, Transaction
  PROVE  FrontierExact' /\ UndatedFromLegacy' /\ (Undated = {} => Undated' = {})
<1>1. CASE FrontierExact' /\ Undated' \subseteq Undated
  BY <1>1 DEF UndatedFromLegacy, FromLegacy
<1>2. CASE UNCHANGED graph
  BY <1>1, <1>2 DEF graph, FrontierExact, Undated
<1>3. CASE BackfillNextAttempt
  BY <1>1, <1>3, BackfillDatesAll
<1>4. CASE \E e \in Events : Update(e)
  BY <1>1, <1>4, UpdateKeepsSchedule
<1>5. CASE \E k \in Keys \ Valid : RecoverOrPurge(k)
  <2>1. PICK k \in Keys \ Valid : RecoverOrPurge(k)
    BY <1>5
  <2> QED
    BY <1>1, <1>2, <2>1, RepairCases, RenameKeepsSchedule, DeleteKeepsSchedule
<1>6. CASE \E S, H \in SUBSET Keys : StampAttempted(S, H)
  BY <1>1, <1>6, StampKeepsSchedule
<1> QED
  BY <1>2, <1>3, <1>4, <1>5, <1>6 DEF Transaction

\* The process leaves "off" only with a backfill or a failure.
LEMMA StartBackfills ==
  ASSUME LoopTypes, [Next]_vars, phase = "off"
  PROVE  phase' = "off" \/ BackfillNextAttempt \/ faults' > 0
<1>1. CASE Start
  BY <1>1 DEF Start, LoopTypes
<1>2. CASE phase' = "off"
  BY <1>2
<1>3. ASSUME NEW r \in Relays, Goroutine(r) \/ Rested(r) PROVE phase' = phase
  BY <1>3 DEF Goroutine, Deliver, QuerySucceeds, QueryFails, QueryInterrupted, Returned,
              LeftoverReturns, Rested
<1> QED
  BY <1>1, <1>2, <1>3
     DEF Next, MainStep, vars, StartFails, Shutdown, BeginBatch, WorkComplete,
         HandleEvent, UpdateFatal, HandleError, ChannelsClosed, ContextDone, DrainEnds,
         FixKey, Stamp, StampRetried, StampFatal, Timeout, Tick

\* Every step keeps the schedule.
LEMMA ScheduleStep ==
    GraphTypes /\ LoopTypes /\ BatchTypes /\ ScheduleInv /\ [Next]_vars => ScheduleInv'
<1> SUFFICES ASSUME GraphTypes, LoopTypes, BatchTypes, ScheduleInv, [Next]_vars
             PROVE  ScheduleInv'
  OBVIOUS
<1>1. Transaction
  BY EveryStepIsATransaction
<1>2. FrontierExact' /\ UndatedFromLegacy' /\ (Undated = {} => Undated' = {})
  BY <1>1, TransactionKeepsSchedule DEF ScheduleInv
<1>3. UndatedExcused'
  <2>1. CASE Undated' = {}
    BY <2>1 DEF UndatedExcused
  <2>2. CASE faults > 0
    <3>1. faults' > 0
      BY <2>2, FaultsStep DEF LoopTypes
    <3> QED
      BY <3>1 DEF UndatedExcused
  <2>3. CASE phase = "off"
    <3>1. CASE BackfillNextAttempt
      BY <2>1, <3>1, BackfillDatesAll DEF ScheduleInv
    <3> QED
      BY <2>3, <3>1, StartBackfills DEF UndatedExcused
  <2> QED
    BY <1>2, <2>1, <2>2, <2>3 DEF ScheduleInv, UndatedExcused
<1> QED
  BY <1>2, <1>3 DEF ScheduleInv

-----------------------------------------------------------------------------
(* The theorems                                                            *)

CrawlerInv ==
    GraphTypes /\ Pooled /\ LoopTypes /\ BatchTypes /\ TaskInv /\ BatchInv /\ GraphInv /\ ScheduleInv

\* The crawler starts with a graph of an older crawler's nodes, no list in it.
LEMMA InitEstablishes == Init => CrawlerInv
<1> SUFFICES ASSUME Init PROVE CrawlerInv
  OBVIOUS
<1>1. /\ stored \subseteq Legacy /\ attempted = stored /\ uncrawled = {}
      /\ version = [k \in Keys |-> 0] /\ follows = [k \in Keys |-> {}]
      /\ followerCount = [k \in Keys |-> 0] /\ missCount = [k \in Keys |-> 0]
      /\ nextAttempt = [k \in Keys |-> Never] /\ now = 1
  BY DEF Init, GraphInit
<1>2. Legacy \subseteq Keys /\ IsFiniteSet(Legacy) /\ MaxTime \in Nat \ {0}
  BY StoreAssumption
<1>3. GraphTypes
  BY <1>1, <1>2 DEF GraphTypes
<1>4. Pooled
  BY CountsProperties DEF Init, Pooled, LinkStates
<1>5. LoopTypes
  <2>1. phase = "off" /\ task = [r \in Relays |-> "idle"] /\ leftover = {} /\ stamped = {}
    BY DEF Init
  <2>2. context = "open" /\ late = FALSE /\ faults = 0
    BY DEF Init
  <2>3. late \in BOOLEAN
    BY <2>2, Zenon
  <2>4. faults \in 0..MaxFaults
    BY <2>2, CrawlerAssumption
  <2>5. task \in [Relays -> {"idle", "running", "done"}]
    BY <2>1
  <2> QED
    BY <2>1, <2>2, <2>3, <2>4, <2>5 DEF LoopTypes
<1>6. BatchTypes
  <2>1. DOMAIN batch = {}
    BY DEF Init, NoBatch
  <2>2. sample \in [empty : BOOLEAN, age : 0..SampleEvery]
    BY CrawlerAssumption DEF Init, Fresh
  <2> QED
    BY <2>1, <2>2 DEF Init, BatchTypes
<1>7. TaskInv /\ BatchInv
  BY DEF Init, TaskInv, BatchInv, NoneStuckOnOpenConnection
<1>8. GraphInv
  <2>1. IsFiniteSet(stored)
    BY <1>1, <1>2, FS_Subset
  <2>2. NoStrayEdges
    BY <1>1 DEF NoStrayEdges
  <2>3. ListMatchesVersion
    BY <1>1, <1>2 DEF ListMatchesVersion
  <2>4. CountsExact
    <3>1. \A k \in stored : {j \in stored : k \in follows[j]} = {} /\ followerCount[k] = 0
      BY <1>1, <1>2
    <3> QED
      BY <3>1, FS_EmptySet DEF CountsExact
  <2> QED
    BY <2>1, <2>2, <2>3, <2>4 DEF GraphInv
<1>9. ScheduleInv
  BY <1>1 DEF Init, ScheduleInv, FrontierExact, UndatedFromLegacy, UndatedExcused, Undated, FromLegacy
<1> QED
  BY <1>3, <1>4, <1>5, <1>6, <1>7, <1>8, <1>9 DEF CrawlerInv

\* Every step of every actor keeps the invariant.
LEMMA NextPreserves == CrawlerInv /\ [Next]_vars => CrawlerInv'
  BY GraphTypesStep, PoolStep, LoopStep, BatchStep, TaskStep, GraphStep, ScheduleStep DEF CrawlerInv

\* The crawler stays within CrawlerInv.
LEMMA CrawlerInvariant == Spec => []CrawlerInv
<1>1. CrawlerInv /\ UNCHANGED vars => CrawlerInv'
  BY NextPreserves
<1> QED
  BY InitEstablishes, NextPreserves, PTL DEF Spec

\* Every variable stays in its set: counts of failures below the thresholds, dates
\* within one interval of the clock, the frontier inside the graph.
THEOREM TypeCorrect == Spec => []TypeOK
<1>1. CrawlerInv => TypeOK
  BY PooledIsTyped DEF CrawlerInv, TypeOK
<1> QED
  BY <1>1, CrawlerInvariant, PTL

\* However updates, failures, lost answers, repairs and crashes are ordered, the
\* edges of every node are those of one contact list of that author, they end at
\* nodes, and every follower count is exact (dgraph.go, AddFollowers).
THEOREM GraphCorrect == Spec => []GraphConsistent
<1>1. CrawlerInv => GraphConsistent
  BY DEF CrawlerInv, GraphInv, GraphConsistent, NoStrayEdges
<1> QED
  BY <1>1, CrawlerInvariant, PTL

\* A node is in the frontier exactly until its first attempt and has a date from
\* then on (dgraph.go, MarkAttempted and BackfillNextAttempt).
THEOREM NothingForgotten == Spec => []NoneForgotten
<1>1. CrawlerInv => NoneForgotten
  BY DEF CrawlerInv, ScheduleInv, FrontierExact, UndatedFromLegacy, UndatedExcused, Undated,
         FromLegacy, NoneForgotten
<1> QED
  BY <1>1, CrawlerInvariant, PTL

\* After a fetch no relay that is up has a query of it running (crawler.go, the end
\* of FetchAndUpdateFollows).
THEOREM NothingStuck == Spec => []NoneStuckOnOpenConnection
<1>1. CrawlerInv => NoneStuckOnOpenConnection
  BY DEF CrawlerInv, TaskInv
<1> QED
  BY <1>1, CrawlerInvariant, PTL

\* A stored contact list is never replaced by an older one.
THEOREM NewestListWins == Spec => NewestWins
<1>1. CrawlerInv /\ [Next]_vars => [\A k \in Valid : version'[k] >= version[k]]_vars
  BY VersionsGrow DEF CrawlerInv
<1> QED
  BY <1>1, CrawlerInvariant, PTL DEF Spec, NewestWins

=============================================================================
