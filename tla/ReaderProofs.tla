---------------------------- MODULE ReaderProofs ----------------------------
(***************************************************************************)
(* Proofs about the read paths of LMDB2GraphQL, for every catalog of       *)
(* events, every base and width of the integers in keys, every window,     *)
(* limit and number of workers, and any number of writes between steps:    *)
(* scans and streams over the keys' bytes, the pages of authors, and the   *)
(* buckets of latestPerAuthor with what may be missing from them.  They    *)
(* start from digits and the orders of the comparators.                    *)
(***************************************************************************)
EXTENDS Reader, FiniteSetTheorems, SequenceTheorems, WellFoundedInduction, TLAPS

-----------------------------------------------------------------------------
(* Numbers and recursion                                                   *)

\* Induction over a set of numbers.
LEMMA SetInduction ==
  ASSUME NEW P, P \subseteq Nat, 0 \in P, \A n \in P : n + 1 \in P
  PROVE  P = Nat
<1> SUFFICES ASSUME Nat \ P # {} PROVE FALSE
  OBVIOUS
<1>1. PICK x \in Nat \ P : \A y \in Nat \ P : ~(<<y, x>> \in OpToRel(<, Nat))
  <2>1. IsWellFoundedOn(OpToRel(<, Nat), Nat)
    BY NatLessThanWellFounded
  <2> DEFINE R == OpToRel(<, Nat)
             T == Nat \ P
  <2>2. IsWellFoundedOn(R, Nat) /\ T \subseteq Nat /\ T # {}
    BY <2>1
  <2> HIDE DEF R, T
  <2>3. \E x \in T : \A y \in T : ~(<<y, x>> \in R)
    BY <2>2, WFMin
  <2> QED
    BY <2>3 DEF R, T
<1>2. \A y \in Nat \ P : ~(y < x)
  <2> SUFFICES ASSUME NEW y \in Nat \ P, y < x PROVE FALSE
    OBVIOUS
  <2>1. <<y, x>> \in Nat \X Nat /\ <<y, x>>[1] < <<y, x>>[2]
    BY <1>1
  <2>2. <<y, x>> \in OpToRel(<, Nat)
    BY <2>1 DEF OpToRel
  <2> QED
    BY <1>1, <2>2
<1>3. x \in Nat /\ x \notin P /\ x # 0
  BY <1>1
<1>4. x - 1 \in Nat /\ x - 1 < x /\ (x - 1) + 1 = x
  BY <1>3
<1>5. x - 1 \in P
  BY <1>2, <1>4
<1> QED
  BY <1>3, <1>4, <1>5

\* A set of numbers that is not empty has a least member.
LEMMA LeastMember ==
  ASSUME NEW T, T \subseteq Nat, T # {}
  PROVE  \E x \in T : \A y \in T : x <= y
<1>1. PICK x \in T : \A y \in T : ~(<<y, x>> \in OpToRel(<, Nat))
  <2>1. IsWellFoundedOn(OpToRel(<, Nat), Nat)
    BY NatLessThanWellFounded
  <2> DEFINE R == OpToRel(<, Nat)
  <2>2. IsWellFoundedOn(R, Nat)
    BY <2>1
  <2> HIDE DEF R
  <2>3. \E x \in T : \A y \in T : ~(<<y, x>> \in R)
    BY <2>2, WFMin
  <2> QED
    BY <2>3 DEF R
<1>2. \A y \in T : x <= y
  <2> SUFFICES ASSUME NEW y \in T, y < x PROVE FALSE
    OBVIOUS
  <2>1. <<y, x>> \in Nat \X Nat /\ <<y, x>>[1] < <<y, x>>[2]
    BY <1>1
  <2>2. <<y, x>> \in OpToRel(<, Nat)
    BY <2>1 DEF OpToRel
  <2> QED
    BY <1>1, <2>2
<1> QED
  BY <1>2

\* f has the value c at 0, and G leads from each value to the next.
Steps(G, S, N) == G \in [(1 .. N) \X S -> S]
Follows(f, c, G, S, N) ==
    f \in [0 .. N -> S] /\ f[0] = c /\ \A i \in 1 .. N : f[i] = G[<<i, f[i - 1]>>]

\* Such a function exists.
LEMMA RecursionExists ==
  ASSUME NEW S, NEW c \in S, NEW N \in Nat, NEW G, Steps(G, S, N)
  PROVE  \E f : Follows(f, c, G, S, N)
<1> USE DEF Steps, Follows
<1> DEFINE Solves(f, n) == f \in [0 .. N -> S] /\ f[0] = c /\ \A i \in 1 .. N : i <= n => f[i] = G[<<i, f[i - 1]>>]
           P == {n \in Nat : \E f : Solves(f, n)}
<1>1. 0 \in P
  <2> DEFINE f == [i \in 0 .. N |-> c]
  <2>1. Solves(f, 0)
    OBVIOUS
  <2> QED
    BY <2>1
<1>2. ASSUME NEW n \in P PROVE n + 1 \in P
  <2>1. n \in Nat
    OBVIOUS
  <2>2. PICK f : Solves(f, n)
    OBVIOUS
  <2> DEFINE h == [i \in 0 .. N |-> IF i <= n THEN f[i] ELSE IF i = n + 1 THEN G[<<i, f[i - 1]>>] ELSE c]
  <2>3. ASSUME NEW i \in 1 .. N PROVE G[<<i, f[i - 1]>>] \in S
    <3>1. i - 1 \in 0 .. N
      OBVIOUS
    <3>2. f[i - 1] \in S
      BY <2>2, <3>1
    <3> QED
      BY <3>2
  <2>4. \A i \in 0 .. N : h[i] \in S
    <3> SUFFICES ASSUME NEW i \in 0 .. N PROVE h[i] \in S
      OBVIOUS
    <3>1. i = n + 1 => i \in 1 .. N
      BY <2>1
    <3> QED
      BY <2>2, <2>3, <3>1
  <2>5. h \in [0 .. N -> S] /\ h[0] = c
    BY <2>1, <2>2, <2>4
  <2>6. ASSUME NEW i \in 1 .. N, i <= n + 1 PROVE h[i] = G[<<i, h[i - 1]>>]
    <3>1. i - 1 \in 0 .. N /\ i - 1 <= n /\ i \in 0 .. N
      BY <2>1, <2>6
    <3>2. h[i - 1] = f[i - 1]
      BY <3>1
    <3>3. CASE i <= n
      BY <2>2, <3>1, <3>2, <3>3
    <3>4. CASE i = n + 1
      BY <2>1, <3>1, <3>2, <3>4
    <3> QED
      BY <2>1, <2>6, <3>3, <3>4
  <2> HIDE DEF h
  <2>7. Solves(h, n + 1)
    BY <2>5, <2>6
  <2> QED
    BY <2>1, <2>7
<1>3. P \subseteq Nat
  OBVIOUS
<1> HIDE DEF P
<1>4. N \in P
  BY <1>1, <1>2, <1>3, SetInduction
<1>5. PICK f : Solves(f, N)
  BY <1>4 DEF P
<1> QED
  BY <1>5

-----------------------------------------------------------------------------
(* Little-endian integers                                                  *)

Byte == 0 .. Base - 1
Bytes == [1 .. Width -> Byte]

\* The digits from the highest on, read one by one.
Reads(bytes, h) ==
    /\ h \in [0 .. Width -> Nat] /\ h[0] = 0
    /\ \A i \in 1 .. Width : h[i] = bytes[Width - i + 1] + Base * h[i - 1]

\* The recursion of from_le_bytes has a solution, whose last value is the integer.
LEMMA FromLeUnfolds ==
  ASSUME NEW bytes \in Bytes
  PROVE  \E h : Reads(bytes, h) /\ FromLe(bytes) = h[Width]
<1>0. Base \in Nat /\ Base > 1 /\ Width \in Nat /\ Width > 0
  BY KeyBytesConstants
<1> DEFINE G == [x \in (1 .. Width) \X Nat |-> bytes[Width - x[1] + 1] + Base * x[2]]
<1>1. ASSUME NEW i \in 1 .. Width, NEW n \in Nat
      PROVE  G[<<i, n>>] = bytes[Width - i + 1] + Base * n /\ G[<<i, n>>] \in Nat
  <2>1. Width - i + 1 \in 1 .. Width
    BY <1>0
  <2>2. bytes[Width - i + 1] \in Nat
    BY <1>0, <2>1 DEF Bytes, Byte
  <2>3. Base * n \in Nat
    BY <1>0
  <2> QED
    BY <2>2, <2>3
<1>2. G \in [(1 .. Width) \X Nat -> Nat]
  <2>1. \A x \in (1 .. Width) \X Nat : G[x] \in Nat
    <3> SUFFICES ASSUME NEW x \in (1 .. Width) \X Nat PROVE G[x] \in Nat
      OBVIOUS
    <3>1. x = <<x[1], x[2]>> /\ x[1] \in 1 .. Width /\ x[2] \in Nat
      OBVIOUS
    <3> HIDE DEF G
    <3>2. G[<<x[1], x[2]>>] \in Nat
      BY <1>1, <3>1
    <3> QED
      BY <3>1, <3>2
  <2> QED
    BY <2>1
<1> HIDE DEF G
<1>3. PICK f : Follows(f, 0, G, Nat, Width)
  <2>1. 0 \in Nat /\ Width \in Nat /\ Steps(G, Nat, Width)
    BY <1>0, <1>2 DEF Steps
  <2> QED
    BY <2>1, RecursionExists
<1>4. \A i \in 0 .. Width : f[i] = IF i = 0 THEN 0 ELSE bytes[Width - i + 1] + Base * f[i - 1]
  <2> SUFFICES ASSUME NEW i \in 1 .. Width PROVE f[i] = bytes[Width - i + 1] + Base * f[i - 1]
    BY <1>0, <1>3 DEF Follows
  <2>1. i - 1 \in 0 .. Width
    BY <1>0
  <2>2. f[i - 1] \in Nat
    BY <1>3, <2>1 DEF Follows
  <2> QED
    BY <1>1, <1>3, <2>2 DEF Follows
<1>5. f = [i \in 0 .. Width |-> IF i = 0 THEN 0 ELSE bytes[Width - i + 1] + Base * f[i - 1]]
  BY <1>3, <1>4 DEF Follows
<1> DEFINE h == CHOOSE f1 : f1 = [i \in 0 .. Width |-> IF i = 0 THEN 0 ELSE bytes[Width - i + 1] + Base * f1[i - 1]]
<1>6. h = [i \in 0 .. Width |-> IF i = 0 THEN 0 ELSE bytes[Width - i + 1] + Base * h[i - 1]]
  BY <1>5, Zenon
<1>7. FromLe(bytes) = h[Width]
  BY Zenon DEF FromLe
<1> HIDE DEF h
<1>8. h[0] = 0 /\ \A i \in 1 .. Width : h[i] = bytes[Width - i + 1] + Base * h[i - 1]
  BY <1>0, <1>6
<1>9. \A i \in 0 .. Width : h[i] \in Nat
  <2> DEFINE P == {i \in Nat : i <= Width => h[i] \in Nat}
  <2>1. 0 \in P
    BY <1>8
  <2>2. ASSUME NEW n \in P PROVE n + 1 \in P
    <3> SUFFICES ASSUME n + 1 <= Width PROVE h[n + 1] \in Nat
      OBVIOUS
    <3>1. n + 1 \in 1 .. Width /\ (n + 1) - 1 = n /\ h[n] \in Nat
      BY <1>0
    <3>2. h[n + 1] = G[<<n + 1, h[n]>>]
      BY <1>1, <1>8, <3>1
    <3> QED
      BY <1>1, <3>1, <3>2
  <2>3. P \subseteq Nat
    OBVIOUS
  <2> HIDE DEF P
  <2>4. P = Nat
    BY <2>1, <2>2, <2>3, SetInduction
  <2> QED
    BY <1>0, <2>4 DEF P
<1>10. h \in [0 .. Width -> Nat]
  BY <1>6, <1>9
<1> QED
  BY <1>7, <1>8, <1>10 DEF Reads

\* Division by the base.
LEMMA Euclid ==
  ASSUME NEW a \in Nat
  PROVE  a \div Base \in Nat /\ a % Base \in Byte /\ a = (a % Base) + Base * (a \div Base)
BY KeyBytesConstants DEF Byte

\* A digit below a larger number weighs less than one unit of it.
LEMMA DigitOrder ==
  ASSUME NEW a \in Byte, NEW b \in Byte, NEW x \in Nat, NEW y \in Nat
  PROVE  /\ x < y => a + Base * x < b + Base * y
         /\ x <= y => a + Base * x <= (Base - 1) + Base * y
<1>0. Base \in Nat /\ Base > 1 /\ a \in Nat /\ b \in Nat /\ a <= Base - 1
  BY KeyBytesConstants DEF Byte
<1>1. Base * x \in Nat /\ Base * y \in Nat
  BY <1>0
<1>2. ASSUME x < y PROVE Base * x + Base <= Base * y
  <2>1. x + 1 <= y
    BY <1>2
  <2>2. Base * (x + 1) <= Base * y
    BY <1>0, <2>1
  <2>3. Base * (x + 1) = Base * x + Base
    BY <1>0
  <2> QED
    BY <2>2, <2>3
<1>3. x <= y => Base * x <= Base * y
  BY <1>0, <1>1, <1>2
<1> QED
  BY <1>0, <1>1, <1>2, <1>3

\* A lowest digit and the rest are determined by the number.
LEMMA DigitsUnique ==
  ASSUME NEW a \in Byte, NEW b \in Byte, NEW x \in Nat, NEW y \in Nat, a + Base * x = b + Base * y
  PROVE  a = b /\ x = y
<1>0. Base \in Nat /\ a \in Nat /\ b \in Nat /\ Base * x \in Nat /\ Base * y \in Nat
  BY KeyBytesConstants DEF Byte
<1>1. ~(x < y)
  <2>1. x < y => a + Base * x < b + Base * y
    BY DigitOrder
  <2> QED
    BY <1>0, <2>1
<1>2. ~(y < x)
  <2>1. y < x => b + Base * y < a + Base * x
    BY DigitOrder
  <2> QED
    BY <1>0, <2>1
<1>3. x = y
  BY <1>1, <1>2
<1> QED
  BY <1>0, <1>3

\* to_le_bytes divides by the base again and again.
Divides(n, r) ==
    r \in [0 .. Width -> Nat] /\ r[0] = n /\ \A i \in 1 .. Width : r[i] = r[i - 1] \div Base

\* The recursion of to_le_bytes has a solution: the digits are its remainders.
LEMMA LeUnfolds ==
  ASSUME NEW n \in Nat
  PROVE  \E r : Divides(n, r) /\ Le(n) = [i \in 1 .. Width |-> r[i - 1] % Base]
<1>0. Base \in Nat /\ Base > 1 /\ Width \in Nat /\ Width > 0
  BY KeyBytesConstants
<1> DEFINE G == [x \in (1 .. Width) \X Nat |-> x[2] \div Base]
<1>1. ASSUME NEW i \in 1 .. Width, NEW m \in Nat
      PROVE  G[<<i, m>>] = m \div Base /\ G[<<i, m>>] \in Nat
  BY Euclid
<1>2. G \in [(1 .. Width) \X Nat -> Nat]
  <2>1. \A x \in (1 .. Width) \X Nat : G[x] \in Nat
    BY Euclid
  <2> QED
    BY <2>1
<1> HIDE DEF G
<1>3. PICK f : Follows(f, n, G, Nat, Width)
  <2>1. Width \in Nat /\ Steps(G, Nat, Width)
    BY <1>0, <1>2 DEF Steps
  <2> QED
    BY <2>1, RecursionExists
<1>4. \A i \in 0 .. Width : f[i] = IF i = 0 THEN n ELSE f[i - 1] \div Base
  <2> SUFFICES ASSUME NEW i \in 1 .. Width PROVE f[i] = f[i - 1] \div Base
    BY <1>0, <1>3 DEF Follows
  <2>1. i - 1 \in 0 .. Width
    BY <1>0
  <2>2. f[i - 1] \in Nat
    BY <1>3, <2>1 DEF Follows
  <2> QED
    BY <1>1, <1>3, <2>2 DEF Follows
<1>5. f = [i \in 0 .. Width |-> IF i = 0 THEN n ELSE f[i - 1] \div Base]
  BY <1>3, <1>4 DEF Follows
<1> DEFINE r == CHOOSE f1 : f1 = [i \in 0 .. Width |-> IF i = 0 THEN n ELSE f1[i - 1] \div Base]
<1>6. r = [i \in 0 .. Width |-> IF i = 0 THEN n ELSE r[i - 1] \div Base]
  BY <1>5, Zenon
<1>7. Le(n) = [i \in 1 .. Width |-> r[i - 1] % Base]
  BY Zenon DEF Le
<1> HIDE DEF r
<1>8. r[0] = n /\ \A i \in 1 .. Width : r[i] = r[i - 1] \div Base
  BY <1>0, <1>6
<1>9. \A i \in 0 .. Width : r[i] \in Nat
  <2> DEFINE P == {i \in Nat : i <= Width => r[i] \in Nat}
  <2>1. 0 \in P
    BY <1>8
  <2>2. ASSUME NEW m \in P PROVE m + 1 \in P
    <3> SUFFICES ASSUME m + 1 <= Width PROVE r[m + 1] \in Nat
      OBVIOUS
    <3>1. m + 1 \in 1 .. Width /\ (m + 1) - 1 = m /\ r[m] \in Nat
      BY <1>0
    <3> QED
      BY <1>8, <3>1, Euclid
  <2>3. P \subseteq Nat
    OBVIOUS
  <2> HIDE DEF P
  <2>4. P = Nat
    BY <2>1, <2>2, <2>3, SetInduction
  <2> QED
    BY <1>0, <2>4 DEF P
<1>10. r \in [0 .. Width -> Nat]
  BY <1>6, <1>9
<1> QED
  BY <1>7, <1>8, <1>10 DEF Divides

\* What from_le_bytes gives is a number up to u64::MAX, and no two are the same.
LEMMA FromLeRange ==
  ASSUME NEW bytes \in Bytes
  PROVE  FromLe(bytes) \in Nat /\ U64Max \in Nat /\ FromLe(bytes) <= U64Max
<1>0. Base \in Nat /\ Base > 1 /\ Width \in Nat /\ Width > 0 /\ \A b \in Byte : b \in Nat
  BY KeyBytesConstants DEF Byte
<1> DEFINE top == [i \in 1 .. Width |-> Base - 1]
<1>1. top \in Bytes
  BY <1>0 DEF Bytes, Byte
<1>2. PICK h : Reads(bytes, h) /\ FromLe(bytes) = h[Width]
  BY FromLeUnfolds
<1>3. PICK t : Reads(top, t) /\ FromLe(top) = t[Width]
  BY <1>1, FromLeUnfolds
<1>4. h \in [0 .. Width -> Nat] /\ t \in [0 .. Width -> Nat]
  BY <1>2, <1>3 DEF Reads
<1> DEFINE P == {i \in Nat : i <= Width => h[i] <= t[i]}
<1>5. 0 \in P
  BY <1>2, <1>3 DEF Reads
<1>6. ASSUME NEW n \in P PROVE n + 1 \in P
  <2> SUFFICES ASSUME n + 1 <= Width PROVE h[n + 1] <= t[n + 1]
    OBVIOUS
  <2>1. n + 1 \in 1 .. Width /\ (n + 1) - 1 = n /\ h[n] <= t[n] /\ n \in 0 .. Width
    BY <1>0
  <2> DEFINE k == Width - (n + 1) + 1
  <2>2. k \in 1 .. Width
    BY <1>0, <2>1
  <2>3. h[n + 1] = bytes[k] + Base * h[n] /\ t[n + 1] = top[k] + Base * t[n]
    <3> HIDE DEF top
    <3> QED
      BY <1>2, <1>3, <2>1 DEF Reads
  <2>4. top[k] = Base - 1 /\ bytes[k] \in Byte
    BY <2>2 DEF Bytes
  <2>5. h[n] \in Nat /\ t[n] \in Nat
    BY <1>4, <2>1
  <2> HIDE DEF top, k
  <2> QED
    BY <2>1, <2>3, <2>4, <2>5, DigitOrder
<1>7. P \subseteq Nat
  OBVIOUS
<1> HIDE DEF P
<1>8. P = Nat
  BY <1>5, <1>6, <1>7, SetInduction
<1>9. h[Width] <= t[Width]
  BY <1>0, <1>8 DEF P
<1>10. U64Max = t[Width]
  BY <1>3 DEF U64Max
<1> QED
  BY <1>0, <1>2, <1>4, <1>9, <1>10

\* Two integer fields of a key with the same value have the same bytes.
LEMMA FromLeUnique ==
  ASSUME NEW a \in Bytes, NEW b \in Bytes, FromLe(a) = FromLe(b)
  PROVE  a = b
<1>0. Base \in Nat /\ Base > 1 /\ Width \in Nat /\ Width > 0
  BY KeyBytesConstants
<1>1. PICK h : Reads(a, h) /\ FromLe(a) = h[Width]
  BY FromLeUnfolds
<1>2. PICK g : Reads(b, g) /\ FromLe(b) = g[Width]
  BY FromLeUnfolds
<1>3. h \in [0 .. Width -> Nat] /\ g \in [0 .. Width -> Nat]
  BY <1>1, <1>2 DEF Reads
<1>4. ASSUME NEW i \in 1 .. Width, h[i] = g[i]
      PROVE  h[i - 1] = g[i - 1] /\ a[Width - i + 1] = b[Width - i + 1]
  <2> DEFINE k == Width - i + 1
  <2>1. k \in 1 .. Width /\ i - 1 \in 0 .. Width
    BY <1>0
  <2>2. h[i] = a[k] + Base * h[i - 1] /\ g[i] = b[k] + Base * g[i - 1]
    BY <1>1, <1>2 DEF Reads
  <2>3. a[k] \in Byte /\ b[k] \in Byte
    BY <2>1 DEF Bytes
  <2>4. h[i - 1] \in Nat /\ g[i - 1] \in Nat
    BY <1>3, <2>1
  <2> HIDE DEF k
  <2>5. a[k] = b[k] /\ h[i - 1] = g[i - 1]
    <3>1. a[k] + Base * h[i - 1] = b[k] + Base * g[i - 1]
      BY <1>4, <2>2
    <3> QED
      BY <2>3, <2>4, <3>1, DigitsUnique
  <2> QED
    BY <2>5 DEF k
<1> DEFINE P == {n \in Nat : n <= Width => h[Width - n] = g[Width - n]}
<1>5. 0 \in P
  <2>1. Width - 0 = Width
    BY <1>0
  <2>2. h[Width] = g[Width]
    BY <1>1, <1>2, Zenon
  <2> QED
    BY <2>1, <2>2
<1>6. ASSUME NEW n \in P PROVE n + 1 \in P
  <2> SUFFICES ASSUME n + 1 <= Width PROVE h[Width - (n + 1)] = g[Width - (n + 1)]
    OBVIOUS
  <2>1. Width - n \in 1 .. Width /\ (Width - n) - 1 = Width - (n + 1) /\ h[Width - n] = g[Width - n]
    BY <1>0
  <2> QED
    BY <1>4, <2>1
<1>7. P \subseteq Nat
  OBVIOUS
<1> HIDE DEF P
<1>8. P = Nat
  BY <1>5, <1>6, <1>7, SetInduction
<1>9. ASSUME NEW j \in 1 .. Width PROVE a[j] = b[j]
  <2>1. j - 1 \in Nat /\ j - 1 <= Width /\ Width - (j - 1) = Width - j + 1
        /\ Width - j + 1 \in 1 .. Width /\ Width - (Width - j + 1) + 1 = j
    BY <1>0
  <2>2. h[Width - j + 1] = g[Width - j + 1]
    BY <1>8, <2>1 DEF P
  <2> QED
    BY <1>4, <2>1, <2>2
<1>10. a = [j \in 1 .. Width |-> a[j]] /\ b = [j \in 1 .. Width |-> b[j]]
  BY DEF Bytes
<1> QED
  BY <1>9, <1>10

\* from_le_bytes reads back what to_le_bytes wrote.
LEMMA LeBytes ==
  ASSUME NEW n \in Nat
  PROVE  Le(n) \in Bytes
<1>1. PICK r : Divides(n, r) /\ Le(n) = [i \in 1 .. Width |-> r[i - 1] % Base]
  BY LeUnfolds
<1>2. ASSUME NEW i \in 1 .. Width PROVE r[i - 1] % Base \in Byte
  <2>1. i - 1 \in 0 .. Width
    BY KeyBytesConstants
  <2>2. r[i - 1] \in Nat
    BY <1>1, <2>1 DEF Divides
  <2> QED
    BY <2>2, Euclid
<1> QED
  BY <1>1, <1>2 DEF Bytes

\* to_le_bytes and from_le_bytes: an integer within the width is read as written.
LEMMA RoundTrip ==
  ASSUME NEW n \in Nat, n <= U64Max
  PROVE  FromLe(Le(n)) = n
<1>0. Base \in Nat /\ Base > 1 /\ Width \in Nat /\ Width > 0
  BY KeyBytesConstants
<1> DEFINE top == [i \in 1 .. Width |-> Base - 1]
<1>1. top \in Bytes
  BY <1>0 DEF Bytes, Byte
<1>2. PICK r : Divides(n, r) /\ Le(n) = [i \in 1 .. Width |-> r[i - 1] % Base]
  BY LeUnfolds
<1>3. PICK t : Reads(top, t) /\ FromLe(top) = t[Width]
  BY <1>1, FromLeUnfolds
<1>4. PICK h : Reads(Le(n), h) /\ FromLe(Le(n)) = h[Width]
  BY LeBytes, FromLeUnfolds
<1>5. h \in [0 .. Width -> Nat] /\ t \in [0 .. Width -> Nat] /\ r \in [0 .. Width -> Nat]
  BY <1>2, <1>3, <1>4 DEF Reads, Divides
<1>6. \A i \in 0 .. Width : r[i] <= t[Width - i]
  <2> DEFINE P == {i \in Nat : i <= Width => r[i] <= t[Width - i]}
  <2>1. 0 \in P
    <3>1. U64Max = t[Width]
      BY <1>3 DEF U64Max
    <3> QED
      BY <1>0, <1>2, <3>1 DEF Divides
  <2>2. ASSUME NEW i \in P PROVE i + 1 \in P
    <3> SUFFICES ASSUME i + 1 <= Width PROVE r[i + 1] <= t[Width - (i + 1)]
      OBVIOUS
    <3>1. /\ i + 1 \in 1 .. Width /\ (i + 1) - 1 = i /\ i \in 0 .. Width /\ r[i] <= t[Width - i]
          /\ Width - i \in 1 .. Width /\ (Width - i) - 1 = Width - (i + 1) /\ Width - (i + 1) \in 0 .. Width
          /\ Width - (Width - i) + 1 \in 1 .. Width /\ i + 1 \in 0 .. Width
      BY <1>0
    <3>2. r[i + 1] = r[i] \div Base
      BY <1>2, <3>1 DEF Divides
    <3>3. t[Width - i] = (Base - 1) + Base * t[Width - (i + 1)]
      <4>1. t[Width - i] = top[Width - (Width - i) + 1] + Base * t[Width - (i + 1)]
        <5> HIDE DEF top
        <5> QED
          BY <1>3, <3>1 DEF Reads
      <4>2. top[Width - (Width - i) + 1] = Base - 1
        BY <3>1
      <4> QED
        BY <4>1, <4>2
    <3>4. r[i] \in Nat /\ r[i + 1] \in Nat /\ t[Width - (i + 1)] \in Nat
      BY <1>5, <3>1
    <3>5. r[i] = (r[i] % Base) + Base * r[i + 1] /\ r[i] % Base \in Byte /\ Base - 1 \in Byte
      <4>1. r[i] = (r[i] % Base) + Base * (r[i] \div Base) /\ r[i] % Base \in Byte
        BY <3>4, Euclid
      <4>2. Base - 1 \in Byte
        BY <1>0 DEF Byte
      <4> QED
        BY <3>2, <4>1, <4>2
    <3>6. (r[i] % Base) + Base * r[i + 1] <= (Base - 1) + Base * t[Width - (i + 1)]
      BY <3>1, <3>3, <3>5
    <3> DEFINE d == r[i] % Base
               x == r[i + 1]
               y == t[Width - (i + 1)]
    <3>7. d \in Byte /\ x \in Nat /\ y \in Nat /\ d + Base * x <= (Base - 1) + Base * y
      BY <3>4, <3>5, <3>6
    <3> HIDE DEF d, x, y
    <3>8. ~(y < x)
      <4>1. y < x => (Base - 1) + Base * y < d + Base * x
        BY <3>5, <3>7, DigitOrder
      <4>2. Base * y \in Nat /\ Base * x \in Nat /\ d \in Nat
        BY <1>0, <3>7 DEF Byte
      <4> QED
        BY <1>0, <3>7, <4>1, <4>2
    <3> QED
      BY <3>7, <3>8 DEF x, y
  <2>3. P \subseteq Nat
    OBVIOUS
  <2> HIDE DEF P
  <2>4. P = Nat
    BY <2>1, <2>2, <2>3, SetInduction
  <2> QED
    BY <1>0, <2>4 DEF P
<1>7. \A i \in 0 .. Width : h[i] = r[Width - i]
  <2> DEFINE P == {i \in Nat : i <= Width => h[i] = r[Width - i]}
  <2>1. 0 \in P
    <3>1. Width \in 0 .. Width /\ Width - Width = 0 /\ Width - 0 = Width
      BY <1>0
    <3>2. r[Width] <= t[0] /\ t[0] = 0 /\ h[0] = 0 /\ r[Width] \in Nat
      BY <1>3, <1>4, <1>5, <1>6, <3>1 DEF Reads
    <3> QED
      BY <3>1, <3>2
  <2>2. ASSUME NEW i \in P PROVE i + 1 \in P
    <3> SUFFICES ASSUME i + 1 <= Width PROVE h[i + 1] = r[Width - (i + 1)]
      OBVIOUS
    <3> DEFINE k == Width - (i + 1) + 1
    <3>1. /\ i + 1 \in 1 .. Width /\ (i + 1) - 1 = i /\ h[i] = r[Width - i] /\ k \in 1 .. Width
          /\ k = Width - i /\ k - 1 = Width - (i + 1) /\ k - 1 \in 0 .. Width
      BY <1>0
    <3>2. h[i + 1] = Le(n)[k] + Base * h[i]
      BY <1>4, <3>1 DEF Reads
    <3>3. Le(n)[k] = r[k - 1] % Base /\ r[k] = r[k - 1] \div Base
      <4> HIDE DEF k
      <4> QED
        BY <1>2, <3>1 DEF Divides
    <3>4. r[k - 1] \in Nat
      BY <1>5, <3>1
    <3>5. r[k - 1] = (r[k - 1] % Base) + Base * (r[k - 1] \div Base)
      BY <3>4, Euclid
    <3> HIDE DEF k
    <3>6. h[i] = r[k]
      BY <3>1
    <3>7. h[i + 1] = (r[k - 1] % Base) + Base * (r[k - 1] \div Base)
      BY <3>2, <3>3, <3>6
    <3> QED
      BY <3>1, <3>5, <3>7
  <2>3. P \subseteq Nat
    OBVIOUS
  <2> HIDE DEF P
  <2>4. P = Nat
    BY <2>1, <2>2, <2>3, SetInduction
  <2> QED
    BY <1>0, <2>4 DEF P
<1> QED
  <2>1. Width \in 0 .. Width /\ Width - Width = 0
    BY <1>0
  <2> QED
    BY <1>2, <1>4, <1>7, <2>1 DEF Divides

-----------------------------------------------------------------------------
(* The order of the keys                                                   *)

\* Where two byte strings part: a has ended, or its byte is the smaller.
Parts(a, b, i) ==
    /\ i \in 1 .. Len(a) + 1 /\ i <= Len(b)
    /\ \A j \in 1 .. i - 1 : a[j] = b[j]
    /\ i = Len(a) + 1 \/ a[i] < b[i]

\* A byte string is a function from its positions to bytes.
LEMMA ByteString ==
  ASSUME NEW a \in Seq(Byte)
  PROVE  /\ Len(a) \in Nat /\ DOMAIN a = 1 .. Len(a) /\ a = [i \in 1 .. Len(a) |-> a[i]]
         /\ \A i \in 1 .. Len(a) : a[i] \in Byte /\ a[i] \in Int
BY KeyBytesConstants DEF Byte

\* memcmp: one string is less where the two first part, or where it ends.
LEMMA MemLessParts ==
  ASSUME NEW a \in Seq(Byte), NEW b \in Seq(Byte)
  PROVE  MemLess(a, b) <=> \E i \in Nat : Parts(a, b, i)
<1>0. /\ Len(a) \in Nat /\ Len(b) \in Nat /\ DOMAIN a = 1 .. Len(a) /\ DOMAIN b = 1 .. Len(b)
      /\ \A i \in 1 .. Len(a) : a[i] \in Byte
      /\ \A i \in 1 .. Len(b) : b[i] \in Byte
  OBVIOUS
<1>1. ASSUME IsStrictPrefix(a, b) PROVE Parts(a, b, Len(a) + 1)
  <2>1. Len(a) <= Len(b) /\ SubSeq(a, 1, Len(a)) = SubSeq(b, 1, Len(a)) /\ a # b
    BY <1>1 DEF IsStrictPrefix, IsPrefix
  <2>2. \A j \in 1 .. Len(a) : a[j] = b[j]
    <3> SUFFICES ASSUME NEW j \in 1 .. Len(a) PROVE a[j] = b[j]
      OBVIOUS
    <3>1. SubSeq(a, 1, Len(a))[j] = a[j]
      BY <1>0
    <3>2. SubSeq(b, 1, Len(a))[j] = b[j]
      BY <1>0, <2>1
    <3> QED
      BY <2>1, <3>1, <3>2
  <2>3. Len(a) # Len(b)
    <3> SUFFICES ASSUME Len(a) = Len(b) PROVE FALSE
      OBVIOUS
    <3>1. a = [j \in 1 .. Len(a) |-> a[j]] /\ b = [j \in 1 .. Len(a) |-> b[j]]
      BY <1>0
    <3> QED
      BY <2>1, <2>2, <3>1
  <2>4. Len(a) + 1 \in 1 .. Len(a) + 1 /\ Len(a) + 1 <= Len(b) /\ (Len(a) + 1) - 1 = Len(a)
    <3>1. Len(a) \in Nat /\ Len(b) \in Nat /\ Len(a) <= Len(b) /\ Len(a) # Len(b)
      BY <1>0, <2>1, <2>3, Zenon
    <3> QED
      BY <3>1
  <2> QED
    BY <2>2, <2>4 DEF Parts
<1>2. ASSUME NEW i \in Nat, Parts(a, b, i), i = Len(a) + 1 PROVE IsStrictPrefix(a, b)
  <2>1. Len(a) < Len(b) /\ \A j \in 1 .. Len(a) : a[j] = b[j]
    BY <1>0, <1>2 DEF Parts
  <2>2. SubSeq(a, 1, Len(a)) = [j \in 1 .. Len(a) |-> a[j]] /\ SubSeq(b, 1, Len(a)) = [j \in 1 .. Len(a) |-> b[j]]
    BY <1>0, <2>1
  <2>3. SubSeq(a, 1, Len(a)) = SubSeq(b, 1, Len(a))
    BY <2>1, <2>2
  <2> QED
    BY <1>0, <2>1, <2>3 DEF IsStrictPrefix, IsPrefix
<1>3. ASSUME NEW i \in DOMAIN a \cap DOMAIN b, a[i] < b[i], \A j \in 1 .. i - 1 : a[j] = b[j]
      PROVE  Parts(a, b, i)
  BY <1>0, <1>3 DEF Parts
<1>4. ASSUME NEW i \in Nat, Parts(a, b, i), i # Len(a) + 1
      PROVE  i \in DOMAIN a \cap DOMAIN b /\ a[i] < b[i] /\ \A j \in 1 .. i - 1 : a[j] = b[j]
  BY <1>0, <1>4 DEF Parts
<1>5. \A i \in DOMAIN a : i \in Nat
  BY <1>0
<1>6. Len(a) + 1 \in Nat
  BY <1>0
<1>7. ASSUME MemLess(a, b) PROVE \E i \in Nat : Parts(a, b, i)
  <2>1. CASE IsStrictPrefix(a, b)
    BY <1>1, <1>6, <2>1
  <2>2. CASE \E i \in DOMAIN a \cap DOMAIN b : a[i] < b[i] /\ \A j \in 1 .. i - 1 : a[j] = b[j]
    BY <1>3, <1>5, <2>2
  <2> QED
    BY <1>7, <2>1, <2>2 DEF MemLess
<1>8. ASSUME NEW i \in Nat, Parts(a, b, i) PROVE MemLess(a, b)
  BY <1>2, <1>4, <1>8 DEF MemLess
<1> QED
  BY <1>7, <1>8

\* mdb_cmp_memn is a strict total order.
LEMMA MemLessOrder ==
  ASSUME NEW a \in Seq(Byte), NEW b \in Seq(Byte)
  PROVE  /\ ~MemLess(a, a)
         /\ MemLess(a, b) => ~MemLess(b, a)
         /\ a # b => MemLess(a, b) \/ MemLess(b, a)
<1>0. /\ Len(a) \in Nat /\ Len(b) \in Nat /\ DOMAIN a = 1 .. Len(a) /\ DOMAIN b = 1 .. Len(b)
      /\ \A i \in 1 .. Len(a) : a[i] \in Int
      /\ \A i \in 1 .. Len(b) : b[i] \in Int
  BY KeyBytesConstants DEF Byte
<1>1. ~MemLess(a, a)
  <2> SUFFICES ASSUME NEW i \in Nat, Parts(a, a, i) PROVE FALSE
    BY MemLessParts
  <2> QED
    BY <1>0 DEF Parts
<1>2. ASSUME NEW i \in Nat, Parts(a, b, i), NEW k \in Nat, Parts(b, a, k) PROVE FALSE
  <2>1. CASE i < k
    BY <1>0, <1>2, <2>1 DEF Parts
  <2>2. CASE k < i
    BY <1>0, <1>2, <2>2 DEF Parts
  <2>3. CASE i = k
    BY <1>0, <1>2, <2>3 DEF Parts
  <2> QED
    BY <2>1, <2>2, <2>3
<1>3. ASSUME a # b PROVE MemLess(a, b) \/ MemLess(b, a)
  <2> DEFINE T == {i \in Nat : i >= 1 /\ (i > Len(a) \/ i > Len(b) \/ a[i] # b[i])}
  <2>1. Len(a) + 1 \in T
    BY <1>0
  <2>2. T \subseteq Nat
    OBVIOUS
  <2>3. PICK i \in T : \A j \in T : i <= j
    <3> HIDE DEF T
    <3> QED
      BY <2>1, <2>2, LeastMember
  <2>4. i \in Nat /\ i >= 1 /\ (i > Len(a) \/ i > Len(b) \/ a[i] # b[i])
    OBVIOUS
  <2>5. ASSUME NEW j \in 1 .. i - 1 PROVE j <= Len(a) /\ j <= Len(b) /\ a[j] = b[j]
    <3>1. j \in Nat /\ j >= 1 /\ ~(i <= j)
      BY <2>4
    <3>2. j \notin T
      BY <2>3, <3>1
    <3> QED
      BY <1>0, <3>1, <3>2
  <2>6. i <= Len(a) + 1 /\ i <= Len(b) + 1
    <3>1. i - 1 >= 1 => i - 1 <= Len(a) /\ i - 1 <= Len(b)
      BY <2>4, <2>5
    <3> QED
      BY <1>0, <2>4, <3>1
  <2>7. CASE i > Len(a) /\ i > Len(b)
    <3>1. Len(a) = i - 1 /\ Len(b) = i - 1
      BY <1>0, <2>4, <2>6, <2>7
    <3>2. a = [j \in 1 .. i - 1 |-> a[j]] /\ b = [j \in 1 .. i - 1 |-> b[j]]
      BY <1>0, <3>1
    <3> QED
      BY <1>3, <2>5, <3>2
  <2>8. CASE i > Len(a) /\ i <= Len(b)
    <3>1. Parts(a, b, i)
      BY <1>0, <2>4, <2>5, <2>6, <2>8 DEF Parts
    <3> QED
      BY <2>4, <3>1, MemLessParts
  <2>9. CASE i <= Len(a) /\ i > Len(b)
    <3>1. Parts(b, a, i)
      BY <1>0, <2>4, <2>5, <2>6, <2>9 DEF Parts
    <3> QED
      BY <2>4, <3>1, MemLessParts
  <2>10. CASE i <= Len(a) /\ i <= Len(b)
    <3>1. a[i] \in Int /\ b[i] \in Int /\ a[i] # b[i]
      BY <1>0, <2>4, <2>10
    <3>2. CASE a[i] < b[i]
      <4>1. Parts(a, b, i)
        BY <1>0, <2>4, <2>5, <2>6, <2>10, <3>2 DEF Parts
      <4> QED
        BY <2>4, <4>1, MemLessParts
    <3>3. CASE b[i] < a[i]
      <4>1. Parts(b, a, i)
        BY <1>0, <2>4, <2>5, <2>6, <2>10, <3>3 DEF Parts
      <4> QED
        BY <2>4, <4>1, MemLessParts
    <3> QED
      BY <3>1, <3>2, <3>3
  <2> QED
    BY <1>0, <2>4, <2>7, <2>8, <2>9, <2>10
<1> QED
  BY <1>1, <1>2, <1>3, MemLessParts

\* memcmp is transitive.
LEMMA MemLessTransitive ==
  ASSUME NEW a \in Seq(Byte), NEW b \in Seq(Byte), NEW c \in Seq(Byte), MemLess(a, b), MemLess(b, c)
  PROVE  MemLess(a, c)
<1>0. /\ Len(a) \in Nat /\ Len(b) \in Nat /\ Len(c) \in Nat
      /\ \A i \in 1 .. Len(a) : a[i] \in Int
      /\ \A i \in 1 .. Len(b) : b[i] \in Int
      /\ \A i \in 1 .. Len(c) : c[i] \in Int
  BY ByteString
<1>1. PICK i \in Nat : Parts(a, b, i)
  BY MemLessParts
<1>2. PICK k \in Nat : Parts(b, c, k)
  BY MemLessParts
<1>3. CASE i < k
  <2>1. Parts(a, c, i)
    BY <1>0, <1>1, <1>2, <1>3 DEF Parts
  <2> QED
    BY <2>1, MemLessParts
<1>4. CASE i >= k
  <2>1. Parts(a, c, k)
    <3>1. k \in 1 .. Len(b) + 1 /\ k <= Len(c) /\ i <= Len(b) /\ i \in 1 .. Len(a) + 1
      BY <1>1, <1>2 DEF Parts
    <3>2. k \in 1 .. Len(a) + 1
      BY <1>0, <1>4, <3>1
    <3>3. \A j \in 1 .. k - 1 : a[j] = b[j] /\ b[j] = c[j]
      BY <1>0, <1>1, <1>2, <1>4 DEF Parts
    <3>4. b[k] < c[k]
      BY <1>0, <1>2, <1>4, <3>1 DEF Parts
    <3>5. k = Len(a) + 1 \/ (k <= Len(a) /\ (a[k] = b[k] \/ a[k] < b[k]))
      BY <1>0, <1>1, <1>4, <3>1, <3>2 DEF Parts
    <3>6. k = Len(a) + 1 \/ a[k] < c[k]
      <4>1. k \in 1 .. Len(b) /\ k \in 1 .. Len(c)
        BY <1>0, <1>4, <3>1
      <4> QED
        BY <1>0, <3>2, <3>4, <3>5, <4>1
    <3> QED
      BY <3>1, <3>2, <3>3, <3>6 DEF Parts
  <2> QED
    BY <2>1, MemLessParts
<1> QED
  BY <1>3, <1>4

\* A byte string that is long enough for the integers of the index.
IsKey(index, k) ==
    index \in EventIndexes /\ k \in Seq(Byte) /\ Len(k) >= TrailingIntegers(index) * Width

\* The parts of a key: its string, its first integer where there are two, its timestamp.
Str(index, k) == SubSeq(k, 1, Len(k) - TrailingIntegers(index) * Width)
Major(index, k) == IF TrailingIntegers(index) = 2 THEN Integer(k, 1) ELSE 0

\* A key ends with one or two integers, as its comparator's name says.
LEMMA Trailing ==
  ASSUME NEW index \in EventIndexes
  PROVE  TrailingIntegers(index) \in {1, 2}
BY DEF EventIndexes, TrailingIntegers

\* Width bytes of a string.
LEMMA DigitsOf ==
  ASSUME NEW k \in Seq(Byte), NEW p \in Nat, p + Width <= Len(k)
  PROVE  /\ SubSeq(k, p + 1, p + Width) \in Bytes
         /\ \A j \in 1 .. Width : SubSeq(k, p + 1, p + Width)[j] = k[p + j]
<1>0. Width \in Nat /\ Width > 0 /\ Len(k) \in Nat
  BY KeyBytesConstants
<1> DEFINE s == SubSeq(k, p + 1, p + Width)
<1>1. s = [j \in 1 .. Width |-> k[p + j]]
  <2>1. p + 1 \in Nat /\ p + Width \in Nat /\ (p + Width) - (p + 1) + 1 = Width
    BY <1>0
  <2>2. s \in Seq(Byte) /\ Len(s) = Width
    BY <1>0, <2>1
  <2>3. ASSUME NEW j \in 1 .. Width PROVE s[j] = k[p + j]
    <3>1. (p + 1) + j - 1 = p + j
      BY <1>0
    <3>2. s[j] = k[(p + 1) + j - 1]
      BY <1>0, <2>1
    <3> QED
      BY <3>1, <3>2
  <2> HIDE DEF s
  <2>4. s = [j \in 1 .. Width |-> s[j]]
    BY <2>2
  <2> QED
    BY <2>3, <2>4
<1>2. \A j \in 1 .. Width : k[p + j] \in Byte
  <2> SUFFICES ASSUME NEW j \in 1 .. Width PROVE k[p + j] \in Byte
    OBVIOUS
  <2>1. p + j \in 1 .. Len(k)
    BY <1>0
  <2> QED
    BY <2>1
<1> HIDE DEF s
<1>3. s \in Bytes /\ \A j \in 1 .. Width : s[j] = k[p + j]
  BY <1>1, <1>2 DEF Bytes
<1> QED
  BY <1>3 DEF s

\* The parts of a key that the comparators look at, and their types.
LEMMA KeyParts ==
  ASSUME NEW index, NEW k, IsKey(index, k)
  PROVE  /\ Len(k) \in Nat /\ Len(k) >= Width /\ Width \in Nat /\ Width > 0 /\ U64Max \in Nat
         /\ Str(index, k) \in Seq(Byte) /\ Len(Str(index, k)) = Len(k) - TrailingIntegers(index) * Width
         /\ \A j \in 1 .. Len(k) - TrailingIntegers(index) * Width : Str(index, k)[j] = k[j]
         /\ CreatedAt(k) \in Nat /\ CreatedAt(k) <= U64Max
         /\ Major(index, k) \in Nat
<1>0. Width \in Nat /\ Width > 0 /\ Len(k) \in Nat /\ k \in Seq(Byte) /\ index \in EventIndexes
  BY KeyBytesConstants DEF IsKey
<1> DEFINE n == TrailingIntegers(index)
<1>1. n \in {1, 2} /\ n * Width <= Len(k)
  BY <1>0, Trailing DEF IsKey
<1>2. n * Width \in Nat /\ n * Width >= Width /\ (n = 2 => Len(k) - 2 * Width \in Nat)
  BY <1>0, <1>1
<1> HIDE DEF n
<1>3. CreatedAt(k) \in Nat /\ CreatedAt(k) <= U64Max /\ U64Max \in Nat
  <2> DEFINE p == Len(k) - Width
  <2>1. p \in Nat /\ p + Width <= Len(k) /\ Len(k) - (0 + 1) * Width + 1 = p + 1 /\ Len(k) - 0 * Width = p + Width
    BY <1>0, <1>1, <1>2
  <2>2. CreatedAt(k) = FromLe(SubSeq(k, p + 1, p + Width))
    BY <2>1 DEF CreatedAt, Integer
  <2> HIDE DEF p
  <2>3. SubSeq(k, p + 1, p + Width) \in Bytes
    BY <1>0, <2>1, DigitsOf
  <2> QED
    BY <2>2, <2>3, FromLeRange
<1>4. Major(index, k) \in Nat
  <2>1. CASE n = 2
    <3> DEFINE p == Len(k) - 2 * Width
    <3>1. /\ p \in Nat /\ p + Width <= Len(k) /\ Len(k) - (1 + 1) * Width + 1 = p + 1
          /\ Len(k) - 1 * Width = p + Width
      BY <1>0, <1>2, <2>1
    <3>2. Integer(k, 1) = FromLe(SubSeq(k, p + 1, p + Width))
      BY <3>1 DEF Integer
    <3> HIDE DEF p
    <3>3. SubSeq(k, p + 1, p + Width) \in Bytes
      BY <1>0, <3>1, DigitsOf
    <3> QED
      BY <2>1, <3>2, <3>3, FromLeRange DEF Major, n
  <2>2. CASE n # 2
    BY <2>2 DEF Major, n
  <2> QED
    BY <2>1, <2>2
<1>5. /\ Str(index, k) \in Seq(Byte) /\ Len(Str(index, k)) = Len(k) - n * Width
      /\ \A j \in 1 .. Len(k) - n * Width : Str(index, k)[j] = k[j]
  <2> DEFINE m == Len(k) - n * Width
  <2>1. m \in Nat /\ m <= Len(k)
    BY <1>0, <1>1, <1>2
  <2>2. Str(index, k) = SubSeq(k, 1, m)
    BY DEF Str, n
  <2> HIDE DEF m
  <2>3. SubSeq(k, 1, m) \in Seq(Byte) /\ Len(SubSeq(k, 1, m)) = m /\ \A j \in 1 .. m : SubSeq(k, 1, m)[j] = k[j]
    BY <1>0, <2>1
  <2> QED
    BY <2>2, <2>3 DEF m
<1> QED
  BY <1>0, <1>1, <1>2, <1>3, <1>4, <1>5 DEF n

\* A key is determined by its parts.
LEMMA KeyUnique ==
  ASSUME NEW index, NEW a, NEW b, IsKey(index, a), IsKey(index, b),
         Str(index, a) = Str(index, b), Major(index, a) = Major(index, b), CreatedAt(a) = CreatedAt(b)
  PROVE  a = b
<1>0. /\ Width \in Nat /\ Width > 0 /\ a \in Seq(Byte) /\ b \in Seq(Byte) /\ index \in EventIndexes
      /\ Len(a) \in Nat /\ Len(b) \in Nat
  BY KeyBytesConstants DEF IsKey
<1> DEFINE n == TrailingIntegers(index)
           L == Len(a)
<1>1. n \in {1, 2} /\ n * Width <= Len(a) /\ n * Width \in Nat
  <2>1. n \in {1, 2}
    BY <1>0, Trailing
  <2> QED
    BY <1>0, <2>1 DEF IsKey
<1>2. Len(b) = L
  <2>1. Len(a) - n * Width = Len(b) - n * Width
    BY KeyParts
  <2> QED
    BY <1>0, <1>1, <2>1
<1>3. \A j \in 1 .. L - n * Width : a[j] = b[j]
  <2>1. \A j \in 1 .. Len(a) - n * Width : Str(index, a)[j] = a[j]
    BY KeyParts
  <2>2. \A j \in 1 .. Len(b) - n * Width : Str(index, b)[j] = b[j]
    BY KeyParts
  <2> QED
    BY <1>2, <2>1, <2>2
<1>4. ASSUME NEW p \in Nat, p + Width <= L,
             FromLe(SubSeq(a, p + 1, p + Width)) = FromLe(SubSeq(b, p + 1, p + Width))
      PROVE  \A j \in 1 .. Width : a[p + j] = b[p + j]
  <2>1. SubSeq(a, p + 1, p + Width) \in Bytes /\ \A j \in 1 .. Width : SubSeq(a, p + 1, p + Width)[j] = a[p + j]
    BY <1>0, <1>4, DigitsOf
  <2>2. SubSeq(b, p + 1, p + Width) \in Bytes /\ \A j \in 1 .. Width : SubSeq(b, p + 1, p + Width)[j] = b[p + j]
    <3>1. p + Width <= Len(b)
      BY <1>2, <1>4
    <3> QED
      BY <1>0, <3>1, DigitsOf
  <2>3. SubSeq(a, p + 1, p + Width) = SubSeq(b, p + 1, p + Width)
    BY <1>4, <2>1, <2>2, FromLeUnique
  <2> QED
    BY <2>1, <2>2, <2>3
<1>5. \A j \in 1 .. Width : a[(L - Width) + j] = b[(L - Width) + j]
  <2>1. L - Width \in Nat /\ (L - Width) + Width <= L
    BY <1>0, <1>1
  <2>2. /\ L - (0 + 1) * Width + 1 = (L - Width) + 1 /\ L - 0 * Width = (L - Width) + Width
    BY <1>0, <1>1
  <2>3. FromLe(SubSeq(a, (L - Width) + 1, (L - Width) + Width)) = FromLe(SubSeq(b, (L - Width) + 1, (L - Width) + Width))
    BY <1>2, <2>2 DEF CreatedAt, Integer
  <2> QED
    BY <1>4, <2>1, <2>3
<1>6. n = 2 => \A j \in 1 .. Width : a[(L - 2 * Width) + j] = b[(L - 2 * Width) + j]
  <2> SUFFICES ASSUME n = 2 PROVE \A j \in 1 .. Width : a[(L - 2 * Width) + j] = b[(L - 2 * Width) + j]
    OBVIOUS
  <2>1. L - 2 * Width \in Nat /\ (L - 2 * Width) + Width <= L
    BY <1>0, <1>1
  <2>2. /\ L - (1 + 1) * Width + 1 = (L - 2 * Width) + 1 /\ L - 1 * Width = (L - 2 * Width) + Width
    BY <1>0, <1>1
  <2>3. Integer(a, 1) = Integer(b, 1)
    BY DEF Major
  <2>4. FromLe(SubSeq(a, (L - 2 * Width) + 1, (L - 2 * Width) + Width))
          = FromLe(SubSeq(b, (L - 2 * Width) + 1, (L - 2 * Width) + Width))
    BY <1>2, <2>2, <2>3 DEF Integer
  <2> QED
    BY <1>4, <2>1, <2>4
<1> HIDE DEF n
<1>7. ASSUME NEW i \in 1 .. L PROVE a[i] = b[i]
  <2>1. CASE i <= L - n * Width
    BY <1>0, <1>1, <1>3, <2>1
  <2>2. CASE i > L - Width
    <3>1. i - (L - Width) \in 1 .. Width /\ (L - Width) + (i - (L - Width)) = i
      BY <1>0, <2>2
    <3> QED
      BY <1>5, <3>1
  <2>3. CASE i > L - n * Width /\ i <= L - Width
    <3>0. n = 2
      BY <1>0, <1>1, <2>3
    <3>1. i - (L - 2 * Width) \in 1 .. Width /\ (L - 2 * Width) + (i - (L - 2 * Width)) = i
      BY <1>0, <2>3, <3>0
    <3> QED
      BY <1>6, <3>0, <3>1
  <2> QED
    BY <1>0, <1>1, <2>1, <2>2, <2>3
<1> QED
  <2>1. a = [i \in 1 .. L |-> a[i]] /\ b = [i \in 1 .. L |-> b[i]]
    BY <1>0, <1>2
  <2> QED
    BY <1>7, <2>1

\* The comparators compare the parts one after the other.
LEMMA LessByParts ==
  ASSUME NEW index, NEW a, NEW b, IsKey(index, a), IsKey(index, b)
  PROVE  Less(index, a, b) <=>
            \/ MemLess(Str(index, a), Str(index, b))
            \/ /\ Str(index, a) = Str(index, b)
               /\ \/ Major(index, a) < Major(index, b)
                  \/ Major(index, a) = Major(index, b) /\ CreatedAt(a) < CreatedAt(b)
<1> DEFINE n == TrailingIntegers(index)
           Later == \E i \in 0 .. n - 1 : /\ Integer(a, i) < Integer(b, i)
                                          /\ \A j \in i + 1 .. n - 1 : Integer(a, j) = Integer(b, j)
<1>0. n \in {1, 2}
  BY Trailing DEF IsKey
<1>1. Less(index, a, b) <=> MemLess(Str(index, a), Str(index, b)) \/ (Str(index, a) = Str(index, b) /\ Later)
  BY DEF Less, Str
<1>2. CASE n = 1
  <2>1. Later <=> CreatedAt(a) < CreatedAt(b)
    BY <1>2 DEF CreatedAt
  <2>2. Major(index, a) = 0 /\ Major(index, b) = 0
    BY <1>2 DEF Major
  <2> HIDE DEF Later
  <2> QED
    BY <1>1, <2>1, <2>2
<1>3. CASE n = 2
  <2>1. 0 .. n - 1 = {0, 1} /\ 0 + 1 .. n - 1 = {1} /\ 1 + 1 .. n - 1 = {}
    BY <1>3
  <2>2. Later <=> Integer(a, 1) < Integer(b, 1) \/ (Integer(a, 1) = Integer(b, 1) /\ Integer(a, 0) < Integer(b, 0))
    BY <2>1
  <2>3. Major(index, a) = Integer(a, 1) /\ Major(index, b) = Integer(b, 1)
    BY <1>3 DEF Major
  <2> HIDE DEF Later
  <2> QED
    BY <1>1, <2>2, <2>3 DEF CreatedAt
<1> QED
  BY <1>0, <1>2, <1>3

\* They are strict total orders.
LEMMA LessOrder ==
  ASSUME NEW index, NEW a, NEW b, IsKey(index, a), IsKey(index, b)
  PROVE  /\ ~Less(index, a, a)
         /\ Less(index, a, b) => ~Less(index, b, a)
         /\ a # b => Less(index, a, b) \/ Less(index, b, a)
<1> DEFINE s == Str(index, a)
           t == Str(index, b)
<1>1. /\ s \in Seq(Byte) /\ Major(index, a) \in Nat /\ CreatedAt(a) \in Nat
      /\ t \in Seq(Byte) /\ Major(index, b) \in Nat /\ CreatedAt(b) \in Nat
  BY KeyParts
<1>2. ~MemLess(s, s) /\ ~MemLess(t, t) /\ (MemLess(s, t) => ~MemLess(t, s)) /\ (s # t => MemLess(s, t) \/ MemLess(t, s))
  BY <1>1, MemLessOrder
<1>3. s = t /\ Major(index, a) = Major(index, b) /\ CreatedAt(a) = CreatedAt(b) => a = b
  BY KeyUnique
<1> HIDE DEF s, t
<1>4. Less(index, a, b) <=>
         \/ MemLess(s, t)
         \/ s = t /\ (Major(index, a) < Major(index, b) \/ (Major(index, a) = Major(index, b) /\ CreatedAt(a) < CreatedAt(b)))
  BY LessByParts DEF s, t
<1>5. Less(index, b, a) <=>
         \/ MemLess(t, s)
         \/ t = s /\ (Major(index, b) < Major(index, a) \/ (Major(index, b) = Major(index, a) /\ CreatedAt(b) < CreatedAt(a)))
  BY LessByParts DEF s, t
<1>6. ~Less(index, a, a)
  <2>1. Less(index, a, a) <=>
         \/ MemLess(s, s)
         \/ s = s /\ (Major(index, a) < Major(index, a) \/ (Major(index, a) = Major(index, a) /\ CreatedAt(a) < CreatedAt(a)))
    BY LessByParts DEF s
  <2> QED
    BY <1>1, <1>2, <2>1
<1> QED
  BY <1>1, <1>2, <1>3, <1>4, <1>5, <1>6

\* The comparator of every event index is transitive.
LEMMA LessTransitive ==
  ASSUME NEW index, NEW a, NEW b, NEW c, IsKey(index, a), IsKey(index, b), IsKey(index, c),
         Less(index, a, b), Less(index, b, c)
  PROVE  Less(index, a, c)
<1> DEFINE s == Str(index, a)
           t == Str(index, b)
           u == Str(index, c)
<1>1. /\ s \in Seq(Byte) /\ Major(index, a) \in Nat /\ CreatedAt(a) \in Nat
      /\ t \in Seq(Byte) /\ Major(index, b) \in Nat /\ CreatedAt(b) \in Nat
      /\ u \in Seq(Byte) /\ Major(index, c) \in Nat /\ CreatedAt(c) \in Nat
  BY KeyParts
<1>2. MemLess(s, t) /\ MemLess(t, u) => MemLess(s, u)
  BY <1>1, MemLessTransitive
<1> HIDE DEF s, t, u
<1>3. \/ MemLess(s, t)
      \/ s = t /\ (Major(index, a) < Major(index, b) \/ (Major(index, a) = Major(index, b) /\ CreatedAt(a) < CreatedAt(b)))
  BY LessByParts DEF s, t
<1>4. \/ MemLess(t, u)
      \/ t = u /\ (Major(index, b) < Major(index, c) \/ (Major(index, b) = Major(index, c) /\ CreatedAt(b) < CreatedAt(c)))
  BY LessByParts DEF t, u
<1>5. \/ MemLess(s, u)
      \/ s = u /\ (Major(index, a) < Major(index, c) \/ (Major(index, a) = Major(index, c) /\ CreatedAt(a) < CreatedAt(c)))
  BY <1>1, <1>2, <1>3, <1>4
<1> QED
  BY <1>5, LessByParts DEF s, u

-----------------------------------------------------------------------------
(* Prefixes, and the bound of a reverse walk                               *)

\* A key's prefix is the key without the created_at at its end.
LEMMA PrefixIs ==
  ASSUME NEW k \in Seq(Byte), Len(k) >= Width
  PROVE  /\ Prefix(k) \in Seq(Byte) /\ Len(Prefix(k)) = Len(k) - Width /\ Len(k) \in Nat
         /\ \A j \in 1 .. Len(k) - Width : Prefix(k)[j] = k[j]
<1>0. Width \in Nat /\ Width > 0 /\ Len(k) \in Nat
  BY KeyBytesConstants
<1> DEFINE m == Len(k) - Width
<1>1. m \in Nat /\ m <= Len(k)
  BY <1>0
<1>2. Prefix(k) = SubSeq(k, 1, m)
  BY DEF Prefix
<1> HIDE DEF m
<1>3. SubSeq(k, 1, m) \in Seq(Byte) /\ Len(SubSeq(k, 1, m)) = m /\ \A j \in 1 .. m : SubSeq(k, 1, m)[j] = k[j]
  BY <1>0, <1>1
<1> QED
  BY <1>0, <1>2, <1>3 DEF m

\* The bytes of an integer are a byte string of its width.
LEMMA BytesAreString ==
  ASSUME NEW d \in Bytes
  PROVE  d \in Seq(Byte) /\ Len(d) = Width
BY KeyBytesConstants DEF Bytes

\* A string followed by an integer.
LEMMA Appended ==
  ASSUME NEW s \in Seq(Byte), NEW d \in Bytes
  PROVE  /\ s \o d \in Seq(Byte) /\ Len(s \o d) = Len(s) + Width /\ Len(s) \in Nat
         /\ Prefix(s \o d) = s /\ CreatedAt(s \o d) = FromLe(d)
<1> DEFINE k == s \o d
           L == Len(s)
<1>0. Width \in Nat /\ Width > 0 /\ L \in Nat /\ d \in Seq(Byte) /\ Len(d) = Width
  BY KeyBytesConstants, BytesAreString
<1>1. k \in Seq(Byte) /\ Len(k) = L + Width
  BY <1>0
<1>2. \A j \in 1 .. L : k[j] = s[j]
  BY <1>0
<1>3. \A j \in 1 .. Width : k[L + j] = d[j]
  BY <1>0
<1> HIDE DEF k
<1>4. Prefix(k) = s
  <2>1. Len(k) >= Width /\ Len(k) - Width = L
    BY <1>0, <1>1
  <2>2. Prefix(k) \in Seq(Byte) /\ Len(Prefix(k)) = L /\ \A j \in 1 .. L : Prefix(k)[j] = k[j]
    BY <1>1, <2>1, PrefixIs
  <2>3. Prefix(k) = [j \in 1 .. L |-> Prefix(k)[j]] /\ s = [j \in 1 .. L |-> s[j]]
    BY <2>2, ByteString
  <2> QED
    BY <1>2, <2>2, <2>3
<1>5. CreatedAt(k) = FromLe(d)
  <2>1. Len(k) - (0 + 1) * Width + 1 = L + 1 /\ Len(k) - 0 * Width = L + Width /\ L + Width <= Len(k)
    BY <1>0, <1>1
  <2>2. SubSeq(k, L + 1, L + Width) \in Bytes /\ \A j \in 1 .. Width : SubSeq(k, L + 1, L + Width)[j] = k[L + j]
    BY <1>0, <1>1, <2>1, DigitsOf
  <2>3. SubSeq(k, L + 1, L + Width) = d
    <3> DEFINE x == SubSeq(k, L + 1, L + Width)
    <3>1. x = [j \in 1 .. Width |-> x[j]] /\ d = [j \in 1 .. Width |-> d[j]]
      BY <2>2 DEF Bytes
    <3>2. \A j \in 1 .. Width : x[j] = d[j]
      BY <1>3, <2>2
    <3> HIDE DEF x
    <3>3. x = d
      BY <3>1, <3>2
    <3> QED
      BY <3>3 DEF x
  <2> QED
    BY <2>1, <2>3 DEF CreatedAt, Integer
<1> QED
  BY <1>0, <1>1, <1>4, <1>5 DEF k

\* The parts of a key in terms of its prefix.
LEMMA PartsOfPrefix ==
  ASSUME NEW index, NEW k, IsKey(index, k)
  PROVE  /\ Prefix(k) \in Seq(Byte)
         /\ TrailingIntegers(index) = 1 => Str(index, k) = Prefix(k) /\ Major(index, k) = 0
         /\ TrailingIntegers(index) = 2 =>
               /\ Len(Prefix(k)) >= Width
               /\ Str(index, k) = Prefix(Prefix(k)) /\ Major(index, k) = CreatedAt(Prefix(k))
<1> DEFINE n == TrailingIntegers(index)
           p == Prefix(k)
<1>0. /\ Width \in Nat /\ Width > 0 /\ Len(k) \in Nat /\ k \in Seq(Byte) /\ Len(k) >= Width
      /\ Len(k) >= n * Width
  BY KeyParts DEF IsKey
<1>1. p \in Seq(Byte) /\ Len(p) = Len(k) - Width /\ \A j \in 1 .. Len(k) - Width : p[j] = k[j]
  BY <1>0, PrefixIs
<1>2. n = 1 => Str(index, k) = Prefix(k) /\ Major(index, k) = 0
  BY <1>0 DEF Str, Prefix, Major
<1>3. ASSUME n = 2
      PROVE  Len(p) >= Width /\ Str(index, k) = Prefix(p) /\ Major(index, k) = CreatedAt(p)
  <2> DEFINE m == Len(k) - 2 * Width
  <2>1. m \in Nat /\ Len(p) = m + Width /\ Len(p) >= Width /\ m + Width <= Len(k) /\ Len(p) - Width = m
        /\ Len(p) \in Nat
    BY <1>0, <1>1, <1>3
  <2>2. Str(index, k) \in Seq(Byte) /\ Len(Str(index, k)) = m /\ \A j \in 1 .. m : Str(index, k)[j] = k[j]
    BY <1>3, KeyParts
  <2>3. Prefix(p) \in Seq(Byte) /\ Len(Prefix(p)) = m /\ \A j \in 1 .. m : Prefix(p)[j] = p[j]
    BY <1>1, <2>1, PrefixIs
  <2>4. Str(index, k) = Prefix(p)
    <3> DEFINE x == Str(index, k)
               y == Prefix(p)
    <3>1. x = [j \in 1 .. m |-> x[j]] /\ y = [j \in 1 .. m |-> y[j]]
      <4> HIDE DEF m, x, y
      <4>1. x \in Seq(Byte) /\ Len(x) = m /\ y \in Seq(Byte) /\ Len(y) = m
        BY <2>2, <2>3 DEF x, y
      <4> QED
        BY <4>1, ByteString
    <3>2. \A j \in 1 .. m : x[j] = y[j]
      <4>1. \A j \in 1 .. m : j \in 1 .. Len(k) - Width
        BY <1>0, <2>1
      <4> HIDE DEF m, p
      <4> QED
        BY <1>1, <2>2, <2>3, <4>1
    <3> HIDE DEF x, y, m
    <3>3. x = y
      BY <3>1, <3>2
    <3> QED
      BY <3>3 DEF x, y
  <2>5. Major(index, k) = FromLe(SubSeq(k, m + 1, m + Width))
    <3>1. Len(k) - (1 + 1) * Width + 1 = m + 1 /\ Len(k) - 1 * Width = m + Width
      BY <1>0
    <3> QED
      BY <1>3, <3>1 DEF Major, Integer
  <2>6. CreatedAt(p) = FromLe(SubSeq(p, m + 1, m + Width))
    <3>1. Len(p) - (0 + 1) * Width + 1 = m + 1 /\ Len(p) - 0 * Width = m + Width
      BY <1>0, <2>1
    <3> HIDE DEF m, p
    <3> QED
      BY <3>1 DEF CreatedAt, Integer
  <2>7. SubSeq(k, m + 1, m + Width) = SubSeq(p, m + 1, m + Width)
    <3> DEFINE x == SubSeq(k, m + 1, m + Width)
               y == SubSeq(p, m + 1, m + Width)
    <3>1. x \in Bytes /\ \A j \in 1 .. Width : x[j] = k[m + j]
      BY <1>0, <2>1, DigitsOf
    <3>2. y \in Bytes /\ \A j \in 1 .. Width : y[j] = p[m + j]
      <4> HIDE DEF m, p
      <4> QED
        BY <1>0, <1>1, <2>1, DigitsOf
    <3>3. \A j \in 1 .. Width : m + j \in 1 .. Len(k) - Width
      BY <1>0, <2>1
    <3> HIDE DEF x, y, m, p
    <3>4. \A j \in 1 .. Width : x[j] = y[j]
      BY <1>1, <3>1, <3>2, <3>3
    <3>5. x = [j \in 1 .. Width |-> x[j]] /\ y = [j \in 1 .. Width |-> y[j]]
      BY <3>1, <3>2 DEF Bytes
    <3>6. x = y
      BY <3>4, <3>5
    <3> QED
      BY <3>6 DEF x, y
  <2> HIDE DEF m, p
  <2> QED
    BY <2>1, <2>4, <2>5, <2>6, <2>7
<1> QED
  BY <1>1, <1>2, <1>3

\* Keys have the same prefix exactly when their strings and kinds are the same.
LEMMA PrefixByParts ==
  ASSUME NEW index, NEW a, NEW b, IsKey(index, a), IsKey(index, b)
  PROVE  Prefix(a) = Prefix(b) <=> Str(index, a) = Str(index, b) /\ Major(index, a) = Major(index, b)
<1>0. TrailingIntegers(index) \in {1, 2}
  BY Trailing DEF IsKey
<1>1. CASE TrailingIntegers(index) = 1
  BY <1>1, PartsOfPrefix
<1>2. CASE TrailingIntegers(index) = 2
  <2> DEFINE p == Prefix(a)
             q == Prefix(b)
  <2>1. /\ p \in Seq(Byte) /\ Len(p) >= Width /\ Str(index, a) = Prefix(p) /\ Major(index, a) = CreatedAt(p)
    BY <1>2, PartsOfPrefix
  <2>2. /\ q \in Seq(Byte) /\ Len(q) >= Width /\ Str(index, b) = Prefix(q) /\ Major(index, b) = CreatedAt(q)
    BY <1>2, PartsOfPrefix
  <2> HIDE DEF p, q
  <2>3. TrailingIntegers("Event__pubkey") = 1 /\ "Event__pubkey" \in EventIndexes
    BY DEF TrailingIntegers, EventIndexes
  <2>4. IsKey("Event__pubkey", p) /\ IsKey("Event__pubkey", q)
    <3>1. 1 * Width = Width
      BY KeyBytesConstants
    <3> QED
      BY <2>1, <2>2, <2>3, <3>1 DEF IsKey
  <2>5. /\ Str("Event__pubkey", p) = Prefix(p) /\ Major("Event__pubkey", p) = 0
        /\ Str("Event__pubkey", q) = Prefix(q) /\ Major("Event__pubkey", q) = 0
    BY <2>3, <2>4, PartsOfPrefix
  <2>6. Prefix(p) = Prefix(q) /\ CreatedAt(p) = CreatedAt(q) => p = q
    BY <2>4, <2>5, KeyUnique
  <2>7. p = q <=> Str(index, a) = Str(index, b) /\ Major(index, a) = Major(index, b)
    BY <2>1, <2>2, <2>6
  <2> QED
    BY <2>7 DEF p, q
<1> QED
  BY <1>0, <1>1, <1>2

\* Between two keys of one prefix there are only keys of that prefix.
LEMMA PrefixBetween ==
  ASSUME NEW index, NEW a, NEW b, NEW c, IsKey(index, a), IsKey(index, b), IsKey(index, c),
         ~Less(index, b, a), ~Less(index, c, b), Prefix(a) = Prefix(c)
  PROVE  Prefix(b) = Prefix(a)
<1> DEFINE s == Str(index, a)
           t == Str(index, b)
           u == Str(index, c)
<1>1. /\ s \in Seq(Byte) /\ Major(index, a) \in Nat /\ CreatedAt(a) \in Nat
      /\ t \in Seq(Byte) /\ Major(index, b) \in Nat /\ CreatedAt(b) \in Nat
      /\ u \in Seq(Byte) /\ Major(index, c) \in Nat /\ CreatedAt(c) \in Nat
  BY KeyParts
<1>2. s = u /\ Major(index, a) = Major(index, c)
  BY PrefixByParts
<1>3. s # t => MemLess(s, t) \/ MemLess(t, s)
  BY <1>1, MemLessOrder
<1> HIDE DEF s, t, u
<1>4. ~MemLess(t, s) /\ ~(t = s /\ Major(index, b) < Major(index, a))
  BY LessByParts DEF s, t
<1>5. ~MemLess(u, t) /\ ~(u = t /\ Major(index, c) < Major(index, b))
  BY LessByParts DEF t, u
<1>6. t = s /\ Major(index, b) = Major(index, a)
  BY <1>1, <1>2, <1>3, <1>4, <1>5
<1> QED
  BY <1>6, PrefixByParts DEF s, t

\* The bound of a reverse walk: the keys below it are those that are not above the start key.
LEMMA UpperBound ==
  ASSUME NEW index, NEW key, IsKey(index, key), CreatedAt(key) < U64Max
  PROVE  /\ IsKey(index, Prefix(key) \o Le(CreatedAt(key) + 1))
         /\ \A k : IsKey(index, k) =>
               (Less(index, k, Prefix(key) \o Le(CreatedAt(key) + 1)) <=> ~Less(index, key, k))
<1> DEFINE t == CreatedAt(key) + 1
           up == Prefix(key) \o Le(t)
<1>1. CreatedAt(key) \in Nat /\ U64Max \in Nat /\ t \in Nat /\ t <= U64Max
      /\ Prefix(key) \in Seq(Byte)
  BY KeyParts, PartsOfPrefix
<1>2. Le(t) \in Bytes /\ FromLe(Le(t)) = t
  <2> HIDE DEF t
  <2> QED
    BY <1>1, LeBytes, RoundTrip
<1> HIDE DEF t
<1>3. up \in Seq(Byte) /\ Len(up) = Len(Prefix(key)) + Width /\ Prefix(up) = Prefix(key) /\ CreatedAt(up) = t
  BY <1>1, <1>2, Appended
<1>4. IsKey(index, up)
  <2>1. key \in Seq(Byte) /\ Len(key) >= Width /\ Len(key) \in Nat /\ Width \in Nat
    BY KeyParts DEF IsKey
  <2>2. Len(Prefix(key)) = Len(key) - Width
    BY <2>1, PrefixIs
  <2>3. Len(up) = Len(key)
    BY <1>3, <2>1, <2>2
  <2> HIDE DEF up
  <2> QED
    BY <1>3, <2>3 DEF IsKey
<1> HIDE DEF up
<1>5. Str(index, up) = Str(index, key) /\ Major(index, up) = Major(index, key)
  BY <1>3, <1>4, PrefixByParts
<1>6. ASSUME NEW k, IsKey(index, k) PROVE Less(index, k, up) <=> ~Less(index, key, k)
  <2> DEFINE s == Str(index, key)
             r == Str(index, k)
  <2>1. /\ s \in Seq(Byte) /\ Major(index, key) \in Nat
        /\ r \in Seq(Byte) /\ Major(index, k) \in Nat /\ CreatedAt(k) \in Nat
    BY <1>6, KeyParts
  <2>2. /\ ~MemLess(s, s) /\ (MemLess(r, s) => ~MemLess(s, r)) /\ (r # s => MemLess(r, s) \/ MemLess(s, r))
    BY <2>1, MemLessOrder
  <2>3. ~MemLess(r, r)
    BY <2>1, MemLessOrder
  <2> HIDE DEF s, r
  <2>4. Less(index, k, up) <=>
          \/ MemLess(r, s)
          \/ r = s /\ (Major(index, k) < Major(index, key) \/ (Major(index, k) = Major(index, key) /\ CreatedAt(k) < t))
    BY <1>3, <1>4, <1>5, <1>6, LessByParts DEF s, r
  <2>5. Less(index, key, k) <=>
          \/ MemLess(s, r)
          \/ s = r /\ (Major(index, key) < Major(index, k) \/ (Major(index, key) = Major(index, k) /\ CreatedAt(key) < CreatedAt(k)))
    BY <1>6, LessByParts DEF s, r
  <2>6. CreatedAt(k) < t <=> ~(CreatedAt(key) < CreatedAt(k))
    BY <1>1, <2>1 DEF t
  <2> QED
    BY <2>1, <2>2, <2>3, <2>4, <2>5, <2>6
<1> QED
  BY <1>4, <1>6 DEF up, t

-----------------------------------------------------------------------------
(* The entries of an index                                                 *)

\* The comparators stay transitive where one of two comparisons is "not behind".
LEMMA LessMixed ==
  ASSUME NEW index, NEW a, NEW b, NEW c, IsKey(index, a), IsKey(index, b), IsKey(index, c)
  PROVE  /\ ~Less(index, b, a) /\ Less(index, b, c) => Less(index, a, c)
         /\ Less(index, a, b) /\ ~Less(index, c, b) => Less(index, a, c)
         /\ ~Less(index, b, a) /\ ~Less(index, c, b) => ~Less(index, c, a)
<1>1. a # b => Less(index, a, b) \/ Less(index, b, a)
  BY LessOrder
<1>2. b # c => Less(index, b, c) \/ Less(index, c, b)
  BY LessOrder
<1>3. Less(index, a, b) /\ Less(index, b, c) => Less(index, a, c)
  BY LessTransitive
<1>4. Less(index, a, c) => ~Less(index, c, a)
  BY LessOrder
<1> QED
  BY <1>1, <1>2, <1>3, <1>4

\* The events of the catalog have byte strings and integers within u64.
LEMMA CatalogTyped ==
  /\ Len(Catalog) \in Nat /\ Levs \subseteq Nat /\ IsFiniteSet(Levs)
  /\ \A l \in Levs : /\ Catalog[l] \in Event
                     /\ Catalog[l].pubkey \in Seq(Byte) /\ Catalog[l].tag \in Seq(Byte)
                     /\ Catalog[l].kind \in Nat /\ Catalog[l].kind <= U64Max
                     /\ Catalog[l].created_at \in Nat /\ Catalog[l].created_at <= U64Max
<1>1. Catalog \in Seq(Event) /\ Len(Catalog) \in Nat
  <2>1. Catalog \in Seq(Event)
    BY ReaderConstants, Zenon
  <2> QED
    BY <2>1
<1>2. Levs \subseteq Nat /\ IsFiniteSet(Levs)
  BY <1>1, FS_Interval DEF Levs
<1>3. U64Max \in Nat
  <2>1. [i \in 1 .. Width |-> 0] \in Bytes
    BY KeyBytesConstants DEF Bytes, Byte
  <2> QED
    BY <2>1, FromLeRange
<1>4. ASSUME NEW l \in Levs
      PROVE  /\ Catalog[l] \in Event
             /\ Catalog[l].pubkey \in Seq(Byte) /\ Catalog[l].tag \in Seq(Byte)
             /\ Catalog[l].kind \in Nat /\ Catalog[l].kind <= U64Max
             /\ Catalog[l].created_at \in Nat /\ Catalog[l].created_at <= U64Max
  <2>1. Catalog[l] \in Event
    BY <1>1 DEF Levs
  <2>2. /\ Catalog[l].pubkey \in Seq(0 .. Base - 1) /\ Catalog[l].tag \in Seq(0 .. Base - 1)
        /\ Catalog[l].kind \in 0 .. U64Max /\ Catalog[l].created_at \in 0 .. U64Max
    BY <2>1 DEF Event
  <2> QED
    BY <1>3, <2>1, <2>2 DEF Byte
<1> QED
  BY <1>1, <1>2, <1>4

\* The parts of the keys that strfry writes.
LEMMA KeyIs ==
  ASSUME NEW index \in EventIndexes, NEW l \in Levs
  PROVE  /\ Key[index][l] = KeyOf(index, Catalog[l])
         /\ IsKey(index, Key[index][l])
         /\ CreatedAt(Key[index][l]) = Catalog[l].created_at
         /\ index = "Event__pubkey" => Prefix(Key[index][l]) = Catalog[l].pubkey
         /\ index = "Event__pubkeyKind" => Prefix(Key[index][l]) = Catalog[l].pubkey \o Le(Catalog[l].kind)
<1> DEFINE e == Catalog[l]
           k == Key[index][l]
<1>0. Width \in Nat /\ Width > 0
  BY KeyBytesConstants
<1>1. k = KeyOf(index, e)
  BY DEF Key
<1>2. /\ e.pubkey \in Seq(Byte) /\ e.tag \in Seq(Byte) /\ e.kind \in Nat /\ e.kind <= U64Max
      /\ e.created_at \in Nat /\ e.created_at <= U64Max
  BY CatalogTyped
<1> HIDE DEF e, k
<1> DEFINE at == Le(e.created_at)
           kd == Le(e.kind)
<1>3. at \in Bytes /\ kd \in Bytes /\ FromLe(at) = e.created_at /\ FromLe(kd) = e.kind
  BY <1>2, LeBytes, RoundTrip
<1>4. kd \in Seq(Byte) /\ at \in Seq(Byte) /\ Len(at) = Width /\ Len(kd) = Width
  BY <1>3, BytesAreString
<1> HIDE DEF at, kd
<1>5. CASE index = "Event__pubkey"
  <2>1. k = e.pubkey \o at
    BY <1>1, <1>5 DEF KeyOf, at
  <2>2. k \in Seq(Byte) /\ Len(k) = Len(e.pubkey) + Width /\ Len(e.pubkey) \in Nat
        /\ Prefix(k) = e.pubkey /\ CreatedAt(k) = e.created_at
    BY <1>2, <1>3, <2>1, Appended
  <2>3. Len(k) >= 1 * Width
    BY <1>0, <2>2
  <2>4. IsKey(index, k)
    BY <1>5, <2>2, <2>3 DEF IsKey, TrailingIntegers
  <2> QED
    BY <1>1, <1>5, <2>2, <2>4 DEF e, k
<1>6. CASE index = "Event__tag"
  <2>1. k = e.tag \o at
    BY <1>1, <1>6 DEF KeyOf, at
  <2>2. k \in Seq(Byte) /\ Len(k) = Len(e.tag) + Width /\ Len(e.tag) \in Nat /\ CreatedAt(k) = e.created_at
    BY <1>2, <1>3, <2>1, Appended
  <2>3. Len(k) >= 1 * Width
    BY <1>0, <2>2
  <2>4. IsKey(index, k)
    BY <1>6, <2>2, <2>3 DEF IsKey, TrailingIntegers
  <2> QED
    BY <1>1, <1>6, <2>2, <2>4 DEF e, k
<1>7. CASE index = "Event__kind"
  <2>1. k = kd \o at
    BY <1>1, <1>7 DEF KeyOf, at, kd
  <2>2. k \in Seq(Byte) /\ Len(k) = Width + Width /\ CreatedAt(k) = e.created_at
    BY <1>3, <1>4, <2>1, Appended
  <2>3. Len(k) >= 2 * Width
    BY <1>0, <2>2
  <2>4. IsKey(index, k)
    BY <1>7, <2>2, <2>3 DEF IsKey, TrailingIntegers
  <2> QED
    BY <1>1, <1>7, <2>2, <2>4 DEF e, k
<1>8. CASE index = "Event__pubkeyKind"
  <2>1. k = (e.pubkey \o kd) \o at
    BY <1>1, <1>8 DEF KeyOf, at, kd
  <2>2. e.pubkey \o kd \in Seq(Byte) /\ Len(e.pubkey \o kd) = Len(e.pubkey) + Width /\ Len(e.pubkey) \in Nat
    BY <1>2, <1>3, Appended
  <2> DEFINE p == e.pubkey \o kd
  <2>3. p \in Seq(Byte) /\ k = p \o at
    BY <2>1, <2>2
  <2> HIDE DEF p
  <2>4. k \in Seq(Byte) /\ Len(k) = Len(p) + Width /\ Prefix(k) = p /\ CreatedAt(k) = e.created_at
    BY <1>3, <2>3, Appended
  <2>5. Len(k) >= 2 * Width
    BY <1>0, <2>2, <2>4 DEF p
  <2>6. IsKey(index, k)
    BY <1>8, <2>4, <2>5 DEF IsKey, TrailingIntegers
  <2> QED
    BY <1>1, <1>8, <2>4, <2>6 DEF e, k, p, kd
<1>9. CASE index = "Event__created_at"
  <2>1. k = at
    BY <1>1, <1>9 DEF KeyOf, at
  <2>2. <<>> \in Seq(Byte) /\ <<>> \o at = at
    BY <1>4
  <2>3. CreatedAt(k) = e.created_at
    BY <1>3, <2>1, <2>2, Appended
  <2>4. Len(k) >= 1 * Width
    BY <1>0, <1>4, <2>1
  <2>5. IsKey(index, k)
    BY <1>4, <1>9, <2>1, <2>4 DEF IsKey, TrailingIntegers
  <2> QED
    BY <1>1, <1>9, <2>3, <2>5 DEF e, k
<1> QED
  BY <1>5, <1>6, <1>7, <1>8, <1>9 DEF EventIndexes

\* The order of the entries is strict and total.
LEMMA EntryOrder ==
  ASSUME NEW index \in EventIndexes, NEW l \in Levs, NEW m \in Levs
  PROVE  /\ ~EntryLess(index, l, l)
         /\ EntryLess(index, l, m) => ~EntryLess(index, m, l) /\ ~Less(index, Key[index][m], Key[index][l])
         /\ l # m => EntryLess(index, l, m) \/ EntryLess(index, m, l)
<1> DEFINE a == Key[index][l]
           b == Key[index][m]
<1>1. IsKey(index, a) /\ IsKey(index, b) /\ l \in Nat /\ m \in Nat
  BY KeyIs, CatalogTyped
<1> HIDE DEF a, b
<1>2. /\ ~Less(index, a, a) /\ (Less(index, a, b) => ~Less(index, b, a))
      /\ a # b => Less(index, a, b) \/ Less(index, b, a)
  BY <1>1, LessOrder
<1>3. ~Less(index, b, b)
  BY <1>1, LessOrder
<1> QED
  BY <1>1, <1>2, <1>3 DEF EntryLess, a, b

\* The order of the entries of an index, duplicates included, is transitive.
LEMMA EntryTransitive ==
  ASSUME NEW index \in EventIndexes, NEW l \in Levs, NEW m \in Levs, NEW n \in Levs,
         EntryLess(index, l, m), EntryLess(index, m, n)
  PROVE  EntryLess(index, l, n)
<1> DEFINE a == Key[index][l]
           b == Key[index][m]
           c == Key[index][n]
<1>1. IsKey(index, a) /\ IsKey(index, b) /\ IsKey(index, c) /\ l \in Nat /\ m \in Nat /\ n \in Nat
  BY KeyIs, CatalogTyped
<1> HIDE DEF a, b, c
<1>2. Less(index, a, b) /\ Less(index, b, c) => Less(index, a, c)
  BY <1>1, LessTransitive
<1> QED
  BY <1>1, <1>2 DEF EntryLess, a, b, c

\* before[p] is what comes before p in a strict total order of a finite set.
Linear(S, before) ==
    /\ IsFiniteSet(S)
    /\ \A p \in S : before[p] \in SUBSET S /\ p \notin before[p]
    /\ \A p, q \in S : p \in before[q] => before[p] \in SUBSET before[q]
    /\ \A p, q \in S : p # q => p \in before[q] \/ q \in before[p]

\* How many come before one tells its place.
LEMMA Ranks ==
  ASSUME NEW S, NEW before, Linear(S, before)
  PROVE  /\ Cardinality(S) \in Nat
         /\ \A p \in S : Cardinality(before[p]) \in Nat /\ Cardinality(before[p]) < Cardinality(S)
         /\ \A p, q \in S : p \in before[q] <=> Cardinality(before[p]) < Cardinality(before[q])
         /\ \A p, q \in S : Cardinality(before[p]) = Cardinality(before[q]) => p = q
         /\ \A i \in 1 .. Cardinality(S) : \E p \in S : Cardinality(before[p]) = i - 1
<1> USE DEF Linear
<1> DEFINE n == Cardinality(S)
           rank == [p \in S |-> Cardinality(before[p])]
<1>1. n \in Nat
  BY FS_CardinalityType
<1>2. ASSUME NEW p \in S
      PROVE  /\ IsFiniteSet(before[p]) /\ rank[p] = Cardinality(before[p])
             /\ rank[p] \in Nat /\ rank[p] < n
  <2>1. before[p] \in SUBSET S /\ p \notin before[p]
    OBVIOUS
  <2>3. IsFiniteSet(before[p]) /\ Cardinality(before[p]) \in Nat
        /\ Cardinality(before[p]) <= n /\ (n = Cardinality(before[p]) => S = before[p])
    BY <2>1, FS_Subset, FS_CardinalityType
  <2>4. Cardinality(before[p]) # n
    BY <2>1, <2>3
  <2>5. rank[p] = Cardinality(before[p])
    OBVIOUS
  <2> QED
    BY <1>1, <2>3, <2>4, <2>5
<1>3. ASSUME NEW p \in S, NEW q \in S, p \in before[q]
      PROVE  rank[p] < rank[q]
  <2>1. before[p] \in SUBSET before[q] /\ p \notin before[p]
    BY <1>3
  <2>2. IsFiniteSet(before[q]) /\ rank[p] \in Nat /\ rank[q] \in Nat
        /\ rank[p] = Cardinality(before[p]) /\ rank[q] = Cardinality(before[q])
    BY <1>2
  <2> HIDE DEF rank
  <2>3. /\ Cardinality(before[p]) <= Cardinality(before[q])
        /\ Cardinality(before[q]) = Cardinality(before[p]) => before[q] = before[p]
    BY <2>1, <2>2, FS_Subset
  <2>4. Cardinality(before[q]) # Cardinality(before[p])
    BY <1>3, <2>1, <2>3
  <2> QED
    BY <2>2, <2>3, <2>4
<1> HIDE DEF rank
<1>4. ASSUME NEW p \in S, NEW q \in S, rank[p] = rank[q] PROVE p = q
  <2>1. rank[p] \in Nat /\ rank[q] \in Nat
    BY <1>2
  <2>2. p \notin before[q] /\ q \notin before[p]
    BY <1>3, <1>4, <2>1
  <2> QED
    BY <2>2
<1>5. ASSUME NEW p \in S, NEW q \in S, rank[p] < rank[q] PROVE p \in before[q]
  <2>1. rank[p] \in Nat /\ rank[q] \in Nat
    BY <1>2
  <2>2. p # q /\ q \notin before[p]
    BY <1>3, <1>5, <2>1
  <2> QED
    BY <2>2
<1>6. \A k \in 1 .. n : \E p \in S : rank[p] = k - 1
  <2> DEFINE f == [p \in S |-> rank[p] + 1]
  <2>1. f \in [S -> 1 .. n]
    BY <1>1, <1>2
  <2>2. ASSUME NEW p \in S, NEW q \in S, f[p] = f[q] PROVE p = q
    BY <1>2, <1>4, <2>2
  <2>3. f \in Injection(S, 1 .. n)
    BY <2>1, <2>2 DEF Injection, IsInjective
  <2>4. IsFiniteSet(1 .. n) /\ Cardinality(1 .. n) = n
    BY <1>1, FS_Interval
  <2> HIDE DEF f, n
  <2>5. f \in Surjection(S, 1 .. n)
    <3>1. Cardinality(S) = Cardinality(1 .. n)
      BY <2>4 DEF n
    <3> QED
      BY <2>3, <2>4, <3>1, FS_Injection
  <2>6. \A k \in 1 .. n : \E p \in S : f[p] = k
    BY <2>5 DEF Surjection
  <2> QED
    BY <1>1, <1>2, <2>6 DEF f, n
<1>7. \A p \in S : rank[p] = Cardinality(before[p])
  BY <1>2
<1> QED
  BY <1>1, <1>2, <1>3, <1>4, <1>5, <1>6, <1>7

\* An entry of an index.
Entries(index) == {[key |-> Key[index][l], lev |-> l] : l \in Levs}

\* An entry of an index is an event's levId under that event's key.
LEMMA EntryIs ==
  ASSUME NEW index \in EventIndexes, NEW e \in Entries(index)
  PROVE  e.lev \in Levs /\ e.key = Key[index][e.lev] /\ IsKey(index, e.key)
<1>1. PICK l \in Levs : e = [key |-> Key[index][l], lev |-> l]
  BY DEF Entries
<1>2. e.lev = l /\ e.key = Key[index][l]
  BY <1>1
<1> QED
  BY <1>2, KeyIs

\* The rank table of an index follows its order.
LEMMA PlaceIs ==
  ASSUME NEW index \in EventIndexes, NEW l \in Levs, NEW m \in Levs
  PROVE  /\ Place[index][l] \in Nat
         /\ EntryLess(index, l, m) <=> Place[index][l] < Place[index][m]
<1> DEFINE before == [p \in Levs |-> {q \in Levs : EntryLess(index, q, p)}]
<1>1. Linear(Levs, before)
  <2>1. IsFiniteSet(Levs)
    BY CatalogTyped
  <2>2. \A p \in Levs : before[p] \in SUBSET Levs /\ p \notin before[p]
    BY EntryOrder
  <2>3. \A p, q \in Levs : p \in before[q] <=> EntryLess(index, p, q)
    OBVIOUS
  <2>4. ASSUME NEW p \in Levs, NEW q \in Levs, p \in before[q] PROVE before[p] \in SUBSET before[q]
    <3> SUFFICES ASSUME NEW r \in Levs, EntryLess(index, r, p) PROVE EntryLess(index, r, q)
      OBVIOUS
    <3>1. EntryLess(index, p, q)
      BY <2>3, <2>4
    <3> QED
      BY <3>1, EntryTransitive
  <2>5. \A p, q \in Levs : p # q => EntryLess(index, p, q) \/ EntryLess(index, q, p)
    BY EntryOrder
  <2> HIDE DEF before
  <2> QED
    BY <2>1, <2>2, <2>3, <2>4, <2>5 DEF Linear
<1>2. \A p \in Levs : Place[index][p] = Cardinality(before[p])
  BY DEF Place
<1>3. l \in before[m] <=> EntryLess(index, l, m)
  OBVIOUS
<1> HIDE DEF before
<1>4. /\ \A p \in Levs : Cardinality(before[p]) \in Nat
      /\ \A p, q \in Levs : p \in before[q] <=> Cardinality(before[p]) < Cardinality(before[q])
  BY <1>1, Ranks
<1> QED
  BY <1>2, <1>3, <1>4

\* What is stored, in the order of the index, each entry once.
IsRows(index, rows) ==
    /\ rows \in Seq(Entries(index))
    /\ \A i, j \in 1 .. Len(rows) : i < j => EntryLess(index, rows[i].lev, rows[j].lev)
    /\ \A i \in 1 .. Len(rows) : rows[i].lev \in present
    /\ \A l \in present : \E i \in 1 .. Len(rows) : rows[i].lev = l

\* The rows of an index are the stored events, each once, in the index's order.
LEMMA RowsAre ==
  ASSUME NEW index \in EventIndexes, present \subseteq Levs
  PROVE  IsRows(index, Rows(index))
<1> DEFINE before == [p \in present |-> {q \in present : Place[index][q] < Place[index][p]}]
           n == Cardinality(present)
           nth(i) == CHOOSE l \in present :
                        Cardinality({m \in present : Place[index][m] < Place[index][l]}) = i - 1
<1>0. \A p, q \in present : Place[index][p] \in Nat /\ (EntryLess(index, p, q) <=> Place[index][p] < Place[index][q])
  BY PlaceIs
<1>1. Linear(present, before)
  <2>1. IsFiniteSet(present)
    BY CatalogTyped, FS_Subset
  <2>2. \A p \in present : before[p] \in SUBSET present /\ p \notin before[p]
    BY <1>0
  <2>3. \A p, q \in present : p \in before[q] <=> Place[index][p] < Place[index][q]
    OBVIOUS
  <2>4. ASSUME NEW p \in present, NEW q \in present, p \in before[q] PROVE before[p] \in SUBSET before[q]
    <3> SUFFICES ASSUME NEW r \in present, Place[index][r] < Place[index][p] PROVE Place[index][r] < Place[index][q]
      OBVIOUS
    <3>1. Place[index][p] < Place[index][q]
      BY <2>3, <2>4
    <3> QED
      BY <1>0, <3>1
  <2>5. \A p, q \in present : p # q => Place[index][p] < Place[index][q] \/ Place[index][q] < Place[index][p]
    BY <1>0, EntryOrder
  <2> HIDE DEF before
  <2> QED
    BY <2>1, <2>2, <2>3, <2>4, <2>5 DEF Linear
<1>2. \A p \in present : before[p] = {m \in present : Place[index][m] < Place[index][p]}
  OBVIOUS
<1>3. /\ n \in Nat
      /\ \A p \in present : Cardinality(before[p]) \in Nat /\ Cardinality(before[p]) < n
      /\ \A p, q \in present : p \in before[q] <=> Cardinality(before[p]) < Cardinality(before[q])
      /\ \A p, q \in present : Cardinality(before[p]) = Cardinality(before[q]) => p = q
      /\ \A i \in 1 .. n : \E p \in present : Cardinality(before[p]) = i - 1
  <2> HIDE DEF before
  <2> QED
    BY <1>1, Ranks
<1>4. ASSUME NEW i \in 1 .. n PROVE nth(i) \in present /\ Cardinality(before[nth(i)]) = i - 1
  <2>1. \E p \in present : Cardinality({m \in present : Place[index][m] < Place[index][p]}) = i - 1
    BY <1>3
  <2>2. nth(i) \in present /\ Cardinality({m \in present : Place[index][m] < Place[index][nth(i)]}) = i - 1
    BY <2>1, Zenon
  <2> HIDE DEF nth, before
  <2> QED
    BY <1>2, <2>2
<1>5. \A p, q \in present : EntryLess(index, p, q) <=> p \in before[q]
  BY <1>0
<1> DEFINE rows == Rows(index)
<1>6. rows = [i \in 1 .. n |-> [key |-> Key[index][nth(i)], lev |-> nth(i)]]
  BY Zenon DEF Rows
<1> HIDE DEF before, nth, rows, n
<1>7. DOMAIN rows = 1 .. n /\ Len(rows) = n
  BY <1>3, <1>6
<1>8. ASSUME NEW i \in 1 .. n PROVE rows[i] \in Entries(index) /\ rows[i].lev = nth(i)
  <2>1. rows[i] = [key |-> Key[index][nth(i)], lev |-> nth(i)]
    BY <1>6
  <2>2. nth(i) \in Levs
    BY <1>4
  <2> QED
    BY <2>1, <2>2 DEF Entries
<1>9. rows \in Seq(Entries(index))
  <2>1. rows = [i \in 1 .. n |-> rows[i]]
    BY <1>6, <1>7
  <2>2. \A i \in 1 .. n : rows[i] \in Entries(index)
    BY <1>8
  <2>3. rows \in [1 .. n -> Entries(index)]
    BY <2>1, <2>2
  <2> QED
    BY <1>3, <2>3
<1>10. ASSUME NEW i \in 1 .. n, NEW j \in 1 .. n, i < j PROVE EntryLess(index, rows[i].lev, rows[j].lev)
  <2>1. nth(i) \in present /\ nth(j) \in present
    BY <1>4
  <2>2. Cardinality(before[nth(i)]) = i - 1 /\ Cardinality(before[nth(j)]) = j - 1
    BY <1>4
  <2>3. i - 1 < j - 1
    BY <1>3, <1>10
  <2>4. nth(i) \in before[nth(j)]
    BY <1>3, <2>1, <2>2, <2>3
  <2> QED
    BY <1>5, <1>8, <2>1, <2>4
<1>11. ASSUME NEW l \in present PROVE \E i \in 1 .. n : rows[i].lev = l
  <2> DEFINE i == Cardinality(before[l]) + 1
  <2>1. i \in 1 .. n /\ Cardinality(before[l]) = i - 1
    BY <1>3
  <2> HIDE DEF i
  <2>2. nth(i) \in present /\ Cardinality(before[nth(i)]) = Cardinality(before[l])
    BY <1>4, <2>1
  <2>3. nth(i) = l
    BY <1>3, <2>2
  <2> QED
    BY <1>8, <2>1, <2>3
<1>12. \A i \in 1 .. n : rows[i].lev \in present
  BY <1>4, <1>8
<1>13. IsRows(index, rows)
  BY <1>7, <1>9, <1>10, <1>11, <1>12 DEF IsRows
<1> QED
  BY <1>13 DEF rows

-----------------------------------------------------------------------------
(* Walks and windows                                                       *)

\* A nonempty set of natural numbers has its minimum.
LEMMA MinIs ==
  ASSUME NEW T, T \subseteq Nat, T # {}
  PROVE  Min(T) \in T /\ \A y \in T : Min(T) <= y
<1>1. \E x \in T : \A y \in T : x <= y
  BY LeastMember
<1> QED
  BY <1>1, Zenon DEF Min

\* Entries behind a position are not less.
LEMMA RowsOrder ==
  ASSUME NEW index \in EventIndexes, NEW rows, IsRows(index, rows)
  PROVE  /\ Len(rows) \in Nat
         /\ \A i \in 1 .. Len(rows) :
               /\ rows[i] \in Entries(index) /\ rows[i].lev \in Levs /\ rows[i].key = Key[index][rows[i].lev]
               /\ IsKey(index, rows[i].key)
         /\ \A i, j \in 1 .. Len(rows) : i <= j => ~Less(index, rows[j].key, rows[i].key)
<1>1. rows \in Seq(Entries(index)) /\ Len(rows) \in Nat
  BY DEF IsRows
<1>2. ASSUME NEW i \in 1 .. Len(rows)
      PROVE  /\ rows[i] \in Entries(index) /\ rows[i].lev \in Levs /\ rows[i].key = Key[index][rows[i].lev]
             /\ IsKey(index, rows[i].key)
  <2>1. rows[i] \in Entries(index)
    BY <1>1
  <2> QED
    BY <2>1, EntryIs
<1>3. ASSUME NEW i \in 1 .. Len(rows), NEW j \in 1 .. Len(rows), i <= j
      PROVE  ~Less(index, rows[j].key, rows[i].key)
  <2>1. CASE i = j
    BY <1>2, <2>1, LessOrder
  <2>2. CASE i < j
    <3>1. EntryLess(index, rows[i].lev, rows[j].lev)
      BY <2>2 DEF IsRows
    <3> QED
      BY <1>2, <3>1, EntryOrder
  <2> QED
    BY <1>1, <1>3, <2>1, <2>2
<1> QED
  BY <1>1, <1>2, <1>3

\* MDB_SET_RANGE ends behind exactly the rows below the key.
LEMMA SetRangeIs ==
  ASSUME NEW index \in EventIndexes, NEW rows, IsRows(index, rows), NEW key, IsKey(index, key)
  PROVE  /\ SetRange(index, rows, key) \in 1 .. Len(rows) + 1
         /\ \A i \in 1 .. Len(rows) : i < SetRange(index, rows, key) <=> Less(index, rows[i].key, key)
<1> DEFINE T == {i \in DOMAIN rows : ~Less(index, rows[i].key, key)} \cup {Len(rows) + 1}
           n == Min(T)
<1>0. /\ Len(rows) \in Nat /\ \A i \in 1 .. Len(rows) : IsKey(index, rows[i].key)
      /\ \A i, j \in 1 .. Len(rows) : i <= j => ~Less(index, rows[j].key, rows[i].key)
  BY RowsOrder
<1>1. DOMAIN rows = 1 .. Len(rows)
  BY DEF IsRows
<1>2. T \subseteq Nat /\ T # {} /\ T \subseteq 1 .. Len(rows) + 1
  BY <1>0, <1>1
<1>3. \A i \in 1 .. Len(rows) : i \in T <=> ~Less(index, rows[i].key, key)
  BY <1>0, <1>1
<1> HIDE DEF T
<1>4. n \in T /\ \A y \in T : n <= y
  BY <1>2, MinIs
<1> HIDE DEF n
<1>5. n \in 1 .. Len(rows) + 1
  BY <1>2, <1>4
<1>6. ASSUME NEW i \in 1 .. Len(rows), i < n PROVE Less(index, rows[i].key, key)
  <2>1. ~(n <= i)
    BY <1>0, <1>5, <1>6
  <2> QED
    BY <1>3, <1>4, <2>1
<1>7. ASSUME NEW i \in 1 .. Len(rows), Less(index, rows[i].key, key) PROVE i < n
  <2> SUFFICES ASSUME n <= i PROVE FALSE
    BY <1>0, <1>5
  <2>1. n \in 1 .. Len(rows)
    BY <1>0, <1>5
  <2>2. ~Less(index, rows[n].key, key) /\ ~Less(index, rows[i].key, rows[n].key)
    BY <1>0, <1>3, <1>4, <2>1
  <2>3. ~Less(index, rows[i].key, rows[n].key) /\ Less(index, rows[i].key, key) => Less(index, rows[n].key, key)
    <3>1. IsKey(index, rows[i].key) /\ IsKey(index, rows[n].key)
      BY <1>0, <2>1
    <3> QED
      BY <3>1, LessMixed
  <2> QED
    BY <1>7, <2>2, <2>3
<1>8. SetRange(index, rows, key) = n
  BY DEF SetRange, n, T
<1> QED
  BY <1>5, <1>6, <1>7, <1>8

\* The seek past an excluded key ends behind exactly the rows not above it.
LEMMA BehindIs ==
  ASSUME NEW index \in EventIndexes, NEW rows, IsRows(index, rows), NEW key, IsKey(index, key)
  PROVE  /\ Behind(index, rows, key) \in 1 .. Len(rows) + 1
         /\ \A i \in 1 .. Len(rows) : i < Behind(index, rows, key) <=> ~Less(index, key, rows[i].key)
<1> DEFINE T == {i \in DOMAIN rows : Less(index, key, rows[i].key)} \cup {Len(rows) + 1}
           n == Min(T)
<1>0. /\ Len(rows) \in Nat /\ \A i \in 1 .. Len(rows) : IsKey(index, rows[i].key)
      /\ \A i, j \in 1 .. Len(rows) : i <= j => ~Less(index, rows[j].key, rows[i].key)
  BY RowsOrder
<1>1. DOMAIN rows = 1 .. Len(rows)
  BY DEF IsRows
<1>2. T \subseteq Nat /\ T # {} /\ T \subseteq 1 .. Len(rows) + 1
  BY <1>0, <1>1
<1>3. \A i \in 1 .. Len(rows) : i \in T <=> Less(index, key, rows[i].key)
  BY <1>0, <1>1
<1> HIDE DEF T
<1>4. n \in T /\ \A y \in T : n <= y
  BY <1>2, MinIs
<1> HIDE DEF n
<1>5. n \in 1 .. Len(rows) + 1
  BY <1>2, <1>4
<1>6. ASSUME NEW i \in 1 .. Len(rows), i < n PROVE ~Less(index, key, rows[i].key)
  <2>1. ~(n <= i)
    BY <1>0, <1>5, <1>6
  <2> QED
    BY <1>3, <1>4, <2>1
<1>7. ASSUME NEW i \in 1 .. Len(rows), ~Less(index, key, rows[i].key) PROVE i < n
  <2> SUFFICES ASSUME n <= i PROVE FALSE
    BY <1>0, <1>5
  <2>1. n \in 1 .. Len(rows)
    BY <1>0, <1>5
  <2>2. Less(index, key, rows[n].key) /\ ~Less(index, rows[i].key, rows[n].key)
    BY <1>0, <1>3, <1>4, <2>1
  <2>3. Less(index, key, rows[n].key) /\ ~Less(index, rows[i].key, rows[n].key) => Less(index, key, rows[i].key)
    <3>1. IsKey(index, rows[i].key) /\ IsKey(index, rows[n].key)
      BY <1>0, <2>1
    <3> QED
      BY <3>1, LessMixed
  <2> QED
    BY <1>7, <2>2, <2>3
<1>8. Behind(index, rows, key) = n
  BY DEF Behind, n, T
<1> QED
  BY <1>5, <1>6, <1>7, <1>8

\* What a walk meets: from its start key on, or strictly behind a resume key.
Beyond(index, direction, first, from, k) ==
    IF direction = "Forward"
    THEN IF first THEN ~Less(index, k, from) ELSE Less(index, from, k)
    ELSE IF first THEN ~Less(index, from, k) ELSE Less(index, k, from)

\* In the direction of the walk.
Ahead(index, direction, l, m) ==
    IF direction = "Forward" THEN EntryLess(index, l, m) ELSE EntryLess(index, m, l)

IsWalk(index, direction, first, from, w) ==
    /\ w \in Seq(Entries(index))
    /\ \A i, j \in 1 .. Len(w) : i < j => Ahead(index, direction, w[i].lev, w[j].lev)
    /\ \A i \in 1 .. Len(w) : w[i].lev \in present /\ Beyond(index, direction, first, from, w[i].key)
    /\ \A l \in present : Beyond(index, direction, first, from, Key[index][l]) =>
          \E i \in 1 .. Len(w) : w[i].lev = l

\* The rest of the rows from a position on.
LEMMA RowsFrom ==
  ASSUME NEW index \in EventIndexes, NEW rows, IsRows(index, rows), NEW n \in 1 .. Len(rows) + 1,
         NEW first, NEW from,
         \A i \in 1 .. Len(rows) : n <= i <=> Beyond(index, "Forward", first, from, rows[i].key)
  PROVE  IsWalk(index, "Forward", first, from, SubSeq(rows, n, Len(rows)))
<1> DEFINE w == SubSeq(rows, n, Len(rows))
           N == Len(rows)
<1>0. /\ N \in Nat /\ rows \in Seq(Entries(index))
      /\ \A i \in 1 .. N : rows[i].lev \in Levs /\ rows[i].key = Key[index][rows[i].lev]
  BY RowsOrder DEF IsRows
<1>1. w \in Seq(Entries(index)) /\ Len(w) = N - n + 1 /\ N - n + 1 \in Nat
  BY <1>0
<1>2. ASSUME NEW i \in 1 .. Len(w)
      PROVE  n + i - 1 \in 1 .. N /\ n <= n + i - 1 /\ w[i] = rows[n + i - 1]
  <2>1. i \in 1 .. N - n + 1
    BY <1>1
  <2> QED
    BY <1>0, <2>1
<1> HIDE DEF w
<1>3. ASSUME NEW i \in 1 .. Len(w), NEW j \in 1 .. Len(w), i < j
      PROVE  Ahead(index, "Forward", w[i].lev, w[j].lev)
  <2>1. n + i - 1 < n + j - 1
    BY <1>1, <1>3
  <2>2. EntryLess(index, rows[n + i - 1].lev, rows[n + j - 1].lev)
    BY <1>2, <2>1 DEF IsRows
  <2> QED
    BY <1>2, <2>2 DEF Ahead
<1>4. \A i \in 1 .. Len(w) : w[i].lev \in present /\ Beyond(index, "Forward", first, from, w[i].key)
  BY <1>2 DEF IsRows
<1>5. ASSUME NEW l \in present, Beyond(index, "Forward", first, from, Key[index][l])
      PROVE  \E i \in 1 .. Len(w) : w[i].lev = l
  <2>1. PICK j \in 1 .. N : rows[j].lev = l
    BY DEF IsRows
  <2>2. n <= j
    BY <1>0, <1>5, <2>1
  <2>3. j - n + 1 \in 1 .. Len(w) /\ n + (j - n + 1) - 1 = j
    BY <1>0, <1>1, <2>2
  <2> QED
    BY <1>2, <2>1, <2>3
<1>6. IsWalk(index, "Forward", first, from, w)
  BY <1>1, <1>3, <1>4, <1>5 DEF IsWalk
<1> QED
  BY <1>6 DEF w

\* The rows up to a position, the last first.
LEMMA RowsUpTo ==
  ASSUME NEW index \in EventIndexes, NEW rows, IsRows(index, rows), NEW n \in 0 .. Len(rows),
         NEW first, NEW from,
         \A i \in 1 .. Len(rows) : i <= n <=> Beyond(index, "Reverse", first, from, rows[i].key)
  PROVE  IsWalk(index, "Reverse", first, from, Reverse(SubSeq(rows, 1, n)))
<1> DEFINE s == SubSeq(rows, 1, n)
           w == Reverse(s)
           N == Len(rows)
<1>0. /\ N \in Nat /\ rows \in Seq(Entries(index))
      /\ \A i \in 1 .. N : rows[i].lev \in Levs /\ rows[i].key = Key[index][rows[i].lev] /\ rows[i] \in Entries(index)
  BY RowsOrder DEF IsRows
<1>1. n \in Nat /\ Len(s) = n /\ \A i \in 1 .. n : i \in 1 .. N /\ s[i] = rows[i]
  BY <1>0
<1> HIDE DEF s
<1>2. w = [i \in 1 .. n |-> s[(n - i) + 1]]
  BY <1>1 DEF Reverse
<1> HIDE DEF w
<1>3. ASSUME NEW i \in 1 .. n PROVE n - i + 1 \in 1 .. n /\ w[i] = rows[n - i + 1] /\ n - i + 1 \in 1 .. N
  <2>1. n - i + 1 \in 1 .. n
    BY <1>1
  <2> QED
    BY <1>1, <1>2, <2>1
<1>4. w \in Seq(Entries(index)) /\ Len(w) = n
  <2>1. w = [i \in 1 .. n |-> w[i]] /\ \A i \in 1 .. n : w[i] \in Entries(index)
    BY <1>0, <1>2, <1>3
  <2>2. w \in [1 .. n -> Entries(index)]
    BY <2>1
  <2> QED
    BY <1>1, <2>2
<1>5. ASSUME NEW i \in 1 .. n, NEW j \in 1 .. n, i < j
      PROVE  Ahead(index, "Reverse", w[i].lev, w[j].lev)
  <2>1. n - j + 1 < n - i + 1
    BY <1>1, <1>5
  <2>2. EntryLess(index, rows[n - j + 1].lev, rows[n - i + 1].lev)
    BY <1>3, <2>1 DEF IsRows
  <2> QED
    BY <1>3, <2>2 DEF Ahead
<1>6. \A i \in 1 .. n : w[i].lev \in present /\ Beyond(index, "Reverse", first, from, w[i].key)
  <2> SUFFICES ASSUME NEW i \in 1 .. n PROVE w[i].lev \in present /\ Beyond(index, "Reverse", first, from, w[i].key)
    OBVIOUS
  <2>1. n - i + 1 <= n /\ n - i + 1 \in 1 .. N /\ w[i] = rows[n - i + 1]
    BY <1>1, <1>3
  <2> QED
    BY <2>1 DEF IsRows
<1>7. ASSUME NEW l \in present, Beyond(index, "Reverse", first, from, Key[index][l])
      PROVE  \E i \in 1 .. n : w[i].lev = l
  <2>1. PICK j \in 1 .. N : rows[j].lev = l
    BY DEF IsRows
  <2>2. j <= n
    BY <1>0, <1>7, <2>1
  <2>3. n - j + 1 \in 1 .. n /\ n - (n - j + 1) + 1 = j
    BY <1>0, <1>1, <2>2
  <2> QED
    BY <1>3, <2>1, <2>3
<1>8. IsWalk(index, "Reverse", first, from, w)
  BY <1>4, <1>5, <1>6, <1>7 DEF IsWalk
<1> QED
  BY <1>8 DEF w, s

\* A walk of a scan, in both directions, from its start key and behind a resume key.
LEMMA WalkIs ==
  ASSUME NEW index \in EventIndexes, present \subseteq Levs, NEW direction \in {"Forward", "Reverse"},
         NEW first \in BOOLEAN, NEW from, IsKey(index, from)
  PROVE  IsWalk(index, direction, first, from, Walk(index, Rows(index), direction, from, first))
<1> DEFINE rows == Rows(index)
           n == SetRange(index, rows, from)
<1>0. IsRows(index, rows)
  BY RowsAre
<1> HIDE DEF rows
<1>1. /\ Len(rows) \in Nat
      /\ \A i \in 1 .. Len(rows) :
            /\ rows[i].lev \in Levs /\ rows[i].key = Key[index][rows[i].lev] /\ IsKey(index, rows[i].key)
      /\ \A i, j \in 1 .. Len(rows) : i <= j => ~Less(index, rows[j].key, rows[i].key)
  BY <1>0, RowsOrder
<1>2. /\ n \in 1 .. Len(rows) + 1
      /\ \A i \in 1 .. Len(rows) : i < n <=> Less(index, rows[i].key, from)
  BY <1>0, SetRangeIs
<1>3. CASE direction = "Forward" /\ first
  <2>1. Walk(index, rows, direction, from, first) = SubSeq(rows, n, Len(rows))
    BY <1>3 DEF Walk, RangeFrom, Included
  <2> HIDE DEF n
  <2>2. \A i \in 1 .. Len(rows) : n <= i <=> Beyond(index, "Forward", first, from, rows[i].key)
    BY <1>1, <1>2, <1>3 DEF Beyond
  <2>3. IsWalk(index, "Forward", first, from, SubSeq(rows, n, Len(rows)))
    BY <1>0, <1>2, <2>2, RowsFrom
  <2> QED
    BY <1>3, <2>1, <2>3 DEF rows
<1>4. CASE direction = "Forward" /\ ~first
  <2> DEFINE b == Behind(index, rows, from)
  <2>1. Walk(index, rows, direction, from, first) = SubSeq(rows, b, Len(rows))
    BY <1>4 DEF Walk, RangeFrom, Excluded
  <2>2. b \in 1 .. Len(rows) + 1 /\ \A i \in 1 .. Len(rows) : i < b <=> ~Less(index, from, rows[i].key)
    BY <1>0, BehindIs
  <2> HIDE DEF b
  <2>3. \A i \in 1 .. Len(rows) : b <= i <=> Beyond(index, "Forward", first, from, rows[i].key)
    BY <1>1, <1>4, <2>2 DEF Beyond
  <2>4. IsWalk(index, "Forward", first, from, SubSeq(rows, b, Len(rows)))
    BY <1>0, <2>2, <2>3, RowsFrom
  <2> QED
    BY <1>4, <2>1, <2>4 DEF rows
<1>5. CASE direction = "Reverse" /\ ~first
  <2>1. Walk(index, rows, direction, from, first) = Reverse(SubSeq(rows, 1, n - 1))
    BY <1>5 DEF Walk, RevRange, Excluded
  <2> HIDE DEF n
  <2>2. n - 1 \in 0 .. Len(rows) /\ \A i \in 1 .. Len(rows) : i <= n - 1 <=> Beyond(index, "Reverse", first, from, rows[i].key)
    BY <1>1, <1>2, <1>5 DEF Beyond
  <2>3. IsWalk(index, "Reverse", first, from, Reverse(SubSeq(rows, 1, n - 1)))
    BY <1>0, <2>2, RowsUpTo
  <2> QED
    BY <1>5, <2>1, <2>3 DEF rows
<1>6. CASE direction = "Reverse" /\ first /\ CreatedAt(from) < U64Max
  <2> DEFINE up == Prefix(from) \o Le(CreatedAt(from) + 1)
             m == SetRange(index, rows, up)
  <2>1. IsKey(index, up) /\ \A k : IsKey(index, k) => (Less(index, k, up) <=> ~Less(index, from, k))
    BY <1>6, UpperBound
  <2>2. Walk(index, rows, direction, from, first) = Reverse(SubSeq(rows, 1, m - 1))
    BY <1>6 DEF Walk, RevRange, ReverseUpperBound
  <2> HIDE DEF up
  <2>3. m \in 1 .. Len(rows) + 1 /\ \A i \in 1 .. Len(rows) : i < m <=> Less(index, rows[i].key, up)
    BY <1>0, <2>1, SetRangeIs
  <2> HIDE DEF m
  <2>4. m - 1 \in 0 .. Len(rows) /\ \A i \in 1 .. Len(rows) : i <= m - 1 <=> i < m
    BY <1>1, <2>3
  <2>5. \A i \in 1 .. Len(rows) : i <= m - 1 <=> Beyond(index, "Reverse", first, from, rows[i].key)
    BY <1>1, <1>6, <2>1, <2>3, <2>4 DEF Beyond
  <2>6. IsWalk(index, "Reverse", first, from, Reverse(SubSeq(rows, 1, m - 1)))
    BY <1>0, <2>4, <2>5, RowsUpTo
  <2> QED
    BY <1>6, <2>2, <2>6 DEF rows
<1>7. CASE direction = "Reverse" /\ first /\ ~(CreatedAt(from) < U64Max)
  <2> DEFINE found == n <= Len(rows) /\ (n <= Len(rows) => rows[n].key = from)
             m == IF found THEN n ELSE n - 1
  <2>1. Walk(index, rows, direction, from, first) = Reverse(SubSeq(rows, 1, m))
    BY <1>7 DEF Walk, RevRange, ReverseUpperBound
  <2>2. CreatedAt(from) = U64Max
    BY <1>7, KeyParts
  <2> HIDE DEF n
  <2>3. m \in 0 .. Len(rows)
    BY <1>1, <1>2
  <2>4. ASSUME NEW i \in 1 .. Len(rows), i > n PROVE Less(index, from, rows[i].key)
    <3> SUFFICES ASSUME ~Less(index, from, rows[i].key) PROVE FALSE
      OBVIOUS
    <3>1. n \in 1 .. Len(rows) /\ n <= i
      BY <1>1, <1>2, <2>4
    <3>2. IsKey(index, rows[n].key) /\ IsKey(index, rows[i].key)
      BY <1>1, <3>1
    <3>3. ~Less(index, rows[i].key, from) /\ ~Less(index, rows[n].key, from)
      BY <1>1, <1>2, <2>4, <3>1
    <3>4. rows[i].key = from
      BY <3>2, <3>3, LessOrder
    <3>5. ~Less(index, from, rows[n].key)
      <4>1. ~Less(index, rows[i].key, rows[n].key)
        BY <1>1, <3>1
      <4> QED
        BY <3>4, <4>1
    <3>6. rows[n].key = from
      BY <3>2, <3>3, <3>5, LessOrder
    <3> DEFINE l == rows[i].lev
               k == rows[n].lev
    <3>7. l \in Levs /\ k \in Levs /\ Key[index][l] = from /\ Key[index][k] = from
      BY <1>1, <3>1, <3>4, <3>6
    <3>8. EntryLess(index, k, l)
      BY <1>0, <1>1, <1>2, <2>4, <3>1 DEF IsRows
    <3> HIDE DEF l, k
    <3>9. Catalog[l].created_at = U64Max /\ Catalog[k].created_at = U64Max
      BY <2>2, <3>7, KeyIs
    <3>10. l = k
      BY <3>7, <3>9, ReaderConstants, Zenon
    <3> QED
      BY <3>7, <3>8, <3>10, EntryOrder
  <2>5. ASSUME NEW i \in 1 .. Len(rows), i < n PROVE ~Less(index, from, rows[i].key)
    BY <1>1, <1>2, <2>5, LessOrder
  <2>6. ASSUME n \in 1 .. Len(rows) PROVE found <=> ~Less(index, from, rows[n].key)
    <3>1. IsKey(index, rows[n].key) /\ ~Less(index, rows[n].key, from) /\ n <= Len(rows)
      BY <1>1, <1>2, <2>6
    <3>2. ~Less(index, from, from) /\ (rows[n].key # from => Less(index, from, rows[n].key))
      BY <3>1, LessOrder
    <3> QED
      BY <3>1, <3>2
  <2>7. ASSUME NEW i \in 1 .. Len(rows) PROVE i <= m <=> Beyond(index, "Reverse", first, from, rows[i].key)
    <3>1. Beyond(index, "Reverse", first, from, rows[i].key) <=> ~Less(index, from, rows[i].key)
      BY <1>7 DEF Beyond
    <3>2. CASE i < n
      <4>1. i <= m
        BY <1>1, <1>2, <3>2
      <4> QED
        BY <2>5, <3>1, <3>2, <4>1
    <3>3. CASE i = n
      <4>1. n \in 1 .. Len(rows)
        BY <3>3
      <4>2. i <= m <=> found
        BY <1>1, <1>2, <3>3
      <4> HIDE DEF found, m
      <4>3. found <=> ~Less(index, from, rows[n].key)
        BY <2>6, <4>1
      <4> QED
        BY <3>1, <3>3, <4>2, <4>3
    <3>4. CASE i > n
      <4>1. ~(i <= m)
        BY <1>1, <1>2, <3>4
      <4> QED
        BY <2>4, <3>1, <3>4, <4>1
    <3> QED
      BY <1>1, <1>2, <3>2, <3>3, <3>4
  <2> HIDE DEF m
  <2>8. IsWalk(index, "Reverse", first, from, Reverse(SubSeq(rows, 1, m)))
    BY <1>0, <2>3, <2>7, RowsUpTo
  <2> QED
    BY <1>7, <2>1, <2>8 DEF rows
<1> QED
  BY <1>3, <1>4, <1>5, <1>6, <1>7

\* Ahead is the order of the walk, and of the keys.
LEMMA AheadOrder ==
  ASSUME NEW index \in EventIndexes, NEW direction, NEW a \in Entries(index), NEW b \in Entries(index),
         Ahead(index, direction, a.lev, b.lev)
  PROVE  /\ ~Beyond(index, direction, FALSE, b.key, a.key)
         /\ a.key # b.key => Beyond(index, direction, FALSE, a.key, b.key)
<1>1. /\ a.lev \in Levs /\ a.key = Key[index][a.lev] /\ IsKey(index, a.key)
      /\ b.lev \in Levs /\ b.key = Key[index][b.lev] /\ IsKey(index, b.key)
  BY EntryIs
<1>2. a.key # b.key => Less(index, a.key, b.key) \/ Less(index, b.key, a.key)
  BY <1>1, LessOrder
<1>3. EntryLess(index, a.lev, b.lev) => ~Less(index, b.key, a.key)
  BY <1>1, EntryOrder
<1>4. EntryLess(index, b.lev, a.lev) => ~Less(index, a.key, b.key)
  BY <1>1, EntryOrder
<1> QED
  BY <1>2, <1>3, <1>4 DEF Ahead, Beyond

\* Strictly beyond is an order too.
LEMMA BeyondOrder ==
  ASSUME NEW index, NEW direction, NEW a, NEW b, NEW c, IsKey(index, a), IsKey(index, b), IsKey(index, c)
  PROVE  /\ ~Beyond(index, direction, FALSE, a, a)
         /\ Beyond(index, direction, FALSE, a, b) => ~Beyond(index, direction, FALSE, b, a)
         /\ a # b => Beyond(index, direction, FALSE, a, b) \/ Beyond(index, direction, FALSE, b, a)
         /\ Beyond(index, direction, FALSE, a, b) /\ ~Beyond(index, direction, FALSE, c, b)
              => Beyond(index, direction, FALSE, a, c)
         /\ ~Beyond(index, direction, FALSE, b, a) /\ Beyond(index, direction, FALSE, b, c)
              => Beyond(index, direction, FALSE, a, c)
         /\ ~Beyond(index, direction, FALSE, b, a) /\ ~Beyond(index, direction, FALSE, c, b)
              => ~Beyond(index, direction, FALSE, c, a)
         /\ Beyond(index, direction, TRUE, a, b) <=> ~Beyond(index, direction, FALSE, b, a)
<1>1. ~Less(index, a, a) /\ (Less(index, a, b) => ~Less(index, b, a)) /\ (a # b => Less(index, a, b) \/ Less(index, b, a))
  BY LessOrder
<1>2. /\ ~Less(index, b, a) /\ Less(index, b, c) => Less(index, a, c)
      /\ Less(index, a, b) /\ ~Less(index, c, b) => Less(index, a, c)
      /\ ~Less(index, b, a) /\ ~Less(index, c, b) => ~Less(index, c, a)
  BY LessMixed
<1>3. /\ ~Less(index, b, c) /\ Less(index, b, a) => Less(index, c, a)
      /\ Less(index, c, b) /\ ~Less(index, a, b) => Less(index, c, a)
      /\ ~Less(index, b, c) /\ ~Less(index, a, b) => ~Less(index, a, c)
  BY LessMixed
<1> QED
  BY <1>1, <1>2, <1>3 DEF Beyond

\* One window of a scan: nothing that it met is left behind its last key.
IsWindow(index, direction, first, from, b) ==
    /\ b \in Seq(Entries(index))
    /\ \A i, j \in 1 .. Len(b) : i < j => Ahead(index, direction, b[i].lev, b[j].lev)
    /\ \A i \in 1 .. Len(b) : b[i].lev \in present /\ Beyond(index, direction, first, from, b[i].key)
    /\ Len(b) = 0 => \A l \in present : ~Beyond(index, direction, first, from, Key[index][l])
    /\ Len(b) > 0 => \A l \in present : Beyond(index, direction, first, from, Key[index][l]) =>
          \/ \E i \in 1 .. Len(b) : b[i].lev = l
          \/ Beyond(index, direction, FALSE, b[Len(b)].key, Key[index][l])

\* collect_window: a window ends between two keys and leaves out nothing before its end.
LEMMA WindowIs ==
  ASSUME NEW index \in EventIndexes, present \subseteq Levs, NEW direction \in {"Forward", "Reverse"},
         NEW first \in BOOLEAN, NEW from, IsKey(index, from)
  PROVE  IsWindow(index, direction, first, from,
                  CollectWindow(index, Rows(index), direction, from, first, WINDOW))
<1> DEFINE w == Walk(index, Rows(index), direction, from, first)
           ends == {n \in 0 .. Len(w) : \/ n = Len(w)
                                        \/ n >= WINDOW /\ (n = 0 \/ w[n].key # w[n + 1].key)}
           m == Min(ends)
           b == SubSeq(w, 1, m)
<1>0. IsWalk(index, direction, first, from, w) /\ WINDOW \in Nat /\ WINDOW > 0
  <2>1. WINDOW \in Nat \ {0}
    BY ReaderConstants, Zenon
  <2> QED
    BY <2>1, WalkIs
<1>1. CollectWindow(index, Rows(index), direction, from, first, WINDOW) = b
  BY DEF CollectWindow
<1> HIDE DEF w
<1>2. /\ w \in Seq(Entries(index)) /\ Len(w) \in Nat
      /\ \A i \in 1 .. Len(w) : w[i] \in Entries(index)
  BY <1>0 DEF IsWalk
<1>3. ends \subseteq Nat /\ Len(w) \in ends
  BY <1>2
<1>4. m \in ends
  <2> HIDE DEF ends
  <2> QED
    BY <1>3, MinIs
<1>5. m \in 0 .. Len(w) /\ (m = Len(w) \/ (m >= WINDOW /\ (m = 0 \/ w[m].key # w[m + 1].key)))
  BY <1>4
<1> HIDE DEF m, ends
<1>6. b \in Seq(Entries(index)) /\ Len(b) = m /\ m \in Nat /\ \A i \in 1 .. m : b[i] = w[i] /\ i \in 1 .. Len(w)
  BY <1>2, <1>5
<1> HIDE DEF b
<1>7. m = 0 => Len(w) = 0
  BY <1>0, <1>2, <1>5
<1>8. /\ \A i, j \in 1 .. m : i < j => Ahead(index, direction, b[i].lev, b[j].lev)
      /\ \A i \in 1 .. m : b[i].lev \in present /\ Beyond(index, direction, first, from, b[i].key)
  BY <1>0, <1>6 DEF IsWalk
<1>9. ASSUME m = 0 PROVE \A l \in present : ~Beyond(index, direction, first, from, Key[index][l])
  <2>1. 1 .. Len(w) = {}
    BY <1>7, <1>9
  <2> QED
    BY <1>0, <2>1 DEF IsWalk
<1>10. ASSUME m > 0, NEW l \in present, Beyond(index, direction, first, from, Key[index][l]),
              ~\E i \in 1 .. m : b[i].lev = l
       PROVE  Beyond(index, direction, FALSE, b[m].key, Key[index][l])
  <2>1. PICK j \in 1 .. Len(w) : w[j].lev = l
    BY <1>0, <1>10 DEF IsWalk
  <2>2. j > m
    BY <1>2, <1>5, <1>6, <1>10, <2>1
  <2>3. m \in 1 .. Len(w) /\ m + 1 \in 1 .. Len(w) /\ m < m + 1 /\ m + 1 <= j /\ m < j
    BY <1>2, <1>5, <1>6, <1>10, <2>1, <2>2
  <2>4. w[m].key # w[m + 1].key
    BY <1>2, <1>5, <1>10, <2>2, <2>3
  <2>5. w[m] \in Entries(index) /\ w[m + 1] \in Entries(index) /\ w[j] \in Entries(index)
    BY <1>2, <2>3
  <2> DEFINE x == w[m]
             y == w[m + 1]
             z == w[j]
  <2>6. /\ x \in Entries(index) /\ y \in Entries(index) /\ z \in Entries(index) /\ x.key # y.key
        /\ Ahead(index, direction, x.lev, y.lev)
        /\ y = z \/ Ahead(index, direction, y.lev, z.lev)
    <3>1. Ahead(index, direction, w[m].lev, w[m + 1].lev)
      BY <1>0, <2>3 DEF IsWalk
    <3>2. j = m + 1 \/ m + 1 < j
      BY <2>1, <2>3
    <3>3. m + 1 < j => Ahead(index, direction, w[m + 1].lev, w[j].lev)
      BY <1>0, <2>3 DEF IsWalk
    <3> QED
      BY <2>4, <2>5, <3>1, <3>2, <3>3
  <2> HIDE DEF x, y, z
  <2>7. Beyond(index, direction, FALSE, x.key, z.key)
    <3>1. Beyond(index, direction, FALSE, x.key, y.key)
      BY <2>6, AheadOrder
    <3>2. CASE y # z
      <4>1. ~Beyond(index, direction, FALSE, z.key, y.key)
        BY <2>6, <3>2, AheadOrder
      <4>2. IsKey(index, x.key) /\ IsKey(index, y.key) /\ IsKey(index, z.key)
        BY <2>6, EntryIs
      <4> QED
        BY <3>1, <4>1, <4>2, BeyondOrder
    <3> QED
      BY <3>1, <3>2
  <2>8. z.key = Key[index][l] /\ b[m] = x
    <3>1. z.lev = l /\ b[m] = x
      BY <1>6, <1>10, <2>1, <2>3 DEF x, z
    <3> QED
      BY <2>6, <3>1, EntryIs
  <2> QED
    BY <2>7, <2>8
<1>11. IsWindow(index, direction, first, from, b)
  BY <1>6, <1>8, <1>9, <1>10 DEF IsWindow
<1> QED
  BY <1>1, <1>11

-----------------------------------------------------------------------------
(* Scans and streams                                                       *)

Way(j) == IF j.kind = "scan" THEN j.direction ELSE "Reverse"

\* An event of the range of a scan, or of the value that a stream was opened for.
Wanted(j, l) ==
    /\ Beyond(j.index, Way(j), TRUE, j.key, Key[j.index][l])
    /\ j.kind = "stream" => Prefix(Key[j.index][l]) = Prefix(j.key)

\* What a scan has read when it resumes behind r: every event of T that is wanted was
\* read or lies ahead, and what was read is in order and not beyond r.
Progress(j, T, r, first, out, done) ==
    /\ IsKey(j.index, r) /\ first \in BOOLEAN /\ Beyond(j.index, Way(j), TRUE, j.key, r)
    /\ out \in Seq(Entries(j.index))
    /\ \A i, k \in 1 .. Len(out) : i < k => Ahead(j.index, Way(j), out[i].lev, out[k].lev)
    /\ \A i \in 1 .. Len(out) :
          /\ Beyond(j.index, Way(j), TRUE, j.key, out[i].key)
          /\ j.kind = "stream" => IsPrefix(Prefix(j.key), out[i].key)
    /\ first => Len(out) = 0 /\ r = j.key
    /\ ~first => \A i \in 1 .. Len(out) : ~Beyond(j.index, Way(j), FALSE, r, out[i].key)
    /\ \A l \in T : Wanted(j, l) =>
          \/ \E i \in 1 .. Len(out) : out[i].lev = l
          \/ ~done /\ Beyond(j.index, Way(j), first, r, Key[j.index][l])

\* The jobs that walk an index.
Walks(j) ==
    /\ j.kind \in {"scan", "stream"} /\ j.index \in EventIndexes /\ Way(j) \in {"Forward", "Reverse"}
    /\ IsKey(j.index, j.key)

\* A scan or a stream starts at a key of its index.
LEMMA JobWalks ==
  ASSUME NEW j \in Jobs, j.kind \in {"scan", "stream"}
  PROVE  Walks(j)
<1>1. /\ j.index \in EventIndexes /\ j.direction \in {"Forward", "Reverse"}
      /\ j.key \in Seq(0 .. Base - 1) /\ Len(j.key) >= TrailingIntegers(j.index) * Width
  BY ReaderConstants, Zenon
<1>2. IsKey(j.index, j.key)
  BY <1>1 DEF IsKey, Byte
<1>3. Way(j) \in {"Forward", "Reverse"}
  BY <1>1 DEF Way
<1> QED
  BY <1>1, <1>2, <1>3 DEF Walks

\* A key that is strictly beyond another one is behind it in the walk.
LEMMA BeyondAhead ==
  ASSUME NEW index \in EventIndexes, NEW direction, NEW a \in Entries(index), NEW b \in Entries(index),
         Beyond(index, direction, FALSE, a.key, b.key)
  PROVE  Ahead(index, direction, a.lev, b.lev)
<1>1. /\ a.key = Key[index][a.lev] /\ b.key = Key[index][b.lev]
  BY EntryIs
<1> QED
  BY <1>1 DEF Beyond, Ahead, EntryLess

\* A window takes the scan on.
LEMMA ProgressMade ==
  ASSUME NEW j, Walks(j), NEW T, T \subseteq present, present \subseteq Levs,
         NEW r, NEW first, NEW out, Progress(j, T, r, first, out, FALSE),
         NEW b, IsWindow(j.index, Way(j), first, r, b),
         NEW g \in 0 .. Len(b), NEW done \in BOOLEAN,
         j.kind = "stream" => \A i \in 1 .. g : IsPrefix(Prefix(j.key), b[i].key),
         \A i \in 1 .. Len(b) : i > g => ~Wanted(j, b[i].lev),
         done => \A l \in T : Wanted(j, l) => ~Beyond(j.index, Way(j), first, r, Key[j.index][l])
  PROVE  Progress(j, T, IF Len(b) = 0 THEN r ELSE b[Len(b)].key, FALSE, out \o SubSeq(b, 1, g), done)
<1> DEFINE ix == j.index
           way == Way(j)
           s == IF Len(b) = 0 THEN r ELSE b[Len(b)].key
           new == SubSeq(b, 1, g)
           all == out \o new
           n == Len(out)
<1>0. /\ ix \in EventIndexes /\ way \in {"Forward", "Reverse"} /\ IsKey(ix, j.key) /\ IsKey(ix, r)
      /\ first \in BOOLEAN /\ Beyond(ix, way, TRUE, j.key, r)
      /\ out \in Seq(Entries(ix)) /\ n \in Nat /\ b \in Seq(Entries(ix)) /\ Len(b) \in Nat
      /\ first => n = 0 /\ r = j.key
  <2>1. ix \in EventIndexes /\ way \in {"Forward", "Reverse"} /\ IsKey(ix, j.key)
    BY DEF Walks
  <2>2. /\ IsKey(ix, r) /\ first \in BOOLEAN /\ Beyond(ix, way, TRUE, j.key, r) /\ out \in Seq(Entries(ix))
        /\ first => n = 0 /\ r = j.key
    BY DEF Progress
  <2>3. b \in Seq(Entries(ix))
    BY DEF IsWindow
  <2>4. n \in Nat /\ Len(b) \in Nat
    BY <2>2, <2>3
  <2> QED
    BY <2>1, <2>2, <2>3, <2>4
<1>1. /\ new \in Seq(Entries(ix)) /\ Len(new) = g /\ g \in Nat
      /\ \A i \in 1 .. g : new[i] = b[i] /\ i \in 1 .. Len(b)
  BY <1>0
<1> HIDE DEF new
<1>2. /\ all \in Seq(Entries(ix)) /\ Len(all) = n + g
      /\ \A i \in 1 .. n : all[i] = out[i]
      /\ \A i \in 1 .. g : all[n + i] = new[i]
  <2> DEFINE E == Entries(ix)
  <2>1. out \in Seq(E) /\ new \in Seq(E) /\ Len(new) = g /\ g \in Nat
    BY <1>0, <1>1
  <2> HIDE DEF E
  <2>2. all \in Seq(E) /\ Len(all) = n + g
    BY <2>1
  <2>3. \A i \in 1 .. n : all[i] = out[i]
    BY <2>1
  <2>4. \A i \in 1 .. g : all[n + i] = new[i]
    BY <2>1
  <2> QED
    BY <2>2, <2>3, <2>4 DEF E
<1> HIDE DEF all, n
<1>3. ASSUME NEW i \in 1 .. n + g
      PROVE  i \in 1 .. n \/ (i - n \in 1 .. g /\ all[i] = b[i - n])
  <2>1. i > n => i - n \in 1 .. g /\ n + (i - n) = i
    BY <1>0, <1>1 DEF n
  <2> QED
    BY <1>0, <1>1, <1>2, <2>1 DEF n
<1>4. ASSUME NEW i \in 1 .. n
      PROVE  /\ out[i] \in Entries(ix) /\ IsKey(ix, out[i].key) /\ all[i] = out[i] /\ first = FALSE
             /\ Beyond(ix, way, TRUE, j.key, out[i].key) /\ ~Beyond(ix, way, FALSE, r, out[i].key)
             /\ j.kind = "stream" => IsPrefix(Prefix(j.key), out[i].key)
  <2>1. out[i] \in Entries(ix) /\ n # 0
    BY <1>0 DEF n
  <2>2. IsKey(ix, out[i].key)
    BY <1>0, <2>1, EntryIs
  <2>3. first = FALSE
    BY <1>0, <2>1
  <2> QED
    BY <1>2, <2>1, <2>2, <2>3 DEF Progress, n
<1>5. ASSUME NEW i \in 1 .. Len(b)
      PROVE  /\ b[i] \in Entries(ix) /\ IsKey(ix, b[i].key)
             /\ Beyond(ix, way, first, r, b[i].key)
             /\ Beyond(ix, way, TRUE, j.key, b[i].key)
  <2>1. b[i] \in Entries(ix)
    BY <1>0
  <2>2. IsKey(ix, b[i].key)
    BY <1>0, <2>1, EntryIs
  <2>3. Beyond(ix, way, first, r, b[i].key)
    BY DEF IsWindow
  <2>4. Beyond(ix, way, TRUE, j.key, b[i].key)
    <3> DEFINE k == b[i].key
    <3> HIDE DEF k, ix, way
    <3>1. CASE first = TRUE
      BY <1>0, <2>3, <3>1 DEF k
    <3>2. CASE first = FALSE
      <4>1. IsKey(ix, k) /\ Beyond(ix, way, FALSE, r, k)
        BY <2>2, <2>3, <3>2 DEF k
      <4>2. ~Beyond(ix, way, FALSE, r, j.key)
        BY <1>0, BeyondOrder
      <4>3. Beyond(ix, way, FALSE, j.key, k)
        BY <1>0, <4>1, <4>2, BeyondOrder
      <4>4. ~Beyond(ix, way, FALSE, k, j.key)
        BY <1>0, <4>1, <4>3, BeyondOrder
      <4>5. Beyond(ix, way, TRUE, j.key, k)
        BY <1>0, <4>1, <4>4, BeyondOrder
      <4> QED
        BY <4>5 DEF k
    <3> QED
      BY <1>0, <3>1, <3>2
  <2> QED
    BY <2>1, <2>2, <2>3, <2>4
<1>6. ASSUME NEW i \in 1 .. n, NEW k \in 1 .. Len(b)
      PROVE  Beyond(ix, way, FALSE, out[i].key, b[k].key) /\ Ahead(ix, way, out[i].lev, b[k].lev)
  <2> DEFINE x == out[i]
             y == b[k]
  <2>1. /\ x \in Entries(ix) /\ IsKey(ix, x.key) /\ ~Beyond(ix, way, FALSE, r, x.key)
        /\ y \in Entries(ix) /\ IsKey(ix, y.key) /\ Beyond(ix, way, FALSE, r, y.key)
    BY <1>4, <1>5
  <2> HIDE DEF x, y, ix, way
  <2>2. Beyond(ix, way, FALSE, x.key, y.key)
    BY <1>0, <2>1, BeyondOrder
  <2>3. Ahead(ix, way, x.lev, y.lev)
    BY <1>0, <2>1, <2>2, BeyondAhead
  <2> QED
    BY <2>2, <2>3 DEF x, y
<1>7. IsKey(ix, s) /\ Beyond(ix, way, TRUE, j.key, s)
  <2>1. CASE Len(b) = 0
    BY <1>0, <2>1
  <2>2. CASE Len(b) # 0
    <3>1. Len(b) \in 1 .. Len(b)
      BY <1>0, <2>2
    <3> QED
      BY <1>5, <2>2, <3>1
  <2> QED
    BY <2>1, <2>2
<1>8. ASSUME NEW i \in 1 .. n + g, NEW k \in 1 .. n + g, i < k PROVE Ahead(ix, way, all[i].lev, all[k].lev)
  <2>1. CASE k \in 1 .. n
    <3>1. i \in 1 .. n
      BY <1>0, <1>8, <2>1 DEF n
    <3>2. Ahead(ix, way, out[i].lev, out[k].lev)
      BY <1>8, <2>1, <3>1 DEF Progress, n
    <3> QED
      BY <1>2, <2>1, <3>1, <3>2
  <2>2. CASE k \notin 1 .. n /\ i \in 1 .. n
    <3>1. k - n \in 1 .. Len(b) /\ all[k] = b[k - n]
      BY <1>1, <1>3, <2>2
    <3> QED
      BY <1>2, <1>6, <2>2, <3>1
  <2>3. CASE k \notin 1 .. n /\ i \notin 1 .. n
    <3>1. k - n \in 1 .. Len(b) /\ all[k] = b[k - n] /\ i - n \in 1 .. Len(b) /\ all[i] = b[i - n]
      BY <1>1, <1>3, <2>3
    <3>2. i - n < k - n
      BY <1>0, <1>1, <1>8 DEF n
    <3>3. Ahead(ix, way, b[i - n].lev, b[k - n].lev)
      BY <3>1, <3>2 DEF IsWindow
    <3> QED
      BY <3>1, <3>3
  <2> QED
    BY <2>1, <2>2, <2>3
<1>9. ASSUME NEW i \in 1 .. n + g
      PROVE  /\ Beyond(ix, way, TRUE, j.key, all[i].key)
             /\ j.kind = "stream" => IsPrefix(Prefix(j.key), all[i].key)
             /\ ~Beyond(ix, way, FALSE, s, all[i].key)
  <2>1. CASE i \in 1 .. n
    <3>1. CASE Len(b) = 0
      BY <1>4, <2>1, <3>1
    <3>2. CASE Len(b) # 0
      <4>1. Len(b) \in 1 .. Len(b)
        BY <1>0, <3>2
      <4> DEFINE x == out[i].key
                 y == b[Len(b)].key
      <4>2. Beyond(ix, way, FALSE, x, y) /\ IsKey(ix, x) /\ IsKey(ix, y)
        BY <1>4, <1>5, <1>6, <2>1, <4>1
      <4> HIDE DEF x, y, ix, way
      <4>3. ~Beyond(ix, way, FALSE, y, x)
        BY <1>0, <4>2, BeyondOrder
      <4>4. ~Beyond(ix, way, FALSE, s, out[i].key)
        BY <3>2, <4>3 DEF x, y
      <4> QED
        BY <1>4, <2>1, <4>4 DEF ix, way
    <3> QED
      BY <3>1, <3>2
  <2>2. CASE i \notin 1 .. n
    <3>1. i - n \in 1 .. g /\ i - n \in 1 .. Len(b) /\ all[i] = b[i - n]
      BY <1>1, <1>3, <2>2
    <3>2. Len(b) # 0 /\ Len(b) \in 1 .. Len(b) /\ i - n <= Len(b)
      BY <1>0, <3>1
    <3> DEFINE x == b[i - n]
               y == b[Len(b)]
    <3>3. x \in Entries(ix) /\ y \in Entries(ix) /\ IsKey(ix, x.key) /\ IsKey(ix, y.key)
      BY <1>5, <3>1, <3>2
    <3>4. x = y \/ Ahead(ix, way, x.lev, y.lev)
      <4>1. i - n = Len(b) \/ i - n < Len(b)
        BY <1>0, <3>1, <3>2
      <4> QED
        BY <3>1, <3>2, <4>1 DEF IsWindow
    <3>5. s = y.key /\ all[i] = x
      BY <3>1, <3>2
    <3> HIDE DEF x, y, ix, way, s
    <3>6. ~Beyond(ix, way, FALSE, y.key, x.key)
      <4>1. CASE x = y
        BY <3>3, <4>1, BeyondOrder
      <4>2. CASE Ahead(ix, way, x.lev, y.lev)
        BY <1>0, <3>3, <4>2, AheadOrder
      <4> QED
        BY <3>4, <4>1, <4>2
    <3>7. Beyond(ix, way, TRUE, j.key, x.key) /\ (j.kind = "stream" => IsPrefix(Prefix(j.key), x.key))
      BY <1>5, <3>1 DEF x, ix, way
    <3> QED
      BY <3>5, <3>6, <3>7 DEF ix, way
  <2> QED
    BY <2>1, <2>2
<1>10. ASSUME NEW l \in T, Wanted(j, l)
       PROVE  \/ \E i \in 1 .. n + g : all[i].lev = l
              \/ ~done /\ Beyond(ix, way, FALSE, s, Key[ix][l])
  <2>1. CASE \E i \in 1 .. n : out[i].lev = l
    <3>1. \A i \in 1 .. n : i \in 1 .. n + g
      BY <1>0, <1>1 DEF n
    <3> QED
      BY <1>2, <2>1, <3>1
  <2>2. CASE ~\E i \in 1 .. n : out[i].lev = l
    <3>1. Beyond(ix, way, first, r, Key[ix][l])
      BY <1>10, <2>2 DEF Progress, n
    <3>2. ~done
      BY <1>10, <3>1
    <3>3. l \in present /\ Len(b) # 0
      BY <3>1, <1>0 DEF IsWindow
    <3>4. (\E i \in 1 .. Len(b) : b[i].lev = l) \/ Beyond(ix, way, FALSE, b[Len(b)].key, Key[ix][l])
      <4>1. Len(b) > 0
        BY <1>0, <3>3
      <4>2. Len(b) > 0 => \A m \in present : Beyond(ix, way, first, r, Key[ix][m]) =>
               \/ \E i \in 1 .. Len(b) : b[i].lev = m
               \/ Beyond(ix, way, FALSE, b[Len(b)].key, Key[ix][m])
        BY Zenon DEF IsWindow
      <4> QED
        BY <3>1, <3>3, <4>1, <4>2
    <3>5. ASSUME NEW i \in 1 .. Len(b), b[i].lev = l PROVE \E k \in 1 .. n + g : all[k].lev = l
      <4>1. i \in 1 .. g
        BY <1>0, <1>1, <1>10, <3>5
      <4>2. n + i \in 1 .. n + g /\ all[n + i] = b[i]
        BY <1>0, <1>1, <1>2, <4>1 DEF n
      <4> QED
        BY <3>5, <4>2
    <3> QED
      BY <3>2, <3>3, <3>4, <3>5
  <2> QED
    BY <2>1, <2>2
<1> HIDE DEF s
<1>11. Progress(j, T, s, FALSE, all, done)
  BY <1>2, <1>7, <1>8, <1>9, <1>10 DEF Progress
<1> QED
  BY <1>11 DEF s, all, new

\* The guard of a stream compares with the prefix of the start key.
LEMMA PrefixIsPrefix ==
  ASSUME NEW k \in Seq(Byte), Len(k) >= Width
  PROVE  IsPrefix(Prefix(k), k)
<1> DEFINE m == Len(k) - Width
<1>0. Width \in Nat /\ Len(k) \in Nat /\ m \in Nat /\ m <= Len(k)
  BY KeyBytesConstants
<1>1. Prefix(k) = SubSeq(k, 1, m)
  BY DEF Prefix
<1> HIDE DEF m
<1>2. Len(SubSeq(k, 1, m)) = m /\ SubSeq(k, 1, m) \in Seq(Byte)
  BY <1>0
<1>3. SubSeq(SubSeq(k, 1, m), 1, m) = SubSeq(k, 1, m)
  BY <1>0, <1>2
<1> QED
  BY <1>0, <1>1, <1>2, <1>3 DEF IsPrefix

\* Of keys of one length, one that starts with another's prefix has that prefix.
LEMMA PrefixOfLength ==
  ASSUME NEW k \in Seq(Byte), NEW key \in Seq(Byte), Len(k) >= Width, Len(key) = Len(k), IsPrefix(Prefix(key), k)
  PROVE  Prefix(k) = Prefix(key)
<1> DEFINE p == Prefix(key)
<1>0. Width \in Nat /\ Len(k) \in Nat /\ Len(key) >= Width
  BY KeyBytesConstants
<1>1. p \in Seq(Byte) /\ Len(p) = Len(k) - Width
  BY <1>0, PrefixIs
<1> HIDE DEF p
<1>2. SubSeq(p, 1, Len(p)) = SubSeq(k, 1, Len(p))
  BY DEF IsPrefix, p
<1>3. SubSeq(p, 1, Len(p)) = p
  BY <1>1
<1>4. Prefix(k) = SubSeq(k, 1, Len(p))
  BY <1>1 DEF Prefix
<1> QED
  BY <1>2, <1>3, <1>4 DEF p

\* Once a reverse walk has met a key that the guard refuses, it meets none of the prefix.
LEMMA OutsideEnds ==
  ASSUME NEW index, NEW key, NEW k, NEW c, IsKey(index, key), IsKey(index, k), IsKey(index, c),
         ~Less(index, key, k), ~Less(index, k, c), Prefix(c) = Prefix(key), ~IsPrefix(Prefix(key), k)
  PROVE  FALSE
<1>1. Prefix(k) = Prefix(key)
  BY PrefixBetween
<1>2. k \in Seq(Byte) /\ Len(k) >= Width
  BY KeyParts DEF IsKey
<1>3. IsPrefix(Prefix(k), k)
  BY <1>2, PrefixIsPrefix
<1> QED
  BY <1>1, <1>3

\* The guard lets through the longest part of a window that has the prefix.
LEMMA GuardedIs ==
  ASSUME NEW E, NEW b \in Seq(E), NEW prefix
  PROVE  \E g \in 0 .. Len(b) :
            /\ Guarded(b, prefix) = SubSeq(b, 1, g) /\ (Guarded(b, prefix) = <<>> <=> g = 0)
            /\ \A i \in 1 .. g : IsPrefix(prefix, b[i].key)
            /\ g < Len(b) => ~IsPrefix(prefix, b[g + 1].key)
<1> DEFINE outside == {i \in DOMAIN b : ~IsPrefix(prefix, b[i].key)}
           S == {i - 1 : i \in outside} \cup {Len(b)}
           g == Min(S)
<1>0. Len(b) \in Nat /\ DOMAIN b = 1 .. Len(b)
  OBVIOUS
<1>1. S \subseteq 0 .. Len(b) /\ Len(b) \in S
  BY <1>0
<1>2. \A i \in 1 .. Len(b) : ~IsPrefix(prefix, b[i].key) => i - 1 \in S
  BY <1>0
<1>3. \A x \in S : x = Len(b) \/ (x + 1 \in 1 .. Len(b) /\ ~IsPrefix(prefix, b[x + 1].key))
  <2> SUFFICES ASSUME NEW x \in S, x # Len(b) PROVE x + 1 \in 1 .. Len(b) /\ ~IsPrefix(prefix, b[x + 1].key)
    OBVIOUS
  <2>1. PICK i \in outside : x = i - 1
    OBVIOUS
  <2>2. x + 1 = i
    BY <1>0, <2>1
  <2> QED
    BY <1>0, <2>2
<1> HIDE DEF S, outside
<1>4. g \in S /\ \A y \in S : g <= y
  <2>1. S \subseteq Nat /\ S # {}
    BY <1>0, <1>1
  <2> QED
    BY <2>1, MinIs
<1>5. Guarded(b, prefix) = SubSeq(b, 1, g)
  BY DEF Guarded, S, outside
<1> HIDE DEF g
<1>6. g \in 0 .. Len(b)
  BY <1>1, <1>4
<1>7. ASSUME NEW i \in 1 .. g PROVE IsPrefix(prefix, b[i].key)
  <2> SUFFICES ASSUME ~IsPrefix(prefix, b[i].key) PROVE FALSE
    OBVIOUS
  <2>1. i \in 1 .. Len(b) /\ ~(g <= i - 1)
    BY <1>0, <1>6
  <2>2. i - 1 \in S
    BY <1>2, <2>1
  <2> QED
    BY <1>4, <2>1, <2>2
<1>8. g < Len(b) => ~IsPrefix(prefix, b[g + 1].key)
  <2>1. g = Len(b) \/ ~IsPrefix(prefix, b[g + 1].key)
    BY <1>3, <1>4, Zenon
  <2>2. g < Len(b) => g # Len(b)
    BY <1>0
  <2> QED
    BY <2>1, <2>2, Zenon
<1>9. SubSeq(b, 1, g) = <<>> <=> g = 0
  <2>1. SubSeq(b, 1, g) \in Seq(E) /\ Len(SubSeq(b, 1, g)) = g
    BY <1>0, <1>6
  <2>2. \A s \in Seq(E) : s = <<>> <=> Len(s) = 0
    OBVIOUS
  <2> QED
    BY <2>1, <2>2
<1> QED
  BY <1>5, <1>6, <1>7, <1>8, <1>9

ScanInv ==
    /\ job \in Jobs /\ present \subseteq Levs
    /\ scan = [resume |-> scan.resume, first |-> scan.first, out |-> scan.out, done |-> scan.done]
    /\ job.kind \in {"scan", "stream"} =>
          Progress(job, Throughout, scan.resume, scan.first, scan.out, scan.done)

\* The scan invariant holds before the first window.
LEMMA ScanInit == ReaderInit => ScanInv
<1> SUFFICES ASSUME ReaderInit PROVE ScanInv
  OBVIOUS
<1>1. /\ job \in Jobs /\ present = AtStart
      /\ scan = [resume |-> IF job.kind \in {"scan", "stream"} THEN job.key ELSE <<>>,
                 first |-> TRUE, out |-> <<>>, done |-> FALSE]
  BY DEF ReaderInit
<1>2. present \subseteq Levs
  BY <1>1, ReaderConstants, Zenon
<1>3. ASSUME job.kind \in {"scan", "stream"}
      PROVE  Progress(job, Throughout, scan.resume, scan.first, scan.out, scan.done)
  <2>1. scan.resume = job.key /\ scan.first = TRUE /\ scan.out = <<>> /\ scan.done = FALSE
    BY <1>1, <1>3
  <2>2. IsKey(job.index, job.key) /\ job.index \in EventIndexes
    BY <1>1, <1>3, JobWalks DEF Walks
  <2>3. Beyond(job.index, Way(job), TRUE, job.key, job.key)
    BY <2>2, LessOrder DEF Beyond
  <2>4. scan.out \in Seq(Entries(job.index)) /\ Len(scan.out) = 0
    BY <2>1
  <2>5. \A l \in Throughout : Wanted(job, l) => Beyond(job.index, Way(job), TRUE, job.key, Key[job.index][l])
    BY DEF Wanted
  <2>6. 1 .. Len(scan.out) = {}
    BY <2>4
  <2> QED
    BY <2>1, <2>2, <2>3, <2>4, <2>5, <2>6 DEF Progress
<1> QED
  BY <1>1, <1>2, <1>3 DEF ScanInv

\* Fewer events that stay make no demand.
LEMMA ProgressKept ==
  ASSUME NEW j, NEW T, NEW U \in SUBSET T, NEW r, NEW first, NEW out, NEW done,
         Progress(j, T, r, first, out, done)
  PROVE  Progress(j, U, r, first, out, done)
BY DEF Progress

\* strfry writes between two transactions.
LEMMA ScanStrfry == ASSUME ScanInv, Strfry PROVE ScanInv'
<1>1. job' = job /\ scan' = scan
  BY DEF Strfry, StoreEvent, DeleteEvent, Train, Compress, Rest
<1>2. present' \subseteq Levs /\ Throughout' \subseteq Throughout
  <2>1. CASE StoreEvent
    <3>1. PICK l \in Levs \ AtStart : present' = present \cup {l}
      BY <2>1 DEF StoreEvent
    <3> QED
      BY <3>1 DEF ScanInv, Throughout
  <2>2. CASE DeleteEvent
    BY <2>2 DEF DeleteEvent, ScanInv, Throughout
  <2>3. CASE Train \/ Compress
    BY <2>3 DEF Train, Compress, ScanInv, Throughout
  <2> QED
    BY <2>1, <2>2, <2>3 DEF Strfry
<1>3. ASSUME job.kind \in {"scan", "stream"}
      PROVE  Progress(job, Throughout', scan.resume, scan.first, scan.out, scan.done)
  <2>1. Progress(job, Throughout, scan.resume, scan.first, scan.out, scan.done)
    BY <1>3 DEF ScanInv
  <2> QED
    BY <1>2, <2>1, ProgressKept
<1> QED
  BY <1>1, <1>2, <1>3 DEF ScanInv

\* A step of a scan that makes progress.
LEMMA ScanInvFrom ==
  ASSUME job' = job, present' = present, job \in Jobs, present \subseteq Levs, NEW r, NEW out, NEW done,
         scan' = [resume |-> r, first |-> FALSE, out |-> out, done |-> done],
         Progress(job, Throughout, r, FALSE, out, done)
  PROVE  ScanInv'
<1>1. scan'.resume = r /\ scan'.first = FALSE /\ scan'.out = out /\ scan'.done = done
  OBVIOUS
<1>2. scan' = [resume |-> scan'.resume, first |-> scan'.first, out |-> scan'.out, done |-> scan'.done]
  BY <1>1
<1>3. Throughout' = Throughout
  BY DEF Throughout
<1>4. Progress(job', Throughout', scan'.resume, scan'.first, scan'.out, scan'.done)
  BY <1>1, <1>3
<1>5. job' \in Jobs /\ present' \subseteq Levs
  OBVIOUS
<1> QED
  BY <1>2, <1>4, <1>5 DEF ScanInv

\* A window of scan_index_windowed preserves the scan invariant.
LEMMA ScanWindowStep == ASSUME ScanInv, ScanWindow PROVE ScanInv'
<1> DEFINE b == CollectWindow(job.index, Rows(job.index), job.direction, scan.resume, scan.first, WINDOW)
<1>1. /\ job.kind = "scan" /\ ~scan.done /\ job' = job /\ present' = present
      /\ scan' = IF b = <<>> THEN [scan EXCEPT !.first = FALSE, !.done = TRUE]
                 ELSE [scan EXCEPT !.resume = b[Len(b)].key, !.first = FALSE, !.out = @ \o b]
  BY DEF ScanWindow, store
<1>2. /\ job \in Jobs /\ present \subseteq Levs
      /\ scan = [resume |-> scan.resume, first |-> scan.first, out |-> scan.out, done |-> scan.done]
      /\ Progress(job, Throughout, scan.resume, scan.first, scan.out, scan.done)
  BY <1>1 DEF ScanInv
<1>3. Walks(job) /\ Way(job) = job.direction
  BY <1>1, <1>2, JobWalks DEF Way
<1>4. IsWindow(job.index, Way(job), scan.first, scan.resume, b)
  <2>1. job.index \in EventIndexes /\ job.direction \in {"Forward", "Reverse"}
    BY <1>3 DEF Walks
  <2>2. IsKey(job.index, scan.resume) /\ scan.first \in BOOLEAN
    BY <1>2 DEF Progress
  <2> QED
    BY <1>2, <1>3, <2>1, <2>2, WindowIs
<1> HIDE DEF b
<1>5. b \in Seq(Entries(job.index)) /\ Len(b) \in Nat /\ (b = <<>> <=> Len(b) = 0) /\ SubSeq(b, 1, Len(b)) = b
  BY <1>4 DEF IsWindow
<1> DEFINE done == Len(b) = 0
           r == IF Len(b) = 0 THEN scan.resume ELSE b[Len(b)].key
<1>6. Progress(job, Throughout, r, FALSE, scan.out \o b, done)
  <2>1. Progress(job, Throughout, scan.resume, scan.first, scan.out, FALSE)
    <3>1. scan.done = FALSE \/ scan.done # FALSE
      OBVIOUS
    <3> QED
      BY <1>1, <1>2 DEF Progress
  <2>2. Throughout \subseteq present
    BY DEF Throughout
  <2>3. Len(b) \in 0 .. Len(b) /\ \A i \in 1 .. Len(b) : ~(i > Len(b))
    BY <1>5
  <2>4. done => \A l \in Throughout : ~Beyond(job.index, Way(job), scan.first, scan.resume, Key[job.index][l])
    BY <1>4, <2>2 DEF IsWindow
  <2>5. done \in BOOLEAN /\ job.kind # "stream"
    BY <1>1
  <2> HIDE DEF done
  <2>6. Progress(job, Throughout, IF Len(b) = 0 THEN scan.resume ELSE b[Len(b)].key, FALSE,
                 scan.out \o SubSeq(b, 1, Len(b)), done)
    BY <1>2, <1>3, <1>4, <2>1, <2>2, <2>3, <2>4, <2>5, ProgressMade
  <2> QED
    BY <1>5, <2>6
<1>7. scan.out \in Seq(Entries(job.index))
  BY <1>2 DEF Progress
<1>8. CASE Len(b) = 0
  <2>1. b = <<>> /\ scan.out \o b = scan.out
    BY <1>5, <1>7, <1>8
  <2>2. scan' = [resume |-> scan.resume, first |-> FALSE, out |-> scan.out, done |-> TRUE]
    BY <1>1, <1>2, <2>1
  <2>3. Progress(job, Throughout, scan.resume, FALSE, scan.out, TRUE)
    BY <1>6, <1>8, <2>1
  <2> QED
    BY <1>1, <1>2, <2>2, <2>3, ScanInvFrom
<1>9. CASE Len(b) # 0
  <2>1. b # <<>>
    BY <1>5, <1>9
  <2>2. scan' = [resume |-> b[Len(b)].key, first |-> FALSE, out |-> scan.out \o b, done |-> scan.done]
    BY <1>1, <1>2, <2>1
  <2>3. Progress(job, Throughout, b[Len(b)].key, FALSE, scan.out \o b, FALSE)
    BY <1>6, <1>9
  <2>4. Progress(job, Throughout, b[Len(b)].key, FALSE, scan.out \o b, scan.done)
    BY <1>1, <2>3 DEF Progress
  <2> DEFINE k == b[Len(b)].key
             o == scan.out \o b
  <2>5. Progress(job, Throughout, k, FALSE, o, scan.done) /\ scan' = [resume |-> k, first |-> FALSE, out |-> o, done |-> scan.done]
    BY <2>2, <2>4
  <2> HIDE DEF k, o
  <2> QED
    BY <1>1, <1>2, <2>5, ScanInvFrom
<1> QED
  BY <1>8, <1>9

\* A refill of a stream, with the guard on its prefix, preserves the scan invariant.
LEMMA StreamStep == ASSUME ScanInv, RefillStream PROVE ScanInv'
<1> DEFINE b == CollectWindow(job.index, Rows(job.index), "Reverse", scan.resume, scan.first, WINDOW)
           p == Prefix(job.key)
<1>1. /\ job.kind = "stream" /\ ~scan.done /\ job' = job /\ present' = present
      /\ scan' = [scan EXCEPT !.resume = IF b = <<>> THEN @ ELSE b[Len(b)].key,
                              !.first = FALSE, !.done = (Guarded(b, p) = <<>>), !.out = @ \o Guarded(b, p)]
  BY DEF RefillStream, store
<1>2. /\ job \in Jobs /\ present \subseteq Levs
      /\ scan = [resume |-> scan.resume, first |-> scan.first, out |-> scan.out, done |-> scan.done]
      /\ Progress(job, Throughout, scan.resume, scan.first, scan.out, scan.done)
  BY <1>1 DEF ScanInv
<1>3. Walks(job) /\ Way(job) = "Reverse"
  BY <1>1, <1>2, JobWalks DEF Way
<1>3a. job.index \in EventIndexes /\ IsKey(job.index, job.key)
  BY <1>3 DEF Walks
<1>4. IsWindow(job.index, Way(job), scan.first, scan.resume, b)
  <2>2. IsKey(job.index, scan.resume) /\ scan.first \in BOOLEAN
    BY <1>2 DEF Progress
  <2> QED
    BY <1>2, <1>3, <1>3a, <2>2, WindowIs
<1> HIDE DEF b
<1>5. b \in Seq(Entries(job.index)) /\ Len(b) \in Nat /\ (b = <<>> <=> Len(b) = 0)
  BY <1>4 DEF IsWindow
<1>6. PICK g \in 0 .. Len(b) :
        /\ Guarded(b, p) = SubSeq(b, 1, g) /\ (Guarded(b, p) = <<>> <=> g = 0)
        /\ \A i \in 1 .. g : IsPrefix(p, b[i].key)
        /\ g < Len(b) => ~IsPrefix(p, b[g + 1].key)
  <2> HIDE DEF p
  <2> QED
    BY <1>5, GuardedIs
<1>7. Progress(job, Throughout, scan.resume, scan.first, scan.out, FALSE)
  BY <1>1, <1>2 DEF Progress
<1>8. ASSUME NEW i \in 1 .. Len(b)
      PROVE  /\ b[i] \in Entries(job.index) /\ IsKey(job.index, b[i].key) /\ b[i].key = Key[job.index][b[i].lev]
             /\ b[i].lev \in Levs /\ ~Less(job.index, job.key, b[i].key)
  <2> DEFINE k == b[i].key
  <2>1. b[i] \in Entries(job.index)
    BY <1>5
  <2>2. b[i].lev \in Levs /\ k = Key[job.index][b[i].lev] /\ IsKey(job.index, k)
    BY <1>3a, <2>1, EntryIs
  <2>3. Beyond(job.index, "Reverse", scan.first, scan.resume, k)
    BY <1>3, <1>4 DEF IsWindow
  <2>4. IsKey(job.index, scan.resume) /\ ~Less(job.index, job.key, scan.resume)
    BY <1>2, <1>3 DEF Progress, Beyond
  <2> HIDE DEF k
  <2>5. ~Less(job.index, scan.resume, k)
    BY <2>2, <2>3, <2>4, LessOrder DEF Beyond
  <2>6. ~Less(job.index, job.key, k)
    BY <1>3a, <2>2, <2>4, <2>5, LessMixed
  <2> QED
    BY <2>1, <2>2, <2>6 DEF k
<1>9. ASSUME g < Len(b), NEW l \in Levs, ~Less(job.index, b[g + 1].key, Key[job.index][l]) PROVE ~Wanted(job, l)
  <2> SUFFICES ASSUME Prefix(Key[job.index][l]) = Prefix(job.key) PROVE FALSE
    BY <1>1 DEF Wanted
  <2> DEFINE k == b[g + 1].key
             c == Key[job.index][l]
  <2>1. g + 1 \in 1 .. Len(b)
    BY <1>5, <1>6, <1>9
  <2>2. IsKey(job.index, k) /\ ~Less(job.index, job.key, k) /\ ~IsPrefix(Prefix(job.key), k)
    BY <1>6, <1>8, <1>9, <2>1
  <2>3. IsKey(job.index, c)
    BY <1>3a, KeyIs
  <2>4. ~Less(job.index, k, c) /\ Prefix(c) = Prefix(job.key)
    BY <1>9
  <2> HIDE DEF k, c
  <2> QED
    BY <1>3a, <2>2, <2>3, <2>4, OutsideEnds
<1>10. ASSUME NEW i \in 1 .. Len(b), i > g PROVE ~Wanted(job, b[i].lev)
  <2>1. g < Len(b) /\ g + 1 \in 1 .. Len(b) /\ g + 1 <= i
    BY <1>5, <1>6, <1>10
  <2> DEFINE x == b[g + 1]
             y == b[i]
  <2>2. /\ x \in Entries(job.index) /\ y \in Entries(job.index) /\ y.lev \in Levs
        /\ y.key = Key[job.index][y.lev] /\ IsKey(job.index, y.key)
    BY <1>8, <2>1
  <2>3. x = y \/ Ahead(job.index, "Reverse", x.lev, y.lev)
    <3>1. g + 1 = i \/ g + 1 < i
      BY <1>5, <2>1
    <3> QED
      BY <1>3, <1>4, <2>1, <3>1 DEF IsWindow
  <2> HIDE DEF x, y
  <2>4. ~Less(job.index, x.key, y.key)
    <3>1. CASE x = y
      BY <2>2, <3>1, LessOrder
    <3>2. CASE Ahead(job.index, "Reverse", x.lev, y.lev)
      <4>1. ~Beyond(job.index, "Reverse", FALSE, y.key, x.key)
        BY <1>3a, <2>2, <3>2, AheadOrder
      <4> QED
        BY <4>1 DEF Beyond
    <3> QED
      BY <2>3, <3>1, <3>2
  <2>5. ~Less(job.index, x.key, Key[job.index][y.lev])
    BY <2>2, <2>4
  <2> QED
    BY <1>9, <2>1, <2>2, <2>5 DEF x, y
<1>11. ASSUME g = 0, NEW l \in Throughout, Wanted(job, l)
       PROVE  ~Beyond(job.index, Way(job), scan.first, scan.resume, Key[job.index][l])
  <2> SUFFICES ASSUME Beyond(job.index, Way(job), scan.first, scan.resume, Key[job.index][l]) PROVE FALSE
    OBVIOUS
  <2>1. l \in present /\ l \in Levs
    BY <1>2 DEF Throughout
  <2>2. Len(b) > 0
    BY <1>4, <1>5, <2>1 DEF IsWindow
  <2>3. (\E i \in 1 .. Len(b) : b[i].lev = l) \/ Beyond(job.index, Way(job), FALSE, b[Len(b)].key, Key[job.index][l])
    <3>1. Len(b) > 0 => \A m \in present : Beyond(job.index, Way(job), scan.first, scan.resume, Key[job.index][m]) =>
             \/ \E i \in 1 .. Len(b) : b[i].lev = m
             \/ Beyond(job.index, Way(job), FALSE, b[Len(b)].key, Key[job.index][m])
      BY <1>4, Zenon DEF IsWindow
    <3> QED
      BY <2>1, <2>2, <3>1
  <2>4. ~\E i \in 1 .. Len(b) : b[i].lev = l
    <3>1. \A i \in 1 .. Len(b) : i > g
      BY <1>5, <1>11
    <3> QED
      BY <1>10, <1>11, <3>1
  <2> DEFINE x == b[1]
             y == b[Len(b)]
             c == Key[job.index][l]
  <2>5. 1 \in 1 .. Len(b) /\ Len(b) \in 1 .. Len(b) /\ g + 1 = 1 /\ g < Len(b)
    BY <1>5, <1>11, <2>2
  <2>6. Less(job.index, c, y.key)
    BY <1>3, <2>3, <2>4 DEF Beyond
  <2>7. x \in Entries(job.index) /\ y \in Entries(job.index) /\ IsKey(job.index, x.key) /\ IsKey(job.index, y.key)
    BY <1>8, <2>5
  <2>8. IsKey(job.index, c)
    BY <1>3a, <2>1, KeyIs
  <2>9. x = y \/ Ahead(job.index, "Reverse", x.lev, y.lev)
    <3>0. \A n \in Nat : n > 0 => 1 = n \/ 1 < n
      OBVIOUS
    <3>1. 1 = Len(b) \/ 1 < Len(b)
      BY <1>5, <2>2, <3>0, Zenon
    <3> QED
      <4>1. \A i, k \in 1 .. Len(b) : i < k => Ahead(job.index, "Reverse", b[i].lev, b[k].lev)
        BY <1>3, <1>4, Zenon DEF IsWindow
      <4>2. CASE 1 = Len(b)
        BY <4>2
      <4>3. CASE 1 < Len(b)
        BY <2>5, <4>1, <4>3
      <4> QED
        BY <3>1, <4>2, <4>3
  <2> HIDE DEF x, y, c
  <2>10. ~Less(job.index, x.key, y.key)
    <3>1. CASE x = y
      BY <2>7, <3>1, LessOrder
    <3>2. CASE Ahead(job.index, "Reverse", x.lev, y.lev)
      <4>1. ~Beyond(job.index, "Reverse", FALSE, y.key, x.key)
        BY <1>3a, <2>7, <3>2, AheadOrder
      <4> QED
        BY <4>1 DEF Beyond
    <3> QED
      BY <2>9, <3>1, <3>2
  <2>11. ~Less(job.index, x.key, c)
    <3>1. ~Less(job.index, y.key, c)
      BY <2>6, <2>7, <2>8, LessOrder
    <3> QED
      BY <2>7, <2>8, <2>10, <3>1, LessMixed
  <2> QED
    BY <1>9, <1>11, <2>1, <2>5, <2>11 DEF x, c
<1> DEFINE done == g = 0
           r == IF Len(b) = 0 THEN scan.resume ELSE b[Len(b)].key
           out == scan.out \o SubSeq(b, 1, g)
<1>12. Progress(job, Throughout, r, FALSE, out, done)
  <2>1. Throughout \subseteq present /\ done \in BOOLEAN
    BY DEF Throughout
  <2>2. \A i \in 1 .. g : IsPrefix(Prefix(job.key), b[i].key)
    BY <1>6
  <2>3. \A i \in 1 .. Len(b) : i > g => ~Wanted(job, b[i].lev)
    BY <1>10
  <2>4. done => \A l \in Throughout : Wanted(job, l) => ~Beyond(job.index, Way(job), scan.first, scan.resume, Key[job.index][l])
    BY <1>11
  <2> HIDE DEF done
  <2> QED
    BY <1>2, <1>3, <1>4, <1>6, <1>7, <2>1, <2>2, <2>3, <2>4, ProgressMade
<1>13. r = (IF b = <<>> THEN scan.resume ELSE b[Len(b)].key) /\ done = (Guarded(b, p) = <<>>)
       /\ out = scan.out \o Guarded(b, p)
  BY <1>5, <1>6
<1> HIDE DEF r, done, out, p
<1>14. scan' = [resume |-> r, first |-> FALSE, out |-> out, done |-> done]
  BY <1>1, <1>2, <1>13
<1> QED
  BY <1>1, <1>2, <1>12, <1>14, ScanInvFrom

\* The other actions leave the scan alone.
LEMMA ScanOthers ==
  ASSUME ScanInv, Authors \/ Stats \/ (\E w \in Workers : Latest(w)) \/ UNCHANGED readerVars
  PROVE  ScanInv'
<1>1. job' = job /\ present' = present /\ scan' = scan
  <2>1. CASE Authors
    BY <2>1 DEF Authors, store
  <2>2. CASE Stats
    BY <2>2 DEF Stats, store
  <2>3. CASE \E w \in Workers : Latest(w)
    <3>1. PICK w \in Workers : Latest(w)
      BY <2>3
    <3>2. UNCHANGED LatestRest
      BY <3>1, Zenon DEF Latest, Begin, ScanAuthor, Fetch, DecodePayload, LoadDict, InsertDict, Bucket
    <3> QED
      BY <3>2 DEF LatestRest, store
  <2>4. CASE UNCHANGED readerVars
    BY <2>4 DEF readerVars
  <2> QED
    BY <2>1, <2>2, <2>3, <2>4
<1>2. Throughout' = Throughout
  BY <1>1 DEF Throughout
<1> QED
  BY <1>1, <1>2 DEF ScanInv

\* Every step preserves the scan invariant.
LEMMA ScanStep == ScanInv /\ [ReaderNext]_readerVars => ScanInv'
<1> SUFFICES ASSUME ScanInv, [ReaderNext]_readerVars PROVE ScanInv'
  OBVIOUS
<1>1. \/ Strfry \/ ScanWindow \/ RefillStream
      \/ Authors \/ Stats \/ (\E w \in Workers : Latest(w)) \/ UNCHANGED readerVars
  BY DEF ReaderNext
<1> QED
  BY <1>1, ScanStrfry, ScanWindowStep, StreamStep, ScanOthers, Zenon

\* The range of a job, in the words of the property.
LEMMA RangeIs ==
  ASSUME job \in Jobs, job.kind \in {"scan", "stream"}, NEW k
  PROVE  (IF job.kind = "scan" THEN InScan(k) ELSE InStream(k))
           <=> /\ Beyond(job.index, Way(job), TRUE, job.key, k)
               /\ job.kind = "stream" => Prefix(k) = Prefix(job.key)
<1>1. Way(job) \in {"Forward", "Reverse"}
  BY JobWalks DEF Walks
<1>2. CASE job.kind = "scan"
  BY <1>1, <1>2 DEF InScan, Beyond, Way
<1>3. CASE job.kind = "stream"
  BY <1>3 DEF InStream, Beyond, Way
<1> QED
  BY <1>2, <1>3

\* A scan or a stream that is through has what its property asks for.
LEMMA ScanInvComplete == ScanInv => ScanComplete
<1> SUFFICES ASSUME ScanInv, job.kind \in {"scan", "stream"} PROVE ScanComplete
  BY DEF ScanComplete
<1> DEFINE ix == job.index
           out == scan.out
           levs == [i \in DOMAIN out |-> out[i].lev]
           forward == job.kind = "scan" /\ job.direction = "Forward"
           ahead(a, b) == IF forward THEN EntryLess(ix, a, b) ELSE EntryLess(ix, b, a)
           inRange(key) == IF job.kind = "scan" THEN InScan(key) ELSE InStream(key)
<1>1. /\ job \in Jobs /\ present \subseteq Levs
      /\ Progress(job, Throughout, scan.resume, scan.first, out, scan.done)
  BY DEF ScanInv
<1>2. Walks(job) /\ ix \in EventIndexes /\ Way(job) \in {"Forward", "Reverse"} /\ IsKey(ix, job.key)
  BY <1>1, JobWalks DEF Walks
<1>3. out \in Seq(Entries(ix)) /\ Len(out) \in Nat /\ DOMAIN out = 1 .. Len(out)
  <2>1. out \in Seq(Entries(ix))
    BY <1>1 DEF Progress
  <2> QED
    BY <2>1
<1>4. \A k : inRange(k) <=> /\ Beyond(ix, Way(job), TRUE, job.key, k)
                            /\ job.kind = "stream" => Prefix(k) = Prefix(job.key)
  BY <1>1, RangeIs
<1>5. forward <=> Way(job) = "Forward"
  BY DEF Way
<1> HIDE DEF inRange, forward
<1>6. ASSUME NEW i \in DOMAIN out, NEW j \in DOMAIN out, i < j PROVE ahead(out[i].lev, out[j].lev)
  <2>1. Ahead(ix, Way(job), out[i].lev, out[j].lev)
    BY <1>1, <1>3, <1>6 DEF Progress
  <2> QED
    BY <1>2, <1>5, <2>1 DEF Ahead
<1>7. ASSUME scan.done, NEW l \in Throughout, inRange(Key[ix][l]) PROVE l \in Range(levs)
  <2>1. Wanted(job, l)
    BY <1>4, <1>7 DEF Wanted
  <2>2. PICK i \in 1 .. Len(out) : out[i].lev = l
    BY <1>1, <1>7, <2>1 DEF Progress
  <2> QED
    BY <1>3, <2>2 DEF Range
<1>8. ASSUME ix # "Event__tag", NEW i \in DOMAIN out PROVE inRange(out[i].key)
  <2> DEFINE k == out[i].key
  <2>1. out[i] \in Entries(ix) /\ i \in 1 .. Len(out)
    BY <1>3
  <2>2. IsKey(ix, k) /\ out[i].lev \in Levs /\ k = Key[ix][out[i].lev]
    BY <1>2, <2>1, EntryIs
  <2>3. Beyond(ix, Way(job), TRUE, job.key, k) /\ (job.kind = "stream" => IsPrefix(Prefix(job.key), k))
    BY <1>1, <2>1 DEF Progress
  <2>4. ASSUME job.kind = "stream" PROVE Prefix(k) = Prefix(job.key)
    <3>1. \A m \in Levs : Len(KeyOf(ix, Catalog[m])) = Len(job.key)
      BY <1>1, <1>8, <2>4, ReaderConstants, Zenon
    <3>2. k = KeyOf(ix, Catalog[out[i].lev])
      BY <1>2, <2>2, KeyIs
    <3>3. Len(k) = Len(job.key)
      BY <2>2, <3>1, <3>2
    <3>4. k \in Seq(Byte) /\ job.key \in Seq(Byte) /\ Len(k) >= Width
      BY <1>2, <2>2, KeyParts DEF IsKey
    <3> HIDE DEF k
    <3> QED
      BY <2>3, <2>4, <3>3, <3>4, PrefixOfLength
  <2> QED
    BY <1>4, <2>3, <2>4
<1>9. /\ \A i, j \in DOMAIN levs : i < j => ahead(levs[i], levs[j])
      /\ scan.done => \A l \in Throughout : inRange(Key[ix][l]) => l \in Range(levs)
      /\ ix # "Event__tag" => \A i \in DOMAIN out : inRange(out[i].key)
  <2> HIDE DEF ahead
  <2> QED
    BY <1>6, <1>7, <1>8
<1> QED
  BY <1>9 DEF ScanComplete, inRange, forward

\* A scan and a stream read every event of their range that is stored all the while,
\* once and in the order of the index, for every catalogue, window and sequence of
\* writes of strfry between the transactions (scan_index_windowed, refill_stream).
THEOREM ScanCorrect == ReaderSpec => []ScanComplete
<1>1. ReaderInit => ScanInv
  BY ScanInit
<1>2. ScanInv /\ [ReaderNext]_readerVars => ScanInv'
  BY ScanStep
<1>3. ScanInv => ScanComplete
  BY ScanInvComplete
<1> QED
  BY <1>1, <1>2, <1>3, PTL DEF ReaderSpec

-----------------------------------------------------------------------------
(* Filters                                                                 *)

\* k has the elements of the first n of s that are in T; f says where they were.
Selects(k, s, T, f, n) ==
    /\ f \in [1 .. Len(k) -> 1 .. n]
    /\ \A i \in 1 .. Len(k) : k[i] = s[f[i]] /\ s[f[i]] \in T
    /\ \A i, j \in 1 .. Len(k) : i < j => f[i] < f[j]
    /\ \A m \in 1 .. n : s[m] \in T => \E i \in 1 .. Len(k) : f[i] = m

\* One more element.
LEMMA SelectsNext ==
  ASSUME NEW E, NEW k \in Seq(E), NEW s \in Seq(E), NEW T, NEW f, NEW n \in Nat, n + 1 <= Len(s),
         Selects(k, s, T, f, n)
  PROVE  LET next == IF s[n + 1] \in T THEN Append(k, s[n + 1]) ELSE k
         IN  next \in Seq(E) /\ \E g : Selects(next, s, T, g, n + 1)
<1>0. Len(k) \in Nat /\ Len(s) \in Nat /\ n + 1 \in 1 .. Len(s) /\ s[n + 1] \in E
  OBVIOUS
<1>f. /\ f \in [1 .. Len(k) -> 1 .. n] /\ DOMAIN f = 1 .. Len(k) /\ \A i \in 1 .. Len(k) : f[i] \in 1 .. n
  BY DEF Selects
<1>1. CASE s[n + 1] \notin T
  <2>1. f \in [1 .. Len(k) -> 1 .. n + 1]
    <3>1. \A i \in 1 .. Len(k) : f[i] \in 1 .. n + 1
      BY <1>f
    <3> QED
      BY <1>f, <3>1
  <2>2. ASSUME NEW m \in 1 .. n + 1, s[m] \in T PROVE \E i \in 1 .. Len(k) : f[i] = m
    <3>1. m \in 1 .. n
      BY <1>1, <2>2
    <3> QED
      BY <2>2, <3>1 DEF Selects
  <2>3. Selects(k, s, T, f, n + 1)
    BY <2>1, <2>2 DEF Selects
  <2> QED
    BY <1>1, <2>3
<1>2. CASE s[n + 1] \in T
  <2> DEFINE a == Append(k, s[n + 1])
             N == Len(k)
             g == [i \in 1 .. N + 1 |-> IF i = N + 1 THEN n + 1 ELSE f[i]]
  <2>1. /\ a \in Seq(E) /\ Len(a) = N + 1 /\ a[N + 1] = s[n + 1]
        /\ \A i \in 1 .. N : a[i] = k[i]
    BY <1>0
  <2> HIDE DEF a
  <2>0. N \in Nat /\ N + 1 \in 1 .. N + 1
    BY <1>0
  <2>d. \A i \in 1 .. N + 1 : i = N + 1 \/ (i \in 1 .. N /\ i # N + 1)
    BY <2>0
  <2>2. g[N + 1] = n + 1 /\ \A i \in 1 .. N : g[i] = f[i] /\ f[i] \in 1 .. n
    <3> HIDE DEF N
    <3>1. \A i \in 1 .. N : i \in 1 .. N + 1 /\ i # N + 1
      BY <2>0
    <3> QED
      BY <1>f, <2>0, <3>1 DEF N
  <2>3. g \in [1 .. N + 1 -> 1 .. n + 1]
    <3>1. \A i \in 1 .. N + 1 : g[i] \in 1 .. n + 1
      <4> HIDE DEF g
      <4>1. n + 1 \in 1 .. n + 1 /\ \A x \in 1 .. n : x \in 1 .. n + 1
        OBVIOUS
      <4> QED
        BY <2>d, <2>2, <4>1
    <3> QED
      BY <3>1
  <2> HIDE DEF g, N
  <2>4. \A i \in 1 .. N + 1 : a[i] = s[g[i]] /\ s[g[i]] \in T
    <3>1. \A i \in 1 .. N : k[i] = s[f[i]] /\ s[f[i]] \in T
      BY DEF Selects, N
    <3> QED
      BY <1>2, <2>1, <2>d, <2>2, <3>1
  <2>5. ASSUME NEW i \in 1 .. N + 1, NEW j \in 1 .. N + 1, i < j PROVE g[i] < g[j]
    <3>1. i \in 1 .. N
      BY <2>0, <2>5
    <3>2. CASE j = N + 1
      BY <2>2, <3>1, <3>2
    <3>3. CASE j \in 1 .. N
      <4>1. f[i] < f[j]
        BY <2>5, <3>1, <3>3 DEF Selects, N
      <4> QED
        BY <2>2, <3>1, <3>3, <4>1
    <3> QED
      BY <2>d, <3>2, <3>3
  <2>6. ASSUME NEW m \in 1 .. n + 1, s[m] \in T PROVE \E i \in 1 .. N + 1 : g[i] = m
    <3>1. CASE m = n + 1
      BY <2>0, <2>2, <3>1
    <3>2. CASE m # n + 1
      <4>1. m \in 1 .. n
        BY <3>2
      <4>2. PICK i \in 1 .. N : f[i] = m
        BY <2>6, <4>1 DEF Selects, N
      <4>3. i \in 1 .. N + 1
        BY <2>0
      <4> QED
        BY <2>2, <4>2, <4>3
    <3> QED
      BY <3>1, <3>2
  <2>7. Selects(a, s, T, g, n + 1)
    <3>1. Len(a) = N + 1
      BY <2>1
    <3> QED
      BY <2>3, <2>4, <2>5, <2>6, <3>1 DEF Selects
  <2> QED
    BY <1>2, <2>1, <2>7 DEF a
<1> QED
  BY <1>1, <1>2

\* A filter keeps exactly the elements of the set, in their order.
LEMMA KeptIs ==
  ASSUME NEW E, NEW s \in Seq(E), NEW T
  PROVE  Kept(s, T) \in Seq(E) /\ \E f : Selects(Kept(s, T), s, T, f, Len(s))
<1> DEFINE N == Len(s)
           Z == Seq(E)
           G == [x \in (1 .. N) \X Z |-> IF s[x[1]] \in T THEN Append(x[2], s[x[1]]) ELSE x[2]]
<1>0. N \in Nat /\ \A i \in 1 .. N : s[i] \in E
  OBVIOUS
<1>a. \A k \in Z, e \in E : Append(k, e) \in Z
  OBVIOUS
<1>e. <<>> \in Z
  OBVIOUS
<1> HIDE DEF N, Z
<1>1. ASSUME NEW i \in 1 .. N, NEW k \in Z
      PROVE  G[<<i, k>>] = (IF s[i] \in T THEN Append(k, s[i]) ELSE k) /\ G[<<i, k>>] \in Z
  <2>1. G[<<i, k>>] = IF s[i] \in T THEN Append(k, s[i]) ELSE k
    OBVIOUS
  <2>2. Append(k, s[i]) \in Z
    BY <1>0, <1>a
  <2> QED
    BY <2>1, <2>2
<1>2. Steps(G, Z, N)
  <2>1. \A x \in (1 .. N) \X Z : G[x] \in Z
    <3> SUFFICES ASSUME NEW x \in (1 .. N) \X Z PROVE G[x] \in Z
      OBVIOUS
    <3>1. x = <<x[1], x[2]>> /\ x[1] \in 1 .. N /\ x[2] \in Z
      OBVIOUS
    <3> HIDE DEF G
    <3>2. G[<<x[1], x[2]>>] \in Z
      BY <1>1, <3>1
    <3> QED
      BY <3>1, <3>2
  <2>2. G \in [(1 .. N) \X Z -> Z]
    BY <2>1
  <2> HIDE DEF G
  <2> QED
    BY <2>2 DEF Steps
<1> HIDE DEF G
<1>3. PICK f : Follows(f, <<>>, G, Z, N)
  BY <1>0, <1>2, <1>e, RecursionExists
<1>4. \A n \in 0 .. N : f[n] = IF n = 0 THEN <<>> ELSE IF s[n] \in T THEN Append(f[n - 1], s[n]) ELSE f[n - 1]
  <2>0. f[0] = <<>> /\ \A n \in 0 .. N : n = 0 \/ n \in 1 .. N
    BY <1>0, <1>3 DEF Follows
  <2> SUFFICES ASSUME NEW n \in 1 .. N PROVE f[n] = IF s[n] \in T THEN Append(f[n - 1], s[n]) ELSE f[n - 1]
    <3>1. \A n \in 1 .. N : n # 0
      OBVIOUS
    <3> QED
      BY <2>0, <3>1, Zenon
  <2>1. n - 1 \in 0 .. N
    BY <1>0
  <2>2. f[n - 1] \in Z
    BY <1>3, <2>1 DEF Follows
  <2> QED
    BY <1>1, <1>3, <2>2 DEF Follows
<1>5. f = [n \in 0 .. N |-> IF n = 0 THEN <<>> ELSE IF s[n] \in T THEN Append(f[n - 1], s[n]) ELSE f[n - 1]]
  BY <1>3, <1>4 DEF Follows
<1> DEFINE h == CHOOSE h1 : h1 = [n \in 0 .. Len(s) |-> IF n = 0 THEN <<>>
                                  ELSE IF s[n] \in T THEN Append(h1[n - 1], s[n]) ELSE h1[n - 1]]
<1>6. h = [n \in 0 .. N |-> IF n = 0 THEN <<>> ELSE IF s[n] \in T THEN Append(h[n - 1], s[n]) ELSE h[n - 1]]
  BY <1>5, Zenon DEF N
<1>7. Kept(s, T) = h[N]
  BY Zenon DEF Kept, N
<1> HIDE DEF h
<1>8. h[0] = <<>> /\ \A n \in 1 .. N : h[n] = IF s[n] \in T THEN Append(h[n - 1], s[n]) ELSE h[n - 1]
  <2>1. 0 \in 0 .. N /\ \A n \in 1 .. N : n \in 0 .. N /\ n # 0
    BY <1>0
  <2>2. h[0] = <<>>
    BY <1>6, <2>1, Zenon
  <2>3. ASSUME NEW n \in 1 .. N PROVE h[n] = IF s[n] \in T THEN Append(h[n - 1], s[n]) ELSE h[n - 1]
    <3>1. n \in 0 .. N /\ n # 0
      BY <2>1
    <3>2. h[n] = IF n = 0 THEN <<>> ELSE IF s[n] \in T THEN Append(h[n - 1], s[n]) ELSE h[n - 1]
      BY <1>6, <3>1, Zenon
    <3> QED
      BY <3>1, <3>2, Zenon
  <2> QED
    BY <2>2, <2>3
<1> DEFINE P == {n \in Nat : n <= N => h[n] \in Z /\ \E g : Selects(h[n], s, T, g, n)}
<1>9. 0 \in P
  <2> DEFINE g == [i \in 1 .. 0 |-> 0]
  <2>1. Len(<<>>) = 0 /\ 1 .. 0 = {}
    OBVIOUS
  <2>2. g \in [1 .. 0 -> 1 .. 0]
    BY <2>1
  <2> HIDE DEF g
  <2>3. Selects(<<>>, s, T, g, 0)
    BY <2>1, <2>2 DEF Selects
  <2> QED
    BY <1>8, <1>e, <2>3
<1>10. ASSUME NEW n \in P PROVE n + 1 \in P
  <2> SUFFICES ASSUME n + 1 <= N PROVE h[n + 1] \in Z /\ \E g : Selects(h[n + 1], s, T, g, n + 1)
    OBVIOUS
  <2>1. n \in Nat /\ n + 1 \in 1 .. N /\ (n + 1) - 1 = n /\ h[n] \in Z
    BY <1>0
  <2>2. PICK g : Selects(h[n], s, T, g, n)
    BY <1>0, <2>1
  <2>3. h[n + 1] = IF s[n + 1] \in T THEN Append(h[n], s[n + 1]) ELSE h[n]
    BY <1>8, <2>1
  <2> DEFINE k == h[n]
             next == IF s[n + 1] \in T THEN Append(k, s[n + 1]) ELSE k
  <2>4. k \in Seq(E) /\ Selects(k, s, T, g, n) /\ n \in Nat /\ n + 1 <= Len(s)
    BY <2>1, <2>2 DEF N, Z
  <2> HIDE DEF k
  <2>5. next \in Seq(E) /\ \E g1 : Selects(next, s, T, g1, n + 1)
    BY <2>4, SelectsNext
  <2>6. h[n + 1] = next
    BY <2>3 DEF k
  <2> HIDE DEF next
  <2> QED
    BY <2>5, <2>6 DEF Z
<1>11. P \subseteq Nat
  OBVIOUS
<1> HIDE DEF P
<1>12. N \in P
  BY <1>0, <1>9, <1>10, <1>11, SetInduction
<1>13. h[N] \in Z /\ \E g : Selects(h[N], s, T, g, N)
  BY <1>0, <1>12 DEF P
<1> QED
  BY <1>7, <1>13 DEF Z, N

-----------------------------------------------------------------------------
(* latestPerAuthor: what the scan of an author finds                       *)

At(l) == Catalog[l].created_at

\* The events of an author and a kind, and those of them that are as new as l.
OfKind(kind, author, levs) == {l \in levs : Catalog[l].pubkey = author /\ Catalog[l].kind = kind}
AsNew(kind, author, levs, l) == {m \in OfKind(kind, author, levs) \ {l} : At(m) >= At(l)}

\* The newest events that were stored, as many as were asked for.
Newest(kind, limit, author, S, levs) ==
    /\ S \subseteq Levs /\ levs \in Seq(Levs)
    /\ \A i \in 1 .. Len(levs) : levs[i] \in OfKind(kind, author, S)
    /\ \A i, k \in 1 .. Len(levs) : i < k => At(levs[i]) >= At(levs[k])
    /\ \A l \in OfKind(kind, author, S) :
          \/ \E i \in 1 .. Len(levs) : levs[i] = l
          \/ Cardinality(AsNew(kind, author, S, l)) >= limit

Picked(j, author, S, levs) == Newest(j.eventKind, Clamp(j.perAuthor), author, S, levs)

\* What ScanAuthor computes.
ScanFinds(kind, limit, author, rows, own, found) ==
    /\ rows = CollectBounded("Event__pubkeyKind", Rows("Event__pubkeyKind"), "Reverse",
                             author \o Le(kind) \o Le(U64Max), limit)
    /\ own = Kept(rows, {r \in Range(rows) : Prefix(r.key) = author \o Le(kind)})
    /\ found = [i \in DOMAIN own |-> own[i].lev]

\* The resolver's clamp of perAuthor leaves at least one event to ask for.
LEMMA ClampIs ==
  ASSUME NEW n \in Int
  PROVE  Clamp(n) \in Nat /\ Clamp(n) > 0
<1> DEFINE T == {IF n < 1 THEN 1 ELSE n, MAX_PAGE}
<1>0. MAX_PAGE \in Nat \ {0}
  BY ReaderConstants, Zenon
<1>1. T \subseteq Nat /\ T # {} /\ \A x \in T : x > 0
  BY <1>0
<1>2. Clamp(n) = Min(T)
  BY DEF Clamp
<1> HIDE DEF T
<1>3. Min(T) \in T
  BY <1>1, MinIs
<1> QED
  BY <1>1, <1>2, <1>3

\* The key of an event says whose it is and of which kind.
LEMMA KeyOfAuthor ==
  ASSUME NEW l \in Levs, NEW author \in Seq(Byte), NEW kind \in Nat, kind <= U64Max
  PROVE  Prefix(Key["Event__pubkeyKind"][l]) = author \o Le(kind)
            <=> Catalog[l].pubkey = author /\ Catalog[l].kind = kind
<1> DEFINE pk == Catalog[l].pubkey
           k == Catalog[l].kind
<1>0. "Event__pubkeyKind" \in EventIndexes
  BY DEF EventIndexes
<1>1. pk \in Seq(Byte) /\ k \in Nat /\ k <= U64Max
  BY CatalogTyped
<1>2. Prefix(Key["Event__pubkeyKind"][l]) = pk \o Le(k)
  BY <1>0, KeyIs
<1> HIDE DEF pk, k
<1>3. Prefix(pk \o Le(k)) = pk /\ CreatedAt(pk \o Le(k)) = k
  BY <1>1, LeBytes, Appended, RoundTrip
<1>4. Prefix(author \o Le(kind)) = author /\ CreatedAt(author \o Le(kind)) = kind
  BY LeBytes, Appended, RoundTrip
<1> QED
  BY <1>2, <1>3, <1>4 DEF pk, k

\* Keys of one prefix are in the order of their timestamps.
LEMMA NewerOfPrefix ==
  ASSUME NEW index, NEW a, NEW b, IsKey(index, a), IsKey(index, b), Prefix(a) = Prefix(b)
  PROVE  Less(index, a, b) <=> CreatedAt(a) < CreatedAt(b)
<1>1. Str(index, a) = Str(index, b) /\ Major(index, a) = Major(index, b)
  BY PrefixByParts
<1>2. Str(index, a) \in Seq(Byte) /\ Major(index, a) \in Nat
  BY KeyParts
<1>3. ~MemLess(Str(index, a), Str(index, a))
  BY <1>2, MemLessOrder
<1>4. ~(Major(index, a) < Major(index, a))
  BY <1>2
<1> QED
  BY <1>1, <1>3, <1>4, LessByParts

\* A set that holds n different things has at least n members.
LEMMA AtLeast ==
  ASSUME NEW S, IsFiniteSet(S), NEW n \in Nat, NEW g, g \in [1 .. n -> S],
         \A i, k \in 1 .. n : i < k => g[i] # g[k]
  PROVE  Cardinality(S) >= n
<1>1. \A i, k \in 1 .. n : g[i] = g[k] => i = k
  OBVIOUS
<1>2. g \in Injection(1 .. n, S)
  BY <1>1 DEF Injection, IsInjective
<1>3. Cardinality(1 .. n) <= Cardinality(S)
  BY <1>2, FS_Injection
<1>4. Cardinality(1 .. n) = n
  <2>1. Cardinality(1 .. n) = IF 1 > n THEN 0 ELSE n - 1 + 1
    BY FS_Interval
  <2> QED
    BY <2>1
<1>5. Cardinality(S) \in Nat
  BY FS_CardinalityType
<1> QED
  BY <1>3, <1>4, <1>5

\* The scan of an author in a reverse walk of Event__pubkeyKind.
LEMMA ScanPicks ==
  ASSUME present \subseteq Levs, NEW author \in Seq(Byte), NEW kind \in Nat, kind <= U64Max,
         NEW limit \in Nat, limit > 0, NEW rows, NEW own, NEW found,
         ScanFinds(kind, limit, author, rows, own, found)
  PROVE  Newest(kind, limit, author, present, found)
<1> DEFINE ix == "Event__pubkeyKind"
           p == author \o Le(kind)
           key == p \o Le(U64Max)
           w == Walk(ix, Rows(ix), "Reverse", key, TRUE)
           n == Min({limit, Len(w)})
           T == {r \in Range(rows) : Prefix(r.key) = p}
           levs == [i \in DOMAIN own |-> own[i].lev]
<1>1. ix \in EventIndexes /\ U64Max \in Nat /\ TrailingIntegers(ix) = 2 /\ Width \in Nat /\ Width > 0
  <2>1. [i \in 1 .. Width |-> 0] \in Bytes
    BY KeyBytesConstants DEF Bytes, Byte
  <2>2. U64Max \in Nat
    BY <2>1, FromLeRange
  <2> QED
    BY <2>2, KeyBytesConstants DEF EventIndexes, TrailingIntegers
<1>2. p \in Seq(Byte) /\ Len(p) >= Width
  <2>1. Le(kind) \in Bytes
    BY LeBytes
  <2>2. p \in Seq(Byte) /\ Len(p) = Len(author) + Width /\ Len(author) \in Nat
    BY <2>1, Appended
  <2> QED
    BY <1>1, <2>2
<1>p. \A l \in Levs : Prefix(Key[ix][l]) = p <=> Catalog[l].pubkey = author /\ Catalog[l].kind = kind
  BY KeyOfAuthor
<1> HIDE DEF p
<1>3. IsKey(ix, key) /\ Prefix(key) = p /\ CreatedAt(key) = U64Max
  <2>1. Le(U64Max) \in Bytes /\ FromLe(Le(U64Max)) = U64Max
    BY <1>1, LeBytes, RoundTrip
  <2> DEFINE d == Le(U64Max)
  <2> HIDE DEF d
  <2>2. /\ p \o d \in Seq(Byte) /\ Len(p \o d) = Len(p) + Width /\ Len(p) \in Nat
        /\ Prefix(p \o d) = p /\ CreatedAt(p \o d) = FromLe(d)
    BY <1>2, <2>1, Appended DEF d
  <2>3. Len(p) + Width >= 2 * Width
    BY <1>1, <1>2, <2>2
  <2> QED
    BY <1>1, <2>1, <2>2, <2>3 DEF IsKey, d
<1>4. IsWalk(ix, "Reverse", TRUE, key, w)
  <2> HIDE DEF ix, key, w
  <2> QED
    BY <1>1, <1>3, WalkIs DEF w
<1>5. rows = SubSeq(w, 1, n)
  BY DEF ScanFinds, CollectBounded, p
<1> HIDE DEF key, w, ix
<1>6. /\ w \in Seq(Entries(ix)) /\ Len(w) \in Nat /\ \A i \in 1 .. Len(w) : w[i] \in Entries(ix)
  <2>1. w \in Seq(Entries(ix))
    BY <1>4 DEF IsWalk
  <2> QED
    BY <2>1
<1>7. n \in 0 .. Len(w) /\ (n = Len(w) \/ n = limit)
  <2> DEFINE M == {limit, Len(w)}
  <2>1. M \subseteq Nat /\ M # {} /\ Len(w) \in M
    BY <1>6
  <2>2. n = Min(M)
    OBVIOUS
  <2>3. \A x \in M : x = limit \/ x = Len(w)
    OBVIOUS
  <2> HIDE DEF M, n
  <2>4. n \in M /\ n <= Len(w)
    BY <2>1, <2>2, MinIs
  <2>5. n \in Nat /\ (n = limit \/ n = Len(w))
    BY <2>1, <2>3, <2>4
  <2> QED
    BY <1>6, <2>4, <2>5
<1> HIDE DEF n
<1>8. rows \in Seq(Entries(ix)) /\ Len(rows) = n /\ n \in Nat /\ \A i \in 1 .. n : rows[i] = w[i] /\ i \in 1 .. Len(w)
  <2> DEFINE E == Entries(ix)
  <2>1. w \in Seq(E) /\ Len(w) \in Nat
    BY <1>6
  <2> HIDE DEF E
  <2>2. SubSeq(w, 1, n) \in Seq(E) /\ Len(SubSeq(w, 1, n)) = n /\ n \in Nat
    BY <1>7, <2>1
  <2>3. \A i \in 1 .. n : SubSeq(w, 1, n)[i] = w[i] /\ i \in 1 .. Len(w)
    BY <1>7, <2>1
  <2> QED
    BY <1>5, <2>2, <2>3 DEF E
<1>9. own \in Seq(Entries(ix)) /\ \E f : Selects(own, rows, T, f, n)
  <2>1. own = Kept(rows, T)
    BY DEF ScanFinds, p
  <2> HIDE DEF T
  <2> QED
    BY <1>8, <2>1, KeptIs
<1>10. PICK f : Selects(own, rows, T, f, n)
  BY <1>9
<1>11. Len(own) \in Nat /\ DOMAIN own = 1 .. Len(own) /\ \A i \in 1 .. Len(own) : own[i] \in Entries(ix)
  <2> DEFINE E == Entries(ix)
  <2>1. own \in Seq(E)
    BY <1>9
  <2> HIDE DEF E
  <2>2. Len(own) \in Nat /\ DOMAIN own = 1 .. Len(own)
    BY <2>1, LenProperties, Zenon
  <2>3. \A i \in 1 .. Len(own) : own[i] \in E
    BY <2>1, ElementOfSeq, Zenon
  <2> QED
    BY <2>2, <2>3, Zenon DEF E
<1>12. \A i \in 1 .. Len(w) : /\ w[i].lev \in Levs /\ w[i].key = Key[ix][w[i].lev] /\ IsKey(ix, w[i].key)
                              /\ w[i].lev \in present /\ ~Less(ix, key, w[i].key)
  <2> SUFFICES ASSUME NEW i \in 1 .. Len(w)
               PROVE  /\ w[i].lev \in Levs /\ w[i].key = Key[ix][w[i].lev] /\ IsKey(ix, w[i].key)
                      /\ w[i].lev \in present /\ ~Less(ix, key, w[i].key)
    OBVIOUS
  <2>1. w[i] \in Entries(ix)
    BY <1>6
  <2>2. w[i].lev \in Levs /\ w[i].key = Key[ix][w[i].lev] /\ IsKey(ix, w[i].key)
    BY <1>1, <2>1, EntryIs
  <2>3. w[i].lev \in present /\ Beyond(ix, "Reverse", TRUE, key, w[i].key)
    BY <1>4 DEF IsWalk
  <2> QED
    BY <2>2, <2>3 DEF Beyond
<1>13. ASSUME NEW i \in 1 .. Len(own)
       PROVE  /\ f[i] \in 1 .. Len(w) /\ own[i] = w[f[i]] /\ Prefix(w[f[i]].key) = p
              /\ own[i].lev \in OfKind(kind, author, present)
  <2>1. f[i] \in 1 .. n /\ own[i] = rows[f[i]] /\ rows[f[i]] \in T
    BY <1>10 DEF Selects
  <2>2. f[i] \in 1 .. Len(w) /\ own[i] = w[f[i]] /\ Prefix(w[f[i]].key) = p
    BY <1>8, <2>1
  <2> QED
    BY <1>p, <1>12, <2>2 DEF OfKind
<1>14. ASSUME NEW a \in 1 .. Len(w), NEW b \in 1 .. Len(w), a < b, Prefix(w[a].key) = Prefix(w[b].key)
       PROVE  At(w[a].lev) >= At(w[b].lev)
  <2> DEFINE x == w[a]
             y == w[b]
  <2>1. /\ x \in Entries(ix) /\ y \in Entries(ix) /\ x.lev \in Levs /\ y.lev \in Levs
        /\ x.key = Key[ix][x.lev] /\ y.key = Key[ix][y.lev] /\ IsKey(ix, x.key) /\ IsKey(ix, y.key)
    BY <1>6, <1>12
  <2>2. Ahead(ix, "Reverse", x.lev, y.lev) /\ Prefix(x.key) = Prefix(y.key)
    BY <1>4, <1>14 DEF IsWalk
  <2> HIDE DEF x, y
  <2>3. ~Less(ix, x.key, y.key)
    <3>1. ~Beyond(ix, "Reverse", FALSE, y.key, x.key)
      BY <1>1, <2>1, <2>2, AheadOrder
    <3> QED
      BY <3>1 DEF Beyond
  <2>4. ~(CreatedAt(x.key) < CreatedAt(y.key))
    BY <2>1, <2>2, <2>3, NewerOfPrefix
  <2>5. CreatedAt(x.key) = At(x.lev) /\ CreatedAt(y.key) = At(y.lev)
    BY <1>1, <2>1, KeyIs DEF At
  <2>6. At(x.lev) \in Nat /\ At(y.lev) \in Nat
    BY <2>1, CatalogTyped DEF At
  <2> QED
    BY <2>4, <2>5, <2>6 DEF x, y
<1>15. levs \in Seq(Levs) /\ Len(levs) = Len(own) /\ \A i \in 1 .. Len(own) : levs[i] = own[i].lev
  <2>1. \A i \in 1 .. Len(own) : own[i].lev \in Levs
    BY <1>12, <1>13
  <2>2. levs \in [1 .. Len(own) -> Levs]
    BY <1>11, <2>1
  <2>3. \A i \in 1 .. Len(own) : levs[i] = own[i].lev
    BY <1>11
  <2> HIDE DEF levs
  <2>4. levs \in Seq(Levs) /\ Len(levs) = Len(own)
    <3> DEFINE N == Len(own)
    <3>1. N \in Nat /\ levs \in [1 .. N -> Levs]
      BY <1>11, <2>2
    <3> HIDE DEF N
    <3>2. levs \in Seq(Levs) /\ Len(levs) = N
      BY <3>1
    <3> QED
      BY <3>2 DEF N
  <2> QED
    BY <2>3, <2>4
<1>l. found = levs
  BY DEF ScanFinds
<1> HIDE DEF levs
<1>16. \A i \in 1 .. Len(levs) : levs[i] \in OfKind(kind, author, present)
  BY <1>13, <1>15
<1>17. ASSUME NEW i \in 1 .. Len(levs), NEW k \in 1 .. Len(levs), i < k PROVE At(levs[i]) >= At(levs[k])
  <2>1. i \in 1 .. Len(own) /\ k \in 1 .. Len(own) /\ levs[i] = own[i].lev /\ levs[k] = own[k].lev
    BY <1>15
  <2>2. f[i] < f[k]
    BY <1>10, <1>17, <2>1 DEF Selects
  <2> DEFINE a == f[i]
             b == f[k]
  <2>3. /\ a \in 1 .. Len(w) /\ b \in 1 .. Len(w) /\ a < b /\ Prefix(w[a].key) = Prefix(w[b].key)
        /\ own[i] = w[a] /\ own[k] = w[b]
    BY <1>13, <2>1, <2>2
  <2> HIDE DEF a, b
  <2>4. At(w[a].lev) >= At(w[b].lev)
    BY <1>14, <2>3
  <2> QED
    BY <2>1, <2>3, <2>4
<1>18. ASSUME NEW l \in OfKind(kind, author, present), ~\E i \in 1 .. Len(levs) : levs[i] = l
       PROVE  Cardinality(AsNew(kind, author, present, l)) >= limit
  <2> DEFINE c == Key[ix][l]
             S == AsNew(kind, author, present, l)
             g == [i \in 1 .. n |-> w[i].lev]
  <2>1. l \in present /\ l \in Levs /\ Catalog[l].pubkey = author /\ Catalog[l].kind = kind
    BY DEF OfKind
  <2>2. IsKey(ix, c) /\ CreatedAt(c) = At(l) /\ Prefix(c) = p
    BY <1>1, <1>p, <2>1, KeyIs DEF At
  <2>3. At(l) \in Nat /\ At(l) <= U64Max
    BY <2>1, CatalogTyped DEF At
  <2>4. ~Less(ix, key, c)
    <3>1. Less(ix, key, c) <=> CreatedAt(key) < CreatedAt(c)
      BY <1>3, <2>2, NewerOfPrefix
    <3> QED
      BY <1>1, <1>3, <2>2, <2>3, <3>1
  <2>5. PICK j \in 1 .. Len(w) : w[j].lev = l
    <3>1. Beyond(ix, "Reverse", TRUE, key, c)
      BY <2>4 DEF Beyond
    <3> QED
      BY <1>4, <2>1, <3>1 DEF IsWalk
  <2>6. w[j].key = c /\ Prefix(w[j].key) = p
    BY <1>12, <2>2, <2>5
  <2>7. ~(j <= n)
    <3> SUFFICES ASSUME j \in 1 .. n PROVE FALSE
      BY <1>8
    <3>1. rows[j] = w[j] /\ DOMAIN rows = 1 .. n
      BY <1>8
    <3>2. rows[j] \in T
      BY <2>6, <3>1 DEF Range
    <3>3. PICK i \in 1 .. Len(own) : f[i] = j
      BY <1>10, <3>2 DEF Selects
    <3>4. own[i] = w[j]
      BY <1>13, <3>3
    <3> QED
      BY <1>15, <1>18, <2>5, <3>4
  <2>8. n = limit
    BY <1>6, <1>7, <2>7
  <2>9. ASSUME NEW i \in 1 .. n PROVE g[i] \in S /\ i < j /\ i \in 1 .. Len(w)
    <3>1. i \in 1 .. Len(w) /\ i < j /\ g[i] = w[i].lev
      BY <1>8, <2>7
    <3> DEFINE x == w[i]
               y == w[j]
    <3>2. /\ x \in Entries(ix) /\ y \in Entries(ix) /\ x.lev \in Levs /\ x.lev \in present
          /\ x.key = Key[ix][x.lev] /\ IsKey(ix, x.key) /\ ~Less(ix, key, x.key) /\ y.key = c /\ y.lev = l /\ y.lev \in Levs
      BY <1>6, <1>12, <2>5, <2>6, <3>1
    <3>3. Ahead(ix, "Reverse", x.lev, y.lev)
      BY <1>4, <3>1 DEF IsWalk
    <3> HIDE DEF x, y
    <3>4. ~Less(ix, x.key, y.key)
      <4>1. ~Beyond(ix, "Reverse", FALSE, y.key, x.key)
        BY <1>1, <3>2, <3>3, AheadOrder
      <4> QED
        BY <4>1 DEF Beyond
    <3>5. x.lev # y.lev
      BY <1>1, <3>2, <3>3, EntryOrder DEF Ahead
    <3>6. Prefix(x.key) = Prefix(key)
      <4> HIDE DEF c
      <4>1. ~Less(ix, x.key, c) /\ Prefix(c) = Prefix(key)
        BY <1>3, <2>2, <3>2, <3>4
      <4>2. Prefix(x.key) = Prefix(c)
        BY <1>3, <2>2, <3>2, <4>1, PrefixBetween
      <4> QED
        BY <4>1, <4>2
    <3>7. Catalog[x.lev].pubkey = author /\ Catalog[x.lev].kind = kind
      BY <1>p, <1>3, <3>2, <3>6
    <3>8. At(x.lev) >= At(y.lev)
      BY <1>3, <1>14, <2>6, <3>1, <3>6 DEF x, y
    <3>9. x.lev \in S
      BY <3>2, <3>5, <3>7, <3>8 DEF AsNew, OfKind
    <3> QED
      BY <3>1, <3>9 DEF x
  <2>10. ASSUME NEW i \in 1 .. n, NEW k \in 1 .. n, i < k PROVE g[i] # g[k]
    <3>1. i \in 1 .. Len(w) /\ k \in 1 .. Len(w) /\ g[i] = w[i].lev /\ g[k] = w[k].lev
      BY <2>9
    <3>2. Ahead(ix, "Reverse", w[i].lev, w[k].lev) /\ w[i].lev \in Levs /\ w[k].lev \in Levs
      BY <1>4, <1>12, <2>10, <3>1 DEF IsWalk
    <3> QED
      BY <1>1, <3>1, <3>2, EntryOrder DEF Ahead
  <2>11. IsFiniteSet(S)
    <3>1. S \subseteq Levs /\ IsFiniteSet(Levs)
      BY CatalogTyped DEF AsNew, OfKind
    <3> QED
      BY <3>1, FS_Subset
  <2>12. g \in [1 .. n -> S]
    <3> HIDE DEF S
    <3> QED
      BY <2>9
  <2> HIDE DEF g, S
  <2>13. Cardinality(S) >= n
    BY <1>8, <2>10, <2>11, <2>12, AtLeast
  <2> QED
    BY <2>8, <2>13 DEF S
<1> QED
  BY <1>l, <1>15, <1>16, <1>17, <1>18 DEF Newest

-----------------------------------------------------------------------------
(* latestPerAuthor: decoding                                               *)

\* An event that a bucket may lack: its payload cannot be decoded, or strfry
\* stored it compressed, with a dictionary that may not be there.
Lost(l) == ~Opens(Catalog[l].payload) \/ NeedsDict(Catalog[l].payload)

\* What strfry has under l: the payload it stored, or its compressed form, with one
\* of the dictionaries D.
Raw(l, p, D) ==
    LET q == Catalog[l].payload IN
    /\ p \in Payload
    /\ p = q \/ (q.tag = 0 /\ p.tag = 1 /\ p.dict \in D /\ p.len = q.len /\ p.size = q.size /\ p.json = q.json)

\* A payload read that does not open, or lacks its dictionary, is of an event that may be lost.
LEMMA RawLost ==
  ASSUME NEW l \in Levs, NEW p, NEW D, Raw(l, p, D), ~Opens(p) \/ (NeedsDict(p) /\ p.dict \notin D)
  PROVE  Lost(l)
<1> DEFINE q == Catalog[l].payload
<1>1. q.tag = 0 /\ Opens(q) => q.len >= 5 /\ q.size <= MAX_SIZE
  BY CompressedOpens
<1>2. p = q \/ (q.tag = 0 /\ p.tag = 1 /\ p.dict \in D /\ p.len = q.len /\ p.size = q.size /\ p.json = q.json)
  BY DEF Raw
<1> HIDE DEF q
<1>3. CASE p = q
  BY <1>3 DEF Lost, q
<1>4. CASE q.tag = 0 /\ p.tag = 1 /\ p.dict \in D /\ p.len = q.len /\ p.size = q.size /\ p.json = q.json
  <2>1. Opens(q) => Opens(p)
    BY <1>1, <1>4 DEF Opens
  <2> QED
    BY <1>4, <2>1 DEF Lost, q
<1> QED
  BY <1>2, <1>3, <1>4

Fetched == [lev : Levs, raw : Payload]

\* The first n of the levIds are done with, the others wait.
Decoded(n, got, raws, levs, D) ==
    /\ raws \in Seq(Fetched) /\ Len(raws) = Len(levs) - n
    /\ \A i \in 1 .. Len(raws) : raws[i].lev = levs[n + i] /\ Raw(levs[n + i], raws[i].raw, D)
    /\ got \in Seq(Levs)
    /\ \A i \in 1 .. Len(got) : \E k \in 1 .. n : got[i] = levs[k]
    /\ \A i, k \in 1 .. Len(got) : i < k => At(got[i]) >= At(got[k])
    /\ \A k \in 1 .. n : (\E i \in 1 .. Len(got) : got[i] = levs[k]) \/ Lost(levs[k])

Decoding(got, raws, levs, D) == \E n \in 0 .. Len(levs) : Decoded(n, got, raws, levs, D)

\* The next payload is kept, or it is lost.
LEMMA DecodesOne ==
  ASSUME NEW levs \in Seq(Levs), \A i, k \in 1 .. Len(levs) : i < k => At(levs[i]) >= At(levs[k]),
         NEW got, NEW raws, NEW D, Decoding(got, raws, levs, D), Len(raws) > 0,
         NEW more, NEW keep \in BOOLEAN, keep => more = Append(got, raws[1].lev),
         ~keep => more = got /\ Lost(raws[1].lev)
  PROVE  Decoding(more, Tail(raws), levs, D)
<1>1. PICK n \in 0 .. Len(levs) : Decoded(n, got, raws, levs, D)
  BY DEF Decoding
<1> DEFINE F == Fetched
           N == Len(raws)
           l == raws[1].lev
<1>2. /\ raws \in Seq(F) /\ N = Len(levs) - n /\ got \in Seq(Levs)
      /\ \A i \in 1 .. N : raws[i].lev = levs[n + i] /\ Raw(levs[n + i], raws[i].raw, D)
  BY <1>1 DEF Decoded
<1> HIDE DEF F
<1>3. /\ N \in Nat /\ N > 0 /\ Len(levs) \in Nat /\ n \in Nat /\ n + 1 \in 1 .. Len(levs) /\ Len(got) \in Nat
      /\ n + 1 \in 0 .. Len(levs)
  BY <1>2
<1>4. Tail(raws) \in Seq(F) /\ Len(Tail(raws)) = N - 1 /\ \A i \in 1 .. N - 1 : Tail(raws)[i] = raws[i + 1]
  <2>1. raws # <<>>
    BY <1>2, <1>3
  <2>2. Tail(raws) \in Seq(F) /\ Len(Tail(raws)) = N - 1
    BY <1>2, <2>1
  <2>3. \A i \in 1 .. N - 1 : Tail(raws)[i] = raws[i + 1]
    BY <1>2, <2>1
  <2> QED
    BY <2>2, <2>3
<1>5. l = levs[n + 1] /\ l \in Levs
  <2>1. 1 \in 1 .. N
    BY <1>3
  <2>2. l = levs[n + 1]
    BY <1>2, <2>1
  <2>3. levs[n + 1] \in Levs
    BY <1>3
  <2> QED
    BY <2>2, <2>3
<1> HIDE DEF N, l
<1> DEFINE rest == Tail(raws)
<1>6. /\ rest \in Seq(F) /\ Len(rest) = Len(levs) - (n + 1)
      /\ \A i \in 1 .. Len(rest) : rest[i].lev = levs[(n + 1) + i] /\ Raw(levs[(n + 1) + i], rest[i].raw, D)
  <2>1. Len(rest) = Len(levs) - (n + 1)
    BY <1>2, <1>3, <1>4
  <2>2. ASSUME NEW i \in 1 .. Len(rest)
        PROVE  rest[i].lev = levs[(n + 1) + i] /\ Raw(levs[(n + 1) + i], rest[i].raw, D)
    <3>1. i \in 1 .. N - 1 /\ i + 1 \in 1 .. N /\ n + (i + 1) = (n + 1) + i
      BY <1>3, <1>4
    <3>2. rest[i] = raws[i + 1]
      BY <1>4, <3>1
    <3>3. raws[i + 1].lev = levs[n + (i + 1)] /\ Raw(levs[n + (i + 1)], raws[i + 1].raw, D)
      BY <1>2, <3>1
    <3> QED
      BY <3>1, <3>2, <3>3
  <2> QED
    BY <1>4, <2>1, <2>2
<1> HIDE DEF rest
<1>7. /\ \A i \in 1 .. Len(got) : \E k \in 1 .. n : got[i] = levs[k]
      /\ \A i, k \in 1 .. Len(got) : i < k => At(got[i]) >= At(got[k])
      /\ \A k \in 1 .. n : (\E i \in 1 .. Len(got) : got[i] = levs[k]) \/ Lost(levs[k])
  BY <1>1 DEF Decoded
<1>8. \A k \in 1 .. n : k \in 1 .. n + 1 /\ k \in 1 .. Len(levs) /\ k < n + 1
  BY <1>3
<1>9. \A k \in 1 .. n + 1 : k = n + 1 \/ k \in 1 .. n
  BY <1>3
<1>10. CASE keep = FALSE
  <2>1. more = got /\ Lost(levs[n + 1])
    BY <1>5, <1>10 DEF l
  <2>2. \A i \in 1 .. Len(got) : \E k \in 1 .. n + 1 : got[i] = levs[k]
    BY <1>7, <1>8
  <2>3. \A k \in 1 .. n + 1 : (\E i \in 1 .. Len(got) : got[i] = levs[k]) \/ Lost(levs[k])
    BY <1>7, <1>9, <2>1
  <2>4. Decoded(n + 1, got, rest, levs, D)
    BY <1>2, <1>6, <1>7, <2>2, <2>3 DEF Decoded, F
  <2> QED
    BY <1>3, <2>1, <2>4 DEF Decoding, rest
<1>11. CASE keep = TRUE
  <2> DEFINE M == Len(got)
  <2>1. /\ more \in Seq(Levs) /\ Len(more) = M + 1 /\ more[M + 1] = levs[n + 1]
        /\ \A i \in 1 .. M : more[i] = got[i]
    <3>1. more = Append(got, l)
      BY <1>11 DEF l
    <3> QED
      BY <1>2, <1>5, <3>1
  <2>2. M \in Nat /\ (\A i \in 1 .. M + 1 : i = M + 1 \/ i \in 1 .. M) /\ M + 1 \in 1 .. M + 1
        /\ \A i \in 1 .. M : i \in 1 .. M + 1
    BY <1>3
  <2> HIDE DEF M
  <2>3. ASSUME NEW i \in 1 .. M + 1 PROVE \E k \in 1 .. n + 1 : more[i] = levs[k]
    <3>1. CASE i = M + 1
      <4>1. n + 1 \in 1 .. n + 1
        BY <1>3
      <4> QED
        BY <2>1, <3>1, <4>1
    <3>2. CASE i \in 1 .. M
      BY <1>7, <1>8, <2>1, <3>2 DEF M
    <3> QED
      BY <2>2, <3>1, <3>2
  <2>4. ASSUME NEW i \in 1 .. M + 1, NEW k \in 1 .. M + 1, i < k PROVE At(more[i]) >= At(more[k])
    <3>1. i \in 1 .. M
      BY <2>2, <2>4
    <3>2. CASE k \in 1 .. M
      BY <1>7, <2>1, <2>4, <3>1, <3>2 DEF M
    <3>3. CASE k = M + 1
      <4>1. PICK a \in 1 .. n : got[i] = levs[a]
        BY <1>7, <3>1 DEF M
      <4>2. At(levs[a]) >= At(levs[n + 1])
        BY <1>3, <1>8
      <4> QED
        BY <2>1, <3>1, <3>3, <4>1, <4>2
    <3> QED
      BY <2>2, <3>2, <3>3
  <2>5. ASSUME NEW k \in 1 .. n + 1 PROVE (\E i \in 1 .. M + 1 : more[i] = levs[k]) \/ Lost(levs[k])
    <3>1. CASE k = n + 1
      BY <2>1, <2>2, <3>1
    <3>2. CASE k \in 1 .. n
      <4>1. (\E i \in 1 .. M : got[i] = levs[k]) \/ Lost(levs[k])
        BY <1>7, <3>2 DEF M
      <4> QED
        BY <2>1, <2>2, <4>1
    <3> QED
      BY <1>9, <3>1, <3>2
  <2>6. Decoded(n + 1, more, rest, levs, D)
    <3>1. Len(more) = M + 1
      BY <2>1
    <3> QED
      BY <1>6, <2>1, <2>3, <2>4, <2>5, <3>1 DEF Decoded, F
  <2> QED
    BY <1>3, <2>6 DEF Decoding, rest
<1> QED
  BY <1>10, <1>11

\* A bucket of author i that is as BucketIsNewest has it.
Bucketed(j, i, bucket, S) ==
    /\ S \subseteq Levs /\ bucket \in Seq(Levs)
    /\ \A m \in 1 .. Len(bucket) :
          bucket[m] \in OfKind(j.eventKind, j.authors[i], S) /\ ~Catalog[bucket[m]].expired
    /\ \A m, n \in 1 .. Len(bucket) : m < n => At(bucket[m]) >= At(bucket[n])
    /\ \A l \in OfKind(j.eventKind, j.authors[i], S) :
          \/ \E m \in 1 .. Len(bucket) : bucket[m] = l
          \/ Catalog[l].expired \/ Lost(l)
          \/ Cardinality(AsNew(j.eventKind, j.authors[i], S, l)) >= Clamp(j.perAuthor)

\* What is left of the decoded events after is_expired is the author's bucket.
LEMMA BucketFilled ==
  ASSUME NEW j, NEW i, NEW S, NEW levs, NEW got, NEW raws, NEW D, NEW live,
         Picked(j, j.authors[i], S, levs), Decoding(got, raws, levs, D), Len(raws) = 0,
         live = Kept(got, {l \in Levs : ~is_expired(l)})
  PROVE  Bucketed(j, i, live, S)
<1> DEFINE T == {l \in Levs : ~is_expired(l)}
           O == OfKind(j.eventKind, j.authors[i], S)
<1>1. PICK n \in 0 .. Len(levs) : Decoded(n, got, raws, levs, D)
  BY DEF Decoding
<1>2. S \subseteq Levs /\ levs \in Seq(Levs) /\ got \in Seq(Levs) /\ Len(raws) = Len(levs) - n
  BY <1>1 DEF Decoded, Picked, Newest
<1>3. n = Len(levs) /\ Len(levs) \in Nat
  BY <1>2
<1>4. /\ \A k \in 1 .. Len(got) : \E m \in 1 .. Len(levs) : got[k] = levs[m]
      /\ \A k, m \in 1 .. Len(got) : k < m => At(got[k]) >= At(got[m])
      /\ \A m \in 1 .. Len(levs) : (\E k \in 1 .. Len(got) : got[k] = levs[m]) \/ Lost(levs[m])
  BY <1>1, <1>3 DEF Decoded
<1>5. /\ \A k \in 1 .. Len(levs) : levs[k] \in O
      /\ \A l \in O : \/ \E k \in 1 .. Len(levs) : levs[k] = l
                      \/ Cardinality(AsNew(j.eventKind, j.authors[i], S, l)) >= Clamp(j.perAuthor)
  BY DEF Picked, Newest
<1>6. live \in Seq(Levs) /\ \E f : Selects(live, got, T, f, Len(got))
  <2>1. live = Kept(got, T)
    OBVIOUS
  <2> HIDE DEF T
  <2> QED
    BY <1>2, <2>1, KeptIs
<1>7. PICK f : Selects(live, got, T, f, Len(got))
  BY <1>6
<1>8. ASSUME NEW m \in 1 .. Len(live)
      PROVE  f[m] \in 1 .. Len(got) /\ live[m] = got[f[m]] /\ live[m] \in O /\ ~Catalog[live[m]].expired
  <2>1. f[m] \in 1 .. Len(got) /\ live[m] = got[f[m]] /\ got[f[m]] \in T
    BY <1>7 DEF Selects
  <2>2. PICK k \in 1 .. Len(levs) : got[f[m]] = levs[k]
    BY <1>4, <2>1
  <2> HIDE DEF O
  <2> QED
    BY <1>5, <2>1, <2>2 DEF is_expired
<1>9. ASSUME NEW m \in 1 .. Len(live), NEW k \in 1 .. Len(live), m < k PROVE At(live[m]) >= At(live[k])
  <2>1. f[m] < f[k]
    BY <1>7, <1>9 DEF Selects
  <2> QED
    BY <1>4, <1>8, <2>1
<1>10. ASSUME NEW l \in O, ~\E m \in 1 .. Len(live) : live[m] = l, ~Catalog[l].expired, ~Lost(l)
       PROVE  Cardinality(AsNew(j.eventKind, j.authors[i], S, l)) >= Clamp(j.perAuthor)
  <2> SUFFICES ASSUME NEW k \in 1 .. Len(levs), levs[k] = l PROVE FALSE
    BY <1>5
  <2>1. PICK m \in 1 .. Len(got) : got[m] = l
    BY <1>4, <1>10
  <2>2. got[m] \in T
    <3>1. l \in Levs
      BY <1>2
    <3> QED
      BY <1>10, <2>1, <3>1 DEF is_expired
  <2> HIDE DEF T
  <2>3. PICK a \in 1 .. Len(live) : f[a] = m
    BY <1>7, <2>2 DEF Selects
  <2> QED
    BY <1>8, <1>10, <2>1, <2>3
<1> HIDE DEF O
<1> QED
  BY <1>2, <1>6, <1>8, <1>9, <1>10 DEF Bucketed, O

\* A worker's record.
Fields(r) == DOMAIN r = {"pc", "next", "levs", "raws", "got", "atScan", "groups", "scanned"}

\* The buckets that are filled, and those that are not yet.
Buckets(j, next, groups, scanned) ==
    /\ next \in Nat /\ next > 0
    /\ groups = [i \in 1 .. Len(j.authors) |-> groups[i]]
    /\ scanned = [i \in 1 .. Len(j.authors) |-> scanned[i]]
    /\ \A i \in 1 .. Len(j.authors) :
          Bucketed(j, i, groups[i], scanned[i]) /\ (i >= next => groups[i] = <<>> /\ scanned[i] = {})

\* The next payload needs a dictionary.
Waits(raws) == Len(raws) > 0 /\ NeedsDict(raws[1].raw)

WorkInv(j, r, D) ==
    /\ Fields(r) /\ Buckets(j, r.next, r.groups, r.scanned)
    /\ r.pc \notin {"begin", "failed"} => j.eventKind >= 0
    /\ r.pc \in {"fetch", "decode", "load", "insert"} =>
          r.next \in 1 .. Len(j.authors) /\ Picked(j, j.authors[r.next], r.atScan, r.levs)
    /\ r.pc \in {"decode", "load", "insert"} => Decoding(r.got, r.raws, r.levs, D)
    /\ r.pc \in {"load", "insert"} => Waits(r.raws)
    /\ r.pc = "insert" => r.raws[1].raw.dict \in D

StoreInv ==
    /\ present \subseteq Levs /\ dicts \subseteq Dicts
    /\ payload = [l \in Levs |-> payload[l]]
    /\ \A l \in Levs : payload[l] \in Payload /\ (l \in present => Raw(l, payload[l], dicts))

\* The cache holds what strfry has stored.
CacheInv ==
    /\ cache = [d \in Dicts |-> cache[d]]
    /\ \A d \in Dicts : cache[d] = NotLoaded \/ (cache[d] = d /\ d \in dicts)

LatestInv ==
    /\ job \in Jobs /\ StoreInv /\ CacheInv
    /\ work = [w \in Workers |-> work[w]]
    /\ job.kind # "latest" => \A w \in Workers : work[w].pc = "begin"
    /\ job.kind = "latest" => \A w \in Workers : WorkInv(job, work[w], dicts)

\* An author that was not scanned has an empty bucket.
LEMMA EmptyBucket ==
  ASSUME NEW j, NEW i
  PROVE  Bucketed(j, i, <<>>, {})
<1>1. <<>> \in Seq(Levs) /\ Len(<<>>) = 0 /\ 1 .. 0 = {}
  OBVIOUS
<1>2. OfKind(j.eventKind, j.authors[i], {}) = {}
  BY DEF OfKind
<1> QED
  BY <1>1, <1>2 DEF Bucketed

\* The invariant of latestPerAuthor holds before the first request.
LEMMA LatestInit == ReaderInit => LatestInv
<1> SUFFICES ASSUME ReaderInit PROVE LatestInv
  OBVIOUS
<1>1. job \in Jobs /\ present = AtStart /\ dicts = {}
  BY DEF ReaderInit
<1>2. StoreInv
  <2>1. payload = [l \in Levs |-> IF l \in AtStart THEN Catalog[l].payload ELSE [Catalog[l].payload EXCEPT !.len = 0]]
    BY DEF ReaderInit
  <2>2. present \subseteq Levs
    BY <1>1, ReaderConstants, Zenon
  <2>3. ASSUME NEW l \in Levs PROVE payload[l] \in Payload /\ (l \in present => Raw(l, payload[l], dicts))
    <3> DEFINE q == Catalog[l].payload
    <3>1. q \in Payload
      BY CatalogTyped DEF Event
    <3>2. [q EXCEPT !.len = 0] \in Payload
      BY <3>1 DEF Payload
    <3>3. l \in AtStart => payload[l] = q
      BY <2>1
    <3>4. l \notin AtStart => payload[l] = [q EXCEPT !.len = 0]
      BY <2>1
    <3> HIDE DEF q
    <3> QED
      BY <1>1, <3>1, <3>2, <3>3, <3>4 DEF Raw, q
  <2>4. payload = [l \in Levs |-> payload[l]]
    BY <2>1
  <2> QED
    BY <1>1, <2>2, <2>3, <2>4 DEF StoreInv
<1>3. CacheInv
  BY DEF ReaderInit, CacheInv
<1>4. work = [w \in Workers |->
                 [pc |-> "begin", next |-> 1, levs |-> <<>>, raws |-> <<>>, got |-> <<>>, atScan |-> {},
                  groups |-> [i \in DOMAIN job.authors |-> <<>>], scanned |-> [i \in DOMAIN job.authors |-> {}]]]
  BY DEF ReaderInit
<1>5. \A w \in Workers : work[w].pc = "begin"
  BY <1>4
<1>6. ASSUME job.kind = "latest", NEW w \in Workers PROVE WorkInv(job, work[w], dicts)
  <2> DEFINE r == work[w]
  <2>1. job.authors \in Seq(Seq(0 .. Base - 1))
    BY <1>1, <1>6, ReaderConstants, Zenon
  <2>2. Len(job.authors) \in Nat /\ DOMAIN job.authors = 1 .. Len(job.authors)
    BY <2>1
  <2>3. r = [pc |-> "begin", next |-> 1, levs |-> <<>>, raws |-> <<>>, got |-> <<>>, atScan |-> {},
             groups |-> [i \in DOMAIN job.authors |-> <<>>], scanned |-> [i \in DOMAIN job.authors |-> {}]]
    BY <1>4
  <2> HIDE DEF r
  <2>4. Fields(r) /\ r.pc = "begin" /\ r.next = 1
    BY <2>3 DEF Fields
  <2>5. r.groups = [i \in DOMAIN job.authors |-> <<>>] /\ r.scanned = [i \in DOMAIN job.authors |-> {}]
    BY <2>3
  <2>6. \A i \in 1 .. Len(job.authors) : r.groups[i] = <<>> /\ r.scanned[i] = {}
    BY <2>2, <2>5
  <2>7. /\ r.groups = [i \in 1 .. Len(job.authors) |-> r.groups[i]]
        /\ r.scanned = [i \in 1 .. Len(job.authors) |-> r.scanned[i]]
    <3> DEFINE N == Len(job.authors)
               g == r.groups
               c == r.scanned
    <3>1. g = [i \in 1 .. N |-> <<>>] /\ c = [i \in 1 .. N |-> {}]
      BY <2>2, <2>5
    <3> HIDE DEF N, g, c
    <3>2. g = [i \in 1 .. N |-> g[i]] /\ c = [i \in 1 .. N |-> c[i]]
      BY <3>1
    <3> QED
      BY <3>2 DEF N, g, c
  <2>8. Buckets(job, r.next, r.groups, r.scanned)
    <3>1. ASSUME NEW i \in 1 .. Len(job.authors) PROVE Bucketed(job, i, r.groups[i], r.scanned[i])
      <4>1. r.groups[i] = <<>> /\ r.scanned[i] = {}
        BY <2>6
      <4>2. Bucketed(job, i, <<>>, {})
        BY EmptyBucket
      <4> QED
        BY <4>1, <4>2
    <3>2. r.next \in Nat /\ r.next > 0
      BY <2>4
    <3> QED
      BY <2>6, <2>7, <3>1, <3>2, Zenon DEF Buckets
  <2> QED
    BY <2>4, <2>8 DEF WorkInv, r
<1> QED
  BY <1>1, <1>2, <1>3, <1>4, <1>5, <1>6 DEF LatestInv

\* A dictionary more does no harm.
LEMMA MoreDicts ==
  ASSUME NEW j, NEW r, NEW D, NEW E, D \subseteq E, WorkInv(j, r, D)
  PROVE  WorkInv(j, r, E)
<1>1. \A l, p : Raw(l, p, D) => Raw(l, p, E)
  BY DEF Raw
<1>2. ASSUME Decoding(r.got, r.raws, r.levs, D) PROVE Decoding(r.got, r.raws, r.levs, E)
  <2>1. PICK n \in 0 .. Len(r.levs) : Decoded(n, r.got, r.raws, r.levs, D)
    BY <1>2 DEF Decoding
  <2>2. Decoded(n, r.got, r.raws, r.levs, E)
    BY <1>1, <2>1 DEF Decoded
  <2> QED
    BY <2>2 DEF Decoding
<1> QED
  BY <1>2 DEF WorkInv

\* strfry writes.
LEMMA LatestStrfry == ASSUME LatestInv, Strfry PROVE LatestInv'
<1>0. job' = job /\ work' = work /\ cache' = cache
  BY DEF Strfry, StoreEvent, DeleteEvent, Train, Compress, Rest
<1>1. /\ present \subseteq Levs /\ dicts \subseteq Dicts /\ payload = [l \in Levs |-> payload[l]]
      /\ \A l \in Levs : payload[l] \in Payload /\ (l \in present => Raw(l, payload[l], dicts))
  BY DEF LatestInv, StoreInv
<1>2. StoreInv' /\ dicts \subseteq dicts'
  <2>1. CASE StoreEvent
    <3>1. PICK l \in Levs \ AtStart : present' = present \cup {l} /\ payload' = [payload EXCEPT ![l] = Catalog[l].payload]
      BY <2>1 DEF StoreEvent
    <3>2. dicts' = dicts
      BY <2>1 DEF StoreEvent
    <3>3. Catalog[l].payload \in Payload
      BY CatalogTyped DEF Event
    <3>4. payload' = [m \in Levs |-> IF m = l THEN Catalog[l].payload ELSE payload[m]]
      BY <1>1, <3>1
    <3>5. \A m \in Levs : payload'[m] = IF m = l THEN Catalog[l].payload ELSE payload[m]
      BY <3>4
    <3>6. payload' = [m \in Levs |-> payload'[m]]
      BY <3>4
    <3>7. ASSUME NEW m \in Levs PROVE payload'[m] \in Payload /\ (m \in present' => Raw(m, payload'[m], dicts))
      <4>1. CASE m = l
        BY <3>3, <3>5, <4>1 DEF Raw
      <4>2. CASE m # l
        BY <1>1, <3>1, <3>5, <4>2
      <4> QED
        BY <4>1, <4>2
    <3>8. present' \subseteq Levs
      BY <1>1, <3>1
    <3> QED
      BY <1>1, <3>2, <3>6, <3>7, <3>8 DEF StoreInv
  <2>2. CASE DeleteEvent
    <3>1. present' \subseteq present /\ payload' = payload /\ dicts' = dicts
      BY <2>2 DEF DeleteEvent
    <3> QED
      BY <1>1, <3>1 DEF StoreInv
  <2>3. CASE Train
    <3>1. PICK d \in Dicts : dicts' = dicts \cup {d}
      BY <2>3 DEF Train
    <3>2. payload' = payload /\ present' = present
      BY <2>3 DEF Train
    <3>3. \A l, p : Raw(l, p, dicts) => Raw(l, p, dicts')
      BY <3>1 DEF Raw
    <3> QED
      BY <1>1, <3>1, <3>2, <3>3 DEF StoreInv
  <2>4. CASE Compress
    <3>1. PICK l \in present, d \in dicts : payload[l].tag = 0 /\ payload' = [payload EXCEPT ![l].tag = 1, ![l].dict = d]
      BY <2>4 DEF Compress
    <3>2. present' = present /\ dicts' = dicts
      BY <2>4 DEF Compress
    <3> DEFINE p == payload[l]
               c == [p EXCEPT !.tag = 1, !.dict = d]
               q == Catalog[l].payload
    <3>3. l \in Levs /\ d \in Dicts /\ p \in Payload /\ Raw(l, p, dicts) /\ p.tag = 0
      BY <1>1, <3>1
    <3>4. payload' = [m \in Levs |-> IF m = l THEN c ELSE payload[m]]
      BY <1>1, <3>1, <3>3
    <3> HIDE DEF p, q
    <3>5. c \in Payload /\ c.tag = 1 /\ c.dict = d /\ c.len = p.len /\ c.size = p.size /\ c.json = p.json
      BY <3>3 DEF Payload
    <3>6. p = q
      BY <3>3 DEF Raw, q
    <3>7. Raw(l, c, dicts)
      <4> HIDE DEF c
      <4> QED
        BY <3>1, <3>3, <3>5, <3>6 DEF Raw, q
    <3> HIDE DEF c
    <3>8. \A m \in Levs : payload'[m] = IF m = l THEN c ELSE payload[m]
      BY <3>4
    <3>9. payload' = [m \in Levs |-> payload'[m]]
      BY <3>4
    <3> QED
      BY <1>1, <3>2, <3>5, <3>7, <3>8, <3>9 DEF StoreInv
  <2> QED
    BY <2>1, <2>2, <2>3, <2>4 DEF Strfry
<1>3. CacheInv'
  BY <1>0, <1>2 DEF LatestInv, CacheInv
<1>4. job' \in Jobs /\ work' = [w \in Workers |-> work'[w]] /\ (job'.kind # "latest" => \A w \in Workers : work'[w].pc = "begin")
  BY <1>0 DEF LatestInv
<1>5. job'.kind = "latest" => \A w \in Workers : WorkInv(job', work'[w], dicts')
  <2>1. job.kind = "latest" => \A w \in Workers : WorkInv(job, work[w], dicts)
    BY DEF LatestInv
  <2> QED
    BY <1>0, <1>2, <2>1, MoreDicts
<1> QED
  BY <1>2, <1>3, <1>4, <1>5 DEF LatestInv

\* A worker's step.
LEMMA WorkerStep ==
  ASSUME LatestInv, job.kind = "latest", NEW w \in Workers, UNCHANGED LatestRest, CacheInv',
         NEW r, WorkInv(job, r, dicts), work' = [work EXCEPT ![w] = r]
  PROVE  LatestInv'
<1>1. job' = job /\ present' = present /\ payload' = payload /\ dicts' = dicts
  BY DEF LatestRest, store
<1>2. StoreInv'
  BY <1>1 DEF LatestInv, StoreInv
<1>3. work = [v \in Workers |-> work[v]] /\ \A v \in Workers : WorkInv(job, work[v], dicts)
  BY DEF LatestInv
<1>4. work' = [v \in Workers |-> IF v = w THEN r ELSE work[v]]
  BY <1>3
<1>5. work' = [v \in Workers |-> work'[v]] /\ \A v \in Workers : work'[v] = IF v = w THEN r ELSE work[v]
  BY <1>4
<1>6. \A v \in Workers : WorkInv(job', work'[v], dicts')
  BY <1>1, <1>3, <1>5
<1> QED
  BY <1>1, <1>2, <1>5, <1>6 DEF LatestInv

\* The cache and a worker as the step finds them.
LEMMA WorkerAt ==
  ASSUME LatestInv, job.kind = "latest", NEW w \in Workers
  PROVE  /\ WorkInv(job, work[w], dicts) /\ Fields(work[w])
         /\ Buckets(job, work[w].next, work[w].groups, work[w].scanned)
         /\ job.authors \in Seq(Seq(Byte)) /\ job.perAuthor \in Int /\ job.eventKind \in Int /\ job.eventKind <= U64Max
<1>1. job \in Jobs /\ WorkInv(job, work[w], dicts)
  BY DEF LatestInv
<1>2. /\ job.authors \in Seq(Seq(0 .. Base - 1)) /\ job.perAuthor \in Int
      /\ job.eventKind \in Int /\ job.eventKind <= U64Max
  BY <1>1, ReaderConstants, Zenon
<1> QED
  BY <1>1, <1>2 DEF WorkInv, Byte

\* The resolver's check of the number of authors preserves the invariant.
LEMMA BeginStep ==
  ASSUME LatestInv, job.kind = "latest", NEW w \in Workers, Begin(w)
  PROVE  LatestInv'
<1> DEFINE q == work[w]
           pc == IF Refused THEN "failed" ELSE "author"
           r == [q EXCEPT !.pc = pc]
<1>1. UNCHANGED LatestRest /\ cache' = cache /\ work' = [work EXCEPT ![w] = r]
  BY DEF Begin
<1>2. /\ WorkInv(job, q, dicts) /\ Fields(q) /\ Buckets(job, q.next, q.groups, q.scanned)
      /\ job.eventKind \in Int
  BY WorkerAt
<1>3. pc \in {"failed", "author"} /\ (pc = "author" => job.eventKind >= 0)
  BY <1>2 DEF Refused
<1> HIDE DEF q, pc
<1>4. r = [q EXCEPT !.pc = pc]
  OBVIOUS
<1> HIDE DEF r
<1>5. Fields(r) /\ r.pc = pc /\ r.next = q.next /\ r.groups = q.groups /\ r.scanned = q.scanned
  <2>f. Fields(q)
    BY <1>2
  <2> QED
    BY <1>4, <2>f DEF Fields
<1>6. WorkInv(job, r, dicts)
  BY <1>2, <1>3, <1>5 DEF WorkInv
<1>7. CacheInv'
  BY <1>1 DEF LatestInv, CacheInv, LatestRest, store
<1> QED
  BY <1>1, <1>6, <1>7, WorkerStep DEF q, r

\* The scan of an author, which may run on into other kinds and authors, preserves it.
LEMMA ScanAuthorStep ==
  ASSUME LatestInv, job.kind = "latest", NEW w \in Workers, ScanAuthor(w)
  PROVE  LatestInv'
<1> DEFINE q == work[w]
<1>1. UNCHANGED LatestRest /\ cache' = cache /\ q.pc = "author"
  BY DEF ScanAuthor
<1>2. /\ WorkInv(job, q, dicts) /\ Fields(q) /\ Buckets(job, q.next, q.groups, q.scanned)
      /\ job.authors \in Seq(Seq(Byte)) /\ job.perAuthor \in Int /\ job.eventKind \in Int /\ job.eventKind <= U64Max
  BY WorkerAt
<1>3. CacheInv'
  BY <1>1 DEF LatestInv, CacheInv, LatestRest, store
<1>4. job.eventKind \in Nat /\ q.next \in Nat /\ q.next > 0 /\ Len(job.authors) \in Nat
  <2>1. job.eventKind >= 0
    BY <1>1, <1>2 DEF WorkInv
  <2>2. Len(job.authors) \in Nat
    BY <1>2
  <2> QED
    BY <1>2, <2>1, <2>2 DEF Buckets
<1>5. CASE q.next > Len(job.authors) /\ work' = [work EXCEPT ![w].pc = "done"]
  <2> DEFINE r == [q EXCEPT !.pc = "done"]
  <2>1. work' = [work EXCEPT ![w] = r]
    BY <1>5
  <2> HIDE DEF q
  <2>2. r = [q EXCEPT !.pc = "done"]
    OBVIOUS
  <2> HIDE DEF r
  <2>3. Fields(r) /\ r.pc = "done" /\ r.next = q.next /\ r.groups = q.groups /\ r.scanned = q.scanned
    <3>f. Fields(q)
      BY <1>2
    <3> QED
      BY <2>2, <3>f DEF Fields
  <2>4. WorkInv(job, r, dicts)
    BY <1>2, <1>4, <2>3 DEF WorkInv
  <2> QED
    BY <1>1, <1>3, <2>1, <2>4, WorkerStep
<1> DEFINE author == job.authors[q.next]
           kind == job.eventKind
           limit == Clamp(job.perAuthor)
           rows == CollectBounded("Event__pubkeyKind", Rows("Event__pubkeyKind"), "Reverse",
                                  author \o Le(kind) \o Le(U64Max), limit)
           own == Kept(rows, {x \in Range(rows) : Prefix(x.key) = author \o Le(kind)})
           found == [i \in DOMAIN own |-> own[i].lev]
<1>6. CASE /\ q.next <= Len(job.authors)
           /\ work' = [work EXCEPT ![w].pc = "fetch", ![w].levs = found, ![w].atScan = present]
  <2> DEFINE r == [q EXCEPT !.pc = "fetch", !.levs = found, !.atScan = present]
  <2>1. work' = [work EXCEPT ![w] = r]
    <3> HIDE DEF found
    <3> QED
      BY <1>6
  <2>2. present \subseteq Levs
    BY DEF LatestInv, StoreInv
  <2>3. author \in Seq(Byte) /\ q.next \in 1 .. Len(job.authors)
    <3>1. q.next \in 1 .. Len(job.authors)
      <4>1. q.next <= Len(job.authors)
        <5> HIDE DEF found
        <5> QED
          BY <1>6
      <4> QED
        BY <1>4, <4>1
    <3> DEFINE Z == Seq(Byte)
               next == q.next
    <3>2. job.authors \in Seq(Z) /\ next \in 1 .. Len(job.authors)
      BY <1>2, <3>1
    <3> HIDE DEF Z, next
    <3>3. job.authors[next] \in Z
      BY <3>2
    <3> QED
      BY <3>1, <3>3 DEF Z, next
  <2>4. limit \in Nat /\ limit > 0
    BY <1>2, ClampIs
  <2> HIDE DEF author, limit, kind
  <2>5. Newest(kind, limit, author, present, found)
    <3>1. kind \in Nat /\ kind <= U64Max
      BY <1>2, <1>4 DEF kind
    <3>2. ScanFinds(kind, limit, author, rows, own, found)
      BY Zenon DEF ScanFinds
    <3> HIDE DEF rows, own, found
    <3> QED
      BY <2>2, <2>3, <2>4, <3>1, <3>2, ScanPicks
  <2> HIDE DEF found
  <2>6. Picked(job, author, present, found)
    BY <2>5 DEF Picked, kind, limit
  <2> HIDE DEF q
  <2>7. r = [q EXCEPT !.pc = "fetch", !.levs = found, !.atScan = present]
    OBVIOUS
  <2> HIDE DEF r
  <2>8. /\ Fields(r) /\ r.pc = "fetch" /\ r.next = q.next /\ r.groups = q.groups /\ r.scanned = q.scanned
        /\ r.levs = found /\ r.atScan = present
    <3>f. Fields(q)
      BY <1>2
    <3> QED
      BY <2>7, <3>f DEF Fields
  <2>9. WorkInv(job, r, dicts)
    BY <1>2, <1>4, <2>3, <2>6, <2>8 DEF WorkInv, author
  <2> QED
    BY <1>1, <1>3, <2>1, <2>9, WorkerStep
<1>7. CASE q.next <= Len(job.authors) /\ work' = [work EXCEPT ![w].next = @ + 1]
  <2> DEFINE r == [q EXCEPT !.next = @ + 1]
  <2>1. work' = [work EXCEPT ![w] = r]
    BY <1>7
  <2> HIDE DEF q
  <2>2. r = [q EXCEPT !.next = @ + 1]
    OBVIOUS
  <2> HIDE DEF r
  <2>3. Fields(r) /\ r.pc = "author" /\ r.next = q.next + 1 /\ r.groups = q.groups /\ r.scanned = q.scanned
    <3>f. Fields(q)
      BY <1>2
    <3> QED
      BY <1>1, <2>2, <3>f DEF Fields
  <2>4. Buckets(job, r.next, r.groups, r.scanned)
    <3>1. q.next + 1 \in Nat /\ q.next + 1 > 0 /\ \A i \in 1 .. Len(job.authors) : i >= q.next + 1 => i >= q.next
      BY <1>4
    <3> QED
      BY <1>2, <2>3, <3>1 DEF Buckets
  <2>5. WorkInv(job, r, dicts)
    BY <1>4, <2>3, <2>4 DEF WorkInv
  <2> QED
    BY <1>1, <1>3, <2>1, <2>5, WorkerStep
<1>8. \/ q.next > Len(job.authors) /\ work' = [work EXCEPT ![w].pc = "done"]
      \/ /\ q.next <= Len(job.authors)
         /\ work' = [work EXCEPT ![w].pc = "fetch", ![w].levs = found, ![w].atScan = present]
      \/ q.next <= Len(job.authors) /\ work' = [work EXCEPT ![w].next = @ + 1]
  BY DEF ScanAuthor, Author, Own
<1> QED
  BY <1>5, <1>6, <1>7, <1>8

\* The batch read of the payloads, at a later snapshot than the scan, preserves it.
LEMMA FetchStep ==
  ASSUME LatestInv, job.kind = "latest", NEW w \in Workers, Fetch(w)
  PROVE  LatestInv'
<1> DEFINE q == work[w]
           raws == [i \in DOMAIN q.levs |-> [lev |-> q.levs[i], raw |-> payload[q.levs[i]]]]
<1>1. UNCHANGED LatestRest /\ cache' = cache /\ q.pc = "fetch"
  BY DEF Fetch
<1>2. WorkInv(job, q, dicts) /\ Fields(q) /\ Buckets(job, q.next, q.groups, q.scanned)
  BY WorkerAt
<1>3. CacheInv'
  BY <1>1 DEF LatestInv, CacheInv, LatestRest, store
<1>4. /\ job.eventKind >= 0 /\ q.next \in 1 .. Len(job.authors)
      /\ Picked(job, job.authors[q.next], q.atScan, q.levs) /\ q.levs \in Seq(Levs)
  BY <1>1, <1>2 DEF WorkInv, Picked, Newest
<1>5. CASE ~(Range(q.levs) \subseteq present) /\ work' = [work EXCEPT ![w].pc = "failed"]
  <2> DEFINE r == [q EXCEPT !.pc = "failed"]
  <2>1. work' = [work EXCEPT ![w] = r]
    BY <1>5
  <2> HIDE DEF q
  <2>2. r = [q EXCEPT !.pc = "failed"]
    OBVIOUS
  <2> HIDE DEF r
  <2>3. Fields(r) /\ r.pc = "failed" /\ r.next = q.next /\ r.groups = q.groups /\ r.scanned = q.scanned
    <3>f. Fields(q)
      BY <1>2
    <3> QED
      BY <2>2, <3>f DEF Fields
  <2>4. WorkInv(job, r, dicts)
    BY <1>2, <2>3 DEF WorkInv
  <2> QED
    BY <1>1, <1>3, <2>1, <2>4, WorkerStep
<1>6. CASE Range(q.levs) \subseteq present /\ work' = [work EXCEPT ![w].pc = "decode", ![w].got = <<>>, ![w].raws = raws]
  <2> DEFINE r == [q EXCEPT !.pc = "decode", !.got = <<>>, !.raws = raws]
  <2>1. work' = [work EXCEPT ![w] = r]
    <3> HIDE DEF raws
    <3> QED
      BY <1>6
  <2>2. Decoding(<<>>, raws, q.levs, dicts)
    <3> DEFINE levs == q.levs
               N == Len(levs)
               F == Fetched
    <3>1. N \in Nat /\ DOMAIN levs = 1 .. N /\ \A i \in 1 .. N : levs[i] \in Levs
      BY <1>4
    <3>2. ASSUME NEW i \in 1 .. N
          PROVE  /\ raws[i].lev = levs[i] /\ raws[i].raw = payload[levs[i]] /\ raws[i] \in F
                 /\ Raw(levs[i], raws[i].raw, dicts)
      <4>1. levs[i] \in present /\ levs[i] \in Levs
        BY <1>6, <3>1 DEF Range
      <4>2. payload[levs[i]] \in Payload /\ Raw(levs[i], payload[levs[i]], dicts)
        BY <4>1 DEF LatestInv, StoreInv
      <4>3. raws[i] = [lev |-> levs[i], raw |-> payload[levs[i]]]
        BY <3>1
      <4> HIDE DEF raws, levs
      <4> QED
        BY <4>1, <4>2, <4>3 DEF Fetched
    <3>3. raws \in [1 .. N -> F]
      <4> HIDE DEF F
      <4> QED
        BY <3>1, <3>2
    <3> HIDE DEF raws, F, N
    <3>4. raws \in Seq(F) /\ Len(raws) = N
      BY <3>1, <3>3
    <3>5. \A i \in 1 .. Len(raws) : raws[i].lev = levs[0 + i] /\ Raw(levs[0 + i], raws[i].raw, dicts)
      <4>1. \A i \in 1 .. N : 0 + i = i
        BY <3>1
      <4> QED
        BY <3>2, <3>4, <4>1
    <3>6. <<>> \in Seq(Levs) /\ Len(<<>>) = 0 /\ 1 .. 0 = {} /\ 0 \in 0 .. N /\ Len(raws) = N - 0
      BY <3>1, <3>4
    <3> HIDE DEF levs
    <3>7. Decoded(0, <<>>, raws, levs, dicts)
      BY <3>4, <3>5, <3>6 DEF Decoded, F, N
    <3> QED
      BY <3>6, <3>7 DEF Decoding, levs, N
  <2> HIDE DEF raws, q
  <2>3. r = [q EXCEPT !.pc = "decode", !.got = <<>>, !.raws = raws]
    OBVIOUS
  <2> HIDE DEF r
  <2>4. /\ Fields(r) /\ r.pc = "decode" /\ r.next = q.next /\ r.groups = q.groups /\ r.scanned = q.scanned
        /\ r.levs = q.levs /\ r.atScan = q.atScan /\ r.raws = raws /\ r.got = <<>>
    <3>f. Fields(q)
      BY <1>2
    <3> QED
      BY <2>3, <3>f DEF Fields
  <2>5. WorkInv(job, r, dicts)
    BY <1>2, <1>4, <2>2, <2>4 DEF WorkInv
  <2> QED
    BY <1>1, <1>3, <2>1, <2>5, WorkerStep
<1>7. \/ ~(Range(q.levs) \subseteq present) /\ work' = [work EXCEPT ![w].pc = "failed"]
      \/ Range(q.levs) \subseteq present /\ work' = [work EXCEPT ![w].pc = "decode", ![w].got = <<>>, ![w].raws = raws]
  BY DEF Fetch
<1> QED
  BY <1>5, <1>6, <1>7

\* The payload of a worker that decodes.
LEMMA NextPayload ==
  ASSUME LatestInv, job.kind = "latest", NEW w \in Workers, work[w].pc \in {"decode", "load", "insert"},
         Len(work[w].raws) > 0
  PROVE  /\ work[w].raws[1].lev \in Levs /\ work[w].raws[1].raw.dict \in Dicts
         /\ Raw(work[w].raws[1].lev, work[w].raws[1].raw, dicts)
<1> DEFINE q == work[w]
<1>1. WorkInv(job, q, dicts)
  BY WorkerAt
<1>2. PICK n \in 0 .. Len(q.levs) : Decoded(n, q.got, q.raws, q.levs, dicts)
  BY <1>1 DEF WorkInv, Decoding
<1>3. q.raws \in Seq(Fetched) /\ \A i \in 1 .. Len(q.raws) : q.raws[i].lev = q.levs[n + i] /\ Raw(q.levs[n + i], q.raws[i].raw, dicts)
  BY <1>2 DEF Decoded
<1>4. 1 \in 1 .. Len(q.raws) /\ q.raws[1] \in Fetched
  <2> DEFINE s == q.raws
  <2>1. s \in Seq(Fetched) /\ Len(s) > 0
    BY <1>3
  <2> HIDE DEF s
  <2>2. 1 \in 1 .. Len(s) /\ s[1] \in Fetched
    BY <2>1
  <2> QED
    BY <2>2 DEF s
<1>5. q.raws[1].lev \in Levs /\ q.raws[1].raw \in Payload
  <2> DEFINE x == q.raws[1]
  <2>1. x \in Fetched
    BY <1>4
  <2> HIDE DEF x
  <2>2. x.lev \in Levs /\ x.raw \in Payload
    BY <2>1 DEF Fetched
  <2> QED
    BY <2>2 DEF x
<1>6. q.raws[1].raw.dict \in Dicts
  <2> DEFINE p == q.raws[1].raw
  <2>1. p \in Payload
    BY <1>5
  <2> HIDE DEF p
  <2>2. p.dict \in Dicts
    BY <2>1 DEF Payload
  <2> QED
    BY <2>2 DEF p
<1> QED
  BY <1>3, <1>4, <1>5, <1>6

\* Settle keeps the next payload or, if it is lost, skips it.
LEMMA SettleStep ==
  ASSUME LatestInv, job.kind = "latest", NEW w \in Workers, work[w].pc \in {"decode", "load", "insert"},
         Len(work[w].raws) > 0, NEW keep \in BOOLEAN, ~keep => Lost(work[w].raws[1].lev),
         Settle(w, keep), UNCHANGED LatestRest, CacheInv'
  PROVE  LatestInv'
<1> DEFINE q == work[w]
           more == IF keep THEN Append(q.got, q.raws[1].lev) ELSE q.got
           rest == Tail(q.raws)
           r == [q EXCEPT !.pc = "decode", !.raws = rest, !.got = more]
<1>1. work' = [work EXCEPT ![w] = r]
  BY DEF Settle
<1>2. WorkInv(job, q, dicts) /\ Fields(q) /\ Buckets(job, q.next, q.groups, q.scanned)
  BY WorkerAt
<1>3. /\ job.eventKind >= 0 /\ q.next \in 1 .. Len(job.authors) /\ Picked(job, job.authors[q.next], q.atScan, q.levs)
      /\ Decoding(q.got, q.raws, q.levs, dicts)
  BY <1>2 DEF WorkInv
<1>4. Decoding(more, rest, q.levs, dicts)
  <2>1. q.levs \in Seq(Levs) /\ \A i, k \in 1 .. Len(q.levs) : i < k => At(q.levs[i]) >= At(q.levs[k])
    BY <1>3 DEF Picked, Newest
  <2>2. keep => more = Append(q.got, q.raws[1].lev)
    OBVIOUS
  <2>3. ~keep => more = q.got /\ Lost(q.raws[1].lev)
    OBVIOUS
  <2>4. Len(q.raws) > 0
    OBVIOUS
  <2> HIDE DEF q, more
  <2> QED
    BY <1>3, <2>1, <2>2, <2>3, <2>4, DecodesOne
<1> HIDE DEF q, more, rest
<1>5. r = [q EXCEPT !.pc = "decode", !.raws = rest, !.got = more]
  OBVIOUS
<1> HIDE DEF r
<1>6. /\ Fields(r) /\ r.pc = "decode" /\ r.next = q.next /\ r.groups = q.groups /\ r.scanned = q.scanned
      /\ r.levs = q.levs /\ r.atScan = q.atScan /\ r.raws = rest /\ r.got = more
  <2>f. Fields(q)
    BY <1>2
  <2> QED
    BY <1>5, <2>f DEF Fields
<1>7. WorkInv(job, r, dicts)
  BY <1>2, <1>3, <1>4, <1>6 DEF WorkInv
<1> QED
  BY <1>1, <1>7, WorkerStep

\* A worker that decodes has no payload left if and only if the sequence is empty.
LEMMA PayloadsLeft ==
  ASSUME LatestInv, job.kind = "latest", NEW w \in Workers, work[w].pc \in {"decode", "load", "insert"}
  PROVE  Len(work[w].raws) \in Nat /\ (work[w].raws = <<>> <=> Len(work[w].raws) = 0)
<1> DEFINE s == work[w].raws
<1>1. WorkInv(job, work[w], dicts)
  BY WorkerAt
<1>2. s \in Seq(Fetched)
  BY <1>1 DEF WorkInv, Decoding, Decoded
<1> HIDE DEF s
<1>3. Len(s) \in Nat /\ (s = <<>> <=> Len(s) = 0)
  BY <1>2
<1> QED
  BY <1>3 DEF s

\* A miss of the cache, or the payload is decoded with what the cache holds.
LEMMA DecodePayloadStep ==
  ASSUME LatestInv, job.kind = "latest", NEW w \in Workers, DecodePayload(w)
  PROVE  LatestInv'
<1> DEFINE q == work[w]
           p == q.raws[1].raw
           keep == Opens(p) /\ (NeedsDict(p) => cache[p.dict] = p.dict)
<1>1. UNCHANGED LatestRest /\ cache' = cache /\ q.pc = "decode" /\ q.raws # <<>>
  BY DEF DecodePayload
<1>2. Len(q.raws) > 0
  BY <1>1, PayloadsLeft
<1>3. CacheInv'
  BY <1>1 DEF LatestInv, CacheInv, LatestRest, store
<1>4. q.raws[1].lev \in Levs /\ p.dict \in Dicts /\ Raw(q.raws[1].lev, p, dicts)
  BY <1>1, <1>2, NextPayload
<1>5. CASE NeedsDict(p) /\ cache[p.dict] = NotLoaded /\ work' = [work EXCEPT ![w].pc = "load"]
  <2> DEFINE r == [q EXCEPT !.pc = "load"]
  <2>1. work' = [work EXCEPT ![w] = r]
    BY <1>5
  <2>2. WorkInv(job, q, dicts) /\ Fields(q) /\ Buckets(job, q.next, q.groups, q.scanned)
    BY WorkerAt
  <2>3. Waits(q.raws)
    BY <1>2, <1>5 DEF Waits
  <2> HIDE DEF q
  <2>4. r = [q EXCEPT !.pc = "load"]
    OBVIOUS
  <2> HIDE DEF r
  <2>5. /\ Fields(r) /\ r.pc = "load" /\ r.next = q.next /\ r.groups = q.groups /\ r.scanned = q.scanned
        /\ r.levs = q.levs /\ r.atScan = q.atScan /\ r.raws = q.raws /\ r.got = q.got
    <3>f. Fields(q)
      BY <2>2
    <3> QED
      BY <2>4, <3>f DEF Fields
  <2>6. WorkInv(job, r, dicts)
    BY <1>1, <2>2, <2>3, <2>5 DEF WorkInv
  <2> QED
    BY <1>1, <1>3, <2>1, <2>6, WorkerStep
<1>6. CASE ~(NeedsDict(p) /\ cache[p.dict] = NotLoaded) /\ Settle(w, keep)
  <2>1. cache[p.dict] = NotLoaded \/ cache[p.dict] = p.dict
    BY <1>4 DEF LatestInv, CacheInv
  <2>2. keep \in BOOLEAN /\ (~keep => ~Opens(p))
    <3> HIDE DEF p
    <3> QED
      BY <1>6, <2>1
  <2>3. ~keep => Lost(q.raws[1].lev)
    <3> HIDE DEF keep, p
    <3> QED
      BY <1>4, <2>2, RawLost
  <2> HIDE DEF keep
  <2> QED
    BY <1>1, <1>2, <1>3, <1>6, <2>2, <2>3, SettleStep
<1>7. \/ NeedsDict(p) /\ cache[p.dict] = NotLoaded /\ work' = [work EXCEPT ![w].pc = "load"]
      \/ ~(NeedsDict(p) /\ cache[p.dict] = NotLoaded) /\ Settle(w, keep)
  BY DEF DecodePayload
<1> QED
  BY <1>5, <1>6, <1>7

\* The dictionary is there, or the payload is skipped.
LEMMA LoadDictStep ==
  ASSUME LatestInv, job.kind = "latest", NEW w \in Workers, LoadDict(w)
  PROVE  LatestInv'
<1> DEFINE q == work[w]
           p == q.raws[1].raw
<1>1. UNCHANGED LatestRest /\ cache' = cache /\ q.pc = "load"
  BY DEF LoadDict
<1>2. WorkInv(job, q, dicts) /\ Fields(q) /\ Buckets(job, q.next, q.groups, q.scanned)
  BY WorkerAt
<1>3. Waits(q.raws) /\ Len(q.raws) > 0 /\ NeedsDict(p)
  BY <1>1, <1>2 DEF WorkInv, Waits
<1>4. CacheInv'
  BY <1>1 DEF LatestInv, CacheInv, LatestRest, store
<1>5. q.raws[1].lev \in Levs /\ p.dict \in Dicts /\ Raw(q.raws[1].lev, p, dicts)
  BY <1>1, <1>3, NextPayload
<1>6. CASE p.dict \in dicts /\ work' = [work EXCEPT ![w].pc = "insert"]
  <2> DEFINE r == [q EXCEPT !.pc = "insert"]
  <2>1. work' = [work EXCEPT ![w] = r]
    BY <1>6
  <2>2. q.raws[1].raw.dict \in dicts
    BY <1>6
  <2> HIDE DEF q
  <2>4. r = [q EXCEPT !.pc = "insert"]
    OBVIOUS
  <2> HIDE DEF r
  <2>5. /\ Fields(r) /\ r.pc = "insert" /\ r.next = q.next /\ r.groups = q.groups /\ r.scanned = q.scanned
        /\ r.levs = q.levs /\ r.atScan = q.atScan /\ r.raws = q.raws /\ r.got = q.got
    <3>f. Fields(q)
      BY <1>2
    <3> QED
      BY <2>4, <3>f DEF Fields
  <2>6. WorkInv(job, r, dicts)
    BY <1>1, <1>2, <1>3, <2>2, <2>5 DEF WorkInv
  <2> QED
    BY <1>1, <1>4, <2>1, <2>6, WorkerStep
<1>7. CASE p.dict \notin dicts /\ Settle(w, FALSE)
  <2>1. Lost(q.raws[1].lev)
    <3> HIDE DEF p
    <3> QED
      BY <1>3, <1>5, <1>7, RawLost
  <2>2. FALSE \in BOOLEAN
    OBVIOUS
  <2> QED
    BY <1>1, <1>3, <1>4, <1>7, <2>1, <2>2, SettleStep
<1>8. \/ p.dict \in dicts /\ work' = [work EXCEPT ![w].pc = "insert"]
      \/ p.dict \notin dicts /\ Settle(w, FALSE)
  BY DEF LoadDict
<1> QED
  BY <1>6, <1>7, <1>8

\* The cache keeps the dictionary under its own id, whoever comes first.
LEMMA InsertDictStep ==
  ASSUME LatestInv, job.kind = "latest", NEW w \in Workers, InsertDict(w)
  PROVE  LatestInv'
<1> DEFINE q == work[w]
           p == q.raws[1].raw
           d == p.dict
           keep == Opens(p)
<1>1. /\ UNCHANGED LatestRest /\ q.pc = "insert" /\ Settle(w, keep)
      /\ cache' = [cache EXCEPT ![d] = IF @ = NotLoaded THEN d ELSE @]
  BY DEF InsertDict
<1>2. WorkInv(job, q, dicts)
  BY WorkerAt
<1>3. Len(q.raws) > 0 /\ NeedsDict(p) /\ d \in dicts
  BY <1>1, <1>2 DEF WorkInv, Waits
<1>4. q.raws[1].lev \in Levs /\ d \in Dicts /\ Raw(q.raws[1].lev, p, dicts)
  BY <1>1, <1>3, NextPayload
<1>5. CacheInv'
  <2>0. dicts' = dicts
    BY <1>1 DEF LatestRest, store
  <2>1. cache = [x \in Dicts |-> cache[x]] /\ \A x \in Dicts : cache[x] = NotLoaded \/ (cache[x] = x /\ x \in dicts)
    BY DEF LatestInv, CacheInv
  <2> HIDE DEF d
  <2>2. cache' = [x \in Dicts |-> IF x = d THEN (IF cache[d] = NotLoaded THEN d ELSE cache[d]) ELSE cache[x]]
    BY <1>1, <2>1
  <2>3. cache' = [x \in Dicts |-> cache'[x]]
    BY <2>2
  <2>4. \A x \in Dicts : cache'[x] = IF x = d THEN (IF cache[d] = NotLoaded THEN d ELSE cache[d]) ELSE cache[x]
    BY <2>2
  <2>5. \A x \in Dicts : cache'[x] = NotLoaded \/ (cache'[x] = x /\ x \in dicts')
    BY <1>3, <2>0, <2>1, <2>4
  <2> QED
    BY <2>3, <2>5 DEF CacheInv
<1>6. keep \in BOOLEAN /\ (~keep => Lost(q.raws[1].lev))
  <2>1. keep \in BOOLEAN
    BY DEF Opens
  <2> HIDE DEF p
  <2>2. ASSUME ~Opens(p) PROVE Lost(q.raws[1].lev)
    BY <1>4, <2>2, RawLost
  <2> QED
    BY <2>1, <2>2
<1> HIDE DEF keep
<1> QED
  BY <1>1, <1>3, <1>5, <1>6, SettleStep

\* The bucket of the author is filled, and the next author is up.
LEMMA BucketStep ==
  ASSUME LatestInv, job.kind = "latest", NEW w \in Workers, Bucket(w)
  PROVE  LatestInv'
<1> DEFINE q == work[w]
           live == Kept(q.got, {l \in Levs : ~is_expired(l)})
           i == q.next
           G == IF live = <<>> THEN q.groups ELSE [q.groups EXCEPT ![i] = live]
           C == [q.scanned EXCEPT ![i] = q.atScan]
           r == [q EXCEPT !.pc = "author", !.next = @ + 1, !.groups = G, !.scanned = C]
<1>1. UNCHANGED LatestRest /\ cache' = cache /\ q.pc = "decode" /\ q.raws = <<>>
  BY DEF Bucket
<1>2. work' = [work EXCEPT ![w] = r]
  <2>1. work' = [work EXCEPT ![w].pc = "author", ![w].next = @ + 1,
                             ![w].groups = IF live = <<>> THEN @ ELSE [@ EXCEPT ![i] = live],
                             ![w].scanned = [@ EXCEPT ![i] = q.atScan]]
    BY DEF Bucket
  <2> HIDE DEF live
  <2> QED
    BY <2>1
<1>3. WorkInv(job, q, dicts) /\ Fields(q) /\ Buckets(job, q.next, q.groups, q.scanned) /\ job.authors \in Seq(Seq(Byte))
  BY WorkerAt
<1>4. CacheInv'
  BY <1>1 DEF LatestInv, CacheInv, LatestRest, store
<1>5. Len(q.raws) = 0
  BY <1>1, PayloadsLeft
<1>6. /\ job.eventKind >= 0 /\ i \in 1 .. Len(job.authors) /\ Picked(job, job.authors[i], q.atScan, q.levs)
      /\ Decoding(q.got, q.raws, q.levs, dicts)
  BY <1>1, <1>3 DEF WorkInv
<1>7. Bucketed(job, i, live, q.atScan)
  <2>1. live = Kept(q.got, {l \in Levs : ~is_expired(l)})
    OBVIOUS
  <2> HIDE DEF live, q, i
  <2> QED
    BY <1>5, <1>6, <2>1, BucketFilled
<1>8. Buckets(job, i + 1, G, C)
  <2> DEFINE N == Len(job.authors)
             g == q.groups
             c == q.scanned
             S == q.atScan
  <2>1. N \in Nat
    BY <1>3
  <2>2. /\ g = [k \in 1 .. N |-> g[k]] /\ c = [k \in 1 .. N |-> c[k]] /\ i \in Nat
        /\ \A k \in 1 .. N : Bucketed(job, k, g[k], c[k]) /\ (k >= i => g[k] = <<>> /\ c[k] = {})
    BY <1>3 DEF Buckets
  <2>3. i \in 1 .. N /\ Bucketed(job, i, live, S)
    BY <1>6, <1>7
  <2>4. G = (IF live = <<>> THEN g ELSE [g EXCEPT ![i] = live]) /\ C = [c EXCEPT ![i] = S]
    OBVIOUS
  <2> HIDE DEF N, g, c, S, i, live, G, C
  <2>5. C = [k \in 1 .. N |-> IF k = i THEN S ELSE c[k]]
    BY <2>2, <2>3, <2>4
  <2>6. G = [k \in 1 .. N |-> IF k = i THEN live ELSE g[k]]
    <3>1. CASE live = <<>>
      <4>1. G = g /\ g[i] = live
        BY <2>2, <2>3, <2>4, <3>1
      <4>2. g = [k \in 1 .. N |-> IF k = i THEN live ELSE g[k]]
        BY <2>2, <4>1
      <4> QED
        BY <4>1, <4>2
    <3>2. CASE live # <<>>
      BY <2>2, <2>3, <2>4, <3>2
    <3> QED
      BY <3>1, <3>2
  <2>7. G = [k \in 1 .. N |-> G[k]] /\ C = [k \in 1 .. N |-> C[k]]
    BY <2>5, <2>6
  <2>8. ASSUME NEW k \in 1 .. N
        PROVE  Bucketed(job, k, G[k], C[k]) /\ (k >= i + 1 => G[k] = <<>> /\ C[k] = {})
    <3>1. G[k] = (IF k = i THEN live ELSE g[k]) /\ C[k] = (IF k = i THEN S ELSE c[k])
      BY <2>5, <2>6
    <3>2. CASE k = i
      <4>1. ~(k >= i + 1)
        BY <2>2, <3>2
      <4> QED
        BY <2>3, <3>1, <3>2, <4>1
    <3>3. CASE k # i
      <4>1. k >= i + 1 => k >= i
        BY <2>1, <2>2
      <4> QED
        BY <2>2, <3>1, <3>3, <4>1
    <3> QED
      BY <3>2, <3>3
  <2>9. i + 1 \in Nat /\ i + 1 > 0
    BY <2>2
  <2> QED
    BY <2>7, <2>8, <2>9, Zenon DEF Buckets, N
<1> DEFINE n == i + 1
<1>9. Buckets(job, n, G, C)
  BY <1>8
<1> HIDE DEF live, G, C
<1>10. r = [q EXCEPT !.pc = "author", !.next = n, !.groups = G, !.scanned = C]
  OBVIOUS
<1> HIDE DEF q, r, i, n
<1>11. Fields(r) /\ r.pc = "author" /\ r.next = n /\ r.groups = G /\ r.scanned = C
  <2>f. Fields(q)
    BY <1>3
  <2> QED
    BY <1>10, <2>f DEF Fields
<1>12. WorkInv(job, r, dicts)
  BY <1>6, <1>9, <1>11 DEF WorkInv
<1> QED
  BY <1>1, <1>2, <1>4, <1>12, WorkerStep DEF q

\* The other readers leave the workers, the store and the cache alone.
LEMMA LatestOthers ==
  ASSUME LatestInv, \/ ScanWindow \/ RefillStream \/ Authors \/ Stats \/ UNCHANGED readerVars
  PROVE  LatestInv'
<1>1. job' = job /\ present' = present /\ payload' = payload /\ dicts' = dicts /\ work' = work /\ cache' = cache
  BY DEF ScanWindow, RefillStream, Authors, Stats, readerVars, store
<1> QED
  BY <1>1 DEF LatestInv, StoreInv, CacheInv

\* Every step, of each worker and of strfry, preserves the invariant.
LEMMA LatestStep == LatestInv /\ [ReaderNext]_readerVars => LatestInv'
<1> SUFFICES ASSUME LatestInv, [ReaderNext]_readerVars PROVE LatestInv'
  OBVIOUS
<1>1. CASE Strfry
  BY <1>1, LatestStrfry
<1>2. CASE \/ ScanWindow \/ RefillStream \/ Authors \/ Stats \/ UNCHANGED readerVars
  BY <1>2, LatestOthers
<1>3. CASE \E w \in Workers : Latest(w)
  <2>1. PICK w \in Workers : Latest(w)
    BY <1>3
  <2>2. job.kind = "latest"
    BY <2>1 DEF Latest
  <2>3. CASE Begin(w)
    BY <2>2, <2>3, BeginStep
  <2>4. CASE ScanAuthor(w)
    BY <2>2, <2>4, ScanAuthorStep
  <2>5. CASE Fetch(w)
    BY <2>2, <2>5, FetchStep
  <2>6. CASE DecodePayload(w)
    BY <2>2, <2>6, DecodePayloadStep
  <2>7. CASE LoadDict(w)
    BY <2>2, <2>7, LoadDictStep
  <2>8. CASE InsertDict(w)
    BY <2>2, <2>8, InsertDictStep
  <2>9. CASE Bucket(w)
    BY <2>2, <2>9, BucketStep
  <2> QED
    BY <2>1, <2>3, <2>4, <2>5, <2>6, <2>7, <2>8, <2>9 DEF Latest
<1> QED
  BY <1>1, <1>2, <1>3 DEF ReaderNext

\* The invariant gives the property of the buckets.
LEMMA LatestInvNewest == LatestInv => BucketIsNewest
<1> SUFFICES ASSUME LatestInv, job.kind = "latest", NEW w \in Workers, NEW i \in DOMAIN job.authors
             PROVE  LET bucket == work[w].groups[i]
                        own    == Of(job.authors[i], work[w].scanned[i])
                    IN  /\ Range(bucket) \subseteq {l \in own : ~Catalog[l].expired}
                        /\ \A m, n \in DOMAIN bucket : m < n =>
                              Catalog[bucket[m]].created_at >= Catalog[bucket[n]].created_at
                        /\ \A l \in own \ Range(bucket) :
                              \/ Catalog[l].expired \/ ~Opens(Catalog[l].payload)
                              \/ NeedsDict(Catalog[l].payload)
                              \/ Cardinality({m \in own \ {l} :
                                    Catalog[m].created_at >= Catalog[l].created_at}) >= Clamp(job.perAuthor)
  BY DEF BucketIsNewest
<1> DEFINE bucket == work[w].groups[i]
           S == work[w].scanned[i]
           own == Of(job.authors[i], S)
<1>1. Buckets(job, work[w].next, work[w].groups, work[w].scanned) /\ job.authors \in Seq(Seq(Byte))
  BY WorkerAt
<1>2. i \in 1 .. Len(job.authors)
  <2>1. DOMAIN job.authors = 1 .. Len(job.authors)
    BY <1>1, LenProperties, Zenon
  <2> QED
    BY <2>1
<1>3. Bucketed(job, i, bucket, S)
  BY <1>1, <1>2 DEF Buckets
<1>4. own = OfKind(job.eventKind, job.authors[i], S)
  BY DEF Of, OfKind
<1> HIDE DEF bucket, S, own
<1>5. bucket \in Seq(Levs) /\ \A m \in 1 .. Len(bucket) : bucket[m] \in own /\ ~Catalog[bucket[m]].expired
  BY <1>3, <1>4 DEF Bucketed
<1>6. DOMAIN bucket = 1 .. Len(bucket)
  BY <1>5
<1>7. Range(bucket) \subseteq {l \in own : ~Catalog[l].expired}
  BY <1>5, <1>6 DEF Range
<1>8. \A m, n \in DOMAIN bucket : m < n => Catalog[bucket[m]].created_at >= Catalog[bucket[n]].created_at
  BY <1>3, <1>6 DEF Bucketed, At
<1>9. ASSUME NEW l \in own \ Range(bucket)
      PROVE  \/ Catalog[l].expired \/ ~Opens(Catalog[l].payload)
             \/ NeedsDict(Catalog[l].payload)
             \/ Cardinality({m \in own \ {l} : Catalog[m].created_at >= Catalog[l].created_at}) >= Clamp(job.perAuthor)
  <2>1. ~\E m \in 1 .. Len(bucket) : bucket[m] = l
    BY <1>6 DEF Range
  <2>2. AsNew(job.eventKind, job.authors[i], S, l) = {m \in own \ {l} : Catalog[m].created_at >= Catalog[l].created_at}
    BY <1>4 DEF AsNew, At
  <2>3. \/ Catalog[l].expired \/ Lost(l)
        \/ Cardinality(AsNew(job.eventKind, job.authors[i], S, l)) >= Clamp(job.perAuthor)
    BY <1>3, <1>4, <2>1 DEF Bucketed
  <2> QED
    BY <2>2, <2>3 DEF Lost
<1> QED
  BY <1>7, <1>8, <1>9 DEF bucket, S, own

\* A bucket of latestPerAuthor holds the author's own live events, the newest first, and
\* lacks one that was stored at the scan and can be decoded only if perAuthor others are
\* as new, for every catalogue, list of authors and number of workers, whatever strfry
\* writes between the scan, the fetch and the loads of the dictionaries
\* (latest_per_author, batch_get_event_payloads, get_or_load).
THEOREM BucketsNewest == ReaderSpec => []BucketIsNewest
<1>1. ReaderInit => LatestInv
  BY LatestInit
<1>2. LatestInv /\ [ReaderNext]_readerVars => LatestInv'
  BY LatestStep
<1>3. LatestInv => BucketIsNewest
  BY LatestInvNewest
<1> QED
  BY <1>1, <1>2, <1>3, PTL DEF ReaderSpec

\* What a worker may pass by: SkipsOnlyUndecodable says this of every step.
Skips ==
    \A w \in Workers :
        /\ work[w].pc \in {"decode", "load", "insert"}
        /\ Len(work'[w].raws) < Len(work[w].raws)
        /\ work'[w].got = work[w].got
        => LET p == work[w].raws[1].raw IN
           ~Opens(p) \/ (NeedsDict(p) /\ p.dict \notin dicts)

\* A worker that keeps the payload gets longer.
LEMMA KeptGrows ==
  ASSUME LatestInv, job.kind = "latest", NEW w \in Workers, work[w].pc \in {"decode", "load", "insert"},
         NEW keep \in BOOLEAN, Settle(w, keep), work'[w].got = work[w].got
  PROVE  ~keep
<1> DEFINE q == work[w]
<1>1. WorkInv(job, q, dicts) /\ Fields(q)
  BY WorkerAt
<1>2. q.got \in Seq(Levs)
  BY <1>1 DEF WorkInv, Decoding, Decoded
<1>3. work = [v \in Workers |-> work[v]]
  BY DEF LatestInv
<1> SUFFICES ASSUME keep PROVE FALSE
  OBVIOUS
<1> DEFINE more == Append(q.got, q.raws[1].lev)
           rest == Tail(q.raws)
           r == [q EXCEPT !.pc = "decode", !.raws = rest, !.got = more]
<1>4. work' = [work EXCEPT ![w] = r]
  BY DEF Settle
<1>5. work'[w] = r
  BY <1>3, <1>4
<1> HIDE DEF more, rest
<1>6. r.got = more
  <2>1. Fields(q) /\ r = [q EXCEPT !.pc = "decode", !.raws = rest, !.got = more]
    BY <1>1
  <2> HIDE DEF q, r
  <2> QED
    BY <2>1 DEF Fields
<1> DEFINE g == q.got
           l == q.raws[1].lev
<1>7. g = Append(g, l) /\ g \in Seq(Levs)
  BY <1>2, <1>5, <1>6 DEF more
<1> HIDE DEF g, l
<1>8. Len(Append(g, l)) = Len(g) + 1 /\ Len(g) \in Nat
  BY <1>7
<1>9. Len(g) = Len(g) + 1
  BY <1>7, <1>8, Zenon
<1> QED
  BY <1>8, <1>9

\* A step of another worker, or one that drops no payload, is no skip.
LEMMA WorkerSkips ==
  ASSUME LatestInv, job.kind = "latest", NEW w \in Workers, Latest(w),
         NEW v \in Workers, work[v].pc \in {"decode", "load", "insert"},
         Len(work'[v].raws) < Len(work[v].raws), work'[v].got = work[v].got
  PROVE  LET p == work[v].raws[1].raw IN ~Opens(p) \/ (NeedsDict(p) /\ p.dict \notin dicts)
<1> DEFINE q == work[v]
           p == q.raws[1].raw
           keep == Opens(p) /\ (NeedsDict(p) => cache[p.dict] = p.dict)
<1>1. work = [u \in Workers |-> work[u]] /\ CacheInv /\ WorkInv(job, q, dicts) /\ Fields(q)
  BY WorkerAt DEF LatestInv
<1>2. Len(q.raws) \in Nat
  BY PayloadsLeft
<1>3. ASSUME NEW r, work' = [work EXCEPT ![w] = r] PROVE v = w /\ work'[v] = r
  <2>1. v # w => work'[v] = work[v]
    BY <1>1, <1>3
  <2>2. v = w
    BY <1>2, <2>1
  <2> QED
    BY <1>1, <1>3, <2>2
<1>4. ASSUME NEW x, NEW r, r = [work[w] EXCEPT !.pc = x], work' = [work EXCEPT ![w] = r] PROVE FALSE
  <2>1. v = w /\ work'[v] = r
    BY <1>3, <1>4
  <2>2. r = [q EXCEPT !.pc = x] /\ Fields(q)
    BY <1>1, <1>4, <2>1
  <2> HIDE DEF q
  <2>3. r.raws = q.raws
    BY <2>2 DEF Fields
  <2> QED
    BY <1>2, <2>1, <2>3 DEF q
<1>5. ASSUME NEW b, Settle(w, b) PROVE v = w
  <2> DEFINE r == [work[w] EXCEPT !.pc = "decode", !.raws = Tail(@),
                                  !.got = IF b THEN Append(@, work[w].raws[1].lev) ELSE @]
  <2>1. work' = [work EXCEPT ![w] = r]
    BY <1>5 DEF Settle
  <2> HIDE DEF r
  <2> QED
    BY <1>3, <2>1
<1>6. CASE DecodePayload(w)
  <2> DEFINE r == [work[w] EXCEPT !.pc = "load"]
             pw == work[w].raws[1].raw
             kw == Opens(pw) /\ (NeedsDict(pw) => cache[pw.dict] = pw.dict)
  <2>1. \/ work' = [work EXCEPT ![w] = r]
        \/ ~(NeedsDict(pw) /\ cache[pw.dict] = NotLoaded) /\ Settle(w, kw)
    BY <1>6 DEF DecodePayload
  <2>2. r = [work[w] EXCEPT !.pc = "load"]
    OBVIOUS
  <2> HIDE DEF r
  <2>3. ~(NeedsDict(pw) /\ cache[pw.dict] = NotLoaded) /\ Settle(w, kw)
    BY <1>4, <2>1, <2>2
  <2>4. v = w
    <3> HIDE DEF kw
    <3> QED
      BY <1>5, <2>3
  <2>5. ~(NeedsDict(p) /\ cache[p.dict] = NotLoaded) /\ Settle(v, keep) /\ keep \in BOOLEAN
    BY <2>3, <2>4
  <2>6. ~keep
    <3> HIDE DEF keep
    <3> QED
      BY <2>5, KeptGrows
  <2>7. Len(q.raws) > 0
    <3>1. q.raws # <<>> /\ q.pc = "decode"
      BY <1>6, <2>4 DEF DecodePayload
    <3> QED
      BY <3>1, PayloadsLeft
  <2>8. p.dict \in Dicts
    BY <2>7, NextPayload
  <2>9. cache[p.dict] = NotLoaded \/ cache[p.dict] = p.dict
    BY <1>1, <2>8 DEF CacheInv
  <2> HIDE DEF p
  <2> QED
    BY <2>5, <2>6, <2>9 DEF p
<1>7. CASE LoadDict(w)
  <2> DEFINE r == [work[w] EXCEPT !.pc = "insert"]
             dw == work[w].raws[1].raw.dict
  <2>1. \/ work' = [work EXCEPT ![w] = r]
        \/ dw \notin dicts /\ Settle(w, FALSE)
    BY <1>7 DEF LoadDict
  <2>2. r = [work[w] EXCEPT !.pc = "insert"]
    OBVIOUS
  <2> HIDE DEF r
  <2>3. dw \notin dicts /\ Settle(w, FALSE)
    BY <1>4, <2>1, <2>2
  <2>4. v = w
    BY <1>5, <2>3
  <2>5. q.pc = "load"
    BY <1>7, <2>4 DEF LoadDict
  <2>6. NeedsDict(p)
    BY <1>1, <2>5 DEF WorkInv, Waits
  <2> QED
    BY <2>3, <2>4, <2>6
<1>8. CASE InsertDict(w)
  <2> DEFINE kw == Opens(work[w].raws[1].raw)
  <2>1. Settle(w, kw)
    BY <1>8 DEF InsertDict
  <2>2. v = w
    <3> HIDE DEF kw
    <3> QED
      BY <1>5, <2>1
  <2> DEFINE opens == Opens(p)
  <2>3. Settle(v, opens) /\ opens \in BOOLEAN
    BY <2>1, <2>2 DEF Opens
  <2> HIDE DEF opens
  <2>4. ~opens
    BY <2>3, KeptGrows
  <2> QED
    BY <2>4 DEF opens
<1>9. ASSUME NEW r, work' = [work EXCEPT ![w] = r], work[w].pc \notin {"decode", "load", "insert"} PROVE FALSE
  BY <1>3, <1>9
<1>10. CASE Begin(w)
  <2> DEFINE r == [work[w] EXCEPT !.pc = IF Refused THEN "failed" ELSE "author"]
  <2>1. work' = [work EXCEPT ![w] = r] /\ work[w].pc = "begin"
    BY <1>10 DEF Begin
  <2> HIDE DEF r
  <2> QED
    BY <1>9, <2>1
<1>11. CASE ScanAuthor(w)
  <2>1. work[w].pc = "author" /\ \E r : work' = [work EXCEPT ![w] = r]
    <3> DEFINE own == Own(Author(w), CollectBounded("Event__pubkeyKind", Rows("Event__pubkeyKind"), "Reverse",
                                                    Author(w) \o Le(job.eventKind) \o Le(U64Max), Clamp(job.perAuthor)))
               found == [i \in DOMAIN own |-> own[i].lev]
    <3>1. /\ work[w].pc = "author"
          /\ \/ work' = [work EXCEPT ![w].pc = "done"]
             \/ work' = [work EXCEPT ![w].pc = "fetch", ![w].levs = found, ![w].atScan = present]
             \/ work' = [work EXCEPT ![w].next = @ + 1]
      BY <1>11 DEF ScanAuthor
    <3> HIDE DEF found
    <3> QED
      BY <3>1
  <2> QED
    BY <1>9, <2>1
<1>12. CASE Fetch(w)
  <2>1. work[w].pc = "fetch" /\ \E r : work' = [work EXCEPT ![w] = r]
    <3> DEFINE raws == [i \in DOMAIN work[w].levs |-> [lev |-> work[w].levs[i], raw |-> payload[work[w].levs[i]]]]
    <3>1. /\ work[w].pc = "fetch"
          /\ \/ work' = [work EXCEPT ![w].pc = "decode", ![w].got = <<>>, ![w].raws = raws]
             \/ work' = [work EXCEPT ![w].pc = "failed"]
      BY <1>12 DEF Fetch
    <3> HIDE DEF raws
    <3> QED
      BY <3>1
  <2> QED
    BY <1>9, <2>1
<1>13. CASE Bucket(w)
  <2> DEFINE live == Kept(work[w].got, {l \in Levs : ~is_expired(l)})
             i == work[w].next
             G == IF live = <<>> THEN work[w].groups ELSE [work[w].groups EXCEPT ![i] = live]
             C == [work[w].scanned EXCEPT ![i] = work[w].atScan]
             r == [work[w] EXCEPT !.pc = "author", !.next = @ + 1, !.groups = G, !.scanned = C]
  <2>1. work' = [work EXCEPT ![w] = r]
    <3>1. work' = [work EXCEPT ![w].pc = "author", ![w].next = @ + 1,
                               ![w].groups = IF live = <<>> THEN @ ELSE [@ EXCEPT ![i] = live],
                               ![w].scanned = [@ EXCEPT ![i] = work[w].atScan]]
      BY <1>13 DEF Bucket
    <3> HIDE DEF live
    <3> QED
      BY <3>1
  <2>2. r = [work[w] EXCEPT !.pc = "author", !.next = @ + 1, !.groups = G, !.scanned = C]
    OBVIOUS
  <2> HIDE DEF r, G, C
  <2>3. v = w /\ work'[v] = r
    BY <1>3, <2>1
  <2>4. r = [q EXCEPT !.pc = "author", !.next = @ + 1, !.groups = G, !.scanned = C] /\ Fields(q)
    BY <1>1, <2>2, <2>3
  <2> HIDE DEF q
  <2>5. r.raws = q.raws
    BY <2>4 DEF Fields
  <2> QED
    BY <1>2, <2>3, <2>5 DEF q
<1> QED
  BY <1>6, <1>7, <1>8, <1>10, <1>11, <1>12, <1>13 DEF Latest

\* A worker of latestPerAuthor passes an event by only because its payload cannot be
\* decoded, or because strfry has not stored its dictionary, whichever worker filled the
\* cache (decode_event_payload_with_cache, get_or_load).
THEOREM SkipsCorrect == ReaderSpec => SkipsOnlyUndecodable
<1>1. LatestInv /\ [ReaderNext]_readerVars => [Skips]_readerVars
  <2> SUFFICES ASSUME LatestInv, ReaderNext, NEW v \in Workers, work[v].pc \in {"decode", "load", "insert"},
                      Len(work'[v].raws) < Len(work[v].raws), work'[v].got = work[v].got
               PROVE  LET p == work[v].raws[1].raw IN ~Opens(p) \/ (NeedsDict(p) /\ p.dict \notin dicts)
    BY DEF Skips
  <2>1. job.kind = "latest"
    BY DEF LatestInv
  <2>2. CASE \E w \in Workers : Latest(w)
    BY <2>1, <2>2, WorkerSkips
  <2>3. CASE work' = work
    <3>1. Len(work[v].raws) \in Nat
      BY <2>1, PayloadsLeft
    <3>2. Len(work[v].raws) < Len(work[v].raws)
      BY <2>3
    <3> QED
      BY <3>1, <3>2
  <2>4. Strfry \/ ScanWindow \/ RefillStream \/ Authors \/ Stats => work' = work
    BY DEF Strfry, StoreEvent, DeleteEvent, Train, Compress, Rest, ScanWindow, RefillStream, Authors, Stats
  <2> QED
    BY <2>2, <2>3, <2>4 DEF ReaderNext
<1>2. ReaderSpec => [][Skips]_readerVars
  <2>1. ReaderInit => LatestInv
    BY LatestInit
  <2>2. LatestInv /\ [ReaderNext]_readerVars => LatestInv'
    BY LatestStep
  <2> QED
    BY <1>1, <2>1, <2>2, PTL DEF ReaderSpec
<1> QED
  BY <1>2 DEF SkipsOnlyUndecodable, Skips

-----------------------------------------------------------------------------
(* authors: the next pubkey                                                *)

\* The pubkeys: byte strings of one length.
PubLen == Len(Catalog[1].pubkey)
Pubkey == {a \in Seq(Byte) : Len(a) = PubLen}

\* Pubkeys are byte strings of one length.
LEMMA PubkeysAre ==
  /\ PubLen \in Nat /\ PubLen > 0
  /\ \A l \in Levs : Catalog[l].pubkey \in Pubkey
  /\ \A a \in Pubkey : /\ a \in Seq(Byte) /\ Len(a) = PubLen /\ DOMAIN a = 1 .. PubLen
                       /\ \A i \in 1 .. PubLen : a[i] \in Byte /\ a[i] \in Int
<1>1. Catalog \in Seq(Event) /\ Catalog # <<>>
  BY ReaderConstants, Zenon
<1>2. 1 \in Levs
  BY <1>1 DEF Levs
<1>3. Catalog[1].pubkey \in Seq(Byte)
  BY <1>2, CatalogTyped
<1>4. PubLen \in Nat
  BY <1>3, ByteString DEF PubLen
<1>5. PubLen > 0 /\ \A l \in Levs : Len(Catalog[l].pubkey) = PubLen
  BY ReaderConstants, Zenon DEF PubLen
<1>6. \A l \in Levs : Catalog[l].pubkey \in Pubkey
  BY <1>5, CatalogTyped DEF Pubkey
<1>7. ASSUME NEW a \in Pubkey
      PROVE  /\ a \in Seq(Byte) /\ Len(a) = PubLen /\ DOMAIN a = 1 .. PubLen
             /\ \A i \in 1 .. PubLen : a[i] \in Byte /\ a[i] \in Int
  <2>1. a \in Seq(Byte) /\ Len(a) = PubLen
    BY DEF Pubkey
  <2> QED
    BY <2>1, ByteString
<1> QED
  BY <1>4, <1>5, <1>6, <1>7

\* Where two strings of one length part, the lesser has the lesser byte.
LEMMA PubkeyLess ==
  ASSUME NEW a \in Pubkey, NEW b \in Pubkey
  PROVE  MemLess(a, b) <=> \E i \in 1 .. PubLen : a[i] < b[i] /\ \A j \in 1 .. i - 1 : a[j] = b[j]
<1>1. a \in Seq(Byte) /\ Len(a) = PubLen /\ b \in Seq(Byte) /\ Len(b) = PubLen /\ PubLen \in Nat
  BY PubkeysAre
<1>2. MemLess(a, b) <=> \E i \in Nat : Parts(a, b, i)
  BY <1>1, MemLessParts
<1>3. ASSUME NEW i \in Nat, Parts(a, b, i)
      PROVE  i \in 1 .. PubLen /\ a[i] < b[i] /\ \A j \in 1 .. i - 1 : a[j] = b[j]
  BY <1>1, <1>3 DEF Parts
<1>4. ASSUME NEW i \in 1 .. PubLen, a[i] < b[i], \A j \in 1 .. i - 1 : a[j] = b[j]
      PROVE  i \in Nat /\ Parts(a, b, i)
  BY <1>1, <1>4 DEF Parts
<1> QED
  BY <1>2, <1>3, <1>4

\* The byte that increment_be raises: those behind it are at the maximum.
Raised(a, i) == i \in 1 .. PubLen /\ a[i] < Base - 1 /\ \A j \in i + 1 .. PubLen : a[j] = Base - 1

\* A pubkey that is not all 0xff has a last byte that can be raised.
LEMMA RaisedExists ==
  ASSUME NEW a \in Pubkey, ~AllFF(a)
  PROVE  \E i \in 1 .. PubLen : Raised(a, i)
<1>0. Base \in Nat /\ Base > 1
  BY KeyBytesConstants
<1>1. PubLen \in Nat /\ DOMAIN a = 1 .. PubLen /\ \A i \in 1 .. PubLen : a[i] \in 0 .. Base - 1
  BY PubkeysAre DEF Byte
<1> DEFINE T == {n \in Nat : \E i \in 1 .. PubLen : n = PubLen - i /\ a[i] # Base - 1}
<1>2. PICK k \in 1 .. PubLen : a[k] # Base - 1
  BY <1>1 DEF AllFF
<1>3. T \subseteq Nat /\ PubLen - k \in T
  BY <1>1, <1>2
<1> HIDE DEF T
<1>4. PICK x \in T : \A y \in T : x <= y
  BY <1>3, LeastMember
<1>5. PICK i \in 1 .. PubLen : x = PubLen - i /\ a[i] # Base - 1
  BY <1>4 DEF T
<1>6. ASSUME NEW j \in i + 1 .. PubLen, a[j] # Base - 1 PROVE FALSE
  <2>1. j \in 1 .. PubLen /\ PubLen - j \in Nat /\ PubLen - j < PubLen - i
    BY <1>1
  <2>2. PubLen - j \in T
    BY <1>6, <2>1 DEF T
  <2>3. x <= PubLen - j
    BY <1>4, <2>2
  <2> QED
    BY <1>1, <1>5, <2>1, <2>3
<1>7. a[i] < Base - 1
  BY <1>0, <1>1, <1>5
<1> QED
  BY <1>5, <1>6, <1>7 DEF Raised

\* increment_be gives the next string: nothing lies between.
LEMMA Increment ==
  ASSUME NEW a \in Pubkey, ~AllFF(a)
  PROVE  IncrementBe(a) \in Pubkey /\ \A b \in Pubkey : MemLess(a, b) <=> ~MemLess(b, IncrementBe(a))
<1>0. Base \in Nat /\ Base > 1 /\ PubLen \in Nat
  BY KeyBytesConstants, PubkeysAre
<1>1. DOMAIN a = 1 .. PubLen /\ Len(a) = PubLen /\ \A i \in 1 .. PubLen : a[i] \in 0 .. Base - 1
  BY PubkeysAre DEF Byte
<1> DEFINE p == CHOOSE i \in DOMAIN a : a[i] < Base - 1 /\ \A j \in i + 1 .. Len(a) : a[j] = Base - 1
           c == IncrementBe(a)
<1>2. Raised(a, p)
  <2>1. \E i \in DOMAIN a : a[i] < Base - 1 /\ \A j \in i + 1 .. Len(a) : a[j] = Base - 1
    BY <1>1, RaisedExists DEF Raised
  <2>2. p \in DOMAIN a /\ a[p] < Base - 1 /\ \A j \in p + 1 .. Len(a) : a[j] = Base - 1
    BY <2>1, Zenon
  <2> QED
    BY <1>1, <2>2 DEF Raised
<1>3. c = [i \in DOMAIN a |-> IF i < p THEN a[i] ELSE IF i = p THEN a[i] + 1 ELSE 0]
  BY DEF IncrementBe
<1> HIDE DEF p, c
<1>4. p \in 1 .. PubLen /\ a[p] < Base - 1 /\ \A j \in p + 1 .. PubLen : a[j] = Base - 1
  BY <1>2 DEF Raised
<1>5. \A i \in 1 .. PubLen : c[i] = IF i < p THEN a[i] ELSE IF i = p THEN a[i] + 1 ELSE 0
  BY <1>1, <1>3
<1>6. c \in Pubkey
  <2>1. \A i \in 1 .. PubLen : c[i] \in Byte
    BY <1>0, <1>1, <1>4, <1>5 DEF Byte
  <2>2. c \in [1 .. PubLen -> Byte]
    BY <1>1, <1>3, <2>1
  <2> HIDE DEF Byte
  <2>3. c \in Seq(Byte) /\ Len(c) = PubLen
    BY <1>0, <2>2
  <2> QED
    BY <2>3 DEF Pubkey
<1>7. MemLess(a, c)
  <2>1. a[p] < c[p] /\ \A j \in 1 .. p - 1 : a[j] = c[j]
    BY <1>0, <1>1, <1>4, <1>5
  <2> QED
    BY <1>4, <1>6, <2>1, PubkeyLess
<1>8. ASSUME NEW b \in Pubkey, MemLess(a, b), MemLess(b, c) PROVE FALSE
  <2>1. PICK i \in 1 .. PubLen : a[i] < b[i] /\ \A j \in 1 .. i - 1 : a[j] = b[j]
    BY <1>8, PubkeyLess
  <2>2. PICK k \in 1 .. PubLen : b[k] < c[k] /\ \A j \in 1 .. k - 1 : b[j] = c[j]
    BY <1>6, <1>8, PubkeyLess
  <2>3. \A j \in 1 .. PubLen : b[j] \in 0 .. Base - 1
    BY PubkeysAre DEF Byte
  <2>4. i <= p
    <3> SUFFICES ASSUME i > p PROVE FALSE
      BY <1>0, <1>4
    <3>1. a[i] = Base - 1
      BY <1>0, <1>4
    <3> QED
      BY <1>0, <2>1, <2>3, <3>1
  <2>5. k <= p
    <3> SUFFICES ASSUME k > p PROVE FALSE
      BY <1>0, <1>4
    <3>1. c[k] = 0
      BY <1>0, <1>4, <1>5
    <3> QED
      BY <2>2, <2>3, <3>1
  <2>6. CASE k < i
    <3>1. b[k] = a[k] /\ c[k] = a[k]
      BY <1>0, <1>4, <1>5, <2>1, <2>4, <2>6
    <3> QED
      BY <1>1, <2>2, <3>1
  <2>7. CASE k = i
    <3>1. CASE i < p
      <4>1. c[i] = a[i]
        BY <1>5, <3>1
      <4> QED
        BY <1>1, <2>1, <2>2, <2>3, <2>7, <4>1
    <3>2. CASE i = p
      <4>1. c[i] = a[i] + 1
        BY <1>5, <3>2
      <4> QED
        BY <1>1, <2>1, <2>2, <2>3, <2>7, <4>1
    <3> QED
      BY <1>4, <2>4, <3>1, <3>2
  <2>8. CASE k > i
    <3>1. b[i] = c[i] /\ i < p
      BY <1>0, <1>4, <2>2, <2>5, <2>8
    <3>2. c[i] = a[i]
      BY <1>5, <3>1
    <3> QED
      BY <1>1, <2>1, <3>1, <3>2
  <2> QED
    BY <2>6, <2>7, <2>8
<1>9. ASSUME NEW b \in Pubkey, ~MemLess(b, c) PROVE MemLess(a, b)
  <2>1. a \in Seq(Byte) /\ b \in Seq(Byte) /\ c \in Seq(Byte)
    BY <1>6, PubkeysAre
  <2>2. b = c \/ MemLess(c, b)
    BY <1>9, <2>1, MemLessOrder
  <2> QED
    BY <1>7, <2>1, <2>2, MemLessTransitive
<1> QED
  BY <1>6, <1>8, <1>9 DEF c

\* Nothing lies behind the last string.
LEMMA NoneBehindLast ==
  ASSUME NEW a \in Pubkey, AllFF(a), NEW b \in Pubkey
  PROVE  ~MemLess(a, b)
<1>0. Base \in Nat
  BY KeyBytesConstants
<1>1. /\ DOMAIN a = 1 .. PubLen /\ \A i \in 1 .. PubLen : a[i] = Base - 1 /\ b[i] \in 0 .. Base - 1
  BY PubkeysAre DEF AllFF, Byte
<1>2. \A i \in 1 .. PubLen : ~(a[i] < b[i])
  BY <1>0, <1>1
<1> QED
  BY <1>2, PubkeyLess

\* The zeros are the first string, and everyone is behind no cursor.
LEMMA FromTheStart ==
  ASSUME NEW zero, zero = [i \in DOMAIN Catalog[1].pubkey |-> 0]
  PROVE  zero \in Pubkey /\ \A b \in Pubkey : MemLess(<<>>, b) /\ ~MemLess(b, zero)
<1>0. Base \in Nat /\ Base > 1 /\ PubLen \in Nat /\ PubLen > 0 /\ 1 \in Levs
  <2>1. Catalog \in Seq(Event) /\ Catalog # <<>>
    BY ReaderConstants, Zenon
  <2> QED
    BY <2>1, KeyBytesConstants, PubkeysAre DEF Levs
<1>1. DOMAIN Catalog[1].pubkey = 1 .. PubLen
  BY <1>0, PubkeysAre
<1>2. zero = [i \in 1 .. PubLen |-> 0]
  BY <1>1
<1>3. zero \in Pubkey
  <2>1. 0 \in Byte
    BY <1>0 DEF Byte
  <2>2. zero \in [1 .. PubLen -> Byte]
    BY <1>2, <2>1
  <2>3. zero \in Seq(Byte) /\ Len(zero) = PubLen
    BY <1>0, <2>2
  <2> QED
    BY <2>3 DEF Pubkey
<1>4. ASSUME NEW b \in Pubkey PROVE ~MemLess(b, zero)
  <2>1. \A i \in 1 .. PubLen : b[i] \in 0 .. Base - 1 /\ zero[i] = 0
    BY <1>2, PubkeysAre DEF Byte
  <2>2. \A i \in 1 .. PubLen : ~(b[i] < zero[i])
    BY <1>0, <2>1
  <2> QED
    BY <1>3, <2>2, PubkeyLess
<1>5. ASSUME NEW b \in Pubkey PROVE MemLess(<<>>, b)
  <2>1. b \in Seq(Byte) /\ Len(b) = PubLen /\ <<>> \in Seq(Byte) /\ Len(<<>>) = 0
    BY PubkeysAre
  <2>2. Parts(<<>>, b, 1)
    BY <1>0, <2>1 DEF Parts
  <2> QED
    BY <2>1, <2>2, MemLessParts
<1> QED
  BY <1>3, <1>4, <1>5

\* from_le_bytes of zeros.
LEMMA FromLeZero ==
  ASSUME NEW zero, zero = [i \in 1 .. Width |-> 0]
  PROVE  zero \in Bytes /\ FromLe(zero) = 0
<1>0. Base \in Nat /\ Base > 1 /\ Width \in Nat /\ Width > 0
  BY KeyBytesConstants
<1>1. zero \in Bytes
  BY <1>0 DEF Bytes, Byte
<1>2. PICK h : Reads(zero, h) /\ FromLe(zero) = h[Width]
  BY <1>1, FromLeUnfolds
<1> DEFINE P == {i \in Nat : i <= Width => h[i] = 0}
<1>3. 0 \in P
  BY <1>2 DEF Reads
<1>4. ASSUME NEW n \in P PROVE n + 1 \in P
  <2> SUFFICES ASSUME n + 1 <= Width PROVE h[n + 1] = 0
    OBVIOUS
  <2>1. n + 1 \in 1 .. Width /\ (n + 1) - 1 = n /\ h[n] = 0 /\ Width - (n + 1) + 1 \in 1 .. Width
    BY <1>0
  <2>2. h[n + 1] = zero[Width - (n + 1) + 1] + Base * h[n]
    BY <1>2, <2>1 DEF Reads
  <2>3. zero[Width - (n + 1) + 1] = 0
    BY <2>1
  <2> QED
    BY <1>0, <2>1, <2>2, <2>3
<1>5. P \subseteq Nat
  OBVIOUS
<1> HIDE DEF P
<1>6. P = Nat
  BY <1>3, <1>4, <1>5, SetInduction
<1>7. h[Width] = 0
  BY <1>0, <1>6 DEF P
<1> QED
  BY <1>1, <1>2, <1>7

\* The author of a key of Event__pubkey.
LEMMA KeyOfPubkey ==
  ASSUME NEW l \in Levs
  PROVE  /\ IsKey("Event__pubkey", Key["Event__pubkey"][l])
         /\ Str("Event__pubkey", Key["Event__pubkey"][l]) = Catalog[l].pubkey
         /\ Prefix(Key["Event__pubkey"][l]) = Catalog[l].pubkey
         /\ Major("Event__pubkey", Key["Event__pubkey"][l]) = 0
         /\ CreatedAt(Key["Event__pubkey"][l]) \in Nat
<1> DEFINE ix == "Event__pubkey"
           k == Key[ix][l]
<1>1. ix \in EventIndexes /\ TrailingIntegers(ix) = 1
  BY DEF EventIndexes, TrailingIntegers
<1>2. IsKey(ix, k) /\ Prefix(k) = Catalog[l].pubkey
  BY <1>1, KeyIs
<1> HIDE DEF k
<1>3. Str(ix, k) = Prefix(k) /\ Major(ix, k) = 0
  BY <1>1, <1>2, PartsOfPrefix
<1>4. CreatedAt(k) \in Nat
  BY <1>2, KeyParts
<1> QED
  BY <1>2, <1>3, <1>4 DEF k

\* The key that authors seeks: the first of a pubkey, whatever the timestamp.
LEMMA SeekKey ==
  ASSUME NEW seek \in Pubkey, NEW key, key = seek \o [i \in 1 .. Width |-> 0]
  PROVE  /\ IsKey("Event__pubkey", key)
         /\ \A l \in Levs : Less("Event__pubkey", Key["Event__pubkey"][l], key) <=> MemLess(Catalog[l].pubkey, seek)
<1> DEFINE ix == "Event__pubkey"
           zero == [i \in 1 .. Width |-> 0]
<1>0. ix \in EventIndexes /\ TrailingIntegers(ix) = 1 /\ Width \in Nat
  BY KeyBytesConstants DEF EventIndexes, TrailingIntegers
<1>1. zero \in Bytes /\ FromLe(zero) = 0 /\ seek \in Seq(Byte) /\ key = seek \o zero
  BY FromLeZero, PubkeysAre
<1> HIDE DEF zero
<1>2. /\ key \in Seq(Byte) /\ Len(key) = Len(seek) + Width /\ Len(seek) \in Nat
      /\ Prefix(key) = seek /\ CreatedAt(key) = 0
  BY <1>1, Appended
<1>3. IsKey(ix, key)
  <2>1. Len(key) >= 1 * Width
    BY <1>0, <1>2
  <2> QED
    BY <1>0, <1>2, <2>1 DEF IsKey
<1>4. Str(ix, key) = seek /\ Major(ix, key) = 0
  BY <1>0, <1>2, <1>3, PartsOfPrefix
<1>5. ASSUME NEW l \in Levs PROVE Less(ix, Key[ix][l], key) <=> MemLess(Catalog[l].pubkey, seek)
  <2> DEFINE k == Key[ix][l]
  <2>1. IsKey(ix, k) /\ Str(ix, k) = Catalog[l].pubkey /\ Major(ix, k) = 0 /\ CreatedAt(k) \in Nat
    BY KeyOfPubkey
  <2> HIDE DEF k
  <2>2. ~(0 < 0) /\ ~(CreatedAt(k) < 0)
    BY <2>1
  <2>3. Less(ix, k, key) <=> MemLess(Catalog[l].pubkey, seek)
    BY <1>2, <1>3, <1>4, <2>1, <2>2, LessByParts
  <2> QED
    BY <2>3 DEF k
<1> QED
  BY <1>3, <1>5

\* The first author behind x, if there is one.
NextIs(x, s) ==
    \/ s = <<>> /\ \A l \in present : ~MemLess(x, Catalog[l].pubkey)
    \/ \E a \in Pubkey : /\ s = <<a>> /\ MemLess(x, a)
                         /\ \A l \in present : MemLess(x, Catalog[l].pubkey) =>
                               Catalog[l].pubkey = a \/ MemLess(a, Catalog[l].pubkey)

Cursor(x) == x = <<>> \/ x \in Pubkey

\* The seek of distinct_authors finds the least stored author behind the last one.
LEMMA AuthorAfterIs ==
  ASSUME present \subseteq Levs, NEW x, Cursor(x)
  PROVE  NextIs(x, AuthorAfter(x))
<1> DEFINE ix == "Event__pubkey"
           ff == x # Absent /\ AllFF(x)
           seek == IF x = Absent THEN [i \in DOMAIN Catalog[1].pubkey |-> 0] ELSE IncrementBe(x)
           key == seek \o [i \in 1 .. Width |-> 0]
           rest == RangeFrom(ix, Rows(ix), Included(key))
<1>1. AuthorAfter(x) = IF ff THEN <<>> ELSE IF rest = <<>> THEN <<>> ELSE <<Prefix(rest[1].key)>>
  BY DEF AuthorAfter
<1>2. CASE ff
  <2>1. x \in Pubkey /\ AllFF(x)
    BY <1>2 DEF Cursor, Absent
  <2>2. \A l \in present : ~MemLess(x, Catalog[l].pubkey)
    BY <2>1, NoneBehindLast, PubkeysAre
  <2>3. AuthorAfter(x) = <<>>
    BY <1>1, <1>2
  <2> QED
    BY <2>2, <2>3 DEF NextIs
<1>3. CASE ~ff
  <2>1. seek \in Pubkey /\ \A b \in Pubkey : MemLess(x, b) <=> ~MemLess(b, seek)
    <3>1. CASE x = <<>>
      <4> DEFINE zero == [i \in DOMAIN Catalog[1].pubkey |-> 0]
      <4>1. seek = zero
        BY <3>1 DEF Absent
      <4> HIDE DEF seek
      <4>2. zero \in Pubkey /\ \A b \in Pubkey : MemLess(<<>>, b) /\ ~MemLess(b, zero)
        BY FromTheStart
      <4> HIDE DEF zero
      <4> QED
        BY <3>1, <4>1, <4>2
    <3>2. CASE x # <<>>
      <4>1. x \in Pubkey /\ ~AllFF(x) /\ seek = IncrementBe(x)
        BY <1>3, <3>2 DEF Cursor, Absent
      <4> HIDE DEF seek
      <4> QED
        BY <4>1, Increment
    <3> QED
      BY <3>1, <3>2
  <2> HIDE DEF seek, ff
  <2>2. /\ IsKey(ix, key)
        /\ \A l \in Levs : Less(ix, Key[ix][l], key) <=> MemLess(Catalog[l].pubkey, seek)
    BY <2>1, SeekKey
  <2>3. rest = Walk(ix, Rows(ix), "Forward", key, TRUE)
    BY DEF Walk
  <2> HIDE DEF key, rest
  <2>4. ix \in EventIndexes
    BY DEF EventIndexes
  <2>5. IsWalk(ix, "Forward", TRUE, key, rest)
    BY <2>2, <2>3, <2>4, WalkIs
  <2>6. \A l \in Levs : Beyond(ix, "Forward", TRUE, key, Key[ix][l]) <=> MemLess(x, Catalog[l].pubkey)
    BY <2>1, <2>2, PubkeysAre DEF Beyond
  <2> DEFINE E == Entries(ix)
  <2>7. /\ rest \in Seq(E)
        /\ \A i, j \in 1 .. Len(rest) : i < j => EntryLess(ix, rest[i].lev, rest[j].lev)
        /\ \A i \in 1 .. Len(rest) : rest[i].lev \in present /\ Beyond(ix, "Forward", TRUE, key, rest[i].key)
        /\ \A l \in present : Beyond(ix, "Forward", TRUE, key, Key[ix][l]) => \E i \in 1 .. Len(rest) : rest[i].lev = l
    BY <2>5 DEF IsWalk, Ahead
  <2> HIDE DEF E
  <2>8. CASE rest = <<>>
    <3>1. Len(rest) = 0 /\ 1 .. 0 = {}
      BY <2>8
    <3>2. \A l \in present : ~MemLess(x, Catalog[l].pubkey)
      BY <2>6, <2>7, <3>1
    <3>3. AuthorAfter(x) = <<>>
      BY <1>1, <1>3, <2>8
    <3> QED
      BY <3>2, <3>3 DEF NextIs
  <2>9. CASE rest # <<>>
    <3>1. Len(rest) \in Nat /\ 1 \in 1 .. Len(rest) /\ rest[1] \in E
      BY <2>7, <2>9
    <3> DEFINE m == rest[1].lev
               a == Catalog[m].pubkey
    <3>2. m \in Levs /\ rest[1].key = Key[ix][m]
      BY <2>4, <3>1, EntryIs DEF E
    <3>3. AuthorAfter(x) = <<a>>
      <4>1. AuthorAfter(x) = <<Prefix(rest[1].key)>>
        BY <1>1, <1>3, <2>9
      <4>2. Prefix(rest[1].key) = a
        BY <3>2, KeyOfPubkey
      <4> QED
        BY <4>1, <4>2
    <3>4. a \in Pubkey /\ MemLess(x, a)
      BY <2>6, <2>7, <3>1, <3>2, PubkeysAre
    <3>5. ASSUME NEW l \in present, MemLess(x, Catalog[l].pubkey)
          PROVE  Catalog[l].pubkey = a \/ MemLess(a, Catalog[l].pubkey)
      <4> DEFINE b == Catalog[l].pubkey
      <4>1. l \in Levs /\ b \in Pubkey
        BY PubkeysAre
      <4>2. PICK i \in 1 .. Len(rest) : rest[i].lev = l
        BY <2>6, <2>7, <3>5, <4>1
      <4>3. CASE i = 1
        BY <4>2, <4>3
      <4>4. CASE i # 1
        <5>1. 1 < i
          BY <3>1, <4>4
        <5>2. EntryLess(ix, m, l)
          BY <2>7, <3>1, <4>2, <5>1
        <5>3. ~Less(ix, Key[ix][l], Key[ix][m])
          BY <2>4, <3>2, <4>1, <5>2, EntryOrder
        <5>4. ~MemLess(b, a)
          <6> DEFINE p == Key[ix][l]
                     q == Key[ix][m]
          <6>1. IsKey(ix, p) /\ Str(ix, p) = b /\ IsKey(ix, q) /\ Str(ix, q) = a
            BY <3>2, <4>1, KeyOfPubkey
          <6> HIDE DEF p, q, a, b
          <6>2. MemLess(b, a) => Less(ix, p, q)
            BY <6>1, LessByParts
          <6> QED
            BY <5>3, <6>2 DEF p, q
        <5>5. a \in Seq(Byte) /\ b \in Seq(Byte)
          BY <3>4, <4>1, PubkeysAre
        <5> HIDE DEF a, b
        <5>6. b = a \/ MemLess(a, b)
          BY <5>4, <5>5, MemLessOrder
        <5> QED
          BY <5>6 DEF a, b
      <4> QED
        BY <4>3, <4>4
    <3> HIDE DEF a
    <3> QED
      BY <3>3, <3>4, <3>5 DEF NextIs
  <2> QED
    BY <2>8, <2>9
<1> QED
  BY <1>2, <1>3

-----------------------------------------------------------------------------
(* authors: a page, and the pages                                          *)

\* The last author of a page, or the cursor before it.
LastOf(after, s) == IF s = <<>> THEN after ELSE s[Len(s)]

\* Step n of distinct_authors.
Grown(after, s, n) == IF Len(s) < n - 1 THEN s ELSE s \o AuthorAfter(LastOf(after, s))

\* A page of at most n authors behind a cursor.  Who is not on it is behind its last
\* author, and then it is full.
PageOf(after, n, s) ==
    /\ s \in Seq(Pubkey) /\ Len(s) <= n
    /\ \A i \in 1 .. Len(s) : MemLess(after, s[i])
    /\ \A i, j \in 1 .. Len(s) : i < j => MemLess(s[i], s[j])
    /\ \A l \in present : MemLess(after, Catalog[l].pubkey) =>
          \/ \E i \in 1 .. Len(s) : s[i] = Catalog[l].pubkey
          \/ Len(s) = n /\ MemLess(LastOf(after, s), Catalog[l].pubkey)

\* A page or a cursor leads to a cursor.
LEMMA LastIs ==
  ASSUME NEW after, Cursor(after), NEW s \in Seq(Pubkey)
  PROVE  /\ Cursor(LastOf(after, s)) /\ Len(s) \in Nat
         /\ Len(s) = 0 => LastOf(after, s) = after
         /\ Len(s) > 0 => Len(s) \in 1 .. Len(s) /\ LastOf(after, s) = s[Len(s)] /\ s[Len(s)] \in Pubkey
<1> DEFINE P == Pubkey
<1>0. s \in Seq(P)
  OBVIOUS
<1> HIDE DEF P
<1>1. Len(s) \in Nat /\ (s = <<>> <=> Len(s) = 0) /\ (Len(s) > 0 => Len(s) \in 1 .. Len(s) /\ s[Len(s)] \in P)
  BY <1>0
<1>2. CASE Len(s) = 0
  BY <1>1, <1>2 DEF LastOf
<1>3. CASE Len(s) > 0
  BY <1>1, <1>3 DEF LastOf, Cursor, P
<1> QED
  BY <1>1, <1>2, <1>3

\* The position of a client is a byte string.
LEMMA CursorBytes ==
  ASSUME NEW x, Cursor(x)
  PROVE  x \in Seq(Byte)
<1>1. <<>> \in Seq(Byte)
  OBVIOUS
<1> QED
  BY <1>1, PubkeysAre DEF Cursor

\* A page of authors that grows by the next author is a sequence of pubkeys.
LEMMA GrownTyped ==
  ASSUME present \subseteq Levs, NEW after, Cursor(after), NEW s \in Seq(Pubkey), NEW n
  PROVE  Grown(after, s, n) \in Seq(Pubkey)
<1> DEFINE x == LastOf(after, s)
           t == AuthorAfter(x)
<1>1. Cursor(x)
  BY LastIs
<1> HIDE DEF x
<1>2. NextIs(x, t)
  BY <1>1, AuthorAfterIs
<1> HIDE DEF t
<1>3. t \in Seq(Pubkey)
  <2> DEFINE P == Pubkey
  <2>1. t = <<>> \/ \E a \in P : t = <<a>>
    BY <1>2 DEF NextIs
  <2> HIDE DEF P
  <2>2. <<>> \in Seq(P) /\ \A a \in P : <<a>> \in Seq(P)
    OBVIOUS
  <2> QED
    BY <2>1, <2>2, Zenon DEF P
<1>4. s \o t \in Seq(Pubkey)
  BY <1>3
<1> QED
  BY <1>4 DEF Grown, x, t

\* One author more.
LEMMA PageGrows ==
  ASSUME present \subseteq Levs, NEW after, Cursor(after), NEW n \in Nat, NEW s, PageOf(after, n, s)
  PROVE  PageOf(after, n + 1, Grown(after, s, n + 1))
<1> DEFINE x == LastOf(after, s)
           t == AuthorAfter(x)
           P == Pubkey
           N == Len(s)
<1>1. /\ s \in Seq(P) /\ N <= n /\ N \in Nat /\ Cursor(x)
      /\ \A i \in 1 .. N : MemLess(after, s[i])
      /\ \A i, j \in 1 .. N : i < j => MemLess(s[i], s[j])
      /\ \A l \in present : MemLess(after, Catalog[l].pubkey) =>
            (\E i \in 1 .. N : s[i] = Catalog[l].pubkey) \/ (N = n /\ MemLess(x, Catalog[l].pubkey))
  BY LastIs DEF PageOf
<1>2. (n + 1) - 1 = n
  OBVIOUS
<1>3. Grown(after, s, n + 1) = IF N < n THEN s ELSE s \o t
  BY <1>2 DEF Grown
<1>4. NextIs(x, t)
  BY <1>1, AuthorAfterIs
<1>5. x \in Seq(Byte) /\ after \in Seq(Byte) /\ \A i \in 1 .. N : s[i] \in P /\ s[i] \in Seq(Byte)
  <2>1. x \in Seq(Byte) /\ after \in Seq(Byte)
    BY <1>1, CursorBytes
  <2>2. \A i \in 1 .. N : s[i] \in P
    <3> HIDE DEF P
    <3> QED
      BY <1>1
  <2> QED
    BY <2>1, <2>2, PubkeysAre
<1>6. /\ N = 0 => x = after
      /\ N > 0 => N \in 1 .. N /\ x = s[N]
  BY <1>1, LastIs
<1>7. \A i \in 1 .. N : s[i] = x \/ MemLess(s[i], x)
  <2> SUFFICES ASSUME NEW i \in 1 .. N PROVE s[i] = x \/ MemLess(s[i], x)
    OBVIOUS
  <2>1. N > 0 /\ x = s[N] /\ N \in 1 .. N
    BY <1>1, <1>6
  <2>2. i = N \/ i < N
    BY <1>1
  <2> QED
    BY <1>1, <2>1, <2>2
<1>8. x = after \/ MemLess(after, x)
  BY <1>1, <1>6
<1> HIDE DEF x, t, P
<1>9. CASE N < n
  <2>1. ASSUME NEW l \in present, MemLess(after, Catalog[l].pubkey) PROVE \E i \in 1 .. N : s[i] = Catalog[l].pubkey
    BY <1>1, <1>9, <2>1
  <2>2. N <= n + 1
    BY <1>1
  <2>3. PageOf(after, n + 1, s)
    BY <1>1, <2>1, <2>2 DEF PageOf, P
  <2> QED
    BY <1>3, <1>9, <2>3
<1>10. CASE ~(N < n) /\ t = <<>> /\ \A l \in present : ~MemLess(x, Catalog[l].pubkey)
  <2>1. s \o t = s
    BY <1>1, <1>10
  <2>2. ASSUME NEW l \in present, MemLess(after, Catalog[l].pubkey) PROVE \E i \in 1 .. N : s[i] = Catalog[l].pubkey
    BY <1>1, <1>10, <2>2
  <2>3. N <= n + 1
    BY <1>1
  <2>4. PageOf(after, n + 1, s)
    BY <1>1, <2>2, <2>3 DEF PageOf, P
  <2> QED
    BY <1>3, <1>10, <2>1, <2>4
<1>11. ASSUME ~(N < n), NEW a \in P, t = <<a>>, MemLess(x, a),
              \A l \in present : MemLess(x, Catalog[l].pubkey) => Catalog[l].pubkey = a \/ MemLess(a, Catalog[l].pubkey)
       PROVE  PageOf(after, n + 1, Grown(after, s, n + 1))
  <2> DEFINE g == s \o t
             M == Len(g)
  <2>0. N = n
    BY <1>1, <1>11
  <2>1. g \in Seq(P) /\ M = N + 1 /\ g[N + 1] = a /\ \A i \in 1 .. N : g[i] = s[i]
    BY <1>1, <1>11
  <2>2. /\ \A i \in 1 .. N + 1 : i = N + 1 \/ i \in 1 .. N
        /\ N + 1 \in 1 .. N + 1 /\ \A i \in 1 .. N : i \in 1 .. N + 1
    BY <1>1
  <2>3. a \in Seq(Byte)
    BY PubkeysAre DEF P
  <2> HIDE DEF g
  <2>4. ASSUME NEW i \in 1 .. M PROVE MemLess(after, g[i])
    <3>1. CASE i = N + 1
      <4>1. MemLess(after, a)
        BY <1>5, <1>8, <1>11, <2>3, MemLessTransitive
      <4> QED
        BY <2>1, <3>1, <4>1
    <3>2. CASE i \in 1 .. N
      BY <1>1, <2>1, <3>2
    <3> QED
      BY <2>1, <2>2, <3>1, <3>2
  <2>5. ASSUME NEW i \in 1 .. M, NEW j \in 1 .. M, i < j PROVE MemLess(g[i], g[j])
    <3>1. i \in 1 .. N
      BY <1>1, <2>1, <2>5
    <3>2. CASE j = N + 1
      <4>1. MemLess(s[i], a)
        BY <1>5, <1>7, <1>11, <2>3, <3>1, MemLessTransitive
      <4> QED
        BY <2>1, <3>1, <3>2, <4>1
    <3>3. CASE j \in 1 .. N
      BY <1>1, <2>1, <2>5, <3>1, <3>3
    <3> QED
      BY <2>1, <2>2, <3>2, <3>3
  <2>6. LastOf(after, g) = a
    <3>1. g # <<>> /\ g[Len(g)] = a
      BY <1>1, <2>1
    <3> QED
      BY <3>1 DEF LastOf
  <2>7. ASSUME NEW l \in present, MemLess(after, Catalog[l].pubkey)
        PROVE  \/ \E i \in 1 .. M : g[i] = Catalog[l].pubkey
               \/ M = n + 1 /\ MemLess(LastOf(after, g), Catalog[l].pubkey)
    <3>1. CASE \E i \in 1 .. N : s[i] = Catalog[l].pubkey
      BY <2>1, <2>2, <3>1
    <3>2. CASE MemLess(x, Catalog[l].pubkey)
      BY <1>11, <2>0, <2>1, <2>2, <2>6, <3>2
    <3> QED
      BY <1>1, <2>7, <3>1, <3>2
  <2>8. M <= n + 1
    BY <1>1, <2>0, <2>1
  <2>9. PageOf(after, n + 1, g)
    BY <2>1, <2>4, <2>5, <2>7, <2>8 DEF PageOf, P
  <2> QED
    BY <1>3, <1>11, <2>9 DEF g
<1> QED
  BY <1>4, <1>9, <1>10, <1>11 DEF NextIs, P

\* What distinct_authors returns.
LEMMA PageIs ==
  ASSUME present \subseteq Levs, NEW after, Cursor(after), NEW N \in Nat
  PROVE  PageOf(after, N, DistinctAuthors(after, N))
<1> DEFINE Z == Seq(Pubkey)
           G == [x \in (1 .. N) \X Z |-> Grown(after, x[2], x[1])]
<1>a. \A s \in Z, n \in 1 .. N : Grown(after, s, n) \in Z
  BY GrownTyped
<1>e. <<>> \in Z
  OBVIOUS
<1> HIDE DEF Z
<1>1. ASSUME NEW i \in 1 .. N, NEW k \in Z
      PROVE  G[<<i, k>>] = Grown(after, k, i) /\ G[<<i, k>>] \in Z
  <2>1. G[<<i, k>>] = Grown(after, k, i)
    OBVIOUS
  <2> HIDE DEF G
  <2> QED
    BY <1>a, <2>1
<1>2. Steps(G, Z, N)
  <2>1. \A x \in (1 .. N) \X Z : G[x] \in Z
    <3> SUFFICES ASSUME NEW x \in (1 .. N) \X Z PROVE G[x] \in Z
      OBVIOUS
    <3>1. x = <<x[1], x[2]>> /\ x[1] \in 1 .. N /\ x[2] \in Z
      OBVIOUS
    <3> HIDE DEF G
    <3>2. G[<<x[1], x[2]>>] \in Z
      BY <1>1, <3>1
    <3> QED
      BY <3>1, <3>2
  <2>2. G \in [(1 .. N) \X Z -> Z]
    BY <2>1
  <2> HIDE DEF G
  <2> QED
    BY <2>2 DEF Steps
<1> HIDE DEF G
<1>3. PICK f : Follows(f, <<>>, G, Z, N)
  BY <1>2, <1>e, RecursionExists
<1>4. \A n \in 0 .. N : f[n] = IF n = 0 THEN <<>> ELSE Grown(after, f[n - 1], n)
  <2>0. f[0] = <<>> /\ \A n \in 0 .. N : n = 0 \/ n \in 1 .. N
    BY <1>3 DEF Follows
  <2> SUFFICES ASSUME NEW n \in 1 .. N PROVE f[n] = Grown(after, f[n - 1], n)
    <3>1. \A n \in 1 .. N : n # 0
      OBVIOUS
    <3> QED
      BY <2>0, <3>1, Zenon
  <2>1. n - 1 \in 0 .. N
    OBVIOUS
  <2>2. f[n - 1] \in Z
    BY <1>3, <2>1 DEF Follows
  <2> QED
    BY <1>1, <1>3, <2>2 DEF Follows
<1>5. f = [n \in 0 .. N |-> IF n = 0 THEN <<>> ELSE Grown(after, f[n - 1], n)]
  BY <1>3, <1>4 DEF Follows
<1> DEFINE h == CHOOSE h1 : h1 = [n \in 0 .. N |-> IF n = 0 THEN <<>> ELSE Grown(after, h1[n - 1], n)]
<1>6. h = [n \in 0 .. N |-> IF n = 0 THEN <<>> ELSE Grown(after, h[n - 1], n)]
  BY <1>5, Zenon
<1>7. DistinctAuthors(after, N) = h[N]
  BY Zenon DEF DistinctAuthors, Grown, LastOf
<1> HIDE DEF h
<1>8. h[0] = <<>> /\ \A n \in 1 .. N : h[n] = Grown(after, h[n - 1], n)
  <2>1. 0 \in 0 .. N /\ \A n \in 1 .. N : n \in 0 .. N /\ n # 0
    OBVIOUS
  <2>2. h[0] = <<>>
    BY <1>6, <2>1, Zenon
  <2>3. ASSUME NEW n \in 1 .. N PROVE h[n] = Grown(after, h[n - 1], n)
    <3>1. n \in 0 .. N /\ n # 0
      BY <2>1
    <3>2. h[n] = IF n = 0 THEN <<>> ELSE Grown(after, h[n - 1], n)
      BY <1>6, <3>1, Zenon
    <3> QED
      BY <3>1, <3>2, Zenon
  <2> QED
    BY <2>2, <2>3
<1> DEFINE P == {n \in Nat : n <= N => PageOf(after, n, h[n])}
<1>9. 0 \in P
  <2>1. <<>> \in Seq(Pubkey) /\ Len(<<>>) = 0 /\ 1 .. 0 = {} /\ 0 <= 0 /\ LastOf(after, <<>>) = after
    BY DEF LastOf
  <2>2. PageOf(after, 0, <<>>)
    BY <2>1 DEF PageOf
  <2> QED
    BY <1>8, <2>2
<1>10. ASSUME NEW n \in P PROVE n + 1 \in P
  <2> SUFFICES ASSUME n + 1 <= N PROVE PageOf(after, n + 1, h[n + 1])
    OBVIOUS
  <2>1. n \in Nat /\ n + 1 \in 1 .. N /\ (n + 1) - 1 = n /\ PageOf(after, n, h[n])
    OBVIOUS
  <2>2. h[n + 1] = Grown(after, h[n], n + 1)
    BY <1>8, <2>1
  <2> QED
    BY <2>1, <2>2, PageGrows
<1>11. P \subseteq Nat
  OBVIOUS
<1> HIDE DEF P
<1>12. N \in P
  BY <1>9, <1>10, <1>11, SetInduction
<1>13. PageOf(after, N, h[N])
  BY <1>12 DEF P
<1> QED
  BY <1>7, <1>13

\* The pages so far.  Who is on none of them is behind the cursor, until the last page.
Paged(j, p, S) ==
    /\ DOMAIN p = {"after", "out", "done", "refused"}
    /\ p.after \in Seq(Byte) /\ p.out \in Seq(Pubkey)
    /\ \A i, k \in 1 .. Len(p.out) : i < k => MemLess(p.out[i], p.out[k])
    /\ ~p.done => \A i \in 1 .. Len(p.out) : p.out[i] = p.after \/ MemLess(p.out[i], p.after)
    /\ ~p.refused => \A l \in S : MemLess(j.after, Catalog[l].pubkey) =>
          \/ \E i \in 1 .. Len(p.out) : p.out[i] = Catalog[l].pubkey
          \/ ~p.done /\ MemLess(p.after, Catalog[l].pubkey)

AuthorsInv ==
    /\ job \in Jobs /\ present \subseteq Levs
    /\ job.kind = "authors" => Paged(job, pager, Throughout)

\* The invariant of the listing holds before the first page.
LEMMA AuthorsInit == ReaderInit => AuthorsInv
<1> SUFFICES ASSUME ReaderInit PROVE AuthorsInv
  OBVIOUS
<1>1. job \in Jobs /\ present = AtStart /\ pager = [after |-> job.after, out |-> <<>>, done |-> FALSE, refused |-> FALSE]
  BY DEF ReaderInit
<1>2. present \subseteq Levs
  BY <1>1, ReaderConstants, Zenon
<1>3. ASSUME job.kind = "authors" PROVE Paged(job, pager, Throughout)
  <2>1. job.after \in Seq(Byte)
    BY <1>1, <1>3, ReaderConstants, Zenon DEF Byte
  <2>2. /\ DOMAIN pager = {"after", "out", "done", "refused"}
        /\ pager.after = job.after /\ pager.out = <<>> /\ pager.done = FALSE /\ pager.refused = FALSE
    BY <1>1
  <2>3. <<>> \in Seq(Pubkey) /\ Len(<<>>) = 0 /\ 1 .. 0 = {}
    OBVIOUS
  <2> QED
    BY <2>1, <2>2, <2>3 DEF Paged
<1> QED
  BY <1>1, <1>2, <1>3 DEF AuthorsInv

\* What strfry removes is no longer asked for.
LEMMA AuthorsStrfry == ASSUME AuthorsInv, Strfry PROVE AuthorsInv'
<1>1. job' = job /\ pager' = pager
  BY DEF Strfry, StoreEvent, DeleteEvent, Train, Compress, Rest
<1>2. present' \subseteq Levs /\ Throughout' \subseteq Throughout
  <2>1. CASE StoreEvent
    <3>1. PICK l \in Levs \ AtStart : present' = present \cup {l}
      BY <2>1 DEF StoreEvent
    <3> QED
      BY <3>1 DEF AuthorsInv, Throughout
  <2>2. CASE DeleteEvent
    <3>1. present' \subseteq present
      BY <2>2 DEF DeleteEvent
    <3> QED
      BY <3>1 DEF AuthorsInv, Throughout
  <2>3. CASE Train \/ Compress
    <3>1. present' = present
      BY <2>3 DEF Train, Compress
    <3> QED
      BY <3>1 DEF AuthorsInv, Throughout
  <2> QED
    BY <2>1, <2>2, <2>3 DEF Strfry
<1> DEFINE S == Throughout
           T == Throughout'
<1>3. T \subseteq S /\ (job.kind = "authors" => Paged(job, pager, S))
  BY <1>2 DEF AuthorsInv
<1> HIDE DEF S, T
<1>4. job.kind = "authors" => Paged(job, pager, T)
  BY <1>3 DEF Paged
<1> QED
  BY <1>1, <1>2, <1>4 DEF AuthorsInv, T

\* The resolver's limit of a page of authors is positive.
LEMMA LimitIs ==
  ASSUME NEW limit \in Seq(Int)
  PROVE  EffectiveLimit(limit) \in Nat /\ EffectiveLimit(limit) > 0
<1>1. CASE limit = <<>>
  <2>1. DEFAULT_PAGE \in Nat \ {0}
    BY ReaderConstants, Zenon
  <2> QED
    BY <1>1, <2>1 DEF EffectiveLimit, Absent
<1>2. CASE limit # <<>>
  <2>1. limit[1] \in Int
    BY <1>2
  <2>2. Clamp(limit[1]) \in Nat /\ Clamp(limit[1]) > 0
    BY <2>1, ClampIs
  <2> QED
    BY <1>2, <2>2 DEF EffectiveLimit, Absent
<1> QED
  BY <1>1, <1>2

\* A page more.
LEMMA PagedMore ==
  ASSUME NEW j, NEW p, NEW S, S \subseteq present, present \subseteq Levs, Paged(j, p, S), ~p.done, Cursor(p.after),
         NEW N \in Nat, N > 0, NEW s, PageOf(p.after, N, s), NEW q,
         q = [p EXCEPT !.after = IF Len(s) = N THEN s[N] ELSE @, !.done = ~(Len(s) = N), !.out = @ \o s]
  PROVE  Paged(j, q, S)
<1> DEFINE P == Pubkey
           x == p.after
           o == p.out
           M == Len(o)
           L == Len(s)
           g == o \o s
           y == IF L = N THEN s[N] ELSE x
<1>1. /\ DOMAIN p = {"after", "out", "done", "refused"} /\ x \in Seq(Byte) /\ o \in Seq(P)
      /\ \A i, k \in 1 .. M : i < k => MemLess(o[i], o[k])
      /\ \A i \in 1 .. M : o[i] = x \/ MemLess(o[i], x)
      /\ ~p.refused => \A l \in S : MemLess(j.after, Catalog[l].pubkey) =>
            (\E i \in 1 .. M : o[i] = Catalog[l].pubkey) \/ MemLess(x, Catalog[l].pubkey)
  BY DEF Paged
<1>2. /\ s \in Seq(P) /\ L <= N
      /\ \A i \in 1 .. L : MemLess(x, s[i])
      /\ \A i, k \in 1 .. L : i < k => MemLess(s[i], s[k])
      /\ \A l \in present : MemLess(x, Catalog[l].pubkey) =>
            (\E i \in 1 .. L : s[i] = Catalog[l].pubkey) \/ (L = N /\ MemLess(LastOf(x, s), Catalog[l].pubkey))
  BY DEF PageOf
<1>3. /\ DOMAIN q = {"after", "out", "done", "refused"}
      /\ q.after = y /\ q.out = g /\ q.done = ~(L = N) /\ q.refused = p.refused
  <2>1. q = [p EXCEPT !.after = y, !.done = ~(L = N), !.out = g]
    OBVIOUS
  <2> HIDE DEF y, g, L
  <2> QED
    BY <1>1, <2>1
<1> HIDE DEF P, x, o
<1>4. L \in Nat /\ M \in Nat /\ \A i \in 1 .. L : s[i] \in P
  BY <1>1, <1>2
<1>5. /\ g \in Seq(P) /\ Len(g) = M + L
      /\ \A i \in 1 .. M : g[i] = o[i]
      /\ \A i \in 1 .. L : g[M + i] = s[i]
  <2>1. g \in Seq(P) /\ Len(g) = M + L
    BY <1>1, <1>2
  <2>2. \A i \in 1 .. M : g[i] = o[i]
    BY <1>1, <1>2
  <2>3. \A i \in 1 .. L : g[M + i] = s[i]
    BY <1>1, <1>2
  <2> QED
    BY <2>1, <2>2, <2>3
<1>6. \A i \in 1 .. M + L : i \in 1 .. M \/ \E a \in 1 .. L : i = M + a
  <2> SUFFICES ASSUME NEW i \in 1 .. M + L, i \notin 1 .. M PROVE \E a \in 1 .. L : i = M + a
    OBVIOUS
  <2>1. i - M \in 1 .. L /\ i = M + (i - M)
    BY <1>4
  <2> QED
    BY <2>1
<1>7. (\A i \in 1 .. M : i \in 1 .. M + L) /\ (\A i \in 1 .. L : M + i \in 1 .. M + L)
  BY <1>4
<1>8. x \in Seq(Byte) /\ (\A i \in 1 .. L : s[i] \in Seq(Byte)) /\ (\A i \in 1 .. M : o[i] \in Seq(Byte))
  <2>1. \A i \in 1 .. M : o[i] \in P
    BY <1>1
  <2>2. \A a \in P : a \in Seq(Byte)
    BY PubkeysAre DEF P
  <2> QED
    BY <1>1, <1>4, <2>1, <2>2
<1> HIDE DEF g, M, L
<1>9. ASSUME NEW i \in 1 .. M, NEW k \in 1 .. L PROVE MemLess(o[i], s[k])
  <2>1. MemLess(x, s[k]) /\ (o[i] = x \/ MemLess(o[i], x))
    BY <1>1, <1>2
  <2> QED
    BY <1>8, <2>1, MemLessTransitive
<1>10. ASSUME NEW i \in 1 .. M + L, NEW k \in 1 .. M + L, i < k PROVE MemLess(g[i], g[k])
  <2>1. CASE k \in 1 .. M
    <3>1. i \in 1 .. M
      BY <1>4, <1>10, <2>1
    <3> QED
      BY <1>1, <1>5, <1>10, <2>1, <3>1
  <2>2. ASSUME NEW b \in 1 .. L, k = M + b PROVE MemLess(g[i], g[k])
    <3>1. CASE i \in 1 .. M
      BY <1>5, <1>9, <2>2, <3>1
    <3>2. ASSUME NEW a \in 1 .. L, i = M + a PROVE MemLess(g[i], g[k])
      <4>1. a < b
        BY <1>4, <1>10, <2>2, <3>2
      <4> QED
        BY <1>2, <1>5, <2>2, <3>2, <4>1
    <3> QED
      BY <1>6, <3>1, <3>2
  <2> QED
    BY <1>6, <2>1, <2>2
<1>11. y \in Seq(Byte)
  <2>1. L = N => N \in 1 .. L
    BY <1>4
  <2> QED
    BY <1>8, <2>1
<1>12. ASSUME L = N, NEW i \in 1 .. M + L PROVE g[i] = y \/ MemLess(g[i], y)
  <2>1. y = s[N] /\ N \in 1 .. L
    BY <1>4, <1>12
  <2> HIDE DEF y
  <2>2. CASE i \in 1 .. M
    BY <1>5, <1>9, <2>1, <2>2
  <2>3. ASSUME NEW a \in 1 .. L, i = M + a PROVE g[i] = y \/ MemLess(g[i], y)
    <3>1. a = N \/ a < N
      BY <1>12, <2>3
    <3>2. g[i] = s[a]
      BY <1>5, <2>3
    <3> QED
      BY <1>2, <2>1, <3>1, <3>2
  <2> QED
    BY <1>6, <2>2, <2>3
<1>13. ASSUME L = N PROVE LastOf(x, s) = y
  <2>1. s # <<>> /\ Len(s) = N
    BY <1>2, <1>13 DEF L
  <2> QED
    BY <1>13, <2>1 DEF LastOf
<1>14. ASSUME ~q.refused, NEW l \in S, MemLess(j.after, Catalog[l].pubkey)
       PROVE  (\E i \in 1 .. M + L : g[i] = Catalog[l].pubkey) \/ (L = N /\ MemLess(y, Catalog[l].pubkey))
  <2>1. CASE \E i \in 1 .. M : o[i] = Catalog[l].pubkey
    BY <1>5, <1>7, <2>1
  <2>2. CASE MemLess(x, Catalog[l].pubkey)
    <3>1. (\E i \in 1 .. L : s[i] = Catalog[l].pubkey) \/ (L = N /\ MemLess(LastOf(x, s), Catalog[l].pubkey))
      BY <1>2, <2>2
    <3> HIDE DEF y
    <3> QED
      BY <1>5, <1>7, <1>13, <3>1
  <2> QED
    BY <1>1, <1>3, <1>14, <2>1, <2>2
<1> HIDE DEF y
<1> QED
  BY <1>3, <1>5, <1>10, <1>11, <1>12, <1>14 DEF Paged, P

\* A page of the listing preserves its invariant.
LEMMA AuthorsAction == ASSUME AuthorsInv, Authors PROVE AuthorsInv'
<1> DEFINE N == EffectiveLimit(job.limit)
           x == pager.after
           s == DistinctAuthors(x, N)
           q == [pager EXCEPT !.after = IF Len(s) = N THEN s[N] ELSE @, !.done = ~(Len(s) = N), !.out = @ \o s]
<1>1. /\ job' = job /\ present' = present /\ job.kind = "authors" /\ ~pager.done
      /\ job \in Jobs /\ present \subseteq Levs /\ Paged(job, pager, Throughout)
  BY DEF Authors, AuthorsInv, store
<1>2. Throughout' = Throughout /\ Throughout \subseteq present
  BY <1>1 DEF Throughout
<1>3. job.limit \in Seq(Int)
  BY <1>1, ReaderConstants, Zenon
<1>4. N \in Nat /\ N > 0
  BY <1>3, LimitIs
<1>5. CASE pager' = [pager EXCEPT !.done = TRUE, !.refused = TRUE]
  <2> DEFINE S == Throughout
             r == pager'
  <2>1. Paged(job, pager, S)
    BY <1>1
  <2>2. DOMAIN pager = {"after", "out", "done", "refused"}
    BY <2>1 DEF Paged
  <2>3. /\ DOMAIN r = {"after", "out", "done", "refused"} /\ r.after = pager.after /\ r.out = pager.out
        /\ r.done = TRUE /\ r.refused = TRUE
    BY <1>5, <2>2
  <2> HIDE DEF S, r
  <2>4. Paged(job, r, S)
    BY <2>1, <2>3 DEF Paged
  <2> QED
    BY <1>1, <1>2, <2>4 DEF AuthorsInv, S, r
<1>6. CASE (x = <<>> \/ Len(x) = PubLen) /\ pager' = q
  <2>1. x \in Seq(Byte)
    BY <1>1 DEF Paged
  <2>2. Cursor(x)
    <3> HIDE DEF x
    <3> QED
      BY <1>6, <2>1 DEF Cursor, Pubkey
  <2>3. PageOf(x, N, s)
    <3> HIDE DEF x, N
    <3> QED
      BY <1>1, <1>4, <2>2, PageIs
  <2> DEFINE S == Throughout
  <2>4. S \subseteq present /\ Paged(job, pager, S)
    BY <1>1, <1>2
  <2>5. pager' = q
    BY <1>6
  <2> HIDE DEF N, s, S
  <2>6. Paged(job, q, S)
    BY <1>1, <1>4, <2>2, <2>3, <2>4, PagedMore
  <2> HIDE DEF q
  <2> QED
    BY <1>1, <1>2, <2>5, <2>6 DEF AuthorsInv, S
<1>7. \/ pager' = [pager EXCEPT !.done = TRUE, !.refused = TRUE]
      \/ (x = <<>> \/ Len(x) = PubLen) /\ pager' = q
  BY DEF Authors, Absent, PubLen
<1> QED
  BY <1>5, <1>6, <1>7

\* The other readers leave the pages alone.
LEMMA AuthorsOthers ==
  ASSUME AuthorsInv, ScanWindow \/ RefillStream \/ Stats \/ (\E w \in Workers : Latest(w)) \/ UNCHANGED readerVars
  PROVE  AuthorsInv'
<1>1. job' = job /\ present' = present /\ pager' = pager
  <2>1. CASE ScanWindow \/ RefillStream \/ Stats \/ UNCHANGED readerVars
    BY <2>1 DEF ScanWindow, RefillStream, Stats, readerVars, store
  <2>2. CASE \E w \in Workers : Latest(w)
    <3>1. UNCHANGED LatestRest
      BY <2>2 DEF Latest, Begin, ScanAuthor, Fetch, DecodePayload, LoadDict, InsertDict, Bucket
    <3> QED
      BY <3>1 DEF LatestRest, store
  <2> QED
    BY <2>1, <2>2
<1> QED
  BY <1>1 DEF AuthorsInv, Throughout

\* A listing that has ended is complete.
LEMMA AuthorsInvComplete == AuthorsInv => AuthorsComplete
<1> SUFFICES ASSUME AuthorsInv, job.kind = "authors"
             PROVE  /\ \A i, j \in DOMAIN pager.out : i < j => MemLess(pager.out[i], pager.out[j])
                    /\ pager.done /\ ~pager.refused =>
                          \A l \in Throughout : MemLess(job.after, Catalog[l].pubkey) =>
                              Catalog[l].pubkey \in Range(pager.out)
  BY DEF AuthorsComplete
<1> DEFINE o == pager.out
<1>1. Paged(job, pager, Throughout) /\ o \in Seq(Pubkey)
  BY DEF AuthorsInv, Paged
<1>2. DOMAIN o = 1 .. Len(o)
  BY <1>1, LenProperties, Zenon
<1> QED
  BY <1>1, <1>2 DEF Paged, Range

\* The pages of authors() are ascending and repeat nobody, and a client that reached the
\* last one has seen everyone behind its first cursor who had an event all the while, for
\* every page size, length of the pubkeys and sequence of writes of strfry between the
\* requests (distinct_authors, increment_be, Query::authors).
THEOREM AuthorsCorrect == ReaderSpec => []AuthorsComplete
<1>1. ReaderInit => AuthorsInv
  BY AuthorsInit
<1>2. AuthorsInv /\ [ReaderNext]_readerVars => AuthorsInv'
  BY AuthorsStrfry, AuthorsAction, AuthorsOthers DEF ReaderNext
<1>3. AuthorsInv => AuthorsComplete
  BY AuthorsInvComplete
<1> QED
  BY <1>1, <1>2, <1>3, PTL DEF ReaderSpec
=============================================================================
