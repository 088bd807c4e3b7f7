----------------------------- MODULE HunterProofs -----------------------------
(***************************************************************************)
(* Proofs about Hunter, for every set of pubkeys, every limit, page, batch *)
(* and channel size, and every number of starts, faults, kills and new     *)
(* authors.                                                                *)
(***************************************************************************)
EXTENDS Hunter, FiniteSetTheorems, SequenceTheorems, WellFoundedInduction, TLAPS

-----------------------------------------------------------------------------
(* Finite sets of numbers                                                  *)

\* A set of numbers that is not empty has a least member.
LEMMA LeastMember ==
  ASSUME NEW T, T \subseteq Nat, T # {}
  PROVE  \E x \in T : \A y \in T : x <= y
<1>1. PICK x \in T : \A y \in T : ~(<<y, x>> \in OpToRel(<, Nat))
  <2>1. IsWellFoundedOn(OpToRel(<, Nat), Nat)
    BY NatLessThanWellFounded
  <2> DEFINE R == OpToRel(<, Nat)
  <2>2. IsWellFoundedOn(R, Nat)
    BY <2>1
  <2> HIDE DEF R
  <2>3. \E x \in T : \A y \in T : ~(<<y, x>> \in R)
    BY <2>2, WFMin
  <2> QED
    BY <2>3 DEF R
<1>2. \A y \in T : x <= y
  <2> SUFFICES ASSUME NEW y \in T, y < x PROVE FALSE
    OBVIOUS
  <2>1. <<y, x>> \in Nat \X Nat /\ <<y, x>>[1] < <<y, x>>[2]
    BY <1>1
  <2>2. <<y, x>> \in OpToRel(<, Nat)
    BY <2>1 DEF OpToRel
  <2> QED
    BY <1>1, <2>2
<1> QED
  BY <1>2

\* A finite one has a greatest member.
LEMMA GreatestMember ==
  ASSUME NEW T, T \subseteq Nat, T # {}, IsFiniteSet(T)
  PROVE  \E x \in T : \A y \in T : y <= x
<1> DEFINE Above(x) == {j \in T : j > x}
           N(x) == Cardinality(Above(x))
           S == {N(x) : x \in T}
<1>1. \A x \in T : IsFiniteSet(Above(x)) /\ N(x) \in Nat
  <2> SUFFICES ASSUME NEW x \in T PROVE IsFiniteSet(Above(x)) /\ N(x) \in Nat
    OBVIOUS
  <2>1. Above(x) \in SUBSET T
    OBVIOUS
  <2>2. IsFiniteSet(Above(x))
    BY <2>1, FS_Subset
  <2> QED
    BY <2>2, FS_CardinalityType
<1>2. S \subseteq Nat /\ S # {}
  BY <1>1
<1>3. PICK x \in T : \A y \in T : N(x) <= N(y)
  <2> HIDE DEF S, N
  <2>1. PICK n \in S : \A m \in S : n <= m
    BY <1>2, LeastMember
  <2> QED
    BY <2>1 DEF S
<1>4. ASSUME NEW y \in T, ~(y <= x) PROVE FALSE
  <2>0. x \in Nat /\ y \in Nat /\ \A j \in T : j \in Nat
    OBVIOUS
  <2>1. Above(y) \in SUBSET Above(x) /\ y \in Above(x) /\ y \notin Above(y)
    <3>1. y > x /\ ~(y > y) /\ \A j \in T : j > y => j > x
      BY <1>4, <2>0
    <3> QED
      BY <3>1
  <2>2. IsFiniteSet(Above(x)) /\ N(x) \in Nat /\ N(y) \in Nat /\ N(x) <= N(y)
    BY <1>1, <1>3
  <2> HIDE DEF Above
  <2>3. N(y) <= N(x) /\ (N(x) = N(y) => Above(x) = Above(y))
    BY <2>1, <2>2, FS_Subset
  <2> HIDE DEF N
  <2>4. N(x) = N(y)
    BY <2>2, <2>3
  <2> QED
    BY <2>1, <2>3, <2>4
<1> QED
  BY <1>4

\* The members below one of them.
Below(S, k) == {j \in S : j < k}

\* Fewer members are below a smaller one.
LEMMA BelowGrows ==
  ASSUME NEW S, S \subseteq Nat, IsFiniteSet(S), NEW k \in Nat
  PROVE  /\ IsFiniteSet(Below(S, k)) /\ Cardinality(Below(S, k)) \in Nat
         /\ \A j \in Nat : j <= k => Cardinality(Below(S, j)) <= Cardinality(Below(S, k))
<1>1. Below(S, k) \in SUBSET S
  BY DEF Below
<1>2. IsFiniteSet(Below(S, k))
  BY <1>1, FS_Subset
<1>3. Cardinality(Below(S, k)) \in Nat
  BY <1>2, FS_CardinalityType
<1>4. ASSUME NEW j \in Nat, j <= k PROVE Cardinality(Below(S, j)) <= Cardinality(Below(S, k))
  <2>0. \A i \in S : i \in Nat
    OBVIOUS
  <2>1. \A i \in S : i < j => i < k
    BY <1>4, <2>0
  <2>2. Below(S, j) \in SUBSET Below(S, k)
    BY <2>1 DEF Below
  <2> QED
    BY <1>2, <2>2, FS_Subset
<1> QED
  BY <1>2, <1>3, <1>4

\* The first n of S are the smallest; they are n or all of S.
LEMMA FirstNProperties ==
  ASSUME NEW S, S \subseteq Nat, IsFiniteSet(S), NEW n \in Nat \ {0}
  PROVE  /\ FirstN(S, n) \subseteq S /\ IsFiniteSet(FirstN(S, n))
         /\ \A k \in FirstN(S, n), j \in S : j <= k => j \in FirstN(S, n)
         /\ FirstN(S, n) = S \/ Cardinality(FirstN(S, n)) = n
<1> DEFINE F == FirstN(S, n)
<1>1. \A k \in S : k \in F <=> Cardinality(Below(S, k)) < n
  BY DEF FirstN, Below
<1>2. F \in SUBSET S /\ F \subseteq Nat
  BY DEF FirstN
<1>3. IsFiniteSet(F)
  BY <1>2, FS_Subset
<1>4. \A k \in S, j \in S : j <= k => Cardinality(Below(S, j)) <= Cardinality(Below(S, k))
                                      /\ Cardinality(Below(S, j)) \in Nat
                                      /\ Cardinality(Below(S, k)) \in Nat
  BY BelowGrows
<1> HIDE DEF F
<1>5. ASSUME NEW k \in F, NEW j \in S, j <= k PROVE j \in F
  BY <1>1, <1>2, <1>4, <1>5
<1>6. ASSUME F # S PROVE Cardinality(F) = n
  <2>1. S \ F # {} /\ S \ F \subseteq Nat
    BY <1>2, <1>6
  <2>2. PICK k \in S \ F : \A j \in S \ F : k <= j
    BY <2>1, LeastMember
  <2>0. \A j \in S : j \in Nat
    OBVIOUS
  <2>3. F = Below(S, k)
    <3>1. \A j \in F : j \in S /\ ~(k <= j)
      BY <1>2, <1>5, <2>2
    <3>2. \A j \in S : j < k => j \in F
      BY <2>0, <2>2
    <3>3. \A j \in F : j < k
      <4> SUFFICES ASSUME NEW j \in F PROVE j < k
        OBVIOUS
      <4>1. k \in Nat /\ j \in Nat
        BY <2>0, <2>2, <3>1
      <4>2. ~(k <= j)
        BY <3>1
      <4> QED
        BY <4>1, <4>2
    <3> QED
      BY <1>2, <3>2, <3>3 DEF Below
  <2>4. Cardinality(F) \in Nat /\ Cardinality(F) >= n
    <3>1. Cardinality(F) \in Nat
      BY <1>3, FS_CardinalityType
    <3> QED
      BY <1>1, <2>2, <2>3, <3>1
  <2>5. F # {}
    BY <2>4, FS_EmptySet
  <2>6. PICK m \in F : \A j \in F : j <= m
    BY <1>2, <1>3, <2>5, GreatestMember
  <2>7. F = Below(S, m) \cup {m}
    <3>1. m \in S /\ m \in Nat
      BY <1>2
    <3>2. \A j \in S : j < m => j \in F
      BY <1>5, <2>0, <3>1
    <3>3. \A j \in F : j < m \/ j = m
      BY <1>2, <2>0, <2>6, <3>1
    <3> QED
      BY <1>2, <3>2, <3>3 DEF Below
  <2>8. IsFiniteSet(Below(S, m)) /\ m \notin Below(S, m) /\ Cardinality(Below(S, m)) < n
        /\ Cardinality(Below(S, m)) \in Nat
    <3>1. m \in S /\ m \in Nat /\ ~(m < m)
      BY <1>2
    <3>2. m \notin Below(S, m)
      BY <3>1 DEF Below
    <3> QED
      BY <1>1, <3>1, <3>2, BelowGrows
  <2>9. Cardinality(F) = Cardinality(Below(S, m)) + 1
    BY <2>7, <2>8, FS_AddElement
  <2> QED
    BY <2>4, <2>8, <2>9
<1> QED
  BY <1>2, <1>3, <1>5, <1>6 DEF F

-----------------------------------------------------------------------------
(* The inductive invariant                                                 *)

Active == pc \notin {"down", "closing"}

\* The run at work is one of the table and not done.
RunInv == Active => run \in Runs /\ runs[run].status # "done"

\* Pubkeys that are stored, or were in a transaction that failed.
Stored == pubkeys \cup UNION {m.pubkeys : m \in lost}

\* The pubkey is stored when the writer has dealt with a flush it still has to take.
Ahead(k) ==
    \E i, j \in 1 .. Len(wq) : i < j /\ k \in wq[i].pubkeys /\ wq[j].flush

Secured(k) == k \in Stored \/ Ahead(k)

\* The walk: the authors of the run up to the cursor in memory are stored, those up
\* to the next cursor are secured while the flush lasts, and all of them after the
\* last page.
WalkInv ==
    /\ \A r \in Runs : hist[r].basis \subseteq corpus
    /\ pc \in {"probe", "page", "flush"} => after = None \/ after = runs[run].cursor
    /\ pc = "flush" => /\ next # None /\ ~hist[run].whole
                       /\ \A k \in hist[run].basis : k <= next => Secured(k)
    /\ pc = "lastFlush" /\ hist[run].whole => \A k \in hist[run].basis : Secured(k)
    /\ pc \in {"endProbe", "read", "poll", "request", "send", "join", "mark"} /\ hist[run].whole
          => hist[run].basis \subseteq Stored
    /\ NoneSkipped

\* An input or a score with the events of its own author.
Genuine(x) == x.posts = IF x.key \in Posting THEN x.key ELSE None

\* Rows that were handed to the writer.
Rows == scores \cup (UNION {wq[i].scores : i \in 1 .. Len(wq)}) \cup (UNION {m.scores : m \in lost})

\* The pubkey was scored in the run.
Handed(r, k) == \E s \in Rows : s.run = r /\ s.key = k /\ Genuine(s)

\* What a writer that died had not taken was counted as lost.
DeadInv == writer = "dead" => \A i \in 1 .. Len(wq) : wq[i] \in lost

\* No author is mixed up with another on the way to the tables.
GenuineInv ==
    /\ \A s \in scores : Genuine(s)
    /\ \A i \in 1 .. Len(wq) : \A s \in wq[i].scores : Genuine(s)
    /\ \A i \in 1 .. Len(chan) : Genuine(chan[i])
    /\ \A x \in sending : Genuine(x)
    /\ groups \subseteq Posting
    /\ pc = "request" =>
          batch \cap Posting \subseteq groups \cup UNION {requests[i] : i \in 1 .. Len(requests)}

\* The stages of the pipeline and what each of them holds.
StageInv ==
    /\ pc # "send" => sending = {}
    /\ pc # "request" => batch = {}
    /\ pc \notin {"poll", "request", "send"} => todo = {}
    /\ failed => pc = "join"
    /\ txOpen <=> pc \in {"poll", "request", "send"}
    /\ consumer # "recv" => chan = <<>>
    /\ consumer = "recv" => pc \in {"poll", "request", "send", "join"}
    /\ consumer = "ended" => ~txOpen
    /\ pc = "mark" => consumer = "ended"

\* Unless the pipeline has failed, a pubkey read is still in one of the stages or
\* was scored.
PlanInv ==
    pc \in {"poll", "request", "send", "join", "mark"} /\ consumer # "panicked" /\ ~failed =>
        \A k \in hist[run].plan :
            \/ k \in todo \cup batch
            \/ \E x \in sending : x.key = k
            \/ \E i \in 1 .. Len(chan) : chan[i].key = k
            \/ Handed(run, k)

ScoredInv == DeadInv /\ GenuineInv /\ StageInv /\ PlanInv /\ DoneAccounted

-----------------------------------------------------------------------------
(* Types                                                                   *)

History == [basis : SUBSET Keys, whole : BOOLEAN, plan : SUBSET Keys]

\* An UPDATE of the status of a run.
LEMMA StatusWritten ==
  ASSUME runs \in Seq(Row), NEW i \in 1 .. Len(runs), NEW v \in {"running", "aborted", "done"},
         NEW s, s = [runs EXCEPT ![i].status = v]
  PROVE  /\ s \in Seq(Row) /\ Len(s) = Len(runs)
         /\ \A r \in 1 .. Len(runs) :
               /\ s[r].status = IF r = i THEN v ELSE runs[r].status
               /\ s[r].cursor = runs[r].cursor
<1> DEFINE x == [status |-> v, cursor |-> runs[i].cursor]
<1>1. runs[i] \in Row /\ \A r \in 1 .. Len(runs) : runs[r] \in Row
  BY ElementOfSeq
<1>2. x \in Row
  BY <1>1 DEF Row
<1>3. [runs[i] EXCEPT !.status = v] = x
  BY <1>1 DEF Row
<1>4. s = [runs EXCEPT ![i] = x]
  BY <1>3
<1>5. x.status = v /\ x.cursor = runs[i].cursor
  OBVIOUS
<1> HIDE DEF x
<1>6. /\ s \in Seq(Row) /\ Len(s) = Len(runs)
      /\ \A r \in 1 .. Len(runs) : s[r] = IF r = i THEN x ELSE runs[r]
  BY <1>2, <1>4, ExceptSeq
<1> QED
  BY <1>5, <1>6

\* An UPDATE of the cursor of a run.
LEMMA CursorWritten ==
  ASSUME runs \in Seq(Row), NEW i \in 1 .. Len(runs), NEW v \in Cursors,
         NEW s, s = [runs EXCEPT ![i].cursor = v]
  PROVE  /\ s \in Seq(Row) /\ Len(s) = Len(runs)
         /\ \A r \in 1 .. Len(runs) :
               /\ s[r].cursor = IF r = i THEN v ELSE runs[r].cursor
               /\ s[r].status = runs[r].status
<1> DEFINE x == [status |-> runs[i].status, cursor |-> v]
<1>1. runs[i] \in Row /\ \A r \in 1 .. Len(runs) : runs[r] \in Row
  BY ElementOfSeq
<1>2. x \in Row
  BY <1>1 DEF Row
<1>3. [runs[i] EXCEPT !.cursor = v] = x
  BY <1>1 DEF Row
<1>4. s = [runs EXCEPT ![i] = x]
  BY <1>3
<1>5. x.cursor = v /\ x.status = runs[i].status
  OBVIOUS
<1> HIDE DEF x
<1>6. /\ s \in Seq(Row) /\ Len(s) = Len(runs)
      /\ \A r \in 1 .. Len(runs) : s[r] = IF r = i THEN x ELSE runs[r]
  BY <1>2, <1>4, ExceptSeq
<1> QED
  BY <1>5, <1>6

\* Whether the walk came to the end.
LEMMA WholeWritten ==
  ASSUME hist \in Seq(History), NEW i \in 1 .. Len(hist), NEW v \in BOOLEAN,
         NEW s, s = [hist EXCEPT ![i].whole = v]
  PROVE  /\ s \in Seq(History) /\ Len(s) = Len(hist)
         /\ \A r \in 1 .. Len(hist) :
               /\ s[r].whole = IF r = i THEN v ELSE hist[r].whole
               /\ s[r].basis = hist[r].basis
               /\ s[r].plan = hist[r].plan
<1> DEFINE x == [basis |-> hist[i].basis, whole |-> v, plan |-> hist[i].plan]
<1>1. hist[i] \in History /\ \A r \in 1 .. Len(hist) : hist[r] \in History
  BY ElementOfSeq
<1>2. x \in History
  BY <1>1 DEF History
<1>3. [hist[i] EXCEPT !.whole = v] = x
  BY <1>1 DEF History
<1>4. s = [hist EXCEPT ![i] = x]
  BY <1>3
<1>5. x.whole = v /\ x.basis = hist[i].basis /\ x.plan = hist[i].plan
  OBVIOUS
<1> HIDE DEF x
<1>6. /\ s \in Seq(History) /\ Len(s) = Len(hist)
      /\ \A r \in 1 .. Len(hist) : s[r] = IF r = i THEN x ELSE hist[r]
  BY <1>2, <1>4, ExceptSeq
<1> QED
  BY <1>5, <1>6

\* The pubkeys read for scoring.
WithPlan(i, v) == [hist EXCEPT ![i].plan = v]

\* They are set for one run.
LEMMA PlanWritten ==
  ASSUME hist \in Seq(History), NEW i \in 1 .. Len(hist), NEW v, v \subseteq Keys
  PROVE  /\ WithPlan(i, v) \in Seq(History) /\ Len(WithPlan(i, v)) = Len(hist)
         /\ \A r \in 1 .. Len(hist) :
               /\ WithPlan(i, v)[r].plan = IF r = i THEN v ELSE hist[r].plan
               /\ WithPlan(i, v)[r].basis = hist[r].basis
               /\ WithPlan(i, v)[r].whole = hist[r].whole
<1> DEFINE s == WithPlan(i, v)
           x == [basis |-> hist[i].basis, whole |-> hist[i].whole, plan |-> v]
<1>1. hist[i] \in History /\ \A r \in 1 .. Len(hist) : hist[r] \in History
  BY ElementOfSeq
<1>2. x \in History
  BY <1>1 DEF History
<1>3. [hist[i] EXCEPT !.plan = v] = x
  BY <1>1 DEF History
<1>4. s = [hist EXCEPT ![i] = x]
  BY <1>3 DEF WithPlan
<1>5. x.plan = v /\ x.basis = hist[i].basis /\ x.whole = hist[i].whole
  OBVIOUS
<1> HIDE DEF x, s
<1>6. /\ s \in Seq(History) /\ Len(s) = Len(hist)
      /\ \A r \in 1 .. Len(hist) : s[r] = IF r = i THEN x ELSE hist[r]
  BY <1>2, <1>4, ExceptSeq
<1> QED
  BY <1>5, <1>6 DEF s

\* A page holds every author between the cursor and its end cursor, and every one
\* beyond the cursor when it has none.
LEMMA PageProperties ==
  ASSUME corpus \subseteq Keys, NEW c \in Cursors
  PROVE  /\ Page(c) \subseteq corpus /\ Cardinality(Page(c)) \in Nat
         /\ EndCursor(Page(c)) \in Cursors
         /\ \A k \in corpus : /\ c = None \/ k > c
                              /\ EndCursor(Page(c)) = None \/ k <= EndCursor(Page(c))
                              => k \in Page(c)
<1> DEFINE S == {k \in corpus : c = None \/ k > c}
           F == Page(c)
           e == EndCursor(F)
<1>1. S \subseteq Nat /\ IsFiniteSet(S) /\ PageLimit \in Nat \ {0}
  <2>1. S \in SUBSET Keys
    OBVIOUS
  <2> QED
    BY <2>1, HunterConstants, FS_Subset
<1>2. F = FirstN(S, PageLimit)
  BY DEF Page
<1> HIDE DEF S, F
<1>3. /\ F \subseteq S /\ IsFiniteSet(F)
      /\ \A k \in F, j \in S : j <= k => j \in F
      /\ F = S \/ Cardinality(F) = PageLimit
  BY <1>1, <1>2, FirstNProperties
<1>4. Cardinality(F) \in Nat
  BY <1>3, FS_CardinalityType
<1>5. CASE Cardinality(F) = PageLimit
  <2>1. F # {} /\ F \subseteq Nat
    BY <1>1, <1>3, <1>5, FS_EmptySet
  <2>2. \E x \in F : \A y \in F : y <= x
    BY <1>3, <2>1, GreatestMember
  <2>3. e = CHOOSE k \in F : \A j \in F : j <= k
    BY <1>5 DEF EndCursor
  <2> HIDE DEF e
  <2>4. e \in F /\ \A j \in F : j <= e
    BY <2>2, <2>3
  <2>5. e # None
    BY <2>1, <2>4, HunterConstants
  <2> QED
    BY <1>3, <1>4, <2>4, <2>5 DEF S, F, e, Cursors
<1>6. CASE Cardinality(F) # PageLimit
  <2>1. e = None /\ F = S
    BY <1>3, <1>6 DEF EndCursor
  <2> HIDE DEF e
  <2> QED
    BY <1>3, <1>4, <2>1 DEF S, F, e, Cursors
<1> QED
  BY <1>5, <1>6

\* Messages to the writer are messages.
LEMMA MessageTypes ==
  /\ Flush \in Message
  /\ \A S \in SUBSET Keys : Pubkeys(S) \in Message
  /\ \A r \in Nat, x \in Input : ScoreOf([run |-> r, key |-> x.key, posts |-> x.posts]) \in Message
<1>1. TRUE \in BOOLEAN /\ FALSE \in BOOLEAN
  OBVIOUS
<1>2. Flush \in Message /\ \A S \in SUBSET Keys : Pubkeys(S) \in Message
  BY <1>1 DEF Flush, Pubkeys, Message
<1>3. ASSUME NEW r \in Nat, NEW x \in Input
      PROVE  ScoreOf([run |-> r, key |-> x.key, posts |-> x.posts]) \in Message
  <2> DEFINE t == [run |-> r, key |-> x.key, posts |-> x.posts]
  <2>1. t \in Score /\ t.key \in Keys
    BY DEF Input, Score
  <2> HIDE DEF t
  <2>2. ScoreOf(t) \in Message
    BY <1>1, <2>1 DEF ScoreOf, Message
  <2> QED
    BY <2>2 DEF t
<1> QED
  BY <1>2, <1>3

\* The database and what is known of it keep their types.
LEMMA DatabaseStep == TypeOK /\ RunInv /\ [Next]_vars => DatabaseTypes'
<1> SUFFICES ASSUME TypeOK, RunInv, [Next]_vars PROVE DatabaseTypes'
  OBVIOUS
<1>0. /\ corpus \subseteq Keys /\ pubkeys \subseteq Keys /\ runs \in Seq(Row)
      /\ scores \subseteq Score /\ hist \in Seq(History) /\ Len(hist) = Len(runs)
      /\ lost \subseteq Message /\ wq \in Seq(Message) /\ after \in Cursors /\ next \in Cursors
  BY DEF TypeOK, DatabaseTypes, ThreadTypes, WalkTypes, History
<1>a. Len(runs) \in Nat
  BY <1>0, LenProperties
<1>b. Active => run \in 1 .. Len(runs)
  BY DEF RunInv, Runs
<1>c. \A i \in 1 .. Len(wq) : wq[i] \in Message
  BY <1>0, ElementOfSeq
<1>1. CASE UNCHANGED <<corpus, database, hist, lost>>
  BY <1>0, <1>1 DEF database, DatabaseTypes, History
<1>2. CASE NewAuthor
  BY <1>0, <1>2 DEF NewAuthor, database, DatabaseTypes, History
<1>3. CASE Start
  <2>1. UNCHANGED <<corpus, pubkeys, scores, lost>>
    BY <1>3 DEF Start
  <2>2. CASE UNCHANGED <<runs, hist>>
    BY <1>0, <2>1, <2>2 DEF DatabaseTypes, History
  <2>3. CASE /\ runs' = Append(runs, [status |-> "running", cursor |-> None])
             /\ hist' = Append(hist, [basis |-> corpus, whole |-> FALSE, plan |-> {}])
    <3> DEFINE row == [status |-> "running", cursor |-> None]
               h == [basis |-> corpus, whole |-> FALSE, plan |-> {}]
    <3>1. row \in Row /\ h \in History
      BY <1>0 DEF Row, History, Cursors
    <3> HIDE DEF row, h
    <3>2. runs' = Append(runs, row) /\ hist' = Append(hist, h)
      BY <2>3 DEF row, h
    <3>3. /\ runs' \in Seq(Row) /\ Len(runs') = Len(runs) + 1
          /\ hist' \in Seq(History) /\ Len(hist') = Len(hist) + 1
      BY <1>0, <3>1, <3>2, AppendProperties
    <3> QED
      BY <1>0, <2>1, <3>3 DEF DatabaseTypes, History
  <2> QED
    BY <1>3, <2>2, <2>3 DEF Start
<1>4. ASSUME UNCHANGED <<corpus, pubkeys, scores, hist, lost>>, NEW v \in {"running", "aborted", "done"},
             run \in 1 .. Len(runs), runs' = [runs EXCEPT ![run].status = v]
      PROVE  DatabaseTypes'
  <2>1. runs' \in Seq(Row) /\ Len(runs') = Len(runs)
    BY <1>0, <1>4, StatusWritten
  <2> QED
    BY <1>0, <1>4, <2>1 DEF DatabaseTypes, History
<1>5. CASE FetchPageFails
  <2>1. UNCHANGED <<corpus, pubkeys, scores, hist, lost>> /\ pc = "page"
    BY <1>5 DEF FetchPageFails
  <2>2. runs' = runs \/ runs' = [runs EXCEPT ![run].status = "aborted"]
    BY <1>5 DEF FetchPageFails
  <2>3. run \in 1 .. Len(runs)
    BY <1>b, <2>1 DEF Active
  <2> QED
    BY <1>1, <1>4, <2>1, <2>2, <2>3 DEF database
<1>6. CASE MarkDone
  <2>1. UNCHANGED <<corpus, pubkeys, scores, hist, lost>> /\ pc = "mark"
    BY <1>6 DEF MarkDone
  <2>2. runs' = runs \/ runs' = [runs EXCEPT ![run].status = "done"]
    BY <1>6 DEF MarkDone
  <2>3. run \in 1 .. Len(runs)
    BY <1>b, <2>1 DEF Active
  <2> QED
    BY <1>1, <1>4, <2>1, <2>2, <2>3 DEF database
<1>7. CASE SetCursor
  <2>1. UNCHANGED <<corpus, pubkeys, scores, hist, lost>> /\ pc = "flush"
    BY <1>7 DEF SetCursor
  <2>2. runs' = runs \/ runs' = [runs EXCEPT ![run].cursor = next]
    BY <1>7 DEF SetCursor
  <2>3. run \in 1 .. Len(runs)
    BY <1>b, <2>1 DEF Active
  <2>4. runs' \in Seq(Row) /\ Len(runs') = Len(runs)
    BY <1>0, <2>2, <2>3, CursorWritten
  <2> QED
    BY <1>0, <2>1, <2>4 DEF DatabaseTypes, History
<1>8. CASE FetchPage
  <2>1. UNCHANGED <<corpus, database, lost>> /\ pc = "page"
    BY <1>8 DEF FetchPage
  <2>2. hist' = hist \/ hist' = [hist EXCEPT ![run].whole = (next' = None)]
    BY <1>8 DEF FetchPage
  <2>3. run \in 1 .. Len(hist)
    BY <1>0, <1>b, <2>1 DEF Active
  <2> DEFINE b == (next' = None)
  <2>4. b \in BOOLEAN
    BY Zenon
  <2>5. hist' = hist \/ hist' = [hist EXCEPT ![run].whole = b]
    BY <2>2
  <2> HIDE DEF b
  <2>6. hist' \in Seq(History) /\ Len(hist') = Len(hist)
    BY <1>0, <2>3, <2>4, <2>5, WholeWritten
  <2> QED
    BY <1>0, <2>1, <2>6 DEF DatabaseTypes, History, database
<1>9. CASE ReadPubkeys
  <2>1. UNCHANGED <<corpus, database, lost>> /\ pc = "read"
    BY <1>9 DEF ReadPubkeys
  <2>2. hist' = hist \/ hist' = [hist EXCEPT ![run].plan = pubkeys]
    BY <1>9 DEF ReadPubkeys
  <2>3. run \in 1 .. Len(hist)
    BY <1>0, <1>b, <2>1 DEF Active
  <2> DEFINE P == pubkeys
  <2>4. P \subseteq Keys
    BY <1>0
  <2>5. hist' = hist \/ hist' = WithPlan(run, P)
    BY <2>2 DEF WithPlan
  <2> HIDE DEF P
  <2>6. hist' \in Seq(History) /\ Len(hist') = Len(hist)
    BY <1>0, <2>3, <2>4, <2>5, PlanWritten
  <2> QED
    BY <1>0, <2>1, <2>6 DEF DatabaseTypes, History, database
<1>10. CASE WriterCommits
  <2>1. PICK n \in 1 .. Len(wq) :
          /\ pubkeys' = pubkeys \cup UNION {m.pubkeys : m \in {wq[i] : i \in 1 .. n}}
          /\ scores' = Upsert(UNION {m.scores : m \in {wq[i] : i \in 1 .. n}})
    BY <1>10 DEF WriterCommits
  <2>2. {wq[i] : i \in 1 .. n} \subseteq Message
    BY <1>0, <1>c
  <2> DEFINE taken == {wq[i] : i \in 1 .. n}
  <2>a. taken \subseteq Message /\ pubkeys' = pubkeys \cup UNION {m.pubkeys : m \in taken}
        /\ scores' = Upsert(UNION {m.scores : m \in taken})
    BY <2>1, <2>2
  <2>b. \A m \in Message : m.pubkeys \subseteq Keys /\ m.scores \subseteq Score
    BY DEF Message
  <2> HIDE DEF taken
  <2>3. pubkeys' \subseteq Keys
    BY <1>0, <2>a, <2>b
  <2>4. scores' \subseteq Score
    <3>1. UNION {m.scores : m \in taken} \subseteq Score
      BY <2>a, <2>b
    <3> QED
      BY <1>0, <2>a, <3>1 DEF Upsert
  <2>5. UNCHANGED <<corpus, runs, hist, lost>>
    BY <1>10 DEF WriterCommits
  <2> QED
    BY <1>0, <2>3, <2>4, <2>5 DEF DatabaseTypes, History
<1>11. CASE WriterFails \/ Kill
  <2>1. lost' = lost \cup {wq[i] : i \in 1 .. Len(wq)} /\ UNCHANGED <<corpus, database, hist>>
    BY <1>11 DEF WriterFails, Kill
  <2>2. lost' \subseteq Message
    BY <1>0, <1>c, <2>1
  <2> QED
    BY <1>0, <2>1, <2>2 DEF DatabaseTypes, History, database
<1> QED
  BY <1>1, <1>2, <1>3, <1>5, <1>6, <1>7, <1>8, <1>9, <1>10, <1>11
     DEF Next, vars, Task, Enumerate, Fetch, Consumer, Writer, InvalidCursor, WalkEnds, ProbeStart,
         ProbeEnd, NextBatch, EndOfStream, BatchFetched, Fetched, TooLarge, FetchFails, Send, Consume,
         ConsumerEnds, Join, Closed

\* While the task is at work it keeps its run, and of the table only the cursor
\* of that run changes.
LEMMA SameRun ==
  ASSUME [Next]_vars, Active', ~Start
  PROVE  /\ Active /\ run' = run
         /\ \/ runs' = runs
            \/ pc = "flush" /\ runs' = [runs EXCEPT ![run].cursor = next]
<1>1. CASE UNCHANGED <<pc, run, runs>>
  BY <1>1 DEF Active
<1>2. CASE Leave \/ Gone
  BY <1>2 DEF Leave, Gone, Active
<1>3. CASE ProbeStart \/ ProbeEnd
  BY <1>2, <1>3 DEF ProbeStart, ProbeEnd, ProbeFails, TryAgain, Active, database
<1>4. CASE FetchPage \/ InvalidCursor \/ WalkEnds
  BY <1>2, <1>4 DEF FetchPage, InvalidCursor, WalkEnds, Active, database
<1>5. CASE FetchPageFails
  BY <1>2, <1>5 DEF FetchPageFails, TryAgain, Active
<1>6. CASE SetCursor
  BY <1>2, <1>6 DEF SetCursor, Active
<1>7. CASE ReadPubkeys \/ NextBatch \/ EndOfStream \/ BatchFetched
  BY <1>2, <1>7 DEF ReadPubkeys, NextBatch, EndOfStream, BatchFetched, StreamEnds, Active, database
<1>8. CASE Fetched \/ TooLarge \/ FetchFails \/ Send
  BY <1>8 DEF Fetched, TooLarge, FetchFails, Send, StreamEnds, TryAgain, Active, database
<1>9. CASE Join \/ MarkDone \/ Closed \/ Kill
  BY <1>2, <1>9 DEF Join, MarkDone, Closed, Kill, Active, database
<1>10. CASE NewAuthor \/ Consumer \/ Writer
  BY <1>1, <1>10 DEF NewAuthor, Consumer, Consume, ConsumerEnds, Writer, WriterCommits, WriterFails,
                     database, task
<1> QED
  BY <1>1, <1>3, <1>4, <1>5, <1>6, <1>7, <1>8, <1>9, <1>10
     DEF Next, vars, Task, Enumerate, Fetch, database, task

\* Only a start gives the table a row, and no step takes one away.
LEMMA SameRows ==
  ASSUME TypeOK, RunInv, [Next]_vars, ~Start
  PROVE  Len(runs') = Len(runs) /\ (run' = run \/ run' = 0)
<1>0. runs \in Seq(Row) /\ next \in Cursors /\ (Active => run \in 1 .. Len(runs))
  BY DEF TypeOK, DatabaseTypes, WalkTypes, RunInv, Runs
<1>1. CASE Active'
  BY <1>0, <1>1, SameRun, CursorWritten
<1>2. CASE ~Active'
  <2>1. run' = run \/ run' = 0
    <3>1. CASE UNCHANGED run
      BY <3>1
    <3>2. CASE Leave \/ Gone
      BY <3>2 DEF Leave, Gone
    <3> QED
      BY <3>1, <3>2
      DEF Next, vars, Task, Enumerate, Fetch, task, ProbeStart, ProbeEnd, ProbeFails, TryAgain, FetchPage,
          InvalidCursor, WalkEnds, FetchPageFails, SetCursor, ReadPubkeys, NextBatch, EndOfStream,
          BatchFetched, StreamEnds, Fetched, TooLarge, FetchFails, Send, Join, MarkDone, Closed, Kill,
          NewAuthor, Consumer, Consume, ConsumerEnds, Writer, WriterCommits, WriterFails
  <2>2. \/ runs' = runs
        \/ Active /\ \E v \in {"aborted", "done"} : runs' = [runs EXCEPT ![run].status = v]
        \/ Active /\ runs' = [runs EXCEPT ![run].cursor = next]
    BY DEF Next, vars, Task, Enumerate, Fetch, database, ProbeStart, ProbeEnd, FetchPage,
          InvalidCursor, WalkEnds, FetchPageFails, SetCursor, ReadPubkeys, NextBatch, EndOfStream,
          BatchFetched, Fetched, TooLarge, FetchFails, Send, Join, MarkDone, Closed, Kill,
          NewAuthor, Consumer, Consume, ConsumerEnds, Writer, WriterCommits, WriterFails, Active
  <2>3. Len(runs') = Len(runs)
    BY <1>0, <2>2, StatusWritten, CursorWritten
  <2> QED
    BY <2>1, <2>3
<1> QED
  BY <1>1, <1>2

\* The run at work stays one that is not done.
LEMMA RunStep == TypeOK /\ RunInv /\ [Next]_vars => RunInv'
<1> SUFFICES ASSUME TypeOK, RunInv, [Next]_vars, Active'
             PROVE  run' \in Runs' /\ runs'[run'].status # "done"
  BY DEF RunInv
<1>0. runs \in Seq(Row) /\ next \in Cursors /\ (Active => run \in 1 .. Len(runs))
  BY DEF TypeOK, DatabaseTypes, WalkTypes, RunInv, Runs
<1>1. CASE Start
  <2>1. CASE run' \in LatestUnfinished /\ runs' = runs
    BY <2>1 DEF LatestUnfinished, Runs
  <2>2. CASE /\ run' = Len(runs) + 1
             /\ runs' = Append(runs, [status |-> "running", cursor |-> None])
    <3> DEFINE row == [status |-> "running", cursor |-> None]
    <3>1. row \in Row /\ row.status = "running"
      BY DEF Row, Cursors
    <3> HIDE DEF row
    <3>2. runs' = Append(runs, row)
      BY <2>2 DEF row
    <3>3. Len(runs') = Len(runs) + 1 /\ runs'[Len(runs) + 1] = row /\ Len(runs) \in Nat
      BY <1>0, <3>1, <3>2, AppendProperties, LenProperties
    <3> QED
      BY <2>2, <3>1, <3>3 DEF Runs
  <2> QED
    BY <1>1, <2>1, <2>2 DEF Start
<1>2. CASE ~Start
  <2>1. /\ Active /\ run' = run
        /\ \/ runs' = runs
           \/ pc = "flush" /\ runs' = [runs EXCEPT ![run].cursor = next]
    BY <1>2, SameRun
  <2>2. Len(runs') = Len(runs) /\ runs'[run].status = runs[run].status
    BY <1>0, <2>1, CursorWritten
  <2> QED
    BY <1>0, <2>1, <2>2 DEF RunInv, Runs
<1> QED
  BY <1>1, <1>2

\* Bounds are kept.
LEMMA BoundsStep == BoundTypes /\ [Next]_vars => BoundTypes'
<1> SUFFICES ASSUME BoundTypes, [Next]_vars PROVE BoundTypes'
  OBVIOUS
<1>0. MaxStarts \in Nat /\ MaxFaults \in Nat /\ MaxKills \in Nat /\ MaxGrowth \in Nat
  BY HunterConstants
<1>1. CASE UNCHANGED bounds
  BY <1>1 DEF bounds, BoundTypes
<1>2. CASE Fault /\ UNCHANGED <<starts, kills, growth>>
  BY <1>0, <1>2 DEF Fault, BoundTypes
<1>3. CASE NewAuthor
  BY <1>0, <1>3 DEF NewAuthor, BoundTypes
<1>4. CASE Start
  BY <1>0, <1>4 DEF Start, BoundTypes
<1>5. CASE Kill
  BY <1>0, <1>5 DEF Kill, BoundTypes
<1> QED
  BY <1>1, <1>2, <1>3, <1>4, <1>5
     DEF Next, vars, Task, Enumerate, Fetch, bounds, ProbeStart, ProbeEnd, ProbeFails, FetchPage,
         InvalidCursor, WalkEnds, FetchPageFails, SetCursor, ReadPubkeys, NextBatch, EndOfStream,
         BatchFetched, Fetched, TooLarge, FetchFails, Send, Join, MarkDone, Closed,
         Consumer, Consume, ConsumerEnds, Writer, WriterCommits, WriterFails

\* The task and its walk keep their types.
LEMMA WalkTypesStep == TypeOK /\ RunInv /\ [Next]_vars => WalkTypes'
<1> SUFFICES ASSUME TypeOK, RunInv, [Next]_vars PROVE WalkTypes'
  OBVIOUS
<1> DEFINE PCs == {"down", "probe", "page", "flush", "lastFlush", "endProbe", "read", "poll",
                   "request", "send", "join", "mark", "closing"}
           W == /\ pc \in PCs /\ limit \in Limits \cup {None}
                /\ after \in Cursors /\ next \in Cursors
                /\ count \in Nat /\ attempt \in 1 .. MaxAttempts
<1>0. W /\ run \in 0 .. Len(runs) /\ runs \in Seq(Row) /\ corpus \subseteq Keys
  BY DEF TypeOK, WalkTypes, DatabaseTypes
<1>a. MaxAttempts \in Nat \ {0} /\ 1 \in 1 .. MaxAttempts /\ None \in Cursors
  BY HunterConstants DEF Cursors
<1>b. Len(runs) \in Nat
  BY <1>0, LenProperties
<1>1. run' \in 0 .. Len(runs')
  <2>1. CASE ~Start
    BY <1>0, <1>b, <2>1, SameRows
  <2>2. CASE Start
    <3>1. CASE run' \in LatestUnfinished /\ runs' = runs
      BY <1>b, <3>1 DEF LatestUnfinished, Runs
    <3>2. CASE /\ run' = Len(runs) + 1
               /\ runs' = Append(runs, [status |-> "running", cursor |-> None])
      <4> DEFINE row == [status |-> "running", cursor |-> None]
      <4>1. row \in Row
        BY DEF Row, Cursors
      <4> HIDE DEF row
      <4>2. Len(runs') = Len(runs) + 1
        BY <1>0, <3>2, <4>1, AppendProperties DEF row
      <4> QED
        BY <1>b, <3>2, <4>2
    <3> QED
      BY <2>2, <3>1, <3>2 DEF Start
  <2> QED
    BY <2>1, <2>2
<1>2. SUFFICES W'
  BY <1>1 DEF WalkTypes
<1>3. CASE UNCHANGED <<pc, limit, after, next, count, attempt>>
  BY <1>0, <1>3
<1>4. CASE Leave
  BY <1>0, <1>a, <1>4 DEF Leave
<1>5. ASSUME NEW e, TryAgain(e) PROVE W'
  BY <1>0, <1>a, <1>5 DEF TryAgain
<1>6. ASSUME NEW b, StreamEnds(b) PROVE W'
  BY <1>0, <1>a, <1>6 DEF StreamEnds
<1>7. CASE Start
  <2>1. after' \in Cursors
    <3>0. \A r \in Runs : runs[r] \in Row
      BY <1>0, ElementOfSeq DEF Runs
    <3>1. \A r \in Runs : runs[r].cursor \in Cursors
      BY <3>0 DEF Row
    <3> QED
      BY <1>7, <1>a, <3>1 DEF Start, LatestUnfinished
  <2> QED
    BY <1>0, <1>a, <1>7, <2>1 DEF Start
<1>8. CASE ProbeStart \/ ProbeEnd
  BY <1>0, <1>a, <1>4, <1>5, <1>8 DEF ProbeStart, ProbeEnd, ProbeFails
<1>9. CASE FetchPage
  <2>1. CASE writer = "dead"
    BY <1>4, <1>9, <2>1 DEF FetchPage
  <2>2. CASE writer # "dead"
    <3>1. /\ next' = EndCursor(Page(after)) /\ count' = count + Cardinality(Page(after))
          /\ pc' = IF next' = None THEN "lastFlush" ELSE "flush"
          /\ attempt' = 1 /\ UNCHANGED <<limit, after>>
      BY <1>9, <2>2 DEF FetchPage
    <3>2. EndCursor(Page(after)) \in Cursors /\ Cardinality(Page(after)) \in Nat
      BY <1>0, PageProperties
    <3>3. next' \in Cursors /\ count' \in Nat
      BY <1>0, <3>1, <3>2
    <3> QED
      BY <1>0, <1>a, <3>1, <3>3
  <2> QED
    BY <2>1, <2>2
<1>10. CASE InvalidCursor \/ WalkEnds
  BY <1>0, <1>a, <1>10 DEF InvalidCursor, WalkEnds
<1>11. CASE FetchPageFails
  BY <1>4, <1>5, <1>11 DEF FetchPageFails
<1>12. CASE SetCursor
  BY <1>0, <1>a, <1>4, <1>12 DEF SetCursor
<1>13. CASE ReadPubkeys
  BY <1>0, <1>4, <1>13 DEF ReadPubkeys, walk
<1>14. CASE NextBatch \/ BatchFetched
  BY <1>0, <1>14 DEF NextBatch, BatchFetched, walk
<1>15. CASE EndOfStream \/ TooLarge \/ FetchFails
  <2>1. CASE EndOfStream
    BY <1>6, <2>1 DEF EndOfStream
  <2>2. CASE TooLarge
    BY <1>0, <1>a, <1>6, <2>2 DEF TooLarge
  <2>3. CASE FetchFails
    BY <1>5, <1>6, <2>3 DEF FetchFails
  <2> QED
    BY <1>15, <2>1, <2>2, <2>3
<1>16. CASE Fetched
  BY <1>0, <1>a, <1>16 DEF Fetched
<1>17. CASE Send
  BY <1>0, <1>6, <1>17 DEF Send, walk
<1>18. CASE Join \/ MarkDone
  BY <1>0, <1>4, <1>18 DEF Join, MarkDone, walk
<1>19. CASE Closed \/ Kill
  BY <1>0, <1>a, <1>19 DEF Closed, Kill, Gone, walk
<1>20. CASE NewAuthor \/ Consumer \/ Writer
  BY <1>3, <1>20 DEF NewAuthor, Consumer, Consume, ConsumerEnds, Writer, WriterCommits, WriterFails,
                     task, walk
<1> QED
  BY <1>3, <1>7, <1>8, <1>9, <1>10, <1>11, <1>12, <1>13, <1>14, <1>15, <1>16, <1>17, <1>18, <1>19, <1>20
     DEF Next, vars, Task, Enumerate, Fetch, task, walk

\* The parts of a request that was halved are together what it was.
LEMMA HalvesProperties ==
  ASSUME NEW S
  PROVE  \E A, B : Halves(S) = <<A, B>> /\ A \cup B = S
<1> DEFINE A == FirstN(S, Cardinality(S) \div 2)
<1>1. A \subseteq S
  BY DEF FirstN
<1> HIDE DEF A
<1>2. Halves(S) = <<A, S \ A>>
  BY DEF Halves, A
<1>3. A \cup (S \ A) = S
  BY <1>1
<1> QED
  BY <1>2, <1>3

\* All authors the requests still ask for.
Asked(rs) == UNION {rs[i] : i \in 1 .. Len(rs)}

\* A halved request asks for the same authors, and an answer for one request less.
LEMMA AskedProperties ==
  ASSUME requests \in Seq(SUBSET Keys), requests # <<>>
  PROVE  /\ Head(requests) \subseteq Keys /\ Tail(requests) \in Seq(SUBSET Keys)
         /\ Asked(requests) = Head(requests) \cup Asked(Tail(requests))
         /\ Halves(Head(requests)) \o Tail(requests) \in Seq(SUBSET Keys)
         /\ Asked(Halves(Head(requests)) \o Tail(requests)) = Asked(requests)
<1> DEFINE h == Head(requests)
           t == Tail(requests)
<1>1. h \subseteq Keys /\ t \in Seq(SUBSET Keys) /\ Len(t) = Len(requests) - 1
      /\ (\A i \in 1 .. Len(t) : t[i] = requests[i + 1]) /\ Len(requests) \in Nat \ {0}
      /\ h = requests[1]
  <2>1. Len(requests) \in Nat \ {0}
    BY EmptySeq
  <2>2. h = requests[1]
    BY <2>1
  <2>3. h \in SUBSET Keys /\ t \in Seq(SUBSET Keys) /\ Len(t) = Len(requests) - 1
        /\ (\A i \in 1 .. Len(t) : t[i] = requests[i + 1])
    BY HeadTailProperties
  <2> QED
    BY <2>1, <2>2, <2>3
<1> HIDE DEF h, t
<1>2. Asked(requests) = h \cup Asked(t)
  <2>1. ASSUME NEW x \in Asked(requests) PROVE x \in h \cup Asked(t)
    <3>1. PICK i \in 1 .. Len(requests) : x \in requests[i]
      BY DEF Asked
    <3>2. CASE i = 1
      BY <1>1, <3>1, <3>2
    <3>3. CASE i # 1
      <4>1. i - 1 \in 1 .. Len(t) /\ t[i - 1] = requests[i]
        BY <1>1, <3>3
      <4> QED
        BY <3>1, <4>1 DEF Asked
    <3> QED
      BY <3>2, <3>3
  <2>2. ASSUME NEW x \in h \cup Asked(t) PROVE x \in Asked(requests)
    <3>1. CASE x \in h
      <4>1. 1 \in 1 .. Len(requests)
        BY <1>1
      <4> QED
        BY <1>1, <3>1, <4>1 DEF Asked
    <3>2. CASE x \in Asked(t)
      <4>1. PICK i \in 1 .. Len(t) : x \in t[i]
        BY <3>2 DEF Asked
      <4>2. i + 1 \in 1 .. Len(requests) /\ t[i] = requests[i + 1]
        BY <1>1
      <4> QED
        BY <4>1, <4>2 DEF Asked
    <3> QED
      BY <2>2, <3>1, <3>2
  <2> QED
    BY <2>1, <2>2
<1>3. PICK A, B : Halves(h) = <<A, B>> /\ A \cup B = h
  BY HalvesProperties
<1> DEFINE ab == <<A, B>>
           q == ab \o t
<1>4. ab \in Seq(SUBSET Keys) /\ Len(ab) = 2 /\ ab[1] = A /\ ab[2] = B
  BY <1>1, <1>3
<1> HIDE DEF ab
<1>5. /\ q \in Seq(SUBSET Keys) /\ Len(q) = 2 + Len(t)
      /\ \A i \in 1 .. 2 + Len(t) : q[i] = IF i <= 2 THEN ab[i] ELSE t[i - 2]
  <2> DEFINE K == SUBSET Keys
  <2>1. ab \in Seq(K) /\ t \in Seq(K)
    BY <1>1, <1>4
  <2> HIDE DEF K
  <2>2. /\ ab \o t \in Seq(K) /\ Len(ab \o t) = Len(ab) + Len(t)
        /\ \A i \in 1 .. Len(ab) + Len(t) : (ab \o t)[i] =
               IF i <= Len(ab) THEN ab[i] ELSE t[i - Len(ab)]
    BY <2>1, ConcatProperties
  <2> QED
    BY <1>4, <2>2 DEF K
<1> HIDE DEF q
<1>6. Len(t) \in Nat
  BY <1>1
<1>7. Asked(q) = h \cup Asked(t)
  <2>1. ASSUME NEW x \in Asked(q) PROVE x \in h \cup Asked(t)
    <3>1. PICK i \in 1 .. Len(q) : x \in q[i]
      BY DEF Asked
    <3>2. CASE i = 1 \/ i = 2
      BY <1>3, <1>4, <1>5, <1>6, <3>1, <3>2
    <3>3. CASE i > 2
      <4>1. i - 2 \in 1 .. Len(t) /\ q[i] = t[i - 2]
        BY <1>5, <1>6, <3>3
      <4> QED
        BY <3>1, <4>1 DEF Asked
    <3> QED
      BY <1>5, <1>6, <3>2, <3>3
  <2>2. ASSUME NEW x \in h \cup Asked(t) PROVE x \in Asked(q)
    <3>1. CASE x \in h
      <4>1. 1 \in 1 .. Len(q) /\ 2 \in 1 .. Len(q) /\ q[1] = A /\ q[2] = B
        BY <1>4, <1>5, <1>6
      <4>2. x \in q[1] \/ x \in q[2]
        BY <1>3, <3>1, <4>1
      <4> QED
        BY <4>1, <4>2 DEF Asked
    <3>2. CASE x \in Asked(t)
      <4>1. PICK i \in 1 .. Len(t) : x \in t[i]
        BY <3>2 DEF Asked
      <4>2. i + 2 \in 1 .. Len(q) /\ q[i + 2] = t[i]
        BY <1>5, <1>6
      <4> QED
        BY <4>1, <4>2 DEF Asked
    <3> QED
      BY <2>2, <3>1, <3>2
  <2> QED
    BY <2>1, <2>2
<1>8. Halves(h) \o t = q
  BY <1>3 DEF q, ab
<1> QED
  <2>1. Halves(h) \o t \in Seq(SUBSET Keys) /\ Asked(Halves(h) \o t) = Asked(requests)
    BY <1>2, <1>5, <1>7, <1>8
  <2> QED
    BY <1>1, <1>2, <2>1 DEF h, t

\* The pipeline keeps its types.
LEMMA PipelineTypesStep == TypeOK /\ [Next]_vars => PipelineTypes'
<1> SUFFICES ASSUME TypeOK, [Next]_vars PROVE PipelineTypes'
  OBVIOUS
<1>0. PipelineTypes /\ pubkeys \subseteq Keys
  BY DEF TypeOK, DatabaseTypes
<1>a. <<>> \in Seq(SUBSET Keys)
  OBVIOUS
<1>1. CASE UNCHANGED pipeline
  BY <1>0, <1>1 DEF pipeline, PipelineTypes
<1>2. ASSUME todo' = {}, batch' = {}, requests' = <<>>, groups' = {}, sending' = {},
             failed' \in BOOLEAN
      PROVE  PipelineTypes'
  BY <1>a, <1>2 DEF PipelineTypes
<1>3. CASE Leave \/ Kill
  BY <1>2, <1>3 DEF Leave, Kill
<1>4. ASSUME NEW b \in BOOLEAN, StreamEnds(b) PROVE PipelineTypes'
  BY <1>2, <1>4 DEF StreamEnds
<1>5. TRUE \in BOOLEAN /\ FALSE \in BOOLEAN
  OBVIOUS
<1>6. CASE NextBatch
  <2>1. batch' \subseteq todo /\ todo' \subseteq todo
    BY <1>6 DEF NextBatch, FirstN
  <2>2. batch' \in SUBSET Keys
    BY <1>0, <2>1 DEF PipelineTypes
  <2>3. requests' = <<batch'>>
    BY <1>6 DEF NextBatch
  <2>4. requests' \in Seq(SUBSET Keys)
    BY <2>2, <2>3
  <2> QED
    BY <1>0, <1>6, <2>1, <2>2, <2>4 DEF NextBatch, PipelineTypes
<1>7. CASE BatchFetched
  <2>1. sending' \subseteq Input
    BY <1>0, <1>7 DEF BatchFetched, MatchGroups, PipelineTypes, Input
  <2> QED
    BY <1>0, <1>7, <2>1 DEF BatchFetched, PipelineTypes
<1>8. CASE Fetched
  BY <1>0, <1>8, AskedProperties DEF Fetched, PipelineTypes
<1>9. CASE TooLarge
  <2>1. CASE Cardinality(Head(requests)) > 1
    <3>1. requests' = Halves(Head(requests)) \o Tail(requests) /\ requests # <<>>
          /\ UNCHANGED <<todo, batch, groups, sending, failed>>
      BY <1>9, <2>1 DEF TooLarge
    <3>2. requests' \in Seq(SUBSET Keys)
      BY <1>0, <3>1, AskedProperties DEF PipelineTypes
    <3> QED
      BY <1>0, <3>1, <3>2 DEF PipelineTypes
  <2>2. CASE ~(Cardinality(Head(requests)) > 1)
    BY <1>4, <1>5, <1>9, <2>2 DEF TooLarge
  <2> QED
    BY <2>1, <2>2
<1>10. CASE EndOfStream
  BY <1>4, <1>5, <1>10 DEF EndOfStream
<1>11. CASE FetchFails
  BY <1>1, <1>4, <1>5, <1>11 DEF FetchFails, TryAgain
<1>12. CASE Send
  <2>1. CASE StreamEnds(FALSE)
    BY <1>4, <1>5, <2>1
  <2>2. CASE sending' \subseteq sending /\ UNCHANGED <<todo, batch, requests, groups, failed>>
    BY <1>0, <2>2 DEF PipelineTypes
  <2> QED
    BY <1>12, <2>1, <2>2 DEF Send, pipeline
<1>13. CASE ReadPubkeys
  BY <1>0, <1>3, <1>13 DEF ReadPubkeys, PipelineTypes
<1>14. CASE Enumerate
  BY <1>1, <1>3, <1>14 DEF Enumerate, ProbeStart, ProbeEnd, ProbeFails, TryAgain, FetchPage,
         InvalidCursor, WalkEnds, FetchPageFails, SetCursor
<1>15. CASE Join \/ MarkDone \/ Closed
  BY <1>1, <1>3, <1>15 DEF Join, MarkDone, Closed
<1> QED
  BY <1>1, <1>3, <1>6, <1>7, <1>8, <1>9, <1>10, <1>11, <1>12, <1>13, <1>14, <1>15
     DEF Next, vars, Task, Fetch, task, NewAuthor, Start, Consumer, Consume, ConsumerEnds, Writer,
         WriterCommits, WriterFails

\* What is left of a queue when its first n members are taken.
LEMMA DropProperties ==
  ASSUME NEW S, NEW q \in Seq(S), NEW n \in 1 .. Len(q), NEW d, d = SubSeq(q, n + 1, Len(q))
  PROVE  /\ d \in Seq(S) /\ Len(d) = Len(q) - n /\ Len(q) \in Nat
         /\ \A i \in 1 .. Len(d) : d[i] = q[n + i]
<1>1. Len(q) \in Nat /\ \A i \in 1 .. Len(q) : q[i] \in S
  BY LenProperties, ElementOfSeq
<1> DEFINE m == n + 1
           l == Len(q)
<1>2. m \in Int /\ l \in Int /\ \A i \in m .. l : q[i] \in S
  BY <1>1
<1>3. d = SubSeq(q, m, l)
  OBVIOUS
<1> HIDE DEF m, l
<1> DEFINE e == SubSeq(q, m, l)
<1>4. /\ e \in Seq(S) /\ Len(e) = (IF m <= l THEN l - m + 1 ELSE 0)
      /\ \A i \in 1 .. l - m + 1 : e[i] = q[m + i - 1]
  BY <1>2, SubSeqProperties
<1> HIDE DEF e
<1>5. l - m + 1 = Len(q) - n /\ Len(q) - n \in Nat
      /\ (IF m <= l THEN l - m + 1 ELSE 0) = Len(q) - n
  BY <1>1 DEF m, l
<1>6. \A i \in 1 .. Len(q) - n : m + i - 1 = n + i
  BY <1>1 DEF m
<1>7. Len(e) = Len(q) - n
  BY <1>4, <1>5
<1>8. \A i \in 1 .. Len(e) : e[i] = q[n + i]
  BY <1>4, <1>5, <1>6, <1>7
<1> QED
  BY <1>1, <1>3, <1>4, <1>7, <1>8 DEF e

\* The threads keep theirs; the channel never holds more than its capacity.
LEMMA ThreadTypesStep == TypeOK /\ [Next]_vars => ThreadTypes'
<1> SUFFICES ASSUME TypeOK, [Next]_vars PROVE ThreadTypes'
  OBVIOUS
<1>0. /\ ThreadTypes /\ run \in Nat /\ corpus \subseteq Keys /\ after \in Cursors
      /\ sending \subseteq Input
  <2>1. Len(runs) \in Nat
    BY LenProperties DEF TypeOK, DatabaseTypes
  <2> QED
    BY <2>1 DEF TypeOK, DatabaseTypes, WalkTypes, PipelineTypes
<1>a. /\ <<>> \in Seq(Input) /\ <<>> \in Seq(Message) /\ Len(<<>>) = 0 /\ ChannelCap \in Nat \ {0}
      /\ TRUE \in BOOLEAN /\ FALSE \in BOOLEAN
  BY HunterConstants
<1>1. CASE UNCHANGED threads
  BY <1>0, <1>1 DEF threads, ThreadTypes
<1>2. CASE Gone
  <2>1. /\ chan' = <<>> /\ txOpen' = FALSE /\ consumer' = "none" /\ wq' = <<>> /\ writer' = "none"
    BY <1>2 DEF Gone
  <2>2. txOpen' \in BOOLEAN
    BY <2>1, Zenon
  <2>3. chan' \in Seq(Input) /\ wq' \in Seq(Message) /\ Len(chan') <= ChannelCap
    BY <1>a, <2>1
  <2> QED
    BY <2>1, <2>2, <2>3 DEF ThreadTypes
<1>3. CASE Start
  BY <1>0, <1>3 DEF Start, ThreadTypes
<1>4. CASE FetchPage
  <2>1. UNCHANGED <<chan, txOpen, consumer, writer>>
    BY <1>4 DEF FetchPage
  <2>2. CASE UNCHANGED wq
    BY <1>0, <2>1, <2>2 DEF ThreadTypes
  <2>3. CASE Enqueue(<<Pubkeys(Page(after)), Flush>>)
    <3> DEFINE ms == <<Pubkeys(Page(after)), Flush>>
    <3>1. Page(after) \in SUBSET Keys
      BY <1>0, PageProperties
    <3>2. Pubkeys(Page(after)) \in Message /\ Flush \in Message
      BY <3>1, MessageTypes
    <3>3. ms \in Seq(Message)
      BY <3>2
    <3>4. wq' = wq \o ms
      BY <2>3 DEF Enqueue
    <3> HIDE DEF ms
    <3>5. wq' \in Seq(Message)
      BY <1>0, <3>3, <3>4, ConcatProperties DEF ThreadTypes
    <3> QED
      BY <1>0, <2>1, <3>5 DEF ThreadTypes
  <2> QED
    BY <1>4, <2>2, <2>3 DEF FetchPage
<1>5. CASE ReadPubkeys
  BY <1>0, <1>a, <1>5 DEF ReadPubkeys, ThreadTypes
<1>6. CASE EndOfStream \/ TooLarge \/ FetchFails
  <2>1. UNCHANGED <<chan, consumer, wq, writer>>
    BY <1>6 DEF EndOfStream, TooLarge, FetchFails
  <2>2. txOpen' = txOpen \/ txOpen' = FALSE
    BY <1>6 DEF EndOfStream, TooLarge, FetchFails, StreamEnds, DropSender
  <2>3. txOpen' \in BOOLEAN
    BY <1>0, <2>2, Zenon DEF ThreadTypes
  <2> QED
    BY <1>0, <2>1, <2>3 DEF ThreadTypes
<1>7. CASE Send
  <2>1. UNCHANGED <<consumer, wq, writer>>
    BY <1>7 DEF Send
  <2>2. txOpen' = txOpen \/ txOpen' = FALSE
    BY <1>7 DEF Send, StreamEnds, DropSender
  <2>3. txOpen' \in BOOLEAN
    BY <1>0, <2>2, Zenon DEF ThreadTypes
  <2>4. chan' = chan \/ (HasRoom /\ \E x \in sending : chan' = Append(chan, x))
    BY <1>7 DEF Send
  <2>5. chan' \in Seq(Input) /\ Len(chan') <= ChannelCap
    <3>1. CASE chan' = chan
      BY <1>0, <3>1 DEF ThreadTypes
    <3>2. CASE HasRoom /\ \E x \in sending : chan' = Append(chan, x)
      <4>1. PICK x \in Input : chan' = Append(chan, x)
        BY <1>0, <3>2
      <4>2. chan' \in Seq(Input) /\ Len(chan') = Len(chan) + 1 /\ Len(chan) \in Nat
        BY <1>0, <4>1, AppendProperties, LenProperties DEF ThreadTypes
      <4> QED
        BY <1>a, <3>2, <4>2 DEF HasRoom
    <3> QED
      BY <2>4, <3>1, <3>2
  <2> QED
    BY <1>0, <2>1, <2>3, <2>5 DEF ThreadTypes
<1>8. CASE Consume
  <2>0. UNCHANGED <<txOpen, writer>> /\ chan # <<>> /\ chan \in Seq(Input)
    BY <1>0, <1>8 DEF Consume, ThreadTypes
  <2>1. CASE consumer' = "panicked" /\ chan' = <<>> /\ UNCHANGED wq
    BY <1>0, <1>a, <2>0, <2>1 DEF ThreadTypes
  <2>2. CASE /\ Enqueue(<<ScoreOf([run |-> run, key |-> Head(chan).key, posts |-> Head(chan).posts])>>)
             /\ chan' = Tail(chan) /\ UNCHANGED consumer
    <3> DEFINE m == ScoreOf([run |-> run, key |-> Head(chan).key, posts |-> Head(chan).posts])
               ms == <<m>>
    <3>1. Head(chan) \in Input /\ Tail(chan) \in Seq(Input) /\ Len(Tail(chan)) = Len(chan) - 1
          /\ Len(chan) \in Nat
      BY <2>0, HeadTailProperties, LenProperties
    <3>2. m \in Message
      BY <1>0, <3>1, MessageTypes
    <3>3. wq' = wq \o ms
      BY <2>2 DEF Enqueue
    <3> HIDE DEF m
    <3>4. ms \in Seq(Message)
      BY <3>2
    <3> HIDE DEF ms
    <3>5. wq' \in Seq(Message)
      BY <1>0, <3>3, <3>4, ConcatProperties DEF ThreadTypes
    <3>6. Len(chan') <= ChannelCap
      BY <1>0, <1>a, <2>2, <3>1 DEF ThreadTypes
    <3> QED
      BY <1>0, <2>0, <2>2, <3>1, <3>5, <3>6 DEF ThreadTypes
  <2> QED
    BY <1>8, <2>1, <2>2 DEF Consume
<1>9. CASE ConsumerEnds
  BY <1>0, <1>9 DEF ConsumerEnds, ThreadTypes
<1>10. CASE WriterCommits \/ WriterFails
  <2>1. UNCHANGED <<chan, txOpen, consumer>> /\ writer' \in {"none", "alive", "dead"}
    BY <1>0, <1>10 DEF WriterCommits, WriterFails, ThreadTypes
  <2>2. PICK n \in 1 .. Len(wq) : wq' = SubSeq(wq, n + 1, Len(wq)) \/ wq' = <<>>
    BY <1>10 DEF WriterCommits, WriterFails
  <2>3. wq' \in Seq(Message)
    BY <1>0, <1>a, <2>2, DropProperties DEF ThreadTypes
  <2> QED
    BY <1>0, <2>1, <2>3 DEF ThreadTypes
<1>11. CASE Kill \/ Closed
  BY <1>2, <1>11 DEF Kill, Closed
<1> QED
  BY <1>1, <1>3, <1>4, <1>5, <1>6, <1>7, <1>8, <1>9, <1>10, <1>11
     DEF Next, vars, Task, Enumerate, Fetch, Consumer, Writer, ProbeStart, ProbeEnd,
         InvalidCursor, WalkEnds, FetchPageFails, SetCursor, NextBatch,
         BatchFetched, Fetched, Join, MarkDone, NewAuthor

\* All of them together.
LEMMA TypesStep == TypeOK /\ RunInv /\ [Next]_vars => TypeOK' /\ RunInv'
  BY DatabaseStep, WalkTypesStep, PipelineTypesStep, ThreadTypesStep, BoundsStep, RunStep DEF TypeOK

-----------------------------------------------------------------------------
(* The walk                                                                *)

\* What a step does to the rows of the table and to what is known of their runs:
\* each of the fields has one writer, and a start adds a row.
LEMMA TableStep ==
  ASSUME TypeOK, RunInv, [Next]_vars
  PROVE  /\ Runs \subseteq Runs'
         /\ \A r \in Runs :
              /\ runs'[r].cursor = runs[r].cursor
                 \/ (SetCursor /\ r = run /\ runs'[r].cursor = next)
              /\ runs'[r].status = runs[r].status
                 \/ (FetchPageFails /\ runs'[r].status = "aborted")
                 \/ (MarkDone /\ r = run /\ runs'[r].status = "done")
              /\ hist'[r].basis = hist[r].basis
              /\ hist'[r].whole = hist[r].whole \/ (FetchPage /\ r = run)
              /\ hist'[r].plan = hist[r].plan
                 \/ (ReadPubkeys /\ r = run /\ hist'[r].plan = pubkeys)
         /\ \A r \in Runs' \ Runs :
              /\ runs'[r].status = "running" /\ runs'[r].cursor = None
              /\ hist'[r].basis = corpus
<1>0. /\ runs \in Seq(Row) /\ hist \in Seq(History) /\ Len(hist) = Len(runs) /\ next \in Cursors
      /\ pubkeys \subseteq Keys /\ Len(runs) \in Nat /\ (Active => run \in 1 .. Len(runs))
  <2>1. runs \in Seq(Row)
    BY DEF TypeOK, DatabaseTypes
  <2> QED
    BY <2>1, LenProperties DEF TypeOK, DatabaseTypes, WalkTypes, History, RunInv, Runs
<1>1. CASE UNCHANGED <<runs, hist>>
  BY <1>1 DEF Runs
<1>2. CASE Start /\ ~UNCHANGED <<runs, hist>>
  <2> DEFINE row == [status |-> "running", cursor |-> None]
             h == [basis |-> corpus, whole |-> FALSE, plan |-> {}]
  <2>1. runs' = Append(runs, row) /\ hist' = Append(hist, h)
    BY <1>2 DEF Start
  <2>2. row \in Row /\ h \in History
    BY DEF Row, History, Cursors, TypeOK, DatabaseTypes
  <2>3. row.status = "running" /\ row.cursor = None /\ h.basis = corpus
    OBVIOUS
  <2> HIDE DEF row, h
  <2>4. /\ Len(runs') = Len(runs) + 1 /\ runs'[Len(runs) + 1] = row
        /\ \A r \in 1 .. Len(runs) : runs'[r] = runs[r]
    BY <1>0, <2>1, <2>2, AppendProperties
  <2>5. /\ hist'[Len(runs) + 1] = h
        /\ \A r \in 1 .. Len(runs) : hist'[r] = hist[r]
    BY <1>0, <2>1, <2>2, AppendProperties
  <2>6. Runs \subseteq Runs' /\ \A r \in Runs' \ Runs : r = Len(runs) + 1
    BY <1>0, <2>4 DEF Runs
  <2> QED
    BY <2>3, <2>4, <2>5, <2>6 DEF Runs
<1>3. CASE SetCursor
  <2>1. hist' = hist /\ Active /\ (runs' = runs \/ runs' = [runs EXCEPT ![run].cursor = next])
    BY <1>3 DEF SetCursor, Active
  <2>2. Len(runs') = Len(runs) /\ \A r \in 1 .. Len(runs) :
          /\ runs'[r].status = runs[r].status
          /\ runs'[r].cursor = runs[r].cursor \/ (r = run /\ runs'[r].cursor = next)
    BY <1>0, <2>1, CursorWritten
  <2> QED
    BY <1>3, <2>1, <2>2 DEF Runs
<1>4. CASE FetchPageFails
  <2>1. hist' = hist /\ Active /\ (runs' = runs \/ runs' = [runs EXCEPT ![run].status = "aborted"])
    BY <1>4 DEF FetchPageFails, Active
  <2>2. Len(runs') = Len(runs) /\ \A r \in 1 .. Len(runs) :
          /\ runs'[r].cursor = runs[r].cursor
          /\ runs'[r].status = runs[r].status \/ runs'[r].status = "aborted"
    BY <1>0, <2>1, StatusWritten
  <2> QED
    BY <1>4, <2>1, <2>2 DEF Runs
<1>5. CASE MarkDone
  <2>1. hist' = hist /\ Active /\ (runs' = runs \/ runs' = [runs EXCEPT ![run].status = "done"])
    BY <1>5 DEF MarkDone, Active
  <2>2. Len(runs') = Len(runs) /\ \A r \in 1 .. Len(runs) :
          /\ runs'[r].cursor = runs[r].cursor
          /\ runs'[r].status = runs[r].status \/ (r = run /\ runs'[r].status = "done")
    BY <1>0, <2>1, StatusWritten
  <2> QED
    BY <1>5, <2>1, <2>2 DEF Runs
<1>6. CASE FetchPage
  <2> DEFINE b == (next' = None)
  <2>1. runs' = runs /\ Active /\ (hist' = hist \/ hist' = [hist EXCEPT ![run].whole = b])
    BY <1>6 DEF FetchPage, Active, database
  <2>2. b \in BOOLEAN /\ run \in 1 .. Len(hist)
    BY <1>0, <2>1
  <2> HIDE DEF b
  <2>3. \A r \in 1 .. Len(hist) :
          /\ hist'[r].basis = hist[r].basis /\ hist'[r].plan = hist[r].plan
          /\ hist'[r].whole = hist[r].whole \/ r = run
    BY <1>0, <2>1, <2>2, WholeWritten
  <2> QED
    BY <1>0, <1>6, <2>1, <2>3 DEF Runs
<1>7. CASE ReadPubkeys
  <2> DEFINE P == pubkeys
  <2>1. runs' = runs /\ Active /\ (hist' = hist \/ hist' = WithPlan(run, P))
    BY <1>7 DEF ReadPubkeys, Active, database, WithPlan
  <2>2. P \subseteq Keys /\ run \in 1 .. Len(hist)
    BY <1>0, <2>1
  <2> HIDE DEF P
  <2>3. \A r \in 1 .. Len(hist) :
          /\ hist'[r].basis = hist[r].basis /\ hist'[r].whole = hist[r].whole
          /\ hist'[r].plan = hist[r].plan \/ (r = run /\ hist'[r].plan = P)
    BY <1>0, <2>1, <2>2, PlanWritten
  <2> QED
    BY <1>0, <1>7, <2>1, <2>3 DEF Runs, P
<1> QED
  BY <1>1, <1>2, <1>3, <1>4, <1>5, <1>6, <1>7
     DEF Next, vars, database, Task, Enumerate, Fetch, Consumer, Writer, ProbeStart, ProbeEnd,
         InvalidCursor, WalkEnds, NextBatch, EndOfStream, BatchFetched, Fetched, TooLarge,
         FetchFails, Send, Consume, ConsumerEnds, Join, Closed, Kill, NewAuthor, WriterCommits,
         WriterFails

\* What a step does to the writer's queue: messages are put in at its end, taken from its
\* front or lost with the process.
Puts(ms) ==
    /\ writer = "alive" /\ ms \in Seq(Message) /\ wq' = wq \o ms
    /\ UNCHANGED <<pubkeys, scores, writer, lost>>

\* Every step does one of these to the queue.
LEMMA QueueStep ==
  ASSUME TypeOK, [Next]_vars
  PROVE  \/ UNCHANGED <<pubkeys, scores, wq, lost>> /\ (writer' = writer \/ writer' = "alive")
         \/ (FetchPage /\ Puts(<<Pubkeys(Page(after)), Flush>>))
         \/ (Consume /\ Puts(<<ScoreOf([run |-> run, key |-> Head(chan).key,
                                        posts |-> Head(chan).posts])>>))
         \/ WriterCommits \/ WriterFails \/ Kill \/ Closed
<1>0. /\ corpus \subseteq Keys /\ after \in Cursors /\ chan \in Seq(Input) /\ run \in Nat
  <2>1. Len(runs) \in Nat
    BY LenProperties DEF TypeOK, DatabaseTypes
  <2> QED
    BY <2>1 DEF TypeOK, DatabaseTypes, WalkTypes, ThreadTypes
<1>1. CASE FetchPage
  <2>1. CASE Enqueue(<<Pubkeys(Page(after)), Flush>>)
    <3>1. Page(after) \in SUBSET Keys
      BY <1>0, PageProperties
    <3>2. Pubkeys(Page(after)) \in Message /\ Flush \in Message
      BY <3>1, MessageTypes
    <3>3. <<Pubkeys(Page(after)), Flush>> \in Seq(Message)
      BY <3>2
    <3> QED
      BY <1>1, <2>1, <3>3 DEF FetchPage, Enqueue, Puts, database
  <2>2. CASE UNCHANGED wq
    BY <1>1, <2>2 DEF FetchPage, database
  <2> QED
    BY <1>1, <2>1, <2>2 DEF FetchPage
<1>2. CASE Consume
  <2> DEFINE m == ScoreOf([run |-> run, key |-> Head(chan).key, posts |-> Head(chan).posts])
  <2>1. CASE Enqueue(<<m>>)
    <3>1. Head(chan) \in Input
      BY <1>0, <1>2, HeadTailProperties DEF Consume
    <3>2. m \in Message
      BY <1>0, <3>1, MessageTypes
    <3> HIDE DEF m
    <3>3. <<m>> \in Seq(Message)
      BY <3>2
    <3>4. Puts(<<m>>)
      BY <1>2, <2>1, <3>3 DEF Consume, Enqueue, Puts, database
    <3> QED
      BY <1>2, <3>4 DEF m
  <2>2. CASE UNCHANGED wq
    BY <1>2, <2>2 DEF Consume, database
  <2> QED
    BY <1>2, <2>1, <2>2 DEF Consume
<1> QED
  BY <1>1, <1>2
     DEF Next, vars, database, threads, Task, Enumerate, Fetch, Consumer, Writer, ProbeStart, ProbeEnd,
         InvalidCursor, WalkEnds, FetchPageFails, SetCursor, ReadPubkeys, NextBatch, EndOfStream,
         BatchFetched, Fetched, TooLarge, FetchFails, Send, ConsumerEnds, Join, MarkDone,
         NewAuthor, Start

\* What was stored or lost stays so.
LEMMA StoredGrows ==
  ASSUME TypeOK, [Next]_vars
  PROVE  Stored \subseteq Stored'
<1>1. pubkeys \subseteq pubkeys'
  <2>1. CASE WriterCommits
    BY <2>1 DEF WriterCommits
  <2>2. CASE pubkeys' = pubkeys
    BY <2>2
  <2> QED
    BY <2>1, <2>2, QueueStep DEF Puts, WriterFails, Kill, Closed, database
<1>2. lost \subseteq lost'
  BY QueueStep DEF Puts, WriterCommits, WriterFails, Kill, Closed
<1> QED
  BY <1>1, <1>2 DEF Stored

\* A pubkey on its way to the tables stays there as long as the process lives: it
\* is taken out of the queue by a transaction, which commits it or loses it.
LEMMA SecuredStays ==
  ASSUME TypeOK, [Next]_vars, Active', NEW k, Secured(k)
  PROVE  Secured(k)'
<1>0. wq \in Seq(Message) /\ Len(wq) \in Nat
  <2>1. wq \in Seq(Message)
    BY DEF TypeOK, ThreadTypes
  <2> QED
    BY <2>1, LenProperties
<1>1. CASE k \in Stored
  BY <1>1, StoredGrows DEF Secured
<1>2. ASSUME NEW i \in 1 .. Len(wq), NEW j \in 1 .. Len(wq), i < j, k \in wq[i].pubkeys, wq[j].flush
      PROVE  Secured(k)'
  <2>1. CASE wq' = wq
    BY <1>2, <2>1 DEF Secured, Ahead
  <2>2. ASSUME NEW ms, Puts(ms) PROVE Secured(k)'
    <3>1. wq' = wq \o ms /\ ms \in Seq(Message)
      BY <2>2 DEF Puts
    <3>2. Len(ms) \in Nat
      BY <3>1, LenProperties
    <3>3. Len(wq') = Len(wq) + Len(ms) /\ \A l \in 1 .. Len(wq) : wq'[l] = wq[l]
      BY <1>0, <3>1, <3>2, ConcatProperties
    <3>4. i \in 1 .. Len(wq') /\ j \in 1 .. Len(wq')
      BY <1>0, <3>2, <3>3
    <3> QED
      BY <1>2, <3>3, <3>4 DEF Secured, Ahead
  <2>3. CASE WriterCommits
    <3>1. PICK n \in 1 .. Len(wq) :
            /\ pubkeys' = pubkeys \cup UNION {m.pubkeys : m \in {wq[l] : l \in 1 .. n}}
            /\ wq' = SubSeq(wq, n + 1, Len(wq))
      BY <2>3 DEF WriterCommits
    <3>2. Len(wq') = Len(wq) - n /\ \A l \in 1 .. Len(wq') : wq'[l] = wq[n + l]
      BY <1>0, <3>1, DropProperties
    <3>3. CASE i <= n
      <4>1. i \in 1 .. n
        BY <1>0, <3>3
      <4>2. k \in pubkeys'
        BY <1>2, <3>1, <4>1
      <4> QED
        BY <4>2 DEF Secured, Stored
    <3>4. CASE ~(i <= n)
      <4>1. i - n \in 1 .. Len(wq') /\ j - n \in 1 .. Len(wq') /\ i - n < j - n
            /\ n + (i - n) = i /\ n + (j - n) = j
        BY <1>0, <1>2, <3>2, <3>4
      <4>2. wq'[i - n] = wq[i] /\ wq'[j - n] = wq[j]
        BY <3>2, <4>1
      <4> QED
        BY <1>2, <4>1, <4>2 DEF Secured, Ahead
    <3> QED
      BY <3>3, <3>4
  <2>4. CASE WriterFails
    <3>1. wq[i] \in lost'
      BY <2>4 DEF WriterFails
    <3> QED
      BY <1>2, <3>1 DEF Secured, Stored
  <2>5. CASE Kill \/ Closed
    BY <2>5 DEF Kill, Closed, Gone, Active
  <2> QED
    BY <2>1, <2>2, <2>3, <2>4, <2>5, QueueStep
<1> QED
  BY <1>1, <1>2 DEF Secured, Ahead

\* When a flush has returned everything ahead of it is in the tables, or lost.
LEMMA FlushedIsStored ==
  ASSUME FlushReturns, NEW k, Secured(k)
  PROVE  k \in Stored
  BY DEF FlushReturns, Secured, Ahead

LatePcs == {"endProbe", "read", "poll", "request", "send", "join", "mark"}

\* Where the walk goes in a step.
LEMMA WalkMoves ==
  ASSUME [Next]_vars, Active', ~Start
  PROVE  \/ UNCHANGED <<pc, after, next>>
         \/ pc = "probe" /\ pc' = "page" /\ UNCHANGED after
         \/ FetchPage /\ writer # "dead"
         \/ InvalidCursor \/ SetCursor \/ WalkEnds
         \/ pc \in LatePcs /\ pc' \in LatePcs
<1>1. CASE Leave \/ Gone
  BY <1>1 DEF Leave, Gone, Active
<1>2. CASE ProbeStart \/ ProbeEnd
  BY <1>1, <1>2 DEF ProbeStart, ProbeEnd, ProbeFails, TryAgain, LatePcs
<1>3. CASE FetchPage \/ FetchPageFails
  BY <1>1, <1>3 DEF FetchPage, FetchPageFails, TryAgain
<1>4. CASE ReadPubkeys \/ NextBatch \/ EndOfStream \/ BatchFetched
  BY <1>1, <1>4 DEF ReadPubkeys, NextBatch, EndOfStream, BatchFetched, StreamEnds, LatePcs
<1>5. CASE Fetched \/ TooLarge \/ FetchFails \/ Send
  BY <1>5 DEF Fetched, TooLarge, FetchFails, Send, StreamEnds, TryAgain, LatePcs, walk
<1>6. CASE Join \/ MarkDone \/ Closed \/ Kill
  BY <1>1, <1>6 DEF Join, MarkDone, Closed, Kill, LatePcs
<1>7. CASE NewAuthor \/ Consumer \/ Writer
  BY <1>7 DEF NewAuthor, Consumer, Consume, ConsumerEnds, Writer, WriterCommits, WriterFails,
              task, walk
<1> QED
  BY <1>2, <1>3, <1>4, <1>5, <1>6, <1>7 DEF Next, vars, Task, Enumerate, Fetch, task, walk

\* The index never loses an author, and the basis of a run lies in it.
LEMMA BasisStep ==
  ASSUME TypeOK, RunInv, [Next]_vars, \A r \in Runs : hist[r].basis \subseteq corpus
  PROVE  \A r \in Runs' : hist'[r].basis \subseteq corpus'
<1>1. corpus \subseteq corpus'
  BY DEF Next, vars, Task, Enumerate, Fetch, Consumer, Writer, ProbeStart, ProbeEnd, FetchPage,
         InvalidCursor, WalkEnds, FetchPageFails, SetCursor, ReadPubkeys, NextBatch, EndOfStream,
         BatchFetched, Fetched, TooLarge, FetchFails, Send, Consume, ConsumerEnds, Join, MarkDone,
         Closed, Kill, NewAuthor, Start, WriterCommits, WriterFails
<1> QED
  BY <1>1, TableStep

\* No step makes a run pass an author that is not stored: the cursor moves after
\* the flush, and a run is done after its last one.
LEMMA NoneSkippedStep ==
  ASSUME TypeOK, RunInv, WalkInv, [Next]_vars
  PROVE  NoneSkipped'
<1> SUFFICES ASSUME NEW r \in Runs', NEW k \in Walked(r)' PROVE k \in Stored'
  BY DEF NoneSkipped, Stored
<1>0. Stored \subseteq Stored'
  BY StoredGrows
<1>1. /\ k \in hist'[r].basis
      /\ \/ runs'[r].status = "done" /\ hist'[r].whole
         \/ runs'[r].cursor # None /\ k <= runs'[r].cursor
  BY DEF Walked
<1>2. r \in Runs /\ hist'[r].basis = hist[r].basis
  BY <1>1, TableStep
<1>3. \A j \in Walked(r) : j \in Stored
  BY <1>2 DEF WalkInv, NoneSkipped, Stored
<1>4. CASE runs'[r].status = "done" /\ hist'[r].whole
  <2>1. CASE MarkDone /\ r = run
    <3>1. pc = "mark" /\ ~FetchPage
      BY <2>1 DEF MarkDone, FetchPage
    <3>2. hist[r].whole
      BY <1>2, <1>4, <3>1, TableStep
    <3>3. hist[run].basis \subseteq Stored
      BY <2>1, <3>1, <3>2 DEF WalkInv
    <3> QED
      BY <1>0, <1>1, <1>2, <2>1, <3>3
  <2>2. CASE runs[r].status = "done"
    <3>1. ~(FetchPage /\ r = run)
      BY <2>2 DEF FetchPage, RunInv, Active
    <3>2. hist[r].whole
      BY <1>2, <1>4, <3>1, TableStep
    <3>3. k \in Walked(r)
      BY <1>1, <1>2, <2>2, <3>2 DEF Walked
    <3> QED
      BY <1>0, <1>3, <3>3
  <2> QED
    BY <1>2, <1>4, <2>1, <2>2, TableStep
<1>5. CASE runs'[r].cursor # None /\ k <= runs'[r].cursor
  <2>1. CASE SetCursor /\ r = run /\ runs'[r].cursor = next
    <3>1. pc = "flush" /\ FlushReturns
      BY <2>1 DEF SetCursor
    <3>2. Secured(k)
      BY <1>1, <1>2, <1>5, <2>1, <3>1 DEF WalkInv
    <3> QED
      BY <1>0, <3>1, <3>2, FlushedIsStored
  <2>2. CASE runs'[r].cursor = runs[r].cursor
    <3>1. k \in Walked(r)
      BY <1>1, <1>2, <1>5, <2>2 DEF Walked
    <3> QED
      BY <1>0, <1>3, <3>1
  <2> QED
    BY <1>2, <2>1, <2>2, TableStep
<1> QED
  BY <1>1, <1>4, <1>5

\* A page and its flush secure the authors of the run up to the end cursor, and all
\* of them when there is none.
LEMMA PageSecures ==
  ASSUME TypeOK, RunInv, WalkInv, [Next]_vars, FetchPage, writer # "dead"
  PROVE  /\ pc' = (IF next' = None THEN "lastFlush" ELSE "flush") /\ run' = run
         /\ hist'[run].whole = (next' = None)
         /\ \A k \in hist'[run].basis : next' = None \/ k <= next' => Secured(k)'
<1>0. /\ corpus \subseteq Keys /\ after \in Cursors /\ wq \in Seq(Message) /\ Len(wq) \in Nat
      /\ hist \in Seq(History) /\ Len(hist) = Len(runs) /\ pc = "page" /\ run \in 1 .. Len(hist)
  <2>1. wq \in Seq(Message) /\ pc = "page"
    BY DEF TypeOK, ThreadTypes, FetchPage
  <2> QED
    BY <2>1, LenProperties DEF TypeOK, DatabaseTypes, WalkTypes, History, RunInv, Active, Runs
<1> DEFINE page == Page(after)
           p == Pubkeys(page)
           ms == <<p, Flush>>
           b == (next' = None)
<1>1. /\ next' = EndCursor(page) /\ run' = run /\ pc' = IF next' = None THEN "lastFlush" ELSE "flush"
      /\ hist' = [hist EXCEPT ![run].whole = b]
  BY DEF FetchPage
<1>2. wq' = wq \o ms
  BY DEF FetchPage, Enqueue
<1>3. b \in BOOLEAN
  BY Zenon
<1>4. hist'[run].whole = b /\ hist'[run].basis = hist[run].basis
  <2> HIDE DEF b
  <2> QED
    BY <1>0, <1>1, <1>3, WholeWritten
<1>5. p.pubkeys = page /\ Flush.flush = TRUE
  BY DEF Pubkeys, Flush
<1>6. page \in SUBSET Keys
  BY <1>0, PageProperties
<1>7. p \in Message /\ Flush \in Message
  BY <1>6, MessageTypes
<1>8. \A k \in corpus : (after = None \/ k > after) /\ (next' = None \/ k <= next') => k \in page
  BY <1>0, <1>1, PageProperties
<1> HIDE DEF page, p
<1>9. ms \in Seq(Message) /\ Len(ms) = 2 /\ ms[1] = p /\ ms[2] = Flush
  BY <1>7
<1> HIDE DEF ms
<1>10. Len(wq') = Len(wq) + 2 /\ wq'[Len(wq) + 1] = p /\ wq'[Len(wq) + 2] = Flush
  <2>1. /\ Len(wq') = Len(wq) + Len(ms)
        /\ \A i \in 1 .. Len(wq) + Len(ms) : wq'[i] =
              IF i <= Len(wq) THEN wq[i] ELSE ms[i - Len(wq)]
    <3>1. wq \in Seq(Message) /\ ms \in Seq(Message)
      BY <1>0, <1>9
    <3>2. /\ Len(wq \o ms) = Len(wq) + Len(ms)
          /\ \A i \in 1 .. Len(wq) + Len(ms) : (wq \o ms)[i] =
                IF i <= Len(wq) THEN wq[i] ELSE ms[i - Len(wq)]
      BY <3>1, ConcatProperties
    <3> QED
      BY <1>2, <3>2
  <2>2. /\ Len(wq) + 1 \in 1 .. Len(wq) + 2 /\ Len(wq) + 2 \in 1 .. Len(wq) + 2
        /\ ~(Len(wq) + 1 <= Len(wq)) /\ ~(Len(wq) + 2 <= Len(wq))
        /\ (Len(wq) + 1) - Len(wq) = 1 /\ (Len(wq) + 2) - Len(wq) = 2
    BY <1>0
  <2> QED
    BY <1>9, <2>1, <2>2
<1>11. ASSUME NEW k \in hist[run].basis, next' = None \/ k <= next'
       PROVE  Secured(k)'
  <2>1. k \in corpus /\ k \in Nat
    <3>1. hist[run].basis \subseteq corpus
      BY <1>0 DEF WalkInv, Runs
    <3> QED
      BY <1>0, <3>1, HunterConstants
  <2>2. CASE after = None \/ k > after
    <3>1. k \in p.pubkeys
      BY <1>5, <1>8, <1>11, <2>1, <2>2
    <3>2. Len(wq) + 1 \in 1 .. Len(wq') /\ Len(wq) + 2 \in 1 .. Len(wq') /\ Len(wq) + 1 < Len(wq) + 2
      BY <1>0, <1>10
    <3>3. wq'[Len(wq) + 2].flush
      BY <1>5, <1>10
    <3> QED
      BY <1>10, <3>1, <3>2, <3>3 DEF Secured, Ahead
  <2>3. CASE after # None /\ ~(k > after)
    <3>1. after = runs[run].cursor /\ after \in Nat /\ k <= after
      BY <1>0, <2>1, <2>3, HunterConstants DEF WalkInv, Cursors
    <3>2. k \in Walked(run) /\ run \in Runs
      BY <1>0, <1>11, <2>3, <3>1 DEF Walked, Runs
    <3>3. k \in Stored
      BY <3>2 DEF WalkInv, NoneSkipped, Stored
    <3> QED
      BY <3>3, StoredGrows DEF Secured
  <2> QED
    BY <2>2, <2>3
<1> QED
  BY <1>1, <1>4, <1>11

\* Every step keeps the invariant of the walk.
LEMMA WalkStep == TypeOK /\ RunInv /\ WalkInv /\ [Next]_vars => WalkInv'
<1> SUFFICES ASSUME TypeOK, RunInv, WalkInv, [Next]_vars PROVE WalkInv'
  OBVIOUS
<1> DEFINE At == pc \in {"probe", "page", "flush"} => after = None \/ after = runs[run].cursor
           InFlush == pc = "flush" => /\ next # None /\ ~hist[run].whole
                                      /\ \A k \in hist[run].basis : k <= next => Secured(k)
           InLast == pc = "lastFlush" /\ hist[run].whole => \A k \in hist[run].basis : Secured(k)
           InLate == pc \in LatePcs /\ hist[run].whole => hist[run].basis \subseteq Stored
<1>0. At /\ InFlush /\ InLast /\ InLate
  BY DEF WalkInv, LatePcs
<1>a. (\A r \in Runs' : hist'[r].basis \subseteq corpus') /\ NoneSkipped'
  BY BasisStep, NoneSkippedStep DEF WalkInv
<1>1. SUFFICES At' /\ InFlush' /\ InLast' /\ InLate'
  BY <1>a DEF WalkInv, LatePcs
<1>b. Stored \subseteq Stored'
  BY StoredGrows
<1>2. CASE ~Active'
  BY <1>2 DEF Active, LatePcs
<1>3. CASE Start
  <2>1. pc' = "probe"
    BY <1>3 DEF Start
  <2>2. after' = None \/ after' = runs'[run'].cursor
    BY <1>3 DEF Start
  <2> QED
    BY <2>1, <2>2 DEF LatePcs
<1>4. CASE Active' /\ ~Start
  <2>0. Active /\ run' = run /\ run \in Runs
    BY <1>4, SameRun DEF RunInv
  <2>1. hist'[run'].basis = hist[run].basis
    BY <2>0, TableStep
  <2>2. \A k \in hist[run].basis : Secured(k) => Secured(k)'
    BY <1>4, SecuredStays
  <2>3. ASSUME ~FetchPage PROVE hist'[run'].whole = hist[run].whole
    BY <2>0, <2>3, TableStep
  <2>4. ASSUME ~SetCursor PROVE runs'[run'].cursor = runs[run].cursor
    BY <2>0, <2>4, TableStep
  <2>5. CASE FetchPage /\ writer # "dead"
    <3>1. /\ pc' = (IF next' = None THEN "lastFlush" ELSE "flush")
          /\ hist'[run].whole = (next' = None)
          /\ \A k \in hist'[run].basis : next' = None \/ k <= next' => Secured(k)'
      BY <2>5, PageSecures
    <3>2. after' = after /\ pc = "page"
      BY <2>5 DEF FetchPage
    <3>3. ~SetCursor
      BY <3>2 DEF SetCursor
    <3>4. after' = None \/ after' = runs'[run'].cursor
      BY <1>0, <2>4, <3>2, <3>3
    <3>5. CASE next' = None
      BY <2>0, <3>1, <3>5 DEF LatePcs
    <3>6. CASE next' # None
      BY <2>0, <3>1, <3>4, <3>6 DEF LatePcs
    <3> QED
      BY <3>5, <3>6
  <2>6. CASE SetCursor
    <3>1. /\ pc = "flush" /\ after' = next /\ pc' \in {"page", "lastFlush"}
          /\ runs' = [runs EXCEPT ![run].cursor = next] /\ ~FetchPage
      BY <1>4, <2>6 DEF SetCursor, Leave, Active, FetchPage
    <3>2. runs'[run].cursor = next
      BY <2>0, <3>1, CursorWritten DEF TypeOK, DatabaseTypes, WalkTypes, Runs
    <3>3. ~hist'[run'].whole
      BY <1>0, <2>3, <3>1
    <3> QED
      BY <2>0, <3>1, <3>2, <3>3 DEF LatePcs
  <2>7. CASE InvalidCursor
    BY <2>7 DEF InvalidCursor, LatePcs
  <2>8. CASE WalkEnds
    <3>1. pc = "lastFlush" /\ pc' = "endProbe" /\ FlushReturns /\ ~FetchPage
      BY <2>8 DEF WalkEnds, FetchPage
    <3>2. hist[run].whole => hist[run].basis \subseteq Stored
      BY <1>0, <3>1, FlushedIsStored
    <3> QED
      BY <1>b, <2>1, <2>3, <3>1, <3>2
  <2>9. CASE pc \in LatePcs /\ pc' \in LatePcs
    <3>1. ~FetchPage
      BY <2>9 DEF FetchPage, LatePcs
    <3> QED
      BY <1>0, <1>b, <2>1, <2>3, <2>9, <3>1 DEF LatePcs
  <2>10. CASE pc = "probe" /\ pc' = "page" /\ UNCHANGED after
    <3>1. ~SetCursor
      BY <2>10 DEF SetCursor
    <3> QED
      BY <1>0, <2>4, <2>10, <3>1 DEF LatePcs
  <2>11. CASE UNCHANGED <<pc, after, next>>
    <3>1. ~SetCursor
      BY <2>11, <1>4 DEF SetCursor, Leave
    <3>2. ~FetchPage
      BY <2>11, <1>4 DEF FetchPage, Leave
    <3>3. hist'[run'].whole = hist[run].whole /\ runs'[run'].cursor = runs[run].cursor
      BY <2>3, <2>4, <3>1, <3>2
    <3> QED
      BY <1>0, <1>b, <2>1, <2>2, <2>11, <3>3
  <2> QED
    BY <1>4, <2>5, <2>6, <2>7, <2>8, <2>9, <2>10, <2>11, WalkMoves
<1> QED
  BY <1>2, <1>3, <1>4

-----------------------------------------------------------------------------
(* The pipeline                                                            *)

\* Every message in the queue was there or was put in.
LEMMA QueueMembers ==
  ASSUME TypeOK, [Next]_vars, NEW i \in 1 .. Len(wq')
  PROVE  \/ \E j \in 1 .. Len(wq) : wq'[i] = wq[j]
         \/ FetchPage /\ writer' = "alive" /\ wq'[i] \in {Pubkeys(Page(after)), Flush}
         \/ Consume /\ writer' = "alive" /\
            wq'[i] = ScoreOf([run |-> run, key |-> Head(chan).key, posts |-> Head(chan).posts])
<1>0. wq \in Seq(Message) /\ Len(wq) \in Nat
  <2>1. wq \in Seq(Message)
    BY DEF TypeOK, ThreadTypes
  <2> QED
    BY <2>1, LenProperties
<1>1. CASE wq' = wq
  BY <1>1
<1>2. ASSUME NEW ms, Puts(ms)
      PROVE  /\ writer' = "alive"
             /\ \/ \E j \in 1 .. Len(wq) : wq'[i] = wq[j]
                \/ \E j \in 1 .. Len(ms) : wq'[i] = ms[j]
  <2>1. wq' = wq \o ms /\ ms \in Seq(Message) /\ writer' = "alive"
    BY <1>2 DEF Puts
  <2>2. Len(ms) \in Nat
    BY <2>1, LenProperties
  <2>3. /\ Len(wq \o ms) = Len(wq) + Len(ms)
        /\ \A l \in 1 .. Len(wq) + Len(ms) : (wq \o ms)[l] =
              IF l <= Len(wq) THEN wq[l] ELSE ms[l - Len(wq)]
    BY <1>0, <2>1, ConcatProperties
  <2>4. CASE i <= Len(wq)
    <3>1. i \in 1 .. Len(wq) /\ wq'[i] = wq[i]
      BY <1>0, <2>1, <2>2, <2>3, <2>4
    <3> QED
      BY <2>1, <3>1
  <2>5. CASE ~(i <= Len(wq))
    <3>1. i - Len(wq) \in 1 .. Len(ms) /\ wq'[i] = ms[i - Len(wq)]
      BY <1>0, <2>1, <2>2, <2>3, <2>5
    <3> QED
      BY <2>1, <3>1
  <2> QED
    BY <2>4, <2>5
<1>3. CASE FetchPage /\ Puts(<<Pubkeys(Page(after)), Flush>>)
  <2> DEFINE ms == <<Pubkeys(Page(after)), Flush>>
  <2>1. Len(ms) = 2 /\ \A j \in 1 .. 2 : ms[j] \in {Pubkeys(Page(after)), Flush}
    OBVIOUS
  <2>2. FetchPage /\ Puts(ms)
    BY <1>3
  <2> HIDE DEF ms
  <2> QED
    BY <1>2, <2>1, <2>2
<1>4. CASE Consume /\ Puts(<<ScoreOf([run |-> run, key |-> Head(chan).key,
                                      posts |-> Head(chan).posts])>>)
  <2> DEFINE m == ScoreOf([run |-> run, key |-> Head(chan).key, posts |-> Head(chan).posts])
             ms == <<m>>
  <2>2. Consume /\ Puts(ms)
    BY <1>4
  <2> HIDE DEF m
  <2>1. Len(ms) = 1 /\ \A j \in 1 .. 1 : ms[j] = m
    OBVIOUS
  <2> HIDE DEF ms
  <2>3. (\E j \in 1 .. Len(wq) : wq'[i] = wq[j]) \/ (writer' = "alive" /\ wq'[i] = m)
    BY <1>2, <2>1, <2>2
  <2> QED
    BY <2>2, <2>3 DEF m
<1>5. CASE WriterCommits \/ WriterFails
  <2>1. PICK n \in 1 .. Len(wq) : wq' = SubSeq(wq, n + 1, Len(wq)) \/ wq' = <<>>
    BY <1>5 DEF WriterCommits, WriterFails
  <2>2. CASE wq' = <<>>
    BY <2>2
  <2>3. CASE wq' = SubSeq(wq, n + 1, Len(wq))
    <3>1. Len(wq') = Len(wq) - n /\ wq'[i] = wq[n + i]
      BY <1>0, <2>3, DropProperties
    <3>2. n + i \in 1 .. Len(wq)
      BY <1>0, <3>1
    <3> QED
      BY <3>1, <3>2
  <2> QED
    BY <2>1, <2>2, <2>3
<1>6. CASE Kill \/ Closed
  <2>1. wq' = <<>>
    BY <1>6 DEF Kill, Closed, Gone
  <2> QED
    BY <2>1
<1> QED
  BY <1>1, <1>3, <1>4, <1>5, <1>6, QueueStep

\* A writer that dies takes the queue with it.
LEMMA DeadStep == TypeOK /\ DeadInv /\ [Next]_vars => DeadInv'
<1> SUFFICES ASSUME TypeOK, DeadInv, [Next]_vars, writer' = "dead", NEW i \in 1 .. Len(wq')
             PROVE  wq'[i] \in lost'
  BY DEF DeadInv
<1>1. PICK j \in 1 .. Len(wq) : wq'[i] = wq[j]
  BY QueueMembers
<1>2. CASE WriterFails
  BY <1>1, <1>2 DEF WriterFails
<1>3. CASE writer = "dead" /\ lost' = lost
  BY <1>1, <1>3 DEF DeadInv
<1> QED
  BY <1>2, <1>3, QueueStep DEF Puts, WriterCommits, Kill, Closed, Gone

\* Every row is computed from the events of its own author, in the queue and in the
\* tables.
LEMMA RowsGenuine ==
  ASSUME TypeOK, GenuineInv, [Next]_vars
  PROVE  /\ \A s \in scores' : Genuine(s)
         /\ \A i \in 1 .. Len(wq') : \A s \in wq'[i].scores : Genuine(s)
<1>1. ASSUME NEW i \in 1 .. Len(wq'), NEW s \in wq'[i].scores PROVE Genuine(s)
  <2>1. CASE \E j \in 1 .. Len(wq) : wq'[i] = wq[j]
    BY <1>1, <2>1 DEF GenuineInv
  <2>2. CASE wq'[i] \in {Pubkeys(Page(after)), Flush}
    <3>1. wq'[i].scores = {}
      BY <2>2 DEF Pubkeys, Flush
    <3> QED
      BY <1>1, <3>1
  <2>3. CASE Consume /\ wq'[i] = ScoreOf([run |-> run, key |-> Head(chan).key,
                                          posts |-> Head(chan).posts])
    <3>1. s = [run |-> run, key |-> Head(chan).key, posts |-> Head(chan).posts]
      BY <1>1, <2>3 DEF ScoreOf
    <3>2. s.key = Head(chan).key /\ s.posts = Head(chan).posts
      BY <3>1
    <3>3. Head(chan) = chan[1] /\ 1 \in 1 .. Len(chan)
      BY <2>3 DEF Consume, TypeOK, ThreadTypes
    <3>4. Genuine(Head(chan))
      BY <3>3 DEF GenuineInv
    <3> QED
      BY <3>2, <3>4 DEF Genuine
  <2> QED
    BY <2>1, <2>2, <2>3, QueueMembers
<1>2. ASSUME NEW s \in scores' PROVE Genuine(s)
  <2>1. CASE scores' = scores
    BY <1>2, <2>1 DEF GenuineInv
  <2>2. CASE WriterCommits
    <3>1. PICK n \in 1 .. Len(wq) : scores' = Upsert(UNION {m.scores : m \in {wq[l] : l \in 1 .. n}})
      BY <2>2 DEF WriterCommits
    <3>2. s \in scores \/ \E l \in 1 .. n : s \in wq[l].scores
      BY <1>2, <3>1 DEF Upsert
    <3>3. Len(wq) \in Nat
      BY LenProperties DEF TypeOK, ThreadTypes
    <3>4. \A l \in 1 .. n : l \in 1 .. Len(wq)
      BY <3>3
    <3> QED
      BY <3>2, <3>4 DEF GenuineInv
  <2> QED
    BY <2>1, <2>2, QueueStep DEF Puts, WriterFails, Kill, Closed, database
<1> QED
  BY <1>1, <1>2

\* The invariant of the data in the pipeline.
LEMMA GenuineStep == TypeOK /\ GenuineInv /\ [Next]_vars => GenuineInv'
<1> SUFFICES ASSUME TypeOK, GenuineInv, [Next]_vars PROVE GenuineInv'
  OBVIOUS
<1>0. /\ chan \in Seq(Input) /\ Len(chan) \in Nat /\ requests \in Seq(SUBSET Keys)
      /\ sending \subseteq Input
  <2>1. chan \in Seq(Input)
    BY DEF TypeOK, ThreadTypes
  <2> QED
    BY <2>1, LenProperties DEF TypeOK, PipelineTypes
<1> DEFINE Chan == \A i \in 1 .. Len(chan) : Genuine(chan[i])
           Parts == /\ \A x \in sending : Genuine(x)
                    /\ groups \subseteq Posting
                    /\ pc = "request" => batch \cap Posting \subseteq groups \cup Asked(requests)
<1>a. Chan /\ Parts
  BY DEF GenuineInv, Asked
<1>b. SUFFICES Chan' /\ Parts'
  BY RowsGenuine DEF GenuineInv, Asked, Genuine
<1>1. Chan'
  <2>1. CASE chan' = chan
    BY <1>a, <2>1 DEF Genuine
  <2>2. CASE Send
    <3>1. CASE \E x \in sending : chan' = Append(chan, x)
      <4>1. PICK x \in sending : chan' = Append(chan, x)
        BY <3>1
      <4>2. /\ Len(chan') = Len(chan) + 1 /\ chan'[Len(chan) + 1] = x
            /\ \A i \in 1 .. Len(chan) : chan'[i] = chan[i]
        BY <1>0, <4>1, AppendProperties
      <4>3. ASSUME NEW i \in 1 .. Len(chan') PROVE Genuine(chan'[i])
        <5>1. i \in 1 .. Len(chan) \/ i = Len(chan) + 1
          BY <1>0, <4>2
        <5> QED
          BY <1>a, <4>2, <5>1
      <4> QED
        BY <4>3 DEF Genuine
    <3> QED
      BY <2>1, <2>2, <3>1 DEF Send
  <2>3. CASE Consume
    <3>1. CASE chan' = <<>>
      BY <3>1
    <3>2. CASE chan' = Tail(chan)
      <4>1. chan # <<>>
        BY <2>3 DEF Consume
      <4>2. Len(Tail(chan)) = Len(chan) - 1 /\ \A i \in 1 .. Len(Tail(chan)) : Tail(chan)[i] = chan[i + 1]
        BY <1>0, <4>1, HeadTailProperties
      <4>3. ASSUME NEW i \in 1 .. Len(chan') PROVE Genuine(chan'[i])
        <5>1. i + 1 \in 1 .. Len(chan) /\ chan'[i] = chan[i + 1]
          BY <1>0, <3>2, <4>2
        <5> QED
          BY <1>a, <5>1
      <4> QED
        BY <4>3 DEF Genuine
    <3> QED
      BY <2>3, <3>1, <3>2 DEF Consume
  <2>4. CASE Kill \/ Closed
    <3>1. chan' = <<>>
      BY <2>4 DEF Kill, Closed, Gone
    <3> QED
      BY <3>1
  <2> QED
    BY <2>1, <2>2, <2>3, <2>4
       DEF Next, vars, threads, Task, Enumerate, Fetch, Consumer, Writer, ProbeStart, ProbeEnd, FetchPage,
         InvalidCursor, WalkEnds, FetchPageFails, SetCursor, ReadPubkeys, NextBatch, EndOfStream,
         BatchFetched, Fetched, TooLarge, FetchFails, ConsumerEnds, Join, MarkDone,
         NewAuthor, Start, WriterCommits, WriterFails
<1>2. Parts'
  <2>1. CASE UNCHANGED <<sending, groups, batch, requests>> /\ (pc' = pc \/ pc' # "request")
    BY <1>a, <2>1 DEF Genuine
  <2>2. CASE sending' \subseteq sending /\ groups' \subseteq groups /\ pc' # "request"
    BY <1>a, <2>2 DEF Genuine
  <2>3. CASE Leave \/ Kill
    BY <2>2, <2>3 DEF Leave, Kill, Gone
  <2>4. ASSUME NEW b, StreamEnds(b) PROVE Parts'
    BY <2>2, <2>4 DEF StreamEnds
  <2>5. CASE NextBatch
    <3>1. requests' = <<batch'>> /\ UNCHANGED <<sending, groups>>
      BY <2>5 DEF NextBatch
    <3>2. Len(requests') = 1 /\ requests'[1] = batch' /\ 1 \in 1 .. Len(requests')
      BY <3>1
    <3>3. batch' \subseteq Asked(requests')
      BY <3>2 DEF Asked
    <3> QED
      BY <1>a, <3>1, <3>3 DEF Genuine
  <2>6. CASE BatchFetched
    <3>1. pc = "request" /\ requests = <<>> /\ pc' = "send" /\ groups' = {} /\ sending' = MatchGroups
      BY <2>6 DEF BatchFetched
    <3>2. Asked(requests) = {}
      BY <3>1 DEF Asked
    <3>3. batch \cap Posting \subseteq groups /\ groups \subseteq Posting
      BY <1>a, <3>1, <3>2
    <3>4. \A x \in MatchGroups : Genuine(x)
      BY <3>3 DEF MatchGroups, Genuine
    <3> QED
      BY <3>1, <3>4 DEF Genuine
  <2>7. CASE Fetched
    <3>1. /\ requests # <<>> /\ pc = "request" /\ groups' = groups \cup (Head(requests) \cap Posting)
          /\ requests' = Tail(requests) /\ UNCHANGED <<batch, sending>>
      BY <2>7 DEF Fetched
    <3>2. Asked(requests) = Head(requests) \cup Asked(Tail(requests))
      BY <1>0, <3>1, AskedProperties
    <3> QED
      BY <1>a, <3>1, <3>2 DEF Genuine
  <2>8. CASE TooLarge
    <3>1. CASE /\ requests' = Halves(Head(requests)) \o Tail(requests)
               /\ UNCHANGED <<pc, batch, groups, sending>>
      <4>1. Asked(requests') = Asked(requests)
        BY <1>0, <2>8, <3>1, AskedProperties DEF TooLarge
      <4> QED
        BY <1>a, <3>1, <4>1 DEF Genuine
    <3> QED
      BY <2>4, <2>8, <3>1 DEF TooLarge
  <2>9. CASE FetchFails \/ EndOfStream
    BY <2>1, <2>4, <2>9 DEF FetchFails, EndOfStream, TryAgain, pipeline
  <2>10. CASE Send
    <3>1. CASE sending' \subseteq sending /\ groups' = groups /\ pc = "send" /\ pc' \in {"send", "poll"}
      BY <2>2, <3>1
    <3> QED
      BY <2>4, <2>10, <3>1 DEF Send, pipeline
  <2>11. CASE Enumerate \/ ReadPubkeys
    BY <2>1, <2>3, <2>11 DEF Enumerate, ProbeStart, ProbeEnd, ProbeFails, TryAgain, FetchPage,
         InvalidCursor, WalkEnds, FetchPageFails, SetCursor, ReadPubkeys, pipeline
  <2>12. CASE Join \/ MarkDone \/ Closed
    BY <2>1, <2>3, <2>12 DEF Join, MarkDone, Closed, Gone, pipeline
  <2>13. CASE NewAuthor \/ Start \/ Consumer \/ Writer
    BY <2>1, <2>13 DEF NewAuthor, Start, Consumer, Consume, ConsumerEnds, Writer, WriterCommits,
         WriterFails, task, pipeline
  <2> QED
    BY <2>1, <2>3, <2>5, <2>6, <2>7, <2>8, <2>9, <2>10, <2>11, <2>12, <2>13
       DEF Next, vars, Task, Fetch, task, pipeline
<1> QED
  BY <1>1, <1>2

\* Every stage is empty when the task has gone on, and the consumer outlives the
\* sender it reads from.
LEMMA StageStep == TypeOK /\ StageInv /\ [Next]_vars => StageInv'
<1> SUFFICES ASSUME TypeOK, StageInv, [Next]_vars PROVE StageInv'
  OBVIOUS
<1> DEFINE Busy == {"poll", "request", "send"}
<1>0. txOpen \in BOOLEAN /\ failed \in BOOLEAN
  BY DEF TypeOK, ThreadTypes, PipelineTypes
<1>1. CASE UNCHANGED <<pc, todo, batch, sending, failed, txOpen, consumer, chan>>
  BY <1>1 DEF StageInv
<1>2. CASE /\ pc \notin Busy \cup {"join", "mark"} /\ pc' \notin Busy \cup {"join", "mark"}
           /\ UNCHANGED <<todo, batch, sending, failed, txOpen, consumer, chan>>
  BY <1>2 DEF StageInv
<1>3. CASE /\ Leave /\ UNCHANGED <<txOpen, consumer, chan>>
           /\ pc \notin Busy /\ consumer # "recv"
  BY <1>3 DEF Leave, StageInv
<1>4. CASE Gone /\ todo' = {} /\ batch' = {} /\ sending' = {} /\ failed' = FALSE
  BY <1>4 DEF Gone, StageInv
<1>5. ASSUME pc \in Busy, NEW b \in BOOLEAN, StreamEnds(b), UNCHANGED <<consumer, chan>>
      PROVE  StageInv'
  BY <1>5 DEF StreamEnds, DropSender, StageInv
<1>6. CASE ProbeStart \/ ProbeEnd
  BY <1>1, <1>2, <1>3, <1>6 DEF ProbeStart, ProbeEnd, ProbeFails, TryAgain, StageInv, threads, pipeline
<1>7. CASE FetchPage \/ InvalidCursor \/ FetchPageFails \/ SetCursor \/ WalkEnds
  BY <1>1, <1>2, <1>3, <1>7 DEF FetchPage, InvalidCursor, FetchPageFails, SetCursor, WalkEnds, TryAgain,
       StageInv, threads, pipeline
<1>8. CASE ReadPubkeys
  <2>1. pc = "read" /\ UNCHANGED chan
    BY <1>8 DEF ReadPubkeys
  <2>2. CASE /\ txOpen' = TRUE /\ consumer' = "recv" /\ pc' = "poll"
             /\ UNCHANGED <<batch, sending, failed>>
    BY <2>1, <2>2 DEF StageInv
  <2> QED
    BY <1>3, <1>8, <2>1, <2>2 DEF ReadPubkeys, StageInv
<1>9. CASE NextBatch \/ BatchFetched \/ Fetched
  BY <1>9 DEF NextBatch, BatchFetched, Fetched, StageInv, threads
<1>10. CASE EndOfStream \/ TooLarge \/ FetchFails
  BY <1>1, <1>5, <1>10 DEF EndOfStream, TooLarge, FetchFails, TryAgain, pipeline
<1>11. CASE Send
  <2>1. pc = "send" /\ UNCHANGED consumer
    BY <1>11 DEF Send
  <2>2. CASE consumer = "recv" /\ UNCHANGED <<pc, todo, batch, failed, txOpen>>
    BY <2>1, <2>2 DEF StageInv
  <2>3. CASE sending = {} /\ pc' = "poll" /\ UNCHANGED <<pipeline, chan, txOpen>>
    BY <2>1, <2>3 DEF StageInv, pipeline
  <2>4. CASE StreamEnds(FALSE) /\ UNCHANGED chan
    BY <1>5, <2>1, <2>4
  <2> QED
    BY <1>11, <2>2, <2>3, <2>4 DEF Send, walk
<1>12. CASE Consume
  BY <1>12 DEF Consume, StageInv, task, pipeline
<1>13. CASE ConsumerEnds
  BY <1>13 DEF ConsumerEnds, StageInv, task, pipeline
<1>14. CASE Join \/ MarkDone
  <2>1. CASE Join /\ pc' = "mark" /\ UNCHANGED pipeline
    <3>1. ~failed /\ consumer = "ended" /\ pc = "join" /\ UNCHANGED threads
      BY <2>1 DEF Join, Leave
    <3> QED
      BY <2>1, <3>1 DEF StageInv, threads, pipeline
  <2>2. CASE pc \in {"join", "mark"} /\ consumer # "recv" /\ Leave /\ UNCHANGED threads
    BY <1>3, <2>2 DEF threads
  <2>3. CASE Join
    BY <2>1, <2>2, <2>3 DEF Join
  <2>4. CASE MarkDone
    <3>1. consumer = "ended"
      BY <2>4 DEF MarkDone, StageInv
    <3> QED
      BY <2>2, <2>4, <3>1 DEF MarkDone
  <2> QED
    BY <1>14, <2>3, <2>4
<1>15. CASE Closed \/ Kill
  <2>1. CASE Closed
    <3>1. pc = "closing" /\ Gone /\ UNCHANGED pipeline
      BY <2>1 DEF Closed
    <3>2. ~failed
      BY <3>1 DEF StageInv
    <3>3. failed' = FALSE
      BY <1>0, <3>1, <3>2, Zenon DEF pipeline
    <3> QED
      BY <1>4, <3>1, <3>3 DEF pipeline, StageInv
  <2> QED
    BY <1>4, <1>15, <2>1 DEF Kill
<1>16. CASE NewAuthor \/ Start \/ Writer
  BY <1>1, <1>2, <1>16 DEF NewAuthor, Start, Writer, WriterCommits, WriterFails, task, threads, pipeline
<1> QED
  BY <1>1, <1>6, <1>7, <1>8, <1>9, <1>10, <1>11, <1>12, <1>13, <1>14, <1>15, <1>16
     DEF Next, vars, task, threads, pipeline, Task, Enumerate, Fetch, Consumer

\* A row is in a table, in the queue or in a message that was lost.
LEMMA RowsMembers ==
  ASSUME NEW s
  PROVE  s \in Rows <=> \/ s \in scores
                        \/ \E i \in 1 .. Len(wq) : s \in wq[i].scores
                        \/ \E m \in lost : s \in m.scores
<1>1. s \in UNION {wq[i].scores : i \in 1 .. Len(wq)} <=> \E i \in 1 .. Len(wq) : s \in wq[i].scores
  OBVIOUS
<1>2. s \in UNION {m.scores : m \in lost} <=> \E m \in lost : s \in m.scores
  OBVIOUS
<1> QED
  BY <1>1, <1>2 DEF Rows

\* A row that was handed to the writer stays on its way, or a later one of the same
\* run and pubkey takes its place.
LEMMA RowsStay ==
  ASSUME TypeOK, DeadInv, GenuineInv, [Next]_vars, NEW s \in Rows, Genuine(s)
  PROVE  \E t \in Rows' : t.run = s.run /\ t.key = s.key /\ Genuine(t)
<1>0. wq \in Seq(Message) /\ Len(wq) \in Nat
  <2>1. wq \in Seq(Message)
    BY DEF TypeOK, ThreadTypes
  <2> QED
    BY <2>1, LenProperties
<1>1. \/ s \in scores
      \/ \E i \in 1 .. Len(wq) : s \in wq[i].scores
      \/ \E m \in lost : s \in m.scores
  BY RowsMembers
<1>2. \A t : (\/ t \in scores'
              \/ \E i \in 1 .. Len(wq') : t \in wq'[i].scores
              \/ \E m \in lost' : t \in m.scores) => t \in Rows'
  <2> SUFFICES ASSUME NEW t, \/ t \in scores'
                             \/ \E i \in 1 .. Len(wq') : t \in wq'[i].scores
                             \/ \E m \in lost' : t \in m.scores
               PROVE  t \in Rows'
    OBVIOUS
  <2>1. (\E i \in 1 .. Len(wq') : t \in wq'[i].scores)
           => t \in UNION {wq'[i].scores : i \in 1 .. Len(wq')}
    OBVIOUS
  <2>2. (\E m \in lost' : t \in m.scores) => t \in UNION {m.scores : m \in lost'}
    OBVIOUS
  <2> QED
    BY <2>1, <2>2 DEF Rows
<1>3. lost \subseteq lost'
  BY QueueStep DEF Puts, WriterCommits, WriterFails, Kill, Closed
<1>4. CASE UNCHANGED <<scores, wq, lost>>
  BY <1>1, <1>2, <1>4
<1>5. ASSUME NEW ms, Puts(ms) PROVE s \in Rows'
  <2>1. wq' = wq \o ms /\ ms \in Seq(Message) /\ scores' = scores
    BY <1>5 DEF Puts
  <2>2. Len(ms) \in Nat
    BY <2>1, LenProperties
  <2>3. /\ Len(wq \o ms) = Len(wq) + Len(ms)
        /\ \A l \in 1 .. Len(wq) + Len(ms) : (wq \o ms)[l] =
              IF l <= Len(wq) THEN wq[l] ELSE ms[l - Len(wq)]
    BY <1>0, <2>1, ConcatProperties
  <2>4. \A i \in 1 .. Len(wq) : i \in 1 .. Len(wq') /\ wq'[i] = wq[i]
    BY <1>0, <2>1, <2>2, <2>3
  <2> QED
    BY <1>1, <1>2, <1>3, <2>1, <2>4
<1>6. CASE FetchPage /\ Puts(<<Pubkeys(Page(after)), Flush>>)
  BY <1>5, <1>6
<1>7. CASE Consume /\ Puts(<<ScoreOf([run |-> run, key |-> Head(chan).key,
                                      posts |-> Head(chan).posts])>>)
  BY <1>5, <1>7
<1>8. CASE WriterCommits
  <2> DEFINE new(n) == UNION {m.scores : m \in {wq[i] : i \in 1 .. n}}
  <2>1. PICK n \in 1 .. Len(wq) : scores' = Upsert(new(n)) /\ wq' = SubSeq(wq, n + 1, Len(wq))
    BY <1>8 DEF WriterCommits
  <2>2. /\ \A t \in new(n) : t \in scores' /\ Genuine(t)
        /\ \A i \in 1 .. n : wq[i].scores \subseteq new(n)
    <3>1. \A i \in 1 .. n : i \in 1 .. Len(wq)
      BY <1>0
    <3> QED
      BY <2>1, <3>1 DEF Upsert, GenuineInv
  <2>3. /\ Len(wq') = Len(wq) - n
        /\ \A i \in 1 .. Len(wq') : wq'[i] = wq[n + i]
    BY <1>0, <2>1, DropProperties
  <2> HIDE DEF new
  <2>4. CASE s \in scores
    <3>1. CASE \E t \in new(n) : t.run = s.run /\ t.key = s.key
      BY <1>2, <2>2, <3>1
    <3>2. CASE ~\E t \in new(n) : t.run = s.run /\ t.key = s.key
      <4>1. s \in scores'
        BY <2>1, <2>4, <3>2 DEF Upsert
      <4> QED
        BY <1>2, <4>1
    <3> QED
      BY <3>1, <3>2
  <2>5. ASSUME NEW i \in 1 .. Len(wq), s \in wq[i].scores PROVE s \in Rows'
    <3>1. CASE i <= n
      BY <1>0, <1>2, <2>2, <2>5, <3>1
    <3>2. CASE ~(i <= n)
      <4>1. i - n \in 1 .. Len(wq') /\ n + (i - n) = i
        BY <1>0, <2>3, <3>2
      <4>2. wq'[i - n] = wq[i]
        BY <2>3, <4>1
      <4> QED
        BY <1>2, <2>5, <4>1, <4>2
    <3> QED
      BY <3>1, <3>2
  <2> QED
    BY <1>1, <1>2, <1>3, <2>4, <2>5
<1>9. CASE WriterFails \/ Kill
  <2>1. scores' = scores /\ \A i \in 1 .. Len(wq) : wq[i] \in lost'
    BY <1>9 DEF WriterFails, Kill, database
  <2> QED
    BY <1>1, <1>2, <1>3, <2>1
<1>10. CASE Closed
  <2>1. scores' = scores /\ (wq = <<>> \/ writer = "dead")
    BY <1>10 DEF Closed, database
  <2>2. \A i \in 1 .. Len(wq) : wq[i] \in lost
    BY <2>1 DEF DeadInv
  <2> QED
    BY <1>1, <1>2, <1>3, <2>1, <2>2
<1> QED
  BY <1>4, <1>6, <1>7, <1>8, <1>9, <1>10, QueueStep

\* A pubkey that was scored in a run stays so.
LEMMA HandedStays ==
  ASSUME TypeOK, DeadInv, GenuineInv, [Next]_vars
  PROVE  \A r, k : Handed(r, k) => \E t \in Rows' : t.run = r /\ t.key = k /\ Genuine(t)
  BY RowsStay DEF Handed

PipelinePcs == {"poll", "request", "send", "join", "mark"}

\* The pubkey is in one of the stages of the pipeline.
Staged(k) ==
    \/ k \in todo \cup batch
    \/ \E x \in sending : x.key = k
    \/ \E i \in 1 .. Len(chan) : chan[i].key = k

\* A step inside a pipeline that has not failed passes a pubkey on, or scores it.
LEMMA StagesStep ==
  ASSUME TypeOK, StageInv, GenuineInv, [Next]_vars, pc \in PipelinePcs, pc' \in PipelinePcs,
         consumer # "panicked", consumer' # "panicked", ~failed', NEW k, Staged(k)
  PROVE  Staged(k)' \/ \E s \in Rows' : s.run = run /\ s.key = k /\ Genuine(s)
<1>0. chan \in Seq(Input) /\ Len(chan) \in Nat
  <2>1. chan \in Seq(Input)
    BY DEF TypeOK, ThreadTypes
  <2> QED
    BY <2>1, LenProperties
<1>1. CASE UNCHANGED <<todo, batch, sending, chan>>
  BY <1>1 DEF Staged
<1>2. CASE Leave \/ Gone \/ StreamEnds(TRUE)
  <2>1. ~StreamEnds(TRUE)
    BY DEF StreamEnds
  <2> QED
    BY <1>2, <2>1 DEF Leave, Gone, PipelinePcs
<1>3. CASE NextBatch
  BY <1>3 DEF NextBatch, StageInv, Staged, threads
<1>4. CASE EndOfStream
  <2>1. todo = {} /\ batch = {} /\ sending = {} /\ chan' = chan
    BY <1>4 DEF EndOfStream, StageInv
  <2> QED
    BY <2>1 DEF Staged
<1>5. CASE BatchFetched
  <2>1. sending = {} /\ sending' = MatchGroups /\ UNCHANGED <<todo, chan>>
    BY <1>5 DEF BatchFetched, StageInv, threads
  <2>2. ASSUME k \in batch PROVE \E x \in MatchGroups : x.key = k
    <3> DEFINE x == [key |-> k, posts |-> IF k \in groups THEN k ELSE None]
    <3>1. x \in MatchGroups
      BY <2>2 DEF MatchGroups
    <3>2. x.key = k
      OBVIOUS
    <3> HIDE DEF x
    <3> QED
      BY <3>1, <3>2
  <2> QED
    BY <2>1, <2>2 DEF Staged
<1>6. CASE Send
  <2>1. CASE \E x \in sending : /\ chan' = Append(chan, x) /\ sending' = sending \ {x}
                                /\ UNCHANGED <<todo, batch>>
    <3>1. PICK x \in sending : /\ chan' = Append(chan, x) /\ sending' = sending \ {x}
                               /\ UNCHANGED <<todo, batch>>
      BY <2>1
    <3>2. x \in Input
      BY DEF TypeOK, PipelineTypes
    <3>3. /\ Len(chan') = Len(chan) + 1 /\ chan'[Len(chan) + 1] = x
          /\ \A i \in 1 .. Len(chan) : chan'[i] = chan[i]
      BY <1>0, <3>1, <3>2, AppendProperties
    <3>4. \A i \in 1 .. Len(chan) : i \in 1 .. Len(chan')
      BY <1>0, <3>3
    <3>5. Len(chan) + 1 \in 1 .. Len(chan')
      BY <1>0, <3>3
    <3>6. CASE \E y \in sending : y.key = k
      BY <3>1, <3>3, <3>5, <3>6 DEF Staged
    <3>7. CASE k \in todo \cup batch \/ \E i \in 1 .. Len(chan) : chan[i].key = k
      BY <3>1, <3>3, <3>4, <3>7 DEF Staged
    <3> QED
      BY <3>6, <3>7 DEF Staged
  <2>2. CASE UNCHANGED <<pipeline, chan>>
    BY <1>1, <2>2 DEF pipeline
  <2> QED
    BY <1>6, <2>1, <2>2 DEF Send
<1>7. CASE Consume
  <2> DEFINE s == [run |-> run, key |-> Head(chan).key, posts |-> Head(chan).posts]
  <2>0. /\ chan # <<>> /\ chan' = Tail(chan) /\ writer = "alive" /\ wq' = wq \o <<ScoreOf(s)>>
        /\ UNCHANGED <<todo, batch, sending>>
    BY <1>7 DEF Consume, Enqueue, task, pipeline
  <2>1. Len(chan) \in Nat \ {0} /\ Head(chan) = chan[1] /\ chan[1] \in Input
    <3>1. Len(chan) \in Nat \ {0}
      BY <1>0, <2>0, EmptySeq
    <3> QED
      BY <1>0, <3>1, ElementOfSeq
  <2>2. s \in Rows' /\ s.run = run /\ s.key = Head(chan).key /\ Genuine(s)
    <3>1. Genuine(Head(chan)) /\ Genuine(s)
      <4>1. Genuine(chan[1])
        BY <2>1 DEF GenuineInv
      <4> QED
        BY <2>1, <4>1 DEF Genuine
    <3>2. wq \in Seq(Message) /\ Len(wq) \in Nat
      <4>1. wq \in Seq(Message)
        BY DEF TypeOK, ThreadTypes
      <4> QED
        BY <4>1, LenProperties
    <3> DEFINE n == Len(wq) + 1
    <3>3. n \in 1 .. Len(wq') /\ wq'[n] = ScoreOf(s)
      <4>1. wq \o <<ScoreOf(s)>> = Append(wq, ScoreOf(s))
        BY <3>2
      <4>2. Len(Append(wq, ScoreOf(s))) = n /\ Append(wq, ScoreOf(s))[n] = ScoreOf(s)
        BY <3>2, AppendProperties
      <4> QED
        BY <2>0, <3>2, <4>1, <4>2
    <3>4. s \in ScoreOf(s).scores
      BY DEF ScoreOf
    <3> HIDE DEF n, s
    <3>5. s \in UNION {wq'[i].scores : i \in 1 .. Len(wq')}
      BY <3>3, <3>4
    <3>6. s \in Rows'
      BY <3>5 DEF Rows
    <3> QED
      BY <3>1, <3>6 DEF s
  <2> HIDE DEF s
  <2>3. ASSUME NEW i \in 1 .. Len(chan), i # 1
        PROVE  i - 1 \in 1 .. Len(chan') /\ chan'[i - 1] = chan[i]
    <3>1. /\ Len(Tail(chan)) = Len(chan) - 1
          /\ \A j \in 1 .. Len(Tail(chan)) : Tail(chan)[j] = chan[j + 1]
      BY <1>0, <2>0, HeadTailProperties
    <3>2. i - 1 \in 1 .. Len(chan) - 1 /\ (i - 1) + 1 = i
      BY <1>0, <2>3
    <3> QED
      BY <2>0, <3>1, <3>2
  <2>4. CASE \E i \in 1 .. Len(chan) : chan[i].key = k
    <3>1. PICK i \in 1 .. Len(chan) : chan[i].key = k
      BY <2>4
    <3>2. CASE i = 1
      BY <2>1, <2>2, <3>1, <3>2
    <3>3. CASE i # 1
      BY <2>3, <3>1, <3>3 DEF Staged
    <3> QED
      BY <3>2, <3>3
  <2> QED
    BY <2>0, <2>4 DEF Staged
<1>8. CASE TooLarge \/ FetchFails
  BY <1>1, <1>2, <1>8 DEF TooLarge, FetchFails, TryAgain, pipeline
<1>9. CASE Fetched \/ ConsumerEnds \/ Writer \/ NewAuthor
  BY <1>1, <1>9 DEF Fetched, ConsumerEnds, Writer, WriterCommits, WriterFails, NewAuthor, task, pipeline,
       threads
<1>10. CASE Join \/ MarkDone
  BY <1>1, <1>2, <1>10 DEF Join, MarkDone, pipeline, threads
<1>11. CASE Kill \/ Closed
  BY <1>2, <1>11 DEF Kill, Closed
<1>12. CASE Enumerate \/ ReadPubkeys \/ Start
  BY <1>12 DEF Enumerate, ProbeStart, ProbeEnd, FetchPage, InvalidCursor, WalkEnds, FetchPageFails,
       SetCursor, ReadPubkeys, Start, PipelinePcs
<1> QED
  BY <1>1, <1>3, <1>4, <1>5, <1>6, <1>7, <1>8, <1>9, <1>10, <1>11, <1>12
     DEF Next, vars, task, pipeline, threads, Task, Fetch, Consumer

\* A pipeline that has not failed had not failed before; it is set up by read_pubkeys.
LEMMA PipelineMoves ==
  ASSUME StageInv, [Next]_vars, ~ReadPubkeys, pc' \in PipelinePcs, consumer' # "panicked", ~failed'
  PROVE  pc \in PipelinePcs /\ consumer # "panicked" /\ ~failed
<1>1. CASE UNCHANGED <<pc, failed>> /\ (consumer = "recv" \/ consumer' = consumer)
  BY <1>1
<1>2. CASE Leave \/ Gone
  BY <1>2 DEF Leave, Gone, PipelinePcs
<1>3. CASE pc \in {"poll", "request", "send"} /\ consumer' = consumer
  BY <1>3 DEF PipelinePcs, StageInv
<1>4. CASE Enumerate
  <2>1. pc' = pc \/ pc' \notin PipelinePcs
    BY <1>4 DEF Enumerate, ProbeStart, ProbeEnd, ProbeFails, TryAgain, Leave, FetchPage,
         InvalidCursor, WalkEnds, FetchPageFails, SetCursor, PipelinePcs
  <2>2. pc \notin PipelinePcs
    BY <1>4 DEF Enumerate, ProbeStart, ProbeEnd, FetchPage, InvalidCursor, WalkEnds, FetchPageFails,
         SetCursor, PipelinePcs
  <2> QED
    BY <2>1, <2>2
<1>5. CASE NextBatch \/ EndOfStream \/ BatchFetched \/ Fetched \/ TooLarge \/ FetchFails \/ Send
  BY <1>3, <1>5 DEF NextBatch, EndOfStream, BatchFetched, Fetched, TooLarge, FetchFails, Send, threads
<1>6. CASE Join
  <2>1. pc = "join" /\ ~failed /\ consumer # "panicked"
    BY <1>2, <1>6 DEF Join, Leave, PipelinePcs
  <2> QED
    BY <2>1 DEF PipelinePcs
<1>7. CASE MarkDone \/ Closed \/ Kill
  BY <1>2, <1>7 DEF MarkDone, Closed, Kill
<1>8. CASE Start
  BY <1>8 DEF Start, PipelinePcs
<1>9. CASE NewAuthor \/ Consumer \/ Writer
  BY <1>1, <1>9 DEF NewAuthor, Consumer, Consume, ConsumerEnds, Writer, WriterCommits, WriterFails,
       task, pipeline, threads
<1> QED
  BY <1>1, <1>4, <1>5, <1>6, <1>7, <1>8, <1>9
     DEF Next, vars, task, pipeline, threads, Task, Fetch

\* Unless the pipeline fails, no pubkey falls out of it.
LEMMA PlanStep ==
  ASSUME TypeOK, RunInv, DeadInv, GenuineInv, StageInv, PlanInv, [Next]_vars
  PROVE  PlanInv'
<1> SUFFICES ASSUME pc' \in PipelinePcs, consumer' # "panicked", ~failed',
                    NEW k \in hist'[run'].plan
             PROVE  Staged(k)' \/ \E s \in Rows' : s.run = run' /\ s.key = k /\ Genuine(s)
  BY DEF PlanInv, PipelinePcs, Staged, Handed, Genuine
<1>1. CASE ReadPubkeys
  <2>1. /\ pc = "read" /\ todo' = pubkeys /\ run' = run
        /\ hist' = WithPlan(run, pubkeys)
    BY <1>1 DEF ReadPubkeys, Leave, PipelinePcs, WithPlan
  <2>2. run \in 1 .. Len(hist) /\ hist \in Seq(History) /\ pubkeys \subseteq Keys
    BY <2>1 DEF RunInv, Active, Runs, TypeOK, DatabaseTypes, History
  <2>3. hist'[run'].plan = pubkeys
    BY <2>1, <2>2, PlanWritten
  <2> QED
    BY <2>1, <2>3 DEF Staged
<1>2. CASE ~ReadPubkeys
  <2>1. pc \in PipelinePcs /\ consumer # "panicked" /\ ~failed
    BY <1>2, PipelineMoves
  <2>2. run' = run /\ run \in Runs
    <3>1. Active /\ Active' /\ ~Start
      BY <2>1 DEF Active, PipelinePcs, Start
    <3> QED
      BY <3>1, SameRun DEF RunInv
  <2>3. k \in hist[run].plan
    BY <1>2, <2>2, TableStep
  <2>4. Staged(k) \/ Handed(run, k)
    BY <2>1, <2>3 DEF PlanInv, PipelinePcs, Staged
  <2>5. CASE Staged(k)
    BY <2>1, <2>2, <2>5, StagesStep
  <2>6. CASE Handed(run, k)
    BY <2>2, <2>6, HandedStays
  <2> QED
    BY <2>4, <2>5, <2>6
<1> QED
  BY <1>1, <1>2

\* A run that is marked done has been through the pipeline as a whole.
LEMMA DoneStep ==
  ASSUME TypeOK, RunInv, ScoredInv, [Next]_vars
  PROVE  DoneAccounted'
<1>0. DeadInv /\ GenuineInv /\ StageInv /\ PlanInv /\ DoneAccounted
  BY DEF ScoredInv
<1>1. \A r \in Runs : runs[r].status = "done" => \A k \in hist[r].plan : Handed(r, k)
  BY <1>0 DEF DoneAccounted, Handed, Rows, Genuine
<1>2. SUFFICES ASSUME NEW r \in Runs', runs'[r].status = "done", NEW k \in hist'[r].plan
               PROVE  \E s \in Rows' : s.run = r /\ s.key = k /\ Genuine(s)
  BY DEF DoneAccounted, Rows, Genuine
<1>3. r \in Runs
  BY <1>2, TableStep
<1>4. CASE runs[r].status = "done"
  <2>1. ~(ReadPubkeys /\ r = run)
    BY <1>4 DEF ReadPubkeys, RunInv, Active
  <2>2. hist'[r].plan = hist[r].plan
    BY <1>3, <2>1, TableStep
  <2> QED
    BY <1>0, <1>1, <1>2, <1>3, <1>4, <2>2, HandedStays
<1>5. CASE runs[r].status # "done"
  <2>1. MarkDone /\ r = run
    BY <1>2, <1>3, <1>5, TableStep
  <2>2. pc = "mark" /\ ~ReadPubkeys
    BY <2>1 DEF MarkDone, ReadPubkeys
  <2>3. /\ consumer = "ended" /\ ~failed /\ chan = <<>>
        /\ todo = {} /\ batch = {} /\ sending = {}
    BY <1>0, <2>2 DEF StageInv
  <2>4. k \in hist[run].plan
    BY <1>2, <1>3, <2>1, <2>2, TableStep
  <2>5. Handed(run, k)
    BY <1>0, <2>2, <2>3, <2>4 DEF PlanInv
  <2> QED
    BY <1>0, <2>1, <2>5, HandedStays
<1> QED
  BY <1>4, <1>5

\* Every step keeps the invariant of the pipeline.
LEMMA ScoredStep == TypeOK /\ RunInv /\ ScoredInv /\ [Next]_vars => ScoredInv'
  BY DeadStep, GenuineStep, StageStep, PlanStep, DoneStep DEF ScoredInv

-----------------------------------------------------------------------------
(* Theorems                                                                *)

HunterInv == TypeOK /\ RunInv /\ WalkInv /\ ScoredInv

\* An empty database before the first start.
LEMMA InitHolds == Init => HunterInv
<1> SUFFICES ASSUME Init PROVE HunterInv
  OBVIOUS
<1>1. DatabaseTypes
  BY DEF Init, DatabaseTypes
<1>2. WalkTypes
  BY HunterConstants DEF Init, WalkTypes, Cursors
<1>3. PipelineTypes
  <2>1. failed \in BOOLEAN
    BY Zenon DEF Init
  <2>2. requests \in Seq(SUBSET Keys)
    BY DEF Init
  <2> QED
    BY <2>1, <2>2 DEF Init, PipelineTypes
<1>4. ThreadTypes
  <2>1. txOpen \in BOOLEAN
    BY Zenon DEF Init
  <2> QED
    BY <2>1, HunterConstants DEF Init, ThreadTypes
<1>5. BoundTypes
  BY HunterConstants DEF Init, BoundTypes
<1>6. RunInv /\ Runs = {}
  BY DEF Init, RunInv, Active, Runs
<1>7. WalkInv
  BY <1>6 DEF Init, WalkInv, NoneSkipped
<1>8. ScoredInv
  <2>1. DeadInv /\ PlanInv /\ DoneAccounted
    BY <1>6 DEF Init, DeadInv, PlanInv, DoneAccounted
  <2>2. GenuineInv
    BY DEF Init, GenuineInv
  <2>3. StageInv
    BY DEF Init, StageInv
  <2> QED
    BY <2>1, <2>2, <2>3 DEF ScoredInv
<1> QED
  BY <1>1, <1>2, <1>3, <1>4, <1>5, <1>6, <1>7, <1>8 DEF HunterInv, TypeOK

\* HunterInv is inductive.
LEMMA Inductive == Spec => []HunterInv
<1>1. HunterInv /\ [Next]_vars => HunterInv'
  BY TypesStep, WalkStep, ScoredStep DEF HunterInv
<1> QED
  BY <1>1, InitHolds, PTL DEF Spec

\* Every variable of the run keeps its type; the channel to the consumer never
\* outgrows its capacity.
THEOREM TypeCorrect == Spec => []TypeOK
<1>1. HunterInv => TypeOK
  BY DEF HunterInv
<1> QED
  BY <1>1, Inductive, PTL

\* Flush-before-cursor: whatever kills, resumes, retries, invalid cursors and failed
\* transactions happen, and however the index grows, an author a stored cursor has
\* passed is stored or was in a transaction that failed.
THEOREM NothingSkipped == Spec => []NoneSkipped
<1>1. HunterInv => NoneSkipped
  BY DEF HunterInv, WalkInv
<1> QED
  BY <1>1, Inductive, PTL

\* A run that is marked done has a row for every pubkey it read, computed from that
\* pubkey's own events and handed to the writer.
THEOREM DoneIsAccounted == Spec => []DoneAccounted
<1>1. HunterInv => DoneAccounted
  BY DEF HunterInv, ScoredInv
<1> QED
  BY <1>1, Inductive, PTL

===============================================================================
