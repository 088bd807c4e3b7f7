---------------------------- MODULE RescuerProofs ----------------------------
(***************************************************************************)
(* Proofs about Rescuer, for every set of events, authors and workers, every *)
(* batch size, limit and channel capacity, and any number of faults.        *)
(***************************************************************************)
EXTENDS Rescuer, FiniteSetTheorems, TLAPS

\* The flags stay Boolean in every step.
LEMMA FlagsStep == FlagsOK /\ [Next]_vars => FlagsOK'
<1> SUFFICES ASSUME FlagsOK, [Next]_vars PROVE FlagsOK'
  OBVIOUS
<1> USE DEF FlagsOK
<1>1. CASE StartRun
  BY <1>1, Zenon DEF StartRun, Fault, NoFault, run
<1>2. CASE ExportLine
  BY <1>2, Zenon DEF ExportLine, Fault, NoFault, run
<1>3. CASE ExportEnds
  BY <1>3, Zenon DEF ExportEnds, Fault, NoFault, run
<1>4. CASE Collect
  BY <1>4, Zenon DEF Collect, Fault, NoFault, run
<1>5. CASE ChannelClosed
  BY <1>5, Zenon DEF ChannelClosed, Fault, NoFault, run
<1>6. CASE CollectReturns
  BY <1>6, Zenon DEF CollectReturns, Fault, NoFault, run
<1>7. CASE CheckAuthor
  BY <1>7, Zenon DEF CheckAuthor, Fault, NoFault, run
<1>8. CASE ChecksDone
  BY <1>8, Zenon DEF ChecksDone, Fault, NoFault, run
<1>9. CASE DispatchCancelled
  BY <1>9, Zenon DEF DispatchCancelled, Fault, NoFault, run
<1>10. CASE ForwardDone
  BY <1>10, Zenon DEF ForwardDone, Fault, NoFault, run
<1>11. CASE DeleteBatch
  BY <1>11, Zenon DEF DeleteBatch, Fault, NoFault, run
<1>12. CASE DeleteBatchFails
  BY <1>12, Zenon DEF DeleteBatchFails, Fault, NoFault, run
<1>13. CASE DeleteDone
  BY <1>13, Zenon DEF DeleteDone, Fault, NoFault, run
<1>14. CASE Quarantined
  BY <1>14, Zenon DEF Quarantined, Fault, NoFault, run
<1>15. CASE ListChanges
  BY <1>15, Zenon DEF ListChanges, Fault, NoFault, run
<1>16. CASE PolicyFollows
  BY <1>16, Zenon DEF PolicyFollows, Fault, NoFault, run
<1>17. CASE Cancel
  BY <1>17, Zenon DEF Cancel, Fault, NoFault, run
<1>18. CASE Kill
  BY <1>18, Zenon DEF Kill, Fault, NoFault, run
<1>19. ASSUME NEW w \in Workers, Connect(w) PROVE FlagsOK'
  BY <1>19, Zenon DEF Connect, Fault, NoFault, run
<1>20. ASSUME NEW w \in Workers, TakeJob(w) PROVE FlagsOK'
  BY <1>20, Zenon DEF TakeJob, Fault, NoFault, run
<1>21. ASSUME NEW w \in Workers, Publish(w) PROVE FlagsOK'
  BY <1>21, Zenon DEF Publish, Fault, NoFault, run, Published, NotPublished
<1>22. CASE UNCHANGED vars
  BY <1>22, Zenon DEF vars, Fault, NoFault, run
<1> QED
  BY <1>1, <1>2, <1>3, <1>4, <1>5, <1>6, <1>7, <1>8, <1>9, <1>10, <1>11, <1>12, <1>13, <1>14, <1>15, <1>16, <1>17, <1>18, <1>19, <1>20, <1>21, <1>22
     DEF Next, RunStep, WorkerStep

\* Cutting a set into batches: the batches are parts of it, cover it and are
\* disjoint (deleteRange's loop).
LEMMA ChunksSplit ==
    ASSUME NEW S, NEW n, NEW B \in Chunks(S, n)
    PROVE  /\ \A b \in B : b = [ids |-> b.ids, size |-> n] /\ b.ids \subseteq S
           /\ \A x \in S : \E b \in B : x \in b.ids
           /\ \A b, c \in B : b # c => b.ids \cap c.ids = {}
<1>1. PICK P \in SUBSET (SUBSET S) :
         /\ B = {[ids |-> c, size |-> n] : c \in P}
         /\ UNION P = S
         /\ \A c, d \in P : c # d => c \cap d = {}
  BY DEF Chunks
<1>2. \A b \in B : \E c \in P : b = [ids |-> c, size |-> n]
  BY <1>1
<1>3. \A c \in P : [ids |-> c, size |-> n] \in B
  BY <1>1
<1>4. \A x \in S : \E c \in P : x \in c
  BY <1>1
<1>5. \A b \in B : b = [ids |-> b.ids, size |-> n] /\ b.ids \in P
  BY <1>2
<1>6. \A x \in S : \E b \in B : x \in b.ids
  <2> TAKE x \in S
  <2>1. PICK c \in P : x \in c
    BY <1>4
  <2> QED
    BY <1>3, <2>1
<1>7. \A b, c \in B : b # c => b.ids \cap c.ids = {}
  <2> SUFFICES ASSUME NEW b \in B, NEW c \in B, b # c PROVE b.ids \cap c.ids = {}
    OBVIOUS
  <2>1. b.ids # c.ids
    BY <1>5, Zenon
  <2>2. b.ids \in P /\ c.ids \in P
    BY <1>5, Zenon
  <2> QED
    BY <1>1, <2>1, <2>2
<1> QED
  BY <1>5, <1>6, <1>7

\* The batches that replace a failed one are parts of it; they cover it unless
\* it is a single id that is given up.
LEMMA RetriesSplit ==
    ASSUME NEW b \in Batch, NEW B \in Retries(b)
    PROVE  /\ B \subseteq Batch /\ \A c \in B : c.ids \subseteq b.ids
           /\ Cardinality(b.ids) = 1 => B = {}
           /\ Cardinality(b.ids) # 1 => \A x \in b.ids : \E c \in B : x \in c.ids
           /\ \A c, d \in B : c # d => c.ids \cap d.ids = {}
<1>1. CASE Cardinality(b.ids) = 1
  BY <1>1 DEF Retries
<1>2. CASE Cardinality(b.ids) # 1
  <2>1. PICK n \in Nat : B \in Chunks(b.ids, n)
    <3>1. b.size \in Nat /\ b.size \div 2 \in Nat
      BY DEF Batch
    <3> QED
      BY <1>2, <3>1 DEF Retries
  <2>2. b.ids \subseteq Events
    BY DEF Batch
  <2>3. B \subseteq Batch /\ \A c \in B : c.ids \subseteq b.ids
    BY <2>1, <2>2, ChunksSplit DEF Batch
  <2> QED
    BY <1>2, <2>1, <2>3, ChunksSplit
<1> QED
  BY <1>1, <1>2

\* The bound on the channel is inductive only for a finite channel.
DataInv == DataOK /\ IsFiniteSet(channel)

\* Everything else keeps its type in every step.
LEMMA DataStep == DataInv /\ [Next]_vars => DataInv'
<1> SUFFICES ASSUME DataInv, [Next]_vars PROVE DataInv'
  OBVIOUS
<1> USE RescuerConstants DEF DataInv, DataOK, Phases, Batch, EventsOf
<1>1. CASE StartRun
  BY <1>1, FS_EmptySet DEF StartRun, stores, lists
<1>2. CASE ExportLine
  <2>1. PICK e \in lines : channel' = channel \/ (ChannelHasRoom /\ channel' = channel \cup {e})
    BY <1>2 DEF ExportLine
  <2>2. lines' \subseteq lines
    BY <1>2 DEF ExportLine
  <2>3. IsFiniteSet(channel') /\ Cardinality(channel') <= ExportBuffer
    <3>1. Cardinality(channel) \in Nat
      BY FS_CardinalityType
    <3>2. /\ IsFiniteSet(channel \cup {e})
          /\ Cardinality(channel \cup {e}) =
                IF e \in channel THEN Cardinality(channel) ELSE Cardinality(channel) + 1
      BY FS_AddElement, Zenon
    <3>3. ChannelHasRoom => Cardinality(channel \cup {e}) <= ExportBuffer
      BY <3>1, <3>2 DEF ChannelHasRoom
    <3>4. CASE channel' = channel
      BY <3>4
    <3>5. CASE channel' = channel \cup {e} /\ ChannelHasRoom
      BY <3>2, <3>3, <3>5, Zenon
    <3> QED
      BY <2>1, <3>4, <3>5
  <2> QED
    BY <1>2, <2>1, <2>2, <2>3
    DEF ExportLine, stores, lists, run, checking, sending, deleting
<1>3. CASE ExportEnds
  BY <1>3 DEF ExportEnds, Fault, NoFault, stores, lists, run, exporting, checking, sending, deleting
<1>4. CASE Collect
  <2>1. PICK e \in channel : channel' = channel \ {e} /\ collected' = collected \cup {e}
    BY <1>4 DEF Collect
  <2>2. IsFiniteSet(channel') /\ Cardinality(channel') <= ExportBuffer
    <3>1. Cardinality(channel) \in Nat
      BY FS_CardinalityType
    <3>2. /\ IsFiniteSet(channel \ {e})
          /\ Cardinality(channel \ {e}) =
                IF e \in channel THEN Cardinality(channel) - 1 ELSE Cardinality(channel)
      BY FS_RemoveElement, Zenon
    <3> QED
      BY <2>1, <3>1, <3>2
  <2> QED
    BY <1>4, <2>1, <2>2 DEF Collect, stores, lists, run, checking, sending, deleting
<1>5. CASE ChannelClosed
  BY <1>5 DEF ChannelClosed, Fault, NoFault, stores, lists, run, exporting, checking, sending, deleting
<1>6. CASE CollectReturns
  BY <1>6 DEF CollectReturns, Fault, NoFault, stores, lists, run, exporting, checking, sending, deleting
<1>7. CASE CheckAuthor
  BY <1>7 DEF CheckAuthor, Fault, NoFault, stores, lists, run, exporting, checking, sending, deleting
<1>8. CASE ChecksDone
  BY <1>8 DEF ChecksDone, Fault, NoFault, stores, lists, run, exporting, checking, sending, deleting
<1>9. CASE DispatchCancelled
  BY <1>9 DEF DispatchCancelled, Fault, NoFault, stores, lists, run, exporting, checking, sending, deleting
<1>10. CASE ForwardDone
  <2>1. batches' \subseteq Batch
    BY <1>10, ChunksSplit DEF ForwardDone
  <2> QED
    BY <1>10, <2>1 DEF ForwardDone, stores, lists, run, exporting, checking, sending
<1>11. CASE DeleteBatch
  BY <1>11 DEF DeleteBatch, Fault, NoFault, stores, lists, run, exporting, checking, sending, deleting, MatchesFilter
<1>12. CASE DeleteBatchFails
  <2>1. PICK b \in batches : /\ \E r \in Retries(b) : batches' = (batches \ {b}) \cup r
                             /\ undeleted' \subseteq undeleted \cup b.ids
    BY <1>12 DEF DeleteBatchFails
  <2>2. batches' \subseteq Batch /\ undeleted' \subseteq Events
    BY <2>1, RetriesSplit
  <2>3. quarantine' \subseteq quarantine /\ faults' \in Nat
    BY <1>12 DEF DeleteBatchFails, Fault, NoFault
  <2> QED
    BY <1>12, <2>2, <2>3 DEF DeleteBatchFails, lists, run, exporting, checking, sending
<1>13. CASE DeleteDone
  BY <1>13 DEF DeleteDone, Fault, NoFault, stores, lists, run, exporting, checking, sending, deleting
<1>14. CASE Quarantined
  BY <1>14 DEF Quarantined, Fault, NoFault, stores, lists, run, exporting, checking, sending, deleting
<1>15. CASE ListChanges
  BY <1>15 DEF ListChanges, Fault, NoFault, stores, lists, run, exporting, checking, sending, deleting
<1>16. CASE PolicyFollows
  BY <1>16 DEF PolicyFollows, Fault, NoFault, stores, lists, run, exporting, checking, sending, deleting
<1>17. CASE Cancel
  BY <1>17 DEF Cancel, Fault, NoFault, stores, lists, run, exporting, checking, sending, deleting
<1>18. CASE Kill
  BY <1>18 DEF Kill, Fault, NoFault, stores, lists, run, exporting, checking, sending, deleting
<1>19. ASSUME NEW w \in Workers, Connect(w) PROVE DataInv'
  BY <1>19 DEF Connect, Fault, NoFault, stores, lists, run, exporting, checking, sending, deleting
<1>20. ASSUME NEW w \in Workers, TakeJob(w) PROVE DataInv'
  BY <1>20 DEF TakeJob, Fault, NoFault, stores, lists, run, exporting, checking, sending, deleting
<1>21. ASSUME NEW w \in Workers, Publish(w) PROVE DataInv'
  BY <1>21 DEF Publish, Fault, NoFault, stores, lists, run, exporting, checking, sending, deleting, Published, NotPublished, NextOldest
<1>22. CASE UNCHANGED vars
  BY <1>22 DEF vars, Fault, NoFault, stores, lists, run, exporting, checking, sending, deleting
<1> QED
  BY <1>1, <1>2, <1>3, <1>4, <1>5, <1>6, <1>7, <1>8, <1>9, <1>10, <1>11, <1>12, <1>13, <1>14, <1>15, <1>16, <1>17, <1>18, <1>19, <1>20, <1>21, <1>22
     DEF Next, RunStep, WorkerStep

\* Every variable keeps its type, and the channel its bound, in every behaviour.
THEOREM TypeCorrect == Spec => []TypeOK
<1>1. Init => FlagsOK
  BY Zenon DEF Init, FlagsOK
<1>2. Init => DataInv
  BY RescuerConstants, FS_EmptySet DEF Init, DataInv, DataOK, Phases
<1> QED
  BY <1>1, <1>2, FlagsStep, DataStep, PTL DEF Spec, TypeOK, DataInv

-----------------------------------------------------------------------------
(* No event is lost                                                        *)

\* NoLoss is not inductive: a delete is harmless only because the batches hold
\* nothing but acknowledged ids, and those are on the main relay.
NoLossInv ==
    /\ NoLoss
    /\ success \subseteq main
    /\ \A b \in batches : b.ids \subseteq success

\* Every step of a rescue preserves that what waits for deletion is on the main relay.
LEMMA NoLossStep == batches \subseteq Batch /\ NoLossInv /\ [Next]_vars => NoLossInv'
<1> SUFFICES ASSUME batches \subseteq Batch, NoLossInv, [Next]_vars PROVE NoLossInv'
  OBVIOUS
<1> USE DEF NoLossInv, NoLoss
<1>1. CASE StartRun
  BY <1>1 DEF StartRun, stores, sending, deleting
<1>2. CASE ExportLine
  BY <1>2 DEF ExportLine, stores, sending, deleting
<1>3. CASE ExportEnds
  BY <1>3 DEF ExportEnds, stores, sending, deleting
<1>4. CASE Collect
  BY <1>4 DEF Collect, stores, sending, deleting
<1>5. CASE ChannelClosed
  BY <1>5 DEF ChannelClosed, stores, sending, deleting
<1>6. CASE CollectReturns
  BY <1>6 DEF CollectReturns, stores, sending, deleting
<1>7. CASE CheckAuthor
  BY <1>7 DEF CheckAuthor, stores, sending, deleting
<1>8. CASE ChecksDone
  BY <1>8 DEF ChecksDone, stores, sending, deleting
<1>9. CASE DispatchCancelled
  BY <1>9 DEF DispatchCancelled, stores, sending, deleting
<1>10. CASE ForwardDone
  BY <1>10, ChunksSplit DEF ForwardDone, stores, sending
<1>11. CASE DeleteBatch
  BY <1>11 DEF DeleteBatch, stores, sending, deleting, MatchesFilter
<1>12. CASE DeleteBatchFails
  <2>1. PICK b \in batches : /\ \E r \in Retries(b) : batches' = (batches \ {b}) \cup r
                             /\ quarantine \ b.ids \subseteq quarantine'
    BY <1>12 DEF DeleteBatchFails, MatchesFilter
  <2>2. \A c \in batches' : c.ids \subseteq success
    BY <2>1, RetriesSplit
  <2> QED
    BY <1>12, <2>1, <2>2 DEF DeleteBatchFails, sending
<1>13. CASE DeleteDone
  BY <1>13 DEF DeleteDone, stores, sending, deleting
<1>14. CASE Quarantined
  BY <1>14 DEF Quarantined, stores, sending, deleting
<1>15. CASE ListChanges
  BY <1>15 DEF ListChanges, stores, sending, deleting
<1>16. CASE PolicyFollows
  BY <1>16 DEF PolicyFollows, stores, sending, deleting
<1>17. CASE Cancel
  BY <1>17 DEF Cancel, stores, sending, deleting
<1>18. CASE Kill
  BY <1>18 DEF Kill, stores, sending, deleting
<1>19. ASSUME NEW w \in Workers, Connect(w) PROVE NoLossInv'
  BY <1>19 DEF Connect, stores, sending, deleting
<1>20. ASSUME NEW w \in Workers, TakeJob(w) PROVE NoLossInv'
  BY <1>20 DEF TakeJob, stores, sending, deleting
<1>21. ASSUME NEW w \in Workers, Publish(w) PROVE NoLossInv'
  BY <1>21 DEF Publish, stores, sending, deleting, Published, NotPublished
<1>22. CASE UNCHANGED vars
  BY <1>22 DEF vars, stores, sending, deleting
<1> QED
  BY <1>1, <1>2, <1>3, <1>4, <1>5, <1>6, <1>7, <1>8, <1>9, <1>10, <1>11, <1>12, <1>13, <1>14, <1>15, <1>16, <1>17, <1>18, <1>19, <1>20, <1>21, <1>22
     DEF Next, RunStep, WorkerStep

\* An event the quarantine relay ever stored is never lost between the relays.
THEOREM NoLossCorrect == Spec => []NoLoss
<1>1. Init => NoLossInv
  BY DEF Init, NoLossInv, NoLoss
<1>2. NoLossInv => NoLoss
  BY DEF NoLossInv
<1> QED
  <2>1. TypeOK => batches \subseteq Batch
    BY DEF TypeOK, DataOK
  <2> QED
    BY <1>1, <1>2, <2>1, TypeCorrect, NoLossStep, PTL DEF Spec
-----------------------------------------------------------------------------
(* The summary, and the order of publishing                                *)

\* Every event of an approved author is in exactly one of the piles: waiting for
\* a worker, with one worker, acknowledged, failed.
PilesInv ==
    \A e \in Events :
        /\ e \in collected /\ Author[e] \in approved <=>
              \/ e \in success \/ e \in failed
              \/ e \in collected /\ Author[e] \in jobs
              \/ \E w \in Workers : e \in job[w]
        /\ ~(e \in success /\ e \in failed)
        /\ e \in success \cup failed => Author[e] \notin jobs
        /\ \A w \in Workers : e \in job[w] =>
              /\ e \notin success \cup failed /\ Author[e] \notin jobs
              /\ \A v \in Workers : e \in job[v] => v = w

\* Every acknowledged event is in exactly one of the piles: in a batch to delete,
\* deleted, not deleted.
BatchesInv ==
    /\ \A b \in batches : b.ids \subseteq success
    /\ \A e \in success : \/ e \in deleted \/ e \in undeleted
                          \/ \E b \in batches : e \in b.ids
    /\ deleted \subseteq success /\ undeleted \subseteq success
    /\ deleted \cap undeleted = {}
    /\ \A b \in batches : b.ids \cap (deleted \cup undeleted) = {}
    /\ \A b, c \in batches : b # c => b.ids \cap c.ids = {}

NothingSent == success = {} /\ failed = {} /\ job = [w \in Workers |-> {}]
NothingDeleted == batches = {} /\ deleted = {} /\ undeleted = {}

SummaryInv ==
    /\ phase \in {"export", "awaitExit"} => approved = {}
    /\ phase \in {"export", "awaitExit", "check"} => NothingSent /\ jobs = {}
    /\ phase \in {"export", "awaitExit", "check", "forward"} => NothingDeleted
    /\ phase = "forward" => PilesInv
    /\ phase = "delete" =>
          /\ BatchesInv
          /\ success \cap failed = {}
          /\ success \cup failed = {e \in collected : Author[e] \in approved}
    /\ SummaryAddsUp

\* A worker's remaining events are the tail of its author's: whatever of the
\* author is not among them has been sent.
OrderInv ==
    /\ phase = "export" => NothingSent
    /\ \A w \in Workers : \A e \in job[w] : \A x \in EventsOf(Author[e]) :
          x \in job[w] \cup success \cup failed

\* Every step of a rescue keeps the exported events partitioned over the phases.
LEMMA SummaryStep == DataOK /\ SummaryInv /\ [Next]_vars => SummaryInv'
<1> SUFFICES ASSUME DataOK, SummaryInv, [Next]_vars PROVE SummaryInv'
  OBVIOUS
<1> USE RescuerConstants DEF DataOK, Batch, SummaryInv, SummaryAddsUp, NothingSent, NothingDeleted
<1>1. CASE StartRun
  BY <1>1 DEF StartRun, PilesInv, BatchesInv, EventsOf, stores, lists, run, exporting, checking, sending, deleting
<1>2. CASE ExportLine
  BY <1>2 DEF ExportLine, PilesInv, BatchesInv, EventsOf, stores, lists, run, exporting, checking, sending, deleting
<1>3. CASE ExportEnds
  BY <1>3 DEF ExportEnds, PilesInv, BatchesInv, EventsOf, stores, lists, run, exporting, checking, sending, deleting
<1>4. CASE Collect
  BY <1>4 DEF Collect, PilesInv, BatchesInv, EventsOf, stores, lists, run, exporting, checking, sending, deleting
<1>5. CASE ChannelClosed
  BY <1>5 DEF ChannelClosed, PilesInv, BatchesInv, EventsOf, stores, lists, run, exporting, checking, sending, deleting
<1>6. CASE CollectReturns
  BY <1>6 DEF CollectReturns, PilesInv, BatchesInv, EventsOf, stores, lists, run, exporting, checking, sending, deleting
<1>7. CASE CheckAuthor
  BY <1>7 DEF CheckAuthor, PilesInv, BatchesInv, EventsOf, stores, lists, run, exporting, checking, sending, deleting
<1>8. CASE ChecksDone
  <2>1. phase = "check" /\ NothingSent /\ NothingDeleted
    BY <1>8 DEF ChecksDone
  <2>2. UNCHANGED <<collected, approved, success, failed, job, batches, deleted, undeleted, dryRun>>
    BY <1>8 DEF ChecksDone, run, exporting, checking, deleting
  <2>3. CASE phase' = "forward"
    <3>1. jobs' = approved
      BY <1>8, <2>3 DEF ChecksDone
    <3>2. PilesInv'
      BY <2>1, <2>2, <3>1 DEF PilesInv
    <3> QED
      BY <2>1, <2>2, <2>3, <3>2
  <2>4. CASE phase' = "done" /\ (approved = {} \/ dryRun)
    BY <2>1, <2>2, <2>4
  <2> QED
    BY <1>8, <2>3, <2>4 DEF ChecksDone
<1>9. CASE DispatchCancelled
  <2>1. PICK p \in jobs : jobs' = jobs \ {p} /\ failed' = failed \cup EventsOf(p)
    BY <1>9 DEF DispatchCancelled
  <2>2. PilesInv'
    BY <1>9, <2>1 DEF DispatchCancelled, PilesInv, EventsOf, exporting, checking
  <2> QED
    BY <1>9, <2>2 DEF DispatchCancelled, run, exporting, checking, deleting
<1>10. CASE ForwardDone
  <2>1. phase = "forward" /\ PilesInv /\ jobs = {} /\ \A w \in Workers : job[w] = {}
    BY <1>10 DEF ForwardDone
  <2>2. UNCHANGED <<collected, approved, success, failed, deleted, undeleted, dryRun>>
    BY <1>10 DEF ForwardDone, run, exporting, checking, sending
  <2>3. /\ success \cap failed = {}
        /\ success \cup failed = {e \in collected : Author[e] \in approved}
    BY <2>1 DEF PilesInv
  <2>4. CASE success = {}
    BY <1>10, <2>1, <2>2, <2>3, <2>4 DEF ForwardDone
  <2>5. CASE success # {}
    <3>1. phase' = "delete" /\ batches' \in Chunks(success, BatchSize)
      BY <1>10, <2>5 DEF ForwardDone
    <3>2. deleted = {} /\ undeleted = {}
      BY <2>1
    <3>3. BatchesInv'
      BY <2>2, <3>1, <3>2, ChunksSplit DEF BatchesInv
    <3> QED
      BY <2>2, <2>3, <3>1, <3>3
  <2> QED
    BY <2>4, <2>5
<1>11. CASE DeleteBatch
  <2>1. PICK b \in batches : batches' = batches \ {b} /\ deleted' = deleted \cup b.ids
    BY <1>11 DEF DeleteBatch
  <2>2. phase = "delete" /\ UNCHANGED <<phase, collected, approved, success, failed, undeleted>>
    BY <1>11 DEF DeleteBatch, exporting, checking, sending
  <2>3. BatchesInv'
    BY <2>1, <2>2 DEF BatchesInv
  <2> QED
    BY <2>2, <2>3
<1>12. CASE DeleteBatchFails
  <2>0. PICK b \in batches :
           /\ \E r \in Retries(b) : batches' = (batches \ {b}) \cup r
           /\ undeleted' = IF Cardinality(b.ids) = 1 THEN undeleted \cup b.ids ELSE undeleted
    BY <1>12 DEF DeleteBatchFails
  <2>1. PICK r \in Retries(b) : batches' = (batches \ {b}) \cup r
    BY <2>0
  <2>2. phase = "delete" /\ UNCHANGED <<phase, collected, approved, success, failed, deleted>>
    BY <1>12 DEF DeleteBatchFails, exporting, checking, sending
  <2>3. /\ \A c \in r : c.ids \subseteq b.ids
        /\ \A c, d \in r : c # d => c.ids \cap d.ids = {}
    BY <2>1, RetriesSplit
  <2>4. BatchesInv
    BY <2>2
  <2>5. CASE Cardinality(b.ids) = 1
    <3>1. r = {} /\ undeleted' = undeleted \cup b.ids
      BY <2>0, <2>5, RetriesSplit
    <3>2. BatchesInv'
      BY <2>1, <2>2, <2>4, <3>1 DEF BatchesInv
    <3> QED
      BY <2>2, <3>2
  <2>6. CASE Cardinality(b.ids) # 1
    <3>1. undeleted' = undeleted /\ \A x \in b.ids : \E c \in r : x \in c.ids
      BY <2>0, <2>6, RetriesSplit
    <3>2. BatchesInv'
      BY <2>1, <2>2, <2>3, <2>4, <3>1 DEF BatchesInv
    <3> QED
      BY <2>2, <3>2
  <2> QED
    BY <2>5, <2>6
<1>13. CASE DeleteDone
  BY <1>13 DEF DeleteDone, BatchesInv, run, exporting, checking, sending, deleting
<1>14. CASE Quarantined
  BY <1>14 DEF Quarantined, PilesInv, BatchesInv, EventsOf, stores, lists, run, exporting, checking, sending, deleting
<1>15. CASE ListChanges
  BY <1>15 DEF ListChanges, PilesInv, BatchesInv, EventsOf, stores, lists, run, exporting, checking, sending, deleting
<1>16. CASE PolicyFollows
  BY <1>16 DEF PolicyFollows, PilesInv, BatchesInv, EventsOf, stores, lists, run, exporting, checking, sending, deleting
<1>17. CASE Cancel
  BY <1>17 DEF Cancel, PilesInv, BatchesInv, EventsOf, stores, lists, run, exporting, checking, sending, deleting
<1>18. CASE Kill
  BY <1>18 DEF Kill, PilesInv, BatchesInv, EventsOf, stores, lists, run, exporting, checking, sending, deleting
<1>19. ASSUME NEW w \in Workers, Connect(w) PROVE SummaryInv'
  BY <1>19 DEF Connect, PilesInv, BatchesInv, EventsOf, stores, lists, run, exporting, checking, sending, deleting
<1>20. ASSUME NEW w \in Workers, TakeJob(w) PROVE SummaryInv'
  <2>1. PICK p \in jobs :
           /\ jobs' = jobs \ {p}
           /\ IF worker[w] = "up"
              THEN job' = [job EXCEPT ![w] = EventsOf(p)] /\ UNCHANGED failed
              ELSE failed' = failed \cup EventsOf(p) /\ UNCHANGED job
    BY <1>20 DEF TakeJob
  <2>2. phase = "forward" /\ job[w] = {} /\ UNCHANGED <<phase, collected, approved, success>>
    BY <1>20 DEF TakeJob, exporting, checking
  <2>3. PilesInv
    BY <2>2
  <2>4. PilesInv'
    <3>1. CASE worker[w] = "up"
      BY <2>1, <2>2, <2>3, <3>1 DEF PilesInv, EventsOf
    <3>2. CASE worker[w] # "up"
      BY <2>1, <2>2, <2>3, <3>2 DEF PilesInv, EventsOf
    <3> QED
      BY <3>1, <3>2
  <2> QED
    BY <1>20, <2>4 DEF TakeJob, run, exporting, checking, deleting
<1>21. ASSUME NEW w \in Workers, Publish(w) PROVE SummaryInv'
  <2>1. PICK e \in job[w] :
           /\ job' = [job EXCEPT ![w] = job[w] \ {e}]
           /\ \/ success' = success \cup {e} /\ UNCHANGED failed
              \/ failed' = failed \cup {e} /\ UNCHANGED success
    BY <1>21 DEF Publish, Published, NotPublished, NextOldest
  <2>2. phase = "forward" /\ UNCHANGED <<phase, collected, approved, jobs>>
    BY <1>21 DEF Publish, exporting, checking
  <2>3. PilesInv
    BY <2>2
  <2>4. PilesInv'
    BY <2>1, <2>2, <2>3 DEF PilesInv
  <2> QED
    BY <1>21, <2>4 DEF Publish, run, exporting, checking, deleting
<1>22. CASE UNCHANGED vars
  BY <1>22 DEF vars, PilesInv, BatchesInv, EventsOf, stores, lists, run, exporting, checking, sending, deleting
<1> QED
  BY <1>1, <1>2, <1>3, <1>4, <1>5, <1>6, <1>7, <1>8, <1>9, <1>10, <1>11, <1>12,
     <1>13, <1>14, <1>15, <1>16, <1>17, <1>18, <1>19, <1>20, <1>21, <1>22
     DEF Next, RunStep, WorkerStep

\* The summary of every finished run adds up.
THEOREM SummaryCorrect == Spec => []SummaryAddsUp
<1>1. Init => SummaryInv
  BY DEF Init, SummaryInv, SummaryAddsUp
<1>2. SummaryInv => SummaryAddsUp
  BY DEF SummaryInv
<1>3. TypeOK => DataOK
  BY DEF TypeOK
<1> QED
  BY <1>1, <1>2, <1>3, TypeCorrect, SummaryStep, PTL DEF Spec

\* Every step of a rescue preserves the order of an author's events.
LEMMA OrderStep == DataOK /\ OrderInv /\ [Next]_vars => OrderInv'
<1> SUFFICES ASSUME DataOK, OrderInv, [Next]_vars PROVE OrderInv'
  OBVIOUS
<1> USE DEF DataOK, OrderInv, NothingSent
<1>1. CASE StartRun
  BY <1>1 DEF StartRun, EventsOf, exporting, sending
<1>2. CASE ExportLine
  BY <1>2 DEF ExportLine, EventsOf, exporting, sending
<1>3. CASE ExportEnds
  BY <1>3 DEF ExportEnds, EventsOf, exporting, sending
<1>4. CASE Collect
  <2>1. phase = "export" /\ UNCHANGED <<success, failed, job>>
    BY <1>4 DEF Collect, sending
  <2> QED
    BY <2>1
<1>5. CASE ChannelClosed
  BY <1>5 DEF ChannelClosed, EventsOf, exporting, sending
<1>6. CASE CollectReturns
  BY <1>6 DEF CollectReturns, EventsOf, exporting, sending
<1>7. CASE CheckAuthor
  BY <1>7 DEF CheckAuthor, EventsOf, exporting, sending
<1>8. CASE ChecksDone
  BY <1>8 DEF ChecksDone, EventsOf, exporting, sending
<1>9. CASE DispatchCancelled
  BY <1>9 DEF DispatchCancelled, EventsOf, exporting, sending
<1>10. CASE ForwardDone
  BY <1>10 DEF ForwardDone, EventsOf, exporting, sending
<1>11. CASE DeleteBatch
  BY <1>11 DEF DeleteBatch, EventsOf, exporting, sending
<1>12. CASE DeleteBatchFails
  BY <1>12 DEF DeleteBatchFails, EventsOf, exporting, sending
<1>13. CASE DeleteDone
  BY <1>13 DEF DeleteDone, EventsOf, exporting, sending
<1>14. CASE Quarantined
  BY <1>14 DEF Quarantined, EventsOf, exporting, sending
<1>15. CASE ListChanges
  BY <1>15 DEF ListChanges, EventsOf, exporting, sending
<1>16. CASE PolicyFollows
  BY <1>16 DEF PolicyFollows, EventsOf, exporting, sending
<1>17. CASE Cancel
  BY <1>17 DEF Cancel, EventsOf, exporting, sending
<1>18. CASE Kill
  BY <1>18 DEF Kill, EventsOf, exporting, sending
<1>19. ASSUME NEW w \in Workers, Connect(w) PROVE OrderInv'
  BY <1>19 DEF Connect, EventsOf, exporting, sending
<1>20. ASSUME NEW w \in Workers, TakeJob(w) PROVE OrderInv'
  BY <1>20 DEF TakeJob, EventsOf, exporting, sending
<1>21. ASSUME NEW w \in Workers, Publish(w) PROVE OrderInv'
  <2>1. PICK e \in job[w] :
           /\ job' = [job EXCEPT ![w] = job[w] \ {e}]
           /\ success' \cup failed' = success \cup failed \cup {e}
    BY <1>21 DEF Publish, Published, NotPublished, NextOldest
  <2>2. phase = "forward" /\ UNCHANGED <<phase, collected>>
    BY <1>21 DEF Publish, exporting
  <2> QED
    BY <2>1, <2>2 DEF EventsOf
<1>22. CASE UNCHANGED vars
  BY <1>22 DEF vars, EventsOf, exporting, sending
<1> QED
  BY <1>1, <1>2, <1>3, <1>4, <1>5, <1>6, <1>7, <1>8, <1>9, <1>10, <1>11, <1>12,
     <1>13, <1>14, <1>15, <1>16, <1>17, <1>18, <1>19, <1>20, <1>21, <1>22
     DEF Next, RunStep, WorkerStep

\* Only Publish acknowledges an event, and it takes a worker's oldest.
LEMMA OnlyPublishAcknowledges ==
    ASSUME [Next]_vars, NEW e \in success' \ success
    PROVE  \E w \in Workers : e \in NextOldest(job[w]) /\ phase = "forward"
<1>1. CASE \E w \in Workers : Publish(w)
  BY <1>1 DEF Publish, Published, NotPublished
<1>2. CASE \E w \in Workers : Connect(w) \/ TakeJob(w)
  BY <1>2 DEF Connect, TakeJob
<1>3. CASE StartRun \/ RunStep
  BY <1>3 DEF StartRun, ExportLine, ExportEnds, Collect, ChannelClosed, CollectReturns, CheckAuthor,
     ChecksDone, DispatchCancelled, ForwardDone, DeleteBatch, DeleteBatchFails, DeleteDone, RunStep, sending
<1>4. CASE Quarantined \/ ListChanges \/ PolicyFollows \/ Cancel \/ Kill \/ UNCHANGED vars
  BY <1>4 DEF Quarantined, ListChanges, PolicyFollows, Cancel, Kill, vars, sending
<1> QED
  BY <1>1, <1>2, <1>3, <1>4 DEF Next, WorkerStep

\* Events of one author are acknowledged oldest first.
THEOREM OldestFirstCorrect == Spec => OldestFirst
<1>1. Init => OrderInv
  BY DEF Init, OrderInv, NothingSent
<1>2. TypeOK => DataOK
  BY DEF TypeOK
<1>3. DataOK /\ OrderInv /\ [Next]_vars =>
         [\A e \in success' \ success : \A x \in EventsOf(Author[e]) :
             CreatedAt[x] < CreatedAt[e] => x \in success \cup failed]_vars
  <2> SUFFICES ASSUME DataOK, OrderInv, [Next]_vars, NEW e \in success' \ success,
                      NEW x \in EventsOf(Author[e]), CreatedAt[x] < CreatedAt[e]
               PROVE  x \in success \cup failed
    OBVIOUS
  <2>1. PICK w \in Workers : e \in NextOldest(job[w])
    BY OnlyPublishAcknowledges
  <2>2. x \in job[w] \cup success \cup failed
    BY <2>1 DEF OrderInv, NextOldest
  <2>3. x \notin job[w]
    <3>1. e \in Events /\ x \in Events
      BY <2>1 DEF NextOldest, EventsOf, DataOK
    <3> QED
      BY <2>1, <3>1, RescuerConstants DEF NextOldest
  <2> QED
    BY <2>2, <2>3
<1> QED
  BY <1>1, <1>2, <1>3, TypeCorrect, OrderStep, PTL DEF Spec, OldestFirst
-----------------------------------------------------------------------------
(* A clean run rescues everything                                          *)

\* What holds at each phase of a run in which nothing has failed or changed: no
\* readable line of the export is dropped, no whitelisted author is left out, no
\* publish fails, and nothing that was deleted comes back.
CleanRun ==
    /\ ~cancelled /\ listed = accepts
    /\ \A w \in Workers : worker[w] # "dead"
    /\ phase \in {"export", "awaitExit"} =>
          /\ export # "error" /\ (export = "ok" => lines = {})
          /\ snapshot \ Unreadable \subseteq lines \cup channel \cup collected
    /\ phase = "awaitExit" => channel = {} /\ export = "ok"
    /\ phase \in {"check", "forward", "delete"} =>
          snapshot \ Unreadable \subseteq collected /\ approved \subseteq listed
    /\ phase = "check" =>
          \A e \in collected : Author[e] \in listed => Author[e] \in unchecked \cup approved
    /\ phase \in {"forward", "delete"} =>
          /\ \A e \in collected : Author[e] \in listed => Author[e] \in approved
          /\ failed = {}
    /\ phase = "delete" => undeleted = {} /\ deleted \cap quarantine = {}

CleanInv == clean /\ Limit = 0 => CleanRun /\ RescuesEverything

\* Every step keeps it, or the run is no longer clean.
LEMMA CleanStep == DataOK /\ NoLossInv /\ SummaryInv /\ CleanInv /\ [Next]_vars => CleanInv'
<1> SUFFICES ASSUME DataOK, NoLossInv, SummaryInv, CleanInv, [Next]_vars, clean', Limit = 0
             PROVE  CleanRun' /\ RescuesEverything'
  BY DEF CleanInv
<1> USE DEF DataOK, CleanRun, RescuesEverything
<1>1. CASE StartRun
  BY <1>1 DEF StartRun, lists
<1>2. ASSUME clean' = FALSE PROVE FALSE
  BY <1>2
<1>3. CASE Quarantined \/ ListChanges \/ PolicyFollows \/ Cancel \/ Kill
  BY <1>2, <1>3 DEF Quarantined, ListChanges, PolicyFollows, Cancel, Kill, Fault
<1>4. ASSUME clean' = clean PROVE CleanRun /\ RescuesEverything
  BY <1>4 DEF CleanInv
<1>5. CASE ExportLine
  BY <1>4, <1>5 DEF ExportLine, stores, lists, run, checking, sending, deleting
<1>6. CASE ExportEnds
  BY <1>2, <1>4, <1>6 DEF ExportEnds, Fault, NoFault, stores, lists, run, checking, sending, deleting
<1>7. CASE Collect
  <2>1. phase' = phase
    BY <1>7 DEF Collect, LimitReached
  <2> QED
    BY <1>4, <1>7, <2>1 DEF Collect, stores, lists, run, checking, sending, deleting
<1>8. CASE ChannelClosed
  BY <1>4, <1>8 DEF ChannelClosed, stores, lists, run, exporting, checking, sending, deleting
<1>9. CASE CollectReturns
  <2>1. /\ phase = "awaitExit" /\ CleanRun /\ approved = {}
        /\ UNCHANGED <<stores, lists, run, cancelled, exporting, approved, sending, deleting>>
    BY <1>4, <1>9 DEF CollectReturns, SummaryInv
  <2>2. snapshot \ Unreadable \subseteq collected /\ export = "ok"
    BY <2>1
  <2>3. CASE phase' = "check" /\ unchecked' = {Author[e] : e \in collected}
    BY <2>1, <2>2, <2>3 DEF stores, lists, run, exporting, sending, deleting
  <2>4. CASE phase' = "done" /\ collected = {}
    BY <2>1, <2>2, <2>4 DEF stores, lists, run, exporting, sending, deleting
  <2> QED
    BY <1>9, <2>2, <2>3, <2>4 DEF CollectReturns
<1>10. CASE CheckAuthor
  BY <1>2, <1>4, <1>10 DEF CheckAuthor, Fault, NoFault, stores, lists, run, exporting, sending, deleting
<1>11. CASE ChecksDone
  BY <1>4, <1>11 DEF ChecksDone, SummaryInv, NothingSent, stores, lists, run, exporting, checking, deleting
<1>12. ASSUME NEW w \in Workers, Connect(w) PROVE CleanRun' /\ RescuesEverything'
  BY <1>2, <1>4, <1>12 DEF Connect, Fault, NoFault, stores, lists, run, exporting, checking, deleting
<1>13. ASSUME NEW w \in Workers, TakeJob(w) PROVE CleanRun' /\ RescuesEverything'
  <2>1. worker[w] # "dead" /\ worker[w] = "up" /\ phase = "forward"
    BY <1>4, <1>13 DEF TakeJob
  <2> QED
    BY <1>4, <1>13, <2>1 DEF TakeJob, stores, lists, run, exporting, checking, deleting
<1>14. ASSUME NEW w \in Workers, Publish(w) PROVE CleanRun' /\ RescuesEverything'
  <2>1. PICK e \in job[w] : Published(e) \/ NotPublished(e)
    BY <1>14 DEF Publish, NextOldest
  <2>2. phase = "forward" /\ PilesInv /\ e \in Events
    BY <1>14 DEF Publish, SummaryInv
  <2>3. Author[e] \in approved
    BY <2>2 DEF PilesInv
  <2>4. clean' = clean
    BY <1>2, <2>1 DEF Published, NotPublished, Fault, NoFault
  <2>5. failed' = failed
    BY <1>2, <1>4, <2>1, <2>2, <2>3, <2>4 DEF Published, NotPublished, Fault
  <2> QED
    BY <1>4, <1>14, <2>2, <2>4, <2>5 DEF Publish, lists, run, exporting, checking, deleting
<1>15. CASE DispatchCancelled
  BY <1>4, <1>15 DEF DispatchCancelled
<1>16. CASE ForwardDone
  <2>1. /\ phase = "forward" /\ CleanRun /\ PilesInv /\ jobs = {} /\ \A w \in Workers : job[w] = {}
        /\ deleted = {} /\ undeleted = {}
        /\ UNCHANGED <<stores, lists, run, cancelled, exporting, checking, sending, deleted, undeleted>>
    BY <1>4, <1>16 DEF ForwardDone, SummaryInv, NothingDeleted
  <2>2. \A e \in collected : Author[e] \in listed => e \in success
    BY <2>1 DEF PilesInv
  <2>3. CASE phase' = "delete"
    BY <2>1, <2>3 DEF stores, lists, run, exporting, checking, sending
  <2>4. CASE phase' = "done" /\ success = {}
    BY <2>1, <2>2, <2>4 DEF stores, lists, run, exporting, checking, sending
  <2> QED
    BY <1>16, <2>3, <2>4 DEF ForwardDone
<1>17. CASE DeleteBatch
  BY <1>4, <1>17 DEF DeleteBatch, MatchesFilter, lists, run, exporting, checking, sending
<1>18. CASE DeleteBatchFails
  BY <1>2, <1>4, <1>18 DEF DeleteBatchFails, Fault, NoFault
<1>19. CASE DeleteDone
  <2>1. /\ phase = "delete" /\ CleanRun /\ BatchesInv /\ batches = {} /\ phase' = "done"
        /\ success \cup failed = {e \in collected : Author[e] \in approved}
        /\ UNCHANGED <<stores, lists, run, cancelled, exporting, checking, sending, deleting>>
    BY <1>4, <1>19 DEF DeleteDone, SummaryInv
  <2>2. success \subseteq deleted /\ success \subseteq main
    BY <2>1 DEF BatchesInv, NoLossInv
  <2>3. \A e \in snapshot \ Unreadable : Author[e] \in listed => e \in success
    BY <2>1
  <2> QED
    BY <2>1, <2>2, <2>3 DEF stores, lists, run, exporting, checking, sending, deleting
<1>20. CASE UNCHANGED vars
  BY <1>4, <1>20 DEF vars, stores, lists, run, exporting, checking, sending, deleting
<1> QED
  BY <1>1, <1>3, <1>5, <1>6, <1>7, <1>8, <1>9, <1>10, <1>11, <1>12, <1>13, <1>14, <1>15, <1>16, <1>17,
     <1>18, <1>19, <1>20 DEF Next, RunStep, WorkerStep

\* A run without a limit during which nothing failed or changed has moved every
\* readable event of a whitelisted author to the main relay.
THEOREM RescueComplete == Spec => []RescuesEverything
<1>1. Init => CleanInv /\ NoLossInv /\ SummaryInv
  BY DEF Init, CleanInv, NoLossInv, NoLoss, SummaryInv, SummaryAddsUp
<1>2. TypeOK => DataOK /\ batches \subseteq Batch
  BY DEF TypeOK, DataOK
<1>3. CleanInv => RescuesEverything
  BY DEF CleanInv, RescuesEverything
<1> QED
  BY <1>1, <1>2, <1>3, TypeCorrect, NoLossStep, SummaryStep, CleanStep, PTL DEF Spec
=============================================================================
