--------------------------- MODULE ForwarderProofs ---------------------------
(***************************************************************************)
(* Proofs about Forwarder, for every set of events, window size, lag,      *)
(* tolerance, batch limit and number of faults and crashes.                *)
(***************************************************************************)
EXTENDS Forwarder, FiniteSetTheorems, TLAPS

\* A connection handle is up or down after every step.
LEMMA HandlesStep == HandlesOK /\ [Next]_vars => HandlesOK'
<1> SUFFICES ASSUME HandlesOK, [Next]_vars PROVE HandlesOK'
  OBVIOUS
<1> USE DEF HandlesOK
<1>1. CASE Boot
  BY <1>1, Zenon DEF Boot
<1>2. CASE GetOrCreateWindow
  BY <1>2, Zenon DEF GetOrCreateWindow, ResumeWindow
<1>3. CASE GetWindowFails
  BY <1>3, Zenon DEF GetWindowFails
<1>4. CASE SwitchToRealtime
  BY <1>4, Zenon DEF SwitchToRealtime
<1>5. CASE QueryWindow
  BY <1>5, Zenon DEF QueryWindow
<1>6. CASE ForwardNext
  BY <1>6, Zenon DEF ForwardNext
<1>7. CASE SaveWindow
  BY <1>7, Zenon DEF SaveWindow, Update
<1>8. CASE SaveWindowFails
  BY <1>8, Zenon DEF SaveWindowFails, UpdateFails
<1>9. CASE Subscribe
  BY <1>9, Zenon DEF Subscribe
<1>10. CASE SubscribeFails
  BY <1>10, Zenon DEF SubscribeFails
<1>11. CASE LiveForward
  BY <1>11, Zenon DEF LiveForward
<1>12. CASE LiveForwardFails
  BY <1>12, Zenon DEF LiveForwardFails
<1>13. CASE LiveClosed
  BY <1>13, Zenon DEF LiveClosed
<1>14. CASE Tick
  BY <1>14, Zenon DEF Tick, process
<1>15. CASE NewEvent
  BY <1>15, Zenon DEF NewEvent
<1>16. CASE DropSource
  BY <1>16, Zenon DEF DropSource
<1>17. CASE DropDeepfry
  BY <1>17, Zenon DEF DropDeepfry
<1>18. CASE SubscriptionClosed
  BY <1>18, Zenon DEF SubscriptionClosed
<1>19. CASE Crash
  BY <1>19, Zenon DEF Crash
<1>20. CASE Restart
  BY <1>20, Zenon DEF Restart
<1>21. CASE UNCHANGED vars
  BY <1>21, Zenon DEF vars, process
<1> QED
  BY <1>1, <1>2, <1>3, <1>4, <1>5, <1>6, <1>7, <1>8, <1>9, <1>10, <1>11, <1>12,
     <1>13, <1>14, <1>15, <1>16, <1>17, <1>18, <1>19, <1>20, <1>21
     DEF Next, ForwarderStep, Environment

\* Everything else keeps its type in every step.
LEMMA DataStep == DataOK /\ [Next]_vars => DataOK'
<1> SUFFICES ASSUME DataOK, [Next]_vars PROVE DataOK'
  OBVIOUS
<1> USE ForwarderConstants DEF DataOK, Window, PCs, Arrived
<1>1. CASE Boot
  BY <1>1 DEF Boot, relays, Fault
<1>2. CASE GetOrCreateWindow
  BY <1>2 DEF GetOrCreateWindow, ResumeWindow, relays, NewWindow, NextWindow, NewWindowFromStart
<1>3. CASE GetWindowFails
  BY <1>3 DEF GetWindowFails, relays
<1>4. CASE SwitchToRealtime
  BY <1>4 DEF SwitchToRealtime, relays
<1>5. CASE QueryWindow
  BY <1>5 DEF QueryWindow, relays, Newest, Matching
<1>6. CASE ForwardNext
  <2>1. deepfry' \subseteq Arrived /\ faults' \in Nat
    BY <1>6 DEF ForwardNext, Forwarded, NotForwarded, Fault
  <2>2. inbox' \subseteq inbox
    BY <1>6 DEF ForwardNext
  <2> QED
    BY <1>6, <2>1, <2>2 DEF ForwardNext
<1>7. CASE SaveWindow
  <2>1. window \in Window /\ window.from \in Int /\ window.to \in Int
    BY <1>7 DEF SaveWindow, Update
  <2>2. window' \in Window /\ saved' \in Window
    BY <1>7, <2>1 DEF SaveWindow, Update, NextWindow, NewWindowFromStart
  <2>3. synced' \subseteq Int
    <3>1. \A a, b \in Int : a .. b - 1 \subseteq Int
      OBVIOUS
    <3>2. synced' = synced \cup (window.from .. window.to - 1)
      BY <1>7, Zenon DEF SaveWindow, Update
    <3>3. synced \subseteq Int
      OBVIOUS
    <3> HIDE DEF Window, DataOK
    <3> QED
      BY <2>1, <3>1, <3>2, <3>3
  <2> QED
    BY <1>7, <2>2, <2>3 DEF SaveWindow, Update
<1>8. CASE SaveWindowFails
  <2>1. saved' \in Window \cup {None} /\ faults' \in Nat
    BY <1>8 DEF SaveWindowFails, UpdateFails, Fault
  <2>2. pc' \in {"loop", "down"}
    BY <1>8, Zenon DEF SaveWindowFails, UpdateFails
  <2>3. pc = "stream" /\ UNCHANGED <<now, created, deepfry, synced, crashes, startTime,
                                    window, inbox, sinceUpdate>>
    BY <1>8, Zenon DEF SaveWindowFails, UpdateFails
  <2> QED
    BY <2>1, <2>2, <2>3
<1>9. CASE Subscribe
  BY <1>9 DEF Subscribe, relays, Newest, Backlog
<1>10. CASE SubscribeFails
  BY <1>10 DEF SubscribeFails, relays
<1>11. CASE LiveForward
  BY <1>11 DEF LiveForward, UpdateDue, UpdateRealtimeWindow, Update, UpdateFails, RealtimeWindow, Fault
<1>12. CASE LiveForwardFails
  BY <1>12 DEF LiveForwardFails, NotForwarded, Fault
<1>13. CASE LiveClosed
  BY <1>13 DEF LiveClosed, relays
<1>14. CASE Tick
  BY <1>14 DEF Tick, process, relays
<1>15. CASE NewEvent
  <2>1. PICK e \in Events \ Arrived, t \in now - MaxDelay .. now :
           /\ created' = [created EXCEPT ![e] = t]
           /\ inbox' = IF pc = "live" /\ srcUp THEN inbox \cup {e} ELSE inbox
    BY <1>15 DEF NewEvent
  <2>2. t \in Int
    OBVIOUS
  <2>3. created' \in [Events -> Int \cup {None}]
    BY <2>1, <2>2
  <2>4. Arrived' = Arrived \cup {e}
    BY <2>1, <2>2
  <2>5. inbox' \subseteq inbox \cup {e}
    BY <2>1
  <2> QED
    BY <1>15, <2>3, <2>4, <2>5 DEF NewEvent
<1>16. CASE DropSource
  BY <1>16 DEF DropSource, relays, Fault
<1>17. CASE DropDeepfry
  BY <1>17 DEF DropDeepfry, relays, Fault
<1>18. CASE SubscriptionClosed
  BY <1>18 DEF SubscriptionClosed, relays, Fault
<1>19. CASE Crash
  BY <1>19 DEF Crash, relays
<1>20. CASE Restart
  BY <1>20 DEF Restart, relays
<1>21. CASE UNCHANGED vars
  BY <1>21 DEF vars, process, relays
<1> QED
  BY <1>1, <1>2, <1>3, <1>4, <1>5, <1>6, <1>7, <1>8, <1>9, <1>10, <1>11, <1>12,
     <1>13, <1>14, <1>15, <1>16, <1>17, <1>18, <1>19, <1>20, <1>21
     DEF Next, ForwarderStep, Environment

\* Every variable keeps its type in every behaviour.
THEOREM TypeCorrect == Spec => []TypeOK
<1>1. Init => HandlesOK
  BY Zenon DEF Init, HandlesOK
<1>2. Init => DataOK
  BY ForwarderConstants DEF Init, DataOK, PCs, Arrived
<1> QED
  BY <1>1, <1>2, HandlesStep, DataStep, PTL DEF Spec, TypeOK

-----------------------------------------------------------------------------
(* Resuming from the stored window                                         *)

\* The strengthened resume invariant is preserved by every step.
LEMMA ResumeStep == DataOK /\ ResumeInv /\ [Next]_vars => ResumeInv'
<1> SUFFICES ASSUME DataOK, ResumeInv, [Next]_vars PROVE ResumeInv'
  OBVIOUS
<1> USE ForwarderConstants DEF DataOK, Window, ResumeInv, BeyondLag
<1>1. CASE Boot
  BY <1>1 DEF Boot, relays
<1>2. CASE GetOrCreateWindow
  BY <1>2 DEF GetOrCreateWindow, ResumeWindow, relays, NewWindow, NextWindow, NewWindowFromStart
<1>3. CASE GetWindowFails
  BY <1>3 DEF GetWindowFails, relays
<1>4. CASE SwitchToRealtime
  BY <1>4 DEF SwitchToRealtime, relays
<1>5. CASE QueryWindow
  BY <1>5 DEF QueryWindow, relays
<1>6. CASE ForwardNext
  BY <1>6 DEF ForwardNext
<1>7. CASE SaveWindow
  BY <1>7 DEF SaveWindow, Update, NextWindow, NewWindowFromStart
<1>8. CASE SaveWindowFails
  BY <1>8 DEF SaveWindowFails, UpdateFails
<1>9. CASE Subscribe
  BY <1>9 DEF Subscribe, relays
<1>10. CASE SubscribeFails
  BY <1>10 DEF SubscribeFails, relays
<1>11. CASE LiveForward
  BY <1>11 DEF LiveForward, UpdateRealtimeWindow, Update, UpdateFails, RealtimeWindow
<1>12. CASE LiveForwardFails
  BY <1>12 DEF LiveForwardFails
<1>13. CASE LiveClosed
  BY <1>13 DEF LiveClosed, relays
<1>14. CASE Tick
  BY <1>14 DEF Tick, process, relays
<1>15. CASE NewEvent
  BY <1>15 DEF NewEvent
<1>16. CASE DropSource
  BY <1>16 DEF DropSource, relays
<1>17. CASE DropDeepfry
  BY <1>17 DEF DropDeepfry, relays
<1>18. CASE SubscriptionClosed
  BY <1>18 DEF SubscriptionClosed, relays
<1>19. CASE Crash
  BY <1>19 DEF Crash, relays
<1>20. CASE Restart
  BY <1>20 DEF Restart, relays
<1>21. CASE UNCHANGED vars
  BY <1>21 DEF vars, process, relays
<1> QED
  BY <1>1, <1>2, <1>3, <1>4, <1>5, <1>6, <1>7, <1>8, <1>9, <1>10, <1>11, <1>12,
     <1>13, <1>14, <1>15, <1>16, <1>17, <1>18, <1>19, <1>20, <1>21
     DEF Next, ForwarderStep, Environment

\* The strengthened resume invariant holds in every behaviour.
THEOREM ResumeInvariant == Spec => []ResumeInv
<1>1. Init => ResumeInv
  BY DEF Init, ResumeInv
<1>2. []DataOK /\ ResumeInv /\ [][Next]_vars => []ResumeInv
  BY ResumeStep, PTL
<1> QED
  BY <1>1, <1>2, TypeCorrect, PTL DEF Spec, TypeOK

\* A process without a configured start time resumes where the stored window
\* ends (window.go, GetOrCreate; sync_windowed.go, Run).
THEOREM ResumeCorrect == Spec => []ResumesFromSaved
<1>1. ResumeInv => ResumesFromSaved
  BY DEF ResumeInv, ResumesFromSaved, Resumes
<1> QED
  BY <1>1, ResumeInvariant, PTL

\* Without a configured start time the stored window never moves back
\* (sync_windowed.go, Run; forwarder.go, updateRealtimeWindow).
THEOREM SavedNeverMovesBack == Spec => SavedMonotone
<1> DEFINE Forward == startTime = None /\ saved # None => saved'.to >= saved.to
<1>1. DataOK /\ ResumeInv /\ [Next]_vars => [Forward]_vars
  <2> SUFFICES ASSUME DataOK, ResumeInv, Next, startTime = None, saved # None
               PROVE  saved'.to >= saved.to
    OBVIOUS
  <2>1. saved.to \in Int /\ now \in Int /\ saved.to <= now
    BY DEF DataOK, Window, ResumeInv
  <2>2. CASE SaveWindow \/ SaveWindowFails
    BY <2>1, <2>2, ForwarderConstants
       DEF SaveWindow, Update, SaveWindowFails, UpdateFails, DataOK, Window, ResumeInv
  <2>3. CASE LiveForward
    BY <2>1, <2>3 DEF LiveForward, UpdateRealtimeWindow, Update, UpdateFails, RealtimeWindow
  <2>4. CASE ~(SaveWindow \/ SaveWindowFails \/ LiveForward)
    <3>1. saved' = saved
      BY <2>4 DEF Next, ForwarderStep, Environment, relays, Boot, GetOrCreateWindow, ResumeWindow,
         GetWindowFails, SwitchToRealtime, QueryWindow, ForwardNext, Subscribe,
         SubscribeFails, LiveForwardFails, LiveClosed, Tick, NewEvent, DropSource,
         DropDeepfry, SubscriptionClosed, Crash, Restart
    <3> QED
      BY <2>1, <3>1
  <2> QED
    BY <2>2, <2>3, <2>4
<1>2. Spec => [][Forward]_vars
  BY <1>1, TypeCorrect, ResumeInvariant, PTL DEF Spec, TypeOK
<1> QED
  BY <1>2 DEF SavedMonotone

-----------------------------------------------------------------------------
(* Coverage                                                                *)

\* A limit that every event fits under truncates nothing.
LEMMA NewestIsAll ==
  ASSUME WithinLimits, NEW S \in SUBSET Events, NEW B \in Newest(S)
  PROVE  B = S
<1>1. B \in SUBSET S /\ (B # S => Cardinality(B) = MaxBatch)
  BY DEF Newest
<1>2. SUFFICES ASSUME B # S PROVE FALSE
  OBVIOUS
<1>3. B \in SUBSET Events /\ B # Events
  BY <1>1, <1>2
<1>4. /\ Cardinality(B) <= Cardinality(Events)
      /\ Cardinality(Events) = Cardinality(B) => Events = B
      /\ IsFiniteSet(B)
  BY <1>3, EventsFinite, FS_Subset
<1>5. Cardinality(B) \in Nat /\ Cardinality(Events) \in Nat
  BY <1>4, EventsFinite, FS_CardinalityType
<1> QED
  BY <1>1, <1>2, <1>3, <1>4, <1>5 DEF WithinLimits

\* The strengthened coverage invariant is preserved by every step.
LEMMA CoverageStep ==
  ASSUME WithinLimits, DataOK, ResumeInv, CoverageInv, [Next]_vars
  PROVE  CoverageInv'
<1> USE ForwarderConstants DEF DataOK, CoverageInv, Arrived, Running, PCs
<1>1. CASE Boot
  BY <1>1 DEF Boot, relays, Fault
<1>2. CASE GetOrCreateWindow
  BY <1>2 DEF GetOrCreateWindow, ResumeWindow, relays
<1>3. CASE GetWindowFails
  BY <1>3 DEF GetWindowFails, relays
<1>4. CASE SwitchToRealtime
  BY <1>4 DEF SwitchToRealtime, relays
<1>5. CASE QueryWindow
  <2>1. inbox' = Matching(window)
    BY <1>5, NewestIsAll, Matching(window) \in SUBSET Events DEF QueryWindow, Matching
  <2>2. \A e \in Arrived : created[e] \in window.from .. window.to - 1 => e \in inbox'
    BY <1>5, <2>1 DEF Matching, QueryWindow, Window
  <2> QED
    BY <1>5, <2>2 DEF QueryWindow, relays
<1>6. CASE ForwardNext
  <2>1. CASE faults' = 0
    <3>1. faults = 0 /\ \E e \in inbox : inbox' = inbox \ {e} /\ deepfry' = deepfry \cup {e}
      BY <1>6, <2>1 DEF ForwardNext, Forwarded, NotForwarded, Fault
    <3> QED
      BY <1>6, <3>1 DEF ForwardNext
  <2>2. CASE faults' # 0
    BY <1>6, <2>2 DEF ForwardNext
  <2> QED
    BY <2>1, <2>2
<1>7. CASE SaveWindow
  <2>1. window.from \in Int /\ window.to \in Int /\ now >= window.to + MaxCatchupLag
    BY <1>7 DEF SaveWindow, Update, ResumeInv, BeyondLag, Window
  <2>2. \A t \in window.from .. window.to - 1 : t + MaxDelay < now
    BY <2>1 DEF WithinLimits
  <2> QED
    BY <1>7, <2>2 DEF SaveWindow, Update
<1>8. CASE SaveWindowFails
  BY <1>8 DEF SaveWindowFails, UpdateFails, Fault
<1>9. CASE Subscribe
  <2>1. inbox' = Arrived
    BY <1>9, NewestIsAll, Arrived \in SUBSET Events DEF Subscribe, Backlog
  <2> QED
    BY <1>9, <2>1 DEF Subscribe, relays
<1>10. CASE SubscribeFails
  BY <1>10 DEF SubscribeFails, relays
<1>11. CASE LiveForward
  <2>1. CASE faults' = 0
    <3>1. faults = 0
      BY <1>11, <2>1 DEF LiveForward, UpdateRealtimeWindow, Update, UpdateFails, Fault
    <3> QED
      BY <1>11, <3>1 DEF LiveForward
  <2>2. CASE faults' # 0
    BY <1>11, <2>2 DEF LiveForward
  <2> QED
    BY <2>1, <2>2
<1>12. CASE LiveForwardFails
  <2>1. faults' # 0
    BY <1>12 DEF LiveForwardFails, NotForwarded, Fault
  <2>2. deepfry \subseteq deepfry'
    BY <1>12 DEF LiveForwardFails, NotForwarded
  <2> QED
    BY <1>12, <2>1, <2>2 DEF LiveForwardFails
<1>13. CASE LiveClosed
  BY <1>13 DEF LiveClosed, relays
<1>14. CASE Tick
  BY <1>14 DEF Tick, process, relays
<1>15. CASE NewEvent
  <2>1. PICK e \in Events \ Arrived, t \in now - MaxDelay .. now :
           /\ created' = [created EXCEPT ![e] = t]
           /\ inbox' = IF pc = "live" /\ srcUp THEN inbox \cup {e} ELSE inbox
    BY <1>15 DEF NewEvent
  <2>2. t \in Int /\ t + MaxDelay >= now
    OBVIOUS
  <2>3. t \notin synced
    BY <2>2
  <2>4. pc = "stream" => t \notin window.from .. window.to - 1
    BY <2>2 DEF ResumeInv, BeyondLag, WithinLimits, Window
  <2>5. Arrived' = Arrived \cup {e}
    BY <2>1, <2>2
  <2>6. \A x \in Arrived : created'[x] = created[x]
    BY <2>1
  <2>7. created'[e] = t
    BY <2>1
  <2>8. faults = 0 /\ pc = "live" => e \in inbox'
    BY <2>1
  <2>9. inbox \subseteq inbox'
    BY <2>1
  <2> QED
    BY <1>15, <2>3, <2>4, <2>5, <2>6, <2>7, <2>8, <2>9 DEF NewEvent
<1>16. CASE DropSource
  BY <1>16 DEF DropSource, relays, Fault
<1>17. CASE DropDeepfry
  BY <1>17 DEF DropDeepfry, relays, Fault
<1>18. CASE SubscriptionClosed
  BY <1>18 DEF SubscriptionClosed, relays, Fault
<1>19. CASE Crash
  BY <1>19 DEF Crash, relays
<1>20. CASE Restart
  BY <1>20 DEF Restart, relays
<1>21. CASE UNCHANGED vars
  BY <1>21 DEF vars, process, relays
<1> QED
  BY <1>1, <1>2, <1>3, <1>4, <1>5, <1>6, <1>7, <1>8, <1>9, <1>10, <1>11, <1>12,
     <1>13, <1>14, <1>15, <1>16, <1>17, <1>18, <1>19, <1>20, <1>21
     DEF Next, ForwarderStep, Environment

\* Within the limits the strengthened coverage invariant holds throughout.
THEOREM CoverageInvariant == ASSUME WithinLimits PROVE Spec => []CoverageInv
<1>1. Init => CoverageInv
  BY DEF Init, CoverageInv, Arrived, Running
<1>2. DataOK /\ ResumeInv /\ CoverageInv /\ [Next]_vars => CoverageInv'
  BY CoverageStep
<1> QED
  BY <1>1, <1>2, TypeCorrect, ResumeInvariant, PTL DEF Spec, TypeOK

\* Every event dated in a synced and stored second is on DeepFry, for any
\* number of events, windows, restarts and late arrivals within the lag
\* (forwarder.go, syncWindow).
THEOREM WindowedCoverageCorrect == Spec => []WindowedCoverage
<1>1. CASE WithinLimits
  <2>1. CoverageInv => WindowedCoverage
    BY DEF CoverageInv, WindowedCoverage
  <2> QED
    BY <1>1, <2>1, CoverageInvariant, PTL
<1>2. CASE ~WithinLimits
  <2>1. WindowedCoverage
    BY <1>2 DEF WindowedCoverage
  <2> QED
    BY <1>2, <2>1, PTL
<1> QED
  BY <1>1, <1>2

\* A live subscription has every event of the source on DeepFry or on its way,
\* for any number of events and restarts (sync_realtime.go, Run).
THEOREM RealtimeCoverageCorrect == Spec => []RealtimeCoverage
<1>1. CASE WithinLimits
  <2>1. CoverageInv => RealtimeCoverage
    BY DEF CoverageInv, RealtimeCoverage
  <2> QED
    BY <1>1, <2>1, CoverageInvariant, PTL
<1>2. CASE ~WithinLimits
  <2>1. RealtimeCoverage
    BY <1>2 DEF RealtimeCoverage
  <2> QED
    BY <1>2, <2>1, PTL
<1> QED
  BY <1>1, <1>2
=============================================================================
