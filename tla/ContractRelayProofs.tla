------------------------- MODULE ContractRelayProofs -------------------------
(***************************************************************************)
(* Theorems about ContractRelay, for any set of producers, any length of   *)
(* the log and any number of faults.                                       *)
(***************************************************************************)
EXTENDS ContractRelay, TLAPS

Processing == {"transform", "publishing", "acking"}

(* processEvent has an event in hand, and publishes in no other phase.     *)
EventInHand ==
  /\ phase \in Processing => cur \in Events
  /\ phase # "publishing" => \A p \in Producers : pub[p] = "idle"

TypeInv == TypeOK /\ EventInHand

(* The stream cursor is level with the bookmark while the engine waits and *)
(* one ahead while an event is in hand; an event about to be acknowledged  *)
(* is settled.                                                             *)
StreamInv ==
  /\ phase = "select" => pos = confirmed
  /\ phase \in Processing => acking /\ cur = pos /\ pos = confirmed + 1
  /\ phase = "acking" => Settled(cur)
  /\ phase = "publishing" =>
       \A p \in Producers : pub[p] = "ok" => cur \in delivered[p]
  /\ phase # "snapshot"
  /\ AtLeastOnce

NoDialPending == \A p \in Producers : dial[p] = "idle"

(* Connect goroutines outlive connectProducers only if ctx is done.        *)
CleanupInv ==
  /\ phase \in {"capture", "select", "unwind"} \cup Processing => NoDialPending
  /\ phase \in {"closing", "failed"} => cancelled \/ (open = {} /\ NoDialPending)
  /\ RetryStartsClean

-----------------------------------------------------------------------------
(* A step of the relay is a step of exactly one piece of code: the case    *)
(* split that every proof below follows.                                   *)
LEMMA StepCases ==
  ASSUME [Next]_vars
  PROVE  \/ Connect \/ ConnectFailed
         \/ \E p \in Producers : CollectDial(p) /\ UNCHANGED sourceVars
         \/ DialCancelled /\ UNCHANGED sourceVars
         \/ DialsCollected /\ UNCHANGED sourceVars
         \/ Capture \/ CaptureRefused \/ HandOver \/ StreamBroken
         \/ StreamCancelled /\ UNCHANGED sourceVars
         \/ TransformKeeps /\ UNCHANGED sourceVars
         \/ TransformDrops /\ UNCHANGED sourceVars
         \/ TransformFails /\ UNCHANGED sourceVars
         \/ PublishDone /\ UNCHANGED sourceVars
         \/ AckDone \/ AckRefused
         \/ Unwind /\ UNCHANGED sourceVars
         \/ SourceClosed /\ UNCHANGED sourceVars
         \/ StartBackoff /\ UNCHANGED sourceVars
         \/ Retry /\ UNCHANGED sourceVars
         \/ BackoffCancelled /\ UNCHANGED sourceVars
         \/ \E p \in Producers : DialOk(p) /\ UNCHANGED sourceVars
         \/ \E p \in Producers : DialFailed(p) /\ UNCHANGED sourceVars
         \/ \E p \in Producers : PublishOk(p) /\ UNCHANGED sourceVars
         \/ \E p \in Producers : PublishFailed(p) /\ UNCHANGED sourceVars
         \/ Produce
         \/ Cancel /\ UNCHANGED sourceVars
         \/ Crash /\ UNCHANGED sourceVars
         \/ UNCHANGED vars
  BY DEF Next, Main, Untransformed, Terminated, DialReturns, PublishReturns

(* The Boolean variables stay Boolean.                                     *)
LEMMA FlagsStep ==
  ASSUME FlagsOK, [Next]_vars
  PROVE  FlagsOK'
<1> USE DEF FlagsOK
<1>1. CASE Connect \/ ConnectFailed \/ Capture \/ CaptureRefused
           \/ HandOver \/ StreamBroken \/ AckDone \/ AckRefused
  BY <1>1, Zenon DEF Connect, ConnectFailed, Capture, CaptureRefused, HandOver,
       StreamBroken, AckDone, AckRefused, SourceConnected, SourceConnectFailed,
       CaptureStarted, CaptureFailed, RunFails, Receive, Acked, AckFailed
<1>2. CASE (\E p \in Producers : CollectDial(p)) \/ DialCancelled
           \/ DialsCollected
           \/ \E p \in Producers : DialOk(p) \/ DialFailed(p)
  BY <1>2, Zenon DEF CollectDial, DialCancelled, DialsCollected, DialOk,
       DialFailed
<1>3. CASE StreamCancelled \/ TransformKeeps \/ TransformDrops
           \/ TransformFails \/ PublishDone
           \/ \E p \in Producers : PublishOk(p) \/ PublishFailed(p)
  BY <1>3, Zenon DEF StreamCancelled, TransformKeeps, TransformDrops,
       TransformFails, RunFails, PublishDone, PublishOk, PublishFailed
<1>4. CASE Unwind \/ SourceClosed \/ StartBackoff \/ Retry
           \/ BackoffCancelled \/ Cancel \/ Crash
  BY <1>4, Zenon DEF Unwind, SourceClosed, StartBackoff, Retry,
       BackoffCancelled, Cancel, Crash, MemoryLost
<1>5. CASE Produce \/ UNCHANGED vars
  BY <1>5, Zenon DEF Produce, vars, engineVars
<1> QED
  BY <1>1, <1>2, <1>3, <1>4, <1>5, StepCases, Zenon

(* A failure of the environment stays within the bound.                    *)
LEMMA FaultsStep ==
  ASSUME faults \in 0..MaxFaults, Fails \/ Fault
  PROVE  faults' \in 0..MaxFaults
  BY EngineAssumption DEF EngineAssumption, Fails, Fault

LEMMA EventInHandStep ==
  ASSUME TypeOK, EventInHand, [Next]_vars
  PROVE  EventInHand'
<1> USE NoSnapshotAssumption, EngineAssumption DEF NoSnapshotAssumption,
        EngineAssumption, EventInHand, Processing, sourceVars, RunFails
<1> USE DEF TypeOK, EngineTypeOK
<1>1. CASE Connect \/ ConnectFailed \/ Capture \/ CaptureRefused
           \/ StreamBroken
  BY <1>1 DEF Connect, SourceConnected, ConnectFailed, SourceConnectFailed,
       Capture, CaptureStarted, CaptureRefused, CaptureFailed, StreamBroken
<1>2. ASSUME NEW p \in Producers,
             CollectDial(p) \/ DialOk(p) \/ DialFailed(p)
      PROVE  EventInHand'
  BY <1>2 DEF CollectDial, DialOk, DialFailed
<1>3. CASE DialCancelled \/ DialsCollected
  BY <1>3 DEF DialCancelled, DialsCollected
<1>4. CASE HandOver
  BY <1>4, LogAssumption DEF HandOver, Receive, LogAssumption
<1>5. CASE StreamCancelled \/ TransformKeeps \/ TransformDrops
           \/ TransformFails
  BY <1>5 DEF StreamCancelled, TransformKeeps, TransformDrops, TransformFails,
       SettledPhase, CallerPhase
<1>6. ASSUME NEW p \in Producers, PublishOk(p) \/ PublishFailed(p)
      PROVE  EventInHand'
  BY <1>6 DEF PublishOk, PublishFailed
<1>7. CASE PublishDone
  BY <1>7 DEF PublishDone, SettledPhase, CallerPhase
<1>8. CASE AckDone \/ AckRefused
  BY <1>8 DEF AckDone, Acked, AckRefused, AckFailed
<1>9. CASE Unwind \/ SourceClosed \/ StartBackoff \/ Retry \/ BackoffCancelled
  BY <1>9 DEF Unwind, SourceClosed, StartBackoff, Retry, BackoffCancelled
<1>10. CASE Produce \/ Cancel
  BY <1>10 DEF Produce, Cancel, engineVars
<1>11. CASE Crash
  BY <1>11 DEF Crash, MemoryLost
<1>12. CASE UNCHANGED vars
  BY <1>12 DEF vars, engineVars
<1> HIDE DEF EventInHand, TypeOK, EngineTypeOK, sourceVars, RunFails
<1> QED
  BY <1>1, <1>2, <1>3, <1>4, <1>5, <1>6, <1>7, <1>8, <1>9, <1>10, <1>11,
     <1>12, StepCases

LEMMA TypeInvariant == Spec => []TypeInv
<1> USE EngineAssumption, LogAssumption, NoSnapshotAssumption
    DEF EngineAssumption, LogAssumption, NoSnapshotAssumption
<1>1. Init => TypeInv
  <2>1. Init => FlagsOK
    BY Zenon DEF Init, EngineInit, FlagsOK
  <2>2. QED
    BY <2>1 DEF Init, TypeInv, TypeOK, EngineInit, EngineTypeOK, Phases, EventInHand,
                Processing
<1>2. TypeInv /\ [Next]_vars => TypeInv'
  <2> SUFFICES ASSUME TypeOK, EventInHand, [Next]_vars PROVE TypeOK'
    BY EventInHandStep DEF TypeInv
  <2>0. FlagsOK'
    BY FlagsStep DEF TypeOK, EngineTypeOK
  <2>1. ASSUME Fails \/ Fault PROVE faults' \in 0..MaxFaults
    BY <2>1, FaultsStep DEF TypeOK, EngineTypeOK
  <2> USE <2>0 DEF TypeOK, EngineTypeOK, Phases, sourceVars, RunFails
  <2>2. CASE Connect
    BY <2>2 DEF Connect, SourceConnected
  <2>3. CASE ConnectFailed
    BY <2>1, <2>3 DEF ConnectFailed, SourceConnectFailed
  <2>4. ASSUME NEW p \in Producers, CollectDial(p), UNCHANGED sourceVars
        PROVE  TypeOK'
    BY <2>4 DEF CollectDial
  <2>5. CASE (DialCancelled \/ DialsCollected) /\ UNCHANGED sourceVars
    BY <2>5 DEF DialCancelled, DialsCollected
  <2>6. CASE Capture
    BY <2>6 DEF Capture, CaptureStarted
  <2>7. CASE CaptureRefused \/ StreamBroken
    BY <2>1, <2>7 DEF CaptureRefused, CaptureFailed, StreamBroken
  <2>8. CASE HandOver
    BY <2>8 DEF HandOver, Receive
  <2>9. CASE (StreamCancelled \/ TransformKeeps) /\ UNCHANGED sourceVars
    BY <2>9 DEF StreamCancelled, TransformKeeps
  <2>10. CASE TransformDrops /\ UNCHANGED sourceVars
    BY <2>10 DEF TransformDrops, SettledPhase, CallerPhase
  <2>11. CASE TransformFails /\ UNCHANGED sourceVars
    BY <2>1, <2>11 DEF TransformFails
  <2>12. CASE PublishDone /\ UNCHANGED sourceVars
    BY <2>12 DEF PublishDone, SettledPhase, CallerPhase
  <2>13. CASE AckDone
    BY <2>13 DEF AckDone, Acked
  <2>14. CASE AckRefused
    BY <2>1, <2>14 DEF AckRefused, AckFailed
  <2>15. CASE (Unwind \/ SourceClosed \/ StartBackoff \/ Retry
               \/ BackoffCancelled) /\ UNCHANGED sourceVars
    BY <2>15 DEF Unwind, SourceClosed, StartBackoff, Retry, BackoffCancelled
  <2>16. ASSUME NEW p \in Producers, DialOk(p), UNCHANGED sourceVars
         PROVE  TypeOK'
    BY <2>16 DEF DialOk
  <2>17. ASSUME NEW p \in Producers, DialFailed(p), UNCHANGED sourceVars
         PROVE  TypeOK'
    BY <2>1, <2>17 DEF DialFailed
  <2>18. ASSUME NEW p \in Producers, PublishOk(p), UNCHANGED sourceVars
         PROVE  TypeOK'
    BY <2>18 DEF PublishOk, EventInHand, Processing
  <2>19. ASSUME NEW p \in Producers, PublishFailed(p), UNCHANGED sourceVars
         PROVE  TypeOK'
    BY <2>1, <2>19 DEF PublishFailed, EventInHand, Processing
  <2>20. CASE Produce
    BY <2>20 DEF Produce, engineVars
  <2>21. CASE Cancel /\ UNCHANGED sourceVars
    BY <2>21 DEF Cancel
  <2>22. CASE Crash /\ UNCHANGED sourceVars
    BY <2>1, <2>22 DEF Crash, MemoryLost
  <2>23. CASE UNCHANGED vars
    BY <2>23 DEF vars, engineVars
  <2> HIDE <2>0 DEF TypeOK, EngineTypeOK, Phases, sourceVars, RunFails
  <2> QED
    BY <2>2, <2>3, <2>4, <2>5, <2>6, <2>7, <2>8, <2>9, <2>10, <2>11, <2>12,
       <2>13, <2>14, <2>15, <2>16, <2>17, <2>18, <2>19, <2>20, <2>21, <2>22,
       <2>23, StepCases
<1>3. QED
  BY <1>1, <1>2, PTL DEF Spec

(* ContractRelay is well typed in every reachable state; in particular the *)
(* bookmark and the stream cursor never run past the log.                  *)
THEOREM TypeCorrect == Spec => []TypeOK
<1>1. TypeInv => TypeOK
  BY DEF TypeInv
<1> QED
  BY <1>1, TypeInvariant, PTL

-----------------------------------------------------------------------------
(* What the brokers received and the transforms dropped is never undone.   *)
LEMMA SettledStable ==
  ASSUME TypeInv, [Next]_vars
  PROVE  \A e : Settled(e) => Settled(e)'
<1> SUFFICES ASSUME TypeOK, EventInHand, [Next]_vars
             PROVE  /\ dropped \subseteq dropped'
                    /\ \A p \in Producers : delivered[p] \subseteq delivered'[p]
  BY DEF TypeInv, Settled
<1> USE DEF TypeOK, EngineTypeOK
<1>1. ASSUME NEW p \in Producers, PublishOk(p) \/ PublishFailed(p)
      PROVE  /\ dropped \subseteq dropped'
             /\ \A q \in Producers : delivered[q] \subseteq delivered'[q]
  BY <1>1 DEF PublishOk, PublishFailed
<1>2. CASE TransformDrops
  BY <1>2 DEF TransformDrops
<1>3. CASE UNCHANGED <<delivered, dropped>>
  BY <1>3
<1> HIDE DEF TypeOK, EngineTypeOK
<1>4. CASE Connect \/ ConnectFailed \/ Capture \/ CaptureRefused \/ HandOver
           \/ StreamBroken \/ AckDone \/ AckRefused \/ Produce
  BY <1>3, <1>4 DEF Connect, SourceConnected, ConnectFailed,
       SourceConnectFailed, Capture, CaptureStarted, CaptureRefused,
       CaptureFailed, HandOver, Receive, StreamBroken, AckDone, Acked,
       AckRefused, AckFailed, RunFails, Produce, engineVars
<1>5. CASE (\E p \in Producers : CollectDial(p) \/ DialOk(p) \/ DialFailed(p))
           \/ DialCancelled \/ DialsCollected \/ StreamCancelled
           \/ TransformKeeps \/ TransformFails \/ PublishDone
  BY <1>3, <1>5 DEF CollectDial, DialOk, DialFailed, DialCancelled,
       DialsCollected, StreamCancelled, TransformKeeps, TransformFails,
       RunFails, PublishDone
<1>6. CASE Unwind \/ SourceClosed \/ StartBackoff \/ Retry
           \/ BackoffCancelled \/ Cancel \/ Crash \/ UNCHANGED vars
  BY <1>3, <1>6 DEF Unwind, SourceClosed, StartBackoff, Retry,
       BackoffCancelled, Cancel, Crash, MemoryLost, vars, engineVars
<1> QED
  BY <1>1, <1>2, <1>4, <1>5, <1>6, StepCases

(* One step keeps the inductive invariant.                                 *)
LEMMA StreamStep ==
  ASSUME TypeInv, StreamInv, [Next]_vars
  PROVE  StreamInv'
<1> USE NoSnapshotAssumption DEF NoSnapshotAssumption, sourceVars, RunFails,
        Processing
<1>0. TypeOK /\ EventInHand /\ \A e : Settled(e) => Settled(e)'
  BY SettledStable DEF TypeInv
<1>1. ASSUME UNCHANGED confirmed PROVE AtLeastOnce'
  BY <1>0, <1>1 DEF StreamInv, AtLeastOnce
<1>2. CASE Connect \/ ConnectFailed \/ CaptureRefused \/ StreamBroken
  BY <1>1, <1>2 DEF StreamInv, Connect, SourceConnected, ConnectFailed,
       SourceConnectFailed, CaptureRefused, CaptureFailed, StreamBroken
<1>3. CASE Capture
  BY <1>1, <1>3 DEF StreamInv, Capture, CaptureStarted
<1>4. ASSUME NEW p \in Producers,
             CollectDial(p) \/ DialOk(p) \/ DialFailed(p), UNCHANGED sourceVars
      PROVE  StreamInv'
  BY <1>0, <1>1, <1>4 DEF StreamInv, CollectDial, DialOk, DialFailed
<1>5. CASE (DialCancelled \/ DialsCollected) /\ UNCHANGED sourceVars
  BY <1>1, <1>5 DEF StreamInv, DialCancelled, DialsCollected
<1>6. CASE HandOver
  BY <1>1, <1>6 DEF StreamInv, HandOver, Receive
<1>7. CASE (StreamCancelled \/ TransformFails) /\ UNCHANGED sourceVars
  BY <1>1, <1>7 DEF StreamInv, StreamCancelled, TransformFails
<1>8. CASE TransformKeeps /\ UNCHANGED sourceVars
  BY <1>1, <1>8 DEF StreamInv, TransformKeeps
<1>9. CASE TransformDrops /\ UNCHANGED sourceVars
  BY <1>1, <1>9 DEF StreamInv, TransformDrops, SettledPhase, CallerPhase,
       Settled
<1>10. ASSUME NEW p \in Producers, PublishOk(p) \/ PublishFailed(p),
              UNCHANGED sourceVars
       PROVE  StreamInv'
  BY <1>0, <1>1, <1>10 DEF StreamInv, PublishOk, PublishFailed, TypeOK,
       EngineTypeOK, EventInHand
<1>11. CASE PublishDone /\ UNCHANGED sourceVars
  BY <1>1, <1>11 DEF StreamInv, PublishDone, SettledPhase, CallerPhase, Settled
<1>12. CASE AckDone \/ AckRefused
  <2>1. AtLeastOnce'
    <3>1. pos = confirmed + 1 /\ cur = pos /\ Settled(cur)
      BY <1>12 DEF StreamInv, AckDone, Acked, AckRefused, AckFailed
    <3>2. confirmed' = confirmed \/ confirmed' = confirmed + 1
      BY <1>12, <3>1 DEF AckDone, AckRefused
    <3>3. \A e \in 1..(confirmed + 1) : Settled(e)'
      BY <1>0, <3>1 DEF StreamInv, AtLeastOnce, TypeOK
    <3>4. QED
      BY <1>1, <3>2, <3>3 DEF AtLeastOnce
  <2>2. QED
    BY <1>12, <2>1 DEF StreamInv, AckDone, Acked, AckRefused, AckFailed
<1>13. CASE (Unwind \/ SourceClosed \/ StartBackoff \/ Retry
             \/ BackoffCancelled) /\ UNCHANGED sourceVars
  BY <1>1, <1>13 DEF StreamInv, Unwind, SourceClosed, StartBackoff, Retry,
       BackoffCancelled
<1>14. CASE Produce
  BY <1>0, <1>1, <1>14 DEF StreamInv, Produce, engineVars
<1>15. CASE Cancel /\ UNCHANGED sourceVars
  BY <1>0, <1>1, <1>15 DEF StreamInv, Cancel
<1>16. CASE Crash /\ UNCHANGED sourceVars
  BY <1>1, <1>16 DEF StreamInv, Crash, MemoryLost
<1>17. CASE UNCHANGED vars
  BY <1>0, <1>1, <1>17 DEF StreamInv, vars, engineVars
<1> HIDE DEF sourceVars, RunFails, Processing
<1> QED
  BY <1>2, <1>3, <1>4, <1>5, <1>6, <1>7, <1>8, <1>9, <1>10, <1>11, <1>12,
     <1>13, <1>14, <1>15, <1>16, <1>17, StepCases

LEMMA StreamInvariant == Spec => []StreamInv
<1>1. Init => StreamInv
  BY DEF Init, EngineInit, StreamInv, AtLeastOnce, Processing
<1> QED
  BY <1>1, StreamStep, TypeInvariant, PTL DEF Spec

(* At-least-once delivery, for any number of producers, events and faults: *)
(* the engine never lets a contract-keeping source forget an event that is *)
(* not at every producer and was not dropped by a transform.               *)
THEOREM DeliveredAtLeastOnce == Spec => []AtLeastOnce
<1>1. StreamInv => AtLeastOnce
  BY DEF StreamInv
<1> QED
  BY <1>1, StreamInvariant, PTL

-----------------------------------------------------------------------------
LEMMA CleanupStep ==
  ASSUME TypeInv, CleanupInv, [Next]_vars
  PROVE  CleanupInv'
<1> USE NoSnapshotAssumption DEF NoSnapshotAssumption, sourceVars, RunFails,
        Processing, CleanupInv, NoDialPending, RetryStartsClean
<1>0. TypeOK
  BY DEF TypeInv
<1>1. CASE Connect \/ ConnectFailed
  BY <1>1 DEF Connect, SourceConnected, ConnectFailed, SourceConnectFailed
<1>2. ASSUME NEW p \in Producers, CollectDial(p)
      PROVE  CleanupInv'
  BY <1>2 DEF CollectDial
<1>3. ASSUME NEW p \in Producers, DialOk(p) \/ DialFailed(p)
      PROVE  CleanupInv'
  BY <1>0, <1>3 DEF DialOk, DialFailed, TypeOK, EngineTypeOK
<1>4. CASE DialCancelled \/ DialsCollected
  BY <1>4 DEF DialCancelled, DialsCollected
<1>5. CASE Capture \/ CaptureRefused \/ HandOver \/ StreamBroken
  BY <1>5 DEF Capture, CaptureStarted, CaptureRefused, CaptureFailed,
       HandOver, Receive, StreamBroken
<1>6. CASE StreamCancelled \/ TransformKeeps \/ TransformDrops
           \/ TransformFails
  BY <1>6 DEF StreamCancelled, TransformKeeps, TransformDrops,
       TransformFails, SettledPhase, CallerPhase
<1>7. ASSUME NEW p \in Producers, PublishOk(p) \/ PublishFailed(p)
      PROVE  CleanupInv'
  BY <1>7 DEF PublishOk, PublishFailed
<1>8. CASE PublishDone
  BY <1>8 DEF PublishDone, SettledPhase, CallerPhase
<1>9. CASE AckDone \/ AckRefused
  BY <1>9 DEF AckDone, Acked, AckRefused, AckFailed
<1>10. CASE Unwind \/ SourceClosed
  BY <1>10 DEF Unwind, SourceClosed
<1>11. CASE StartBackoff \/ Retry \/ BackoffCancelled
  BY <1>11 DEF StartBackoff, Retry, BackoffCancelled
<1>12. CASE Produce \/ Cancel
  BY <1>12 DEF Produce, Cancel, engineVars
<1>13. CASE Crash
  BY <1>13 DEF Crash, MemoryLost
<1>14. CASE UNCHANGED vars
  BY <1>14 DEF vars, engineVars
<1> HIDE DEF sourceVars, RunFails, Processing, CleanupInv, NoDialPending,
             RetryStartsClean
<1> QED
  BY <1>1, <1>2, <1>3, <1>4, <1>5, <1>6, <1>7, <1>8, <1>9, <1>10, <1>11,
     <1>12, <1>13, <1>14, StepCases

(* No failure path of run leaves a producer connected or connecting for    *)
(* the next run: the closes of connectProducers and the deferred ones of   *)
(* run cover every exit but the one a cancelled context takes.             *)
THEOREM RetriesStartClean == Spec => []RetryStartsClean
<1>1. Init => CleanupInv
  BY DEF Init, EngineInit, CleanupInv, NoDialPending, RetryStartsClean,
         Processing
<1>2. Spec => []CleanupInv
  BY <1>1, CleanupStep, TypeInvariant, PTL DEF Spec
<1>3. CleanupInv => RetryStartsClean
  BY DEF CleanupInv
<1> QED
  BY <1>2, <1>3, PTL

-----------------------------------------------------------------------------
(* A step of the relay publishes or drops the event after the bookmark, or *)
(* moves the bookmark past it once it is settled, or does not show.        *)
LEMMA RefinementStep ==
  ASSUME TypeInv, StreamInv, [Next]_vars
  PROVE  [D!Next]_(D!vars)
<1> USE LogAssumption DEF LogAssumption, D!vars, D!Next, D!Log, sourceVars,
        RunFails
<1>0. TypeOK /\ EventInHand /\ StreamInv
  BY DEF TypeInv
<1>1. ASSUME NEW p \in Producers, PublishOk(p) \/ PublishFailed(p),
             UNCHANGED sourceVars
      PROVE  [D!Next]_(D!vars)
  <2>1. cur = confirmed + 1 /\ cur \in Events
    BY <1>0, <1>1 DEF StreamInv, EventInHand, Processing, PublishOk,
         PublishFailed
  <2>2. D!Publish(p) \/ UNCHANGED D!vars
    BY <1>1, <2>1 DEF PublishOk, PublishFailed, D!Publish
  <2>3. QED
    BY <2>2
<1>2. CASE TransformDrops /\ UNCHANGED sourceVars
  <2>1. cur = confirmed + 1 /\ cur \in Events
    BY <1>0, <1>2 DEF StreamInv, EventInHand, Processing, TransformDrops
  <2>2. D!Drop
    BY <1>2, <2>1 DEF TransformDrops, D!Drop
  <2>3. QED
    BY <2>2
<1>3. CASE AckDone \/ AckRefused
  <2>1. /\ cur = confirmed + 1 /\ pos = cur
        /\ cur \in Events
        /\ Settled(cur)
    BY <1>0, <1>3 DEF StreamInv, EventInHand, Processing, AckDone, Acked,
         AckRefused, AckFailed
  <2>2. D!Confirm \/ UNCHANGED D!vars
    BY <1>3, <2>1 DEF AckDone, Acked, AckRefused, AckFailed, D!Confirm,
         Settled, D!Settled
  <2>3. QED
    BY <2>2
<1>4. CASE Connect \/ ConnectFailed \/ Capture \/ CaptureRefused \/ HandOver
           \/ StreamBroken \/ Produce
  BY <1>4 DEF Connect, SourceConnected, ConnectFailed, SourceConnectFailed,
       Capture, CaptureStarted, CaptureRefused, CaptureFailed, HandOver,
       Receive, StreamBroken, Produce, engineVars
<1>5. CASE /\ \/ \E p \in Producers : CollectDial(p) \/ DialOk(p) \/ DialFailed(p)
              \/ DialCancelled \/ DialsCollected \/ StreamCancelled
              \/ TransformKeeps \/ TransformFails \/ PublishDone
           /\ UNCHANGED sourceVars
  BY <1>5 DEF CollectDial, DialOk, DialFailed, DialCancelled, DialsCollected,
       StreamCancelled, TransformKeeps, TransformFails, PublishDone
<1>6. CASE /\ \/ Unwind \/ SourceClosed \/ StartBackoff \/ Retry
              \/ BackoffCancelled \/ Cancel \/ Crash
           /\ UNCHANGED sourceVars
  BY <1>6 DEF Unwind, SourceClosed, StartBackoff, Retry, BackoffCancelled,
       Cancel, Crash, MemoryLost
<1>7. CASE UNCHANGED vars
  BY <1>7 DEF vars, engineVars
<1> HIDE DEF D!vars, D!Next, D!Log, sourceVars, RunFails
<1> QED
  BY <1>1, <1>2, <1>3, <1>4, <1>5, <1>6, <1>7, StepCases

(* Refinement: with all its goroutines, retries, failures and restarts the *)
(* engine implements the one-event-at-a-time relay of Delivery.            *)
THEOREM RelayImplementsDelivery == Spec => ImplementsDelivery
<1>1. Init => D!Init
  BY DEF Init, EngineInit, D!Init
<1> QED
  BY <1>1, RefinementStep, TypeInvariant, StreamInvariant, PTL
     DEF Spec, ImplementsDelivery, D!Spec
=============================================================================
