---------------------------- MODULE EngineProofs ----------------------------
(***************************************************************************)
(* What the engine keeps whatever source it runs over: the lemmas that the *)
(* proofs about the relays of Postgres, MongoDB and the snapshot share.    *)
(* At the end, the facts about finite sets that the loss bounds count with.*)
(***************************************************************************)
EXTENDS Engine, FiniteSetTheorems, TLAPS

MayFail == UNCHANGED faults \/ Fault

LEMMA FailsMayFail == Fails => MayFail
  BY DEF Fails, MayFail

(* A step of the engine, as far as it knows: a source decides when.        *)
RunEndsBadly ==
  \E from \in {"snapshot", "capture", "select", "transform", "acking"} :
    RunFails(from)

(* CaptureEvents returned, whatever failed on the way.                     *)
CaptureBegins ==
  /\ phase = "capture" /\ phase' = "select"
  /\ MayFail
  /\ UNCHANGED <<cancelled, runErr, dial, dialErr, open, pub, cur, acking,
                 delivered, dropped>>

LEMMA StartedBegins == CaptureStarted => CaptureBegins
  BY DEF CaptureStarted, CaptureBegins, MayFail

EngineStep ==
  \/ SourceConnected
  \/ SourceConnectFailed /\ MayFail
  \/ \E p \in Producers : CollectDial(p) \/ DialOk(p) \/ DialFailed(p)
  \/ DialCancelled \/ DialsCollected
  \/ \E e \in Events : SnapshotReceive(e) \/ Receive(e)
  \/ SnapshotReturns \/ CaptureBegins
  \/ RunEndsBadly /\ MayFail
  \/ StreamCancelled
  \/ TransformKeeps \/ TransformDrops
  \/ \E p \in Producers : PublishOk(p) \/ PublishFailed(p)
  \/ PublishDone \/ Acked
  \/ Unwind \/ SourceClosed \/ StartBackoff \/ Retry \/ BackoffCancelled
  \/ Cancel \/ Crash
  \/ UNCHANGED calmVars /\ MayFail

(* The steps that no source and no snapshot takes part in.                 *)
OwnStep ==
  \/ \E p \in Producers : CollectDial(p) \/ DialOk(p) \/ DialFailed(p)
  \/ DialCancelled
  \/ StreamCancelled
  \/ TransformKeeps \/ TransformDrops \/ TransformFails
  \/ \E p \in Producers : PublishOk(p) \/ PublishFailed(p)
  \/ PublishDone
  \/ Unwind \/ StartBackoff \/ BackoffCancelled
  \/ Cancel

LEMMA OwnStepIsStep == OwnStep => EngineStep
  BY FailsMayFail DEF OwnStep, EngineStep, TransformFails, RunEndsBadly

Processing == {"transform", "publishing", "acking"}

(* Phases in which processEvent has long returned.                         *)
Idling == {"connect", "dialing", "closing", "failed", "backoff", "stopped",
           "panicked"}

(* processEvent has an event in hand, publishes in no other phase, and     *)
(* comes to Ack only with an event that is settled.                        *)
InHand ==
  /\ phase \in Processing => cur \in Events
  /\ phase \in Idling => cur = NoEvent
  /\ phase # "publishing" => \A p \in Producers : pub[p] = "idle"
  /\ phase = "publishing" =>
       \A p \in Producers : pub[p] = "ok" => cur \in delivered[p]
  /\ phase = "acking" => Settled(cur)

(* Without a snapshot every event in hand is one of the stream, to be      *)
(* acknowledged.                                                           *)
StreamOnly ==
  /\ phase \notin {"snapshot", "panicked"}
  /\ phase \in {"capture", "select"} => cur = NoEvent
  /\ phase \in Processing => acking

-----------------------------------------------------------------------------
LEMMA EngineStarts ==
  ASSUME EngineInit
  PROVE  EngineTypeOK /\ InHand /\ StreamOnly
<1> USE DEF EngineInit
<1>1. FlagsOK
  BY Zenon DEF FlagsOK
<1>2. EngineTypeOK
  BY <1>1, EngineAssumption DEF EngineAssumption, EngineTypeOK, Phases
<1>3. InHand /\ StreamOnly
  BY DEF InHand, StreamOnly, Processing, Idling
<1> QED
  BY <1>2, <1>3

LEMMA FaultsStep ==
  ASSUME faults \in 0..MaxFaults, MayFail
  PROVE  faults' \in 0..MaxFaults /\ faults <= faults'
  BY EngineAssumption DEF EngineAssumption, MayFail, Fault

(* The Boolean variables stay Boolean.                                     *)
LEMMA FlagsStep ==
  ASSUME FlagsOK, EngineStep \/ Panic
  PROVE  FlagsOK'
<1> USE DEF FlagsOK
<1>1. CASE SourceConnected \/ SourceConnectFailed \/ DialCancelled
           \/ DialsCollected
           \/ \E p \in Producers : CollectDial(p) \/ DialOk(p) \/ DialFailed(p)
  BY <1>1, Zenon DEF SourceConnected, SourceConnectFailed, DialCancelled,
       DialsCollected, CollectDial, DialOk, DialFailed
<1>2. CASE SnapshotReturns \/ CaptureBegins \/ RunEndsBadly \/ StreamCancelled
           \/ Acked
           \/ \E e \in Events : SnapshotReceive(e) \/ Receive(e)
  BY <1>2, Zenon DEF SnapshotReceive, SnapshotReturns, CaptureBegins,
       RunEndsBadly, RunFails, StreamCancelled, Receive, Acked
<1>3. CASE TransformKeeps \/ TransformDrops \/ PublishDone
           \/ \E p \in Producers : PublishOk(p) \/ PublishFailed(p)
  BY <1>3, Zenon DEF TransformKeeps, TransformDrops, PublishDone, PublishOk,
       PublishFailed
<1>4. CASE Unwind \/ SourceClosed \/ StartBackoff \/ Retry
           \/ BackoffCancelled \/ Cancel \/ Crash \/ Panic
  BY <1>4, Zenon DEF Unwind, SourceClosed, StartBackoff, Retry,
       BackoffCancelled, Cancel, Crash, Panic, MemoryLost
<1>5. CASE UNCHANGED calmVars
  BY <1>5, Zenon DEF calmVars
<1> QED
  BY <1>1, <1>2, <1>3, <1>4, <1>5, Zenon DEF EngineStep

LEMMA TypeStep ==
  ASSUME EngineTypeOK, InHand, EngineStep \/ Panic
  PROVE  EngineTypeOK'
<1>0. FlagsOK'
  BY FlagsStep DEF EngineTypeOK
<1>1. ASSUME MayFail PROVE faults' \in 0..MaxFaults
  BY <1>1, FaultsStep DEF EngineTypeOK
<1>2. Crash \/ (\E p \in Producers : DialFailed(p) \/ PublishFailed(p)) => MayFail
  BY FailsMayFail DEF Crash, MayFail, DialFailed, PublishFailed
<1> USE EngineAssumption, <1>0 DEF EngineAssumption, EngineTypeOK, Phases
<1>3. CASE SourceConnected \/ (SourceConnectFailed /\ MayFail)
  BY <1>1, <1>3 DEF SourceConnected, SourceConnectFailed
<1>4. ASSUME NEW p \in Producers, CollectDial(p) \/ DialOk(p)
      PROVE  EngineTypeOK'
  BY <1>4 DEF CollectDial, DialOk
<1>5. ASSUME NEW p \in Producers, DialFailed(p)
      PROVE  EngineTypeOK'
  BY <1>1, <1>2, <1>5 DEF DialFailed
<1>6. CASE DialCancelled \/ DialsCollected
  BY <1>6 DEF DialCancelled, DialsCollected
<1>7. ASSUME NEW e \in Events, SnapshotReceive(e) \/ Receive(e)
      PROVE  EngineTypeOK'
  BY <1>7 DEF SnapshotReceive, Receive
<1>8. CASE SnapshotReturns \/ StreamCancelled \/ Acked
  BY <1>8 DEF SnapshotReturns, StreamCancelled, Acked
<1>9. CASE CaptureBegins \/ (RunEndsBadly /\ MayFail)
  BY <1>1, <1>9 DEF CaptureBegins, RunEndsBadly, RunFails
<1>10. CASE TransformKeeps
  BY <1>10 DEF TransformKeeps
<1>11. CASE TransformDrops
  BY <1>11 DEF TransformDrops, SettledPhase, CallerPhase, InHand, Processing
<1>12. ASSUME NEW p \in Producers, PublishOk(p)
       PROVE  EngineTypeOK'
  BY <1>12 DEF PublishOk, InHand, Processing
<1>13. ASSUME NEW p \in Producers, PublishFailed(p)
       PROVE  EngineTypeOK'
  <2>1. cur \in Events
    BY <1>13 DEF PublishFailed, InHand, Processing
  <2>2. delivered' \in [Producers -> SUBSET Events]
    BY <1>13, <2>1 DEF PublishFailed
  <2>3. faults' \in 0..MaxFaults
    BY <1>1, <1>2, <1>13
  <2>4. QED
    BY <1>13, <2>2, <2>3 DEF PublishFailed
<1>14. CASE PublishDone
  BY <1>14 DEF PublishDone, SettledPhase, CallerPhase
<1>15. CASE Unwind \/ SourceClosed \/ StartBackoff
  BY <1>15 DEF Unwind, SourceClosed, StartBackoff
<1>16. CASE Retry \/ BackoffCancelled \/ Cancel
  BY <1>16 DEF Retry, BackoffCancelled, Cancel
<1>17. CASE Crash
  BY <1>1, <1>2, <1>17 DEF Crash, MemoryLost
<1>18. CASE Panic
  BY <1>18 DEF Panic, MemoryLost
<1>19. CASE UNCHANGED calmVars /\ MayFail
  BY <1>1, <1>19 DEF calmVars
<1> HIDE <1>0 DEF EngineTypeOK, Phases
<1> QED
  BY <1>3, <1>4, <1>5, <1>6, <1>7, <1>8, <1>9, <1>10, <1>11, <1>12, <1>13,
     <1>14, <1>15, <1>16, <1>17, <1>18, <1>19, Zenon DEF EngineStep

LEMMA InHandStep ==
  ASSUME EngineTypeOK, InHand, EngineStep \/ Panic
  PROVE  InHand'
<1> USE EngineAssumption DEF EngineAssumption, EngineTypeOK, InHand,
        Processing, Idling, Settled
<1>1. CASE SourceConnected \/ SourceConnectFailed
  BY <1>1 DEF SourceConnected, SourceConnectFailed
<1>2. ASSUME NEW p \in Producers,
             CollectDial(p) \/ DialOk(p) \/ DialFailed(p)
      PROVE  InHand'
  BY <1>2 DEF CollectDial, DialOk, DialFailed
<1>3. CASE DialCancelled \/ DialsCollected
  BY <1>3 DEF DialCancelled, DialsCollected
<1>4. ASSUME NEW e \in Events, SnapshotReceive(e) \/ Receive(e)
      PROVE  InHand'
  BY <1>4 DEF SnapshotReceive, Receive
<1>5. CASE SnapshotReturns \/ CaptureBegins \/ StreamCancelled \/ Acked
  BY <1>5 DEF SnapshotReturns, CaptureBegins, StreamCancelled, Acked
<1>6. CASE RunEndsBadly
  BY <1>6 DEF RunEndsBadly, RunFails
<1>7. CASE TransformKeeps
  BY <1>7 DEF TransformKeeps
<1>8. CASE TransformDrops
  BY <1>8 DEF TransformDrops, SettledPhase, CallerPhase
<1>9. ASSUME NEW p \in Producers, PublishOk(p) \/ PublishFailed(p)
      PROVE  InHand'
  BY <1>9 DEF PublishOk, PublishFailed
<1>10. CASE PublishDone
  BY <1>10 DEF PublishDone, SettledPhase, CallerPhase
<1>11. CASE Unwind \/ SourceClosed \/ StartBackoff
  BY <1>11 DEF Unwind, SourceClosed, StartBackoff
<1>12. CASE Retry \/ BackoffCancelled \/ Cancel
  BY <1>12 DEF Retry, BackoffCancelled, Cancel
<1>13. CASE Crash \/ Panic
  BY <1>13 DEF Crash, Panic, MemoryLost
<1>14. CASE UNCHANGED calmVars
  BY <1>14 DEF calmVars
<1> HIDE DEF EngineTypeOK, InHand, Processing, Idling, Settled
<1> QED
  BY <1>1, <1>2, <1>3, <1>4, <1>5, <1>6, <1>7, <1>8, <1>9, <1>10, <1>11,
     <1>12, <1>13, <1>14 DEF EngineStep

(* A source without a snapshot does not call for one, nor does it panic.   *)
LEMMA StreamOnlyStep ==
  ASSUME EngineTypeOK, InHand, StreamOnly, ~SnapshotBound, EngineStep
  PROVE  StreamOnly'
<1> USE DEF EngineTypeOK, InHand, StreamOnly, Processing, Idling
<1>1. CASE SourceConnected \/ SourceConnectFailed
  BY <1>1 DEF SourceConnected, SourceConnectFailed
<1>2. ASSUME NEW p \in Producers,
             CollectDial(p) \/ DialOk(p) \/ DialFailed(p)
      PROVE  StreamOnly'
  BY <1>2 DEF CollectDial, DialOk, DialFailed
<1>3. CASE DialCancelled \/ DialsCollected
  BY <1>3 DEF DialCancelled, DialsCollected
<1>4. ASSUME NEW e \in Events, SnapshotReceive(e) \/ Receive(e)
      PROVE  StreamOnly'
  BY <1>4 DEF SnapshotReceive, Receive
<1>5. CASE SnapshotReturns \/ CaptureBegins \/ StreamCancelled \/ Acked
  BY <1>5 DEF SnapshotReturns, CaptureBegins, StreamCancelled, Acked
<1>6. CASE RunEndsBadly
  BY <1>6 DEF RunEndsBadly, RunFails
<1>7. CASE TransformKeeps
  BY <1>7 DEF TransformKeeps
<1>8. CASE TransformDrops
  BY <1>8 DEF TransformDrops, SettledPhase, CallerPhase
<1>9. ASSUME NEW p \in Producers, PublishOk(p) \/ PublishFailed(p)
      PROVE  StreamOnly'
  BY <1>9 DEF PublishOk, PublishFailed
<1>10. CASE PublishDone
  BY <1>10 DEF PublishDone, SettledPhase, CallerPhase
<1>11. CASE Unwind \/ SourceClosed \/ StartBackoff
  BY <1>11 DEF Unwind, SourceClosed, StartBackoff
<1>12. CASE Retry \/ BackoffCancelled \/ Cancel
  BY <1>12 DEF Retry, BackoffCancelled, Cancel
<1>13. CASE Crash
  BY <1>13 DEF Crash, MemoryLost
<1>14. CASE UNCHANGED calmVars
  BY <1>14 DEF calmVars
<1> HIDE DEF EngineTypeOK, InHand, StreamOnly, Processing, Idling
<1> QED
  BY <1>1, <1>2, <1>3, <1>4, <1>5, <1>6, <1>7, <1>8, <1>9, <1>10, <1>11,
     <1>12, <1>13, <1>14 DEF EngineStep

LEMMA SettledAcks ==
  ASSUME StreamOnly, phase \in Processing
  PROVE  SettledPhase = "acking"
  BY Zenon DEF StreamOnly, SettledPhase

(* What the brokers received and the transforms dropped is never undone,   *)
(* and a broker receives nothing but the event in hand.                    *)
LEMMA DeliveredStep ==
  ASSUME EngineTypeOK, EngineStep \/ Panic
  PROVE  /\ \A p \in Producers : delivered[p] \subseteq delivered'[p]
         /\ dropped \subseteq dropped'
         /\ \A p \in Producers : \A e \in delivered'[p] \ delivered[p] :
              e = cur /\ pub[p] = "running"
<1> DEFINE Kept ==
      /\ \A p \in Producers : delivered[p] \subseteq delivered'[p]
      /\ dropped \subseteq dropped'
      /\ \A p \in Producers : \A e \in delivered'[p] \ delivered[p] :
           e = cur /\ pub[p] = "running"
<1> SUFFICES Kept
  OBVIOUS
<1>1. ASSUME NEW p \in Producers, PublishOk(p) \/ PublishFailed(p)
      PROVE  Kept
  BY <1>1 DEF PublishOk, PublishFailed, EngineTypeOK
<1>2. CASE TransformDrops
  BY <1>2 DEF TransformDrops
<1>3. CASE UNCHANGED <<delivered, dropped>>
  BY <1>3
<1> HIDE DEF Kept
<1>4. CASE SourceConnected \/ SourceConnectFailed \/ DialCancelled
           \/ DialsCollected
           \/ \E p \in Producers : CollectDial(p) \/ DialOk(p) \/ DialFailed(p)
  BY <1>3, <1>4 DEF SourceConnected, SourceConnectFailed, DialCancelled,
       DialsCollected, CollectDial, DialOk, DialFailed
<1>5. CASE SnapshotReturns \/ CaptureBegins \/ RunEndsBadly \/ StreamCancelled
           \/ Acked \/ TransformKeeps \/ PublishDone
           \/ \E e \in Events : SnapshotReceive(e) \/ Receive(e)
  BY <1>3, <1>5 DEF SnapshotReceive, SnapshotReturns, CaptureBegins,
       RunEndsBadly, RunFails, StreamCancelled, Receive, Acked,
       TransformKeeps, PublishDone
<1>6. CASE Unwind \/ SourceClosed \/ StartBackoff \/ Retry
           \/ BackoffCancelled \/ Cancel \/ Crash \/ Panic
           \/ UNCHANGED calmVars
  BY <1>3, <1>6 DEF Unwind, SourceClosed, StartBackoff, Retry,
       BackoffCancelled, Cancel, Crash, Panic, MemoryLost, calmVars
<1> QED
  BY <1>1, <1>2, <1>4, <1>5, <1>6 DEF EngineStep

LEMMA SettledStep ==
  ASSUME EngineTypeOK, EngineStep \/ Panic
  PROVE  \A e : Settled(e) => Settled(e)'
  BY DeliveredStep DEF Settled

LEMMA FaultsGrow ==
  ASSUME EngineTypeOK, EngineStep \/ Panic
  PROVE  /\ faults \in Nat
         /\ faults' = faults \/ faults' = faults + 1
<1>1. faults \in 0..MaxFaults /\ MaxFaults \in Nat
  BY EngineAssumption DEF EngineAssumption, EngineTypeOK
<1>2. MayFail
  <2>1. CASE SourceConnected \/ DialCancelled \/ DialsCollected
             \/ \E p \in Producers : CollectDial(p) \/ DialOk(p) \/ DialFailed(p)
    BY <2>1, FailsMayFail, Zenon DEF MayFail, SourceConnected, DialCancelled,
         DialsCollected, CollectDial, DialOk, DialFailed
  <2>2. CASE SnapshotReturns \/ CaptureBegins \/ StreamCancelled \/ Acked
             \/ \E e \in Events : SnapshotReceive(e) \/ Receive(e)
    BY <2>2, Zenon DEF MayFail, SnapshotReceive, SnapshotReturns,
         CaptureBegins, StreamCancelled, Receive, Acked
  <2>3. CASE TransformKeeps \/ TransformDrops \/ PublishDone
             \/ \E p \in Producers : PublishOk(p) \/ PublishFailed(p)
    BY <2>3, FailsMayFail, Zenon DEF MayFail, TransformKeeps, TransformDrops,
         PublishDone, PublishOk, PublishFailed
  <2>4. CASE Unwind \/ SourceClosed \/ StartBackoff \/ Retry
             \/ BackoffCancelled \/ Cancel \/ Crash \/ Panic
    BY <2>4, Zenon DEF MayFail, Unwind, SourceClosed, StartBackoff, Retry,
         BackoffCancelled, Cancel, Crash, Panic
  <2>5. QED
    BY <2>1, <2>2, <2>3, <2>4, Zenon DEF EngineStep
<1> QED
  BY <1>1, <1>2 DEF MayFail, Fault

(* A publish of the present run has failed, and not for a cancellation:    *)
(* the failure that this takes is one of the environment.                  *)
Failing == ~cancelled /\ \E p \in Producers : pub[p] = "failed"

LEMMA FailingStep ==
  ASSUME EngineTypeOK, EngineStep \/ Panic, Failing'
  PROVE  Failing \/ faults' = faults + 1
<1>1. CASE SourceConnected \/ SourceConnectFailed \/ DialCancelled
           \/ DialsCollected
           \/ \E p \in Producers : CollectDial(p) \/ DialOk(p) \/ DialFailed(p)
  BY <1>1, Zenon DEF SourceConnected, SourceConnectFailed, DialCancelled,
       DialsCollected, CollectDial, DialOk, DialFailed, Failing
<1>2. CASE SnapshotReturns \/ CaptureBegins \/ RunEndsBadly \/ StreamCancelled
           \/ Acked \/ TransformDrops \/ UNCHANGED calmVars
           \/ \E e \in Events : SnapshotReceive(e) \/ Receive(e)
  BY <1>2, Zenon DEF SnapshotReceive, SnapshotReturns, CaptureBegins,
       RunEndsBadly, RunFails, StreamCancelled, Receive, Acked,
       TransformDrops, calmVars, Failing
<1>3. CASE TransformKeeps \/ PublishDone \/ Crash \/ Panic
  BY <1>3 DEF TransformKeeps, PublishDone, Crash, Panic, MemoryLost, Failing
<1>4. CASE \E p \in Producers : PublishOk(p)
  BY <1>4 DEF PublishOk, Failing, EngineTypeOK
<1>5. CASE \E p \in Producers : PublishFailed(p)
  <2>1. PICK p \in Producers : PublishFailed(p)
    BY <1>5
  <2>2. cancelled' = cancelled /\ Fails
    BY <2>1, Zenon DEF PublishFailed
  <2>3. QED
    BY <2>2, Zenon DEF Fails, Fault, Failing
<1>6. CASE Unwind \/ SourceClosed \/ StartBackoff \/ Retry
           \/ BackoffCancelled
  BY <1>6, Zenon DEF Unwind, SourceClosed, StartBackoff, Retry,
       BackoffCancelled, Failing
<1>7. CASE Cancel
  BY <1>7, Zenon DEF Cancel, Failing
<1> QED
  BY <1>1, <1>2, <1>3, <1>4, <1>5, <1>6, <1>7, Zenon DEF EngineStep

(* A run that ends because it is cancelled, until the process is restarted.*)
Excused == cancelled /\ phase \in {"unwind", "closing", "failed", "stopped"}

LEMMA ExcusedStep ==
  ASSUME EngineStep, Excused
  PROVE  Excused' \/ faults' = faults + 1
<1> USE DEF Excused
<1>1. CASE SourceConnected \/ SourceConnectFailed \/ DialCancelled
           \/ DialsCollected
  BY <1>1 DEF SourceConnected, SourceConnectFailed, DialCancelled,
       DialsCollected
<1>2. CASE SnapshotReturns \/ CaptureBegins \/ StreamCancelled
           \/ Acked \/ TransformKeeps \/ TransformDrops \/ PublishDone
           \/ Retry \/ BackoffCancelled
           \/ \E e \in Events : SnapshotReceive(e) \/ Receive(e)
  BY <1>2 DEF SnapshotReceive, SnapshotReturns, CaptureBegins,
       StreamCancelled, Receive, Acked, TransformKeeps, TransformDrops,
       PublishDone, Retry, BackoffCancelled
<1>3. CASE RunEndsBadly
  BY <1>3 DEF RunEndsBadly, RunFails
<1>4. ASSUME NEW p \in Producers,
             CollectDial(p) \/ DialOk(p) \/ DialFailed(p)
             \/ PublishOk(p) \/ PublishFailed(p)
      PROVE  Excused'
  BY <1>4, Zenon DEF CollectDial, DialOk, DialFailed, PublishOk, PublishFailed
<1>5. CASE UNCHANGED calmVars
  BY <1>5, Zenon DEF calmVars
<1>6. CASE Unwind \/ SourceClosed \/ StartBackoff
  <2>1. phase' \in {"closing", "failed", "stopped"} /\ (cancelled => cancelled')
    BY <1>6, Zenon DEF Unwind, SourceClosed, StartBackoff
  <2>2. QED
    BY <2>1
<1>7. CASE Cancel
  BY <1>7, Zenon DEF Cancel
<1>8. CASE Crash
  BY <1>8, Zenon DEF Crash, Fault
<1> QED
  BY <1>1, <1>2, <1>3, <1>4, <1>5, <1>6, <1>7, <1>8, Zenon DEF EngineStep

(* streamEvents is running, and has not failed yet.                        *)
Streaming == phase \in {"select"} \cup Processing

(* The steps of the engine alone open no stream.  One of them that ends    *)
(* the stream is a failure, or follows a cancellation.                     *)
LEMMA OwnStream ==
  ASSUME EngineTypeOK, InHand, StreamOnly, ~SnapshotBound,
         OwnStep \/ DialsCollected
  PROVE  /\ Streaming' => Streaming /\ cur' = cur
         /\ Streaming /\ ~Streaming' =>
              phase' = "unwind" /\ (Failing \/ Excused' \/ faults' = faults + 1)
         /\ phase' = "unwind" /\ cur' # NoEvent =>
              cur' = cur /\ phase \in {"transform", "publishing", "unwind"}
         /\ phase = "acking" => phase' = "acking"
         /\ phase' = "connect" => phase = "connect"
         /\ phase' \in {"dialing", "capture"} => phase \in {"dialing", "capture"}
<1> USE DEF EngineTypeOK, InHand, StreamOnly, Streaming, Processing, Idling
<1>1. ASSUME NEW p \in Producers,
             CollectDial(p) \/ DialOk(p) \/ DialFailed(p)
             \/ PublishOk(p) \/ PublishFailed(p)
      PROVE  phase' = phase /\ cur' = cur
  BY <1>1 DEF CollectDial, DialOk, DialFailed, PublishOk, PublishFailed
<1>2. CASE phase' = phase /\ cur' = cur
  BY <1>2
<1>3. CASE DialCancelled \/ DialsCollected
  BY <1>3 DEF DialCancelled, DialsCollected
<1>4. CASE TransformKeeps \/ TransformDrops
  BY <1>4, SettledAcks DEF TransformKeeps, TransformDrops
<1>5. CASE Unwind \/ StartBackoff \/ BackoffCancelled
  BY <1>5 DEF Unwind, StartBackoff, BackoffCancelled
<1>6. CASE Cancel
  BY <1>2, <1>6 DEF Cancel
<1>7. CASE StreamCancelled
  <2>1. phase = "select" /\ phase' = "unwind" /\ cur' = cur
    BY <1>7 DEF StreamCancelled
  <2>2. Excused'
    BY <1>7, Zenon DEF StreamCancelled, Excused
  <2>3. QED
    BY <2>1, <2>2
<1>8. CASE TransformFails
  <2>1. phase = "transform" /\ phase' = "unwind" /\ cur' = cur
    BY <1>8 DEF TransformFails, RunFails
  <2>2. Excused' \/ faults' = faults + 1
    BY <1>8, <2>1, Zenon DEF TransformFails, RunFails, Fails, Fault, Excused
  <2>3. QED
    BY <2>1, <2>2
<1>9. CASE PublishDone
  <2>1. /\ phase = "publishing"
        /\ \/ phase' = "unwind" /\ \E p \in Producers : pub[p] = "failed"
           \/ phase' = "acking"
        /\ cur' = cur
    BY <1>9, SettledAcks DEF PublishDone
  <2>2. CASE phase' = "unwind" /\ \E p \in Producers : pub[p] = "failed"
    <3>1. Failing \/ Excused'
      BY <1>9, <2>2, Zenon DEF PublishDone, Failing, Excused
    <3>2. QED
      BY <2>1, <2>2, <3>1
  <2>3. QED
    BY <2>1, <2>2
<1> HIDE DEF EngineTypeOK, InHand, StreamOnly, Streaming, Processing, Idling
<1> QED
  BY <1>1, <1>2, <1>3, <1>4, <1>5, <1>6, <1>7, <1>8, <1>9, Zenon DEF OwnStep

-----------------------------------------------------------------------------
(* Counting.  (`Beyond' is for the prover, which loses its way in a sum    *)
(* with a primed term.)                                                    *)
LEMMA Beyond ==
  \A a, b, c, w \in Nat : a <= b + w /\ b <= c => a <= c + w
  OBVIOUS

LEMMA Fewer ==
  ASSUME NEW T, IsFiniteSet(T), NEW S, S \subseteq T
  PROVE  /\ IsFiniteSet(S)
         /\ Cardinality(S) \in Nat /\ Cardinality(T) \in Nat
         /\ Cardinality(S) <= Cardinality(T)
<1>1. S \in SUBSET T
  OBVIOUS
<1> QED
  BY <1>1, FS_Subset, FS_CardinalityType

LEMMA OneMore ==
  ASSUME NEW T, IsFiniteSet(T), NEW x, NEW S, S \subseteq T \cup {x}
  PROVE  /\ IsFiniteSet(S)
         /\ Cardinality(S) \in Nat /\ Cardinality(T) \in Nat
         /\ Cardinality(S) <= Cardinality(T) + 1
<1>1. /\ IsFiniteSet(T \cup {x})
      /\ Cardinality(T \cup {x}) = Cardinality(T)
         \/ Cardinality(T \cup {x}) = Cardinality(T) + 1
  BY FS_AddElement
<1>2. S \in SUBSET (T \cup {x})
  OBVIOUS
<1> QED
  BY <1>1, <1>2, FS_Subset, FS_CardinalityType

LEMMA NatInterval ==
  ASSUME NEW a \in Nat, NEW b \in Nat, NEW S, S \subseteq a..b
  PROVE  IsFiniteSet(S) /\ Cardinality(S) \in Nat
<1>1. IsFiniteSet(a..b)
  BY FS_Interval
<1> QED
  BY <1>1, Fewer
=============================================================================
