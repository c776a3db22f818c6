-------------------------- MODULE MongoRelayProofs --------------------------
(***************************************************************************)
(* Theorems about MongoRelay, for any set of producers, any length of the  *)
(* oplog, any undecodable changes in it and any number of faults.          *)
(***************************************************************************)
EXTENDS MongoRelay, EngineProofs

(* The capture goroutine sends the change that it has read last.           *)
CaptureInv ==
  /\ cap = "send" <=> capEv # NoEvent
  /\ capEv # NoEvent => capEv = seen

(* Between the change in hand and the position of the stream there are     *)
(* undecodable changes, and the one that the capture goroutine sends.      *)
OrderInv ==
  Live /\ cur # NoEvent =>
    /\ cur <= seen
    /\ capEv # NoEvent => cur < seen
    /\ \A e \in (cur + 1)..seen : e \in Undecodable \/ e = capEv

(* The saved token is at most the position of the stream, and not behind   *)
(* the change in hand but for an Ack that failed, or after the next change *)
(* was taken.                                                              *)
TokenInv ==
  /\ Live => token <= seen
  /\ Live /\ cur # NoEvent => token <= cur \/ (phase = "unwind" /\ Settled(cur))

(* How much the pipeline holds, and what that says of the saved token.     *)
Width == 2 + Cardinality(Undecodable)
TopInv == Left <= top /\ token <= top + Width

(* Changes that were streamed, or should have been, and have been neither  *)
(* settled nor left out; those up to x.                                    *)
Loose == Lacking \ missed
Exposed(x) == {e \in Loose : e <= x}

(* A publish that failed costs one change in advance.  A run that ends     *)
(* because it is cancelled exposes one that no failure has paid for: Start *)
(* returns, and the next process begins with one more failure.             *)

CountInv ==
  /\ Streaming =>
       Cardinality(Exposed(Left)) + (IF Failing THEN 1 ELSE 0) <= faults
  /\ ~Streaming =>
       Cardinality(Exposed(token)) <= faults + (IF Excused THEN 1 ELSE 0)

TypeInv == TypeOK /\ InHand /\ StreamOnly
StreamInv == CaptureInv /\ OrderInv /\ TokenInv
IInv == TypeInv /\ StreamInv /\ TopInv /\ CountInv

-----------------------------------------------------------------------------
(* The steps that leave the source alone, but for opening and closing it.  *)
Alone ==
  /\ OwnStep \/ SourceConnected \/ (SourceConnectFailed /\ Fails)
     \/ DialsCollected \/ SourceClosed \/ Retry
  /\ UNCHANGED mongoVars

(* A step is one piece of code: the case split of the proofs below.        *)
LEMMA StepCases ==
  ASSUME [Next]_vars
  PROVE  \/ /\ Tracked
            /\ \/ Alone
               \/ CaptureResumes \/ CaptureFromNow \/ CaptureRefused
               \/ NextChange \/ StreamEnds \/ HandOver \/ StreamClosed
               \/ AckDone \/ AckRefused
               \/ Produce \/ ProcessDies
         \/ UNCHANGED vars
<1>1. CASE Main
  BY <1>1, Zenon DEF Main, Alone, OwnStep
<1>2. CASE Capture
  BY <1>2, Zenon DEF Capture
<1>3. CASE \E p \in Producers : DialReturns(p) \/ PublishReturns(p)
  BY <1>3, Zenon DEF DialReturns, PublishReturns, Alone, OwnStep
<1>4. CASE (Produce /\ Tracked) \/ (Cancel /\ UNCHANGED mongoVars /\ Tracked)
           \/ (ProcessDies /\ Tracked)
  BY <1>4, Zenon DEF Alone, OwnStep
<1> QED
  BY <1>1, <1>2, <1>3, <1>4, Zenon DEF Next, Terminated

LEMMA AloneIsStep ==
  ASSUME Alone
  PROVE  EngineStep
  BY OwnStepIsStep, FailsMayFail DEF Alone, EngineStep

(* To the engine, every step is one of its own.                            *)
LEMMA EngineSteps ==
  ASSUME TypeOK, CaptureInv, [Next]_vars
  PROVE  EngineStep
<1>1. CASE Alone
  BY <1>1, AloneIsStep
<1>2. CASE CaptureResumes
  BY <1>2, StartedBegins DEF CaptureResumes, EngineStep
<1>3. CASE CaptureFromNow
  BY <1>3, FailsMayFail DEF CaptureFromNow, CaptureBegins, MayFail, EngineStep
<1>4. CASE CaptureRefused
  BY <1>4, FailsMayFail DEF CaptureRefused, CaptureFailed, RunEndsBadly,
       EngineStep
<1>5. CASE StreamClosed
  BY <1>5 DEF StreamClosed, ChannelClosed, RunEndsBadly, MayFail, EngineStep
<1>6. CASE AckRefused
  BY <1>6, FailsMayFail DEF AckRefused, AckFailed, RunEndsBadly, EngineStep
<1>7. CASE AckDone \/ ProcessDies
  BY <1>7 DEF AckDone, ProcessDies, EngineStep
<1>8. CASE HandOver
  <2>1. capEv \in Events
    BY <1>8 DEF HandOver, CaptureInv, TypeOK
  <2>2. QED
    BY <1>8, <2>1 DEF HandOver, EngineStep
<1>9. CASE NextChange \/ Produce \/ UNCHANGED vars
  BY <1>9 DEF NextChange, Produce, vars, engineVars, calmVars, MayFail,
       EngineStep
<1>10. CASE StreamEnds
  BY <1>10, FailsMayFail DEF StreamEnds, EngineStep
<1> QED
  BY <1>1, <1>2, <1>3, <1>4, <1>5, <1>6, <1>7, <1>8, <1>9, <1>10, StepCases

LEMMA EngineInvs ==
  ASSUME TypeInv, CaptureInv, [Next]_vars
  PROVE  EngineTypeOK' /\ InHand' /\ StreamOnly'
<1>1. EngineTypeOK /\ InHand /\ StreamOnly /\ ~SnapshotBound
  BY OplogAssumption DEF TypeInv, TypeOK, OplogAssumption
<1> QED
  BY <1>1, EngineSteps, TypeStep, InHandStep, StreamOnlyStep DEF TypeInv

(* Without the source, a stream ends where its run does, and the event in  *)
(* hand stays what it is until then.                                       *)
LEMMA AloneStep ==
  ASSUME TypeInv, Alone
  PROVE  /\ Live' => Live /\ cur' = cur
         /\ Streaming' => Streaming
         /\ phase' = "unwind" /\ Live' =>
              phase \in {"transform", "publishing", "unwind"}
         /\ Streaming /\ ~Streaming' =>
              phase' = "unwind" /\ (Failing \/ Excused' \/ faults' = faults + 1)
<1>0. /\ ~SnapshotBound /\ EngineTypeOK /\ InHand /\ StreamOnly
      /\ Live <=> Streaming \/ (phase = "unwind" /\ cur # NoEvent)
      /\ Live' <=> Streaming' \/ (phase' = "unwind" /\ cur' # NoEvent)
  BY OplogAssumption DEF OplogAssumption, TypeInv, TypeOK, Live, Streaming,
     Processing
<1>1. CASE SourceConnected \/ SourceConnectFailed \/ SourceClosed \/ Retry
  BY <1>0, <1>1 DEF SourceConnected, SourceConnectFailed, SourceClosed, Retry,
     Streaming, Processing
<1>2. CASE OwnStep \/ DialsCollected
  <2>1. /\ Streaming' => Streaming /\ cur' = cur
        /\ Streaming /\ ~Streaming' =>
             phase' = "unwind" /\ (Failing \/ Excused' \/ faults' = faults + 1)
        /\ phase' = "unwind" /\ cur' # NoEvent =>
             cur' = cur /\ phase \in {"transform", "publishing", "unwind"}
    BY <1>0, <1>2, OwnStream
  <2>2. QED
    BY <1>0, <2>1 DEF Streaming, Processing
<1> QED
  BY <1>1, <1>2, Zenon DEF Alone

LEMMA CaptureStep ==
  ASSUME TypeInv, CaptureInv, [Next]_vars
  PROVE  CaptureInv'
<1>0. /\ seen \in Nat /\ produced \in 0..MaxEvents /\ MaxEvents \in Nat
      /\ capEv \in Events \cup {NoEvent}
      /\ Events = 1..MaxEvents /\ NoEvent \notin Events
  BY EngineAssumption, OplogAssumption DEF EngineAssumption, OplogAssumption,
     TypeInv, TypeOK
<1> USE DEF CaptureInv, mongoVars
<1>1. CASE Alone \/ CaptureRefused \/ StreamClosed
  BY <1>1 DEF Alone, CaptureRefused, StreamClosed
<1>2. CASE CaptureResumes \/ CaptureFromNow
  BY <1>2 DEF CaptureResumes, CaptureFromNow, Watch
<1>3. CASE NextChange
  <2>1. cap = "next" /\ capEv = NoEvent /\ seen < produced /\ seen' = seen + 1
    BY <1>3 DEF NextChange
  <2>2. \/ cap' = cap /\ capEv' = capEv
        \/ cap' = "send" /\ capEv' = seen'
    BY <1>3 DEF NextChange
  <2>3. seen' \in Events
    BY <1>0, <2>1
  <2>4. QED
    BY <1>0, <2>1, <2>2, <2>3
<1>4. CASE StreamEnds \/ HandOver \/ ProcessDies
  BY <1>4 DEF StreamEnds, HandOver, ProcessDies
<1>5. CASE AckDone \/ AckRefused \/ Produce \/ UNCHANGED vars
  BY <1>5 DEF AckDone, AckRefused, Produce, vars
<1> HIDE DEF CaptureInv, mongoVars
<1> QED
  BY <1>1, <1>2, <1>3, <1>4, <1>5, StepCases

(* Positions of the oplog stay within it, and it only grows.               *)
StoreOK == store \in Stores /\ (token # 0 => store)

SourceTypes ==
  /\ produced \in 0..MaxEvents
  /\ token \in 0..produced
  /\ cap \in {"none", "next", "send", "closed"}
  /\ capEv \in Events \cup {NoEvent}
  /\ seen \in 0..produced
  /\ began \in 0..produced \cup {NeverBegan}
  /\ missed \subseteq 1..produced

LEMMA StoreStep ==
  ASSUME StoreOK, [Next]_vars
  PROVE  StoreOK'
<1> USE DEF StoreOK
<1>1. CASE Alone \/ CaptureRefused \/ StreamClosed
  BY <1>1, Zenon DEF Alone, CaptureRefused, StreamClosed, mongoVars
<1>2. CASE CaptureResumes \/ CaptureFromNow
  BY <1>2, Zenon DEF CaptureResumes, CaptureFromNow, Watch
<1>3. CASE NextChange \/ StreamEnds \/ HandOver \/ ProcessDies \/ Produce
  BY <1>3, Zenon DEF NextChange, StreamEnds, HandOver, ProcessDies, Produce
<1>4. CASE AckDone \/ AckRefused
  BY <1>4, Zenon DEF AckDone, AckRefused, SavedToken
<1>5. CASE UNCHANGED vars
  BY <1>5, Zenon DEF vars, mongoVars
<1> QED
  BY <1>1, <1>2, <1>3, <1>4, <1>5, StepCases, Zenon

LEMMA SourceStep ==
  ASSUME TypeInv, CaptureInv, [Next]_vars
  PROVE  SourceTypes' /\ produced <= produced'
<1>0. /\ MaxEvents \in Nat /\ Events = 1..MaxEvents /\ NoEvent \notin Events
      /\ SourceTypes
  BY EngineAssumption, OplogAssumption DEF EngineAssumption, OplogAssumption,
     TypeInv, TypeOK, SourceTypes
<1> USE <1>0 DEF SourceTypes, mongoVars
<1>1. CASE Alone \/ CaptureRefused \/ StreamClosed
  <2>1. UNCHANGED <<produced, token, cap, capEv, seen, began, missed>>
    BY <1>1 DEF Alone, CaptureRefused, StreamClosed
  <2>2. QED
    BY <2>1
<1>2. CASE CaptureResumes
  BY <1>2 DEF CaptureResumes, Watch
<1>3. CASE CaptureFromNow
  <2>1. began' \in 0..produced
    BY <1>3 DEF CaptureFromNow, Watch, NeverBegan
  <2>2. Unsettled \subseteq 1..produced
    BY DEF Unsettled, NeverBegan
  <2>3. QED
    BY <1>3, <2>1, <2>2 DEF CaptureFromNow, Watch
<1>4. CASE NextChange
  BY <1>4 DEF NextChange
<1>5. CASE StreamEnds \/ HandOver \/ ProcessDies
  <2>1. /\ cap' \in {"none", "next", "closed"} /\ capEv' \in {capEv, NoEvent}
        /\ seen' \in {0, seen}
        /\ UNCHANGED <<produced, token, began, missed>>
    BY <1>5 DEF StreamEnds, HandOver, ProcessDies
  <2>2. QED
    BY <2>1
<1>6. CASE AckDone \/ AckRefused
  <2>1. SavedToken \in 0..produced
    BY Zenon DEF SavedToken
  <2>2. token' \in 0..produced
    BY <1>6, <2>1, Zenon DEF AckDone, AckRefused
  <2>3. UNCHANGED <<produced, cap, capEv, seen, began, missed>>
    BY <1>6 DEF AckDone, AckRefused
  <2>4. QED
    BY <2>2, <2>3
<1>7. CASE Produce
  BY <1>7 DEF Produce
<1>8. CASE UNCHANGED vars
  BY <1>8 DEF vars
<1> HIDE DEF SourceTypes, mongoVars
<1> QED
  BY <1>1, <1>2, <1>3, <1>4, <1>5, <1>6, <1>7, <1>8, StepCases

-----------------------------------------------------------------------------
(* What happens to the position of the stream and to the token in the      *)
(* steps of the engine that involve the source.                            *)
LEMMA OrderStep ==
  ASSUME TypeInv, StreamInv, [Next]_vars
  PROVE  OrderInv'
<1>0. /\ MaxEvents \in Nat /\ Events = 1..MaxEvents /\ NoEvent \notin Events
      /\ cur \in Events \cup {NoEvent} /\ capEv \in Events \cup {NoEvent}
      /\ seen \in Nat /\ produced \in 0..MaxEvents /\ seen <= produced
      /\ phase \in Idling => cur = NoEvent
      /\ phase \in {"capture", "select"} => cur = NoEvent
      /\ phase \in Processing => cur \in Events
  BY EngineAssumption, OplogAssumption DEF EngineAssumption, OplogAssumption,
     TypeInv, TypeOK, EngineTypeOK, InHand, StreamOnly
<1> USE DEF StreamInv, OrderInv, CaptureInv, mongoVars, RunFails
<1>1. CASE Alone
  BY <1>1, AloneStep DEF Alone
<1>2. CASE CaptureResumes \/ CaptureFromNow
  BY <1>0, <1>2 DEF CaptureResumes, CaptureStarted, CaptureFromNow, Live
<1>3. CASE CaptureRefused \/ StreamClosed
  BY <1>0, <1>3 DEF CaptureRefused, CaptureFailed, StreamClosed, ChannelClosed,
       Live
<1>4. CASE NextChange
  <2>1. Live' = Live /\ cur' = cur /\ capEv = NoEvent
    BY <1>4 DEF NextChange, engineVars, Live
  <2>2. seen' = seen + 1 /\ (capEv' = seen' \/ (seen' \in Undecodable /\ capEv' = NoEvent))
    BY <1>4, <2>1 DEF NextChange
  <2>3. QED
    BY <1>0, <2>1, <2>2
<1>5. CASE StreamEnds
  BY <1>5 DEF StreamEnds, calmVars, Live
<1>6. CASE HandOver
  BY <1>0, <1>6 DEF HandOver, Receive
<1>7. CASE AckDone
  BY <1>7 DEF AckDone, Acked
<1>8. CASE AckRefused
  BY <1>0, <1>8 DEF AckRefused, AckFailed, Live
<1>9. CASE ProcessDies
  BY <1>9 DEF ProcessDies, Crash, MemoryLost
<1>10. CASE Produce \/ UNCHANGED vars
  BY <1>10 DEF Produce, vars, engineVars, Live
<1> HIDE DEF StreamInv, OrderInv, CaptureInv, mongoVars, RunFails
<1> QED
  BY <1>1, <1>2, <1>3, <1>4, <1>5, <1>6, <1>7, <1>8, <1>9, <1>10, StepCases

LEMMA TokenStep ==
  ASSUME TypeInv, StreamInv, [Next]_vars
  PROVE  TokenInv'
<1>0. /\ MaxEvents \in Nat /\ Events = 1..MaxEvents /\ NoEvent \notin Events
      /\ cur \in Events \cup {NoEvent} /\ capEv \in Events \cup {NoEvent}
      /\ seen \in Nat /\ produced \in 0..MaxEvents /\ seen <= produced /\ token \in Nat
      /\ token <= produced
      /\ phase \in Idling => cur = NoEvent
      /\ phase \in {"capture", "select"} => cur = NoEvent
      /\ phase \in Processing => cur \in Events
      /\ phase = "acking" => Settled(cur)
      /\ SavedToken = seen \/ SavedToken = token
  BY EngineAssumption, OplogAssumption DEF EngineAssumption, OplogAssumption,
     TypeInv, TypeOK, EngineTypeOK, InHand, StreamOnly, SavedToken
<1>s. \A e : Settled(e) => Settled(e)'
  BY EngineSteps, SettledStep DEF TypeInv, TypeOK, StreamInv
<1> USE DEF StreamInv, TokenInv, CaptureInv, mongoVars, RunFails
<1>1. CASE Alone
  <2>1. token' = token /\ seen' = seen
    BY <1>1 DEF Alone
  <2>2. Live' => Live /\ cur' = cur /\ (phase = "unwind" => phase' = "unwind")
    BY <1>1, AloneStep DEF Live, Streaming, Processing
  <2>3. QED
    BY <1>s, <2>1, <2>2
<1>2. CASE CaptureResumes \/ CaptureFromNow
  BY <1>0, <1>2 DEF CaptureResumes, CaptureStarted, CaptureFromNow, Watch, Live
<1>3. CASE CaptureRefused \/ StreamClosed
  BY <1>0, <1>3 DEF CaptureRefused, CaptureFailed, StreamClosed, ChannelClosed,
       Live
<1>4. CASE NextChange
  BY <1>0, <1>s, <1>4 DEF NextChange, engineVars, Live
<1>5. CASE StreamEnds
  BY <1>s, <1>5 DEF StreamEnds, calmVars, Live
<1>6. CASE HandOver
  BY <1>0, <1>6 DEF HandOver, Receive, Live
<1>7. CASE AckDone
  BY <1>0, <1>7 DEF AckDone, Acked, Live
<1>8. CASE AckRefused
  <2>1. phase = "acking" /\ phase' = "unwind" /\ cur' = cur /\ seen' = seen
    BY <1>8 DEF AckRefused, AckFailed
  <2>2. token' = token \/ token' = seen
    BY <1>0, <1>8 DEF AckRefused
  <2>3. Settled(cur)'
    BY <1>0, <1>s, <2>1 DEF Settled
  <2>4. QED
    BY <1>0, <2>1, <2>2, <2>3 DEF Live
<1>9. CASE ProcessDies
  BY <1>9 DEF ProcessDies, Crash, MemoryLost, Live
<1>10. CASE Produce \/ UNCHANGED vars
  BY <1>s, <1>10 DEF Produce, vars, engineVars, Live
<1> HIDE DEF StreamInv, TokenInv, CaptureInv, mongoVars, RunFails
<1> QED
  BY <1>1, <1>2, <1>3, <1>4, <1>5, <1>6, <1>7, <1>8, <1>9, <1>10, StepCases

-----------------------------------------------------------------------------
LEMMA WidthNat == Width \in Nat /\ Width >= 2 /\ IsFiniteSet(Undecodable)
<1>1. Undecodable \in SUBSET (1..MaxEvents) /\ 1 \in Int /\ MaxEvents \in Int
  BY OplogAssumption DEF OplogAssumption
<1>2. IsFiniteSet(Undecodable) /\ Cardinality(Undecodable) \in Nat
  BY <1>1, FS_Interval, Fewer
<1> QED
  BY <1>2 DEF Width

(* The changes in the pipeline are consecutive, and no more than it holds. *)
PipelineOK ==
  /\ Left \in 0..produced /\ Entered \in 0..produced
  /\ Left <= Entered /\ Entered <= Left + Width
  /\ capEv = NoEvent => Entered < Left + Width

LEMMA PipelineHolds ==
  (SourceTypes /\ EngineTypeOK /\ InHand /\ StreamOnly /\ StreamInv) => PipelineOK
<1> SUFFICES ASSUME SourceTypes, EngineTypeOK, InHand, StreamOnly, StreamInv
             PROVE  PipelineOK
  OBVIOUS
<1> USE DEF PipelineOK
<1>0. /\ MaxEvents \in Nat /\ Events = 1..MaxEvents /\ NoEvent \notin Events
      /\ Undecodable \subseteq Events
      /\ cur \in Events \cup {NoEvent} /\ capEv \in Events \cup {NoEvent}
      /\ seen \in 0..produced /\ produced \in 0..MaxEvents
      /\ token \in 0..produced
      /\ capEv # NoEvent => capEv = seen
  BY EngineAssumption, OplogAssumption DEF EngineAssumption, OplogAssumption,
     SourceTypes, EngineTypeOK, StreamInv, CaptureInv
<1>1. CASE ~Live
  BY <1>0, <1>1, WidthNat DEF Left, Entered
<1>2. CASE Live /\ cur = NoEvent
  BY <1>0, <1>2, WidthNat DEF Left, Entered
<1>3. CASE Live /\ cur # NoEvent
  <2>1. /\ cur \in Nat /\ cur >= 1 /\ cur <= seen
        /\ capEv # NoEvent => cur < seen
        /\ \A e \in (cur + 1)..seen : e \in Undecodable \/ e = capEv
    BY <1>0, <1>3 DEF StreamInv, OrderInv
  <2>2. Left = cur - 1 /\ Entered = seen
    BY <1>3 DEF Left, Entered
  <2>3. ASSUME NEW last \in Nat, last <= seen, last < seen \/ capEv = NoEvent
        PROVE  last - cur <= Cardinality(Undecodable)
    <3>1. (cur + 1)..last \subseteq Undecodable
      BY <1>0, <2>1, <2>3
    <3>2. Cardinality((cur + 1)..last) <= Cardinality(Undecodable)
      BY <3>1, WidthNat, Fewer
    <3>3. /\ cur + 1 \in Int /\ last \in Int
          /\ Cardinality(Undecodable) \in Nat
      BY <2>1, <2>3, WidthNat, FS_CardinalityType
    <3>4. Cardinality((cur + 1)..last) = IF cur + 1 > last THEN 0 ELSE last - cur
      BY <2>1, <3>3, FS_Interval
    <3>5. QED
      BY <2>1, <2>3, <3>2, <3>3, <3>4
  <2>4. capEv = NoEvent => seen - cur <= Cardinality(Undecodable)
    BY <1>0, <2>1, <2>3
  <2>5. seen - 1 - cur <= Cardinality(Undecodable)
    BY <1>0, <2>1, <2>3
  <2>6. Cardinality(Undecodable) \in Nat
    BY WidthNat, FS_CardinalityType
  <2>7. QED
    BY <1>0, <2>1, <2>2, <2>4, <2>5, <2>6 DEF Width
<1> QED
  BY <1>1, <1>2, <1>3

(* What was typed and ordered stays so; what left the pipeline is counted. *)
LEMMA TypeInvStep ==
  ASSUME TypeInv, StreamInv, TopInv, [Next]_vars
  PROVE  TypeInv' /\ StreamInv' /\ TopInv'
<1>0. EngineTypeOK' /\ InHand' /\ StreamOnly'
  BY EngineInvs DEF StreamInv
<1>1. StoreOK'
  <2>1. StoreOK
    BY Zenon DEF TypeInv, TypeOK, StoreOK
  <2>2. QED
    BY <2>1, StoreStep
<1>2. SourceTypes' /\ produced <= produced'
  BY SourceStep DEF StreamInv
<1>3. StreamInv'
  BY CaptureStep, OrderStep, TokenStep DEF StreamInv
<1>4. PipelineOK /\ PipelineOK'
  <2>1. SourceTypes /\ EngineTypeOK /\ InHand /\ StreamOnly /\ StreamInv
    BY Zenon DEF TypeInv, TypeOK, SourceTypes
  <2>2. PipelineOK
    BY <2>1, PipelineHolds
  <2>3. PipelineOK'
    BY <1>0, <1>2, <1>3, PipelineHolds, PTL
  <2>4. QED
    BY <2>2, <2>3
<1>5. /\ top \in 0..produced /\ produced \in Nat /\ produced' \in Nat
      /\ Left <= top /\ Left' \in 0..produced'
      /\ SourceTypes /\ token \in Nat /\ token <= top + Width
      /\ Width \in Nat /\ produced <= produced'
  BY OplogAssumption, WidthNat, <1>2, <1>4
     DEF TypeInv, TypeOK, TopInv, SourceTypes, OplogAssumption, PipelineOK
<1>6. /\ top' \in 0..produced' /\ Left' <= top' /\ top <= top'
  <2>1. CASE Tracked
    BY <1>5, <2>1 DEF Tracked
  <2>2. CASE UNCHANGED vars
    <3>1. Left' = Left
      BY <2>2 DEF vars, engineVars, mongoVars, Left, Live
    <3>2. QED
      BY <1>5, <2>2, <3>1 DEF vars, mongoVars
  <2>3. QED
    BY <2>1, <2>2, StepCases
<1>7. token' <= top' + Width
  <2>0. /\ token \in Nat /\ top \in Nat /\ top' \in Nat /\ Width \in Nat
        /\ token <= top + Width /\ top <= top' /\ Left <= top /\ Left \in Nat
    BY <1>4, <1>5, <1>6 DEF PipelineOK
  <2>1. CASE token' = token
    BY <2>0, <2>1, Beyond, Zenon
  <2>2. CASE (AckDone \/ AckRefused) /\ token' # token
    <3>1. token' = seen /\ Live
      BY <2>2, Zenon DEF AckDone, AckRefused, SavedToken, Acked, AckFailed,
         RunFails, Live
    <3>2. seen <= Left + Width /\ seen \in 0..produced /\ Left \in 0..produced
      BY <1>4, <3>1 DEF PipelineOK, Entered
    <3>3. token' \in Nat /\ Left + Width <= top + Width /\ token' <= top + Width
      BY <1>5, <2>0, <3>1, <3>2
    <3>4. QED
      BY <2>0, <3>3, Beyond, Zenon
  <2>3. token' = token \/ AckDone \/ AckRefused
    BY StepCases, Zenon DEF Alone, CaptureResumes, CaptureFromNow, Watch,
       CaptureRefused, NextChange, StreamEnds, HandOver, StreamClosed, Produce,
       ProcessDies, vars, mongoVars
  <2>4. QED
    BY <2>1, <2>2, <2>3
<1>8. TypeOK'
  <2>1. StoreOK' /\ SourceTypes' /\ EngineTypeOK' /\ (top \in 0..produced)'
    BY <1>0, <1>1, <1>2, <1>6
  <2>2. QED
    BY <2>1, Zenon DEF TypeOK, StoreOK, SourceTypes
<1> QED
  BY <1>0, <1>3, <1>6, <1>7, <1>8, Zenon DEF TypeInv, TopInv

LEMMA TypeInvInit ==
  ASSUME Init
  PROVE  TypeInv /\ StreamInv /\ TopInv
<1>0. /\ MaxEvents \in Nat /\ Events = 1..MaxEvents /\ NoEvent \notin Events
      /\ Width \in Nat
  BY EngineAssumption, OplogAssumption, WidthNat
     DEF EngineAssumption, OplogAssumption
<1> USE DEF Init, EngineInit
<1>1. StoreOK
  BY Zenon DEF StoreOK
<1>2. SourceTypes /\ top \in 0..produced
  BY <1>0 DEF SourceTypes
<1>3. EngineTypeOK /\ InHand /\ StreamOnly
  BY EngineStarts
<1>4. StreamInv /\ TopInv
  BY <1>0 DEF StreamInv, CaptureInv, OrderInv, TokenInv, TopInv, Live, Left
<1> HIDE DEF Init, EngineInit
<1> QED
  BY <1>1, <1>2, <1>3, <1>4, Zenon DEF TypeInv, TypeOK, StoreOK, SourceTypes

(* The variables keep their types and the parts of the relay keep pace:    *)
(* what is said above of the capture goroutine, the change in hand and the *)
(* resume token holds throughout.                                          *)
THEOREM TypeInvariant == Spec => [](TypeInv /\ StreamInv /\ TopInv)
<1>1. Init => TypeInv /\ StreamInv /\ TopInv
  BY TypeInvInit
<1>2. TypeInv /\ StreamInv /\ TopInv /\ [Next]_vars
        => (TypeInv /\ StreamInv /\ TopInv)'
  BY TypeInvStep
<1> QED
  BY <1>1, <1>2, PTL DEF Spec

(* The variables of mongo/source and of the engine over it have their      *)
(* types in every reachable state, for every oplog.                        *)
THEOREM TypeCorrect == Spec => []TypeOK
<1>1. TypeInv => TypeOK
  BY DEF TypeInv
<1> QED
  BY <1>1, TypeInvariant, PTL

-----------------------------------------------------------------------------
(* A change is lost only where the pipeline has passed it, and a change    *)
(* that is settled or left out stays so.                                   *)
LEMMA LooseStep ==
  ASSUME TypeInv, StreamInv, [Next]_vars
  PROVE  \A e \in Loose' : e <= produced => e \in Loose
<1>0. /\ produced \in Nat /\ produced' \in Nat
      /\ began \in 0..produced \cup {NeverBegan}
      /\ began' \in 0..produced' \cup {NeverBegan}
      /\ MaxEvents \in Nat /\ produced <= MaxEvents /\ produced' <= MaxEvents
  BY SourceStep, OplogAssumption DEF StreamInv, TypeInv, TypeOK, SourceTypes,
     OplogAssumption
<1>1. \A e : Settled(e) => Settled(e)'
  BY EngineSteps, SettledStep DEF TypeInv, TypeOK, StreamInv
<1>2. missed \subseteq missed'
  BY StepCases, Zenon DEF Alone, CaptureResumes, CaptureFromNow, CaptureRefused,
     NextChange, StreamEnds, HandOver, StreamClosed, AckDone, AckRefused,
     Produce, ProcessDies, vars, mongoVars
<1>3. began' = began \/ (began = NeverBegan /\ began' = produced /\ produced' = produced)
  BY StepCases, Zenon DEF Alone, CaptureResumes, CaptureFromNow, Watch,
     CaptureRefused, NextChange, StreamEnds, HandOver, StreamClosed, AckDone,
     AckRefused, Produce, ProcessDies, vars, mongoVars
<1>4. SUFFICES ASSUME NEW e \in Loose', e <= produced
               PROVE  e \in Loose
  OBVIOUS
<1>5. /\ e \in (began' + 1)..produced' /\ e \notin Undecodable
      /\ ~Settled(e)' /\ e \notin missed'
  BY <1>4 DEF Loose, Lacking, Owed, Settled
<1>6. e \in (began + 1)..produced
  <2>1. CASE began' = began
    <3>1. e \in (began + 1)..produced'
      BY <1>5, <2>1, Zenon
    <3>2. QED
      BY <1>0, <1>4, <3>1 DEF NeverBegan
  <2>2. CASE began' = produced /\ produced' = produced
    <3>1. e \in (produced + 1)..produced
      BY <1>5, <2>2, Zenon
    <3>2. QED
      BY <1>0, <3>1
  <2>3. QED
    BY <1>3, <2>1, <2>2
<1> QED
  BY <1>1, <1>2, <1>5, <1>6 DEF Loose, Lacking, Owed

LEMMA LooseFinite ==
  ASSUME TypeInv
  PROVE  IsFiniteSet(Loose)
<1>1. Loose \subseteq 0..MaxEvents
  BY OplogAssumption DEF Loose, Lacking, Owed, TypeInv, TypeOK, OplogAssumption,
     NeverBegan
<1> QED
  BY <1>1, NatInterval, OplogAssumption DEF OplogAssumption

(* While it streams, what passes out of the pipeline is settled, or does   *)
(* not decode; and a publish fails at the price of one failure.            *)
LEMMA StreamGoesOn ==
  ASSUME TypeInv, StreamInv, [Next]_vars, Streaming, Streaming'
  PROVE  /\ \A e \in Loose : e <= Left' => e <= Left
         /\ Failing' => Failing \/ faults' = faults + 1
<1>0. /\ MaxEvents \in Nat /\ Events = 1..MaxEvents /\ NoEvent \notin Events
      /\ cur \in Events \cup {NoEvent} /\ capEv \in Events \cup {NoEvent}
      /\ seen \in Nat
      /\ phase \in {"capture", "select"} => cur = NoEvent
      /\ phase \in Processing => cur \in Events
      /\ phase = "acking" => Settled(cur)
      /\ Loose \subseteq Events
      /\ \A e \in Loose : ~Settled(e) /\ e \notin Undecodable
  BY EngineAssumption, OplogAssumption DEF EngineAssumption, OplogAssumption,
     TypeInv, TypeOK, EngineTypeOK, InHand, StreamOnly, Loose, Lacking, Owed,
     NeverBegan
<1>1. \A e \in Loose : e <= Left' => e <= Left
  <2> USE DEF StreamInv, OrderInv, CaptureInv, mongoVars
  <2>1. CASE Alone
    <3>1. UNCHANGED <<seen, capEv, cur>> /\ Live /\ Live'
      BY <2>1, AloneStep DEF Alone, Streaming, Live, Processing
    <3>2. Left' = Left
      BY <3>1 DEF Left
    <3>3. QED
      BY <3>2
  <2>2. CASE NextChange
    <3>1. /\ seen' = seen + 1 /\ cur' = cur /\ capEv = NoEvent /\ Live /\ Live'
          /\ (capEv' = seen' /\ seen' \in Events) \/ (capEv' = NoEvent /\ seen' \in Undecodable)
      <4>1. seen' \in Events
        BY <1>0, <2>2 DEF NextChange, TypeInv, TypeOK
      <4>2. QED
        BY <2>2, <4>1 DEF NextChange, engineVars, Live, Streaming, Processing
    <3>2. QED
      BY <1>0, <3>1 DEF Left
  <2>3. CASE StreamEnds
    BY <2>3 DEF StreamEnds, calmVars, Left, Live
  <2>4. CASE HandOver
    BY <1>0, <2>4 DEF HandOver, Receive, Left, Live
  <2>5. CASE AckDone
    <3>1. /\ UNCHANGED <<seen, capEv>> /\ cur \in Events /\ cur' = NoEvent
          /\ Live /\ Live' /\ Settled(cur)
      BY <1>0, <2>5 DEF AckDone, Acked, Live, Processing
    <3>2. \A e \in (cur + 1)..seen : e \in Undecodable \/ e = capEv
      BY <1>0, <3>1
    <3>3. Left = cur - 1 /\ Left' = IF capEv # NoEvent THEN capEv - 1 ELSE seen
      <4>1. Left = cur - 1
        BY <1>0, <3>1 DEF Left
      <4>2. Left' = IF capEv' # NoEvent THEN capEv' - 1 ELSE seen'
        BY <3>1, Zenon DEF Left
      <4>3. QED
        BY <3>1, <4>1, <4>2, Zenon
    <3>4. ASSUME NEW e \in Loose, e <= Left', ~(e <= Left)
          PROVE  FALSE
      <4>1. e \in Events /\ e # cur /\ e \notin Undecodable
        BY <1>0, <3>1, <3>4
      <4>2. e <= IF capEv # NoEvent THEN capEv - 1 ELSE seen
        BY <3>3, <3>4, Zenon
      <4>3. e \in (cur + 1)..seen
        BY <1>0, <3>1, <3>3, <3>4, <4>1, <4>2
      <4>4. QED
        BY <1>0, <3>2, <4>1, <4>2, <4>3
    <3>5. QED
      BY <3>4
  <2>6. CASE Produce \/ UNCHANGED vars
    <3>1. Left' = Left
      BY <2>6 DEF Produce, vars, engineVars, Left, Live
    <3>2. QED
      BY <3>1
  <2>7. CASE CaptureResumes \/ CaptureFromNow \/ CaptureRefused \/ StreamClosed
             \/ AckRefused \/ ProcessDies
    BY <2>7 DEF CaptureResumes, CaptureStarted, CaptureFromNow, CaptureRefused,
       CaptureFailed, StreamClosed, ChannelClosed, AckRefused, AckFailed, RunFails,
       ProcessDies, Crash, Streaming, Processing
  <2> HIDE DEF StreamInv, OrderInv, CaptureInv, mongoVars
  <2> QED
    BY <2>1, <2>2, <2>3, <2>4, <2>5, <2>6, <2>7, StepCases
<1>2. Failing' => Failing \/ faults' = faults + 1
  BY EngineSteps, FailingStep DEF TypeInv, TypeOK, StreamInv
<1> QED
  BY <1>1, <1>2

LEMMA LooseEvents ==
  ASSUME TypeInv
  PROVE  /\ Loose \subseteq Events /\ Events = 1..MaxEvents /\ MaxEvents \in Nat
         /\ \A e \in Loose : ~Settled(e) /\ e \notin Undecodable
  BY OplogAssumption DEF OplogAssumption, TypeInv, TypeOK, Loose, Lacking, Owed,
     NeverBegan

(* While it streams, the token is one change ahead of the engine at most.  *)
LEMMA TokenNear ==
  ASSUME TypeInv, StreamInv, Streaming
  PROVE  /\ Left \in Int /\ token <= Left + 1
         /\ \A e \in Loose : e <= token => e <= Left \/ e = Left + 1
<1>0. /\ MaxEvents \in Nat /\ Events = 1..MaxEvents /\ NoEvent \notin Events
      /\ cur \in Events \cup {NoEvent} /\ capEv \in Events \cup {NoEvent}
      /\ seen \in Nat /\ token \in Nat
      /\ Live /\ phase # "unwind"
  BY EngineAssumption, OplogAssumption DEF EngineAssumption, OplogAssumption,
     TypeInv, TypeOK, EngineTypeOK, Streaming, Live, Processing
<1>1. token <= Left + 1 /\ Left \in Int
  BY <1>0 DEF Left, StreamInv, TokenInv, CaptureInv
<1> QED
  BY <1>0, <1>1, LooseEvents

(* When streaming ends, the saved token exposes one change at most that    *)
(* was still in the pipeline, and a failure has been counted for it, or    *)
(* the run is cancelled.                                                   *)
LEMMA StreamStops ==
  ASSUME TypeInv, StreamInv, [Next]_vars, Streaming, ~Streaming'
  PROVE  /\ \E x : \A e \in Loose : e <= token' => e <= Left \/ e = x
         /\ \/ faults' = faults + 1 \/ Excused' \/ Failing
            \/ \A e \in Loose : e <= token' => e <= Left
<1>0. /\ MaxEvents \in Nat /\ Events = 1..MaxEvents /\ NoEvent \notin Events
      /\ cur \in Events \cup {NoEvent} /\ capEv \in Events \cup {NoEvent}
      /\ seen \in Nat /\ token \in Nat
      /\ phase \in {"capture", "select"} => cur = NoEvent
      /\ phase \in Processing => cur \in Events
      /\ phase = "acking" => Settled(cur)
      /\ Loose \subseteq Events
      /\ \A e \in Loose : ~Settled(e) /\ e \notin Undecodable
      /\ Live
  BY EngineAssumption, OplogAssumption DEF EngineAssumption, OplogAssumption,
     TypeInv, TypeOK, EngineTypeOK, InHand, StreamOnly, Loose, Lacking, Owed,
     NeverBegan, Streaming, Live, Processing
<1> USE DEF StreamInv, TokenInv, OrderInv, CaptureInv, mongoVars
<1>1. ASSUME token' = token
      PROVE  \E x : \A e \in Loose : e <= token' => e <= Left \/ e = x
  BY <1>1, TokenNear
<1>9. phase # "unwind"
  BY DEF Streaming, Processing
<1>2. ASSUME Fails, phase' = "unwind", cancelled' = cancelled
      PROVE  faults' = faults + 1 \/ Excused'
  BY <1>2, Zenon DEF Fails, Fault, Excused
<1>3. CASE Alone
  <2>1. token' = token /\ (Failing \/ Excused' \/ faults' = faults + 1)
    BY <1>3, AloneStep DEF Alone
  <2>2. QED
    BY <1>1, <2>1
<1>4. CASE StreamClosed
  <2>1. capEv = NoEvent /\ cur = NoEvent /\ token' = token
    BY <1>0, <1>4 DEF StreamClosed, ChannelClosed, RunFails
  <2>2. Left = seen
    BY <1>0, <2>1 DEF Left
  <2>3. \A e \in Loose : e <= token' => e <= Left
    BY <1>0, <2>1, <2>2
  <2>4. QED
    BY <2>3
<1>5. CASE AckRefused
  <2>1. /\ phase = "acking" /\ phase' = "unwind" /\ Fails
        /\ cancelled' = cancelled
    BY <1>5, Zenon DEF AckRefused, AckFailed, RunFails
  <2>2. token' = token \/ token' = seen
    BY <1>5, Zenon DEF AckRefused, SavedToken
  <2>3. cur \in Events /\ Settled(cur) /\ Left = cur - 1
    BY <1>0, <2>1 DEF Left, Processing
  <2>4. \A e \in Loose : e <= seen => e <= Left \/ e = capEv
    BY <1>0, <2>3
  <2>5. \E x : \A e \in Loose : e <= token' => e <= Left \/ e = x
    BY <1>1, <2>2, <2>4
  <2>6. QED
    BY <1>2, <2>1, <2>5
<1>6. CASE ProcessDies
  <2>1. faults' = faults + 1 /\ token' = token
    BY <1>6 DEF ProcessDies, Crash, Fault
  <2>2. QED
    BY <1>1, <2>1
<1>7. CASE NextChange \/ StreamEnds \/ Produce \/ UNCHANGED vars
  BY <1>7 DEF NextChange, StreamEnds, Produce, vars, engineVars, calmVars, Streaming
<1>8. CASE CaptureResumes \/ CaptureFromNow \/ CaptureRefused \/ HandOver \/ AckDone
  BY <1>8 DEF CaptureResumes, CaptureStarted, CaptureFromNow, CaptureRefused,
     CaptureFailed, RunFails, HandOver, Receive, AckDone, Acked, Streaming,
     Processing
<1> HIDE DEF StreamInv, TokenInv, OrderInv, CaptureInv, mongoVars
<1> QED
  BY <1>3, <1>4, <1>5, <1>6, <1>7, <1>8, StepCases

(* Between two streams the token stays, and so does the excuse.            *)
LEMMA StreamRests ==
  ASSUME TypeInv, StreamInv, [Next]_vars, ~Streaming, ~Streaming'
  PROVE  token' = token /\ (Excused => Excused' \/ faults' = faults + 1)
<1>1. Excused => Excused' \/ faults' = faults + 1
  BY EngineSteps, ExcusedStep DEF TypeInv, StreamInv
<1>2. ~AckDone /\ ~AckRefused
  BY DEF AckDone, Acked, AckRefused, AckFailed, RunFails, Streaming, Processing
<1>3. token' = token
  BY <1>2, StepCases, Zenon DEF Alone, CaptureResumes, CaptureFromNow, Watch,
     CaptureRefused, NextChange, StreamEnds, HandOver, StreamClosed, Produce,
     ProcessDies, vars, mongoVars
<1> QED
  BY <1>1, <1>3

(* A stream begins behind the token, or leaves out all that is loose.      *)
LEMMA StreamStarts ==
  ASSUME TypeInv, StreamInv, [Next]_vars, ~Streaming, Streaming'
  PROVE  /\ ~Excused /\ ~Failing'
         /\ \A e \in Loose' : e <= Left' => e <= produced /\ e <= token

<1>0. /\ phase \in {"capture", "select"} => cur = NoEvent
      /\ token \in 0..produced /\ produced \in 0..MaxEvents /\ MaxEvents \in Nat
      /\ phase # "publishing" => \A p \in Producers : pub[p] = "idle"
  BY OplogAssumption DEF OplogAssumption, TypeInv, TypeOK, InHand, StreamOnly
<1>1. CaptureResumes \/ CaptureFromNow
  <2>1. ~Alone
    BY AloneStep
  <2>2. ~NextChange /\ ~StreamEnds /\ ~Produce /\ ~UNCHANGED vars
    BY DEF NextChange, StreamEnds, Produce, vars, engineVars, calmVars, Streaming
  <2>3. ~CaptureRefused /\ ~StreamClosed /\ ~HandOver /\ ~AckDone
        /\ ~AckRefused /\ ~ProcessDies
    BY DEF CaptureRefused, CaptureFailed, RunFails, StreamClosed, ChannelClosed,
       HandOver, Receive, AckDone, Acked, AckRefused, AckFailed, ProcessDies,
       Crash, Streaming, Processing
  <2>4. QED
    BY <2>1, <2>2, <2>3, StepCases
<1>2. /\ phase = "capture" /\ UNCHANGED <<cur, pub, delivered, dropped>>
      /\ capEv' = NoEvent
  BY <1>1 DEF CaptureResumes, CaptureStarted, CaptureFromNow, Watch
<1>3. ~Excused /\ ~Failing'
  BY <1>0, <1>2 DEF Excused, Failing
<1>4. CASE CaptureResumes
  <2>1. Left' = token
    BY <1>0, <1>2, <1>4 DEF CaptureResumes, CaptureStarted, Watch, Left, Live
  <2>2. Loose' \subseteq Int
    BY SourceStep, OplogAssumption DEF StreamInv, Loose, Lacking, Owed, SourceTypes, NeverBegan, OplogAssumption
  <2>3. QED
    BY <1>0, <1>3, <2>1, <2>2
<1>5. CASE CaptureFromNow
  <2>1. \A e : Settled(e)' <=> Settled(e)
    BY <1>2 DEF Settled
  <2>2. /\ missed' = missed \cup Unsettled /\ produced' = produced
        /\ began' = began \/ began' = produced
    BY <1>5, Zenon DEF CaptureFromNow, Watch
  <2>3. Loose' = {}
    <3>1. CASE began' = began
      BY <2>1, <2>2, <3>1, Zenon DEF Loose, Lacking, Owed, Unsettled
    <3>2. CASE began' = produced
      <4>1. Owed' \subseteq (produced + 1)..produced
        BY <2>2, <3>2, Zenon DEF Owed
      <4>2. (produced + 1)..produced = {}
        BY <1>0
      <4>3. QED
        BY <4>1, <4>2 DEF Loose, Lacking
    <3>3. QED
      BY <2>2, <3>1, <3>2
  <2>4. QED
    BY <1>3, <2>3
<1> QED
  BY <1>1, <1>4, <1>5

LEMMA WithinLog ==
  ASSUME TypeInv, StreamInv, [Next]_vars
  PROVE  Left' \in 0..produced /\ token' \in 0..produced
<1>1. PipelineOK /\ PipelineOK'
  <2>1. SourceTypes /\ EngineTypeOK /\ InHand /\ StreamOnly /\ StreamInv
    BY Zenon DEF TypeInv, TypeOK, SourceTypes
  <2>2. SourceTypes' /\ EngineTypeOK' /\ InHand' /\ StreamOnly' /\ StreamInv'
    BY EngineInvs, SourceStep, CaptureStep, OrderStep, TokenStep DEF StreamInv
  <2>3. PipelineOK
    BY <2>1, PipelineHolds
  <2>4. PipelineOK'
    BY <2>2, PipelineHolds, PTL
  <2>5. QED
    BY <2>3, <2>4
<1>2. /\ Left \in 0..produced /\ token \in 0..produced
      /\ Left' \in 0..produced' /\ token' \in 0..produced'
  BY <1>1, SourceStep DEF PipelineOK, StreamInv, TypeInv, TypeOK, SourceTypes
<1>3. produced' = produced \/ (Left' = Left /\ token' = token)
  <2>1. CASE Produce
    BY <2>1 DEF Produce, engineVars, Left, Live
  <2>2. produced' = produced \/ Produce
    BY StepCases, Zenon DEF Alone, CaptureResumes, CaptureFromNow, Watch,
       CaptureRefused, NextChange, StreamEnds, HandOver, StreamClosed,
       AckDone, AckRefused, ProcessDies, vars, mongoVars
  <2>3. QED
    BY <2>1, <2>2
<1> QED
  BY <1>2, <1>3

LEMMA CountStep ==
  ASSUME TypeInv, StreamInv, CountInv, [Next]_vars
  PROVE  CountInv'
<1> DEFINE left == {e \in Loose' : e <= Left'}
           saved == {e \in Loose' : e <= token'}
<1>0. /\ IsFiniteSet(Loose) /\ IsFiniteSet(Exposed(Left))
      /\ IsFiniteSet(Exposed(token))
      /\ Loose' \subseteq Nat /\ produced \in Nat
  <2>1. IsFiniteSet(Loose)
    BY LooseFinite
  <2>2. Loose' \subseteq Nat /\ produced \in Nat
    BY SourceStep, OplogAssumption DEF StreamInv, Loose, Lacking, Owed,
       SourceTypes, NeverBegan, OplogAssumption, TypeInv, TypeOK
  <2>3. Exposed(Left) \subseteq Loose /\ Exposed(token) \subseteq Loose
    BY DEF Exposed
  <2>4. QED
    BY <2>1, <2>2, <2>3, Fewer
<1>1. faults \in Nat /\ (faults' = faults \/ faults' = faults + 1)
  BY EngineSteps, FaultsGrow DEF TypeInv, TypeOK, StreamInv
<1>2. Exposed(Left)' = left /\ Exposed(token)' = saved
  BY DEF Exposed
<1>3. /\ \A e \in left : e \in Loose /\ e <= Left'
      /\ \A e \in saved : e \in Loose /\ e <= token'
  <2>1. \A e \in Loose' : e <= Left' \/ e <= token' => e <= produced
    BY <1>0, WithinLog
  <2>2. QED
    BY <2>1, LooseStep
<1> HIDE DEF left, saved
<1>4. CASE Streaming /\ Streaming'
  <2>1. left \subseteq Exposed(Left)
    BY <1>3, <1>4, StreamGoesOn DEF Exposed
  <2>2. Cardinality(left) \in Nat /\ Cardinality(Exposed(Left)) \in Nat
        /\ Cardinality(left) <= Cardinality(Exposed(Left))
    BY <1>0, <2>1, Fewer
  <2>3. Cardinality(Exposed(Left)) + (IF Failing THEN 1 ELSE 0) <= faults
    BY <1>4 DEF CountInv
  <2>4. Failing' => Failing \/ faults' = faults + 1
    BY <1>4, StreamGoesOn
  <2>5. Cardinality(left) + (IF Failing' THEN 1 ELSE 0) <= faults'
    BY <1>1, <2>2, <2>3, <2>4
  <2>6. QED
    BY <1>2, <1>4, <2>5, Zenon DEF CountInv
<1>5. CASE Streaming /\ ~Streaming'
  <2>1. PICK x : \A e \in Loose : e <= token' => e <= Left \/ e = x
    BY <1>5, StreamStops
  <2>2. saved \subseteq Exposed(Left) \cup {x}
    BY <1>3, <2>1 DEF Exposed
  <2>3. Cardinality(saved) \in Nat /\ Cardinality(Exposed(Left)) \in Nat
        /\ Cardinality(saved) <= Cardinality(Exposed(Left)) + 1
    BY <1>0, <2>2, OneMore
  <2>4. Cardinality(Exposed(Left)) + (IF Failing THEN 1 ELSE 0) <= faults
    BY <1>5 DEF CountInv
  <2>5. CASE faults' = faults + 1 \/ Excused' \/ Failing
    <3>1. Cardinality(saved) <= faults' + (IF Excused' THEN 1 ELSE 0)
      BY <1>1, <2>3, <2>4, <2>5
    <3>2. QED
      BY <1>2, <1>5, <3>1, Zenon DEF CountInv
  <2>6. CASE \A e \in Loose : e <= token' => e <= Left
    <3>1. saved \subseteq Exposed(Left)
      BY <1>3, <2>6 DEF Exposed
    <3>2. Cardinality(saved) <= Cardinality(Exposed(Left))
      BY <1>0, <3>1, Fewer
    <3>3. Cardinality(saved) <= faults' + (IF Excused' THEN 1 ELSE 0)
      BY <1>1, <2>3, <2>4, <3>2
    <3>4. QED
      BY <1>2, <1>5, <3>3, Zenon DEF CountInv
  <2>7. QED
    BY <1>5, <2>5, <2>6, StreamStops
<1>6. CASE ~Streaming /\ ~Streaming'
  <2>1. saved \subseteq Exposed(token)
    BY <1>3, <1>6, StreamRests DEF Exposed
  <2>2. Cardinality(saved) \in Nat /\ Cardinality(Exposed(token)) \in Nat
        /\ Cardinality(saved) <= Cardinality(Exposed(token))
    BY <1>0, <2>1, Fewer
  <2>3. Cardinality(Exposed(token)) <= faults + (IF Excused THEN 1 ELSE 0)
    BY <1>6 DEF CountInv
  <2>4. Excused => Excused' \/ faults' = faults + 1
    BY <1>6, StreamRests
  <2>5. Cardinality(saved) <= faults' + (IF Excused' THEN 1 ELSE 0)
    BY <1>1, <2>2, <2>3, <2>4
  <2>6. QED
    BY <1>2, <1>6, <2>5, Zenon DEF CountInv
<1>7. CASE ~Streaming /\ Streaming'
  <2>1. /\ ~Excused /\ ~Failing'
        /\ \A e \in Loose' : e <= Left' => e <= token
    BY <1>7, StreamStarts
  <2>2. left \subseteq Exposed(token)
    BY <1>3, <2>1 DEF Exposed, left
  <2>3. Cardinality(left) \in Nat /\ Cardinality(Exposed(token)) \in Nat
        /\ Cardinality(left) <= Cardinality(Exposed(token))
    BY <1>0, <2>2, Fewer
  <2>4. Cardinality(Exposed(token)) <= faults
    BY <1>1, <1>7, <2>1, <2>3 DEF CountInv
  <2>5. Cardinality(left) + (IF Failing' THEN 1 ELSE 0) <= faults'
    BY <1>1, <2>1, <2>3, <2>4
  <2>6. QED
    BY <1>2, <1>7, <2>5, Zenon DEF CountInv
<1> QED
  BY <1>4, <1>5, <1>6, <1>7, Zenon

THEOREM CountInvariant == Spec => [](IInv)
<1>1. Init => CountInv
  <2>1. Init => Loose = {} /\ ~Streaming /\ faults = 0
    BY OplogAssumption DEF OplogAssumption, Init, EngineInit, Loose, Lacking,
       Owed, NeverBegan, Streaming, Processing
  <2>2. Loose = {} => Cardinality(Exposed(token)) = 0
    BY FS_EmptySet DEF Exposed
  <2>3. QED
    BY <2>1, <2>2 DEF CountInv
<1>2. TypeInv /\ StreamInv /\ TopInv /\ CountInv /\ [Next]_vars => CountInv'
  BY CountStep
<1> QED
  BY <1>1, <1>2, TypeInvariant, PTL DEF Spec, IInv

(* README.md:28: the resume token passes no more changes that have been    *)
(* neither settled nor left out than there were failures, and one, however *)
(* often streams break, publishes fail and processes die.                  *)
THEOREM LossIsBounded == Spec => []LossBounded
<1>1. IInv => LossBounded
  <2> SUFFICES ASSUME IInv PROVE LossBounded
    OBVIOUS
  <2>0. /\ faults \in Nat /\ IsFiniteSet(Loose) /\ token \in Nat
    BY LooseFinite, EngineAssumption, OplogAssumption DEF EngineAssumption,
       OplogAssumption, IInv, TypeInv, TypeOK, EngineTypeOK
  <2>1. Exposed(token) = {e \in Lacking \ missed : e <= token}
    BY DEF Exposed, Loose
  <2>2. CASE ~Streaming
    <3>1. Cardinality(Exposed(token)) \in Nat
      BY <2>0, Fewer DEF Exposed
    <3>2. QED
      BY <2>0, <2>1, <2>2, <3>1 DEF IInv, CountInv, LossBounded
  <2>3. CASE Streaming
    <3>2. Exposed(token) \subseteq Exposed(Left) \cup {Left + 1}
      BY <2>3, TokenNear DEF Exposed, IInv
    <3>3. IsFiniteSet(Exposed(Left))
      BY <2>0, Fewer DEF Exposed
    <3>4. Cardinality(Exposed(token)) <= Cardinality(Exposed(Left)) + 1
          /\ Cardinality(Exposed(token)) \in Nat /\ Cardinality(Exposed(Left)) \in Nat
      BY <3>2, <3>3, OneMore
    <3>5. QED
      BY <2>0, <2>1, <2>3, <3>4 DEF IInv, CountInv, LossBounded
  <2>4. QED
    BY <2>2, <2>3
<1> QED
  BY <1>1, CountInvariant, PTL

(* Order: when a change first reaches a producer, the earlier changes of   *)
(* the oplog have been settled or left out, but for one per failure, for   *)
(* all the failures and restarts before.                                   *)
THEOREM ChangesStayInOrder == Spec => InOplogOrder
<1>1. ASSUME IInv, [Next]_vars,
             NEW p \in Producers, NEW e \in delivered'[p] \ delivered[p]
      PROVE  Cardinality({d \in Lacking \ missed : d < e}) <= faults
  <2>1. e = cur /\ pub[p] = "running"
    BY <1>1, EngineSteps, DeliveredStep DEF IInv, TypeInv, TypeOK, StreamInv
  <2>2. phase = "publishing" /\ cur \in Events
    BY <1>1, <2>1 DEF IInv, TypeInv, InHand, Processing
  <2>3. Streaming /\ Live /\ Loose \subseteq Events /\ MaxEvents \in Nat
        /\ Events = 1..MaxEvents /\ IsFiniteSet(Loose) /\ cur # NoEvent
        /\ faults \in Nat
    BY <1>1, <2>2, LooseEvents, LooseFinite, EngineAssumption
       DEF EngineAssumption, IInv, Streaming, Live, Processing, TypeInv, TypeOK,
       EngineTypeOK
  <2>4. Left = cur - 1
    BY <2>3 DEF Left
  <2>5. {d \in Lacking \ missed : d < e} = Exposed(Left)
    BY <2>1, <2>2, <2>3, <2>4 DEF Exposed, Loose
  <2>6. Cardinality(Exposed(Left)) \in Nat
    BY <2>3, Fewer DEF Exposed
  <2>7. Cardinality(Exposed(Left)) <= faults
    BY <1>1, <2>3, <2>6 DEF IInv, CountInv
  <2>8. QED
    BY <2>5, <2>7
<1>2. IInv /\ [Next]_vars =>
        [\A p \in Producers : \A e \in delivered'[p] \ delivered[p] :
           Cardinality({d \in Lacking \ missed : d < e}) <= faults]_vars
  BY <1>1
<1> QED
  BY <1>2, CountInvariant, PTL DEF Spec, InOplogOrder

-----------------------------------------------------------------------------
(* The refinement, one kind of step at a time.                             *)
LEMMA Stutters ==
  ASSUME TopInv, top \in Nat, Left \in Nat,
         Tracked, Left' = Left, Entered' = Entered,
         UNCHANGED <<delivered, dropped, token>>
  PROVE  UNCHANGED P!vars
  BY DEF TopInv, Tracked, P!vars

LEMMA Restarts ==
  ASSUME TypeInv, Tracked, ~Live', UNCHANGED <<delivered, dropped, token>>
  PROVE  P!Next
<1>1. Left' = token /\ Entered' = token /\ token \in 0..MaxEvents
  BY OplogAssumption DEF Left, Entered, OplogAssumption, TypeInv, TypeOK
<1>2. P!Restart
  BY <1>1 DEF P!Restart, P!Starts, Tracked
<1> QED
  BY <1>2 DEF P!Next

LEMMA AloneRefines ==
  ASSUME TypeInv, StreamInv, TopInv, Alone, Tracked
  PROVE  [P!Next]_(P!vars)

<1>0. /\ PipelineOK /\ Left \in Nat /\ Entered \in Nat /\ top \in Nat
      /\ EngineTypeOK /\ InHand /\ StreamOnly
      /\ Entered <= MaxEvents
  <2>1. SourceTypes /\ EngineTypeOK /\ InHand /\ StreamOnly /\ StreamInv
        /\ top \in 0..produced
    BY Zenon DEF TypeInv, TypeOK, SourceTypes
  <2>2. PipelineOK
    BY <2>1, PipelineHolds
  <2>3. QED
    BY <2>1, <2>2, OplogAssumption DEF PipelineOK, SourceTypes, OplogAssumption
<1>1. UNCHANGED <<token, seen, capEv>> /\ (Live' => Live /\ cur' = cur)
  BY AloneStep DEF Alone, mongoVars
<1>2. ASSUME Live' PROVE Left' = Left /\ Entered' = Entered
  BY <1>1, <1>2 DEF Left, Entered
<1>3. CASE UNCHANGED <<delivered, dropped>>
  <2>1. CASE Live'
    <3>1. UNCHANGED P!vars
      BY <1>0, <1>1, <1>2, <1>3, <2>1, Stutters
    <3>2. QED
      BY <3>1
  <2>2. CASE ~Live'
    <3>1. P!Next
      BY <1>1, <1>3, <2>2, Restarts
    <3>2. QED
      BY <3>1
  <2>3. QED
    BY <2>1, <2>2
<1>4. ASSUME phase \in Processing, phase' \in Processing
      PROVE  /\ Live' /\ cur \in Events /\ cur = Left + 1 /\ Left < Entered
             /\ top' = top /\ Left' = Left /\ Entered' = Entered
  <2>1. Live /\ Live' /\ cur \in Events /\ cur # NoEvent /\ Events \subseteq Nat
    BY <1>0, <1>4, EngineAssumption, OplogAssumption DEF EngineAssumption,
       OplogAssumption, InHand, Live, Processing
  <2>2. Left = cur - 1 /\ Entered = seen
    BY <2>1 DEF Left, Entered
  <2>3. cur <= seen
    BY <2>1 DEF StreamInv, OrderInv
  <2>4. seen \in Nat /\ Left' = Left /\ Entered' = Entered
    BY <1>0, <1>2, <2>1, <2>2
  <2>5. top' = top
    BY <1>0, <2>4 DEF Tracked, TopInv
  <2>6. QED
    BY <2>1, <2>2, <2>3, <2>4, <2>5
<1>5. ASSUME NEW p \in Producers, PublishOk(p) \/ PublishFailed(p)
      PROVE  [P!Next]_(P!vars)
  <2>1. phase = "publishing" /\ phase' = "publishing" /\ UNCHANGED dropped
    BY <1>0, <1>5 DEF PublishOk, PublishFailed, InHand
  <2>2. CASE delivered' = [delivered EXCEPT ![p] = @ \cup {cur}]
    <3>1. P!Publish(p)
      BY <1>1, <1>4, <2>1, <2>2 DEF P!Publish, Processing
    <3>2. QED
      BY <3>1 DEF P!Next
  <2>3. QED
    BY <1>3, <1>5, <2>1, <2>2 DEF PublishOk, PublishFailed
<1>6. CASE TransformDrops
  <2>1. /\ phase = "transform" /\ phase' = "acking"
        /\ dropped' = dropped \cup {cur} /\ UNCHANGED delivered
    BY <1>0, <1>6, SettledAcks DEF TransformDrops, Processing
  <2>2. /\ cur = Left + 1 /\ Left < Entered
        /\ top' = top /\ Left' = Left /\ Entered' = Entered
    BY <1>4, <2>1 DEF Processing
  <2>3. P!Drop
    BY <1>0, <1>1, <2>1, <2>2 DEF P!Drop, P!DoneMovesTo, TopInv
  <2>4. QED
    BY <2>3 DEF P!Next
<1>7. \/ UNCHANGED <<delivered, dropped>> \/ TransformDrops
      \/ \E p \in Producers : PublishOk(p) \/ PublishFailed(p)
  <2>1. CASE \/ SourceConnected \/ SourceConnectFailed
             \/ DialsCollected \/ SourceClosed \/ Retry
    BY <2>1 DEF SourceConnected, SourceConnectFailed, DialsCollected,
       SourceClosed, Retry
  <2>2. CASE \/ DialCancelled \/ StreamCancelled
             \/ TransformKeeps \/ TransformFails \/ PublishDone
             \/ \E p \in Producers : CollectDial(p) \/ DialOk(p) \/ DialFailed(p)
    BY <2>2 DEF CollectDial, DialOk, DialFailed, DialCancelled, StreamCancelled,
       TransformKeeps, TransformFails, RunFails, PublishDone
  <2>3. CASE Unwind \/ StartBackoff \/ BackoffCancelled \/ Cancel
    BY <2>3 DEF Unwind, StartBackoff, BackoffCancelled, Cancel
  <2>4. QED
    BY <2>1, <2>2, <2>3, Zenon DEF Alone, OwnStep
<1> QED
  BY <1>3, <1>5, <1>6, <1>7

(* What is saved is not further ahead than the pipeline is wide.           *)
LEMMA SavedNear ==
  ASSUME TypeInv, StreamInv, TopInv, [Next]_vars
  PROVE  token' \in P!Near
<1>1. Width \in Nat /\ top \in Nat /\ produced \in 0..MaxEvents /\ MaxEvents \in Nat
      /\ token \in Nat /\ seen \in Nat
  BY WidthNat, OplogAssumption DEF OplogAssumption, TypeInv, TypeOK
<1>2. PipelineOK
  <2>1. SourceTypes /\ EngineTypeOK /\ InHand /\ StreamOnly /\ StreamInv
    BY Zenon DEF TypeInv, TypeOK, SourceTypes
  <2>2. QED
    BY <2>1, PipelineHolds
<1>3. token' \in 0..produced
  BY WithinLog
<1>4. token' = token \/ (token' = seen /\ Live)
  BY StepCases, Zenon DEF Alone, CaptureResumes, CaptureFromNow, Watch,
     CaptureRefused, NextChange, StreamEnds, HandOver, StreamClosed, Produce,
     ProcessDies, vars, mongoVars, AckDone, AckRefused, SavedToken, Acked,
     AckFailed, RunFails, Live
<1>5. token <= top + Width
  BY DEF TopInv
<1>6. Live => seen <= top + Width
  BY <1>1, <1>2 DEF PipelineOK, Entered, TopInv
<1>7. \A m : (m = token \/ (m = seen /\ Live)) /\ m \in 0..produced => m \in P!Near
  BY <1>1, <1>5, <1>6 DEF P!Near, Width
<1> QED
  BY <1>3, <1>4, <1>7

LEMMA RefinementStep ==
  ASSUME TypeInv, StreamInv, TopInv, [Next]_vars
  PROVE  [P!Next]_(P!vars)
<1>0. /\ PipelineOK /\ Left \in Nat /\ Entered \in Nat /\ top \in Nat
      /\ Left <= MaxEvents /\ Entered <= MaxEvents /\ top <= produced
      /\ MaxEvents \in Nat /\ produced \in 0..MaxEvents
      /\ Events = 1..MaxEvents /\ NoEvent \notin Events
      /\ seen \in Nat /\ token \in Nat
      /\ cur \in Events \cup {NoEvent} /\ capEv \in Events \cup {NoEvent}
      /\ phase \in {"capture", "select"} => cur = NoEvent
      /\ phase \in Processing => cur \in Events
      /\ phase = "acking" => Settled(cur)
  <2>1. SourceTypes /\ EngineTypeOK /\ InHand /\ StreamOnly /\ StreamInv
        /\ top \in 0..produced
    BY Zenon DEF TypeInv, TypeOK, SourceTypes
  <2>2. PipelineOK
    BY <2>1, PipelineHolds
  <2>3. QED
    BY <2>1, <2>2, OplogAssumption, EngineAssumption DEF PipelineOK, SourceTypes,
       OplogAssumption, EngineAssumption, EngineTypeOK, InHand, StreamOnly
<1>1. CASE Alone /\ Tracked
  BY <1>1, AloneRefines
<1>2. ASSUME Tracked, UNCHANGED <<delivered, dropped, token>>,
             Left' = Left, Entered' = Entered
      PROVE  [P!Next]_(P!vars)
  BY <1>0, <1>2, Stutters
<1>3. ASSUME Tracked, UNCHANGED <<delivered, dropped, token>>, ~Live'
      PROVE  [P!Next]_(P!vars)
  BY <1>3, Restarts
<1>4. CASE CaptureResumes /\ Tracked
  <2>1. /\ UNCHANGED <<delivered, dropped, token>> /\ ~Live /\ Live'
        /\ cur' = NoEvent /\ capEv' = NoEvent /\ seen' = token
    BY <1>0, <1>4 DEF CaptureResumes, CaptureStarted, Watch, Live
  <2>2. Left' = Left /\ Entered' = Entered
    BY <2>1 DEF Left, Entered
  <2>3. QED
    BY <1>2, <1>4, <2>1, <2>2
<1>5. CASE CaptureFromNow /\ Tracked
  <2>1. /\ UNCHANGED <<delivered, dropped, token>> /\ Live'
        /\ cur' = NoEvent /\ capEv' = NoEvent /\ seen' = produced
    BY <1>0, <1>5 DEF CaptureFromNow, Watch, Live
  <2>2. Left' = produced /\ Entered' = produced
    BY <2>1 DEF Left, Entered
  <2>3. P!Restart
    BY <1>0, <1>5, <2>1, <2>2 DEF P!Restart, P!Starts, Tracked
  <2>4. QED
    BY <2>3 DEF P!Next
<1>6. CASE (CaptureRefused \/ StreamClosed) /\ Tracked
  <2>1. UNCHANGED <<delivered, dropped, token>> /\ ~Live'
    BY <1>0, <1>6 DEF CaptureRefused, CaptureFailed, RunFails, StreamClosed,
       ChannelClosed, mongoVars, Live
  <2>2. QED
    BY <1>3, <1>6, <2>1
<1>7. CASE NextChange /\ Tracked
  <2>1. /\ UNCHANGED <<delivered, dropped, token, cur>> /\ Live' = Live
        /\ capEv = NoEvent /\ seen < produced /\ seen' = seen + 1
        /\ (capEv' = NoEvent /\ seen' \in Undecodable) \/ capEv' = seen'
    BY <1>7, Zenon DEF NextChange, engineVars, StreamInv, CaptureInv, Live
  <2>2. CASE ~Live
    <3>1. Left' = Left /\ Entered' = Entered
      BY <2>1, <2>2 DEF Left, Entered
    <3>2. QED
      BY <1>2, <1>7, <2>1, <3>1
  <2>3. CASE Live
    <3>1. Entered = seen /\ Entered' = seen + 1 /\ seen < Left + Width
      BY <1>0, <2>1, <2>3 DEF Entered, PipelineOK
    <3>2. Left' = Left \/ (Left = seen /\ Left' = seen + 1 /\ seen + 1 \in Undecodable)
      BY <1>0, <2>1, <2>3 DEF Left
    <3>3. top' = IF Left' > top THEN Left' ELSE top
      BY <1>7 DEF Tracked
    <3>4. Left' = Left => top' = top
      BY <1>0, <3>3 DEF TopInv
    <3>5. Width \in Nat /\ Entered < MaxEvents /\ Entered - Left < Width
      BY <1>0, <2>1, <3>1, WidthNat
    <3>6. P!Read
      BY <1>0, <2>1, <3>1, <3>2, <3>3, <3>4, <3>5 DEF P!Read, P!DoneMovesTo, Width
    <3>7. QED
      BY <3>6 DEF P!Next
  <2>4. QED
    BY <2>2, <2>3
<1>8. CASE (StreamEnds \/ HandOver \/ Produce) /\ Tracked
  <2>1. UNCHANGED <<delivered, dropped, token>>
    BY <1>8 DEF StreamEnds, HandOver, Receive, Produce, calmVars, engineVars
  <2>2. Left' = Left /\ Entered' = Entered
    <3>1. CASE HandOver
      <4>1. Live /\ Live' /\ cur = NoEvent /\ cur' = capEv /\ capEv \in Events
            /\ seen' = seen
        BY <1>0, <3>1 DEF HandOver, Receive, Live, StreamInv, CaptureInv
      <4>2. QED
        BY <1>0, <4>1 DEF Left, Entered
    <3>2. CASE StreamEnds \/ Produce
      BY <3>2 DEF StreamEnds, Produce, calmVars, engineVars, Left, Entered, Live
    <3>3. QED
      BY <1>8, <3>1, <3>2
  <2>3. QED
    BY <1>2, <1>8, <2>1, <2>2
<1>9. CASE AckDone /\ Tracked
  <2>1. /\ UNCHANGED <<seen, capEv, delivered, dropped>>
        /\ cur \in Events /\ cur' = NoEvent
        /\ Live /\ Live' /\ Settled(cur)
    BY <1>0, <1>9 DEF AckDone, Acked, Live, Processing
  <2>2. /\ Left = cur - 1 /\ Entered = seen /\ Entered' = seen
        /\ Left' = IF capEv # NoEvent THEN capEv - 1 ELSE seen
    BY <1>0, <2>1 DEF Left, Entered
  <2>3. /\ cur <= seen
        /\ capEv # NoEvent => capEv = seen /\ cur < seen
        /\ \A e \in (cur + 1)..seen : e \in Undecodable \/ e = capEv
    BY <1>0, <2>1 DEF StreamInv, OrderInv, CaptureInv
  <2>4. PICK d : d = IF capEv # NoEvent THEN capEv - 1 ELSE seen
    OBVIOUS
  <2>5. d \in Left..Entered /\ \A e \in (Left + 1)..d : P!Settled(e)
    <3>1. d \in Left..Entered
      BY <1>0, <2>1, <2>2, <2>3, <2>4
    <3>2. ASSUME NEW e \in (Left + 1)..d
          PROVE  e = cur \/ e \in Undecodable
      <4>1. e \in Events /\ (e = cur \/ e \in (cur + 1)..seen)
        BY <1>0, <2>1, <2>2, <2>4, <3>1, <3>2
      <4>2. e # capEv
        BY <1>0, <2>3, <2>4, <3>2, <4>1
      <4>3. QED
        BY <2>3, <4>1, <4>2
    <3>3. QED
      BY <2>1, <3>1, <3>2 DEF P!Settled, Settled
  <2>6. Left' = d /\ top' = IF d > top THEN d ELSE top
    BY <1>9, <2>2, <2>4, Zenon DEF Tracked
  <2>7. P!Advance
    BY <2>1, <2>2, <2>5, <2>6, SavedNear DEF P!Advance, P!DoneMovesTo
  <2>8. QED
    BY <2>7 DEF P!Next
<1>10. CASE AckRefused /\ Tracked
  <2>1. /\ UNCHANGED <<seen, capEv, delivered, dropped, cur>>
        /\ cur \in Events /\ Live /\ Live'
    BY <1>0, <1>10 DEF AckRefused, AckFailed, RunFails, Live, Processing
  <2>2. Left' = Left /\ Entered' = Entered
    BY <2>1 DEF Left, Entered
  <2>3. top' = IF Left > top THEN Left ELSE top
    BY <1>10, <2>2, Zenon DEF Tracked
  <2>4. Left \in Left..Entered /\ (Left + 1)..Left = {}
    BY <1>0 DEF PipelineOK
  <2>5. P!Advance
    BY <2>1, <2>2, <2>3, <2>4, SavedNear DEF P!Advance, P!DoneMovesTo
  <2>6. QED
    BY <2>5 DEF P!Next
<1>11. CASE ProcessDies /\ Tracked
  <2>1. UNCHANGED <<delivered, dropped, token>> /\ ~Live'
    BY <1>11 DEF ProcessDies, Crash, MemoryLost, Live
  <2>2. QED
    BY <1>3, <1>11, <2>1
<1>12. CASE UNCHANGED vars
  BY <1>12 DEF vars, engineVars, mongoVars, P!vars, Left, Entered, Live
<1> QED
  BY <1>1, <1>4, <1>5, <1>6, <1>7, <1>8, <1>9, <1>10, <1>11, <1>12, StepCases,
     Zenon

(* Refinement: with its goroutines, undecodable changes, refused saves and *)
(* streams opened from now, the change stream is the bounded pipeline of   *)
(* Pipeline: changes leave in order, and what is saved is never further    *)
(* ahead than the pipeline is wide.                                        *)
THEOREM StreamImplementsPipeline == Spec => ImplementsPipeline
<1>1. Init => P!Init
  BY DEF Init, EngineInit, P!Init, Left, Entered, Live
<1> QED
  BY <1>1, RefinementStep, TypeInvariant, PTL
     DEF Spec, ImplementsPipeline, P!Spec
=============================================================================
