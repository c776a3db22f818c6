---------------------------- MODULE ContractRelay ----------------------------
(***************************************************************************)
(* The engine over a source that keeps the contract of the EngineSource    *)
(* interface to the letter: CaptureEvents streams the events after the     *)
(* last acknowledged one, one at a time, and Ack acknowledges the event    *)
(* that was just processed.  It shows what engine.go guarantees by itself; *)
(* PgRelay puts the Postgres source in the contract's place.               *)
(***************************************************************************)
EXTENDS Engine

CONSTANT MaxEvents      \* bound on the length of the source's log

ASSUME LogAssumption == MaxEvents \in Nat /\ Events = 1..MaxEvents

ASSUME NoSnapshotAssumption == SnapshotBound = FALSE

VARIABLES
  produced,   \* length of the log: events 1..produced have happened
  confirmed,  \* durable bookmark: events 1..confirmed are acknowledged
  pos         \* the last event handed to the engine by this stream

sourceVars == <<produced, confirmed, pos>>

vars == <<engineVars, sourceVars>>

TypeOK ==
  /\ EngineTypeOK
  /\ produced \in 0..MaxEvents
  /\ confirmed \in 0..produced
  /\ pos \in 0..produced

Init == EngineInit /\ produced = 0 /\ confirmed = 0 /\ pos = 0

(* An application commits one more change.                                 *)
Produce ==
  /\ produced < MaxEvents
  /\ produced' = produced + 1
  /\ UNCHANGED <<engineVars, confirmed, pos>>

Connect == SourceConnected /\ UNCHANGED sourceVars

ConnectFailed == SourceConnectFailed /\ Fails /\ UNCHANGED sourceVars

(* Mutants: the new stream starts one event too far; the new stream goes   *)
(* on where the old one was, instead of where the bookmark is.             *)
CaptureAfterNext ==
  /\ CaptureStarted
  /\ pos' = confirmed + 1
  /\ UNCHANGED <<produced, confirmed>>

CaptureFromCursor == CaptureStarted /\ UNCHANGED sourceVars

(* CaptureEvents resumes after the last acknowledged event.                *)
Capture ==
  /\ CaptureStarted
  /\ pos' = confirmed
  /\ UNCHANGED <<produced, confirmed>>

CaptureRefused == CaptureFailed /\ Fails /\ UNCHANGED sourceVars

HandOver ==
  /\ pos < produced
  /\ Receive(pos + 1)
  /\ pos' = pos + 1
  /\ UNCHANGED <<produced, confirmed>>

StreamBroken == RunFails("select") /\ Fault /\ UNCHANGED sourceVars

AckDone ==
  /\ Acked
  /\ confirmed' = pos
  /\ UNCHANGED <<produced, pos>>

(* Ack returned an error; it may have taken effect.                        *)
AckRefused ==
  /\ AckFailed /\ Fails
  /\ confirmed' \in {confirmed, pos}
  /\ UNCHANGED <<produced, pos>>

DialReturns(p) == (DialOk(p) \/ DialFailed(p)) /\ UNCHANGED sourceVars

PublishReturns(p) == (PublishOk(p) \/ PublishFailed(p)) /\ UNCHANGED sourceVars

(* The steps of the goroutine that runs Start, without applyTransforms.    *)
Untransformed ==
  \/ Connect \/ ConnectFailed
  \/ (\E p \in Producers : CollectDial(p)) /\ UNCHANGED sourceVars
  \/ (DialCancelled \/ DialsCollected) /\ UNCHANGED sourceVars
  \/ Capture \/ CaptureRefused
  \/ HandOver
  \/ StreamCancelled /\ UNCHANGED sourceVars
  \/ PublishDone /\ UNCHANGED sourceVars
  \/ AckDone \/ AckRefused
  \/ (Unwind \/ SourceClosed \/ StartBackoff) /\ UNCHANGED sourceVars
  \/ (Retry \/ BackoffCancelled) /\ UNCHANGED sourceVars

Main ==
  \/ Untransformed
  \/ (TransformKeeps \/ TransformDrops \/ TransformFails) /\ UNCHANGED sourceVars

Terminated == phase = "stopped" /\ UNCHANGED vars

Next ==
  \/ Main
  \/ \E p \in Producers : DialReturns(p) \/ PublishReturns(p)
  \/ Produce \/ StreamBroken
  \/ (Cancel \/ Crash) /\ UNCHANGED sourceVars
  \/ Terminated

Spec == Init /\ [][Next]_vars

(* Every goroutine is scheduled and Publish returns.  Connect may hang, and*)
(* a quiet stream does not have to break.                                  *)
FairSpec ==
  /\ Spec
  /\ WF_vars(Main)
  /\ \A p \in Producers : WF_vars(PublishReturns(p))

(* Connect returns as well.                                                *)
DialsReturn == \A p \in Producers : WF_vars(DialReturns(p))

-----------------------------------------------------------------------------
(* At-least-once delivery as README.md states it: the source's bookmark    *)
(* never passes an event that some producer has not received and no        *)
(* transform has dropped, whatever fails and whenever the process dies.    *)
AtLeastOnce == \A e \in 1..confirmed : Settled(e)

(* connectProducers and the deferred closeProducers leave nothing behind:  *)
(* when Start is about to run again, no producer of the previous run is    *)
(* connected or connecting, so no connection is ever opened twice.         *)
RetryStartsClean ==
  phase \in {"backoff", "connect"} =>
    open = {} /\ \A p \in Producers : dial[p] = "idle"

(* The engine is a relay in the sense of Delivery: one event at a time, in *)
(* the order of the log, the bookmark last.                                *)
D == INSTANCE Delivery WITH
       Producers <- Producers, MaxEvents <- MaxEvents,
       delivered <- delivered, dropped <- dropped, confirmed <- confirmed

ImplementsDelivery == D!Spec

(* Retry with backoff loses nothing: once an event is in the log, it is    *)
(* settled and acknowledged, or the engine is shut down, provided that     *)
(* Connect returns.                                                        *)
EventuallyConfirmed ==
  DialsReturn =>
    \A e \in Events : (e <= produced) ~> (e <= confirmed \/ cancelled)

(* Start returns after its context is cancelled, even while a producer's   *)
(* Connect hangs (the reason engine.go gives for the select on ctx.Done()).*)
CancelStops == cancelled ~> (phase = "stopped" \/ ~cancelled)
=============================================================================
