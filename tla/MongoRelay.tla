----------------------------- MODULE MongoRelay -----------------------------
(***************************************************************************)
(* The engine over the MongoDB source: connection.go, the change stream of *)
(* stream.go, the capture goroutine and Ack of eventsManager.go, and the   *)
(* resume token in the persistence store.                                  *)
(*                                                                         *)
(* The oplog holds the inserts and updates 1..produced of the collection.  *)
(* A stream that is opened without a resume token begins behind the last   *)
(* of them.                                                                *)
(***************************************************************************)
EXTENDS Engine, FiniteSets

CONSTANTS MaxEvents,     \* bound on the length of the oplog
          Undecodable,   \* changes that do not decode as a ChangeEvent
          Stores         \* whether a persistence store is configured

ASSUME OplogAssumption ==
  /\ MaxEvents \in Nat /\ Events = 1..MaxEvents
  /\ Undecodable \subseteq Events
  /\ Stores \subseteq BOOLEAN
  /\ SnapshotBound = FALSE

VARIABLES
  store,      \* a persistence store is configured; never changes
  produced,   \* length of the oplog
  token,      \* the stored resume token: the change it stands for; 0: none
  cap, capEv, \* the capture goroutine: program counter, its event
  seen,       \* the change s.cs.ResumeToken() stands for
  began,      \* history: produced when the first stream was opened
  missed,     \* history: changes that a stream opened without token left out
  top         \* history: the largest value of Left so far

mongoVars == <<store, produced, token, cap, capEv, seen, began, missed>>
vars == <<engineVars, mongoVars, top>>

NeverBegan == MaxEvents + 1

TypeOK ==
  /\ EngineTypeOK
  /\ store \in Stores
  /\ produced \in 0..MaxEvents
  /\ token \in 0..produced /\ (token # 0 => store)
  /\ cap \in {"none", "next", "send", "closed"}
  /\ capEv \in Events \cup {NoEvent}
  /\ seen \in 0..produced
  /\ began \in 0..produced \cup {NeverBegan}
  /\ missed \subseteq 1..produced
  /\ top \in 0..produced

Init ==
  /\ EngineInit
  /\ store \in Stores
  /\ produced = 0 /\ token = 0
  /\ cap = "none" /\ capEv = NoEvent /\ seen = 0
  /\ began = NeverBegan /\ missed = {} /\ top = 0

-----------------------------------------------------------------------------
(* The changes that left the pipeline, and those that entered it, in the   *)
(* present stream; between streams, the saved token stands for both.       *)
Live ==
  \/ phase \in {"select", "transform", "publishing", "acking"}
  \/ phase = "unwind" /\ cur # NoEvent

Entered == IF Live THEN seen ELSE token

Left ==
  IF ~Live THEN token
  ELSE IF cur # NoEvent THEN cur - 1
  ELSE IF capEv # NoEvent THEN capEv - 1
  ELSE seen

Tracked == top' = IF Left' > top THEN Left' ELSE top

-----------------------------------------------------------------------------
(* An application inserts or updates a document.                           *)
Produce ==
  /\ produced < MaxEvents
  /\ produced' = produced + 1
  /\ UNCHANGED <<engineVars, store, token, cap, capEv, seen, began, missed>>

(* stream.Open returned a stream that begins behind `start'.               *)
Watch(start) ==
  /\ seen' = start /\ cap' = "next" /\ capEv' = NoEvent
  /\ began' = IF began = NeverBegan THEN produced ELSE began
  /\ UNCHANGED <<store, produced, token>>

(* Changes in the oplog that were streamed, or should have been.           *)
Unsettled == {e \in (began + 1)..produced : ~Settled(e)}

(* Mutant: the stream resumes one change too far.                          *)
CaptureResumesLate ==
  /\ CaptureStarted
  /\ token # 0 /\ Watch(token + 1)
  /\ UNCHANGED missed

(* CaptureEvents: the stream resumes behind the stored token.              *)
CaptureResumes ==
  /\ CaptureStarted
  /\ token # 0 /\ Watch(token)
  /\ UNCHANGED missed

(* No token, no store, or an error of Load: the stream begins now.         *)
CaptureFromNow ==
  /\ phase = "capture" /\ phase' = "select"
  /\ IF token = 0 THEN UNCHANGED faults ELSE Fails
  /\ UNCHANGED <<cancelled, runErr, dial, dialErr, open, pub, cur, acking,
                 delivered, dropped>>
  /\ Watch(produced)
  /\ missed' = missed \cup Unsettled

CaptureRefused == CaptureFailed /\ Fails /\ UNCHANGED mongoVars

(* Mutant: a send that does not wait, and skips a change for which the     *)
(* engine is not ready.                                                    *)
NextChangeSkips ==
  /\ cap = "next" /\ seen < produced
  /\ seen' = seen + 1
  /\ IF seen' \in Undecodable \/ phase # "select"
       THEN UNCHANGED <<cap, capEv>>
       ELSE cap' = "send" /\ capEv' = seen'
  /\ UNCHANGED <<engineVars, store, produced, token, began, missed>>

(* cs.Next and cs.Decode: what does not decode is skipped.                 *)
NextChange ==
  /\ cap = "next" /\ seen < produced
  /\ seen' = seen + 1
  /\ IF seen' \in Undecodable
       THEN UNCHANGED <<cap, capEv>>
       ELSE cap' = "send" /\ capEv' = seen'
  /\ UNCHANGED <<engineVars, store, produced, token, began, missed>>

(* cs.Next returns false: the context is done or the stream is broken, and *)
(* the goroutine closes its channel.                                       *)
StreamEnds ==
  /\ cap = "next" /\ Fails
  /\ cap' = "closed"
  /\ UNCHANGED <<calmVars, store, produced, token, capEv, seen, began, missed>>

(* ch <- event.Event{...} meets the receive of streamEvents.               *)
HandOver ==
  /\ cap = "send"
  /\ Receive(capEv)
  /\ cap' = "next" /\ capEv' = NoEvent
  /\ UNCHANGED <<store, produced, token, seen, began, missed>>

StreamClosed == ChannelClosed /\ cap = "closed" /\ UNCHANGED mongoVars

(* Mutant: the token of the batch the server sent, not of the change that  *)
(* was taken from it last.                                                 *)
SavedBatchToken == IF store THEN produced ELSE token

(* What Ack saves: s.cs.ResumeToken(), the position of the stream.         *)
SavedToken == IF store THEN seen ELSE token

AckDone ==
  /\ Acked
  /\ token' = SavedToken
  /\ UNCHANGED <<store, produced, cap, capEv, seen, began, missed>>

(* Save returned an error; it may have taken effect.                       *)
AckRefused ==
  /\ AckFailed /\ store /\ Fails
  /\ token' \in {token, SavedToken}
  /\ UNCHANGED <<store, produced, cap, capEv, seen, began, missed>>

(* A new process; the store and the oplog remain.                          *)
ProcessDies ==
  /\ Crash
  /\ cap' = "none" /\ capEv' = NoEvent /\ seen' = 0
  /\ UNCHANGED <<store, produced, token, began, missed>>

-----------------------------------------------------------------------------
(* The steps of the goroutine that runs Start.  A capture goroutine of an  *)
(* earlier run stays in its send or has ended, and saves nothing.          *)
Main ==
  /\ \/ SourceConnected /\ UNCHANGED mongoVars
     \/ SourceConnectFailed /\ Fails /\ UNCHANGED mongoVars
     \/ (\E p \in Producers : CollectDial(p)) /\ UNCHANGED mongoVars
     \/ (DialCancelled \/ DialsCollected) /\ UNCHANGED mongoVars
     \/ CaptureResumes \/ CaptureFromNow \/ CaptureRefused
     \/ HandOver \/ StreamClosed
     \/ StreamCancelled /\ UNCHANGED mongoVars
     \/ (TransformKeeps \/ TransformDrops \/ TransformFails) /\ UNCHANGED mongoVars
     \/ PublishDone /\ UNCHANGED mongoVars
     \/ AckDone \/ AckRefused
     \/ (Unwind \/ SourceClosed \/ StartBackoff) /\ UNCHANGED mongoVars
     \/ (Retry \/ BackoffCancelled) /\ UNCHANGED mongoVars
  /\ Tracked

Capture == (NextChange \/ StreamEnds) /\ Tracked

DialReturns(p) == (DialOk(p) \/ DialFailed(p)) /\ UNCHANGED mongoVars /\ Tracked

PublishReturns(p) ==
  (PublishOk(p) \/ PublishFailed(p)) /\ UNCHANGED mongoVars /\ Tracked

Terminated == phase = "stopped" /\ UNCHANGED vars

Next ==
  \/ Main
  \/ Capture
  \/ \E p \in Producers : DialReturns(p) \/ PublishReturns(p)
  \/ Produce /\ Tracked
  \/ Cancel /\ UNCHANGED mongoVars /\ Tracked
  \/ ProcessDies /\ Tracked
  \/ Terminated

Spec == Init /\ [][Next]_vars

(* What ends the wait of cs.Next: a change, or a context that is done.  A  *)
(* quiet stream may wait for ever, and no stream has to break.             *)
CaptureProceeds == (NextChange \/ (cancelled /\ StreamEnds)) /\ Tracked

(* Every goroutine is scheduled, and the other calls return.               *)
FairSpec ==
  /\ Spec
  /\ WF_vars(Main)
  /\ WF_vars(CaptureProceeds)
  /\ \A p \in Producers : WF_vars(DialReturns(p)) /\ WF_vars(PublishReturns(p))

-----------------------------------------------------------------------------
(* Changes the relay has to deliver.                                       *)
Owed == {e \in (began + 1)..produced : e \notin Undecodable}

Lacking == {e \in Owed : ~Settled(e)}

(* README.md:28, "LSN/resume token only advances after successful          *)
(* publish".  The token is that of the stream, which may be one change     *)
(* ahead of the engine: each failure loses one at most, besides those that *)
(* a stream opened from now leaves out.                                    *)
LossBounded ==
  Cardinality({e \in Lacking \ missed : e <= token}) <= faults + 1

(* Failures and restarts keep the order of the oplog: when a change first  *)
(* reaches a producer, the earlier ones have been settled or left out, but *)
(* for one lost per failure.                                               *)
InOplogOrder ==
  [][\A p \in Producers : \A e \in delivered'[p] \ delivered[p] :
       Cardinality({d \in Lacking \ missed : d < e}) <= faults]_vars

(* Without a failure nothing is left out and every change is delivered; no *)
(* failure makes the relay wedge: a change is delivered, or a token or a   *)
(* stream opened from now has passed it.                                   *)
EventuallyDealtWith ==
  \A e \in Events \ Undecodable :
    (e \in Owed) ~>
      (Settled(e) \/ cancelled \/ (faults > 0 /\ (e \in missed \/ e <= token)))

(* The change stream is a pipeline of two stages, in the sense of          *)
(* Pipeline, in which undecodable changes vanish.                          *)
P == INSTANCE Pipeline WITH
       Producers <- Producers, MaxEvents <- MaxEvents, Void <- Undecodable,
       Depth <- 2 + Cardinality(Undecodable), Rewinds <- FALSE,
       delivered <- delivered, dropped <- dropped,
       read <- Entered, done <- Left, mark <- token, top <- top

ImplementsPipeline == P!Spec
=============================================================================
