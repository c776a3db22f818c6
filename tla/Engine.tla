------------------------------- MODULE Engine -------------------------------
(***************************************************************************)
(* The orchestrator of engine/core/engine.go: the retry loop of Start, the *)
(* life cycle of run, the goroutines of connectProducers and publishAll,   *)
(* and the pipeline of processEvent.                                       *)
(*                                                                         *)
(* The module has no specification of its own.  What an EngineSource does  *)
(* behind DBConnect, CaptureEvents, Ack and Close is left open: a relay    *)
(* module (ContractRelay, PgRelay) conjoins each action that calls the     *)
(* source with the source's own step.                                      *)
(***************************************************************************)
EXTENDS Naturals

CONSTANTS Producers,      \* what source.GetProducers returns
          Events,         \* the events of the stream
          NoEvent,        \* "no event in hand"
          Droppable,      \* events the transform chain may drop
          SnapshotBound,  \* BindSnapshotEngine was called
          MaxFaults       \* bound on the failures of the environment

ASSUME EngineAssumption ==
  /\ Producers # {}
  /\ NoEvent \notin Events
  /\ Droppable \subseteq Events
  /\ SnapshotBound \in BOOLEAN
  /\ MaxFaults \in Nat

VARIABLES
  phase,      \* program counter of the goroutine that runs Start
  cancelled,  \* ctx.Done() is closed
  runErr,     \* whether the run being unwound returns an error
  dial,       \* dial[p]: the goroutine and the errCh slot of p's Connect
  dialErr,    \* firstErr # nil in connectProducers
  open,       \* producers that hold a broker connection
  pub,        \* pub[p]: the goroutine of p's Publish
  cur,        \* the event in processEvent
  acking,     \* processEvent's ack parameter
  delivered,  \* delivered[p]: what broker p has received
  dropped,    \* events a transform has dropped
  faults      \* failures of the environment so far

engineVars == <<phase, cancelled, runErr, dial, dialErr, open, pub, cur,
                acking, delivered, dropped, faults>>

Phases == {"connect", "dialing", "snapshot", "capture", "select",
           "transform", "publishing", "acking", "unwind", "closing",
           "failed", "backoff", "stopped", "panicked"}

(* Everything but the count of failures.                                   *)
calmVars == <<phase, cancelled, runErr, dial, dialErr, open, pub, cur,
              acking, delivered, dropped>>

FlagsOK ==
  /\ cancelled \in BOOLEAN /\ runErr \in BOOLEAN
  /\ dialErr \in BOOLEAN /\ acking \in BOOLEAN

EngineTypeOK ==
  /\ phase \in Phases
  /\ FlagsOK
  /\ dial \in [Producers -> {"idle", "dialing", "ok", "failed"}]
  /\ open \in SUBSET Producers
  /\ pub \in [Producers -> {"idle", "running", "ok", "failed"}]
  /\ cur \in Events \cup {NoEvent}
  /\ delivered \in [Producers -> SUBSET Events]
  /\ dropped \in SUBSET Events
  /\ faults \in 0..MaxFaults

EngineInit ==
  /\ phase = "connect" /\ cancelled = FALSE /\ runErr = FALSE
  /\ dial = [p \in Producers |-> "idle"] /\ dialErr = FALSE
  /\ open = {}
  /\ pub = [p \in Producers |-> "idle"]
  /\ cur = NoEvent /\ acking = FALSE
  /\ delivered = [p \in Producers |-> {}]
  /\ dropped = {} /\ faults = 0

Settled(e) == e \in dropped \/ \A p \in Producers : e \in delivered[p]

(* One more failure of the environment, if the bound allows it.            *)
Fault == faults < MaxFaults /\ faults' = faults + 1

(* Why a call that takes ctx returns an error: the context is done, or the *)
(* environment fails.                                                      *)
Fails == (cancelled /\ UNCHANGED faults) \/ Fault

-----------------------------------------------------------------------------
(* Start and run                                                           *)

Cancel ==
  /\ ~cancelled /\ phase # "stopped"
  /\ cancelled' = TRUE
  /\ UNCHANGED <<phase, runErr, dial, dialErr, open, pub, cur, acking,
                 delivered, dropped, faults>>

(* DBConnect returned nil: GetProducers, one Connect goroutine each.       *)
(* GetProducers of both sources refuses an empty list only, so it does not *)
(* here.                                                                   *)
SourceConnected ==
  /\ phase = "connect"
  /\ phase' = "dialing"
  /\ dial' = [p \in Producers |-> "dialing"]
  /\ dialErr' = FALSE
  /\ UNCHANGED <<cancelled, runErr, open, pub, cur, acking, delivered,
                 dropped, faults>>

(* DBConnect returned an error: no defer is registered yet.                *)
SourceConnectFailed ==
  /\ phase = "connect"
  /\ phase' = "failed"
  /\ UNCHANGED <<cancelled, runErr, dial, dialErr, open, pub, cur, acking,
                 delivered, dropped>>

(* The deferred closeProducers of run.                                     *)
Unwind ==
  /\ phase = "unwind"
  /\ phase' = "closing"
  /\ open' = {}
  /\ cur' = NoEvent
  /\ UNCHANGED <<cancelled, runErr, dial, dialErr, pub, acking, delivered,
                 dropped, faults>>

(* The deferred source.Close of run, and the return to Start.              *)
SourceClosed ==
  /\ phase = "closing"
  /\ phase' = IF runErr THEN "failed" ELSE "stopped"
  /\ UNCHANGED <<cancelled, runErr, dial, dialErr, open, pub, cur, acking,
                 delivered, dropped, faults>>

(* Start after a failed run: shut down if ctx is done, else back off.      *)
StartBackoff ==
  /\ phase = "failed"
  /\ phase' = IF cancelled THEN "stopped" ELSE "backoff"
  /\ UNCHANGED <<cancelled, runErr, dial, dialErr, open, pub, cur, acking,
                 delivered, dropped, faults>>

(* backoff.Wait: the delay elapsed.                                        *)
Retry ==
  /\ phase = "backoff"
  /\ phase' = "connect"
  /\ UNCHANGED <<cancelled, runErr, dial, dialErr, open, pub, cur, acking,
                 delivered, dropped, faults>>

(* backoff.Wait: ctx was done first.                                       *)
BackoffCancelled ==
  /\ phase = "backoff" /\ cancelled
  /\ phase' = "stopped"
  /\ UNCHANGED <<cancelled, runErr, dial, dialErr, open, pub, cur, acking,
                 delivered, dropped, faults>>

(* What a process has in memory is gone; what the brokers received stays.  *)
MemoryLost ==
  /\ cancelled' = FALSE /\ runErr' = FALSE
  /\ dial' = [p \in Producers |-> "idle"] /\ dialErr' = FALSE
  /\ open' = {}
  /\ pub' = [p \in Producers |-> "idle"]
  /\ cur' = NoEvent /\ acking' = FALSE
  /\ UNCHANGED <<delivered, dropped>>

(* The process dies, or has stopped, and is started again.                 *)
Crash == Fault /\ phase' = "connect" /\ MemoryLost

(* A goroutine panics, and the process with it.                            *)
Panic == phase' = "panicked" /\ MemoryLost /\ UNCHANGED faults

(* Mutant: the error is lost on the way to Start.                          *)
RunEnds(from) ==
  /\ phase = from
  /\ phase' = "unwind"
  /\ runErr' = FALSE
  /\ UNCHANGED <<cancelled, dial, dialErr, open, pub, cur, acking, delivered,
                 dropped>>

(* The run returns an error from the phase the Start goroutine is in.      *)
RunFails(from) ==
  /\ phase = from
  /\ phase' = "unwind"
  /\ runErr' = TRUE
  /\ UNCHANGED <<cancelled, dial, dialErr, open, pub, cur, acking, delivered,
                 dropped>>

-----------------------------------------------------------------------------
(* connectProducers                                                        *)

DialOk(p) ==
  /\ dial[p] = "dialing"
  /\ dial' = [dial EXCEPT ![p] = "ok"]
  /\ open' = open \cup {p}
  /\ UNCHANGED <<phase, cancelled, runErr, dialErr, pub, cur, acking,
                 delivered, dropped, faults>>

DialFailed(p) ==
  /\ dial[p] = "dialing"
  /\ Fails
  /\ dial' = [dial EXCEPT ![p] = "failed"]
  /\ UNCHANGED <<phase, cancelled, runErr, dialErr, open, pub, cur, acking,
                 delivered, dropped>>

(* case err := <-errCh                                                     *)
CollectDial(p) ==
  /\ phase = "dialing" /\ dial[p] \in {"ok", "failed"}
  /\ dialErr' = (dialErr \/ dial[p] = "failed")
  /\ dial' = [dial EXCEPT ![p] = "idle"]
  /\ UNCHANGED <<phase, cancelled, runErr, open, pub, cur, acking,
                 delivered, dropped, faults>>

(* Mutant: waits for every Connect before it looks at ctx.                 *)
DialCancelledWhenCollected ==
  /\ phase = "dialing" /\ cancelled
  /\ \A p \in Producers : dial[p] # "dialing"
  /\ phase' = "closing"
  /\ runErr' = TRUE
  /\ open' = {}
  /\ UNCHANGED <<cancelled, dial, dialErr, pub, cur, acking, delivered,
                 dropped, faults>>

(* case <-ctx.Done(): close what is open now, and leave.                   *)
DialCancelled ==
  /\ phase = "dialing" /\ cancelled
  /\ \E p \in Producers : dial[p] # "idle"
  /\ phase' = "closing"
  /\ runErr' = TRUE
  /\ open' = {}
  /\ UNCHANGED <<cancelled, dial, dialErr, pub, cur, acking, delivered,
                 dropped, faults>>

(* Mutant: gives up at the first error, with other goroutines in flight.   *)
DialsCollectedEarly ==
  /\ phase = "dialing"
  /\ \/ /\ dialErr
        /\ phase' = "closing" /\ runErr' = TRUE /\ open' = {}
     \/ /\ ~dialErr
        /\ \A p \in Producers : dial[p] = "idle"
        /\ phase' = IF SnapshotBound THEN "snapshot" ELSE "capture"
        /\ UNCHANGED <<runErr, open>>
  /\ UNCHANGED <<cancelled, dial, dialErr, pub, cur, acking, delivered,
                 dropped, faults>>

(* All results read: give up if one failed, else go on with run.           *)
DialsCollected ==
  /\ phase = "dialing"
  /\ \A p \in Producers : dial[p] = "idle"
  /\ \/ /\ dialErr
        /\ phase' = "closing" /\ runErr' = TRUE /\ open' = {}
     \/ /\ ~dialErr
        /\ phase' = IF SnapshotBound THEN "snapshot" ELSE "capture"
        /\ UNCHANGED <<runErr, open>>
  /\ UNCHANGED <<cancelled, dial, dialErr, pub, cur, acking, delivered,
                 dropped, faults>>

-----------------------------------------------------------------------------
(* runSnapshot                                                             *)

(* case ev := <-snapshotCh: processEvent(ev, false) begins.                *)
SnapshotReceive(e) ==
  /\ phase = "snapshot"
  /\ phase' = "transform"
  /\ cur' = e
  /\ acking' = FALSE
  /\ UNCHANGED <<cancelled, runErr, dial, dialErr, open, pub, delivered,
                 dropped, faults>>

(* runSnapshot returns nil: run goes on to streamEvents.                   *)
SnapshotReturns ==
  /\ phase = "snapshot"
  /\ phase' = "capture"
  /\ UNCHANGED <<cancelled, runErr, dial, dialErr, open, pub, cur, acking,
                 delivered, dropped, faults>>

(* case <-ctx.Done()                                                       *)
SnapshotCancelled == cancelled /\ SnapshotReturns

(* The channel is closed, and SyncSnapshot has returned an error.          *)
SnapshotFailed == RunFails("snapshot") /\ UNCHANGED faults

-----------------------------------------------------------------------------
(* streamEvents                                                            *)

CaptureStarted ==
  /\ phase = "capture"
  /\ phase' = "select"
  /\ UNCHANGED <<cancelled, runErr, dial, dialErr, open, pub, cur, acking,
                 delivered, dropped, faults>>

CaptureFailed == RunFails("capture")

(* case ev, ok := <-events with ok = false: "event channel closed"         *)
ChannelClosed == RunFails("select") /\ UNCHANGED faults

(* case <-ctx.Done(): run returns nil.                                     *)
StreamCancelled ==
  /\ phase = "select" /\ cancelled
  /\ phase' = "unwind"
  /\ runErr' = FALSE
  /\ UNCHANGED <<cancelled, dial, dialErr, open, pub, cur, acking, delivered,
                 dropped, faults>>

(* case ev := <-events: processEvent(ev, true) begins.                     *)
Receive(e) ==
  /\ phase = "select"
  /\ phase' = "transform"
  /\ cur' = e
  /\ acking' = TRUE
  /\ UNCHANGED <<cancelled, runErr, dial, dialErr, open, pub, delivered,
                 dropped, faults>>

-----------------------------------------------------------------------------
(* processEvent                                                            *)

(* The receive loop that called processEvent.                              *)
CallerPhase == IF acking THEN "select" ELSE "snapshot"

(* Where processEvent goes once the event is settled.                      *)
SettledPhase == IF acking THEN "acking" ELSE CallerPhase

TransformKeeps ==
  /\ phase = "transform"
  /\ phase' = "publishing"
  /\ pub' = [p \in Producers |-> "running"]
  /\ UNCHANGED <<cancelled, runErr, dial, dialErr, open, cur, acking,
                 delivered, dropped, faults>>

TransformDrops ==
  /\ phase = "transform" /\ cur \in Droppable
  /\ phase' = SettledPhase
  /\ dropped' = dropped \cup {cur}
  /\ UNCHANGED <<cancelled, runErr, dial, dialErr, open, pub, cur, acking,
                 delivered, faults>>

TransformFails == RunFails("transform") /\ Fails

PublishOk(p) ==
  /\ pub[p] = "running"
  /\ pub' = [pub EXCEPT ![p] = "ok"]
  /\ delivered' = [delivered EXCEPT ![p] = @ \cup {cur}]
  /\ UNCHANGED <<phase, cancelled, runErr, dial, dialErr, open, cur, acking,
                 dropped, faults>>

(* Publish returned an error; the broker may have the event all the same.  *)
PublishFailed(p) ==
  /\ pub[p] = "running"
  /\ Fails
  /\ pub' = [pub EXCEPT ![p] = "failed"]
  /\ \/ UNCHANGED delivered
     \/ delivered' = [delivered EXCEPT ![p] = @ \cup {cur}]
  /\ UNCHANGED <<phase, cancelled, runErr, dial, dialErr, open, cur, acking,
                 dropped>>

(* Mutant: one producer's success is enough.                               *)
PublishDoneAtOne ==
  /\ phase = "publishing"
  /\ \A p \in Producers : pub[p] # "running"
  /\ pub' = [p \in Producers |-> "idle"]
  /\ \/ /\ \A p \in Producers : pub[p] = "failed"
        /\ phase' = "unwind" /\ runErr' = TRUE
     \/ /\ \E p \in Producers : pub[p] = "ok"
        /\ phase' = SettledPhase
        /\ UNCHANGED runErr
  /\ UNCHANGED <<cancelled, dial, dialErr, open, cur, acking, delivered,
                 dropped, faults>>

(* wg.Wait returned: an error of any producer fails the run before Ack.    *)
PublishDone ==
  /\ phase = "publishing"
  /\ \A p \in Producers : pub[p] # "running"
  /\ pub' = [p \in Producers |-> "idle"]
  /\ \/ /\ \E p \in Producers : pub[p] = "failed"
        /\ phase' = "unwind" /\ runErr' = TRUE
     \/ /\ \A p \in Producers : pub[p] = "ok"
        /\ phase' = SettledPhase
        /\ UNCHANGED runErr
  /\ UNCHANGED <<cancelled, dial, dialErr, open, cur, acking, delivered,
                 dropped, faults>>

(* source.Ack returned nil.                                                *)
Acked ==
  /\ phase = "acking"
  /\ phase' = "select"
  /\ cur' = NoEvent
  /\ UNCHANGED <<cancelled, runErr, dial, dialErr, open, pub, acking,
                 delivered, dropped, faults>>

AckFailed == RunFails("acking")
=============================================================================
