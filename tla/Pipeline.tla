------------------------------ MODULE Pipeline ------------------------------
(***************************************************************************)
(* What the snapshot and the MongoDB change stream promise, which is less  *)
(* than Delivery does: a reader runs ahead of the engine by what the       *)
(* channels between them hold, and what is saved for a restart follows the *)
(* reader.  A restart then skips up to Depth events for good, but the      *)
(* events still leave in order, and nothing further ahead is ever saved.   *)
(***************************************************************************)
EXTENDS Naturals

CONSTANTS Producers,   \* the message brokers an event fans out to
          MaxEvents,   \* length of the log
          Void,        \* events that are read and go no further
          Depth,       \* events between the reader and the brokers
          Rewinds      \* a restart may begin before the saved position
                       \*   (TRUE); or it begins there, or with what is
                       \*   new (FALSE)

VARIABLES delivered,   \* delivered[p]: the events producer p has received
          dropped,     \* the events a transform has dropped
          read,        \* the last event that was read
          done,        \* the last event that left the pipeline
          mark,        \* the position saved for a restart
          top          \* the largest value of done so far

vars == <<delivered, dropped, read, done, mark, top>>

Settled(e) ==
  e \in Void \cup dropped \/ \A p \in Producers : e \in delivered[p]

(* Positions that are at most Depth events ahead of the engine's best.     *)
Near == {m \in 0..MaxEvents : m <= top + Depth}

Init == /\ delivered = [p \in Producers |-> {}]
        /\ dropped = {}
        /\ read = 0 /\ done = 0 /\ mark = 0 /\ top = 0

DoneMovesTo(d) == done' = d /\ top' = (IF d > top THEN d ELSE top)

(* A void event that finds the pipeline empty is read and gone.            *)
Read == /\ read < MaxEvents /\ read - done < Depth
        /\ read' = read + 1
        /\ \/ UNCHANGED <<done, top>>
           \/ read = done /\ read' \in Void /\ DoneMovesTo(read')
        /\ UNCHANGED <<delivered, dropped, mark>>

Publish(p) == /\ done < read
              /\ delivered' = [delivered EXCEPT ![p] = @ \cup {done + 1}]
              /\ UNCHANGED <<dropped, read, done, mark, top>>

Drop == /\ done < read
        /\ dropped' = dropped \cup {done + 1}
        /\ DoneMovesTo(done) \/ DoneMovesTo(done + 1)
        /\ UNCHANGED <<delivered, read, mark>>

(* Settled events leave, a position may be saved, or both.                 *)
Advance == /\ \E d \in done..read :
                /\ \A e \in (done + 1)..d : Settled(e)
                /\ DoneMovesTo(d)
           /\ mark' \in Near
           /\ UNCHANGED <<delivered, dropped, read>>

(* Where a restart may begin.                                              *)
Starts == IF Rewinds THEN 0..mark ELSE {mark} \cup top..MaxEvents

(* A restart that rewinds may do so for nobody: the engine has gone.       *)
Restart == /\ \E r \in Starts, d \in 0..MaxEvents :
                /\ d = r \/ (Rewinds /\ d = 0)
                /\ read' = d /\ done' = d
                /\ top' = (IF r > top THEN r ELSE top)
           /\ UNCHANGED <<delivered, dropped, mark>>

Next == Read \/ (\E p \in Producers : Publish(p)) \/ Drop \/ Advance \/ Restart

Spec == Init /\ [][Next]_vars
=============================================================================
