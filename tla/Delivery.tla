------------------------------ MODULE Delivery ------------------------------
(***************************************************************************)
(* What CDC-Axon promises, with nothing of how it does it: a log of change *)
(* events is relayed, one event after the other, to every producer, and    *)
(* the source's bookmark moves past an event only once the event is        *)
(* settled, that is published to all producers or dropped by a transform.  *)
(* An event may be published to a producer any number of times before.     *)
(***************************************************************************)
EXTENDS Naturals

CONSTANTS Producers,   \* the message brokers an event fans out to
          MaxEvents    \* length of the log

VARIABLES delivered,   \* delivered[p]: the events producer p has received
          dropped,     \* the events a transform has dropped
          confirmed    \* the bookmark: events 1..confirmed are acknowledged

vars == <<delivered, dropped, confirmed>>

Log == 1..MaxEvents

Settled(e) == e \in dropped \/ \A p \in Producers : e \in delivered[p]

Init == /\ delivered = [p \in Producers |-> {}]
        /\ dropped = {}
        /\ confirmed = 0

Publish(p) == /\ confirmed + 1 \in Log
              /\ delivered' = [delivered EXCEPT ![p] = @ \cup {confirmed + 1}]
              /\ UNCHANGED <<dropped, confirmed>>

Drop == /\ confirmed + 1 \in Log
        /\ dropped' = dropped \cup {confirmed + 1}
        /\ UNCHANGED <<delivered, confirmed>>

Confirm == /\ confirmed + 1 \in Log
           /\ Settled(confirmed + 1)
           /\ confirmed' = confirmed + 1
           /\ UNCHANGED <<delivered, dropped>>

Next == (\E p \in Producers : Publish(p)) \/ Drop \/ Confirm

Spec == Init /\ [][Next]_vars
=============================================================================
