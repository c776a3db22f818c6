----------------------------- MODULE FilterRelay -----------------------------
(***************************************************************************)
(* ContractRelay with the two transforms that remember earlier events in   *)
(* the place of its arbitrary ones: the chain is Deduplicate followed by   *)
(* SampleRate(SampleEvery).  An event that a failed run has to process     *)
(* again goes through the chain again.  AtLeastOnce and                    *)
(* EventuallyConfirmed are as in ContractRelay.                            *)
(***************************************************************************)
EXTENDS ContractRelay, FiniteSets

CONSTANTS IdOf,         \* IdOf[e]: the ID of event e
          Dedup,        \* Deduplicate is in the chain
          SampleEvery   \* SampleRate's n; 1 keeps everything

Ids == {IdOf[e] : e \in Events}

ASSUME ChainAssumption ==
  /\ IdOf \in [Events -> Ids]
  /\ Dedup \in BOOLEAN
  /\ SampleEvery \in Nat \ {0}
  /\ Droppable = Events

VARIABLES keys,       \* IDs whose "dedup:" key is in the DeduplicationStore
          counter,    \* SampleRate's counter, modulo n
          sampledOut  \* history: the events that SampleRate dropped

chainVars == <<keys, counter, sampledOut>>
filterVars == <<vars, chainVars>>

FilterTypeOK ==
  /\ TypeOK
  /\ keys \in SUBSET Ids /\ counter \in 0..(SampleEvery - 1)
  /\ sampledOut \in SUBSET Events

FilterInit == Init /\ keys = {} /\ counter = 0 /\ sampledOut = {}

Duplicate == Dedup /\ IdOf[cur] \in keys

(* Mutant: the same key for every event.                                   *)
SaveOneKey == keys' = IF Dedup THEN Ids ELSE keys

(* store.SaveWithTTL(ctx, key, ...)                                        *)
SaveKey == keys' = IF Dedup THEN keys \cup {IdOf[cur]} ELSE keys

(* Mutant: an event too early.                                             *)
SampledFirst(c) == c % SampleEvery = 1

(* c%int64(n) == 0                                                         *)
Sampled(c) == c % SampleEvery = 0

Count == counter' = (counter + 1) % SampleEvery

(* The chain keeps the event.                                              *)
ChainKeeps ==
  /\ TransformKeeps
  /\ ~Duplicate /\ SaveKey
  /\ Count /\ Sampled(counter + 1)
  /\ UNCHANGED <<sampledOut, sourceVars>>

(* Deduplicate drops the event, and SampleRate does not see it; or         *)
(* SampleRate drops it.                                                    *)
ChainDrops ==
  /\ TransformDrops
  /\ \/ Duplicate /\ UNCHANGED chainVars
     \/ /\ ~Duplicate /\ SaveKey /\ Count /\ ~Sampled(counter + 1)
        /\ sampledOut' = sampledOut \cup {cur}
  /\ UNCHANGED sourceVars

(* Exists or SaveWithTTL returned an error; the key may be saved.          *)
ChainFails ==
  /\ Dedup /\ TransformFails
  /\ keys' = keys \/ SaveKey
  /\ UNCHANGED <<counter, sampledOut, sourceVars>>

(* The time to live of a key is over.                                      *)
Expire(id) ==
  /\ id \in keys
  /\ keys' = keys \ {id}
  /\ UNCHANGED <<vars, counter, sampledOut>>

FilterMain ==
  \/ Untransformed /\ UNCHANGED chainVars
  \/ ChainKeeps \/ ChainDrops \/ ChainFails

FilterNext ==
  \/ FilterMain
  \/ \E p \in Producers : (DialReturns(p) \/ PublishReturns(p)) /\ UNCHANGED chainVars
  \/ \E id \in Ids : Expire(id)
  \/ /\ Produce \/ StreamBroken \/ (Cancel /\ UNCHANGED sourceVars) \/ Terminated
     /\ UNCHANGED chainVars
  \/ Crash /\ UNCHANGED sourceVars /\ counter' = 0 /\ UNCHANGED <<keys, sampledOut>>

FilterSpec == FilterInit /\ [][FilterNext]_filterVars

FilterFairSpec ==
  /\ FilterSpec
  /\ WF_filterVars(FilterMain)
  /\ \A p \in Producers :
       /\ WF_filterVars(DialReturns(p) /\ UNCHANGED chainVars)
       /\ WF_filterVars(PublishReturns(p) /\ UNCHANGED chainVars)

-----------------------------------------------------------------------------
Published(e) == \A p \in Producers : e \in delivered[p]

(* Events that got through the chain, or were sampled out.                 *)
Seen == {e \in Events : Published(e)} \cup sampledOut

(* IDs of acknowledged events for which none has been published or sampled *)
(* out.                                                                    *)
LostIds == {IdOf[e] : e \in 1..confirmed} \ {IdOf[e] : e \in Seen}

(* engine.go:315-316, "at-least-once delivery".  Deduplicate saves the key *)
(* before the event is published, so a failure between the two makes the   *)
(* resent event look like a duplicate; each failure loses one ID at most.  *)
DedupLossBounded == Cardinality(LostIds) <= faults

(* SampleRate publishes one in n of what it sees, and each failure or      *)
(* restart, which advances or resets the counter, costs or adds one at     *)
(* most.                                                                   *)
SampleShare ==
  LET n == Cardinality({e \in 1..confirmed : Published(e)})
      share == Cardinality(Seen \cap 1..confirmed) \div SampleEvery
  IN n <= share + faults /\ share <= n + faults
=============================================================================
