-------------------------- MODULE FilterRelayProofs --------------------------
(***************************************************************************)
(* Theorems about FilterRelay, for any events with any IDs, any number of  *)
(* producers, any n of SampleRate and any number of faults.                *)
(***************************************************************************)
EXTENDS FilterRelay, ContractRelayProofs, Integers, FiniteSetTheorems

(* A step of the relay besides the chain and the store.                    *)
Unfiltered ==
  /\ keys' = keys /\ sampledOut' = sampledOut
  /\ \/ /\ counter' = counter
        /\ \/ Untransformed
           \/ \E p \in Producers : DialReturns(p) \/ PublishReturns(p)
           \/ Produce \/ StreamBroken
           \/ Cancel /\ UNCHANGED sourceVars
           \/ UNCHANGED vars
     \/ Crash /\ UNCHANGED sourceVars /\ counter' = 0

LEMMA FilterCases ==
  ASSUME [FilterNext]_filterVars
  PROVE  Unfiltered \/ ChainKeeps \/ ChainDrops \/ ChainFails
         \/ \E id \in Ids : Expire(id)
<1>1. CASE Untransformed /\ UNCHANGED chainVars
  BY <1>1, Zenon DEF Unfiltered, chainVars
<1>2. CASE \E p \in Producers : (DialReturns(p) \/ PublishReturns(p)) /\ UNCHANGED chainVars
  BY <1>2, Zenon DEF Unfiltered, chainVars
<1>3. CASE /\ Produce \/ StreamBroken \/ (Cancel /\ UNCHANGED sourceVars) \/ Terminated
           /\ UNCHANGED chainVars
  BY <1>3, Zenon DEF Unfiltered, chainVars, Terminated
<1>4. CASE Crash /\ UNCHANGED sourceVars /\ counter' = 0 /\ UNCHANGED <<keys, sampledOut>>
  BY <1>4, Zenon DEF Unfiltered
<1>5. CASE UNCHANGED filterVars
  BY <1>5, Zenon DEF Unfiltered, filterVars, chainVars
<1> QED
  BY <1>1, <1>2, <1>3, <1>4, <1>5, Zenon DEF FilterNext, FilterMain

LEMMA RelayStep ==
  ASSUME [FilterNext]_filterVars
  PROVE  [Next]_vars
<1>1. CASE ChainKeeps \/ ChainDrops \/ ChainFails
  BY <1>1 DEF ChainKeeps, ChainDrops, ChainFails, Next, Main
<1>2. CASE Unfiltered
  BY <1>2 DEF Unfiltered, Next, Main
<1>3. CASE \E id \in Ids : Expire(id)
  BY <1>3 DEF Expire
<1> QED
  BY <1>1, <1>2, <1>3, FilterCases

(* With Deduplicate and SampleRate in its chain the engine still is the    *)
(* relay of ContractRelay, and has its properties.                         *)
THEOREM FiltersRefineRelay == FilterSpec => Spec
<1>1. FilterInit => Init
  BY DEF FilterInit
<1> QED
  BY <1>1, RelayStep, PTL DEF FilterSpec, Spec

(* An event is acknowledged only when every producer has it or the chain   *)
(* has dropped it.                                                         *)
THEOREM FilteredAtLeastOnce == FilterSpec => []AtLeastOnce
  BY FiltersRefineRelay, DeliveredAtLeastOnce, PTL

LEMMA RelayInvariants == FilterSpec => [](TypeInv /\ StreamInv)
  BY FiltersRefineRelay, TypeInvariant, StreamInvariant, PTL

-----------------------------------------------------------------------------
ChainTypeOK ==
  /\ keys \in SUBSET Ids /\ counter \in 0..(SampleEvery - 1)
  /\ sampledOut \in SUBSET Events

LEMMA CurHasId ==
  ASSUME TypeInv, phase \in Processing
  PROVE  cur \in Events /\ IdOf[cur] \in Ids
  BY DEF TypeInv, EventInHand, Ids

LEMMA ChainTypeStep ==
  ASSUME TypeInv, ChainTypeOK, [FilterNext]_filterVars
  PROVE  ChainTypeOK'
<1> USE ChainAssumption DEF ChainAssumption, ChainTypeOK
<1>1. ASSUME Count PROVE counter' \in 0..(SampleEvery - 1)
  BY <1>1 DEF Count
<1>2. CASE ChainKeeps \/ ChainDrops \/ ChainFails
  <2>1. phase \in Processing
    BY <1>2 DEF ChainKeeps, ChainDrops, ChainFails, TransformKeeps, TransformDrops,
       TransformFails, RunFails, Processing
  <2>2. keys' = keys \/ keys' = keys \cup {IdOf[cur]}
    BY <1>2 DEF ChainKeeps, ChainDrops, ChainFails, SaveKey, chainVars
  <2>3. counter' \in 0..(SampleEvery - 1)
    BY <1>1, <1>2 DEF ChainKeeps, ChainDrops, ChainFails, chainVars
  <2>4. sampledOut' = sampledOut \/ sampledOut' = sampledOut \cup {cur}
    BY <1>2 DEF ChainKeeps, ChainDrops, ChainFails, chainVars
  <2> QED
    BY <2>1, <2>2, <2>3, <2>4, CurHasId
<1>3. CASE Unfiltered \/ \E id \in Ids : Expire(id)
  <2>1. keys' \in SUBSET Ids /\ sampledOut' = sampledOut
    BY <1>3 DEF Unfiltered, Expire
  <2>2. counter' = counter \/ counter' = 0
    BY <1>3 DEF Unfiltered, Expire
  <2> QED
    BY <2>1, <2>2
<1> QED
  BY <1>2, <1>3, FilterCases

(* The keys are those of events, and the counter stays below n.            *)
THEOREM FilterTypeCorrect == FilterSpec => []FilterTypeOK
<1>1. FilterInit => ChainTypeOK
  BY ChainAssumption DEF ChainAssumption, FilterInit, ChainTypeOK
<1>2. TypeInv /\ ChainTypeOK => FilterTypeOK
  BY DEF TypeInv, ChainTypeOK, FilterTypeOK
<1> QED
  BY <1>1, <1>2, ChainTypeStep, RelayInvariants, PTL DEF FilterSpec

-----------------------------------------------------------------------------
(* Deduplicate loses one ID per failure at most.  Counted are the IDs that *)
(* are lost, and those that will be if nothing is published for them any   *)
(* more: their keys are saved, or their event, dropped as a duplicate, is  *)
(* about to be acknowledged.  The ID of the event that is being published  *)
(* is counted once the publish has failed.                                 *)
SeenIds == {IdOf[e] : e \in Seen}

Waiting == IF phase = "acking" THEN {IdOf[cur]} \ SeenIds ELSE {}

InFlight == IF phase = "publishing" THEN {IdOf[cur]} ELSE {}

Counted == LostIds \cup ((keys \ SeenIds) \ InFlight) \cup Waiting

Leaving == {"unwind", "closing", "failed", "stopped"}

(* A run that fails because it is cancelled fails without a fault, and no  *)
(* event is processed before a restart, which is one.                      *)
Allowed == IF cancelled /\ phase \in Leaving THEN faults + 1 ELSE faults

CountInv ==
  /\ Cardinality(LostIds) <= faults
  /\ Cardinality(Counted) <= Allowed
  /\ phase = "publishing" /\ (\E p \in Producers : pub[p] = "failed") =>
       cancelled \/ Cardinality(Counted) + 1 <= faults

LEMMA IdsFinite == IsFiniteSet(Ids)
<1>1. IsFiniteSet(Events)
  BY LogAssumption, FS_Interval DEF LogAssumption
<1>2. IdOf \in Surjection(Events, Ids)
  BY ChainAssumption DEF ChainAssumption, Ids, Surjection
<1> QED
  BY <1>1, <1>2, FS_Surjection

(* All these sets are sets of IDs.                                         *)
LEMMA CountedIds ==
  ASSUME TypeInv, ChainTypeOK
  PROVE  LostIds \subseteq Counted /\ Counted \subseteq Ids
<1>1. LostIds \subseteq Ids
  BY LogAssumption DEF LogAssumption, LostIds, Ids, TypeInv, TypeOK
<1>2. Waiting \subseteq Ids
  BY CurHasId DEF Waiting, Processing
<1> QED
  BY <1>1, <1>2 DEF Counted, ChainTypeOK

LEMMA Smaller ==
  ASSUME NEW S \in SUBSET Ids, NEW T \in SUBSET S
  PROVE  /\ Cardinality(S) \in Nat /\ Cardinality(T) \in Nat
         /\ Cardinality(T) <= Cardinality(S)
<1>1. IsFiniteSet(S)
  BY IdsFinite, FS_Subset
<1>2. IsFiniteSet(T) /\ Cardinality(T) <= Cardinality(S)
  BY <1>1, FS_Subset
<1> QED
  BY <1>1, <1>2, FS_CardinalityType

LEMMA OneMore ==
  ASSUME NEW S \in SUBSET Ids, NEW x \in Ids, NEW T \in SUBSET (S \cup {x})
  PROVE  /\ Cardinality(S) \in Nat /\ Cardinality(T) \in Nat
         /\ Cardinality(T) <= Cardinality(S) + 1
<1>1. IsFiniteSet(S)
  BY IdsFinite, FS_Subset
<1>2. /\ IsFiniteSet(S \cup {x})
      /\ Cardinality(S \cup {x}) = IF x \in S THEN Cardinality(S) ELSE Cardinality(S) + 1
  BY <1>1, FS_AddElement
<1>3. IsFiniteSet(T) /\ Cardinality(T) <= Cardinality(S \cup {x})
  BY <1>2, FS_Subset
<1>4. Cardinality(S) \in Nat /\ Cardinality(T) \in Nat
  BY <1>1, <1>3, FS_CardinalityType
<1> QED
  BY <1>2, <1>3, <1>4

Premises ==
  TypeInv /\ StreamInv /\ ChainTypeOK /\ CountInv

LEMMA FaultsNat ==
  ASSUME Premises
  PROVE  faults \in Nat
  BY EngineAssumption DEF EngineAssumption, Premises, TypeInv, TypeOK, EngineTypeOK

(* A step that adds no ID to either set, and takes back no allowance.      *)
LEMMA NoneAdded ==
  ASSUME Premises, faults' \in Nat, Allowed' \in Nat, faults <= faults',
         Allowed <= Allowed', Counted' \subseteq Counted,
         LostIds' \subseteq LostIds \/ (LostIds' \subseteq Counted /\ Allowed = faults)
  PROVE  /\ Cardinality(LostIds') <= faults' /\ Cardinality(Counted') <= Allowed'
         /\ Cardinality(Counted') <= Cardinality(Counted)
         /\ Cardinality(Counted') \in Nat /\ Cardinality(Counted) \in Nat
<1>1. Counted \in SUBSET Ids /\ LostIds \in SUBSET Ids
  BY CountedIds DEF Premises
<1>2. /\ Cardinality(Counted) \in Nat /\ Cardinality(Counted') \in Nat
      /\ Cardinality(Counted') <= Cardinality(Counted)
  BY <1>1, Smaller
<1>3. /\ Cardinality(LostIds) \in Nat /\ Cardinality(LostIds') \in Nat
      /\ \/ Cardinality(LostIds') <= Cardinality(LostIds)
         \/ Cardinality(LostIds') <= Cardinality(Counted) /\ Allowed = faults
  <2>1. Cardinality(LostIds) \in Nat
    BY <1>1, Smaller
  <2>2. CASE LostIds' \subseteq LostIds
    BY <1>1, <2>1, <2>2, Smaller
  <2>3. CASE LostIds' \subseteq Counted /\ Allowed = faults
    BY <1>1, <2>1, <2>3, Smaller
  <2> QED
    BY <2>2, <2>3
<1>4. /\ faults \in Nat /\ Allowed \in Nat
      /\ Cardinality(LostIds) <= faults /\ Cardinality(Counted) <= Allowed
  BY EngineAssumption DEF EngineAssumption, Premises, CountInv, Allowed, TypeInv,
     TypeOK, EngineTypeOK
<1> HIDE DEF CountInv
<1> QED
  BY <1>2, <1>3, <1>4

(* A step that does not touch what is counted.                             *)
CalmStep ==
  /\ UNCHANGED <<delivered, confirmed, keys, sampledOut>>
  /\ faults' \in Nat /\ faults <= faults'
  /\ cancelled => cancelled'
  /\ pub' = pub \/ phase' # "publishing"
  /\ \/ phase' = phase /\ cur' = cur
     \/ phase \notin {"publishing", "acking"} /\ phase' \notin {"publishing", "acking"}
  /\ cancelled /\ phase \in Leaving => phase' \in Leaving

LEMMA CalmKeeps ==
  ASSUME Premises, CalmStep
  PROVE  CountInv'
<1>1. SeenIds' = SeenIds /\ LostIds' = LostIds
  BY DEF CalmStep, SeenIds, Seen, Published, LostIds
<1>2. Counted' = Counted
  BY <1>1 DEF Counted, CalmStep, Waiting, InFlight
<1>3. /\ faults \in Nat /\ faults' \in Nat /\ faults <= faults'
      /\ Allowed' \in Nat /\ Allowed <= Allowed'
  <2>1. faults \in Nat /\ faults' \in Nat /\ faults <= faults'
    BY FaultsNat DEF CalmStep
  <2>2. cancelled /\ phase \in Leaving => cancelled' /\ phase' \in Leaving
    BY DEF CalmStep
  <2> HIDE DEF Leaving
  <2>3. Allowed' = faults' + 1 \/ (Allowed' = faults' /\ ~(cancelled' /\ phase' \in Leaving))
    BY Zenon DEF Allowed
  <2>4. Allowed = faults \/ (Allowed = faults + 1 /\ cancelled /\ phase \in Leaving)
    BY Zenon DEF Allowed
  <2>5. \/ Allowed' = faults' + 1 /\ Allowed \in {faults, faults + 1}
        \/ Allowed' = faults' /\ Allowed = faults
    BY <2>2, <2>3, <2>4, Zenon
  <2> QED
    BY <2>1, <2>5
<1>4. /\ Cardinality(LostIds') <= faults' /\ Cardinality(Counted') <= Allowed'
      /\ Cardinality(Counted) \in Nat
  BY <1>1, <1>2, <1>3, NoneAdded
<1>5. ASSUME phase' = "publishing", NEW p \in Producers, pub'[p] = "failed"
      PROVE  cancelled' \/ Cardinality(Counted') + 1 <= faults'
  BY <1>2, <1>3, <1>4, <1>5 DEF CalmStep, Premises, CountInv
<1> QED
  BY <1>4, <1>5 DEF CountInv

LEMMA UntransformedCalm ==
  ASSUME TypeInv,
         \/ Connect \/ ConnectFailed \/ DialCancelled \/ DialsCollected
         \/ \E p \in Producers : CollectDial(p) \/ DialOk(p) \/ DialFailed(p)
         \/ Capture \/ CaptureRefused \/ HandOver \/ StreamBroken \/ StreamCancelled
         \/ Unwind \/ SourceClosed \/ StartBackoff \/ Retry \/ BackoffCancelled
         \/ Produce \/ Cancel \/ UNCHANGED vars,
         UNCHANGED <<confirmed, keys, sampledOut>>
  PROVE  CalmStep
<1> USE DEF CalmStep, Leaving, RunFails, sourceVars, Fails, Fault
<1>0. faults \in Nat
  BY EngineAssumption DEF EngineAssumption, TypeInv, TypeOK, EngineTypeOK
<1>1. CASE Connect \/ ConnectFailed \/ DialCancelled \/ DialsCollected
  BY <1>0, <1>1, NoSnapshotAssumption DEF Connect, SourceConnected, ConnectFailed,
       SourceConnectFailed, DialCancelled, DialsCollected
<1>2. ASSUME NEW p \in Producers, CollectDial(p) \/ DialOk(p) \/ DialFailed(p)
      PROVE  CalmStep
  BY <1>0, <1>2 DEF CollectDial, DialOk, DialFailed
<1>3. CASE Capture \/ CaptureRefused \/ HandOver \/ StreamBroken \/ StreamCancelled
  BY <1>0, <1>3 DEF Capture, CaptureStarted, CaptureRefused, CaptureFailed,
       HandOver, Receive, StreamBroken, StreamCancelled
<1>4. CASE Unwind \/ SourceClosed \/ StartBackoff \/ Retry \/ BackoffCancelled
  BY <1>0, <1>4 DEF Unwind, SourceClosed, StartBackoff, Retry, BackoffCancelled
<1>5. CASE Produce \/ Cancel \/ UNCHANGED vars
  BY <1>0, <1>5 DEF Produce, Cancel, vars, engineVars
<1> QED
  BY <1>1, <1>2, <1>3, <1>4, <1>5

(* A step that adds one ID to what is counted.                             *)
LEMMA OneAdded ==
  ASSUME Premises, faults' \in Nat, faults <= faults', LostIds' = LostIds,
         NEW x \in Ids, Counted' \subseteq Counted \cup {x}
  PROVE  /\ Cardinality(LostIds') <= faults'
         /\ Cardinality(Counted') <= Cardinality(Counted) + 1
         /\ Cardinality(Counted') \in Nat /\ Cardinality(Counted) \in Nat
<1>1. Counted \in SUBSET Ids /\ LostIds \in SUBSET Ids
  BY CountedIds DEF Premises
<1>2. /\ Cardinality(Counted) \in Nat /\ Cardinality(Counted') \in Nat
      /\ Cardinality(Counted') <= Cardinality(Counted) + 1
  BY <1>1, OneMore
<1>3. Cardinality(LostIds) \in Nat /\ Cardinality(LostIds) <= faults
  BY <1>1, Smaller DEF Premises, CountInv
<1> QED
  BY <1>2, <1>3, FaultsNat

LEMMA NotLeaving ==
  ASSUME phase \in Processing \cup {"select", "connect"}
  PROVE  Allowed = faults
  BY DEF Allowed, Leaving, Processing

LEMMA PublishReturnsCounts ==
  ASSUME Premises, NEW p \in Producers, PublishReturns(p), UNCHANGED <<keys, sampledOut>>
  PROVE  CountInv'
<1>1. phase = "publishing" /\ cur \in Events
  BY CurHasId DEF Premises, TypeInv, EventInHand, Processing, PublishReturns,
     PublishOk, PublishFailed
<1>2. UNCHANGED <<phase, cancelled, cur, confirmed, keys, sampledOut>>
  BY DEF PublishReturns, PublishOk, PublishFailed, sourceVars
<1>3. \A q \in Producers : delivered[q] \subseteq delivered'[q]
  BY DEF PublishReturns, PublishOk, PublishFailed, Premises, TypeInv, TypeOK,
     EngineTypeOK
<1>4. SeenIds \subseteq SeenIds'
  BY <1>3 DEF SeenIds, Seen, Published
<1>5. LostIds' \subseteq LostIds
  BY <1>2, <1>4 DEF LostIds, SeenIds
<1>6. Counted' \subseteq Counted
  BY <1>1, <1>2, <1>4, <1>5 DEF Counted, Waiting, InFlight
<1>7. Allowed = faults /\ Allowed' = faults'
  BY <1>1, <1>2 DEF Allowed, Leaving
<1>8. faults \in Nat /\ (faults' = faults \/ faults' = faults + 1)
  BY FaultsNat DEF PublishReturns, PublishOk, PublishFailed, Fails, Fault
<1>9. /\ Cardinality(LostIds') <= faults' /\ Cardinality(Counted') <= Allowed'
      /\ Cardinality(Counted') <= Cardinality(Counted)
      /\ Cardinality(Counted') \in Nat /\ Cardinality(Counted) \in Nat
  BY <1>5, <1>6, <1>7, <1>8, NoneAdded
<1>10. ASSUME NEW q \in Producers, pub'[q] = "failed"
       PROVE  cancelled' \/ Cardinality(Counted') + 1 <= faults'
  <2>1. CASE PublishOk(p)
    <3>1. pub[q] = "failed" /\ faults' = faults
      BY <1>10, <2>1 DEF PublishOk, Premises, TypeInv, TypeOK, EngineTypeOK
    <3>2. cancelled \/ Cardinality(Counted) + 1 <= faults
      BY <1>1, <3>1 DEF Premises, CountInv
    <3> QED
      BY <1>2, <1>8, <1>9, <3>1, <3>2
  <2>2. CASE PublishFailed(p)
    <3>1. cancelled \/ faults' = faults + 1
      BY <2>2 DEF PublishFailed, Fails, Fault
    <3>2. Cardinality(Counted) <= faults
      BY <1>7 DEF Premises, CountInv
    <3> QED
      BY <1>2, <1>8, <1>9, <3>1, <3>2
  <2> QED
    BY <2>1, <2>2 DEF PublishReturns
<1> QED
  BY <1>9, <1>10 DEF CountInv

LEMMA PublishDoneCounts ==
  ASSUME Premises, PublishDone, UNCHANGED <<keys, sampledOut, sourceVars>>
  PROVE  CountInv'
<1>1. phase = "publishing" /\ cur \in Events /\ IdOf[cur] \in Ids
  BY CurHasId DEF Premises, Processing, PublishDone
<1>2. UNCHANGED <<cancelled, cur, confirmed, keys, delivered, faults, sampledOut>>
  BY DEF PublishDone, sourceVars
<1>3. SeenIds' = SeenIds /\ LostIds' = LostIds
  BY <1>2 DEF SeenIds, Seen, Published, LostIds
<1>4. Allowed = faults /\ faults \in Nat
  BY <1>1, FaultsNat, NotLeaving DEF Processing
<1>5. CASE phase' = "unwind" /\ \E p \in Producers : pub[p] = "failed"
  <2>1. Counted' \subseteq Counted \cup {IdOf[cur]}
    BY <1>1, <1>2, <1>3, <1>5 DEF Counted, Waiting, InFlight
  <2>2. /\ Cardinality(LostIds') <= faults'
        /\ Cardinality(Counted') <= Cardinality(Counted) + 1
        /\ Cardinality(Counted') \in Nat /\ Cardinality(Counted) \in Nat
    BY <1>1, <1>2, <1>3, <1>4, <2>1, OneAdded
  <2>3. cancelled \/ Cardinality(Counted) + 1 <= faults
    BY <1>1, <1>5 DEF Premises, CountInv
  <2>4. Allowed' = IF cancelled THEN faults + 1 ELSE faults
    BY <1>2, <1>5 DEF Allowed, Leaving
  <2>5. Cardinality(Counted) <= faults
    BY <1>4 DEF Premises, CountInv
  <2>6. Cardinality(Counted') <= Allowed'
    <3>1. CASE cancelled
      BY <1>4, <2>2, <2>4, <2>5, <3>1
    <3>2. CASE ~cancelled
      BY <1>4, <2>2, <2>3, <2>4, <3>2
    <3> QED
      BY <3>1, <3>2
  <2> QED
    BY <1>5, <2>2, <2>6 DEF CountInv
<1>6. CASE phase' = SettledPhase /\ \A p \in Producers : pub[p] = "ok"
  <2>1. phase' = "acking"
    BY <1>1, <1>6 DEF SettledPhase, Premises, StreamInv, Processing
  <2>2. Published(cur)
    BY <1>1, <1>6 DEF Premises, StreamInv, Published
  <2>3. IdOf[cur] \in SeenIds
    BY <1>1, <2>2 DEF SeenIds, Seen
  <2>4. Counted' \subseteq Counted
    BY <1>1, <1>2, <1>3, <2>1, <2>3 DEF Counted, Waiting, InFlight
  <2>5. Allowed' = faults'
    BY <2>1 DEF Allowed, Leaving
  <2>6. Cardinality(LostIds') <= faults' /\ Cardinality(Counted') <= Allowed'
    BY <1>2, <1>3, <1>4, <2>4, <2>5, NoneAdded
  <2> QED
    BY <2>1, <2>6 DEF CountInv
<1> QED
  BY <1>5, <1>6 DEF PublishDone

(* The event is acknowledged, or may be: what was waiting is lost.         *)
LEMMA AckCounts ==
  ASSUME Premises, AckDone \/ AckRefused, UNCHANGED <<keys, sampledOut>>
  PROVE  CountInv'
<1>1. phase = "acking" /\ cur \in Events /\ pos = cur /\ cur = confirmed + 1
  BY CurHasId DEF Premises, StreamInv, Processing, AckDone, Acked, AckRefused, AckFailed,
     RunFails
<1>2. /\ UNCHANGED <<cancelled, delivered, sampledOut>>
      /\ confirmed' \in {confirmed, cur} /\ phase' \in {"select", "unwind"}
  BY <1>1 DEF AckDone, Acked, AckRefused, AckFailed, RunFails
<1>3. faults \in Nat /\ (faults' = faults \/ faults' = faults + 1)
  BY FaultsNat DEF AckDone, Acked, AckRefused, Fails, Fault
<1>4. SeenIds' = SeenIds
  BY <1>2 DEF SeenIds, Seen, Published
<1>5. confirmed \in Nat
  BY LogAssumption DEF LogAssumption, Premises, TypeInv, TypeOK
<1>6. LostIds' \subseteq Counted
  <2>1. \A e \in 1..confirmed' : e \in 1..confirmed \/ e = cur
    BY <1>1, <1>2, <1>5
  <2>2. LostIds' \subseteq LostIds \cup ({IdOf[cur]} \ SeenIds)
    BY <1>4, <2>1 DEF LostIds, SeenIds
  <2> QED
    BY <1>1, <2>2 DEF Counted, Waiting
<1>7. Counted' \subseteq Counted
  BY <1>1, <1>2, <1>4, <1>6 DEF Counted, Waiting, InFlight
<1>8. Allowed = faults /\ (Allowed' = faults' \/ Allowed' = faults' + 1)
  BY <1>1, NotLeaving, Zenon DEF Allowed, Processing
<1>9. /\ Allowed' \in Nat /\ Allowed <= Allowed' /\ faults' \in Nat /\ faults <= faults'
  BY <1>3, <1>8
<1>10. Cardinality(LostIds') <= faults' /\ Cardinality(Counted') <= Allowed'
  BY <1>6, <1>7, <1>8, <1>9, NoneAdded
<1> QED
  BY <1>2, <1>10 DEF CountInv

(* The chain saves the ID of an event it keeps or samples out; of one that *)
(* Deduplicate drops, a key is saved already.                              *)
LEMMA ChainDecides ==
  ASSUME Premises, ChainKeeps \/ ChainDrops
  PROVE  CountInv'
<1>1. phase = "transform" /\ cur \in Events /\ acking
  BY CurHasId DEF Premises, StreamInv, Processing, ChainKeeps, ChainDrops,
     TransformKeeps, TransformDrops
<1>2. UNCHANGED <<cancelled, cur, confirmed, delivered, faults>>
  BY DEF ChainKeeps, ChainDrops, TransformKeeps, TransformDrops, sourceVars
<1>3. /\ SeenIds \subseteq SeenIds' /\ LostIds' \subseteq LostIds
      /\ Counted' \subseteq Counted /\ phase' \in {"publishing", "acking"}
      /\ phase' = "publishing" => \A p \in Producers : pub'[p] # "failed"
  <2>1. CASE ChainKeeps
    <3>1. phase' = "publishing" /\ \A p \in Producers : pub'[p] # "failed"
      BY <2>1 DEF ChainKeeps, TransformKeeps
    <3>2. keys' \subseteq keys \cup {IdOf[cur]} /\ sampledOut' = sampledOut
      BY <2>1 DEF ChainKeeps, SaveKey
    <3>3. SeenIds' = SeenIds /\ LostIds' = LostIds
      BY <1>2, <3>2 DEF SeenIds, Seen, Published, LostIds
    <3> QED
      BY <1>1, <1>2, <3>1, <3>2, <3>3 DEF Counted, Waiting, InFlight
  <2>2. CASE ChainDrops /\ Duplicate /\ UNCHANGED chainVars
    <3>1. phase' = "acking" /\ IdOf[cur] \in keys /\ keys' = keys
          /\ sampledOut' = sampledOut
      BY <1>1, <2>2 DEF ChainDrops, TransformDrops, Duplicate, SettledPhase, chainVars
    <3>2. SeenIds' = SeenIds /\ LostIds' = LostIds
      BY <1>2, <3>1 DEF SeenIds, Seen, Published, LostIds
    <3> QED
      BY <1>1, <1>2, <3>1, <3>2 DEF Counted, Waiting, InFlight
  <2>3. CASE ChainDrops /\ SaveKey /\ sampledOut' = sampledOut \cup {cur}
    <3>1. phase' = "acking" /\ keys' \subseteq keys \cup {IdOf[cur]}
      BY <1>1, <2>3 DEF ChainDrops, TransformDrops, SaveKey, SettledPhase
    <3>2. SeenIds' = SeenIds \cup {IdOf[cur]}
      BY <1>1, <1>2, <2>3 DEF SeenIds, Seen, Published
    <3>3. LostIds' = {IdOf[e] : e \in 1..confirmed} \ SeenIds'
      BY <1>2 DEF LostIds, SeenIds
    <3>4. LostIds' \subseteq LostIds
      BY <3>2, <3>3 DEF LostIds, SeenIds
    <3>5. Waiting' = {} /\ InFlight' = {}
      BY <1>2, <3>1, <3>2 DEF Waiting, InFlight
    <3>6. InFlight = {}
      BY <1>1 DEF InFlight
    <3> QED
      BY <3>1, <3>2, <3>4, <3>5, <3>6 DEF Counted
  <2> QED
    BY <2>1, <2>2, <2>3 DEF ChainDrops
<1>4. Allowed = faults /\ Allowed' = faults' /\ faults \in Nat
  BY <1>1, <1>3, FaultsNat, NotLeaving DEF Processing, Allowed, Leaving
<1>5. Cardinality(LostIds') <= faults' /\ Cardinality(Counted') <= Allowed'
  BY <1>2, <1>3, <1>4, NoneAdded
<1> QED
  BY <1>3, <1>5 DEF CountInv

(* A failure of the store, or of the process, costs one ID at most.        *)
LEMMA FailureCounts ==
  ASSUME Premises, ChainFails \/ (Crash /\ UNCHANGED <<keys, sampledOut, sourceVars>>)
  PROVE  CountInv'
<1>1. UNCHANGED <<confirmed, delivered, sampledOut>> /\ phase' \in {"unwind", "connect"}
  BY DEF ChainFails, TransformFails, RunFails, Crash, MemoryLost, sourceVars
<1>2. SeenIds' = SeenIds /\ LostIds' = LostIds
  BY <1>1 DEF SeenIds, Seen, Published, LostIds
<1>3. faults \in Nat /\ (faults' = faults \/ faults' = faults + 1)
  BY FaultsNat DEF ChainFails, TransformFails, Crash, Fails, Fault
<1>4. CASE ChainFails
  <2>1. phase = "transform" /\ cur \in Events /\ IdOf[cur] \in Ids
    BY <1>4, CurHasId DEF Premises, Processing, ChainFails, TransformFails, RunFails
  <2>2. keys' \subseteq keys \cup {IdOf[cur]} /\ phase' = "unwind"
    BY <1>4 DEF ChainFails, TransformFails, RunFails, SaveKey
  <2>3. Counted' \subseteq Counted \cup {IdOf[cur]}
    BY <1>2, <2>1, <2>2 DEF Counted, Waiting, InFlight
  <2>4. /\ Cardinality(LostIds') <= faults'
        /\ Cardinality(Counted') <= Cardinality(Counted) + 1
        /\ Cardinality(Counted') \in Nat /\ Cardinality(Counted) \in Nat
    BY <1>2, <1>3, <2>1, <2>3, OneAdded
  <2>5. Allowed = faults
    BY <2>1, NotLeaving DEF Processing
  <2>6. Allowed' = faults + 1 \/ (Allowed' = faults' /\ faults' = faults + 1)
        \/ (Allowed' = faults' + 1 /\ faults' = faults + 1)
    <3>1. cancelled' = cancelled /\ ((cancelled /\ faults' = faults) \/ faults' = faults + 1)
      BY <1>4, Zenon DEF ChainFails, TransformFails, RunFails, Fails, Fault
    <3>2. Allowed' = IF cancelled' THEN faults' + 1 ELSE faults'
      BY <2>2 DEF Allowed, Leaving
    <3> QED
      BY <3>1, <3>2, Zenon
  <2>7. Cardinality(Counted) <= faults
    BY <2>5 DEF Premises, CountInv
  <2>8. Cardinality(Counted') <= Allowed'
    BY <1>3, <2>4, <2>6, <2>7
  <2> QED
    BY <2>2, <2>4, <2>8 DEF CountInv
<1>5. CASE Crash /\ UNCHANGED <<keys, sampledOut, sourceVars>>
  <2>1. faults' = faults + 1 /\ phase' = "connect"
    BY <1>5 DEF Crash, Fault
  <2>2. Allowed' = faults + 1
    BY <2>1 DEF Allowed, Leaving
  <2>3. CASE phase = "publishing"
    <3>1. cur \in Events /\ IdOf[cur] \in Ids /\ Allowed = faults
      BY <2>3, CurHasId, NotLeaving DEF Premises, Processing
    <3>2. Counted' \subseteq Counted \cup {IdOf[cur]}
      BY <1>2, <1>5, <2>1, <2>3 DEF Counted, Waiting, InFlight
    <3>3. /\ Cardinality(LostIds') <= faults'
          /\ Cardinality(Counted') <= Cardinality(Counted) + 1
          /\ Cardinality(Counted') \in Nat /\ Cardinality(Counted) \in Nat
      BY <1>2, <1>3, <3>1, <3>2, OneAdded
    <3>4. Cardinality(Counted) <= faults
      BY <3>1 DEF Premises, CountInv
    <3>5. Cardinality(Counted') <= Allowed'
      BY <1>3, <2>2, <3>3, <3>4
    <3> QED
      BY <2>1, <3>3, <3>5 DEF CountInv
  <2>4. CASE phase # "publishing"
    <3>1. Counted' \subseteq Counted
      BY <1>2, <1>5, <2>1, <2>4 DEF Counted, Waiting, InFlight
    <3>2. Allowed = faults \/ Allowed = faults + 1
      BY Zenon DEF Allowed
    <3>3. Cardinality(LostIds') <= faults' /\ Cardinality(Counted') <= Allowed'
      <4>1. /\ faults' \in Nat /\ Allowed' \in Nat /\ faults <= faults'
            /\ Allowed <= Allowed'
        BY <1>3, <2>1, <2>2, <3>2
      <4> QED
        BY <1>2, <3>1, <4>1, NoneAdded
    <3> QED
      BY <2>1, <3>3 DEF CountInv
  <2> QED
    BY <2>3, <2>4
<1> QED
  BY <1>4, <1>5

(* Without its key an event is no duplicate.                               *)
LEMMA ExpireCounts ==
  ASSUME Premises, NEW id \in Ids, Expire(id)
  PROVE  CountInv'
<1>1. UNCHANGED vars /\ keys' \subseteq keys
  BY DEF Expire
<1>2. UNCHANGED <<phase, cancelled, pub, cur, delivered, faults, confirmed, sampledOut>>
  BY <1>1 DEF Expire, vars, engineVars, sourceVars
<1>3. SeenIds' = SeenIds /\ LostIds' = LostIds
  BY <1>2 DEF SeenIds, Seen, Published, LostIds
<1>4. Counted' \subseteq Counted
  BY <1>1, <1>2, <1>3 DEF Counted, Waiting, InFlight
<1>5. Allowed' = Allowed /\ (Allowed = faults \/ Allowed = faults + 1) /\ faults \in Nat
  <2>1. Allowed' = Allowed
    BY <1>2, Zenon DEF Allowed, Leaving
  <2>2. Allowed = faults \/ Allowed = faults + 1
    BY Zenon DEF Allowed
  <2> QED
    BY <2>1, <2>2, FaultsNat
<1>6. /\ Cardinality(LostIds') <= faults' /\ Cardinality(Counted') <= Allowed'
      /\ Cardinality(Counted') <= Cardinality(Counted)
      /\ Cardinality(Counted') \in Nat /\ Cardinality(Counted) \in Nat
  BY <1>2, <1>3, <1>4, <1>5, NoneAdded
<1>7. ASSUME phase' = "publishing", NEW p \in Producers, pub'[p] = "failed"
      PROVE  cancelled' \/ Cardinality(Counted') + 1 <= faults'
  <2>1. cancelled \/ Cardinality(Counted) + 1 <= faults
    BY <1>2, <1>7 DEF Premises, CountInv
  <2> QED
    BY <1>2, <1>5, <1>6, <2>1
<1> QED
  BY <1>6, <1>7 DEF CountInv

LEMMA UnfilteredCounts ==
  ASSUME Premises, Unfiltered
  PROVE  CountInv'
<1>1. CASE PublishDone /\ UNCHANGED sourceVars
  BY <1>1, PublishDoneCounts DEF Unfiltered
<1>2. CASE AckDone \/ AckRefused
  BY <1>2, AckCounts DEF Unfiltered
<1>3. ASSUME NEW p \in Producers, PublishReturns(p)
      PROVE  CountInv'
  BY <1>3, PublishReturnsCounts DEF Unfiltered
<1>4. CASE Crash /\ UNCHANGED sourceVars
  BY <1>4, FailureCounts DEF Unfiltered
<1>5. CASE /\ \/ Connect \/ ConnectFailed \/ DialCancelled \/ DialsCollected
              \/ \E p \in Producers : CollectDial(p) \/ DialOk(p) \/ DialFailed(p)
              \/ Capture \/ CaptureRefused \/ HandOver \/ StreamBroken \/ StreamCancelled
              \/ Unwind \/ SourceClosed \/ StartBackoff \/ Retry \/ BackoffCancelled
              \/ Produce \/ Cancel \/ UNCHANGED vars
           /\ confirmed' = confirmed
  BY <1>5, UntransformedCalm, CalmKeeps DEF Unfiltered, Premises
<1>6. ASSUME Connect \/ ConnectFailed \/ Capture \/ CaptureRefused \/ HandOver
             \/ StreamBroken \/ Produce \/ UNCHANGED vars
      PROVE  confirmed' = confirmed
  BY <1>6 DEF Connect, ConnectFailed, Capture, CaptureRefused, HandOver, StreamBroken,
     Produce, vars, sourceVars
<1> QED
  BY <1>1, <1>2, <1>3, <1>4, <1>5, <1>6, Zenon DEF Unfiltered, Untransformed, DialReturns,
     sourceVars

LEMMA CountStep ==
  ASSUME Premises, [FilterNext]_filterVars
  PROVE  CountInv'
<1>1. CASE \E id \in Ids : Expire(id)
  BY <1>1, ExpireCounts
<1>2. CASE ChainKeeps \/ ChainDrops
  BY <1>2, ChainDecides
<1>3. CASE ChainFails
  BY <1>3, FailureCounts
<1> QED
  BY <1>1, <1>2, <1>3, UnfilteredCounts, FilterCases

LEMMA CountInit ==
  ASSUME FilterInit
  PROVE  CountInv
<1>1. LostIds = {} /\ Counted = {}
  BY DEF FilterInit, Init, EngineInit, LostIds, Counted, Waiting, InFlight
<1>2. Cardinality({}) = 0
  BY FS_EmptySet
<1>3. Allowed = 0 /\ faults = 0 /\ phase = "connect"
  BY DEF FilterInit, Init, EngineInit, Allowed, Leaving
<1> QED
  BY <1>1, <1>2, <1>3 DEF CountInv

(* Every ID of an acknowledged event is published, or was sampled out, but *)
(* for one at most per failure: Deduplicate before Publish turns the       *)
(* engine's at-least-once delivery into this.                              *)
THEOREM DedupLosesOnePerFailure == FilterSpec => []DedupLossBounded
<1>1. FilterInit => CountInv /\ ChainTypeOK
  BY CountInit, ChainAssumption DEF ChainAssumption, FilterInit, ChainTypeOK
<1>2. /\ TypeInv /\ StreamInv /\ ChainTypeOK /\ CountInv /\ [FilterNext]_filterVars
      => ChainTypeOK' /\ CountInv'
  BY ChainTypeStep, CountStep DEF Premises
<1>3. CountInv => DedupLossBounded
  BY DEF CountInv, DedupLossBounded
<1> QED
  BY <1>1, <1>2, <1>3, RelayInvariants, PTL DEF FilterSpec

-----------------------------------------------------------------------------
(* SampleRate publishes one in n of what it sees.  What it owes is counted *)
(* in events: Balance is n for each published event less one for each that *)
(* was seen, of those that are acknowledged; without failures it would be  *)
(* the counter, with its sign turned.  For the next event, `standing' says *)
(* what earlier attempts have done.                                        *)
Balance ==
  SampleEvery * Cardinality({e \in 1..confirmed : Published(e)})
    - Cardinality(Seen \cap 1..confirmed)

Standings == {"new", "out", "published"}

Standing ==
  IF Published(confirmed + 1) THEN "published"
  ELSE IF confirmed + 1 \in sampledOut THEN "out" ELSE "new"

(* What the event adds to the balance when it is acknowledged.             *)
Worth(st) == IF st = "published" THEN SampleEvery - 1 ELSE IF st = "out" THEN -1 ELSE 0

Low(st) == IF st = "out" THEN -1 ELSE 0
High(st) == IF st = "published" THEN SampleEvery ELSE 0

(* What f failures can cost: each may set the counter back by n - 1.       *)
Debt(f) == f * (SampleEvery - 1)

Bounded(st, b, f) == b + Low(st) + Debt(f + 1) >= 0 /\ b <= f

(* Between two attempts.                                                   *)
Level(st, b, c, f) == b + c + Low(st) + Debt(f) >= 0 /\ b + c + High(st) <= f

(* After an attempt that failed without a fault, because of cancellation.  *)
Excused(st, b, c, f) == b + c + High(st) <= f + 1

(* The event was kept, and is being published.                             *)
Charged(b, c, f) == c = 0 /\ b + SampleEvery <= f + 1
Paid(st, b, f) == b + Low(st) + Debt(f) >= 0 /\ b + SampleEvery <= f

(* The event is about to be acknowledged.                                  *)
Due(st, b, c, f) ==
  b + c + Worth(st) + Debt(f) >= 0 /\ b + c + Worth(st) <= f

LEMMA DebtGrows ==
  ASSUME NEW f \in Nat
  PROVE  /\ SampleEvery \in Nat \ {0} /\ Debt(f) \in Nat
         /\ Debt(f + 1) = Debt(f) + (SampleEvery - 1)
<1>1. \A a, g \in Nat : a * g \in Nat /\ (a + 1) * g = a * g + g
  OBVIOUS
<1>2. SampleEvery \in Nat \ {0} /\ SampleEvery - 1 \in Nat
  BY ChainAssumption DEF ChainAssumption
<1>3. QED
  BY <1>1, <1>2 DEF Debt

(* More failures only widen the bounds.                                    *)
LEMMA Widens ==
  ASSUME NEW st \in Standings, NEW b \in Int, NEW c \in 0..(SampleEvery - 1),
         NEW f \in Nat, NEW g \in Nat, f <= g
  PROVE  /\ Bounded(st, b, f) => Bounded(st, b, g)
         /\ Level(st, b, c, f) => Level(st, b, c, g)
         /\ Excused(st, b, c, f) => Excused(st, b, c, g)
         /\ Charged(b, c, f) => Charged(b, c, g)
         /\ Paid(st, b, f) => Paid(st, b, g)
         /\ Due(st, b, c, f) => Due(st, b, c, g)
<1>1. SampleEvery \in Nat \ {0}
  BY DebtGrows
<1>2. \A x, y, s \in Nat : (x + y) * s = x * s + y * s /\ y * s \in Nat /\ x * s \in Nat
  OBVIOUS
<1>3. PICK d \in Nat : g = f + d
  OBVIOUS
<1>4. Debt(f) \in Nat /\ Debt(g) \in Nat /\ Debt(f) <= Debt(g)
  <2>1. SampleEvery - 1 \in Nat
    BY <1>1
  <2>2. QED
    BY <1>2, <1>3, <2>1 DEF Debt
<1>5. Debt(f + 1) = Debt(f) + (SampleEvery - 1) /\ Debt(g + 1) = Debt(g) + (SampleEvery - 1)
  BY DebtGrows
<1>6. QED
  BY <1>1, <1>4, <1>5
     DEF Bounded, Level, Excused, Charged, Paid, Due, Standings, Low, High, Worth

(* The chain decides.                                                      *)
LEMMA Decides ==
  ASSUME NEW st \in Standings, NEW b \in Int, NEW c \in 0..(SampleEvery - 1), NEW f \in Nat,
         Bounded(st, b, f), Level(st, b, c, f)
  PROVE  /\ Due(st, b, c, f) /\ Excused(st, b, c, f)
         /\ c = SampleEvery - 1 => Charged(b, 0, f)
         /\ c < SampleEvery - 1 /\ st = "published" => Due(st, b, c + 1, f)
         /\ c < SampleEvery - 1 /\ st # "published" =>
              Due("out", b, c + 1, f) /\ Bounded("out", b, f)
  BY DebtGrows DEF Bounded, Level, Excused, Charged, Due, Standings, Low, High, Worth

(* The event is published, or is not.                                      *)
LEMMA Publication ==
  ASSUME NEW st \in Standings, NEW b \in Int, NEW f \in Nat, Bounded(st, b, f),
         Charged(b, 0, f)
  PROVE  /\ Bounded("published", b, f) /\ Due("published", b, 0, f)
         /\ Paid(st, b, f) => Paid("published", b, f)
         /\ Paid(st, b, f + 1) /\ Excused(st, b, 0, f)
         /\ Paid(st, b, f) => Level(st, b, 0, f)
  BY DebtGrows DEF Bounded, Level, Excused, Charged, Paid, Due, Standings, Low, High, Worth

(* The event is acknowledged, or is not.                                   *)
LEMMA Acknowledgement ==
  ASSUME NEW st \in Standings, NEW b \in Int, NEW c \in 0..(SampleEvery - 1), NEW f \in Nat,
         Bounded(st, b, f), Due(st, b, c, f)
  PROVE  /\ Bounded("new", b + Worth(st), f) /\ Level("new", b + Worth(st), c, f)
         /\ Level(st, b, c, f + 1) /\ Excused(st, b, c, f)
         /\ b + Worth(st) \in Int
  BY DebtGrows DEF Bounded, Level, Excused, Due, Standings, Low, High, Worth

(* A restart sets the counter to 0.                                        *)
LEMMA Restarted ==
  ASSUME NEW st \in Standings, NEW b \in Int, NEW c \in 0..(SampleEvery - 1), NEW f \in Nat,
         Bounded(st, b, f), Excused(st, b, c, f)
  PROVE  Level(st, b, 0, f + 1)
  BY DebtGrows DEF Bounded, Level, Excused, Standings, Low, High

LEMMA Division ==
  ASSUME NEW m \in Nat, NEW s \in Nat \ {0}
  PROVE  \E q \in Nat, r \in Nat : m \div s = q /\ m = s * q + r /\ r < s
  OBVIOUS

(* What the bounds on the balance say about shares.                        *)
LEMMA ShareOfBalance ==
  ASSUME NEW st \in Standings, NEW n \in Nat, NEW m \in Nat, NEW f \in Nat,
         Bounded(st, SampleEvery * n - m, f)
  PROVE  n <= (m \div SampleEvery) + f /\ (m \div SampleEvery) <= n + f
<1>0. SampleEvery \in Nat \ {0}
  BY DebtGrows
<1>1. PICK q \in Nat, r \in Nat :
        m \div SampleEvery = q /\ m = SampleEvery * q + r /\ r < SampleEvery
  BY <1>0, Division
<1>2. \A s, a, b \in Nat : a >= b + 1 => s * a >= s * b + s
  <2>1. \A s, d \in Nat : s * d >= 0
    OBVIOUS
  <2>2. \A s, a, b \in Nat : a >= b + 1 => s * a = s * b + s + s * (a - (b + 1))
    OBVIOUS
  <2>3. \A s, a, b \in Nat : a >= b + 1 => s * (a - (b + 1)) >= 0
    BY <2>1
  <2>4. QED
    BY <2>2, <2>3
<1>3. PICK x \in Nat, y \in Nat, z \in Nat :
        /\ x = SampleEvery * n /\ y = SampleEvery * q /\ z = SampleEvery * f
        /\ z >= f
  <2>1. \A s \in Nat \ {0}, a \in Nat : s * a \in Nat /\ s * a >= a
    OBVIOUS
  <2>2. QED
    BY <1>0, <2>1
<1>4. Debt(f + 1) = z + SampleEvery - (f + 1)
  <2>1. \A s, g \in Nat : (g + 1) * (s - 1) = s * g + s - (g + 1)
    OBVIOUS
  <2>2. QED
    BY <1>0, <1>3, <2>1 DEF Debt
<1>5. x - (y + r) + z + SampleEvery - (f + 1) >= 0 /\ x - (y + r) <= f
  BY <1>0, <1>1, <1>3, <1>4 DEF Bounded, Low, Standings
<1>6. n <= q + f
  <2>1. SUFFICES ASSUME n >= (q + f) + 1 PROVE FALSE
    OBVIOUS
  <2>2. SampleEvery * n >= SampleEvery * (q + f) + SampleEvery
    BY <1>0, <1>2, <2>1
  <2>3. SampleEvery * (q + f) = y + z
    BY <1>0, <1>3
  <2>4. QED
    BY <1>0, <1>1, <1>3, <1>5, <2>2, <2>3
<1>7. q <= n + f
  <2>1. SUFFICES ASSUME q >= (n + f) + 1 PROVE FALSE
    OBVIOUS
  <2>2. SampleEvery * q >= SampleEvery * (n + f) + SampleEvery
    BY <1>0, <1>2, <2>1
  <2>3. SampleEvery * (n + f) = x + z
    BY <1>0, <1>3
  <2>4. QED
    BY <1>0, <1>1, <1>3, <1>5, <2>2, <2>3
<1>8. QED
  BY <1>1, <1>6, <1>7

-----------------------------------------------------------------------------
(* No later event has been published or sampled out.                       *)
AheadInv ==
  \A e \in Nat : e > confirmed + 1 => ~Published(e) /\ e \notin sampledOut

ShareInv ==
  /\ Bounded(Standing, Balance, faults)
  /\ phase = "acking" => Due(Standing, Balance, counter, faults)
  /\ phase = "publishing" =>
       /\ Charged(Balance, counter, faults)
       /\ (\E p \in Producers : pub[p] = "failed") =>
            cancelled \/ Paid(Standing, Balance, faults)
  /\ phase \notin {"acking", "publishing"} =>
       \/ Level(Standing, Balance, counter, faults)
       \/ /\ cancelled /\ phase \in Leaving
          /\ Excused(Standing, Balance, counter, faults)

SharePremises ==
  TypeInv /\ StreamInv /\ ChainTypeOK /\ AheadInv /\ ShareInv

ShareTypes ==
  /\ faults \in Nat /\ confirmed \in Nat /\ counter \in 0..(SampleEvery - 1)
  /\ SampleEvery \in Nat \ {0}
  /\ Standing \in Standings
  /\ Balance \in Int

(* The sets that are counted are finite.                                   *)
LEMMA UpToFinite ==
  ASSUME NEW n \in Nat, NEW T \in SUBSET (1..n)
  PROVE  IsFiniteSet(T) /\ Cardinality(T) \in Nat
<1>1. IsFiniteSet(1..n)
  BY FS_Interval
<1>2. QED
  BY <1>1, FS_Subset, FS_CardinalityType

LEMMA SharesTyped ==
  ASSUME TypeInv, ChainTypeOK
  PROVE  ShareTypes
<1>1. faults \in Nat
  BY EngineAssumption DEF EngineAssumption, TypeInv, TypeOK, EngineTypeOK
<1>2. confirmed \in Nat
  BY LogAssumption DEF LogAssumption, TypeInv, TypeOK
<1>3. counter \in 0..(SampleEvery - 1) /\ SampleEvery \in Nat \ {0}
  BY ChainAssumption DEF ChainAssumption, ChainTypeOK
<1>4. Standing \in Standings
  BY DEF Standing, Standings
<1>5. /\ Cardinality({e \in 1..confirmed : Published(e)}) \in Nat
      /\ Cardinality(Seen \cap 1..confirmed) \in Nat
  BY <1>2, UpToFinite
<1>6. \A a, n, m \in Nat : a * n - m \in Int
  OBVIOUS
<1>7. Balance \in Int
  BY <1>3, <1>5, <1>6 DEF Balance
<1>8. QED
  BY <1>1, <1>2, <1>3, <1>4, <1>7 DEF ShareTypes

(* A step that leaves what has happened to the acknowledged events alone.  *)
LEMMA SameBalance ==
  ASSUME confirmed' = confirmed,
         \A e \in 1..confirmed : Published(e)' = Published(e)
                                  /\ (e \in Seen)' = (e \in Seen)
  PROVE  Balance' = Balance
<1>1. {e \in 1..confirmed : Published(e)}' = {e \in 1..confirmed : Published(e)}
  BY Zenon
<1>2. (Seen \cap 1..confirmed)' = Seen \cap 1..confirmed
  BY Zenon
<1>3. QED
  BY <1>1, <1>2, Zenon DEF Balance

(* A step that does not touch what is counted.                             *)
QuietStep ==
  /\ UNCHANGED <<delivered, confirmed, counter, sampledOut>>
  /\ faults' \in Nat /\ faults <= faults'
  /\ cancelled => cancelled'
  /\ pub' = pub \/ phase' # "publishing"
  /\ \/ phase' = phase
     \/ phase \notin {"publishing", "acking"} /\ phase' \notin {"publishing", "acking"}
  /\ cancelled /\ phase \in Leaving => phase' \in Leaving

LEMMA QuietKeeps ==
  ASSUME SharePremises, QuietStep
  PROVE  AheadInv' /\ ShareInv'
<1>1. ShareTypes
  BY SharesTyped DEF SharePremises
<1>2. confirmed' = confirmed /\ counter' = counter
  BY DEF QuietStep
<1>3. /\ \A e : Published(e)' = Published(e)
      /\ sampledOut' = sampledOut /\ Seen' = Seen
  BY DEF QuietStep, Published, Seen
<1>4. AheadInv'
  BY <1>2, <1>3 DEF SharePremises, AheadInv
<1>5. Standing' = Standing
  BY <1>2, <1>3 DEF Standing
<1>6. Balance' = Balance
  BY <1>2, <1>3, SameBalance
<1>7. PICK f \in Nat : f = faults' /\ faults <= f
  BY DEF QuietStep
<1>8. /\ Bounded(Standing, Balance, faults) => Bounded(Standing, Balance, f)
      /\ Level(Standing, Balance, counter, faults) => Level(Standing, Balance, counter, f)
      /\ Excused(Standing, Balance, counter, faults) => Excused(Standing, Balance, counter, f)
      /\ Charged(Balance, counter, faults) => Charged(Balance, counter, f)
      /\ Paid(Standing, Balance, faults) => Paid(Standing, Balance, f)
      /\ Due(Standing, Balance, counter, faults) => Due(Standing, Balance, counter, f)
  BY <1>1, <1>7, Widens DEF ShareTypes
<1>9. Bounded(Standing, Balance, f)
  BY <1>8 DEF SharePremises, ShareInv
<1>10. phase' = "acking" => Due(Standing, Balance, counter, f)
  BY <1>8 DEF QuietStep, SharePremises, ShareInv
<1>11. phase' = "publishing" => Charged(Balance, counter, f)
  BY <1>8 DEF QuietStep, SharePremises, ShareInv
<1>12. ASSUME phase' = "publishing", NEW p \in Producers, pub'[p] = "failed"
       PROVE  cancelled' \/ Paid(Standing, Balance, f)
  BY <1>8, <1>12, Zenon DEF QuietStep, SharePremises, ShareInv
<1>13. ASSUME phase' \notin {"acking", "publishing"}
       PROVE  \/ Level(Standing, Balance, counter, f)
              \/ cancelled' /\ phase' \in Leaving /\ Excused(Standing, Balance, counter, f)
  <2>1. phase \notin {"acking", "publishing"}
    BY <1>13 DEF QuietStep
  <2>2. \/ Level(Standing, Balance, counter, faults)
        \/ cancelled /\ phase \in Leaving /\ Excused(Standing, Balance, counter, faults)
    BY <2>1, Zenon DEF SharePremises, ShareInv
  <2>3. QED
    BY <1>8, <2>2, Zenon DEF QuietStep
<1>14. QED
  BY <1>2, <1>4, <1>5, <1>6, <1>7, <1>9, <1>10, <1>11, <1>12, <1>13, Zenon DEF ShareInv

(* An event is in hand: it is the next one.                                *)
LEMMA InHand ==
  ASSUME SharePremises, phase \in Processing
  PROVE  cur \in Events /\ cur = confirmed + 1 /\ pos = cur /\ acking
  BY CurHasId DEF SharePremises, TypeInv, StreamInv

LEMMA QuietCases ==
  ASSUME SharePremises,
         \/ Connect \/ ConnectFailed \/ DialCancelled \/ DialsCollected
         \/ \E p \in Producers : CollectDial(p) \/ DialOk(p) \/ DialFailed(p)
         \/ Capture \/ CaptureRefused \/ HandOver \/ StreamBroken \/ StreamCancelled
         \/ Unwind \/ SourceClosed \/ StartBackoff \/ Retry \/ BackoffCancelled
         \/ Produce \/ Cancel \/ UNCHANGED vars,
         UNCHANGED <<confirmed, keys, sampledOut, counter>>
  PROVE  AheadInv' /\ ShareInv'
<1>1. CalmStep
  BY UntransformedCalm DEF SharePremises
<1>2. QuietStep
  BY <1>1 DEF CalmStep, QuietStep
<1>3. QED
  BY <1>2, QuietKeeps

LEMMA ExpireIsQuiet ==
  ASSUME SharePremises, NEW id \in Ids, Expire(id)
  PROVE  AheadInv' /\ ShareInv'
<1>1. faults \in Nat
  BY SharesTyped DEF SharePremises, ShareTypes
<1>2. QuietStep
  BY <1>1 DEF Expire, QuietStep, vars, engineVars, sourceVars
<1>3. QED
  BY <1>2, QuietKeeps

(* A step after which the same events are delivered, sampled out and       *)
(* acknowledged.                                                           *)
LEMMA SameShares ==
  ASSUME AheadInv, UNCHANGED <<delivered, confirmed, sampledOut>>
  PROVE  AheadInv' /\ Standing' = Standing /\ Balance' = Balance
<1>1. \A e : Published(e)' = Published(e)
  BY DEF Published
<1>2. Seen' = Seen
  BY DEF Seen, Published
<1>3. QED
  BY <1>1, <1>2, SameBalance DEF AheadInv, Standing

(* The chain is asked with the bounds of Level.                            *)
LEMMA LevelAtTransform ==
  ASSUME SharePremises, phase = "transform"
  PROVE  Level(Standing, Balance, counter, faults) /\ Bounded(Standing, Balance, faults)
  BY DEF SharePremises, ShareInv, Leaving

LEMMA PublishReturnsShare ==
  ASSUME SharePremises, NEW p \in Producers, PublishReturns(p),
         UNCHANGED <<sampledOut, counter>>
  PROVE  AheadInv' /\ ShareInv'
<1>0. ShareTypes
  BY SharesTyped DEF SharePremises
<1>1. phase = "publishing" /\ cur \in Events /\ cur = confirmed + 1
  BY InHand DEF SharePremises, TypeInv, EventInHand, Processing, PublishReturns,
     PublishOk, PublishFailed
<1>2. UNCHANGED <<phase, cancelled, cur, confirmed, sampledOut, counter>>
  BY DEF PublishReturns, PublishOk, PublishFailed, sourceVars
<1>3. /\ \A q \in Producers : delivered[q] \subseteq delivered'[q]
      /\ \A q \in Producers : delivered'[q] \subseteq delivered[q] \cup {cur}
  BY DEF PublishReturns, PublishOk, PublishFailed, SharePremises, TypeInv, TypeOK,
     EngineTypeOK
<1>4. \A e : e # cur => Published(e)' = Published(e)
  BY <1>3 DEF Published
<1>5. Published(cur) => Published(cur)'
  BY <1>2, <1>3 DEF Published
<1>6. Balance' = Balance
  <2>1. \A e \in 1..confirmed : e # cur
    BY <1>0, <1>1 DEF ShareTypes
  <2>2. \A e \in 1..confirmed : Published(e)' = Published(e)
    BY <1>4, <2>1
  <2>3. \A e \in 1..confirmed : (e \in Seen)' = (e \in Seen)
    BY <1>2, <2>2 DEF Seen
  <2>4. QED
    BY <1>2, <2>2, <2>3, SameBalance
<1>7. AheadInv'
  <2>1. \A e \in Nat : e > confirmed + 1 => e # cur
    BY <1>0, <1>1 DEF ShareTypes
  <2>2. QED
    BY <1>2, <1>4, <2>1 DEF SharePremises, AheadInv
<1>8. Standing' = Standing \/ Standing' = "published"
  BY <1>1, <1>2, <1>5 DEF Standing
<1>9. counter = 0 /\ Charged(Balance, 0, faults) /\ Bounded(Standing, Balance, faults)
  BY <1>1 DEF SharePremises, ShareInv, Charged
<1>10. PICK f \in Nat : /\ f = faults' /\ f \in {faults, faults + 1}
                        /\ PublishFailed(p) => cancelled \/ f = faults + 1
                        /\ PublishOk(p) => f = faults
  BY <1>0 DEF ShareTypes, PublishReturns, PublishOk, PublishFailed, Fails, Fault
<1>11. Charged(Balance, 0, f) /\ Bounded(Standing, Balance, f)
  BY <1>0, <1>9, <1>10, Widens DEF ShareTypes
<1>12. /\ Bounded("published", Balance, f)
       /\ Paid(Standing, Balance, f) => Paid("published", Balance, f)
  BY <1>0, <1>11, Publication DEF ShareTypes
<1>13. Bounded(Standing', Balance, f)
  BY <1>8, <1>11, <1>12, Zenon
<1>14. ASSUME NEW q \in Producers, pub'[q] = "failed"
       PROVE  cancelled \/ Paid(Standing, Balance, f)
  <2>1. CASE PublishOk(p)
    <3>1. pub[q] = "failed" /\ f = faults
      BY <1>10, <1>14, <2>1 DEF PublishOk, SharePremises, TypeInv, TypeOK, EngineTypeOK
    <3>2. cancelled \/ Paid(Standing, Balance, faults)
      BY <1>1, <3>1, Zenon DEF SharePremises, ShareInv
    <3>3. QED
      BY <3>1, <3>2, Zenon
  <2>2. CASE PublishFailed(p)
    <3>1. Paid(Standing, Balance, faults + 1)
      BY <1>0, <1>9, Publication DEF ShareTypes
    <3>2. QED
      BY <1>10, <2>2, <3>1, Zenon
  <2>3. QED
    BY <2>1, <2>2, Zenon DEF PublishReturns
<1>15. ASSUME NEW q \in Producers, pub'[q] = "failed"
       PROVE  cancelled' \/ Paid(Standing', Balance, f)
  BY <1>2, <1>8, <1>12, <1>14, <1>15, Zenon
<1>16. phase' = "publishing" /\ counter' = 0
  BY <1>1, <1>2, <1>9
<1>17. QED
  BY <1>6, <1>7, <1>10, <1>11, <1>13, <1>15, <1>16, Zenon DEF ShareInv

LEMMA PublishDoneShare ==
  ASSUME SharePremises, PublishDone, UNCHANGED sourceVars,
         UNCHANGED <<sampledOut, counter>>
  PROVE  AheadInv' /\ ShareInv'
<1>0. ShareTypes
  BY SharesTyped DEF SharePremises
<1>1. /\ phase = "publishing" /\ phase' \in {"unwind", "acking"}
      /\ cur = confirmed + 1 /\ acking
  BY InHand DEF PublishDone, Processing, SettledPhase, SharePremises, StreamInv
<1>2. UNCHANGED <<delivered, confirmed, sampledOut, counter, faults, cancelled>>
  BY DEF PublishDone, sourceVars
<1>3. AheadInv' /\ Standing' = Standing /\ Balance' = Balance
  BY <1>2, SameShares DEF SharePremises
<1>4. counter = 0 /\ Charged(Balance, 0, faults) /\ Bounded(Standing, Balance, faults)
  BY <1>1 DEF SharePremises, ShareInv, Charged
<1>5. /\ Due("published", Balance, 0, faults) /\ Excused(Standing, Balance, 0, faults)
      /\ Paid(Standing, Balance, faults) => Level(Standing, Balance, 0, faults)
  BY <1>0, <1>4, Publication DEF ShareTypes
<1>6. ASSUME phase' = "acking" PROVE Standing = "published"
  <2>1. \A p \in Producers : pub[p] = "ok"
    BY <1>6 DEF PublishDone
  <2>2. Published(cur)
    BY <1>1, <2>1 DEF SharePremises, StreamInv, Published
  <2>3. QED
    BY <1>1, <2>2 DEF Standing
<1>7. ASSUME phase' = "unwind"
      PROVE  Level(Standing, Balance, 0, faults) \/ cancelled
  <2>1. \E p \in Producers : pub[p] = "failed"
    BY <1>1, <1>7 DEF PublishDone, SettledPhase
  <2>2. cancelled \/ Paid(Standing, Balance, faults)
    BY <1>1, <2>1, Zenon DEF SharePremises, ShareInv
  <2>3. QED
    BY <1>5, <2>2, Zenon
<1>8. phase' = "unwind" => phase' \in Leaving
  BY DEF Leaving
<1>9. phase' = "acking" => Due(Standing, Balance, 0, faults)
  BY <1>5, <1>6, Zenon
<1>10. phase' # "publishing" /\ (phase' \notin {"acking", "publishing"} => phase' = "unwind")
  BY <1>1
<1>11. QED
  BY <1>2, <1>3, <1>4, <1>5, <1>7, <1>8, <1>9, <1>10, Zenon DEF ShareInv

(* SampleRate's counter goes round.                                        *)
LEMMA Rounds ==
  ASSUME NEW s \in Nat \ {0}, NEW c \in 0..(s - 1)
  PROVE  (c + 1) % s = IF c = s - 1 THEN 0 ELSE c + 1
<1>1. CASE c = s - 1
  <2>1. \A n \in Nat \ {0} : n % n = 0
    OBVIOUS
  <2>2. c + 1 = s
    BY <1>1
  <2>3. QED
    BY <1>1, <2>1, <2>2
<1>2. CASE c # s - 1
  BY <1>2
<1>3. QED
  BY <1>1, <1>2

LEMMA ChainKeepsShare ==
  ASSUME SharePremises, ChainKeeps
  PROVE  AheadInv' /\ ShareInv'
<1>0. ShareTypes
  BY SharesTyped DEF SharePremises
<1>1. /\ phase = "transform" /\ phase' = "publishing"
      /\ \A p \in Producers : pub'[p] = "running"
  BY DEF ChainKeeps, TransformKeeps
<1>2. UNCHANGED <<delivered, confirmed, sampledOut, faults, cancelled>>
  BY DEF ChainKeeps, TransformKeeps, sourceVars
<1>3. AheadInv' /\ Standing' = Standing /\ Balance' = Balance
  BY <1>2, SameShares DEF SharePremises
<1>4. Level(Standing, Balance, counter, faults) /\ Bounded(Standing, Balance, faults)
  BY <1>1, LevelAtTransform
<1>5. counter' = 0 /\ counter = SampleEvery - 1
  <2>1. (counter + 1) % SampleEvery
          = IF counter = SampleEvery - 1 THEN 0 ELSE counter + 1
    BY <1>0, Rounds DEF ShareTypes
  <2>2. (counter + 1) % SampleEvery = 0 /\ counter' = (counter + 1) % SampleEvery
    BY DEF ChainKeeps, Sampled, Count
  <2>3. counter + 1 # 0
    BY <1>0 DEF ShareTypes
  <2>4. QED
    BY <2>1, <2>2, <2>3, Zenon
<1>6. Charged(Balance, 0, faults)
  BY <1>0, <1>4, <1>5, Decides DEF ShareTypes
<1>7. phase' # "acking" /\ phase' \in {"acking", "publishing"}
      /\ ~(\E p \in Producers : pub'[p] = "failed")
  BY <1>1
<1>8. QED
  BY <1>2, <1>3, <1>4, <1>5, <1>6, <1>7, Zenon DEF ShareInv

LEMMA ChainDropsShare ==
  ASSUME SharePremises, ChainDrops
  PROVE  AheadInv' /\ ShareInv'
<1>0. ShareTypes
  BY SharesTyped DEF SharePremises
<1>1. /\ phase = "transform" /\ phase' = "acking" /\ cur = confirmed + 1
      /\ cur \in Events
  BY InHand DEF ChainDrops, TransformDrops, SettledPhase, Processing
<1>2. UNCHANGED <<delivered, confirmed, faults, cancelled>>
  BY DEF ChainDrops, TransformDrops, sourceVars
<1>4. Level(Standing, Balance, counter, faults) /\ Bounded(Standing, Balance, faults)
  BY <1>1, LevelAtTransform
<1>5. phase' # "publishing" /\ ~(phase' \notin {"acking", "publishing"})
  BY <1>1
<1>6. CASE UNCHANGED chainVars
  <2>1. sampledOut' = sampledOut /\ counter' = counter
    BY <1>6 DEF chainVars
  <2>2. AheadInv' /\ Standing' = Standing /\ Balance' = Balance
    BY <1>2, <2>1, SameShares DEF SharePremises
  <2>3. Due(Standing, Balance, counter, faults)
    BY <1>0, <1>4, Decides DEF ShareTypes
  <2>4. QED
    BY <1>2, <1>4, <1>5, <2>1, <2>2, <2>3, Zenon DEF ShareInv
<1>7. CASE Count /\ ~Sampled(counter + 1) /\ sampledOut' = sampledOut \cup {cur}
  <2>1. counter' = counter + 1 /\ counter < SampleEvery - 1
    <3>1. (counter + 1) % SampleEvery
            = IF counter = SampleEvery - 1 THEN 0 ELSE counter + 1
      BY <1>0, Rounds DEF ShareTypes
    <3>2. (counter + 1) % SampleEvery # 0 /\ counter' = (counter + 1) % SampleEvery
      BY <1>7 DEF Sampled, Count
    <3>3. counter # SampleEvery - 1 /\ counter' = counter + 1
      BY <3>1, <3>2, Zenon
    <3>4. QED
      BY <1>0, <3>3 DEF ShareTypes
  <2>2. \A e : Published(e)' = Published(e)
    BY <1>2 DEF Published
  <2>3. Balance' = Balance
    <3>1. \A e \in 1..confirmed : e # cur
      BY <1>0, <1>1 DEF ShareTypes
    <3>2. \A e \in 1..confirmed : (e \in Seen)' = (e \in Seen)
      BY <1>7, <2>2, <3>1 DEF Seen
    <3>3. QED
      BY <1>2, <2>2, <3>2, SameBalance
  <2>4. AheadInv'
    <3>1. \A e \in Nat : e > confirmed + 1 => e # cur
      BY <1>0, <1>1 DEF ShareTypes
    <3>2. QED
      BY <1>2, <1>7, <2>2, <3>1 DEF SharePremises, AheadInv
  <2>5. Standing' = IF Standing = "published" THEN "published" ELSE "out"
    BY <1>1, <1>2, <1>7, <2>2 DEF Standing
  <2>6. /\ Standing = "published" => Due("published", Balance, counter + 1, faults)
        /\ Standing # "published" =>
             Due("out", Balance, counter + 1, faults) /\ Bounded("out", Balance, faults)
    BY <1>0, <1>4, <2>1, Decides DEF ShareTypes
  <2>7. Due(Standing', Balance, counter + 1, faults) /\ Bounded(Standing', Balance, faults)
    BY <1>4, <2>5, <2>6, Zenon
  <2>8. QED
    BY <1>2, <1>5, <2>1, <2>3, <2>4, <2>7, Zenon DEF ShareInv
<1>8. QED
  BY <1>6, <1>7 DEF ChainDrops

LEMMA ChainFailsShare ==
  ASSUME SharePremises, ChainFails
  PROVE  AheadInv' /\ ShareInv'
<1>1. faults \in Nat
  BY SharesTyped DEF SharePremises, ShareTypes
<1>2. QuietStep
  BY <1>1 DEF ChainFails, TransformFails, RunFails, Fails, Fault, QuietStep, sourceVars,
     Leaving
<1>3. QED
  BY <1>2, QuietKeeps

(* The event in hand is acknowledged.                                      *)
LEMMA BalanceMoves ==
  ASSUME SharePremises, cur = confirmed + 1, cur \in Events, confirmed' = cur,
         UNCHANGED <<delivered, sampledOut>>
  PROVE  AheadInv' /\ Standing' = "new" /\ Balance' = Balance + Worth(Standing)
<1>0. ShareTypes
  BY SharesTyped DEF SharePremises
<1> DEFINE P == {e \in 1..confirmed : Published(e)}
           Q == {e \in 1..cur : Published(e)}
           S == Seen \cap 1..confirmed
           T == Seen \cap 1..cur
<1>1. \A e : Published(e)' = Published(e)
  BY DEF Published
<1>2. Seen' = Seen
  BY <1>1 DEF Seen
<1>3. Balance' = SampleEvery * Cardinality(Q) - Cardinality(T)
  BY <1>1, <1>2, Zenon DEF Balance
<1>4. Balance = SampleEvery * Cardinality(P) - Cardinality(S)
  BY DEF Balance
<1>5. confirmed \in Nat /\ 1..cur = (1..confirmed) \cup {cur} /\ cur \notin 1..confirmed
      /\ cur \in Nat
  BY <1>0 DEF ShareTypes
<1>6. Q = (IF Published(cur) THEN P \cup {cur} ELSE P) /\ cur \notin P
  BY <1>5
<1>7. T = (IF cur \in Seen THEN S \cup {cur} ELSE S) /\ cur \notin S
  BY <1>5
<1>8. /\ IsFiniteSet(P) /\ Cardinality(P) \in Nat
      /\ IsFiniteSet(S) /\ Cardinality(S) \in Nat
  BY <1>5, UpToFinite
<1>9. Cardinality(Q) = IF Published(cur) THEN Cardinality(P) + 1 ELSE Cardinality(P)
  <2> HIDE DEF P, Q
  <2>1. QED
    BY <1>6, <1>8, FS_AddElement
<1>10. Cardinality(T) = IF cur \in Seen THEN Cardinality(S) + 1 ELSE Cardinality(S)
  <2> HIDE DEF S, T
  <2>1. QED
    BY <1>7, <1>8, FS_AddElement
<1>11. cur \in Seen <=> Published(cur) \/ cur \in sampledOut
  BY DEF Seen
<1>12. Balance' = Balance + Worth(Standing)
  <2> HIDE DEF P, Q, S, T
  <2>1. \A s, n \in Nat : s * (n + 1) = s * n + s /\ s * n \in Nat
    OBVIOUS
  <2>2. PICK b : b = Balance'
    OBVIOUS
  <2>3. b = SampleEvery * Cardinality(Q) - Cardinality(T)
    BY <1>3, <2>2
  <2>4. SampleEvery \in Nat
    BY <1>0 DEF ShareTypes
  <2>5. CASE Standing = "published"
    <3>1. Published(cur) /\ cur \in Seen
      BY <1>11, <2>5 DEF Standing
    <3>2. b = Balance + (SampleEvery - 1)
      BY <1>4, <1>8, <1>9, <1>10, <2>1, <2>3, <2>4, <3>1
    <3>3. QED
      BY <2>2, <2>5, <3>2, Zenon DEF Worth
  <2>6. CASE Standing = "out"
    <3>1. ~Published(cur) /\ cur \in Seen
      BY <1>11, <2>6 DEF Standing
    <3>2. b = Balance + (-1)
      BY <1>4, <1>8, <1>9, <1>10, <2>1, <2>3, <2>4, <3>1
    <3>3. Worth(Standing) = -1
      BY <2>6 DEF Worth
    <3>4. QED
      BY <2>2, <3>2, <3>3, Zenon
  <2>7. CASE Standing = "new"
    <3>1. ~Published(cur) /\ cur \notin Seen
      BY <1>11, <2>7 DEF Standing
    <3>2. b = Balance + 0
      BY <1>4, <1>8, <1>9, <1>10, <2>1, <2>3, <2>4, <3>1
    <3>3. Worth(Standing) = 0
      BY <2>7 DEF Worth
    <3>4. QED
      BY <2>2, <3>2, <3>3, Zenon
  <2>8. QED
    BY <1>0, <2>5, <2>6, <2>7 DEF ShareTypes, Standings
<1>13. \A e \in Nat : e > cur => ~Published(e) /\ e \notin sampledOut
  BY DEF SharePremises, AheadInv
<1>14. AheadInv'
  <2>1. \A e \in Nat : e > cur + 1 => ~Published(e) /\ e \notin sampledOut
    BY <1>5, <1>13
  <2>2. QED
    BY <1>1, <2>1 DEF AheadInv
<1>15. Standing' = "new"
  <2>1. ~Published(cur + 1) /\ cur + 1 \notin sampledOut
    BY <1>5, <1>13
  <2>2. QED
    BY <1>1, <2>1 DEF Standing
<1>16. QED
  BY <1>12, <1>14, <1>15

LEMMA AckShare ==
  ASSUME SharePremises, AckDone \/ AckRefused, UNCHANGED <<sampledOut, counter>>
  PROVE  AheadInv' /\ ShareInv'
<1>0. ShareTypes
  BY SharesTyped DEF SharePremises
<1>1. /\ phase = "acking" /\ cur = confirmed + 1 /\ pos = cur /\ cur \in Events
      /\ phase' \notin {"acking", "publishing"}
  BY InHand DEF AckDone, AckRefused, Acked, AckFailed, RunFails, Processing
<1>2. /\ UNCHANGED <<delivered, sampledOut, counter, cancelled>>
      /\ confirmed' \in {confirmed, cur}
  BY <1>1 DEF AckDone, AckRefused, Acked, AckFailed, RunFails
<1>3. Bounded(Standing, Balance, faults) /\ Due(Standing, Balance, counter, faults)
  BY <1>1 DEF SharePremises, ShareInv
<1>4. /\ Bounded("new", Balance + Worth(Standing), faults)
      /\ Level("new", Balance + Worth(Standing), counter, faults)
      /\ Level(Standing, Balance, counter, faults + 1)
      /\ Excused(Standing, Balance, counter, faults)
      /\ Balance + Worth(Standing) \in Int
  BY <1>0, <1>3, Acknowledgement DEF ShareTypes
<1>5. PICK f \in Nat : /\ f = faults' /\ f \in {faults, faults + 1}
                       /\ \/ AckDone
                          \/ f = faults + 1
                          \/ cancelled /\ f = faults /\ phase' = "unwind"
  BY <1>0 DEF ShareTypes, AckDone, AckRefused, Acked, AckFailed, RunFails, Fails, Fault
<1>6. CASE confirmed' = cur
  <2>1. AheadInv' /\ Standing' = "new" /\ Balance' = Balance + Worth(Standing)
    BY <1>1, <1>2, <1>6, BalanceMoves
  <2>2. /\ Bounded("new", Balance + Worth(Standing), f)
        /\ Level("new", Balance + Worth(Standing), counter, f)
    BY <1>0, <1>4, <1>5, Widens DEF ShareTypes, Standings
  <2>3. QED
    BY <1>1, <1>2, <1>5, <2>1, <2>2, Zenon DEF ShareInv
<1>7. CASE confirmed' # cur
  <2>1. confirmed' = confirmed /\ ~AckDone
    BY <1>1, <1>2, <1>7 DEF AckDone
  <2>2. AheadInv' /\ Standing' = Standing /\ Balance' = Balance
    BY <1>2, <2>1, SameShares DEF SharePremises
  <2>3. Bounded(Standing, Balance, f)
    BY <1>0, <1>3, <1>5, Widens DEF ShareTypes
  <2>4. \/ Level(Standing, Balance, counter, f)
        \/ cancelled /\ phase' \in Leaving /\ Excused(Standing, Balance, counter, f)
    <3>1. phase' = "unwind" => phase' \in Leaving
      BY DEF Leaving
    <3>2. Level(Standing, Balance, counter, f)
          \/ (cancelled /\ phase' = "unwind" /\ Excused(Standing, Balance, counter, f))
      BY <1>4, <1>5, <2>1
    <3>3. QED
      BY <3>1, <3>2, Zenon
  <2>5. QED
    BY <1>1, <1>2, <1>5, <2>2, <2>3, <2>4, Zenon DEF ShareInv
<1>8. QED
  BY <1>6, <1>7

LEMMA CrashShare ==
  ASSUME SharePremises, Crash, UNCHANGED sourceVars, sampledOut' = sampledOut,
         counter' = 0
  PROVE  AheadInv' /\ ShareInv'
<1>0. ShareTypes
  BY SharesTyped DEF SharePremises
<1>1. /\ UNCHANGED <<delivered, confirmed, sampledOut>>
      /\ phase' \notin {"acking", "publishing"}
  BY DEF Crash, MemoryLost, sourceVars
<1>2. AheadInv' /\ Standing' = Standing /\ Balance' = Balance
  BY <1>1, SameShares DEF SharePremises
<1>3. Bounded(Standing, Balance, faults)
  BY DEF SharePremises, ShareInv
<1>4. Excused(Standing, Balance, counter, faults)
  <2>1. CASE phase = "acking"
    <3>1. Due(Standing, Balance, counter, faults)
      BY <2>1 DEF SharePremises, ShareInv
    <3>2. QED
      BY <1>0, <1>3, <3>1, Acknowledgement DEF ShareTypes
  <2>2. CASE phase = "publishing"
    <3>1. counter = 0 /\ Charged(Balance, 0, faults)
      BY <2>2 DEF SharePremises, ShareInv, Charged
    <3>2. Excused(Standing, Balance, 0, faults)
      BY <1>0, <1>3, <3>1, Publication DEF ShareTypes
    <3>3. QED
      BY <3>1, <3>2
  <2>3. CASE phase \notin {"acking", "publishing"}
    <3>1. Level(Standing, Balance, counter, faults)
          \/ Excused(Standing, Balance, counter, faults)
      BY <2>3, Zenon DEF SharePremises, ShareInv
    <3>2. CASE Level(Standing, Balance, counter, faults)
      BY <1>0, <1>3, <3>2, Decides DEF ShareTypes
    <3>3. QED
      BY <3>1, <3>2, Zenon
  <2>4. QED
    BY <2>1, <2>2, <2>3
<1>5. PICK f \in Nat : f = faults' /\ f = faults + 1
  BY <1>0 DEF ShareTypes, Crash, Fault
<1>6. Level(Standing, Balance, 0, f)
  BY <1>0, <1>3, <1>4, <1>5, Restarted DEF ShareTypes
<1>7. Bounded(Standing, Balance, f)
  BY <1>0, <1>3, <1>5, Widens DEF ShareTypes
<1>8. QED
  BY <1>1, <1>2, <1>5, <1>6, <1>7, Zenon DEF ShareInv

LEMMA ShareStep ==
  ASSUME SharePremises, [FilterNext]_filterVars
  PROVE  AheadInv' /\ ShareInv'
<1>1. CASE ChainKeeps \/ ChainDrops \/ ChainFails
  BY <1>1, ChainKeepsShare, ChainDropsShare, ChainFailsShare
<1>2. CASE \E id \in Ids : Expire(id)
  BY <1>2, ExpireIsQuiet
<1>3. CASE Unfiltered
  <2>0. keys' = keys /\ sampledOut' = sampledOut
    BY <1>3 DEF Unfiltered
  <2>1. CASE Crash /\ UNCHANGED sourceVars /\ counter' = 0
    BY <2>0, <2>1, CrashShare
  <2>2. CASE counter' = counter
    <3>1. CASE PublishDone /\ UNCHANGED sourceVars
      BY <2>0, <2>2, <3>1, PublishDoneShare
    <3>2. CASE AckDone \/ AckRefused
      BY <2>0, <2>2, <3>2, AckShare
    <3>3. ASSUME NEW p \in Producers, PublishReturns(p)
          PROVE  AheadInv' /\ ShareInv'
      BY <2>0, <2>2, <3>3, PublishReturnsShare
    <3>4. CASE /\ \/ Connect \/ ConnectFailed \/ DialCancelled \/ DialsCollected
                  \/ \E p \in Producers : CollectDial(p) \/ DialOk(p) \/ DialFailed(p)
                  \/ Capture \/ CaptureRefused \/ HandOver \/ StreamBroken
                  \/ StreamCancelled \/ Unwind \/ SourceClosed \/ StartBackoff \/ Retry
                  \/ BackoffCancelled \/ Produce \/ Cancel \/ UNCHANGED vars
               /\ confirmed' = confirmed
      BY <2>0, <2>2, <3>4, QuietCases
    <3>5. ASSUME Connect \/ ConnectFailed \/ Capture \/ CaptureRefused \/ HandOver
                 \/ StreamBroken \/ Produce \/ UNCHANGED vars
          PROVE  confirmed' = confirmed
      BY <3>5 DEF Connect, ConnectFailed, Capture, CaptureRefused, HandOver,
         StreamBroken, Produce, vars, sourceVars
    <3>6. QED
      BY <1>3, <2>1, <2>2, <3>1, <3>2, <3>3, <3>4, <3>5, Zenon
         DEF Unfiltered, Untransformed, DialReturns, sourceVars
  <2>3. QED
    BY <1>3, <2>1, <2>2, Zenon DEF Unfiltered
<1>4. QED
  BY <1>1, <1>2, <1>3, FilterCases

LEMMA ShareInit ==
  ASSUME FilterInit
  PROVE  AheadInv /\ ShareInv
<1>1. /\ confirmed = 0 /\ counter = 0 /\ faults = 0 /\ sampledOut = {}
      /\ phase = "connect" /\ \A p \in Producers : delivered[p] = {}
  BY DEF FilterInit, Init, EngineInit
<1>2. \A e : ~Published(e)
  BY <1>1, EngineAssumption DEF EngineAssumption, Published
<1>3. AheadInv /\ Standing = "new"
  BY <1>1, <1>2 DEF AheadInv, Standing
<1>4. Balance = 0
  <2>1. {e \in 1..confirmed : Published(e)} = {} /\ Seen \cap 1..confirmed = {}
    BY <1>1, <1>2 DEF Seen
  <2>2. SampleEvery * 0 - 0 = 0
    BY ChainAssumption DEF ChainAssumption
  <2>3. QED
    BY <2>1, <2>2, FS_EmptySet DEF Balance
<1>5. Level("new", 0, 0, 0) /\ Bounded("new", 0, 0)
  <2>1. Debt(0) \in Nat /\ Debt(0 + 1) \in Nat
    BY DebtGrows
  <2>2. QED
    BY <2>1 DEF Level, Bounded, Low, High
<1>6. QED
  BY <1>1, <1>3, <1>4, <1>5 DEF ShareInv

(* transform.go:173-177: SampleRate publishes one in n of what it sees.    *)
(* Of the acknowledged events the share that is published is off by one    *)
(* per failure at most, in both directions: a failure or a restart moves   *)
(* the counter, which all runs of the process share.                       *)
THEOREM SampleKeepsItsShare == FilterSpec => []SampleShare
<1>1. FilterInit => ChainTypeOK /\ AheadInv /\ ShareInv
  BY ShareInit, ChainAssumption DEF ChainAssumption, FilterInit, ChainTypeOK
<1>2. /\ TypeInv /\ StreamInv /\ ChainTypeOK /\ AheadInv /\ ShareInv
      /\ [FilterNext]_filterVars
      => ChainTypeOK' /\ AheadInv' /\ ShareInv'
  BY ChainTypeStep, ShareStep DEF SharePremises
<1>3. TypeInv /\ ChainTypeOK /\ ShareInv => SampleShare
  <2> SUFFICES ASSUME TypeInv, ChainTypeOK, ShareInv PROVE SampleShare
    OBVIOUS
  <2>1. ShareTypes
    BY SharesTyped
  <2> DEFINE n == Cardinality({e \in 1..confirmed : Published(e)})
             m == Cardinality(Seen \cap 1..confirmed)
  <2>2. n \in Nat /\ m \in Nat
    BY <2>1, UpToFinite DEF ShareTypes
  <2>3. Bounded(Standing, SampleEvery * n - m, faults)
    BY DEF ShareInv, Balance
  <2>4. SampleShare <=> n <= (m \div SampleEvery) + faults /\ (m \div SampleEvery) <= n + faults
    BY DEF SampleShare
  <2> HIDE DEF n, m
  <2>5. QED
    BY <2>1, <2>2, <2>3, <2>4, ShareOfBalance DEF ShareTypes
<1>4. QED
  BY <1>1, <1>2, <1>3, RelayInvariants, PTL DEF FilterSpec
=============================================================================
