---------------------------- MODULE PgRelayProofs ----------------------------
(***************************************************************************)
(* Theorems about PgRelay, for any set of producers, any log and any       *)
(* number of faults.                                                       *)
(***************************************************************************)
EXTENDS PgRelay, EngineProofs

(* What the walsender has sent in the present session, or passed over.     *)
PassedAt(n, s) ==
  {e \in Events :
     \/ TxnOf[e] < n
     \/ n \in Txns /\ \E k \in DOMAIN Rows(n) : k < s /\ Rows(n)[k].ev = e}

Passed == PassedAt(next, step)

Unread(x) == \A t \in Txns : Wal[t].commit < x => t < next

CaptureInv ==
  /\ cap = "send" <=> capEv # NoEvent
  /\ phase \in {"connect", "dialing", "capture"} => cap \notin {"recv", "reply"}
  /\ Streaming /\ cap = "send" =>
       /\ next \in Txns /\ step - 1 \in DOMAIN Rows(next)
       /\ Rows(next)[step - 1].ev = capEv

(* A connected wire has a slot, and attempts left to start replication.    *)
WireInv ==
  /\ wire # "down" => slot # 0
  /\ wire = "idle" => tries < MaxTries

PositionInv ==
  /\ next <= committed + 1
  /\ next = committed + 1 => step = 0
  /\ phase \in {"dialing", "capture"} =>
       /\ step = 0
       /\ \A t \in Txns : t < next <=> t <= born \/ Wal[t].commit < slot

LsnInv ==
  committed + 1 \in Txns =>
    \A x \in {slot, clientLSN, pendingLSN} : x <= Wal[committed + 1].commit

OrderInv ==
  Streaming /\ cur # NoEvent =>
    /\ cur \in Passed
    /\ \A e \in Passed : e > cur => e \in NoId \/ e = capEv
    /\ capEv # NoEvent => cur < capEv

FreshInv ==
  /\ assigned => phase = "acking" /\ Unread(clientLSN)
  /\ Streaming /\ (cur # NoEvent \/ cap = "send") => Unread(pendingLSN)

Lacking == {e \in Owed : ~Settled(e)}
Behind(x) == {e \in Lacking : Wal[TxnOf[e]].commit < x}
Reader == Streaming \/ cap \in {"recv", "reply"}
Exposed ==
  {e \in Lacking :
     \/ \E x \in {slot, clientLSN, pendingLSN} : Wal[TxnOf[e]].commit < x
     \/ Reader /\ e \in Passed /\ e # capEv}

CountInv ==
  /\ Streaming =>
       Cardinality(Exposed \ {cur}) + (IF Failing THEN 1 ELSE 0) <= faults
  /\ ~Streaming =>
       Cardinality(Exposed) <= faults + (IF Excused THEN 1 ELSE 0)

TypeInv == TypeOK /\ InHand /\ StreamOnly

-----------------------------------------------------------------------------
(* The log                                                                 *)
LEMMA Element ==
  ASSUME NEW S, NEW s \in Seq(S)
  PROVE  /\ Len(s) \in Nat /\ DOMAIN s = 1..Len(s)
         /\ \A k \in DOMAIN s : s[k] \in S
  OBVIOUS

LEMMA WalFacts ==
  /\ Len(Wal) \in Nat /\ Txns = 1..Len(Wal)
  /\ \A t \in Txns :
       /\ Wal[t].first \in Nat \ {0} /\ Wal[t].commit \in Nat /\ Wal[t].end \in Nat
       /\ Wal[t].first < Wal[t].commit /\ Wal[t].commit < Wal[t].end
       /\ Len(Rows(t)) \in Nat /\ DOMAIN Rows(t) = 1..Len(Rows(t))
       /\ \A k \in DOMAIN Rows(t) :
            /\ Rows(t)[k].ev \in Events
            /\ Rows(t)[k].at \in Nat /\ Rows(t)[k].len \in Nat
  /\ \A t, u \in Txns : t < u => Wal[t].end <= Wal[u].commit
  /\ HeaderLen \in Nat /\ MaxTries \in Nat /\ Events \subseteq Nat
  /\ NoEvent \notin Events /\ ~SnapshotBound
<1> DEFINE Row == [ev : Events, at : Nat, len : Nat]
<1>1. Wal \in Seq([first : Nat \ {0}, commit : Nat, end : Nat, rows : Seq(Row)])
  BY WalAssumption DEF WalAssumption
<1>2. Len(Wal) \in Nat /\ Txns = 1..Len(Wal)
  BY <1>1 DEF Txns
<1>3. ASSUME NEW t \in Txns
      PROVE  /\ Wal[t].first \in Nat \ {0} /\ Wal[t].commit \in Nat
             /\ Wal[t].end \in Nat /\ Rows(t) \in Seq(Row)
  <2>1. Wal[t] \in [first : Nat \ {0}, commit : Nat, end : Nat, rows : Seq(Row)]
    BY <1>1, Element DEF Txns
  <2>2. QED
    BY <2>1 DEF Rows
<1>4. ASSUME NEW t \in Txns
      PROVE  /\ Len(Rows(t)) \in Nat /\ DOMAIN Rows(t) = 1..Len(Rows(t))
             /\ \A k \in DOMAIN Rows(t) :
                  /\ Rows(t)[k].ev \in Events
                  /\ Rows(t)[k].at \in Nat /\ Rows(t)[k].len \in Nat
  <2>1. /\ Len(Rows(t)) \in Nat /\ DOMAIN Rows(t) = 1..Len(Rows(t))
        /\ \A k \in DOMAIN Rows(t) : Rows(t)[k] \in Row
    BY <1>3, Element
  <2>2. QED
    BY <2>1
<1>5. /\ \A t \in Txns : Wal[t].first < Wal[t].commit /\ Wal[t].commit < Wal[t].end
      /\ \A t, u \in Txns : t < u => Wal[t].end <= Wal[u].commit
  BY WalAssumption, Zenon DEF WalAssumption
<1>6. /\ HeaderLen \in Nat /\ MaxTries \in Nat /\ Events \subseteq Nat
      /\ NoEvent \notin Events /\ ~SnapshotBound
  BY WalAssumption, NumberingAssumption, EngineAssumption
     DEF WalAssumption, NumberingAssumption, EngineAssumption
<1> QED
  BY <1>2, <1>3, <1>4, <1>5, <1>6

(* Each event has one transaction, and the later one the higher number.    *)
LEMMA TxnOfRow ==
  /\ \A t \in Txns : \A k \in DOMAIN Rows(t) : TxnOf[Rows(t)[k].ev] = t
  /\ \A e \in Events :
       TxnOf[e] \in Txns /\ \E k \in DOMAIN Rows(TxnOf[e]) : Rows(TxnOf[e])[k].ev = e
<1>1. \A e \in Events :
        /\ TxnOf[e] \in Txns
        /\ \E k \in DOMAIN Rows(TxnOf[e]) : Rows(TxnOf[e])[k].ev = e
  BY NumberingAssumption DEF NumberingAssumption, TxnOf
<1>2. ASSUME NEW t \in Txns, NEW k \in DOMAIN Rows(t)
      PROVE  TxnOf[Rows(t)[k].ev] = t
  <2>1. Rows(t)[k].ev \in Events
    BY WalFacts
  <2>2. PICK u \in Txns : u = TxnOf[Rows(t)[k].ev]
    BY <1>1, <2>1
  <2>3. PICK j \in DOMAIN Rows(u) : Rows(u)[j].ev = Rows(t)[k].ev
    BY <1>1, <2>1, <2>2
  <2>4. ~(u < t) /\ ~(t < u)
    <3>1. Rows(t)[k].ev \in Nat
      BY <2>1, WalFacts
    <3>2. ~(Rows(t)[k].ev < Rows(t)[k].ev)
      BY <3>1
    <3>3. QED
      BY <2>3, <3>2, NumberingAssumption, Zenon DEF NumberingAssumption
  <2>5. QED
    BY <2>2, <2>4, WalFacts
<1> QED
  BY <1>1, <1>2

LEMMA EventOrder ==
  ASSUME NEW d \in Events, NEW e \in Events, TxnOf[d] < TxnOf[e]
  PROVE  d < e
  BY TxnOfRow, NumberingAssumption DEF NumberingAssumption

LEMMA RowOrder ==
  ASSUME NEW t \in Txns, NEW j \in DOMAIN Rows(t), NEW k \in DOMAIN Rows(t)
  PROVE  Rows(t)[j].ev < Rows(t)[k].ev <=> j < k
<1>1. Rows(t)[j].ev \in Nat /\ Rows(t)[k].ev \in Nat /\ j \in Nat /\ k \in Nat
  <2>1. j \in 1..Len(Rows(t)) /\ k \in 1..Len(Rows(t)) /\ Len(Rows(t)) \in Nat
        /\ Rows(t)[j].ev \in Events /\ Rows(t)[k].ev \in Events
        /\ Events \subseteq Nat
    BY WalFacts, Zenon
  <2>2. Rows(t)[j].ev \in Nat /\ Rows(t)[k].ev \in Nat
    BY <2>1, Zenon
  <2>3. j \in Nat /\ k \in Nat
    BY <2>1
  <2>4. QED
    BY <2>2, <2>3
<1>2. /\ j < k => Rows(t)[j].ev < Rows(t)[k].ev
      /\ k < j => Rows(t)[k].ev < Rows(t)[j].ev
  BY NumberingAssumption DEF NumberingAssumption
<1> QED
  BY <1>1, <1>2

(* Counting the members of a set that holds, with a transaction, all those *)
(* before it, finds the last of them.                                      *)
LEMMA PrefixCount ==
  ASSUME NEW n \in Nat, NEW S, S \subseteq 1..n,
         \A t \in S : \A u \in 1..n : u < t => u \in S
  PROVE  Cardinality(S) \in 0..n /\ S = 1..Cardinality(S)
<1>1. IsFiniteSet(1..n) /\ Cardinality(1..n) = n
  BY FS_Interval
<1>2. IsFiniteSet(S) /\ Cardinality(S) \in Nat /\ Cardinality(S) <= n
  BY <1>1, Fewer
<1>3. PICK k \in Nat : k = Cardinality(S)
  BY <1>2
<1>4. ASSUME NEW t \in S PROVE t \in 1..k
  <2>1. t \in Nat /\ t >= 1 /\ 1..t \subseteq S
    <3>1. t \in 1..n
      OBVIOUS
    <3>2. ASSUME NEW u \in 1..t PROVE u \in S
      <4>1. u \in 1..n /\ (u < t \/ u = t)
        BY <3>1
      <4>2. QED
        BY <4>1
    <3>3. QED
      BY <3>1, <3>2
  <2>2. Cardinality(1..t) <= k
    BY <1>2, <1>3, <2>1, Fewer
  <2>3. Cardinality(1..t) = t
    BY <2>1, FS_Interval
  <2>4. QED
    BY <2>1, <2>2, <2>3
<1>5. S = 1..k
  <2>1. IsFiniteSet(1..k) /\ Cardinality(1..k) = k
    BY FS_Interval
  <2>2. S \in SUBSET (1..k)
    BY <1>4
  <2>3. QED
    BY <1>2, <1>3, <2>1, <2>2, FS_Subset
<1> QED
  BY <1>2, <1>3, <1>5

-----------------------------------------------------------------------------
(* The steps that leave the source alone.                                  *)
Alone == (OwnStep \/ DialsCollected) /\ UNCHANGED sourceVars

(* A step is one piece of code: the case split of the proofs below.        *)
LEMMA StepCases ==
  ASSUME [Next]_vars
  PROVE  \/ Alone
         \/ DBConnect \/ ReplicationStarted \/ SlotActive \/ DBConnectFailed
         \/ Close \/ RetryAfterBackoff \/ ProcessDies
         \/ CaptureEvents \/ CaptureRefused \/ StreamClosed \/ HandOver
         \/ AckAssigns \/ AckDone \/ AckRefused
         \/ ReceiveBegin \/ ReceiveRelation \/ RelationNotSaved \/ ReceiveRow
         \/ ReceiveCommit
         \/ ReceiveKeepalive \/ ReceiveTimeout \/ ReceiveError \/ Reply
         \/ AppCommit \/ ReleaseSlot \/ WireCut
         \/ UNCHANGED vars
<1>1. CASE Main
  BY <1>1, Zenon DEF Main, Alone, OwnStep
<1>2. CASE Capture
  BY <1>2, Zenon DEF Capture, ReceiveChange
<1>3. CASE \E p \in Producers : DialReturns(p) \/ PublishReturns(p)
  BY <1>3, Zenon DEF DialReturns, PublishReturns, Alone, OwnStep
<1>4. CASE Cancel /\ UNCHANGED sourceVars
  BY <1>4, Zenon DEF Alone, OwnStep
<1> QED
  BY <1>1, <1>2, <1>3, <1>4, Zenon DEF Next, Terminated

(* To the engine, every step is one of its own.                            *)
LEMMA EngineSteps ==
  ASSUME TypeOK, CaptureInv, [Next]_vars
  PROVE  EngineStep
<1>1. CASE Alone
  BY <1>1, OwnStepIsStep DEF Alone, EngineStep
<1>2. ASSUME UNCHANGED engineVars PROVE EngineStep
  BY <1>2 DEF engineVars, calmVars, MayFail, EngineStep
<1>3. CASE SlotActive \/ DBConnectFailed
  BY <1>2, <1>3, FailsMayFail DEF SlotActive, DBConnectFailed, MayFail, EngineStep
<1>4. CASE ReplicationStarted \/ Close \/ RetryAfterBackoff \/ ProcessDies
           \/ AckDone
  BY <1>4 DEF ReplicationStarted, Close, RetryAfterBackoff, ProcessDies,
     AckDone, EngineStep
<1>5. CASE CaptureEvents
  BY <1>5, StartedBegins DEF CaptureEvents, EngineStep
<1>6. CASE CaptureRefused \/ StreamClosed \/ AckRefused
  BY <1>6 DEF CaptureRefused, CaptureFailed, StreamClosed, ChannelClosed,
     AckRefused, AckFailed, RunEndsBadly, MayFail, EngineStep
<1>7. CASE HandOver
  <2>1. capEv \in Events
    BY <1>7 DEF HandOver, CaptureInv, TypeOK
  <2>2. QED
    BY <1>7, <2>1 DEF HandOver, EngineStep
<1>8. CASE RelationNotSaved \/ WireCut
  BY <1>8 DEF RelationNotSaved, WireCut, calmVars, MayFail, EngineStep
<1>9. CASE DBConnect \/ AckAssigns \/ ReceiveBegin \/ ReceiveRelation
           \/ ReceiveRow \/ ReceiveCommit \/ ReceiveKeepalive
           \/ ReceiveTimeout \/ ReceiveError \/ Reply \/ AppCommit
           \/ ReleaseSlot \/ UNCHANGED vars
  BY <1>2, <1>9 DEF DBConnect, AckAssigns, ReceiveBegin, ReceiveRelation,
     ReceiveRow, ReceiveCommit, ReceiveKeepalive, ReceiveTimeout,
     ReceiveError, Reply, AppCommit, ReleaseSlot, vars
<1> QED
  BY <1>1, <1>3, <1>4, <1>5, <1>6, <1>7, <1>8, <1>9, StepCases, Zenon

LEMMA EngineInvs ==
  ASSUME TypeInv, CaptureInv, [Next]_vars
  PROVE  EngineTypeOK' /\ InHand' /\ StreamOnly'
<1>1. EngineTypeOK /\ InHand /\ StreamOnly /\ ~SnapshotBound
  BY WalAssumption DEF TypeInv, TypeOK, WalAssumption
<1> QED
  BY <1>1, EngineSteps, TypeStep, InHandStep, StreamOnlyStep DEF TypeInv

-----------------------------------------------------------------------------
(* Types.  The Boolean variables are apart from the others.                *)
SourceFlags ==
  slotBusy \in BOOLEAN /\ relSent \in BOOLEAN /\ assigned \in BOOLEAN

SourceTypes ==
  /\ committed \in 0..Len(Wal) /\ born \in 0..committed
  /\ slot \in Nat /\ clientLSN \in Nat /\ pendingLSN \in Nat
  /\ wire \in {"down", "idle", "streaming", "cut"}
  /\ tries \in 0..MaxTries
  /\ next \in 1..(Len(Wal) + 1)
  /\ step \in 0..(IF next \in Txns THEN Len(Rows(next)) + 1 ELSE 0)
  /\ cap \in {"none", "recv", "send", "reply", "done"}
  /\ capEv \in Events \cup {NoEvent}

LEMMA SourceFlagsStep ==
  ASSUME SourceFlags, [Next]_vars
  PROVE  SourceFlags'
<1> USE DEF SourceFlags
<1>1. CASE Alone \/ CaptureRefused \/ StreamClosed \/ RetryAfterBackoff
           \/ UNCHANGED vars
  BY <1>1, Zenon DEF Alone, CaptureRefused, StreamClosed, RetryAfterBackoff,
     vars, sourceVars, serverVars, streamVars
<1>2. CASE DBConnect \/ ReplicationStarted \/ SlotActive \/ DBConnectFailed
           \/ Close \/ ProcessDies \/ CaptureEvents
  BY <1>2, Zenon DEF DBConnect, ReplicationStarted, SlotActive,
     DBConnectFailed, Close, ProcessDies, CaptureEvents, serverVars, streamVars
<1>3. CASE HandOver \/ AckAssigns \/ AckDone \/ AckRefused \/ AppCommit
           \/ ReleaseSlot \/ WireCut
  BY <1>3, Zenon DEF HandOver, AckAssigns, AckDone, AckRefused, AppCommit,
     ReleaseSlot, WireCut, serverVars, streamVars
<1>4. CASE ReceiveBegin \/ ReceiveRelation \/ RelationNotSaved \/ ReceiveRow
           \/ ReceiveCommit
  BY <1>4, Zenon DEF ReceiveBegin, ReceiveRelation, RelationNotSaved,
     ReceiveRow, ReceiveCommit, serverVars, streamVars
<1>5. CASE ReceiveKeepalive \/ ReceiveTimeout \/ ReceiveError \/ Reply
  BY <1>5, Zenon DEF ReceiveKeepalive, ReceiveTimeout, ReceiveError, Reply,
     serverVars, streamVars
<1> QED
  BY <1>1, <1>2, <1>3, <1>4, <1>5, StepCases, Zenon

LEMMA Commits ==
  /\ \A t \in Txns : Wal[t].commit \in Nat /\ Wal[t].end \in Nat \ {0}
  /\ \A t, u \in Txns : t <= u <=> Wal[t].commit <= Wal[u].commit
<1>1. ASSUME NEW t \in Txns
      PROVE  /\ Wal[t].commit \in Nat /\ Wal[t].end \in Nat \ {0}
             /\ Wal[t].commit < Wal[t].end /\ t \in Nat
  BY WalFacts
<1>2. ASSUME NEW t \in Txns, NEW u \in Txns, t < u
      PROVE  Wal[t].commit < Wal[u].commit
  <2>1. Wal[t].end <= Wal[u].commit
    BY <1>2, WalFacts
  <2>2. QED
    BY <1>1, <2>1
<1> QED
  BY <1>1, <1>2

(* Where the log stands: positions that keepalives tell.                   *)
LEMMA LogEnds ==
  ASSUME NEW t \in 1..(Len(Wal) + 1)
  PROVE  /\ EndBefore(t) \in Nat \ {0} /\ CommitOf(t) \in Nat
         /\ EndBefore(t) <= CommitOf(t)
         /\ \A u \in Txns : t <= u => CommitOf(t) <= Wal[u].commit
         /\ \A u \in Txns : Wal[u].commit < CommitOf(t) => u < t
<1>1. CASE t \in Txns
  <2>1. CASE t = 1
    <3>1. EndBefore(t) = 1 /\ CommitOf(t) = Wal[t].commit
      BY <1>1, <2>1 DEF EndBefore, CommitOf
    <3>2. Wal[t].commit \in Nat /\ 1 <= Wal[t].commit /\ t \in Nat
      BY <1>1, WalFacts
    <3>3. \A u \in Txns : u \in Nat
      BY WalFacts
    <3>4. QED
      BY <1>1, <3>1, <3>2, <3>3, Commits
  <2>2. CASE t # 1
    <3>1. t - 1 \in Txns
      BY <1>1, <2>2, WalFacts
    <3>2. EndBefore(t) = Wal[t - 1].end /\ CommitOf(t) = Wal[t].commit
      BY <1>1, <2>2 DEF EndBefore, CommitOf
    <3>3. Wal[t - 1].end <= Wal[t].commit
      BY <1>1, <3>1, WalFacts
    <3>4. Wal[t - 1].end \in Nat \ {0}
      BY <3>1, Commits
    <3>5. \A u \in Txns : u \in Nat
      BY WalFacts
    <3>6. QED
      BY <1>1, <3>2, <3>3, <3>4, <3>5, Commits
  <2>3. QED
    BY <2>1, <2>2
<1>2. CASE t \notin Txns
  <2>1. t = Len(Wal) + 1 /\ \A u \in Txns : u < t
    BY <1>2, WalFacts
  <2>2. CASE t = 1
    BY <1>2, <2>1, <2>2, WalFacts DEF EndBefore, CommitOf
  <2>3. CASE t # 1
    <3>1. t - 1 \in Txns
      BY <2>1, <2>3, WalFacts
    <3>2. EndBefore(t) = Wal[t - 1].end /\ CommitOf(t) = Wal[t - 1].end
      BY <1>2, <2>3 DEF EndBefore, CommitOf
    <3>3. QED
      BY <2>1, <3>1, <3>2, WalFacts
  <2>4. QED
    BY <2>2, <2>3
<1> QED
  BY <1>1, <1>2

(* Where the walsender resumes.                                            *)
LEMMA Resumes ==
  ASSUME SourceTypes, ReplicationStarted
  PROVE  /\ next' \in 1..(Len(Wal) + 1)
         /\ \A t \in Txns : t < next' <=> t <= born \/ Wal[t].commit < slot
<1> DEFINE S == {t \in Txns : t <= born \/ Wal[t].commit < slot}
<1>1. \A t \in S : \A u \in 1..Len(Wal) : u < t => u \in S
  <2>1. born \in Nat /\ slot \in Nat /\ Txns = 1..Len(Wal) /\ Len(Wal) \in Nat
    BY WalFacts DEF SourceTypes
  <2>2. ASSUME NEW t \in S, NEW u \in Txns, u < t PROVE u \in S
    <3>1. Wal[u].commit \in Nat /\ Wal[t].commit \in Nat /\ Wal[u].commit <= Wal[t].commit
      BY <2>1, <2>2, Commits
    <3>2. QED
      BY <2>1, <2>2, <3>1
  <2>3. QED
    BY <2>1, <2>2
<1>2. Cardinality(S) \in 0..Len(Wal) /\ S = 1..Cardinality(S)
  BY <1>1, WalFacts, PrefixCount
<1>3. next' = 1 + Cardinality(S)
  BY DEF ReplicationStarted
<1> HIDE DEF S
<1>4. PICK k \in Nat : k = Cardinality(S)
  BY <1>2
<1>5. \A t \in Txns : t < 1 + k <=> t \in S
  BY <1>2, <1>4, WalFacts
<1> QED
  BY <1>2, <1>3, <1>4, <1>5 DEF S

LEMMA SourceStep ==
  ASSUME TypeInv, WireInv, [Next]_vars
  PROVE  SourceTypes'
<1> DEFINE Last(t) == IF t \in Txns THEN Len(Rows(t)) + 1 ELSE 0
<1>0. SourceTypes
  BY DEF TypeInv, TypeOK, SourceTypes
<1>1. /\ Len(Wal) \in Nat /\ HeaderLen \in Nat /\ MaxTries \in Nat \ {0}
      /\ committed \in 0..Len(Wal) /\ next \in 1..(Len(Wal) + 1)
      /\ step \in 0..Last(next)
      /\ \A t : Last(t) \in Nat /\ 0 \in 0..Last(t)
      /\ Txns = 1..Len(Wal)
  <2>1. \A t \in Txns : Len(Rows(t)) \in Nat
    BY WalFacts
  <2>2. \A t : Last(t) \in Nat
    BY <2>1
  <2>3. QED
    BY <1>0, <2>2, WalFacts, WalAssumption DEF SourceTypes, WalAssumption
<1> HIDE DEF Last
<1>2. SourceTypes' <=>
        /\ (committed \in 0..Len(Wal) /\ born \in 0..committed)'
        /\ (slot \in Nat /\ clientLSN \in Nat /\ pendingLSN \in Nat)'
        /\ (wire \in {"down", "idle", "streaming", "cut"})'
        /\ (tries \in 0..MaxTries /\ next \in 1..(Len(Wal) + 1))'
        /\ step' \in 0..Last(next')
        /\ (cap \in {"none", "recv", "send", "reply", "done"})'
        /\ (capEv \in Events \cup {NoEvent})'
  BY DEF SourceTypes, Last
<1>3. /\ committed \in 0..Len(Wal) /\ born \in 0..committed
      /\ slot \in Nat /\ clientLSN \in Nat /\ pendingLSN \in Nat
      /\ wire \in {"down", "idle", "streaming", "cut"}
      /\ tries \in 0..MaxTries /\ next \in 1..(Len(Wal) + 1)
      /\ cap \in {"none", "recv", "send", "reply", "done"}
      /\ capEv \in Events \cup {NoEvent}
  BY <1>0 DEF SourceTypes
<1> USE <1>1, <1>2, <1>3 DEF serverVars, connVars, streamVars, capVars, lsnVars
<1>4. CASE UNCHANGED sourceVars
  BY <1>4 DEF sourceVars
<1>5. CASE DBConnect
  <2>1. EndBefore(committed + 1) \in Nat
    BY LogEnds
  <2>2. QED
    BY <1>5, <2>1 DEF DBConnect
<1>6. CASE ReplicationStarted
  BY <1>0, <1>6, Resumes DEF ReplicationStarted
<1>7. CASE SlotActive
  <2>1. tries < MaxTries
    BY <1>7 DEF SlotActive, WireInv
  <2>2. tries + 1 \in 0..MaxTries
    BY <2>1
  <2>3. QED
    BY <1>7, <2>2 DEF SlotActive
<1>8. CASE DBConnectFailed \/ Close \/ ReleaseSlot \/ WireCut
  BY <1>8 DEF DBConnectFailed, Close, ReleaseSlot, WireCut
<1>9. CASE ProcessDies
  BY <1>9 DEF ProcessDies
<1>10. CASE CaptureEvents \/ ReceiveTimeout \/ Reply \/ AckDone
  <2>1. SendStatus => slot' \in Nat
    BY DEF SendStatus, Larger
  <2>2. QED
    BY <1>10, <2>1 DEF CaptureEvents, ReceiveTimeout, Reply, AckDone
<1>11. CASE HandOver \/ ReceiveError \/ AckAssigns \/ AckRefused
  BY <1>11 DEF HandOver, ReceiveError, AckAssigns, AckRefused
<1>12. CASE ReceiveRelation \/ RelationNotSaved
  BY <1>12 DEF ReceiveRelation, RelationNotSaved
<1>13. CASE ReceiveBegin
  <2>1. next \in Txns /\ Wal[next].first \in Nat /\ Len(Rows(next)) \in Nat
    BY <1>13, WalFacts DEF ReceiveBegin, Reading
  <2>2. 1 \in 0..Last(next)
    BY <2>1 DEF Last
  <2>3. QED
    BY <1>13, <2>1, <2>2 DEF ReceiveBegin
<1>14. CASE ReceiveCommit
  <2>1. next \in Txns /\ next + 1 \in 1..(Len(Wal) + 1) /\ Wal[next].end \in Nat
    BY <1>14, WalFacts DEF ReceiveCommit, Reading
  <2>2. QED
    BY <1>14, <2>1 DEF ReceiveCommit
<1>15. CASE ReceiveRow
  <2>1. next \in Txns /\ step \in DOMAIN Rows(next)
    BY <1>15, WalFacts DEF ReceiveRow, AtRow, Reading
  <2>2. /\ Rows(next)[step].ev \in Events
        /\ Rows(next)[step].at \in Nat /\ Rows(next)[step].len \in Nat
        /\ step \in 1..Len(Rows(next)) /\ Len(Rows(next)) \in Nat
    BY <2>1, WalFacts
  <2>3. step + 1 \in 0..Last(next)
    BY <2>1, <2>2 DEF Last
  <2>4. cap' \in {"reply", "send"} /\ capEv' \in {capEv, Rows(next)[step].ev}
    BY <1>15 DEF ReceiveRow
  <2>5. pendingLSN' \in Nat
    BY <1>15, <2>2 DEF ReceiveRow
  <2>6. QED
    BY <1>15, <2>2, <2>3, <2>4, <2>5 DEF ReceiveRow
<1>16. CASE ReceiveKeepalive
  <2>1. ServerWALEnds \subseteq Nat
    BY LogEnds DEF ServerWALEnds
  <2>2. clientLSN' \in Nat
    BY <1>16, <2>1 DEF ReceiveKeepalive, Larger
  <2>3. QED
    BY <1>16, <2>2 DEF ReceiveKeepalive
<1>17. CASE AppCommit
  BY <1>17 DEF AppCommit
<1>18. CASE Alone \/ CaptureRefused \/ StreamClosed \/ RetryAfterBackoff
            \/ UNCHANGED vars
  BY <1>4, <1>18, Zenon DEF Alone, CaptureRefused, StreamClosed,
     RetryAfterBackoff, vars
<1> HIDE <1>1, <1>2, <1>3
         DEF serverVars, connVars, streamVars, capVars, lsnVars
<1> QED
  BY <1>5, <1>6, <1>7, <1>8, <1>9, <1>10, <1>11, <1>12, <1>13, <1>14,
     <1>15, <1>16, <1>17, <1>18, StepCases, Zenon

-----------------------------------------------------------------------------
(* How the phases of a run follow each other, and which code moves what.   *)
LEMMA PhaseStep ==
  ASSUME TypeInv, [Next]_vars
  PROVE  /\ Streaming' =>
              CaptureEvents \/ (Streaming /\ (cur' = cur \/ HandOver \/ AckDone))
         /\ Streaming /\ ~Streaming' =>
              \/ Alone /\ (Failing \/ Excused' \/ faults' = faults + 1)
              \/ StreamClosed \/ AckRefused \/ ProcessDies
         /\ phase' = "connect" =>
              phase = "connect" \/ RetryAfterBackoff \/ ProcessDies
         /\ phase' \in {"dialing", "capture"} =>
              phase \in {"dialing", "capture"} \/ ReplicationStarted
         /\ phase = "acking" =>
              phase' = "acking" \/ AckDone \/ AckRefused \/ ProcessDies
<1> USE DEF Streaming, Processing
<1>1. CASE Alone
  BY <1>1, OwnStream, WalFacts DEF Alone, TypeInv, TypeOK
<1>2. CASE SlotActive \/ DBConnectFailed \/ Close \/ ReplicationStarted
  BY <1>2 DEF SlotActive, DBConnectFailed, SourceConnectFailed, Close,
     SourceClosed, ReplicationStarted, SourceConnected, engineVars
<1>3. CASE RetryAfterBackoff \/ ProcessDies \/ CaptureEvents \/ CaptureRefused
  BY <1>3 DEF RetryAfterBackoff, Retry, ProcessDies, Crash, CaptureEvents,
     CaptureStarted, CaptureRefused, CaptureFailed, RunFails
<1>4. CASE StreamClosed \/ HandOver \/ AckDone \/ AckRefused
  BY <1>4 DEF StreamClosed, ChannelClosed, RunFails, HandOver, Receive,
     AckDone, Acked, AckRefused, AckFailed
<1>5. CASE UNCHANGED <<phase, cur>>
  BY <1>5
<1>6. CASE DBConnect \/ AckAssigns \/ ReceiveBegin \/ ReceiveRelation
           \/ ReceiveRow \/ ReceiveCommit \/ ReceiveKeepalive
           \/ ReceiveTimeout \/ ReceiveError \/ Reply \/ AppCommit
           \/ ReleaseSlot \/ RelationNotSaved \/ WireCut \/ UNCHANGED vars
  BY <1>5, <1>6, Zenon DEF DBConnect, AckAssigns, ReceiveBegin, ReceiveRelation,
     ReceiveRow, ReceiveCommit, ReceiveKeepalive, ReceiveTimeout,
     ReceiveError, Reply, AppCommit, ReleaseSlot, RelationNotSaved, WireCut,
     vars, engineVars
<1> HIDE DEF Streaming, Processing
<1> QED
  BY <1>1, <1>2, <1>3, <1>4, <1>6, StepCases, Zenon

(* What a receive of the capture goroutine does to the position of the     *)
(* stream, and that nothing else but a new connection moves it.            *)
LEMMA CaptureMoves ==
  ASSUME [Next]_vars
  PROVE  /\ \/ UNCHANGED <<cap, capEv>>
            \/ cap \in {"recv", "reply"} /\ cap' \in {"recv", "reply", "done"}
                 /\ capEv' = capEv
            \/ ReceiveRow \/ HandOver
            \/ cap' \in {"recv", "none"} /\ capEv' = NoEvent
                 /\ (CaptureEvents \/ ProcessDies)
         /\ \/ UNCHANGED <<next, step>>
            \/ ReplicationStarted
            \/ cap = "recv" /\ (ReceiveBegin \/ ReceiveRow \/ ReceiveCommit)
<1> USE DEF sourceVars, capVars, streamVars
<1>1. CASE Alone \/ CaptureRefused \/ StreamClosed \/ RetryAfterBackoff
           \/ UNCHANGED vars
  BY <1>1, Zenon DEF Alone, CaptureRefused, StreamClosed, RetryAfterBackoff, vars
<1>2. CASE DBConnect \/ ReplicationStarted \/ SlotActive \/ DBConnectFailed
           \/ Close \/ AppCommit \/ ReleaseSlot \/ WireCut
  BY <1>2, Zenon DEF DBConnect, ReplicationStarted, SlotActive,
     DBConnectFailed, Close, AppCommit, ReleaseSlot, WireCut
<1>3. CASE AckAssigns \/ AckDone \/ AckRefused \/ HandOver
  BY <1>3, Zenon DEF AckAssigns, AckDone, AckRefused, HandOver
<1>4. CASE CaptureEvents \/ ProcessDies
  BY <1>4 DEF CaptureEvents, ProcessDies
<1>5. CASE ReceiveBegin \/ ReceiveRelation \/ RelationNotSaved \/ ReceiveCommit
  BY <1>5 DEF ReceiveBegin, ReceiveRelation, RelationNotSaved, ReceiveCommit,
     AtRow, Reading
<1>6. CASE ReceiveRow
  BY <1>6 DEF ReceiveRow, AtRow, Reading
<1>7. CASE ReceiveKeepalive \/ ReceiveTimeout \/ ReceiveError \/ Reply
  BY <1>7 DEF ReceiveKeepalive, ReceiveTimeout, ReceiveError, Reply
<1> HIDE DEF sourceVars, capVars, streamVars
<1> QED
  BY <1>1, <1>2, <1>3, <1>4, <1>5, <1>6, <1>7, StepCases, Zenon

LEMMA CaptureStep ==
  ASSUME TypeInv, CaptureInv, [Next]_vars
  PROVE  CaptureInv'
<1>0. /\ next \in Nat /\ step \in Nat /\ NoEvent \notin Events
      /\ cap = "send" <=> capEv # NoEvent
      /\ phase \in {"connect", "dialing", "capture"} => cap \notin {"recv", "reply"}
  BY WalFacts DEF CaptureInv, TypeInv, TypeOK
<1>1. (cap = "send" <=> capEv # NoEvent)'
  <2>1. CASE ReceiveRow
    <3>1. /\ next \in Txns /\ step \in DOMAIN Rows(next) /\ capEv = NoEvent
          /\ \/ cap' = "reply" /\ capEv' = capEv
             \/ cap' = "send" /\ capEv' = Rows(next)[step].ev
      BY <1>0, <2>1, WalFacts DEF ReceiveRow, AtRow, Reading, TypeInv, TypeOK
    <3>2. Rows(next)[step].ev \in Events
      BY <3>1, WalFacts
    <3>3. QED
      BY <1>0, <3>1, <3>2
  <2>2. CASE HandOver
    BY <2>2 DEF HandOver
  <2>3. QED
    BY <1>0, <2>1, <2>2, CaptureMoves
<1>2. (phase \in {"connect", "dialing", "capture"} => cap \notin {"recv", "reply"})'
  <2>1. SUFFICES ASSUME phase' \in {"connect", "dialing", "capture"}
                 PROVE  cap' \notin {"recv", "reply"}
    OBVIOUS
  <2>2. CASE phase \in {"connect", "dialing", "capture"}
    <3>1. cap \notin {"recv", "reply"}
      BY <1>0, <2>2
    <3>2. ~HandOver /\ ~ReceiveRow /\ ~CaptureEvents
      BY <2>1, <2>2, <3>1 DEF HandOver, Receive, ReceiveRow, AtRow, Reading,
         CaptureEvents, CaptureStarted
    <3>3. ProcessDies => cap' = "none"
      BY DEF ProcessDies
    <3>4. QED
      BY <3>1, <3>2, <3>3, CaptureMoves
  <2>3. CASE RetryAfterBackoff
    BY <2>3 DEF RetryAfterBackoff, sourceVars, capVars
  <2>4. CASE ProcessDies
    BY <2>4 DEF ProcessDies
  <2>5. ReplicationStarted => phase = "connect"
    BY DEF ReplicationStarted, SourceConnected
  <2>6. QED
    BY <2>1, <2>2, <2>3, <2>4, <2>5, PhaseStep
<1>3. ASSUME Streaming', cap' = "send"
      PROVE  /\ next' \in Txns /\ step' - 1 \in DOMAIN Rows(next')
             /\ Rows(next')[step' - 1].ev = capEv'
  <2>1. CASE ReceiveRow
    <3>1. /\ next \in Txns /\ step \in DOMAIN Rows(next)
          /\ next' = next /\ step' = step + 1 /\ capEv' = Rows(next)[step].ev
      BY <1>0, <1>3, <2>1, WalFacts DEF ReceiveRow, AtRow, Reading, TypeInv, TypeOK
    <3>2. step' - 1 = step
      BY <1>0, <3>1
    <3>3. QED
      BY <3>1, <3>2, Zenon
  <2>2. ~ReceiveRow => Streaming /\ cap = "send" /\ UNCHANGED <<next, step, capEv>>
    <3>1. ~ReceiveRow => UNCHANGED <<cap, capEv>>
      BY <1>3, CaptureMoves DEF HandOver
    <3>2. ~CaptureEvents /\ ~ReplicationStarted
      BY <1>3 DEF CaptureEvents, ReplicationStarted, SourceConnected, Streaming,
         Processing
    <3>3. QED
      BY <1>3, <3>1, <3>2, CaptureMoves, PhaseStep
  <2>3. CASE ~ReceiveRow
    BY <2>2, <2>3, Zenon DEF CaptureInv
  <2>4. QED
    BY <2>1, <2>3
<1> QED
  BY <1>1, <1>2, <1>3, Zenon DEF CaptureInv

(* Where the LSNs come from, and who moves the log and the slot.           *)
LEMMA LsnMoves ==
  ASSUME [Next]_vars
  PROVE  /\ \/ slot' = slot
            \/ slot' = clientLSN /\ clientLSN # 0 /\ wire = "streaming"
                 /\ (AckDone \/ CaptureEvents \/ ReceiveTimeout \/ Reply)
            \/ DBConnect /\ slot = 0
         /\ \/ clientLSN' \in {clientLSN, 0}
            \/ AckAssigns /\ clientLSN' = pendingLSN
            \/ ReceiveBegin \/ ReceiveRelation \/ ReceiveCommit \/ ReceiveKeepalive
         /\ pendingLSN' \in {pendingLSN, 0} \/ ReceiveRow
         /\ committed' = committed \/ AppCommit
         /\ born' = born \/ (DBConnect /\ slot = 0)
<1> USE DEF sourceVars, serverVars, lsnVars
<1>1. CASE Alone \/ CaptureRefused \/ StreamClosed \/ RetryAfterBackoff
           \/ UNCHANGED vars
  BY <1>1, Zenon DEF Alone, CaptureRefused, StreamClosed, RetryAfterBackoff, vars
<1>2. CASE ReplicationStarted \/ SlotActive \/ DBConnectFailed \/ Close
           \/ AppCommit \/ ReleaseSlot \/ WireCut
  BY <1>2, Zenon DEF ReplicationStarted, SlotActive, DBConnectFailed, Close,
     AppCommit, ReleaseSlot, WireCut
<1>3. CASE AckAssigns \/ AckRefused \/ HandOver \/ ReceiveError
  BY <1>3, Zenon DEF AckAssigns, AckRefused, HandOver, ReceiveError
<1>4. CASE AckDone \/ CaptureEvents \/ ReceiveTimeout \/ Reply
  BY <1>4 DEF AckDone, CaptureEvents, ReceiveTimeout, Reply, SendStatus, Larger
<1>5. CASE ReceiveBegin \/ ReceiveRelation \/ RelationNotSaved \/ ReceiveCommit
  BY <1>5, Zenon DEF ReceiveBegin, ReceiveRelation, RelationNotSaved, ReceiveCommit
<1>6. CASE ReceiveRow \/ ReceiveKeepalive
  BY <1>6, Zenon DEF ReceiveRow, ReceiveKeepalive
<1>7. CASE ProcessDies \/ DBConnect
  BY <1>7, Zenon DEF ProcessDies, DBConnect
<1> HIDE DEF sourceVars, serverVars, lsnVars
<1> QED
  BY <1>1, <1>2, <1>3, <1>4, <1>5, <1>6, <1>7, StepCases, Zenon

LEMMA WireStep ==
  ASSUME TypeInv, WireInv, [Next]_vars
  PROVE  WireInv'
<1>0. /\ slot \in Nat /\ committed \in 0..Len(Wal) /\ Len(Wal) \in Nat
      /\ MaxTries \in Nat \ {0} /\ tries \in Nat
      /\ wire # "down" => slot # 0
      /\ wire = "idle" => tries < MaxTries
  BY WalFacts, WalAssumption DEF WalAssumption, WireInv, TypeInv, TypeOK
<1>1. slot # 0 => slot' # 0
  BY LsnMoves
<1> USE DEF connVars
<1>2. CASE UNCHANGED connVars
  BY <1>0, <1>1, <1>2 DEF WireInv
<1>3. CASE DBConnect
  <2>1. EndBefore(committed + 1) # 0
    BY <1>0, LogEnds
  <2>2. QED
    BY <1>0, <1>3, <2>1 DEF DBConnect, WireInv
<1>4. CASE ReplicationStarted
  BY <1>0, <1>4 DEF ReplicationStarted, WireInv
<1>5. CASE SlotActive
  <2>1. slot' = slot /\ wire = "idle" /\ tries' = tries + 1
    BY <1>5 DEF SlotActive, serverVars
  <2>2. (tries + 1 < MaxTries /\ wire' = wire) \/ wire' = "down"
    BY <1>5, <2>1, Zenon DEF SlotActive
  <2>3. QED
    BY <1>0, <2>1, <2>2 DEF WireInv
<1>6. CASE DBConnectFailed \/ Close \/ ProcessDies \/ WireCut
  BY <1>0, <1>1, <1>6 DEF DBConnectFailed, Close, ProcessDies, WireCut, WireInv
<1>7. \/ DBConnect \/ ReplicationStarted \/ SlotActive \/ DBConnectFailed
      \/ Close \/ ProcessDies \/ WireCut \/ UNCHANGED connVars
  BY StepCases, Zenon DEF Alone, RetryAfterBackoff, CaptureEvents,
     CaptureRefused, StreamClosed, HandOver, AckAssigns, AckDone, AckRefused,
     ReceiveBegin, ReceiveRelation, RelationNotSaved, ReceiveRow,
     ReceiveCommit, ReceiveKeepalive, ReceiveTimeout, ReceiveError, Reply,
     AppCommit, ReleaseSlot, vars, sourceVars
<1> HIDE DEF connVars
<1> QED
  BY <1>2, <1>3, <1>4, <1>5, <1>6, <1>7, Zenon

(* Type correctness: no state of the relay, its walsender or its capture   *)
(* goroutine is one the code has no name for: the walsender is in a        *)
(* transaction of the log and within it, an attempt to start replication   *)
(* is at most the last, and a position is a number.                        *)
THEOREM TypeInvariant == Spec => [](TypeInv /\ CaptureInv /\ WireInv)
<1>1. Init => TypeInv /\ CaptureInv /\ WireInv
  <2> SUFFICES ASSUME Init PROVE TypeInv /\ CaptureInv /\ WireInv
    OBVIOUS
  <2>1. EngineTypeOK /\ InHand /\ StreamOnly
    BY EngineStarts DEF Init
  <2>2. SourceTypes
    <3>1. /\ Len(Wal) \in Nat /\ MaxTries \in Nat /\ Txns = 1..Len(Wal)
          /\ \A t \in Txns : Len(Rows(t)) \in Nat
      BY WalFacts
    <3>2. 0 \in 0..(IF 1 \in Txns THEN Len(Rows(1)) + 1 ELSE 0)
      BY <3>1
    <3>3. QED
      BY <3>1, <3>2 DEF Init, SourceTypes
  <2>3. SourceFlags
    BY DEF Init, SourceFlags
  <2>4. CaptureInv /\ WireInv
    BY DEF Init, EngineInit, CaptureInv, WireInv, Streaming, Processing
  <2>5. QED
    BY <2>1, <2>2, <2>3, <2>4, Zenon DEF TypeInv, TypeOK, SourceTypes, SourceFlags
<1>2. TypeInv /\ CaptureInv /\ WireInv /\ [Next]_vars
        => (TypeInv /\ CaptureInv /\ WireInv)'
  <2> SUFFICES ASSUME TypeInv, CaptureInv, WireInv, [Next]_vars
               PROVE  TypeInv' /\ CaptureInv' /\ WireInv'
    OBVIOUS
  <2>1. SourceFlags
    BY Zenon DEF TypeInv, TypeOK, SourceFlags
  <2>2. SourceTypes' /\ SourceFlags' /\ EngineTypeOK' /\ InHand' /\ StreamOnly'
    BY <2>1, SourceStep, SourceFlagsStep, EngineInvs
  <2>3. TypeInv'
    BY <2>2, Zenon DEF TypeInv, TypeOK, SourceTypes, SourceFlags
  <2>4. QED
    BY <2>3, CaptureStep, WireStep
<1> QED
  BY <1>1, <1>2, PTL DEF Spec

(* The same, of the invariant that the runs check.                         *)
THEOREM TypeCorrect == Spec => []TypeOK
<1>1. TypeInv => TypeOK
  BY DEF TypeInv
<1> QED
  BY <1>1, TypeInvariant, PTL

-----------------------------------------------------------------------------
(* The LSNs.  Where messages fit, what a message makes of them lies before *)
(* every commit record that the walsender has not passed.                  *)
LEMMA Received ==
  ASSUME MessagesFit, TypeInv, [Next]_vars, NEW t \in Txns
  PROVE  /\ Wal[t].commit < clientLSN' =>
              \/ Wal[t].commit < clientLSN \/ Wal[t].commit < pendingLSN
              \/ cap = "recv" /\ t < next'
         /\ Wal[t].commit < pendingLSN' =>
              Wal[t].commit < pendingLSN \/ (cap = "recv" /\ t < next')
         /\ ReceiveRow /\ Wal[t].commit < pendingLSN' => t < next'
<1>0. /\ t \in Nat /\ Wal[t].commit \in Nat /\ clientLSN \in Nat
      /\ next \in 1..(Len(Wal) + 1) /\ Txns = 1..Len(Wal) /\ Len(Wal) \in Nat
      /\ committed \in 0..Len(Wal)
  BY WalFacts, Commits DEF TypeInv, TypeOK
<1>1. ASSUME NEW u \in Txns, NEW x \in Nat, x <= Wal[u].commit, Wal[t].commit < x
      PROVE  t < u
  <2>1. u \in Nat /\ Wal[u].commit \in Nat /\ (u <= t => Wal[u].commit <= Wal[t].commit)
    BY Commits, WalFacts
  <2>2. QED
    BY <1>0, <1>1, <2>1
<1>2. Wal[t].commit < clientLSN' =>
        \/ Wal[t].commit < clientLSN \/ Wal[t].commit < pendingLSN
        \/ cap = "recv" /\ t < next'
  <2>1. CASE clientLSN' \in {clientLSN, 0} \/ clientLSN' = pendingLSN
    BY <1>0, <2>1
  <2>2. CASE ReceiveBegin
    <3>1. /\ cap = "recv" /\ next \in Txns /\ next' = next
          /\ clientLSN' = Wal[next].first + HeaderLen
      BY <1>0, <2>2 DEF ReceiveBegin, Reading
    <3>2. /\ Wal[next].first + HeaderLen \in Nat
          /\ Wal[next].first + HeaderLen <= Wal[next].commit
      BY <3>1, WalFacts DEF MessagesFit
    <3>3. QED
      BY <1>1, <3>1, <3>2
  <2>3. CASE ReceiveRelation
    <3>1. clientLSN' = HeaderLen /\ HeaderLen \in Nat
      BY <2>3, WalFacts DEF ReceiveRelation
    <3>2. /\ Wal[t].first \in Nat /\ Wal[t].first + HeaderLen <= Wal[t].commit
      BY WalFacts DEF MessagesFit
    <3>3. QED
      BY <1>0, <3>1, <3>2
  <2>4. CASE ReceiveCommit
    <3>1. /\ cap = "recv" /\ next \in Txns /\ next' = next + 1
          /\ clientLSN' = Wal[next].end + HeaderLen
      BY <1>0, <2>4 DEF ReceiveCommit, Reading
    <3>2. Wal[next].end + HeaderLen \in Nat
      BY <3>1, WalFacts
    <3>3. next < t => ~(Wal[t].commit < Wal[next].end + HeaderLen)
      <4>1. next < t => Wal[next].end + HeaderLen <= Wal[t].commit
        BY <3>1 DEF MessagesFit
      <4>2. QED
        BY <1>0, <3>2, <4>1
    <3>4. QED
      BY <1>0, <3>1, <3>3
  <2>5. CASE ReceiveKeepalive
    <3>1. /\ cap = "recv" /\ next' = next
          /\ \E end \in {EndBefore(next), CommitOf(next)} :
               clientLSN' = Larger(clientLSN, end)
      BY <2>5 DEF ReceiveKeepalive, ServerWALEnds, streamVars
    <3>2. ASSUME NEW end \in {EndBefore(next), CommitOf(next)}, Wal[t].commit < end
          PROVE  t < next
      <4>1. /\ EndBefore(next) \in Nat /\ CommitOf(next) \in Nat
            /\ EndBefore(next) <= CommitOf(next)
            /\ Wal[t].commit < CommitOf(next) => t < next
        BY <1>0, LogEnds
      <4>2. QED
        BY <1>0, <3>2, <4>1
    <3>3. QED
      BY <3>1, <3>2 DEF Larger
  <2>6. QED
    BY <2>1, <2>2, <2>3, <2>4, <2>5, LsnMoves
<1>3. /\ Wal[t].commit < pendingLSN' =>
           Wal[t].commit < pendingLSN \/ (cap = "recv" /\ t < next')
      /\ ReceiveRow /\ Wal[t].commit < pendingLSN' => t < next'
  <2>1. CASE pendingLSN' \in {pendingLSN, 0} /\ ~ReceiveRow
    BY <1>0, <2>1
  <2>2. CASE ReceiveRow
    <3>1. /\ cap = "recv" /\ next \in Txns /\ next' = next
          /\ step \in DOMAIN Rows(next)
          /\ pendingLSN' = Rows(next)[step].at + Rows(next)[step].len
      BY <1>0, <2>2 DEF ReceiveRow, AtRow, Reading
    <3>2. Rows(next)[step].at \in Nat /\ Rows(next)[step].len \in Nat
      BY <3>1, WalFacts
    <3>3. /\ Rows(next)[step].at + Rows(next)[step].len \in Nat
          /\ Rows(next)[step].at + Rows(next)[step].len <= Wal[next].commit
      BY <3>1, <3>2 DEF MessagesFit
    <3>4. QED
      BY <1>1, <3>1, <3>3
  <2>3. QED
    BY <2>1, <2>2, LsnMoves
<1> QED
  BY <1>2, <1>3

LEMMA SlotReceived ==
  ASSUME TypeInv, [Next]_vars, NEW t \in Txns, Wal[t].commit < slot'
  PROVE  \/ Wal[t].commit < slot \/ Wal[t].commit < clientLSN
         \/ slot = 0 /\ DBConnect
  BY LsnMoves

(* The walsender is within the log, and where it resumes.                  *)
LEMMA PositionStep ==
  ASSUME TypeInv, CaptureInv, LsnInv, PositionInv, [Next]_vars
  PROVE  PositionInv'
<1>0. /\ committed \in 0..Len(Wal) /\ born \in 0..committed /\ Len(Wal) \in Nat
      /\ next \in 1..(Len(Wal) + 1) /\ step \in Nat /\ slot \in Nat
      /\ Txns = 1..Len(Wal) /\ SourceTypes
      /\ next <= committed + 1 /\ (next = committed + 1 => step = 0)
  BY WalFacts DEF PositionInv, TypeInv, TypeOK, SourceTypes
<1>1. PICK n, s, c : n = next' /\ s = step' /\ c = committed'
  OBVIOUS
<1>2. n <= c + 1 /\ (n = c + 1 => s = 0)
  <2>1. CASE UNCHANGED <<next, step>>
    <3>1. c = committed \/ c = committed + 1
      BY <1>1, LsnMoves DEF AppCommit
    <3>2. QED
      BY <1>0, <1>1, <2>1, <3>1
  <2>2. CASE ReplicationStarted
    <3>1. s = 0 /\ c = committed
      BY <1>1, <2>2 DEF ReplicationStarted
    <3>2. /\ n \in 1..(Len(Wal) + 1)
          /\ \A t \in Txns : t < n => t <= born \/ Wal[t].commit < slot
      BY <1>0, <1>1, <2>2, Resumes
    <3>3. ASSUME committed + 1 < n PROVE FALSE
      <4>1. committed + 1 \in Txns /\ ~(committed + 1 <= born)
        BY <1>0, <3>2, <3>3
      <4>2. Wal[committed + 1].commit < slot
        BY <3>2, <3>3, <4>1
      <4>3. slot <= Wal[committed + 1].commit /\ Wal[committed + 1].commit \in Nat
        BY <4>1, Commits DEF LsnInv
      <4>4. QED
        BY <1>0, <4>2, <4>3
    <3>4. QED
      BY <1>0, <3>1, <3>2, <3>3
  <2>3. CASE ReceiveBegin \/ ReceiveRow \/ ReceiveCommit
    <3>1. /\ c = committed /\ next <= committed
          /\ n = next \/ (n = next + 1 /\ s = 0)
      BY <1>1, <2>3 DEF ReceiveBegin, ReceiveRow, ReceiveCommit, AtRow, Reading,
         serverVars
    <3>2. QED
      BY <1>0, <3>1
  <2>4. QED
    BY <2>1, <2>2, <2>3, CaptureMoves
<1>3. ASSUME phase' \in {"dialing", "capture"}
      PROVE  /\ step' = 0
             /\ \A t \in Txns : t < next' <=> t <= born' \/ Wal[t].commit < slot'
  <2>1. CASE ReplicationStarted
    <3>1. step' = 0 /\ born' = born /\ slot' = slot
      BY <2>1 DEF ReplicationStarted
    <3>2. QED
      BY <1>0, <2>1, <3>1, Resumes, Zenon
  <2>2. CASE ~ReplicationStarted
    <3>1. phase \in {"dialing", "capture"} /\ cap \notin {"recv", "reply"}
      BY <1>3, <2>2, PhaseStep DEF CaptureInv
    <3>2. ~DBConnect /\ ~AckDone /\ ~CaptureEvents /\ ~ReceiveTimeout /\ ~Reply
      BY <1>3, <3>1 DEF DBConnect, AckDone, Acked, CaptureEvents, CaptureStarted,
         ReceiveTimeout, Reply
    <3>3. UNCHANGED <<next, step>>
      BY <2>2, <3>1, CaptureMoves
    <3>4. slot' = slot /\ born' = born
      BY <3>2, LsnMoves
    <3>5. step = 0 /\ \A t \in Txns : t < next <=> t <= born \/ Wal[t].commit < slot
      BY <3>1 DEF PositionInv
    <3>6. QED
      BY <3>3, <3>4, <3>5, Zenon
  <2>3. QED
    BY <2>1, <2>2
<1>4. next' <= committed' + 1 /\ (next' = committed' + 1 => step' = 0)
  BY <1>1, <1>2, Zenon
<1> QED
  BY <1>3, <1>4, Zenon DEF PositionInv

(* Ahead of the log there is nothing.                                      *)
LEMMA LsnStep ==
  ASSUME MessagesFit, TypeInv, WireInv, CaptureInv, LsnInv, PositionInv, [Next]_vars
  PROVE  LsnInv'
<1>1. SUFFICES ASSUME committed' + 1 \in Txns,
                      NEW x \in {slot', clientLSN', pendingLSN'}
               PROVE  x <= Wal[committed' + 1].commit
  BY DEF LsnInv
<1>2. PICK c, n : c = committed' /\ n = next'
  OBVIOUS
<1>3. PICK t \in Txns : t = c + 1
  BY <1>1, <1>2, Zenon
<1>4. /\ committed \in 0..Len(Wal) /\ Len(Wal) \in Nat /\ Txns = 1..Len(Wal)
      /\ slot \in Nat /\ clientLSN \in Nat /\ pendingLSN \in Nat
  BY WalFacts DEF TypeInv, TypeOK
<1>5. Wal[t].commit \in Nat /\ x \in Nat /\ c \in Nat /\ n \in Nat
  <2>1. x \in Nat /\ committed' \in 0..Len(Wal) /\ next' \in 1..(Len(Wal) + 1)
    BY SourceStep DEF SourceTypes
  <2>2. QED
    BY <1>2, <1>4, <2>1, Commits
<1>6. n <= c + 1
  BY <1>2, PositionStep, Zenon DEF PositionInv
<1>7. committed <= c
  BY <1>2, <1>4, LsnMoves DEF AppCommit
<1>8. ~(Wal[t].commit < slot) /\ ~(Wal[t].commit < clientLSN)
      /\ ~(Wal[t].commit < pendingLSN)
  <2>1. committed + 1 \in Txns /\ committed + 1 <= t
    BY <1>3, <1>4, <1>5, <1>7
  <2>2. Wal[committed + 1].commit <= Wal[t].commit
        /\ Wal[committed + 1].commit \in Nat
    BY <2>1, Commits
  <2>3. /\ slot <= Wal[committed + 1].commit
        /\ clientLSN <= Wal[committed + 1].commit
        /\ pendingLSN <= Wal[committed + 1].commit
    BY <2>1 DEF LsnInv
  <2>4. QED
    BY <1>4, <1>5, <2>2, <2>3
<1>9. ~(t < next')
  <2>1. ~(c + 1 < n)
    BY <1>5, <1>6
  <2>2. QED
    BY <1>2, <1>3, <2>1, Zenon
<1>10. ~(Wal[t].commit < x)
  <2>1. CASE x \in {clientLSN', pendingLSN'}
    BY <1>8, <1>9, <2>1, Received
  <2>2. CASE x = slot'
    <3>1. CASE slot = 0 /\ DBConnect
      <4>1. slot' = EndBefore(t)
        BY <1>2, <1>3, <3>1 DEF DBConnect
      <4>2. t \in 1..(Len(Wal) + 1)
        BY <1>4
      <4>3. /\ EndBefore(t) \in Nat /\ CommitOf(t) \in Nat
            /\ EndBefore(t) <= CommitOf(t) /\ CommitOf(t) = Wal[t].commit
        BY <4>2, LogEnds DEF CommitOf
      <4>4. QED
        BY <2>2, <4>1, <4>3
    <3>2. QED
      BY <1>8, <2>2, <3>1, SlotReceived
  <2>3. QED
    BY <2>1, <2>2
<1>11. x <= Wal[t].commit
  BY <1>5, <1>10
<1> QED
  BY <1>2, <1>3, <1>11, Zenon

(* The LSNs are within the log, and so is the walsender.                   *)
THEOREM LogInvariant ==
  ASSUME MessagesFit
  PROVE  Spec => [](PositionInv /\ LsnInv)
<1>1. Init => PositionInv /\ LsnInv
  <2> SUFFICES ASSUME Init PROVE PositionInv /\ LsnInv
    OBVIOUS
  <2>1. committed = 0 /\ slot = 0 /\ clientLSN = 0 /\ pendingLSN = 0
        /\ next = 1 /\ step = 0 /\ phase = "connect"
    BY DEF Init, EngineInit
  <2>2. PositionInv
    BY <2>1 DEF PositionInv
  <2>3. LsnInv
    BY <2>1, Commits DEF LsnInv
  <2>4. QED
    BY <2>2, <2>3
<1>2. /\ TypeInv /\ CaptureInv /\ WireInv /\ PositionInv /\ LsnInv
      /\ [Next]_vars
      => (PositionInv /\ LsnInv)'
  BY PositionStep, LsnStep
<1> QED
  BY <1>1, <1>2, TypeInvariant, PTL DEF Spec

-----------------------------------------------------------------------------
(* The order of the stream.                                                *)
LEMMA PassedRow ==
  ASSUME NEW n \in Txns, NEW s \in DOMAIN Rows(n)
  PROVE  /\ PassedAt(n, s + 1) = PassedAt(n, s) \cup {Rows(n)[s].ev}
         /\ \A e \in PassedAt(n, s) : e < Rows(n)[s].ev
<1>1. /\ DOMAIN Rows(n) = 1..Len(Rows(n)) /\ Len(Rows(n)) \in Nat
      /\ Rows(n)[s].ev \in Events
      /\ \A k \in DOMAIN Rows(n) : Rows(n)[k].ev \in Events
  BY WalFacts
<1>2. ASSUME NEW e \in PassedAt(n, s) PROVE e < Rows(n)[s].ev
  <2>1. e \in Events
    BY DEF PassedAt
  <2>2. CASE TxnOf[e] < n
    <3>1. TxnOf[Rows(n)[s].ev] = n
      BY TxnOfRow
    <3>2. QED
      BY <1>1, <2>1, <2>2, <3>1, EventOrder
  <2>3. CASE \E k \in DOMAIN Rows(n) : k < s /\ Rows(n)[k].ev = e
    BY <2>3, RowOrder
  <2>4. QED
    BY <2>2, <2>3 DEF PassedAt
<1>3. \A k \in DOMAIN Rows(n) : k < s + 1 <=> k < s \/ k = s
  BY <1>1
<1>4. PassedAt(n, s + 1) = PassedAt(n, s) \cup {Rows(n)[s].ev}
  BY <1>1, <1>3, Zenon DEF PassedAt
<1> QED
  BY <1>2, <1>4

(* Begin and Commit messages pass no event.                                *)
LEMMA PassedNoRow ==
  ASSUME NEW n \in Txns
  PROVE  /\ PassedAt(n, 1) = PassedAt(n, 0)
         /\ PassedAt(n + 1, 0) = PassedAt(n, Len(Rows(n)) + 1)
<1>1. /\ DOMAIN Rows(n) = 1..Len(Rows(n)) /\ Len(Rows(n)) \in Nat
      /\ Txns = 1..Len(Wal) /\ Len(Wal) \in Nat
      /\ \A k \in DOMAIN Rows(n) : Rows(n)[k].ev \in Events
  BY WalFacts
<1>2. PassedAt(n, 1) = PassedAt(n, 0)
  BY <1>1 DEF PassedAt
<1>3. ASSUME NEW e \in Events
      PROVE  /\ ~(\E k \in DOMAIN Rows(n + 1) : n + 1 \in Txns /\ k < 0)
             /\ TxnOf[e] < n + 1 <=> TxnOf[e] < n \/ TxnOf[e] = n
             /\ TxnOf[e] = n <=>
                  \E k \in DOMAIN Rows(n) : k < Len(Rows(n)) + 1 /\ Rows(n)[k].ev = e
  <2>1. TxnOf[e] \in Txns
    BY TxnOfRow
  <2>2. n + 1 \in Txns => DOMAIN Rows(n + 1) = 1..Len(Rows(n + 1))
    BY WalFacts
  <2>3. TxnOf[e] = n <=> \E k \in DOMAIN Rows(n) : Rows(n)[k].ev = e
    BY TxnOfRow
  <2>4. \A k \in DOMAIN Rows(n) : k < Len(Rows(n)) + 1
    BY <1>1
  <2>5. TxnOf[e] < n + 1 <=> TxnOf[e] < n \/ TxnOf[e] = n
    BY <1>1, <2>1
  <2>6. ~(\E k \in DOMAIN Rows(n + 1) : n + 1 \in Txns /\ k < 0)
    BY <2>2
  <2>7. QED
    BY <2>3, <2>4, <2>5, <2>6
<1>4. PassedAt(n + 1, 0) = PassedAt(n, Len(Rows(n)) + 1)
  BY <1>3, Zenon DEF PassedAt
<1> QED
  BY <1>2, <1>4

(* Short of a new connection the walsender goes on, a row at a time.       *)
LEMMA PassedStep ==
  ASSUME TypeInv, CaptureInv, ~ReplicationStarted, [Next]_vars
  PROVE  /\ \A t \in Txns : t < next => t < next'
         /\ \/ Passed' = Passed /\ ~ReceiveRow
            \/ /\ ReceiveRow /\ cap = "recv" /\ capEv = NoEvent
               /\ next' = next /\ step' = step + 1
               /\ next \in Txns /\ step \in DOMAIN Rows(next)
               /\ Passed' = Passed \cup {Rows(next)[step].ev}
               /\ \A e \in Passed : e < Rows(next)[step].ev
               /\ \/ Rows(next)[step].ev \in NoId /\ capEv' = NoEvent
                       /\ cap' = "reply"
                  \/ Rows(next)[step].ev \notin NoId
                       /\ capEv' = Rows(next)[step].ev /\ cap' = "send"
<1>1. /\ next \in 1..(Len(Wal) + 1) /\ Len(Wal) \in Nat /\ Txns = 1..Len(Wal)
      /\ committed \in 0..Len(Wal)
      /\ capEv # NoEvent => cap = "send"
  BY WalFacts DEF CaptureInv, TypeInv, TypeOK
<1>2. CASE UNCHANGED <<next, step>> /\ ~ReceiveRow
  BY <1>2 DEF Passed
<1>3. CASE ReceiveBegin
  <2>1. next \in Txns /\ next' = next /\ step = 0 /\ step' = 1
    BY <1>1, <1>3 DEF ReceiveBegin, Reading
  <2>2. ~ReceiveRow
    BY <2>1, WalFacts DEF ReceiveRow, AtRow
  <2>3. QED
    BY <2>1, <2>2, PassedNoRow DEF Passed
<1>4. CASE ReceiveCommit
  <2>1. next \in Txns /\ next' = next + 1 /\ step = Len(Rows(next)) + 1
        /\ step' = 0 /\ ~ReceiveRow
    BY <1>1, <1>4 DEF ReceiveCommit, Reading, ReceiveRow
  <2>2. \A t \in Txns : t < next => t < next'
    BY <1>1, <2>1
  <2>3. Passed' = Passed
    BY <2>1, PassedNoRow DEF Passed
  <2>4. QED
    BY <2>1, <2>2, <2>3
<1>5. CASE ReceiveRow
  <2>1. /\ next \in Txns /\ step \in DOMAIN Rows(next) /\ cap = "recv"
        /\ next' = next /\ step' = step + 1
    BY <1>1, <1>5 DEF ReceiveRow, AtRow, Reading
  <2>2. \/ Rows(next)[step].ev \in NoId /\ capEv' = capEv /\ cap' = "reply"
        \/ Rows(next)[step].ev \notin NoId
             /\ capEv' = Rows(next)[step].ev /\ cap' = "send"
    BY <1>5, Zenon DEF ReceiveRow
  <2>3. /\ Passed' = Passed \cup {Rows(next)[step].ev}
        /\ \A e \in Passed : e < Rows(next)[step].ev
    BY <2>1, PassedRow DEF Passed
  <2>4. QED
    BY <1>1, <1>5, <2>1, <2>2, <2>3
<1> QED
  BY <1>2, <1>3, <1>4, <1>5, CaptureMoves

LEMMA OrderStep ==
  ASSUME TypeInv, CaptureInv, OrderInv, [Next]_vars
  PROVE  OrderInv'
<1>1. SUFFICES ASSUME Streaming', cur' # NoEvent
               PROVE  /\ cur' \in Passed'
                      /\ \A e \in Passed' : e > cur' => e \in NoId \/ e = capEv'
                      /\ capEv' # NoEvent => cur' < capEv'
  BY Zenon DEF OrderInv
<1>2. /\ Streaming /\ (cur' = cur \/ HandOver)
      /\ ~ReplicationStarted /\ ~CaptureEvents /\ ~ProcessDies
  <2>1. ~AckDone /\ ~CaptureEvents /\ ~ReplicationStarted /\ ~ProcessDies
    BY <1>1 DEF AckDone, Acked, CaptureEvents, CaptureStarted, TypeInv, StreamOnly,
       ReplicationStarted, SourceConnected, Streaming, Processing, ProcessDies,
       Crash, MemoryLost
  <2>2. QED
    BY <1>1, <2>1, PhaseStep
<1>3. CASE HandOver
  <2>1. /\ cur' = capEv /\ capEv' = NoEvent /\ cap = "send"
        /\ UNCHANGED <<next, step>>
    BY <1>3 DEF HandOver, Receive, streamVars
  <2>2. /\ next \in Txns /\ step - 1 \in DOMAIN Rows(next)
        /\ Rows(next)[step - 1].ev = capEv /\ step \in Nat
    BY <1>2, <2>1, WalFacts DEF CaptureInv, TypeInv, TypeOK
  <2>3. PICK s \in DOMAIN Rows(next) : s = step - 1 /\ s + 1 = step
    BY <2>2
  <2>4. /\ Passed = PassedAt(next, s) \cup {capEv}
        /\ \A e \in PassedAt(next, s) : e < capEv
    BY <2>2, <2>3, PassedRow DEF Passed
  <2>5. /\ capEv \in Nat
        /\ \A e \in PassedAt(next, s) : e \in Nat
    BY <1>1, <2>1, WalFacts DEF PassedAt, TypeInv, TypeOK
  <2>6. Passed' = Passed
    BY <2>1 DEF Passed
  <2>7. QED
    BY <2>1, <2>4, <2>5, <2>6
<1>4. CASE cur' = cur /\ ~HandOver
  <2>1. /\ cur \in Passed
        /\ \A e \in Passed : e > cur => e \in NoId \/ e = capEv
        /\ capEv # NoEvent => cur < capEv
    BY <1>1, <1>2, <1>4 DEF OrderInv
  <2>2. CASE ~ReceiveRow
    <3>1. Passed' = Passed /\ capEv' = capEv
      BY <1>2, <1>4, <2>2, PassedStep, CaptureMoves
    <3>2. QED
      BY <1>4, <2>1, <3>1, Zenon
  <2>3. CASE ReceiveRow
    <3>1. PICK e \in Events : e = Rows(next)[step].ev
      BY <1>2, <2>3, PassedStep, WalFacts
    <3>2. /\ Passed' = Passed \cup {e} /\ cur < e
          /\ (e \in NoId /\ capEv' = NoEvent) \/ capEv' = e
          /\ capEv = NoEvent
      BY <1>2, <2>1, <2>3, <3>1, PassedStep
    <3>3. NoEvent \notin Events /\ Passed \subseteq Events
      BY WalFacts DEF Passed, PassedAt
    <3>4. QED
      BY <1>4, <2>1, <3>2, <3>3
  <2>4. QED
    BY <2>2, <2>3
<1> QED
  BY <1>2, <1>3, <1>4

LEMMA FreshStep ==
  ASSUME MessagesFit, TypeInv, CaptureInv, FreshInv, [Next]_vars
  PROVE  FreshInv'
<1>1. ASSUME assigned' PROVE phase' = "acking" /\ Unread(clientLSN)'
  <2>1. ~AckDone /\ ~AckRefused /\ ~ProcessDies
    BY <1>1, Zenon DEF AckDone, AckRefused, ProcessDies
  <2>2. assigned \/ AckAssigns
    <3>1. UNCHANGED assigned \/ AckAssigns
      BY <2>1, StepCases, Zenon DEF Alone, DBConnect, ReplicationStarted,
         SlotActive, DBConnectFailed, Close, RetryAfterBackoff, CaptureEvents,
         CaptureRefused, StreamClosed, HandOver, ReceiveBegin, ReceiveRelation,
         RelationNotSaved, ReceiveRow, ReceiveCommit, ReceiveKeepalive,
         ReceiveTimeout, ReceiveError, Reply, AppCommit, ReleaseSlot, WireCut,
         vars, sourceVars
    <3>2. QED
      BY <1>1, <3>1, Zenon
  <2>3. phase = "acking"
    BY <2>2, Zenon DEF FreshInv, AckAssigns
  <2>4. phase' = "acking"
    BY <2>1, <2>3, PhaseStep
  <2>5. ~ReplicationStarted /\ Unread(pendingLSN)
    BY <2>3, WalFacts DEF ReplicationStarted, SourceConnected, FreshInv, TypeInv,
       InHand, Streaming, Processing
  <2>6. AckAssigns \/ Unread(clientLSN)
    BY <2>2, Zenon DEF FreshInv
  <2>7. ASSUME NEW t \in Txns, Wal[t].commit < clientLSN' PROVE t < next'
    <3>1. t < next => t < next'
      BY <2>5, PassedStep
    <3>2. CASE AckAssigns
      BY <2>5, <2>7, <3>1, <3>2 DEF AckAssigns, Unread
    <3>3. CASE Unread(clientLSN)
      BY <2>5, <2>7, <3>1, <3>3, Received DEF Unread
    <3>4. QED
      BY <2>6, <3>2, <3>3
  <2>8. QED
    BY <2>4, <2>7 DEF Unread
<1>2. ASSUME Streaming', cur' # NoEvent \/ cap' = "send"
      PROVE  Unread(pendingLSN)'
  <2>1. (~AckDone /\ ~CaptureEvents) \/ cap' = "send"
    BY <1>2 DEF AckDone, Acked, CaptureEvents, CaptureStarted, TypeInv, StreamOnly
  <2>2. ~CaptureEvents /\ ~ReplicationStarted /\ ~ProcessDies
    BY <1>2, <2>1 DEF CaptureEvents, CaptureStarted,
       ReplicationStarted, SourceConnected, Streaming, Processing, ProcessDies,
       Crash, MemoryLost
  <2>3. Streaming /\ (cur' = cur \/ HandOver \/ AckDone)
    BY <1>2, <2>2, PhaseStep
  <2>4. ReceiveRow \/ cur # NoEvent \/ cap = "send"
    <3>1. cap' = "send" => cap = "send" \/ ReceiveRow
      BY <2>2, CaptureMoves DEF HandOver
    <3>2. HandOver => cap = "send"
      BY DEF HandOver
    <3>3. AckDone => cur' = NoEvent
      BY DEF AckDone, Acked
    <3>4. QED
      BY <1>2, <2>3, <3>1, <3>2, <3>3
  <2>5. ASSUME NEW t \in Txns, Wal[t].commit < pendingLSN' PROVE t < next'
    <3>1. t < next => t < next'
      BY <2>2, PassedStep
    <3>2. CASE ReceiveRow
      BY <2>5, <3>2, Received
    <3>3. CASE Unread(pendingLSN)
      BY <2>5, <3>1, <3>3, Received DEF Unread
    <3>4. QED
      BY <2>3, <2>4, <3>2, <3>3 DEF FreshInv
  <2>6. QED
    BY <2>5 DEF Unread
<1> QED
  BY <1>1, <1>2, Zenon DEF FreshInv

-----------------------------------------------------------------------------
(* Counting what is lost.                                                  *)
LEMMA EventsFinite == IsFiniteSet(Events)
<1> DEFINE EventsOf(t) == {Rows(t)[k].ev : k \in DOMAIN Rows(t)}
           Parts == {EventsOf(t) : t \in Txns}
<1>1. ASSUME NEW t \in Txns PROVE IsFiniteSet(EventsOf(t))
  <2> DEFINE f == [k \in DOMAIN Rows(t) |-> Rows(t)[k].ev]
  <2>1. IsFiniteSet(DOMAIN Rows(t))
    BY WalFacts, FS_Interval
  <2>2. f \in Surjection(DOMAIN Rows(t), EventsOf(t))
    BY DEF Surjection
  <2>3. QED
    BY <2>1, <2>2, FS_Surjection
<1>2. IsFiniteSet(Parts)
  <2> DEFINE f == [t \in Txns |-> EventsOf(t)]
  <2>1. IsFiniteSet(Txns)
    BY WalFacts, FS_Interval
  <2>2. f \in Surjection(Txns, Parts)
    BY DEF Surjection
  <2>3. QED
    BY <2>1, <2>2, FS_Surjection
<1>3. IsFiniteSet(UNION Parts)
  BY <1>1, <1>2, FS_UNION
<1>4. Events \subseteq UNION Parts
  BY NumberingAssumption DEF NumberingAssumption
<1> QED
  BY <1>3, <1>4, Fewer

(* What a producer comes to lack, it lacks of the transaction committed.   *)
LEMMA LackingStep ==
  ASSUME TypeInv, CaptureInv, WireInv, [Next]_vars, NEW e \in Lacking'
  PROVE  /\ e \in Events \ NoId /\ TxnOf[e] \in Txns
         /\ \/ e \in Lacking
            \/ AppCommit /\ TxnOf[e] = committed + 1
<1>0. /\ committed \in 0..Len(Wal) /\ born \in 0..committed /\ Len(Wal) \in Nat
      /\ Txns = 1..Len(Wal) /\ slot \in Nat
  BY WalFacts DEF TypeInv, TypeOK
<1>1. e \in Events \ NoId /\ TxnOf[e] \in Txns
  BY TxnOfRow DEF Lacking, Owed
<1>2. slot' # 0 /\ TxnOf[e] \in (born' + 1)..committed' /\ ~Settled(e)'
  BY DEF Lacking, Owed
<1>3. ~Settled(e)
  BY <1>2, EngineSteps, SettledStep DEF TypeInv, TypeOK
<1>4. CASE DBConnect /\ slot = 0
  <2>1. born' = committed /\ committed' = committed
    BY <1>4, Zenon DEF DBConnect
  <2>2. QED
    BY <1>0, <1>2, <2>1
<1>5. CASE ~(DBConnect /\ slot = 0)
  <2>1. born' = born /\ slot # 0
    BY <1>2, <1>5, LsnMoves DEF WireInv
  <2>2. committed' = committed \/ (AppCommit /\ committed' = committed + 1)
    BY LsnMoves DEF AppCommit
  <2>3. TxnOf[e] \in (born + 1)..committed \/ (AppCommit /\ TxnOf[e] = committed + 1)
    BY <1>0, <1>2, <2>1, <2>2
  <2>4. QED
    BY <1>1, <1>3, <2>1, <2>3 DEF Lacking, Owed
<1> QED
  BY <1>1, <1>4, <1>5

(* An event comes to be exposed when the engine takes it from the capture  *)
(* goroutine, and at no other time: a position that passes it has passed   *)
(* through the stream, and what a new stream passes over, the slot has.    *)
LEMMA ExposedStep ==
  ASSUME MessagesFit, TypeInv, CaptureInv, WireInv, PositionInv, LsnInv,
         [Next]_vars, NEW e \in Exposed'
  PROVE  \/ e \in Exposed
         \/ HandOver /\ e = cur'
<1>0. /\ committed \in 0..Len(Wal) /\ born \in 0..committed /\ Len(Wal) \in Nat
      /\ Txns = 1..Len(Wal) /\ slot \in Nat /\ clientLSN \in Nat
      /\ pendingLSN \in Nat /\ next \in 1..(Len(Wal) + 1) /\ step \in Nat
      /\ NoEvent \notin Events
      /\ capEv # NoEvent => cap = "send"
      /\ phase \in {"connect", "dialing", "capture"} => cap \notin {"recv", "reply"}
  BY WalFacts DEF CaptureInv, TypeInv, TypeOK
<1>1. /\ e \in Lacking' /\ e \in Events \ NoId /\ TxnOf[e] \in Txns
      /\ e \in Lacking \/ (AppCommit /\ TxnOf[e] = committed + 1)
  BY LackingStep DEF Exposed
<1>2. PICK t \in Txns : t = TxnOf[e]
  BY <1>1
<1>3. \/ \E x \in {slot', clientLSN', pendingLSN'} : Wal[t].commit < x
      \/ Reader' /\ e \in Passed' /\ e # capEv'
  BY <1>2 DEF Exposed
<1>4. CASE AppCommit /\ t = committed + 1
  <2>1. /\ UNCHANGED <<slot, clientLSN, pendingLSN>> /\ Passed' = Passed
    BY <1>4 DEF AppCommit, lsnVars, streamVars, Passed
  <2>2. /\ slot <= Wal[t].commit /\ clientLSN <= Wal[t].commit
        /\ pendingLSN <= Wal[t].commit /\ Wal[t].commit \in Nat
    BY <1>2, <1>4, Commits DEF LsnInv
  <2>3. e \notin Passed
    <3>1. next <= t /\ (next = t => step = 0)
      BY <1>4 DEF PositionInv
    <3>2. ~(t < next)
      BY <1>0, <1>2, <3>1
    <3>3. ASSUME next \in Txns, NEW k \in DOMAIN Rows(next), k < step,
                 Rows(next)[k].ev = e
          PROVE  FALSE
      <4>1. next = t
        BY <1>2, <3>3, TxnOfRow
      <4>2. k \in 1..Len(Rows(next)) /\ Len(Rows(next)) \in Nat
        BY <3>3, WalFacts
      <4>3. QED
        BY <3>1, <3>3, <4>1, <4>2
    <3>4. QED
      BY <1>2, <3>2, <3>3 DEF Passed, PassedAt
  <2>4. QED
    BY <1>0, <1>3, <2>1, <2>2, <2>3
<1>5. CASE e \in Lacking
  <2>1. /\ slot # 0 /\ ~(t <= born) /\ t <= committed
    BY <1>0, <1>2, <1>5 DEF Lacking, Owed
  <2>2. ASSUME Wal[t].commit < slot \/ Wal[t].commit < clientLSN
                 \/ Wal[t].commit < pendingLSN
        PROVE  e \in Exposed
    BY <1>2, <1>5, <2>2 DEF Exposed
  <2>3. ASSUME Reader, e \in Passed, e # capEv
        PROVE  e \in Exposed
    BY <1>5, <2>3 DEF Exposed
  <2>4. CASE \E x \in {slot', clientLSN', pendingLSN'} : Wal[t].commit < x
    <3>1. \/ Wal[t].commit < slot \/ Wal[t].commit < clientLSN
          \/ Wal[t].commit < pendingLSN
          \/ cap = "recv" /\ t < next'
      BY <2>1, <2>4, Received, SlotReceived
    <3>2. CASE cap = "recv" /\ t < next'
      <4>1. Reader /\ capEv = NoEvent
        BY <1>0, <3>2 DEF Reader
      <4>2. ~ReplicationStarted
        BY <1>0, <3>2 DEF ReplicationStarted, SourceConnected
      <4>3. e \in Passed'
        BY <1>1, <1>2, <3>2 DEF Passed, PassedAt
      <4>4. e \in Passed
        <5>1. CASE ReceiveRow
          <6>1. next' = next
            BY <4>2, <5>1, PassedStep
          <6>2. QED
            BY <1>1, <1>2, <3>2, <6>1 DEF Passed, PassedAt
        <5>2. QED
          BY <4>2, <4>3, <5>1, PassedStep
      <4>5. QED
        BY <1>0, <1>1, <2>3, <4>1, <4>4
    <3>3. QED
      BY <2>2, <3>1, <3>2
  <2>5. CASE Reader' /\ e \in Passed' /\ e # capEv'
    <3>1. ~ReplicationStarted /\ ~ProcessDies
      <4>1. ReplicationStarted => ~Reader'
        BY <1>0 DEF ReplicationStarted, SourceConnected, Reader, Streaming,
           Processing, capVars
      <4>2. ProcessDies => ~Reader'
        BY DEF ProcessDies, Crash, Reader, Streaming, Processing
      <4>3. QED
        BY <2>5, <4>1, <4>2
    <3>2. CASE ReceiveRow
      <4>1. /\ cap = "recv" /\ capEv = NoEvent
            /\ e \in Passed \/ e = Rows(next)[step].ev
            /\ Rows(next)[step].ev \in NoId \/ capEv' = Rows(next)[step].ev
        BY <2>5, <3>1, <3>2, PassedStep
      <4>2. Reader /\ e # capEv /\ e \in Passed
        BY <1>0, <1>1, <2>5, <4>1 DEF Reader
      <4>3. QED
        BY <2>3, <4>2
    <3>3. CASE CaptureEvents
      <4>1. phase = "capture" /\ Passed' = Passed
        BY <3>3 DEF CaptureEvents, CaptureStarted, streamVars, Passed
      <4>2. /\ step = 0
            /\ t < next <=> t <= born \/ Wal[t].commit < slot
        BY <4>1 DEF PositionInv
      <4>3. t < next
        <5>1. ~(\E k \in DOMAIN Rows(next) : next \in Txns /\ k < step)
          <6>1. next \in Txns => DOMAIN Rows(next) = 1..Len(Rows(next))
                                   /\ Len(Rows(next)) \in Nat
            BY WalFacts
          <6>2. QED
            BY <4>2, <6>1
        <5>2. e \in PassedAt(next, step)
          BY <2>5, <4>1 DEF Passed
        <5>3. QED
          BY <1>2, <5>1, <5>2, Zenon DEF PassedAt
      <4>4. QED
        BY <2>1, <2>2, <4>2, <4>3
    <3>4. CASE ~ReceiveRow /\ ~CaptureEvents
      <4>1. e \in Passed
        BY <2>5, <3>1, <3>4, PassedStep
      <4>2. Reader
        <5>1. Streaming' => Streaming
          BY <3>4, PhaseStep
        <5>2. cap' \in {"recv", "reply"} => cap \in {"recv", "reply"} \/ HandOver
          BY <3>1, <3>4, CaptureMoves
        <5>3. HandOver => Streaming
          BY DEF HandOver, Receive, Streaming
        <5>4. QED
          BY <2>5, <5>1, <5>2, <5>3 DEF Reader
      <4>3. CASE e # capEv
        BY <2>3, <4>1, <4>2, <4>3
      <4>4. CASE e = capEv
        <5>1. HandOver
          BY <2>5, <3>1, <3>4, <4>4, CaptureMoves
        <5>2. cur' = capEv
          BY <5>1 DEF HandOver, Receive
        <5>3. QED
          BY <4>4, <5>1, <5>2
      <4>5. QED
        BY <4>3, <4>4
    <3>5. QED
      BY <3>2, <3>3, <3>4
  <2>6. QED
    BY <1>3, <2>4, <2>5
<1> QED
  BY <1>1, <1>2, <1>4, <1>5

LEMMA CountStep ==
  ASSUME MessagesFit, TypeInv, CaptureInv, WireInv, PositionInv, LsnInv,
         CountInv, [Next]_vars
  PROVE  CountInv'
<1> DEFINE others == Exposed' \ {cur'}
           now == Exposed'
<1>0. /\ faults \in Nat /\ (faults' = faults \/ faults' = faults + 1)
      /\ EngineStep /\ EngineTypeOK
  BY EngineSteps, FaultsGrow DEF TypeInv, TypeOK
<1>1. /\ IsFiniteSet(Exposed) /\ IsFiniteSet(Exposed \ {cur})
      /\ Exposed' \subseteq Events
  <2>1. Exposed \subseteq Events /\ Exposed' \subseteq Events
        /\ Exposed \ {cur} \subseteq Events
    BY DEF Exposed, Lacking, Owed
  <2>2. QED
    BY <2>1, EventsFinite, Fewer
<1>2. \A e \in Exposed' : e \in Exposed \/ (HandOver /\ e = cur')
  BY ExposedStep
<1>3. /\ phase \in {"capture", "select"} => cur \notin Events
      /\ phase = "acking" => cur \notin Exposed /\ cur \notin Exposed'
  <2>1. phase \in {"capture", "select"} => cur \notin Events
    BY WalFacts DEF TypeInv, StreamOnly
  <2>2. phase = "acking" => Settled(cur)
    BY DEF TypeInv, InHand
  <2>3. \A x : Settled(x) => x \notin Exposed /\ x \notin Exposed'
    <3>1. \A x : Settled(x) => Settled(x)'
      BY <1>0, SettledStep
    <3>2. \A x \in Exposed : ~Settled(x)
      BY Zenon DEF Exposed, Lacking
    <3>3. \A x \in Exposed' : ~Settled(x)'
      BY Zenon DEF Exposed, Lacking
    <3>4. QED
      BY <3>1, <3>2, <3>3, Zenon
  <2>4. QED
    BY <2>1, <2>2, <2>3, Zenon
<1>4. HandOver => Streaming /\ Streaming' /\ phase = "select"
  BY DEF HandOver, Receive, Streaming, Processing
<1> HIDE DEF others, now
<1>5. CASE Streaming /\ Streaming'
  <2>1. ASSUME NEW e \in others PROVE e \in Exposed \ {cur}
    <3>1. e \in Exposed' /\ e # cur' /\ e \in Events /\ e \in Exposed
      BY <1>1, <1>2, <2>1 DEF others
    <3>2. phase = "acking" \/ cur' = cur \/ phase = "select"
      BY <1>4, <1>5, PhaseStep DEF AckDone, Acked, CaptureEvents, CaptureStarted,
         Streaming, Processing
    <3>3. QED
      BY <1>3, <3>1, <3>2
  <2>2. Cardinality(others) \in Nat /\ Cardinality(Exposed \ {cur}) \in Nat
        /\ Cardinality(others) <= Cardinality(Exposed \ {cur})
    BY <1>1, <2>1, Fewer
  <2>3. Cardinality(Exposed \ {cur}) + (IF Failing THEN 1 ELSE 0) <= faults
    BY <1>5 DEF CountInv
  <2>4. Failing' => Failing \/ faults' = faults + 1
    BY <1>0, FailingStep
  <2>5. Cardinality(others) + (IF Failing' THEN 1 ELSE 0) <= faults'
    BY <1>0, <2>2, <2>3, <2>4
  <2>6. QED
    BY <1>5, <2>5, Zenon DEF CountInv, others
<1>6. CASE Streaming /\ ~Streaming'
  <2>1. now \subseteq Exposed
    BY <1>2, <1>4, <1>6 DEF now
  <2>2. Cardinality(Exposed \ {cur}) + (IF Failing THEN 1 ELSE 0) <= faults
    BY <1>6 DEF CountInv
  <2>3. CASE cur \notin Exposed
    <3>1. now \subseteq Exposed \ {cur}
      BY <2>1, <2>3
    <3>2. Cardinality(now) \in Nat /\ Cardinality(Exposed \ {cur}) \in Nat
          /\ Cardinality(now) <= Cardinality(Exposed \ {cur})
      BY <1>1, <3>1, Fewer
    <3>3. Cardinality(now) <= faults' + (IF Excused' THEN 1 ELSE 0)
      BY <1>0, <2>2, <3>2
    <3>4. QED
      BY <1>6, <3>3, Zenon DEF CountInv, now
  <2>4. CASE Failing \/ Excused' \/ faults' = faults + 1
    <3>1. now \subseteq (Exposed \ {cur}) \cup {cur}
      BY <2>1
    <3>2. Cardinality(now) \in Nat /\ Cardinality(Exposed \ {cur}) \in Nat
          /\ Cardinality(now) <= Cardinality(Exposed \ {cur}) + 1
      BY <1>1, <3>1, OneMore
    <3>3. Cardinality(now) <= faults' + (IF Excused' THEN 1 ELSE 0)
      BY <1>0, <2>2, <2>4, <3>2
    <3>4. QED
      BY <1>6, <3>3, Zenon DEF CountInv, now
  <2>5. \/ Failing \/ Excused' \/ faults' = faults + 1
        \/ phase \in {"select", "acking"}
    BY <1>6, PhaseStep DEF StreamClosed, ChannelClosed, AckRefused, AckFailed,
       RunFails, ProcessDies, Crash, Fault
  <2>6. QED
    BY <1>1, <1>3, <2>3, <2>4, <2>5 DEF Exposed, Lacking, Owed
<1>7. CASE ~Streaming /\ ~Streaming'
  <2>1. now \subseteq Exposed
    BY <1>2, <1>4, <1>7 DEF now
  <2>2. Cardinality(now) \in Nat /\ Cardinality(Exposed) \in Nat
        /\ Cardinality(now) <= Cardinality(Exposed)
    BY <1>1, <2>1, Fewer
  <2>3. Cardinality(Exposed) <= faults + (IF Excused THEN 1 ELSE 0)
    BY <1>7 DEF CountInv
  <2>4. Excused => Excused' \/ faults' = faults + 1
    BY <1>0, ExcusedStep
  <2>5. Cardinality(now) <= faults' + (IF Excused' THEN 1 ELSE 0)
    BY <1>0, <2>2, <2>3, <2>4
  <2>6. QED
    BY <1>7, <2>5, Zenon DEF CountInv, now
<1>8. CASE ~Streaming /\ Streaming'
  <2>1. CaptureEvents
    BY <1>8, PhaseStep
  <2>2. ~Excused /\ ~Failing'
    BY <2>1 DEF CaptureEvents, CaptureStarted, Excused, Failing, TypeInv, InHand
  <2>3. others \subseteq Exposed
    BY <1>2, <1>4, <1>8 DEF others
  <2>4. Cardinality(others) \in Nat /\ Cardinality(Exposed) \in Nat
        /\ Cardinality(others) <= Cardinality(Exposed)
    BY <1>1, <2>3, Fewer
  <2>5. Cardinality(Exposed) <= faults
    BY <1>0, <1>8, <2>2, <2>4 DEF CountInv
  <2>6. Cardinality(others) + (IF Failing' THEN 1 ELSE 0) <= faults'
    BY <1>0, <2>2, <2>4, <2>5
  <2>7. QED
    BY <1>8, <2>6, Zenon DEF CountInv, others
<1> QED
  BY <1>5, <1>6, <1>7, <1>8, Zenon

IInv ==
  /\ TypeInv /\ CaptureInv /\ WireInv /\ PositionInv /\ LsnInv
  /\ OrderInv /\ FreshInv /\ CountInv

(* Types, positions, the order of the stream and the count of what is lost *)
(* hold of every reachable state, whatever fails and however often.        *)
THEOREM CountInvariant ==
  ASSUME MessagesFit
  PROVE  Spec => []IInv
<1>1. Init => OrderInv /\ FreshInv /\ CountInv
  <2> SUFFICES ASSUME Init PROVE OrderInv /\ FreshInv /\ CountInv
    OBVIOUS
  <2>1. /\ ~Streaming /\ faults = 0 /\ slot = 0 /\ assigned = FALSE
    BY DEF Init, EngineInit, Streaming, Processing
  <2>2. Exposed = {}
    BY <2>1 DEF Exposed, Lacking, Owed
  <2>3. QED
    BY <2>1, <2>2, FS_EmptySet DEF OrderInv, FreshInv, CountInv
<1>2. /\ TypeInv /\ CaptureInv /\ WireInv /\ PositionInv /\ LsnInv
      /\ OrderInv /\ FreshInv /\ CountInv /\ [Next]_vars
      => (OrderInv /\ FreshInv /\ CountInv)'
  BY OrderStep, FreshStep, CountStep
<1> QED
  BY <1>1, <1>2, TypeInvariant, LogInvariant, PTL DEF Spec, IInv

(* README.md:28: the slot passes no more unsettled events than there were  *)
(* failures, and one: the event whose transaction the Commit message has   *)
(* acknowledged while it was being published.                              *)
THEOREM LossIsBounded ==
  ASSUME MessagesFit
  PROVE  Spec => []LossBounded
<1>1. IInv => LossBounded
  <2> SUFFICES ASSUME IInv PROVE LossBounded
    OBVIOUS
  <2>0. /\ faults \in Nat /\ Exposed \subseteq Events
        /\ Exposed \ {cur} \subseteq Events
    BY EngineAssumption DEF EngineAssumption, IInv, TypeInv, TypeOK,
       EngineTypeOK, Exposed, Lacking, Owed
  <2>1. /\ IsFiniteSet(Exposed) /\ IsFiniteSet(Exposed \ {cur})
        /\ Cardinality(Exposed) \in Nat /\ Cardinality(Exposed \ {cur}) \in Nat
    BY <2>0, EventsFinite, Fewer
  <2>2. Unsafe \subseteq Exposed
    BY DEF Unsafe, Covered, Exposed, Lacking
  <2>3. Cardinality(Unsafe) \in Nat /\ Cardinality(Unsafe) <= Cardinality(Exposed)
    BY <2>1, <2>2, Fewer
  <2>4. CASE Streaming
    <3>1. Exposed \subseteq (Exposed \ {cur}) \cup {cur}
      OBVIOUS
    <3>2. Cardinality(Exposed) <= Cardinality(Exposed \ {cur}) + 1
      BY <2>1, <3>1, OneMore
    <3>3. QED
      BY <2>0, <2>1, <2>3, <2>4, <3>2 DEF IInv, CountInv, LossBounded
  <2>5. CASE ~Streaming
    BY <2>0, <2>1, <2>3, <2>5 DEF IInv, CountInv, LossBounded
  <2>6. QED
    BY <2>4, <2>5
<1> QED
  BY <1>1, CountInvariant, PTL

(* eventsManager.go:97-98: Ack assigns the PendingLSN of whatever message  *)
(* came last, and still takes the slot past no event after the one it is   *)
(* for: what came last is the event that waits at the channel.             *)
THEOREM AckKeepsBehind ==
  ASSUME MessagesFit
  PROVE  Spec => AckNeverRunsAhead
<1>1. ASSUME IInv, [Next]_vars, AckDone, NEW e \in Owed,
             e > cur, ~Covered(e), Covered(e)'
      PROVE  Settled(e)
  <2>1. PICK t \in Txns : t = TxnOf[e]
    BY TxnOfRow DEF Owed
  <2>2. /\ e \in Events \ NoId /\ Wal[t].commit < slot' /\ ~(Wal[t].commit < slot)
    BY <1>1, <2>1 DEF Owed, Covered
  <2>3. phase = "acking" /\ assigned
    BY <1>1, Zenon DEF AckDone, Acked
  <2>4. slot' = clientLSN
    <3>1. ~DBConnect
      BY <2>3 DEF DBConnect
    <3>2. QED
      BY <1>1, <2>2, <3>1, LsnMoves
  <2>5. t < next
    BY <1>1, <2>2, <2>3, <2>4 DEF IInv, FreshInv, Unread
  <2>6. e \in Passed
    BY <2>1, <2>2, <2>5 DEF Passed, PassedAt
  <2>7. Streaming /\ cur # NoEvent
    BY <1>1, <2>3, WalFacts DEF IInv, TypeInv, InHand, Streaming, Processing
  <2>8. e = capEv
    BY <1>1, <2>2, <2>6, <2>7 DEF IInv, OrderInv
  <2>9. TxnOf[e] = next
    <3>1. cap = "send"
      BY <1>1, <2>2, <2>8, WalFacts DEF IInv, CaptureInv
    <3>2. /\ next \in Txns /\ step - 1 \in DOMAIN Rows(next)
          /\ Rows(next)[step - 1].ev = e
      BY <1>1, <2>7, <2>8, <3>1 DEF IInv, CaptureInv
    <3>3. QED
      BY <3>2, TxnOfRow
  <2>10. FALSE
    BY <2>1, <2>5, <2>9, WalFacts
  <2>11. QED
    BY <2>10
<1>2. IInv /\ [Next]_vars =>
        [AckDone => \A e \in Owed :
           e > cur /\ ~Covered(e) /\ Covered(e)' => Settled(e)]_vars
  BY <1>1
<1> QED
  BY <1>2, CountInvariant, PTL DEF Spec, AckNeverRunsAhead

(* With an event the walsender has passed all those before it.             *)
LEMMA PassedBefore ==
  ASSUME NEW n \in Nat, NEW s \in Nat, NEW e \in PassedAt(n, s),
         NEW d \in Events, d < e
  PROVE  d \in PassedAt(n, s)
<1>1. /\ e \in Events /\ TxnOf[d] \in Txns /\ TxnOf[e] \in Txns
      /\ d \in Nat /\ e \in Nat
      /\ \A t \in Txns : t \in Nat
  BY TxnOfRow, WalFacts DEF PassedAt
<1>2. TxnOf[d] <= TxnOf[e]
  <2>1. ~(TxnOf[e] < TxnOf[d])
    <3>1. TxnOf[e] < TxnOf[d] => e < d
      BY <1>1, EventOrder
    <3>2. QED
      BY <1>1, <3>1
  <2>2. QED
    BY <1>1, <2>1
<1>3. CASE TxnOf[e] < n
  BY <1>1, <1>2, <1>3 DEF PassedAt
<1>4. CASE n \in Txns /\ \E k \in DOMAIN Rows(n) : k < s /\ Rows(n)[k].ev = e
  <2>1. PICK k \in DOMAIN Rows(n) : k < s /\ Rows(n)[k].ev = e
    BY <1>4
  <2>2. TxnOf[e] = n
    BY <1>4, <2>1, TxnOfRow
  <2>3. CASE TxnOf[d] < n
    BY <2>3 DEF PassedAt
  <2>4. CASE TxnOf[d] = n
    <3>1. PICK j \in DOMAIN Rows(n) : Rows(n)[j].ev = d
      BY <2>4, TxnOfRow
    <3>2. j < k
      BY <1>4, <2>1, <3>1, RowOrder
    <3>3. j < s
      <4>1. j \in Nat /\ k \in Nat
        BY <1>4, WalFacts
      <4>2. QED
        BY <2>1, <3>2, <4>1
    <3>4. QED
      BY <1>4, <3>1, <3>3 DEF PassedAt
  <2>5. QED
    BY <1>1, <1>2, <2>2, <2>3, <2>4
<1> QED
  BY <1>3, <1>4 DEF PassedAt

(* Order: when an event first reaches a producer, every event committed    *)
(* before it is settled, but for one per failure.                          *)
THEOREM EventsStayInOrder ==
  ASSUME MessagesFit
  PROVE  Spec => InCommitOrder
<1>1. ASSUME IInv, [Next]_vars,
             NEW p \in Producers, NEW e \in delivered'[p] \ delivered[p]
      PROVE  Cardinality({d \in Owed : d < e /\ ~Settled(d)}) <= faults
  <2> DEFINE Before == {d \in Owed : d < e /\ ~Settled(d)}
  <2>1. e = cur /\ pub[p] = "running"
    BY <1>1, EngineSteps, DeliveredStep DEF IInv, TypeInv, TypeOK
  <2>2. phase = "publishing" /\ cur \in Events
    BY <1>1, <2>1 DEF IInv, TypeInv, InHand, Processing
  <2>3. /\ Streaming /\ Reader /\ cur # NoEvent /\ cur \in Nat
        /\ Events \subseteq Nat /\ faults \in Nat
    BY <1>1, <2>2, WalFacts, EngineAssumption
       DEF EngineAssumption, IInv, Streaming, Processing, Reader, TypeInv,
       TypeOK, EngineTypeOK
  <2>4. /\ cur \in Passed
        /\ capEv # NoEvent => cur < capEv
        /\ capEv \in Events \cup {NoEvent} /\ NoEvent \notin Events
        /\ next \in Nat /\ step \in Nat
    BY <1>1, <2>3, WalFacts DEF IInv, OrderInv, TypeInv, TypeOK
  <2>5. ASSUME NEW d \in Before PROVE d \in Exposed \ {cur}
    <3>1. d \in Events /\ d \in Lacking /\ d < cur /\ d \in Nat
      BY <2>1, <2>3 DEF Owed, Lacking
    <3>2. d \in Passed
      BY <2>4, <3>1, PassedBefore DEF Passed
    <3>3. d # capEv /\ d # cur
      BY <2>3, <2>4, <3>1
    <3>4. QED
      BY <2>3, <3>1, <3>2, <3>3 DEF Exposed
  <2> HIDE DEF Before
  <2>6. IsFiniteSet(Exposed \ {cur})
    <3>1. Exposed \ {cur} \subseteq Events
      BY DEF Exposed, Lacking, Owed
    <3>2. QED
      BY <3>1, EventsFinite, Fewer
  <2>7. /\ Cardinality(Before) \in Nat /\ Cardinality(Exposed \ {cur}) \in Nat
        /\ Cardinality(Before) <= Cardinality(Exposed \ {cur})
    BY <2>5, <2>6, Fewer
  <2>8. Cardinality(Exposed \ {cur}) <= faults
    BY <1>1, <2>3, <2>7 DEF IInv, CountInv
  <2>9. QED
    BY <2>3, <2>7, <2>8 DEF Before
<1>2. IInv /\ [Next]_vars =>
        [\A p \in Producers : \A e \in delivered'[p] \ delivered[p] :
           Cardinality({d \in Owed : d < e /\ ~Settled(d)}) <= faults]_vars
  BY <1>1
<1> QED
  BY <1>2, CountInvariant, PTL DEF Spec, InCommitOrder
=============================================================================
