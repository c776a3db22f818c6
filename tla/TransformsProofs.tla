-------------------------- MODULE TransformsProofs ---------------------------
(***************************************************************************)
(* Theorems about Transforms, for every chain of any length and every      *)
(* event; and, at the end, about RateLimit, for any rate and any length of *)
(* time.                                                                   *)
(***************************************************************************)
EXTENDS Transforms, RateLimit, Integers, TLAPS

(* The event keeps its type and its operation on the way down the chain.   *)
Shape ==
  /\ outcome \in {"running", "kept", "dropped"}
  /\ input \in Inputs /\ chain \in Chains
  /\ at \in 1..(Len(chain) + 1)
  /\ DOMAIN ev = {"type", "op", "payload", "headers"}
  /\ ev.type = input.type /\ ev.op = input.op
  /\ IsObject(ev.payload) => DOMAIN ev.payload = {"kind", "fields"}

Behind == 1..(at - 1)

FilterInv ==
  /\ outcome # "dropped" => \A i \in Behind : ~Refuses(chain[i])
  /\ outcome = "kept" => at = Len(chain) + 1
  /\ outcome = "dropped" => at \in DOMAIN chain /\ Refuses(chain[at])

MaskInv ==
  IsObject(ev.payload) =>
    \A i \in Behind : chain[i].does = "mask" =>
      \A f \in chain[i].fields \cap DOMAIN ev.payload.fields :
        ev.payload.fields[f] = Mask

-----------------------------------------------------------------------------
(* The step of one transform of the chain that keeps the event.            *)
Passes ==
  /\ outcome = "running" /\ outcome' = "running"
  /\ at \in DOMAIN chain /\ at' = at + 1
  /\ input' = input /\ chain' = chain
  /\ ~Refuses(chain[at])

Drops ==
  /\ outcome = "running" /\ outcome' = "dropped"
  /\ at \in DOMAIN chain /\ Refuses(chain[at])
  /\ UNCHANGED <<input, chain, at, ev>>

Headers == AddHeader \/ RouteByEventType \/ AddTimestamp \/ EnrichFromStore

LEMMA FilterStep ==
  ASSUME Shape, FilterByEventType \/ FilterByOperation
  PROVE  (Passes /\ chain[at].does # "mask" /\ ev' = ev) \/ Drops
  BY DEF FilterByEventType, FilterByOperation, Runs, Filter, Refuses, Passes,
         Drops, Shape

LEMMA HeaderStep ==
  ASSUME Shape, Headers
  PROVE  /\ Passes /\ chain[at].does # "mask"
         /\ ev' = ev \/ \E k, v : ev' = WithHeader(k, v)
  BY DEF Headers, AddHeader, RouteByEventType, AddTimestamp, EnrichFromStore, Runs,
         Becomes, Refuses, Passes, Shape

LEMMA MaskStep ==
  ASSUME Shape, MaskField
  PROVE  Passes /\ chain[at].does = "mask"
  BY DEF MaskField, Runs, Becomes, Refuses, Passes, Shape

LEMMA HeaderKeepsRest ==
  ASSUME Shape, NEW k, NEW v
  PROVE  /\ DOMAIN WithHeader(k, v) = DOMAIN ev
         /\ WithHeader(k, v).type = ev.type /\ WithHeader(k, v).op = ev.op
         /\ WithHeader(k, v).payload = ev.payload
  BY DEF WithHeader, Shape

LEMMA NextCases ==
  ASSUME Shape, [Next]_vars
  PROVE  \/ FilterByEventType \/ FilterByOperation
         \/ Headers \/ MaskField \/ ChainEnds
         \/ UNCHANGED vars
  BY DEF Next, Headers

LEMMA ShapeStep ==
  ASSUME Shape, [Next]_vars
  PROVE  Shape'
<1>0. DOMAIN chain = 1..Len(chain) /\ Len(chain) \in Nat
  BY CallAssumption DEF CallAssumption, Shape
<1>1. CASE FilterByEventType \/ FilterByOperation
  BY <1>0, <1>1, FilterStep DEF Shape, Passes, Drops, IsObject
<1>2. CASE Headers
  <2>1. /\ DOMAIN ev' = DOMAIN ev /\ ev'.type = ev.type /\ ev'.op = ev.op
        /\ ev'.payload = ev.payload
    BY <1>2, HeaderStep, HeaderKeepsRest
  <2> QED
    BY <1>0, <1>2, <2>1, HeaderStep DEF Shape, Passes, IsObject
<1>3. CASE MaskField
  <2>1. /\ DOMAIN ev' = DOMAIN ev /\ ev'.type = ev.type /\ ev'.op = ev.op
        /\ IsObject(ev'.payload) => DOMAIN ev'.payload = {"kind", "fields"}
    BY <1>3 DEF MaskField, Becomes, Shape, IsObject
  <2> QED
    BY <1>0, <1>3, <2>1, MaskStep DEF Shape, Passes, IsObject
<1>4. CASE ChainEnds
  BY <1>4 DEF ChainEnds, Shape, IsObject
<1>5. CASE UNCHANGED vars
  BY <1>5 DEF vars, Shape, IsObject
<1> QED
  BY <1>1, <1>2, <1>3, <1>4, <1>5, NextCases

LEMMA ShapeInvariant == Spec => []Shape
<1>1. Init => Shape
  <2> SUFFICES ASSUME Init PROVE Shape
    OBVIOUS
  <2>1. input \in Inputs /\ chain \in Chains /\ at = 1 /\ ev = input
    BY DEF Init
  <2>2. Len(chain) \in Nat /\ at \in 1..(Len(chain) + 1)
    BY <2>1, CallAssumption DEF CallAssumption
  <2>3. /\ DOMAIN ev = {"type", "op", "payload", "headers"}
        /\ IsObject(ev.payload) => DOMAIN ev.payload = {"kind", "fields"}
    BY <2>1, CallAssumption DEF CallAssumption, IsObject
  <2> QED
    BY <2>1, <2>2, <2>3, Zenon DEF Shape, Init
<1> QED
  BY <1>1, ShapeStep, PTL DEF Spec

-----------------------------------------------------------------------------
LEMMA FilterInvStep ==
  ASSUME Shape, FilterInv, [Next]_vars
  PROVE  FilterInv'
<1>0. DOMAIN chain = 1..Len(chain) /\ Len(chain) \in Nat /\ at \in 1..(Len(chain) + 1)
  BY CallAssumption DEF CallAssumption, Shape
<1>1. CASE Passes
  <2>1. /\ outcome = "running" /\ outcome' = "running"
        /\ \A i \in 1..(at - 1) : ~Refuses(chain[i])
        /\ at' = at + 1 /\ chain' = chain /\ input' = input
        /\ ~Refuses(chain[at])
    BY <1>1 DEF Passes, FilterInv, Behind
  <2>2. \A i \in 1..(at' - 1) : i = at \/ i \in 1..(at - 1)
    BY <1>0, <2>1
  <2>3. \A i \in 1..(at' - 1) : ~Refuses(chain[i])
    BY <2>1, <2>2
  <2>4. \A i \in 1..(at' - 1) : ~Refuses(chain[i])'
    BY <2>1, <2>3 DEF Refuses
  <2> QED
    BY <2>1, <2>4 DEF FilterInv, Behind
<1>2. CASE Drops
  BY <1>2 DEF Drops, FilterInv, Behind, Refuses
<1>3. CASE ChainEnds
  <2>1. at = Len(chain) + 1
    BY <1>0, <1>3 DEF ChainEnds
  <2> QED
    BY <1>3, <2>1 DEF ChainEnds, FilterInv, Behind, Refuses
<1>4. CASE UNCHANGED vars
  BY <1>4 DEF vars, FilterInv, Behind, Refuses
<1> QED
  BY <1>1, <1>2, <1>3, <1>4, NextCases, FilterStep, HeaderStep, MaskStep

(* For every chain: an event is kept exactly if no filter of the chain     *)
(* refuses it.                                                             *)
THEOREM FiltersDecide == Spec => []KeptIfNoFilterRefuses
<1>1. Init => FilterInv
  BY DEF Init, FilterInv, Behind
<1>2. Shape /\ FilterInv => KeptIfNoFilterRefuses
  BY CallAssumption DEF CallAssumption, Shape, FilterInv, Behind,
     KeptIfNoFilterRefuses
<1> QED
  BY <1>1, <1>2, FilterInvStep, ShapeInvariant, PTL DEF Spec

-----------------------------------------------------------------------------
LEMMA MaskInvStep ==
  ASSUME Shape, MaskInv, [Next]_vars
  PROVE  MaskInv'
<1>0. DOMAIN chain = 1..Len(chain) /\ Len(chain) \in Nat /\ at \in 1..(Len(chain) + 1)
  BY CallAssumption DEF CallAssumption, Shape
<1>1. ASSUME Passes, chain[at].does # "mask", ev'.payload = ev.payload
      PROVE  MaskInv'
  BY <1>0, <1>1 DEF Passes, MaskInv, Behind, IsObject
<1>2. CASE MaskField
  <2>1. CASE ~IsObject(ev.payload)
    BY <1>2, <2>1 DEF MaskField, Becomes, MaskInv, IsObject
  <2>2. CASE IsObject(ev.payload)
    <3> DEFINE old == ev.payload.fields
    <3>1. ev'.payload.fields = MaskFields(old, chain[at].fields)
      BY <1>2, <2>2 DEF MaskField, Becomes, Shape
    <3>2. /\ DOMAIN ev'.payload.fields = DOMAIN old
          /\ \A f \in DOMAIN old :
               /\ f \in chain[at].fields => ev'.payload.fields[f] = Mask
               /\ old[f] = Mask => ev'.payload.fields[f] = Mask
      BY <3>1 DEF MaskFields, Decoded
    <3>3. at' = at + 1 /\ chain' = chain
      BY <1>2, MaskStep DEF Passes
    <3> QED
      BY <1>0, <2>2, <3>2, <3>3 DEF MaskInv, Behind
  <2> QED
    BY <2>1, <2>2
<1>3. CASE Drops \/ ChainEnds \/ UNCHANGED vars
  BY <1>3 DEF Drops, ChainEnds, vars, MaskInv, Behind, IsObject
<1> QED
  BY <1>1, <1>2, <1>3, NextCases, FilterStep, HeaderStep, HeaderKeepsRest

(* For every chain: what one MaskField of it hides stays hidden.           *)
THEOREM MasksHold == Spec => []MaskedFieldsHidden
<1>1. Init => MaskInv
  BY DEF Init, MaskInv, Behind
<1>2. Shape /\ FilterInv /\ MaskInv => MaskedFieldsHidden
  BY CallAssumption DEF CallAssumption, Shape, FilterInv, MaskInv, Behind,
     MaskedFieldsHidden
<1>3. Init => FilterInv
  BY DEF Init, FilterInv, Behind
<1> QED
  BY <1>1, <1>2, <1>3, FilterInvStep, MaskInvStep, ShapeInvariant, PTL DEF Spec

-----------------------------------------------------------------------------
Last(i, k) ==
  Writes(chain[i], k) # {} /\ \A j \in (i + 1)..(at - 1) : ~MayWrite(chain[j], k)

WriterInv ==
  /\ \A k \in DOMAIN ev.headers : \E i \in Behind : MayWrite(chain[i], k)
  /\ \A i \in Behind : \A k :
       Last(i, k) => k \in DOMAIN ev.headers /\ ev.headers[k] \in Writes(chain[i], k)

(* The transform at hand writes no header.                                 *)
WritesNone == ev'.headers = ev.headers /\ \A k : Writes(chain[at], k) = {}

(* It writes one.                                                          *)
WritesOne(k, v) ==
  /\ DOMAIN ev'.headers = DOMAIN ev.headers \cup {k}
  /\ ev'.headers[k] = v
  /\ \A l \in DOMAIN ev.headers : l # k => ev'.headers[l] = ev.headers[l]
  /\ MayWrite(chain[at], k)
  /\ \A l : l # k => Writes(chain[at], l) = {}
  /\ Writes(chain[at], k) = {} \/ v \in Writes(chain[at], k)

LEMMA HeaderWritten ==
  ASSUME Shape, NEW k, NEW v, ev' = WithHeader(k, v)
  PROVE  /\ DOMAIN ev'.headers = DOMAIN ev.headers \cup {k}
         /\ ev'.headers[k] = v
         /\ \A l \in DOMAIN ev.headers : l # k => ev'.headers[l] = ev.headers[l]
  BY DEF WithHeader, Shape

LEMMA HeadersWrite ==
  ASSUME Shape, Headers
  PROVE  WritesNone \/ \E k, v : WritesOne(k, v)
<1>1. CASE AddHeader
  BY <1>1, HeaderWritten DEF AddHeader, Runs, Becomes, WritesOne, MayWrite, Writes
<1>2. CASE AddTimestamp
  BY <1>2, HeaderWritten DEF AddTimestamp, Runs, Becomes, WritesOne, MayWrite, Writes
<1>3. CASE RouteByEventType
  <2>1. CASE \E d \in Destination(chain[at].routes, ev.type) :
               ev' = WithHeader("routing_key", d)
    <3> PICK d \in Destination(chain[at].routes, ev.type) :
               ev' = WithHeader("routing_key", d)
      BY <2>1
    <3> QED
      BY <1>3, HeaderWritten DEF RouteByEventType, Runs, WritesOne, MayWrite,
         Writes, Shape
  <2>2. CASE Destination(chain[at].routes, ev.type) = {} /\ ev' = ev
    BY <1>3, <2>2 DEF RouteByEventType, Runs, WritesNone, Writes, Shape
  <2> QED
    BY <1>3, <2>1, <2>2 DEF RouteByEventType, Becomes
<1>4. CASE EnrichFromStore
  <2>1. CASE \E d \in StoreData : ev' = WithHeader(chain[at].key, d)
    <3> PICK d \in StoreData : ev' = WithHeader(chain[at].key, d)
      BY <2>1
    <3> QED
      BY <1>4, HeaderWritten DEF EnrichFromStore, Runs, WritesOne, MayWrite, Writes
  <2>2. CASE ev' = ev
    BY <1>4, <2>2 DEF EnrichFromStore, Runs, WritesNone, Writes
  <2> QED
    BY <1>4, <2>1, <2>2 DEF EnrichFromStore, Becomes
<1> QED
  BY <1>1, <1>2, <1>3, <1>4 DEF Headers

LEMMA OthersWriteNone ==
  ASSUME Shape, MaskField \/ ((FilterByEventType \/ FilterByOperation) /\ ev' = ev)
  PROVE  WritesNone
  BY DEF FilterByEventType, FilterByOperation, MaskField, Becomes, Runs, WritesNone,
         Writes, Shape

LEMMA WriterInvStep ==
  ASSUME Shape, WriterInv, [Next]_vars
  PROVE  WriterInv'
<1>0. DOMAIN chain = 1..Len(chain) /\ Len(chain) \in Nat /\ at \in 1..(Len(chain) + 1)
  BY CallAssumption DEF CallAssumption, Shape
<1>1. ASSUME Passes, WritesNone \/ \E k, v : WritesOne(k, v)
      PROVE  WriterInv'
  <2>0. /\ at' = at + 1 /\ at \in Nat
        /\ \A i : i \in 1..(at' - 1) <=> i = at \/ i \in 1..(at - 1)
    BY <1>0, <1>1 DEF Passes
  <2>a. \A t, k : Writes(t, k)' = Writes(t, k) /\ MayWrite(t, k)' = MayWrite(t, k)
    BY <1>1 DEF Passes, Writes, MayWrite
  <2>b. chain' = chain
    BY <1>1 DEF Passes
  <2>1. ASSUME NEW k \in DOMAIN ev'.headers
        PROVE  \E i \in 1..(at' - 1) : MayWrite(chain[i], k)
    BY <1>1, <2>0, <2>1 DEF WritesNone, WritesOne, WriterInv, Behind
  <2>2. ASSUME NEW i \in 1..(at' - 1), NEW k, Writes(chain[i], k) # {},
               \A j \in (i + 1)..(at' - 1) : ~MayWrite(chain[j], k)
        PROVE  k \in DOMAIN ev'.headers /\ ev'.headers[k] \in Writes(chain[i], k)
    <3>1. CASE i = at
      BY <1>1, <2>2, <3>1 DEF WritesNone, WritesOne
    <3>2. CASE i \in 1..(at - 1)
      <4>1. ~MayWrite(chain[at], k)
        BY <2>0, <2>2, <3>2
      <4>2. \A j \in (i + 1)..(at - 1) : ~MayWrite(chain[j], k)
        BY <2>0, <2>2, <3>2
      <4>3. k \in DOMAIN ev.headers /\ ev.headers[k] \in Writes(chain[i], k)
        BY <2>2, <3>2, <4>2 DEF WriterInv, Behind, Last
      <4> QED
        BY <1>1, <4>1, <4>3 DEF WritesNone, WritesOne
    <3> QED
      BY <2>0, <2>2, <3>1, <3>2
  <2> QED
    BY <2>a, <2>b, <2>1, <2>2 DEF WriterInv, Behind, Last
<1>2. CASE Drops \/ ChainEnds \/ UNCHANGED vars
  <2>1. UNCHANGED <<input, chain, at, ev>>
    BY <1>2 DEF Drops, ChainEnds, vars
  <2>2. \A t, k : Writes(t, k)' = Writes(t, k) /\ MayWrite(t, k)' = MayWrite(t, k)
    BY <2>1 DEF Writes, MayWrite
  <2> QED
    BY <2>1, <2>2 DEF WriterInv, Behind, Last
<1> QED
  BY <1>1, <1>2, NextCases, FilterStep, HeaderStep, MaskStep, HeadersWrite,
     OthersWriteNone

(* For every chain: the last transform that writes a header wins, and no   *)
(* header comes from nowhere.                                              *)
THEOREM LastWriters == Spec => []LastWriterWins
<1>1. Init => WriterInv /\ FilterInv
  BY CallAssumption DEF CallAssumption, Init, WriterInv, FilterInv, Behind
<1>2. Shape /\ FilterInv /\ WriterInv => LastWriterWins
  <2> SUFFICES ASSUME Shape, FilterInv, WriterInv, outcome = "kept"
               PROVE  LastWriterWins
    BY DEF LastWriterWins
  <2>1. at - 1 = Len(chain) /\ DOMAIN chain = Behind
    BY CallAssumption DEF CallAssumption, Shape, FilterInv, Behind
  <2> QED
    BY <2>1 DEF WriterInv, Last, LastWriterWins
<1> QED
  BY <1>1, <1>2, FilterInvStep, WriterInvStep, ShapeInvariant, PTL DEF Spec

-----------------------------------------------------------------------------
(* A number and the float64 it is read as.                                 *)
LEMMA SpacingIs ==
  ASSUME NEW v, IsNumber(v)
  PROVE  Spacing(v) \in Spacings /\ Spaced(v, Spacing(v))
  BY DEF IsNumber, Spacing

LEMMA Remainder ==
  ASSUME NEW v \in Nat, NEW s \in Nat \ {0}
  PROVE  /\ v % s \in 0..(s - 1) /\ v % s <= v
         /\ s = 1 => v % s = 0
  OBVIOUS

LEMMA NearestIs ==
  ASSUME NEW v, IsNumber(v)
  PROVE  /\ Nearest(v) \in Nat
         /\ 2 * Distance(v, Nearest(v)) <= Spacing(v)
         /\ Spacing(v) = 1 => Nearest(v) = v
<1>1. PICK s \in Nat \ {0} : s = Spacing(v)
  BY SpacingIs, NumberAssumption DEF NumberAssumption
<1>2. v \in Nat
  BY DEF IsNumber
<1>3. PICK r \in Nat : r = v % s /\ r < s /\ r <= v /\ (s = 1 => r = 0)
  <2>1. v % s \in 0..(s - 1) /\ v % s <= v /\ (s = 1 => v % s = 0)
    BY <1>2, Remainder
  <2>2. \A r \in 0..(s - 1) : r \in Nat /\ r < s
    OBVIOUS
  <2>3. QED
    BY <2>1, <2>2, Zenon
<1>4. \/ 2 * r <= s /\ Nearest(v) = v - r
      \/ 2 * r >= s /\ Nearest(v) = (v - r) + s
  BY <1>1, <1>2, <1>3 DEF Nearest
<1>5. QED
  BY <1>1, <1>2, <1>3, <1>4 DEF Distance

LEMMA RelativeError ==
  ASSUME NEW m \in Nat, NEW s \in Nat, NEW d \in Nat, NEW v \in Nat,
         2 * d <= s, m * s < 2 * v
  PROVE  m * d <= v
<1>1. \A a, b, c \in Nat : a <= b => c * a <= c * b
  OBVIOUS
<1>2. m * (2 * d) <= m * s
  BY <1>1
<1>3. m * (2 * d) = 2 * (m * d)
  OBVIOUS
<1>4. m * d \in Nat /\ m * s \in Nat
  OBVIOUS
<1>5. QED
  BY <1>2, <1>3, <1>4

LEMMA NearestNear ==
  ASSUME NEW v, IsNumber(v)
  PROVE  /\ Nearest(v) \in Nat /\ Distance(v, Nearest(v)) \in Nat
         /\ MaxExact * Distance(v, Nearest(v)) <= v
         /\ v <= MaxExact => Nearest(v) = v
<1>1. PICK s \in Nat \ {0} : s = Spacing(v) /\ Spaced(v, s)
  BY SpacingIs, NumberAssumption DEF NumberAssumption
<1>2. v \in Nat /\ MaxExact \in Nat \ {0}
  BY NumberAssumption DEF IsNumber, NumberAssumption
<1>3. PICK f \in Nat : f = Nearest(v)
  BY NearestIs
<1>4. PICK d \in Nat : d = Distance(v, f)
  BY <1>2, <1>3 DEF Distance
<1>5. CASE s = 1
  <2>1. f = v
    BY <1>1, <1>3, <1>5, NearestIs
  <2>2. d = 0 /\ MaxExact * 0 <= v
    BY <1>2, <1>4, <2>1 DEF Distance
  <2>3. QED
    BY <1>3, <1>4, <2>1, <2>2, Zenon
<1>6. CASE s # 1
  <2>1. MaxExact * s < 2 * v
    BY <1>1, <1>6 DEF Spaced
  <2>2. 2 * d <= s
    BY <1>1, <1>3, <1>4, NearestIs
  <2>3. MaxExact * d <= v
    BY <1>2, <2>1, <2>2, RelativeError
  <2>4. ~ v <= MaxExact
    <3>1. \A m \in Nat : \A t \in Nat \ {0, 1} : 2 * m <= m * t
      OBVIOUS
    <3>2. 2 * MaxExact <= MaxExact * s
      BY <1>2, <1>6, <3>1
    <3>3. MaxExact * s \in Nat
      BY <1>2
    <3>4. QED
      BY <1>2, <2>1, <3>2, <3>3
  <2>5. QED
    BY <1>3, <1>4, <2>3, <2>4, Zenon
<1>7. QED
  BY <1>5, <1>6

(* What is printed is read as the same float64, so it is printed again.    *)
Reads(v) == IsNumber(v) /\ Nearest(v) \in DOMAIN Printed

Rounded(before, after) == Reads(before) /\ after = Printed[Nearest(before)]

LEMMA RoundedOnce ==
  ASSUME NEW v, NEW w, Rounded(v, w)
  PROVE  Decoded(w) = w
  BY NumberAssumption DEF NumberAssumption, Rounded, Reads, Decoded

LEMMA RoundedNear ==
  ASSUME NEW v, NEW w, Rounded(v, w)
  PROVE  \/ w = v
         \/ /\ v > MaxExact /\ w \in Nat
            /\ MaxExact * Distance(v, w) <= v + w
<1>1. IsNumber(v) /\ IsNumber(w) /\ Nearest(w) = Nearest(v)
  BY NumberAssumption DEF NumberAssumption, Rounded, Reads
<1>2. v \in Nat /\ w \in Nat /\ MaxExact \in Nat
  BY <1>1, NumberAssumption DEF IsNumber, NumberAssumption
<1>3. PICK f \in Nat : f = Nearest(v) /\ f = Nearest(w)
  BY <1>1, NearestNear
<1>4. CASE v <= MaxExact
  <2>1. f = v
    BY <1>1, <1>3, <1>4, NearestNear
  <2>2. w = Printed[f] /\ f \in DOMAIN Printed
    BY <1>3 DEF Rounded, Reads
  <2>3. w = f
    BY <1>4, <2>1, <2>2, NumberAssumption DEF NumberAssumption
  <2>4. QED
    BY <2>1, <2>3
<1>5. CASE v > MaxExact
  <2>1. PICK d \in Nat, e \in Nat, g \in Nat :
          d = Distance(v, f) /\ e = Distance(w, f) /\ g = Distance(v, w)
    <3>1. \A a, b \in Nat : Distance(a, b) \in Nat
      BY DEF Distance
    <3>2. QED
      BY <1>2, <1>3, <3>1, Zenon
  <2>2. g <= d + e
    BY <1>2, <1>3, <2>1 DEF Distance
  <2>3. MaxExact * d <= v /\ MaxExact * e <= w
    BY <1>1, <1>3, <2>1, NearestNear
  <2>4. \A m, a, b, c \in Nat : a <= b + c => m * a <= m * b + m * c
    OBVIOUS
  <2>5. MaxExact * g <= MaxExact * d + MaxExact * e
    BY <1>2, <2>1, <2>2, <2>4
  <2>6. MaxExact * d \in Nat /\ MaxExact * e \in Nat /\ MaxExact * g \in Nat
    BY <1>2, <2>1
  <2>7. MaxExact * g <= v + w
    BY <1>2, <2>3, <2>5, <2>6
  <2>8. QED
    BY <1>2, <1>5, <2>1, <2>7, Zenon
<1>6. QED
  BY <1>2, <1>4, <1>5

MaskedBehind(f) == \E i \in Behind : chain[i].does = "mask" /\ f \in chain[i].fields

(* A number has been rounded once at most.                                 *)
FieldInv ==
  IsObject(ev.payload) =>
    /\ IsObject(input.payload)
    /\ DOMAIN ev.payload.fields = DOMAIN input.payload.fields
    /\ \A f \in DOMAIN ev.payload.fields :
         \/ MaskedBehind(f)
         \/ ev.payload.fields[f] = input.payload.fields[f]
         \/ Rounded(input.payload.fields[f], ev.payload.fields[f])

LEMMA FieldInvStep ==
  ASSUME Shape, FieldInv, [Next]_vars
  PROVE  FieldInv'
<1>0. DOMAIN chain = 1..Len(chain) /\ Len(chain) \in Nat /\ at \in 1..(Len(chain) + 1)
  BY CallAssumption DEF CallAssumption, Shape
<1>1. ASSUME Passes, NEW f
      PROVE  MaskedBehind(f) => MaskedBehind(f)'
  BY <1>0, <1>1 DEF Passes, MaskedBehind, Behind
<1>2. ASSUME Passes, ev'.payload = ev.payload
      PROVE  FieldInv'
  <2>1. input' = input
    BY <1>2 DEF Passes
  <2>2. QED
    BY <1>1, <1>2, <2>1, Zenon DEF FieldInv, IsObject
<1>3. CASE MaskField
  <2>1. Passes
    BY <1>3, MaskStep
  <2>2. CASE ~IsObject(ev.payload)
    <3>1. ev' = ev
      BY <1>3, <2>2 DEF MaskField, Becomes
    <3>2. QED
      BY <1>2, <2>1, <3>1
  <2>3. CASE IsObject(ev.payload)
    <3> DEFINE old == ev.payload.fields
               new == ev'.payload.fields
               first == input.payload.fields
    <3>1. new = MaskFields(old, chain[at].fields)
      BY <1>3, <2>3 DEF MaskField, Becomes, Shape
    <3>2. DOMAIN new = DOMAIN old
      BY <3>1 DEF MaskFields
    <3>3. input' = input /\ IsObject(input.payload) /\ DOMAIN old = DOMAIN first
      BY <2>1, <2>3 DEF Passes, FieldInv
    <3>4. ASSUME NEW f \in DOMAIN old
          PROVE  \/ MaskedBehind(f)'
                 \/ new[f] = first[f]
                 \/ Rounded(first[f], new[f])
      <4>1. CASE f \in chain[at].fields
        <5>1. at \in Behind' /\ chain' = chain
          BY <1>0, <2>1 DEF Passes, Behind
        <5>2. chain[at].does = "mask"
          BY <1>3, MaskStep
        <5>3. QED
          BY <4>1, <5>1, <5>2 DEF MaskedBehind
      <4>2. CASE f \notin chain[at].fields
        <5>1. new[f] = Decoded(old[f])
          BY <3>1, <4>2 DEF MaskFields
        <5>2. MaskedBehind(f) \/ old[f] = first[f] \/ Rounded(first[f], old[f])
          BY <2>3, <3>4 DEF FieldInv
        <5>3. CASE MaskedBehind(f)
          BY <1>1, <2>1, <5>3
        <5>4. CASE old[f] = first[f]
          <6>1. Reads(first[f])
            BY <3>3, <3>4, NumberAssumption DEF NumberAssumption, Shape, IsObject, Reads
          <6>2. CASE first[f] = Mask
            BY <5>1, <5>4, <6>2 DEF Decoded
          <6>3. CASE first[f] # Mask
            BY <5>1, <5>4, <6>1, <6>3 DEF Decoded, Rounded
          <6>4. QED
            BY <6>2, <6>3
        <5>5. CASE Rounded(first[f], old[f])
          <6>1. Decoded(old[f]) = old[f]
            BY <5>5, RoundedOnce
          <6>2. QED
            BY <5>1, <5>5, <6>1
        <5>6. QED
          BY <5>2, <5>3, <5>4, <5>5
      <4>3. QED
        BY <4>1, <4>2
    <3>5. QED
      BY <3>2, <3>3, <3>4, Zenon DEF FieldInv
  <2>4. QED
    BY <2>2, <2>3
<1>4. CASE Drops \/ ChainEnds \/ UNCHANGED vars
  BY <1>4 DEF Drops, ChainEnds, vars, FieldInv, MaskedBehind, Behind, IsObject
<1>5. QED
  BY <1>2, <1>3, <1>4, NextCases, FilterStep, HeaderStep, HeaderKeepsRest

(* For every chain and all 64-bit integers: what no MaskField of the chain *)
(* names keeps its value, or, beyond MaxExact, changes by the rounding of  *)
(* one float64 and of its printed form; a chain of masks does not drift.   *)
THEOREM OthersKept == Spec => []OtherFieldsKept
<1>1. Init => FieldInv
  BY DEF Init, FieldInv
<1>2. Shape /\ FilterInv /\ FieldInv => OtherFieldsKept
  <2> SUFFICES ASSUME Shape, FilterInv, FieldInv, outcome = "kept",
                      IsObject(ev.payload), NEW f \in DOMAIN ev.payload.fields,
                      NEW before, before = input.payload.fields[f],
                      NEW after, after = ev.payload.fields[f]
               PROVE  \/ \E i \in DOMAIN chain :
                           chain[i].does = "mask" /\ f \in chain[i].fields
                      \/ after = before
                      \/ /\ before > MaxExact /\ after \in Nat
                         /\ MaxExact * Distance(before, after) <= before + after
    BY DEF OtherFieldsKept
  <2>1. Behind = DOMAIN chain
    BY CallAssumption DEF CallAssumption, Shape, FilterInv, Behind
  <2>2. MaskedBehind(f) \/ after = before \/ Rounded(before, after)
    BY DEF FieldInv
  <2>3. QED
    BY <2>1, <2>2, RoundedNear, Zenon DEF MaskedBehind
<1>3. Init => FilterInv
  BY DEF Init, FilterInv, Behind
<1> QED
  BY <1>1, <1>2, <1>3, FieldInvStep, FilterInvStep, ShapeInvariant, PTL DEF Spec

-----------------------------------------------------------------------------
(* RateLimit.                                                              *)
Waits == \E c \in Callers : wake[c] # 0

LEMMA FullType ==
  Full \in Nat /\ Grain \in Nat \ {0} /\ Grain <= Full /\ MaxTime \in Nat
<1>1. \A n \in Nat \ {0} : \A g \in Nat : n * g \in Nat /\ g <= n * g
  OBVIOUS
<1>2. QED
  BY <1>1, RateAssumption DEF RateAssumption, Full

LEMMA RefilledType ==
  ASSUME TypeOK
  PROVE  Refilled \in 0..Full /\ tokens <= Refilled
  BY FullType DEF TypeOK, Refilled

LEMMA RateTypeStep ==
  ASSUME TypeOK, [RateNext]_rateVars
  PROVE  TypeOK'
<1>0. /\ Full \in Nat /\ Grain \in Nat \ {0} /\ Grain <= Full /\ MaxTime \in Nat
      /\ Refilled \in 0..Full
  BY FullType, RefilledType
<1>1. ASSUME LetThrough
      PROVE  passed' \in Seq(0..MaxTime)
  BY <1>0, <1>1 DEF LetThrough, TypeOK
<1>2. CASE Tick
  BY <1>0, <1>2 DEF Tick, TypeOK, Full
<1>3. CASE Cancel
  BY <1>0, <1>3 DEF Cancel, TypeOK, Full
<1>4. ASSUME NEW c \in Callers, Take(c)
      PROVE  TypeOK'
  BY <1>0, <1>1, <1>4 DEF Take, TypeOK, Full
<1>5. ASSUME NEW c \in Callers, Wait(c)
      PROVE  TypeOK'
  BY <1>0, <1>5 DEF Wait, TypeOK, Full
<1>6. ASSUME NEW c \in Callers, Wake(c)
      PROVE  TypeOK'
  BY <1>0, <1>1, <1>6 DEF Wake, TypeOK, Full
<1>7. ASSUME NEW c \in Callers, GiveUp(c)
      PROVE  TypeOK'
  BY <1>0, <1>7 DEF GiveUp, TypeOK, Full
<1>8. CASE UNCHANGED rateVars
  BY <1>8 DEF rateVars, TypeOK, Full
<1>9. QED
  BY <1>2, <1>3, <1>4, <1>5, <1>6, <1>7, <1>8 DEF RateNext, Call

(* The bucket never holds more than it can, nor less than nothing, for any *)
(* number of callers.                                                      *)
THEOREM RateTypeCorrect == RateSpec => []TypeOK
<1>1. RateInit => TypeOK
  <2> SUFFICES ASSUME RateInit PROVE TypeOK
    OBVIOUS
  <2>1. cancelled \in BOOLEAN
    BY Zenon DEF RateInit
  <2>2. /\ now \in 0..MaxTime /\ tokens \in 0..Full /\ last \in 0..now
        /\ wake \in [Callers -> 0..(MaxTime + Grain)] /\ passed \in Seq(0..MaxTime)
    BY FullType DEF RateInit
  <2>3. QED
    BY <2>1, <2>2, Zenon DEF TypeOK
<1>2. TypeOK /\ [RateNext]_rateVars => TypeOK'
  BY RateTypeStep
<1>3. QED
  BY <1>1, <1>2, PTL DEF RateSpec

-----------------------------------------------------------------------------
(* What the events from i to n were worth.                                 *)
Since(i, n) == (n - i + 1) * Grain

WaitInv ==
  \A c \in Callers : wake[c] # 0 => tokens < Grain /\ wake[c] = last + (Grain - tokens)

(* A call that waits gives up the tokens it found, but not the time: it is *)
(* refilled from `last' on by the next call.                               *)
BucketInv ==
  \A i \in DOMAIN passed :
    LET spent == Since(i, Len(passed)) IN
      /\ Waits => spent + tokens + 2 * passed[i] <= Full + Grain + 2 * last
      /\ ~Waits => spent + Refilled + 2 * passed[i] <= Full + Grain + 2 * now

LEMMA SinceType ==
  ASSUME NEW i \in Nat, NEW n \in Nat, i <= n
  PROVE  Since(i, n) \in Nat
<1>1. \A k \in Nat, g \in Nat : k * g \in Nat
  OBVIOUS
<1>2. Grain \in Nat /\ n - i + 1 \in Nat
  BY FullType
<1>3. QED
  BY <1>1, <1>2 DEF Since

LEMMA SinceMore ==
  ASSUME NEW i \in Nat, NEW n \in Nat
  PROVE  Since(i, n + 1) = Since(i, n) + Grain /\ Since(n + 1, n + 1) = Grain
<1>1. \A k \in Int, g \in Nat : (k + 1) * g = k * g + g
  OBVIOUS
<1>2. \A g \in Nat : 1 * g = g
  OBVIOUS
<1>3. /\ Grain \in Nat /\ n - i + 1 \in Int
      /\ (n + 1) - i + 1 = (n - i + 1) + 1 /\ (n + 1) - (n + 1) + 1 = 1
  BY FullType
<1>4. Since(i, n + 1) = Since(i, n) + Grain
  BY <1>1, <1>3 DEF Since
<1>5. QED
  BY <1>2, <1>3, <1>4, Zenon DEF Since

LEMMA Passed ==
  ASSUME TypeOK, LetThrough
  PROVE  /\ DOMAIN passed = 1..Len(passed) /\ Len(passed) \in Nat
         /\ DOMAIN passed' = 1..(Len(passed) + 1)
         /\ Len(passed') = Len(passed) + 1
         /\ \A i \in DOMAIN passed : passed'[i] = passed[i] /\ passed[i] \in Nat
         /\ passed'[Len(passed) + 1] = now
<1>1. PICK s : s = passed'
  OBVIOUS
<1>2. /\ DOMAIN passed = 1..Len(passed) /\ Len(passed) \in Nat
      /\ DOMAIN s = 1..(Len(passed) + 1)
      /\ Len(s) = Len(passed) + 1
      /\ \A i \in DOMAIN passed : s[i] = passed[i] /\ passed[i] \in Nat
      /\ s[Len(passed) + 1] = now
  BY <1>1, FullType DEF LetThrough, TypeOK
<1>3. QED
  BY <1>1, <1>2, Zenon

(* With one caller, either it waits or nobody does.                        *)
LEMMA Waiting ==
  ASSUME OneCaller, NEW c \in Callers
  PROVE  Waits <=> wake[c] # 0
  BY DEF OneCaller, Waits

LEMMA WaitingNext ==
  ASSUME OneCaller, TypeOK, TypeOK', NEW c \in Callers, NEW v, wake' = [wake EXCEPT ![c] = v]
  PROVE  /\ Waits' <=> v # 0
         /\ \A d \in Callers : wake'[d] = v
  BY DEF OneCaller, Waits, TypeOK

LEMMA WaitStep ==
  ASSUME OneCaller, TypeOK, TypeOK', WaitInv, [RateNext]_rateVars
  PROVE  WaitInv'
<1>0. Full \in Nat /\ Grain \in Nat \ {0} /\ Refilled \in 0..Full
  BY FullType, RefilledType
<1>1. CASE Tick \/ Cancel \/ UNCHANGED rateVars
  <2>1. wake' = wake /\ tokens' = tokens /\ last' = last
    BY <1>1, Zenon DEF Tick, Cancel, rateVars
  <2>2. QED
    BY <2>1, Zenon DEF WaitInv
<1>2. ASSUME NEW c \in Callers, Take(c)
      PROVE  WaitInv'
  <2>1. wake' = wake /\ \A d \in Callers : wake[d] = 0
    BY <1>2, Waiting DEF Take, OneCaller
  <2>2. QED
    BY <2>1, Zenon DEF WaitInv
<1>3. ASSUME NEW c \in Callers, Wait(c)
      PROVE  WaitInv'
  <2>1. /\ tokens' = Refilled /\ Refilled < Grain /\ last' = now
        /\ \A d \in Callers : wake'[d] = now + (Grain - Refilled)
    BY <1>3, WaitingNext DEF Wait
  <2>2. \A d \in Callers : tokens' < Grain /\ wake'[d] = last' + (Grain - tokens')
    BY <2>1, Zenon
  <2>3. QED
    BY <2>2 DEF WaitInv
<1>4. ASSUME NEW c \in Callers, wake' = [wake EXCEPT ![c] = 0]
      PROVE  WaitInv'
  BY <1>4, WaitingNext DEF WaitInv
<1>5. QED
  BY <1>1, <1>2, <1>3, <1>4, Zenon DEF RateNext, Call, Wake, GiveUp

Fill(t, n, l) == IF t + (n - l) > Full THEN Full ELSE t + (n - l)

LEMMA FillIs ==
  ASSUME NEW t, NEW n, NEW l, t = tokens', n = now', l = last'
  PROVE  Refilled' = Fill(t, n, l)
  BY Zenon DEF Refilled, Fill, Full

LEMMA FillGrows ==
  ASSUME TypeOK, NEW t \in Nat, NEW n \in Nat, NEW l \in 0..n
  PROVE  /\ Fill(t, n, l) \in Nat /\ Fill(t, n, l) <= t + (n - l)
         /\ Fill(t, n, l) <= Full
         /\ Fill(t, n + 1, l) <= Fill(t, n, l) + 1
         /\ t <= Full => Fill(t, n, n) = t
  BY FullType DEF Fill

LEMMA Sums ==
  ASSUME NEW s \in Nat, NEW p \in Nat, NEW f \in Nat, NEW full \in Nat,
         NEW a \in Nat, NEW b \in Nat, NEW n \in Nat, NEW m \in 0..n
  PROVE  /\ s + a + 2 * p <= full + b + 2 * m /\ f <= a + (n - m)
              => s + f + 2 * p <= full + b + 2 * n
  OBVIOUS

(* A step in which no event passes: the bound for one event.               *)
LEMMA QuietStep ==
  ASSUME TypeOK, BucketInv, TypeOK',
         passed' = passed,
         NEW t \in Nat, NEW n \in Nat, NEW l \in 0..n, t = tokens', n = now', l = last',
         \/ Waits /\ Waits' /\ t = tokens /\ l = last
         \/ Waits /\ ~Waits' /\ t = tokens /\ l = last /\ n = now
         \/ ~Waits /\ Waits' /\ t = Refilled /\ l = now /\ n = now
         \/ ~Waits /\ ~Waits' /\ n >= now /\ Fill(t, n, l) <= Refilled + (n - now)
  PROVE  BucketInv'
<1>0. /\ now \in Nat /\ last \in 0..now /\ tokens \in Nat /\ Full \in Nat /\ Grain \in Nat
      /\ Refilled \in Nat
      /\ DOMAIN passed = 1..Len(passed) /\ Len(passed) \in Nat
      /\ \A i \in DOMAIN passed : passed[i] \in Nat
  <2>1. now \in Nat /\ last \in 0..now /\ tokens \in Nat
    BY FullType DEF TypeOK
  <2>2. Full \in Nat /\ Grain \in Nat /\ Refilled \in Nat
    BY FullType, RefilledType
  <2>3. passed \in Seq(Nat)
    BY FullType DEF TypeOK
  <2>4. /\ DOMAIN passed = 1..Len(passed) /\ Len(passed) \in Nat
        /\ \A i \in DOMAIN passed : passed[i] \in Nat
    BY <2>3
  <2>5. QED
    BY <2>1, <2>2, <2>4, Zenon
<1>1. Refilled' = Fill(t, n, l) /\ Fill(t, n, l) \in Nat /\ Fill(t, n, l) <= t + (n - l)
  BY FillIs, FillGrows
<1>2. SUFFICES ASSUME NEW i \in DOMAIN passed
      PROVE  /\ Waits' => Since(i, Len(passed)) + t + 2 * passed[i] <= Full + Grain + 2 * l
             /\ ~Waits' => Since(i, Len(passed)) + Fill(t, n, l) + 2 * passed[i]
                             <= Full + Grain + 2 * n
  <2>1. /\ DOMAIN passed' = DOMAIN passed
        /\ \A i \in DOMAIN passed :
             passed'[i] = passed[i] /\ Since(i, Len(passed))' = Since(i, Len(passed))
        /\ Full' = Full
    BY Zenon DEF Since, Full
  <2>2. QED
    BY <1>1, <1>2, <2>1, Zenon DEF BucketInv
<1>3. PICK s \in Nat : s = Since(i, Len(passed))
  <2>1. i \in Nat /\ i <= Len(passed) /\ Len(passed) \in Nat
    BY <1>0
  <2>2. QED
    BY <2>1, SinceType
<1>4. /\ Waits => s + tokens + 2 * passed[i] <= Full + Grain + 2 * last
      /\ ~Waits => s + Refilled + 2 * passed[i] <= Full + Grain + 2 * now
  BY <1>3, Zenon DEF BucketInv
<1>5. PICK p \in Nat, f \in Nat, r \in Nat :
        p = passed[i] /\ f = Fill(t, n, l) /\ r = Refilled /\ f <= t + (n - l)
  BY <1>0, <1>1
<1>6. CASE Waits /\ Waits' /\ t = tokens /\ l = last
  BY <1>3, <1>4, <1>6, Zenon
<1>7. CASE Waits /\ ~Waits' /\ t = tokens /\ l = last /\ n = now
  <2>1. s + t + 2 * p <= Full + Grain + 2 * l
    BY <1>4, <1>5, <1>7, Zenon
  <2>2. s + f + 2 * p <= Full + Grain + 2 * n
    BY <1>0, <1>5, <2>1, Sums, Zenon
  <2>3. QED
    BY <1>3, <1>5, <1>7, <2>2, Zenon
<1>8. CASE ~Waits /\ Waits' /\ t = Refilled /\ l = now /\ n = now
  BY <1>3, <1>4, <1>8, Zenon
<1>9. CASE ~Waits /\ ~Waits' /\ n >= now /\ Fill(t, n, l) <= Refilled + (n - now)
  <2>1. s + r + 2 * p <= Full + Grain + 2 * now /\ f <= r + (n - now) /\ n >= now
    BY <1>4, <1>5, <1>9, Zenon
  <2>2. s + f + 2 * p <= Full + Grain + 2 * n
    <3>1. now \in 0..n
      BY <1>0, <2>1
    <3>2. QED
      BY <1>0, <2>1, <3>1, Sums, Zenon
  <2>3. QED
    BY <1>3, <1>5, <1>9, <2>2, Zenon
<1>10. QED
  BY <1>6, <1>7, <1>8, <1>9, Zenon

(* A step in which an event passes: nobody waits behind it, and what those *)
(* before it have used is paid for by the bucket, or by the time waited.   *)
LEMMA PassStep ==
  ASSUME TypeOK, BucketInv, TypeOK', LetThrough, ~Waits',
         NEW t \in Nat, NEW n \in Nat, NEW l \in 0..n,
         t = tokens', n = now', l = last', n = now,
         \/ ~Waits /\ Refilled >= Grain /\ Fill(t, n, l) = Refilled - Grain
         \/ Waits /\ last = l /\ t = 0 /\ tokens < Grain /\ now >= last + (Grain - tokens)
  PROVE  BucketInv'
<1>0. /\ now \in Nat /\ last \in 0..now /\ tokens \in Nat /\ Full \in Nat /\ Grain \in Nat
      /\ Refilled \in Nat
  BY FullType, RefilledType DEF TypeOK
<1>1. /\ Refilled' = Fill(t, n, l) /\ Fill(t, n, l) \in Nat
      /\ Fill(t, n, l) <= t + (n - l) /\ Fill(t, n, l) <= Full
  BY FillIs, FillGrows
<1> DEFINE k == Len(passed)
<1>2. /\ DOMAIN passed = 1..k /\ k \in Nat
      /\ DOMAIN passed' = 1..(k + 1) /\ Len(passed') = k + 1
      /\ \A i \in DOMAIN passed : passed'[i] = passed[i] /\ passed[i] \in Nat
      /\ passed'[k + 1] = now
  BY Passed
<1>3. SUFFICES ASSUME NEW i \in 1..(k + 1)
      PROVE  Since(i, k + 1) + Fill(t, n, l) + 2 * passed'[i] <= Full + Grain + 2 * n
  <2>1. Full' = Full
    BY Zenon DEF Full
  <2>2. \A i \in DOMAIN passed' :
          Since(i, Len(passed'))  + Refilled' + 2 * passed'[i] <= Full' + Grain + 2 * now'
    BY <1>1, <1>2, <1>3, <2>1, Zenon
  <2>3. QED
    BY <2>2, Zenon DEF BucketInv, Since
<1>4. PICK f \in Nat : f = Fill(t, n, l) /\ f <= t + (n - l) /\ f <= Full
  BY <1>1, Zenon
<1>5. CASE i = k + 1
  <2>1. Since(k + 1, k + 1) = Grain
    BY <1>2, SinceMore
  <2>2. \A a, b, c, d \in Nat : a <= b => c + a + 2 * d <= b + c + 2 * d
    OBVIOUS
  <2>3. Grain + f + 2 * n <= Full + Grain + 2 * n
    BY <1>0, <1>4, <2>2
  <2>4. QED
    BY <1>2, <1>4, <1>5, <2>1, <2>3, Zenon
<1>6. CASE i \in 1..k
  <2>1. PICK p \in Nat : p = passed[i] /\ p = passed'[i]
    BY <1>2, <1>6
  <2>2. i \in Nat /\ i <= k /\ k \in Nat
    BY <1>2, <1>6
  <2>3. PICK s \in Nat : s = Since(i, k) /\ Since(i, k + 1) = s + Grain
    <3>1. Since(i, k) \in Nat
      BY <2>2, SinceType
    <3>2. Since(i, k + 1) = Since(i, k) + Grain
      BY <2>2, SinceMore
    <3>3. QED
      BY <3>1, <3>2
  <2>4. /\ Waits => s + tokens + 2 * p <= Full + Grain + 2 * last
        /\ ~Waits => s + Refilled + 2 * p <= Full + Grain + 2 * now
    BY <1>2, <1>6, <2>1, <2>3, Zenon DEF BucketInv
  <2>5. CASE ~Waits /\ Refilled >= Grain /\ Fill(t, n, l) = Refilled - Grain
    <3>1. \A r, g, q, b \in Nat : r >= g /\ q = r - g /\ s + r + 2 * p <= b
            => (s + g) + q + 2 * p <= b
      OBVIOUS
    <3>2. Full + Grain + 2 * now \in Nat
      BY <1>0
    <3>3. f = Refilled - Grain /\ s + Refilled + 2 * p <= Full + Grain + 2 * now
      BY <1>4, <2>4, <2>5, Zenon
    <3>4. (s + Grain) + f + 2 * p <= Full + Grain + 2 * now
      BY <1>0, <2>5, <3>1, <3>2, <3>3, Zenon
    <3>5. QED
      BY <1>4, <2>1, <2>3, <3>4, Zenon
  <2>6. CASE Waits /\ last = l /\ t = 0 /\ tokens < Grain /\ now >= last + (Grain - tokens)
    <3>1. \A g, q, b, c, m \in Nat : \A h \in 0..m :
            q < g /\ m >= h + (g - q) /\ c <= 0 + (m - h)
              /\ s + q + 2 * p <= b + g + 2 * h
            => (s + g) + c + 2 * p <= b + g + 2 * m
      OBVIOUS
    <3>2. (s + Grain) + f + 2 * p <= Full + Grain + 2 * now
      BY <1>0, <1>4, <2>4, <2>6, <3>1, Zenon
    <3>3. QED
      BY <1>4, <2>1, <2>3, <3>2, Zenon
  <2>7. QED
    BY <2>5, <2>6, Zenon
<1>7. QED
  BY <1>2, <1>5, <1>6

LEMMA BucketStep ==
  ASSUME OneCaller, TypeOK, TypeOK', WaitInv, BucketInv,
         [RateNext]_rateVars
  PROVE  BucketInv'
<1>0. /\ now \in Nat /\ last \in 0..now /\ tokens \in Nat /\ Full \in Nat
      /\ Grain \in Nat \ {0} /\ Refilled \in 0..Full /\ tokens <= Full
      /\ Refilled = Fill(tokens, now, last)
  BY FullType, RefilledType DEF TypeOK, Refilled, Fill
<1>1. PICK t \in Nat, n \in Nat, l \in Nat :
        t = tokens' /\ n = now' /\ l = last' /\ l \in 0..n
  BY FullType DEF TypeOK, Full
<1>2. CASE Tick
  <2>1. /\ passed' = passed /\ wake' = wake /\ t = tokens /\ l = last /\ n = now + 1
    BY <1>1, <1>2, Zenon DEF Tick
  <2>2. Waits' <=> Waits
    BY <2>1, Zenon DEF Waits
  <2>3. n >= now /\ Fill(t, n, l) <= Refilled + (n - now)
    <3>1. Fill(tokens, now + 1, last) <= Fill(tokens, now, last) + 1
      BY <1>0, FillGrows
    <3>2. (now + 1) - now = 1 /\ now + 1 >= now
      BY <1>0
    <3>3. QED
      BY <1>0, <2>1, <3>1, <3>2, Zenon
  <2>4. QED
    BY <1>1, <2>1, <2>2, <2>3, QuietStep, Zenon
<1>3. CASE Cancel \/ UNCHANGED rateVars
  <2>1. /\ passed' = passed /\ wake' = wake /\ t = tokens /\ l = last /\ n = now
    BY <1>1, <1>3, Zenon DEF Cancel, rateVars
  <2>2. Waits' <=> Waits
    BY <2>1, Zenon DEF Waits
  <2>3. n >= now /\ Fill(t, n, l) <= Refilled + (n - now)
    <3>1. now >= now /\ Refilled <= Refilled + (now - now)
      BY <1>0
    <3>2. QED
      BY <1>0, <2>1, <3>1, Zenon
  <2>4. QED
    BY <1>1, <2>1, <2>2, <2>3, QuietStep, Zenon
<1>4. ASSUME NEW c \in Callers, Take(c)
      PROVE  BucketInv'
  <2>1. /\ wake[c] = 0 /\ wake' = wake /\ Refilled >= Grain
        /\ t = Refilled - Grain /\ l = now /\ n = now /\ LetThrough
    BY <1>1, <1>4, Zenon DEF Take
  <2>2. ~Waits /\ ~Waits'
    <3>1. ~Waits
      BY <2>1, Waiting
    <3>2. QED
      BY <2>1, <3>1, Zenon DEF Waits
  <2>3. Fill(t, n, l) = Refilled - Grain
    <3>1. t <= Full
      BY <1>0, <2>1
    <3>2. QED
      BY <1>1, <2>1, <3>1, FillGrows, Zenon
  <2>4. QED
    BY <1>1, <2>1, <2>2, <2>3, PassStep, Zenon
<1>5. ASSUME NEW c \in Callers, Wait(c)
      PROVE  BucketInv'
  <2>1. /\ wake[c] = 0 /\ passed' = passed
        /\ Refilled < Grain /\ wake' = [wake EXCEPT ![c] = now + (Grain - Refilled)]
        /\ t = Refilled /\ l = now /\ n = now
    BY <1>1, <1>5, Zenon DEF Wait
  <2>2. ~Waits
    BY <2>1, Waiting
  <2>3. Waits'
    <3>1. now + (Grain - Refilled) # 0
      BY <1>0, <2>1
    <3>2. QED
      BY <2>1, <3>1, WaitingNext
  <2>4. QED
    BY <1>1, <2>1, <2>2, <2>3, QuietStep, Zenon
<1>6. ASSUME NEW c \in Callers, Wake(c)
      PROVE  BucketInv'
  <2>1. /\ wake[c] # 0 /\ now >= wake[c] /\ wake' = [wake EXCEPT ![c] = 0]
        /\ t = 0 /\ l = last /\ n = now /\ LetThrough
    BY <1>1, <1>6, Zenon DEF Wake
  <2>2. Waits /\ ~Waits'
    BY <2>1, Waiting, WaitingNext
  <2>3. tokens < Grain /\ now >= last + (Grain - tokens)
    BY <2>1, Zenon DEF WaitInv
  <2>4. QED
    BY <1>1, <2>1, <2>2, <2>3, PassStep, Zenon
<1>7. ASSUME NEW c \in Callers, GiveUp(c)
      PROVE  BucketInv'
  <2>1. /\ wake[c] # 0 /\ wake' = [wake EXCEPT ![c] = 0]
        /\ t = tokens /\ l = last /\ n = now /\ passed' = passed
    BY <1>1, <1>7, Zenon DEF GiveUp
  <2>2. Waits /\ ~Waits'
    BY <2>1, Waiting, WaitingNext
  <2>3. QED
    BY <1>1, <2>1, <2>2, QuietStep, Zenon
<1>8. QED
  BY <1>2, <1>3, <1>4, <1>5, <1>6, <1>7, Zenon DEF RateNext, Call

LEMMA RateStep ==
  ASSUME OneCaller, TypeOK, TypeOK', WaitInv', BucketInv', TwiceTheRate,
         [RateNext]_rateVars
  PROVE  TwiceTheRate'
<1>1. CASE passed' = passed
  BY <1>1, Zenon DEF TwiceTheRate, Full
<1>2. ASSUME LetThrough, ~Waits', now' = now
      PROVE  TwiceTheRate'
  <2> DEFINE k == Len(passed)
  <2>0. /\ now \in Nat /\ Full \in Nat /\ Grain \in Nat
    BY FullType DEF TypeOK
  <2>1. /\ DOMAIN passed = 1..k /\ k \in Nat
        /\ DOMAIN passed' = 1..(k + 1) /\ Len(passed') = k + 1
        /\ \A i \in DOMAIN passed : passed'[i] = passed[i] /\ passed[i] \in Nat
        /\ passed'[k + 1] = now
    BY <1>2, Passed
  <2>2. PICK s : s = passed'
    OBVIOUS
  <2>3. \A i \in 1..(k + 1) :
          Since(i, k + 1) + Refilled' + 2 * s[i] <= Full + Grain + 2 * now
    <3>1. Full' = Full
      BY Zenon DEF Full
    <3>2. \A i \in DOMAIN passed' :
            Since(i, Len(passed')) + Refilled' + 2 * passed'[i]
              <= Full' + Grain + 2 * now'
      BY <1>2, Zenon DEF BucketInv, Since
    <3>3. QED
      BY <1>2, <2>1, <2>2, <3>1, <3>2, Zenon
  <2>4. PICK r \in Nat : r = Refilled'
    <3>1. PICK t \in Nat, n \in Nat, l \in Nat :
        t = tokens' /\ n = now' /\ l = last' /\ l \in 0..n
      BY FullType DEF TypeOK, Full
    <3>2. QED
      BY <3>1, FillIs, FillGrows
  <2>5. ASSUME NEW i \in 1..(k + 1), NEW j \in 1..(k + 1), i <= j
        PROVE  (j - i + 1) * Grain <= Full + Grain + 2 * (s[j] - s[i])
    <3>1. CASE j \in 1..k
      <4>1. i \in 1..k
        BY <2>1, <2>5, <3>1
      <4>2. s[i] = passed[i] /\ s[j] = passed[j]
        BY <2>1, <2>2, <3>1, <4>1, Zenon
      <4>3. QED
        BY <2>1, <2>5, <3>1, <4>1, <4>2, Zenon DEF TwiceTheRate
    <3>2. CASE j = k + 1
      <4>1. PICK p \in Nat : p = s[i]
        <5>1. i \in 1..k \/ i = k + 1
          BY <2>1
        <5>2. QED
          BY <2>0, <2>1, <2>2, <5>1, Zenon
      <4>2. PICK w \in Nat : w = Since(i, k + 1)
        BY <2>1, SinceType
      <4>3. w + r + 2 * p <= Full + Grain + 2 * now
        BY <2>3, <2>4, <4>1, <4>2, Zenon
      <4>4. \A a, b, c, d, e \in Nat : a + b + 2 * c <= d + 2 * e => a <= d + 2 * (e - c)
        OBVIOUS
      <4>5. Full + Grain \in Nat
        BY <2>0
      <4>6. w <= Full + Grain + 2 * (now - p)
        BY <2>0, <4>3, <4>4, <4>5, Zenon
      <4>7. s[j] = now
        BY <2>1, <2>2, <3>2, Zenon
      <4>8. QED
        BY <3>2, <4>1, <4>2, <4>6, <4>7, Zenon DEF Since
    <3>3. QED
      BY <2>1, <3>1, <3>2
  <2>6. QED
    BY <2>1, <2>2, <2>5, Zenon DEF TwiceTheRate, Full
<1>3. ASSUME NEW c \in Callers, Take(c)
      PROVE  LetThrough /\ ~Waits' /\ now' = now
  <2>1. wake[c] = 0 /\ wake' = wake /\ LetThrough /\ now' = now
    BY <1>3, Zenon DEF Take
  <2>2. ~Waits
    BY <2>1, Waiting
  <2>3. QED
    BY <2>1, <2>2, Zenon DEF Waits
<1>4. ASSUME NEW c \in Callers, Wake(c)
      PROVE  LetThrough /\ ~Waits' /\ now' = now
  <2>1. wake' = [wake EXCEPT ![c] = 0] /\ LetThrough /\ now' = now
    BY <1>4, Zenon DEF Wake
  <2>2. QED
    BY <2>1, WaitingNext
<1>5. \/ passed' = passed \/ \E c \in Callers : Take(c) \/ Wake(c)
  BY Zenon DEF RateNext, Call, Tick, Cancel, Wait, GiveUp, rateVars
<1>6. QED
  BY <1>1, <1>2, <1>3, <1>4, <1>5, Zenon

(* transform.go:68, for one caller, any rate and any length of time: no    *)
(* stretch of time has more events than a full bucket, one, and twice the  *)
(* rate.  (Callers that wait at once all pass for the same token.)         *)
THEOREM RateIsBounded ==
  ASSUME OneCaller
  PROVE  RateSpec => []TwiceTheRate
<1>1. RateInit => WaitInv /\ BucketInv /\ TwiceTheRate
  <2> SUFFICES ASSUME RateInit PROVE WaitInv /\ BucketInv /\ TwiceTheRate
    OBVIOUS
  <2>1. \A c \in Callers : wake[c] = 0
    BY DEF RateInit
  <2>2. DOMAIN passed = {}
    BY DEF RateInit
  <2>3. QED
    BY <2>1, <2>2, Zenon DEF WaitInv, BucketInv, TwiceTheRate
<1>2. TypeOK /\ TypeOK' /\ WaitInv /\ BucketInv /\ [RateNext]_rateVars
        => WaitInv' /\ BucketInv'
  BY WaitStep, BucketStep
<1>3. TypeOK /\ TypeOK' /\ WaitInv' /\ BucketInv' /\ TwiceTheRate /\ [RateNext]_rateVars
        => TwiceTheRate'
  BY RateStep
<1>4. QED
  BY <1>1, <1>2, <1>3, RateTypeCorrect, PTL DEF RateSpec
=============================================================================
