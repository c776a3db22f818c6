----------------------------- MODULE Transforms -----------------------------
(***************************************************************************)
(* The transforms of transform.go that keep no memory, and applyTransforms *)
(* of engine.go, which runs a chain of them over an event.  FilterRelay    *)
(* has the ones that remember, RateLimit the one that waits.               *)
(*                                                                         *)
(* An event is [type, op, payload, headers].  Its payload is nil, JSON     *)
(* that is not an object, or an object, of which only the numbers and the  *)
(* masked fields are told apart.  A transform is a record: what it does    *)
(* (`does') and its arguments.                                             *)
(***************************************************************************)
EXTENDS Naturals, Sequences

CONSTANTS Inputs,      \* events as a source makes them, without headers
          Chains,      \* sequences of transforms
          StoreData,   \* what Load may find in the store of EnrichFromStore
          Mask,        \* what a masked field reads: the string "***"
          MaxExact,    \* integers up to here are exact in a float64 (2^53)
          Spacings,    \* distances of neighbouring float64 integers: 1, 2, 4 ...
          Printed      \* Printed[f]: json.Marshal of the integral float64 f

ASSUME CallAssumption ==
  /\ \A e \in Inputs :
       /\ DOMAIN e = {"type", "op", "payload", "headers"} /\ DOMAIN e.headers = {}
       /\ e.payload.kind = "object" => DOMAIN e.payload = {"kind", "fields"}
  /\ \A c \in Chains : Len(c) \in Nat /\ DOMAIN c = 1..Len(c)

(* Around v, an integer that a float64 holds is a multiple of s.           *)
Spaced(v, s) == v <= MaxExact * s /\ (s = 1 \/ MaxExact * s < 2 * v)

(* Any 64-bit integer is one, but for its sign: Spacings has the powers of *)
(* two up to 2^11.                                                         *)
IsNumber(v) == v \in Nat /\ \E s \in Spacings : Spaced(v, s)

Spacing(v) == CHOOSE s \in Spacings : Spaced(v, s)

(* The nearest float64; of two, the one with the even mantissa.            *)
Nearest(v) ==
  LET s == Spacing(v)  low == v - (v % s) IN
  IF \/ 2 * (v % s) < s
     \/ 2 * (v % s) = s /\ (v \div s) % 2 = 0 THEN low ELSE low + s

(* What is printed of a float64 has the fewest digits that read back as    *)
(* that float64, so it may be another integer.                             *)
ASSUME NumberAssumption ==
  /\ MaxExact \in Nat \ {0} /\ Spacings \subseteq Nat \ {0} /\ 1 \in Spacings
  /\ \A e \in Inputs : e.payload.kind = "object" =>
       \A f \in DOMAIN e.payload.fields :
         LET v == e.payload.fields[f] IN
         IsNumber(v) /\ Nearest(v) \in DOMAIN Printed
  /\ \A f \in DOMAIN Printed :
       /\ IsNumber(Printed[f]) /\ Nearest(Printed[f]) = f
       /\ f <= MaxExact => Printed[f] = f

VARIABLES input, chain, \* the call; they never change
          at,           \* the transform that runs next
          ev,           \* the event so far
          outcome       \* "running", "kept" or "dropped"

vars == <<input, chain, at, ev, outcome>>

IsObject(payload) == payload.kind = "object"

Init ==
  /\ input \in Inputs /\ chain \in Chains
  /\ at = 1 /\ ev = input /\ outcome = "running"

Runs(does) == outcome = "running" /\ at \in DOMAIN chain /\ chain[at].does = does

(* Mutant: without the short circuit, the last filter decides.             *)
FilterLast(keep) ==
  /\ IF keep \/ at < Len(chain)
             THEN at' = at + 1 /\ UNCHANGED outcome
             ELSE outcome' = "dropped" /\ UNCHANGED at
  /\ UNCHANGED <<input, chain, ev>>

Filter(keep) ==
  /\ IF keep THEN at' = at + 1 /\ UNCHANGED outcome
             ELSE outcome' = "dropped" /\ UNCHANGED at
  /\ UNCHANGED <<input, chain, ev>>

Becomes(e) == ev' = e /\ at' = at + 1 /\ UNCHANGED <<input, chain, outcome>>

(* Mutant: the first value of a header stays.                              *)
FirstHeader(key, value) ==
  [ev EXCEPT !.headers = [k \in DOMAIN @ \cup {key} |->
                            IF k \in DOMAIN @ THEN @[k] ELSE value]]

WithHeader(key, value) ==
  [ev EXCEPT !.headers = [k \in DOMAIN @ \cup {key} |->
                            IF k = key THEN value ELSE @[k]]]

FilterByEventType ==
  Runs("event types") /\ Filter(ev.type \in chain[at].allowed)

FilterByOperation ==
  Runs("operations") /\ Filter(ev.op \in chain[at].allowed)

AddHeader ==
  Runs("header") /\ Becomes(WithHeader(chain[at].key, chain[at].value))

(* The header routes an event type to; {}: none, not even the default one. *)
Destination(routes, type) ==
  IF type \in DOMAIN routes THEN {routes[type]}
  ELSE IF "default" \in DOMAIN routes THEN {routes["default"]} ELSE {}

RouteByEventType ==
  /\ Runs("route")
  /\ LET dest == Destination(chain[at].routes, ev.type) IN
       \/ dest = {} /\ Becomes(ev)
       \/ \E d \in dest : Becomes(WithHeader("routing_key", d))

(* json.Unmarshal into interface{} and json.Marshal: a number becomes the  *)
(* nearest float64 and is printed again.                                   *)
Decoded(value) == IF value = Mask THEN value ELSE Printed[Nearest(value)]

(* Mutant: the fields the event came with, not those of the last transform.*)
MaskOriginal(fields, names) ==
  [f \in DOMAIN fields |-> IF f \in names THEN Mask ELSE Decoded(input.payload.fields[f])]

(* Mutant: the other fields are masked.                                    *)
MaskOthers(fields, names) ==
  [f \in DOMAIN fields |-> IF f \in names THEN Decoded(fields[f]) ELSE Mask]

MaskFields(fields, names) ==
  [f \in DOMAIN fields |-> IF f \in names THEN Mask ELSE Decoded(fields[f])]

(* A payload that is not an object passes as it is.                        *)
MaskField ==
  /\ Runs("mask")
  /\ Becomes(IF IsObject(ev.payload)
               THEN [ev EXCEPT !.payload.fields = MaskFields(@, chain[at].fields)]
               ELSE ev)

(* The time of the clock is a value of its own.                            *)
AddTimestamp == Runs("timestamp") /\ Becomes(WithHeader("captured_at", "now"))

(* Load finds data, finds nothing or fails; the event is kept.             *)
EnrichFromStore ==
  /\ Runs("enrich")
  /\ \/ Becomes(ev)
     \/ \E data \in StoreData : Becomes(WithHeader(chain[at].key, data))

(* applyTransforms returns keep = true behind the last transform.          *)
ChainEnds ==
  /\ outcome = "running" /\ at > Len(chain)
  /\ outcome' = "kept"
  /\ UNCHANGED <<input, chain, at, ev>>

Next ==
  \/ FilterByEventType \/ FilterByOperation
  \/ AddHeader \/ RouteByEventType \/ AddTimestamp \/ EnrichFromStore
  \/ MaskField
  \/ ChainEnds

Spec == Init /\ [][Next]_vars

-----------------------------------------------------------------------------
Distance(a, b) == IF a < b THEN b - a ELSE a - b

Refuses(t) ==
  \/ t.does = "event types" /\ input.type \notin t.allowed
  \/ t.does = "operations" /\ input.op \notin t.allowed

(* engine.go:362-365: the chain keeps exactly the events that no filter of *)
(* it refuses, wherever the filters stand.                                 *)
KeptIfNoFilterRefuses ==
  outcome # "running" =>
    ((outcome = "kept") <=> \A i \in DOMAIN chain : ~Refuses(chain[i]))

(* What a transform writes to a header, if it does.                        *)
Writes(t, key) ==
  IF t.does = "header" /\ t.key = key THEN {t.value}
  ELSE IF t.does = "route" /\ key = "routing_key" THEN Destination(t.routes, input.type)
  ELSE IF t.does = "timestamp" /\ key = "captured_at" THEN {"now"}
  ELSE {}

MayWrite(t, key) == Writes(t, key) # {} \/ (t.does = "enrich" /\ t.key = key)

HeaderKeys ==
  {"routing_key", "captured_at"}
    \cup {chain[i].key : i \in {j \in DOMAIN chain : chain[j].does = "header"}}

(* "Each transform receives the output of the previous one" (engine.go:58):*)
(* a header has the value of the last transform that writes it, and there  *)
(* is no header that none writes.                                          *)
LastWriterWins ==
  outcome = "kept" =>
    /\ \A k \in DOMAIN ev.headers : \E i \in DOMAIN chain : MayWrite(chain[i], k)
    /\ \A i \in DOMAIN chain : \A k \in HeaderKeys :
         /\ Writes(chain[i], k) # {}
         /\ \A j \in (i + 1)..Len(chain) : ~MayWrite(chain[j], k)
         => k \in DOMAIN ev.headers /\ ev.headers[k] \in Writes(chain[i], k)

(* MaskField: no producer sees a masked field of an object, whatever comes *)
(* before or after in the chain.                                           *)
MaskedFieldsHidden ==
  outcome = "kept" /\ IsObject(ev.payload) =>
    \A i \in DOMAIN chain : chain[i].does = "mask" =>
      \A f \in chain[i].fields \cap DOMAIN ev.payload.fields :
        ev.payload.fields[f] = Mask

(* transform_test.go:200, "expected amount=99.99": MaskField leaves the    *)
(* fields alone that it does not mask, but for integers beyond MaxExact.   *)
(* These are rounded: before and after differ by one part in MaxExact of   *)
(* their sum at most (by 2 at 2^53, by 2^12 at 2^64), and a chain of masks *)
(* does not drift.                                                         *)
OtherFieldsKept ==
  outcome = "kept" /\ IsObject(ev.payload) =>
    \A f \in DOMAIN ev.payload.fields :
      LET before == input.payload.fields[f]  after == ev.payload.fields[f] IN
        \/ \E i \in DOMAIN chain : chain[i].does = "mask" /\ f \in chain[i].fields
        \/ after = before
        \/ /\ before > MaxExact /\ after \in Nat
           /\ MaxExact * Distance(before, after) <= before + after
=============================================================================
