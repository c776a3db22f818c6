------------------------------ MODULE RateLimit ------------------------------
(***************************************************************************)
(* The transform RateLimit of transform.go: a token bucket whose caller    *)
(* waits outside the mutex when there is less than one token.  Engines     *)
(* that share the transform are its callers.                               *)
(*                                                                         *)
(* Time is discrete.  A token is Grain units, and one unit is refilled per *)
(* tick, so that one event per Grain ticks is the configured rate.         *)
(***************************************************************************)
EXTENDS Naturals, Sequences

CONSTANTS Callers,          \* the engines whose chain holds the transform
          EventsPerSecond,
          Grain,            \* units of a token: ticks per event
          MaxTime           \* bound on the clock

ASSUME RateAssumption ==
  /\ EventsPerSecond \in Nat \ {0} /\ Grain \in Nat \ {0}
  /\ MaxTime \in Nat

VARIABLES
  now,        \* the clock
  cancelled,  \* the callers' context is done
  tokens,     \* units in the bucket
  last,       \* when the bucket was filled last
  wake,       \* wake[c]: when the timer of caller c fires; 0: c is not waiting
  passed      \* history: when events were let through, in order

rateVars == <<now, cancelled, tokens, last, wake, passed>>

Full == EventsPerSecond * Grain

TypeOK ==
  /\ now \in 0..MaxTime /\ cancelled \in BOOLEAN
  /\ tokens \in 0..Full /\ last \in 0..now
  /\ wake \in [Callers -> 0..(MaxTime + Grain)]
  /\ passed \in Seq(0..MaxTime)

RateInit ==
  /\ now = 0 /\ cancelled = FALSE
  /\ tokens = Full /\ last = 0
  /\ wake = [c \in Callers |-> 0]
  /\ passed = <<>>

Tick ==
  /\ now < MaxTime
  /\ now' = now + 1
  /\ UNCHANGED <<cancelled, tokens, last, wake, passed>>

Cancel ==
  /\ ~cancelled /\ cancelled' = TRUE
  /\ UNCHANGED <<now, tokens, last, wake, passed>>

LetThrough == passed' = Append(passed, now)

(* Mutant: the bucket has no brim.                                         *)
RefilledNoBrim == tokens + (now - last)

Refilled == IF tokens + (now - last) > Full THEN Full ELSE tokens + (now - last)

(* A caller finds a token.                                                 *)
Take(c) ==
  /\ wake[c] = 0
  /\ Refilled >= Grain
  /\ tokens' = Refilled - Grain /\ last' = now
  /\ LetThrough
  /\ UNCHANGED <<now, cancelled, wake>>

(* A caller finds less than a token: it unlocks, and waits for the rest.   *)
Wait(c) ==
  /\ wake[c] = 0
  /\ Refilled < Grain
  /\ tokens' = Refilled /\ last' = now
  /\ wake' = [wake EXCEPT ![c] = now + (Grain - Refilled)]
  /\ UNCHANGED <<now, cancelled, passed>>

(* Mutant: the token that was waited for is not taken.                     *)
WakeUntaken(c) ==
  /\ wake[c] # 0 /\ now >= wake[c]
  /\ wake' = [wake EXCEPT ![c] = 0]
  /\ LetThrough
  /\ UNCHANGED <<now, cancelled, last, tokens>>

(* case <-time.After(wait): `last' still is the time before the wait.      *)
Wake(c) ==
  /\ wake[c] # 0 /\ now >= wake[c]
  /\ wake' = [wake EXCEPT ![c] = 0]
  /\ tokens' = 0
  /\ LetThrough
  /\ UNCHANGED <<now, cancelled, last>>

(* case <-ctx.Done()                                                       *)
GiveUp(c) ==
  /\ wake[c] # 0 /\ cancelled
  /\ wake' = [wake EXCEPT ![c] = 0]
  /\ UNCHANGED <<now, cancelled, tokens, last, passed>>

Call(c) == Take(c) \/ Wait(c) \/ Wake(c) \/ GiveUp(c)

RateNext == Tick \/ Cancel \/ \E c \in Callers : Call(c)

RateSpec == RateInit /\ [][RateNext]_rateVars

-----------------------------------------------------------------------------
(* What the theorem about TwiceTheRate supposes, and the run has.          *)
OneCaller == \A c, d \in Callers : c = d

(* transform.go:68, RateLimit(eventsPerSecond), for one caller: in every   *)
(* stretch of time, the events let through are those of a full bucket, one *)
(* more, and twice those of the rate, since the time a call has waited is  *)
(* refilled once more by the next call.                                    *)
TwiceTheRate ==
  \A i, j \in DOMAIN passed :
    i <= j => (j - i + 1) * Grain <= Full + Grain + 2 * (passed[j] - passed[i])
=============================================================================
