---------------------------- MODULE CircuitBreaker ----------------------------
(***************************************************************************)
(* The per-account circuit breaker of src/src/pool.rs, shared by the       *)
(* Bearer-token pool and the web-cookie pool.  A breaker is a record and   *)
(* every method is an operator from the old record to the new one.         *)
(*                                                                         *)
(* Time: open_until is an Instant.  The model keeps what is left of it, in *)
(* ticks: 0 stands for "now >= open_until" and for None.                   *)
(* Saturation: failures is only ever compared with FailureThreshold and    *)
(* trips only with 5, so both stop counting there.                         *)
(***************************************************************************)
EXTENDS Integers, Sequences

CONSTANTS
  FailureThreshold,   (* failures in a row that open a Closed breaker: 4   *)
  SuccessToClose,     (* successes in a row that close a HalfOpen one: 2   *)
  BaseCooldown,       (* ticks of the first rest: 60 s                     *)
  MaxCooldown,        (* ticks no rest exceeds: 600 s                      *)
  TripCap             (* trips after which the rest stops growing: 5       *)

ASSUME BreakerAssumption ==
  /\ FailureThreshold \in Nat \ {0}
  /\ SuccessToClose \in Nat \ {0}
  /\ BaseCooldown \in Nat \ {0}
  /\ MaxCooldown \in Nat \ {0}
  /\ TripCap \in 1..5

CircuitState == {"Closed", "Open", "HalfOpen"}

Breaker == [state : CircuitState,
            failures : 0..FailureThreshold,
            successes : 0..SuccessToClose,
            cooldown : 0..MaxCooldown,
            probing : BOOLEAN,
            trips : 0..TripCap]

NewBreaker == [state |-> "Closed", failures |-> 0, successes |-> 0,
               cooldown |-> 0, probing |-> FALSE, trips |-> 0]

AtMost(n, m) == IF n < m THEN n ELSE m

(* BASE_COOLDOWN << (min(trips, 5) - 1), cut at MAX_COOLDOWN. *)
RestAfter(trips) == AtMost(BaseCooldown * <<1, 2, 4, 8, 16>>[trips], MaxCooldown)

(* What trip and trip_for have in common: the breaker opens for a rest. *)
OpensFor(b, rest) ==
  [state |-> "Open", failures |-> FailureThreshold, successes |-> 0,
   cooldown |-> rest, probing |-> FALSE, trips |-> AtMost(b.trips + 1, TripCap)]

(* What record_success and record_failure have in common: any outcome      *)
(* frees the probe gate, whichever request reports it.                     *)
Settled(b, failures) == [b EXCEPT !.failures = failures, !.probing = FALSE]

-----------------------------------------------------------------------------
(* Mutants of the methods, named for the mistake.                          *)

AllowsBeforeExpiry(b) == b.state # "HalfOpen" \/ ~b.probing
SuccessClosesOpen(b) == [NewBreaker EXCEPT !.trips = b.trips]
SuccessKeepsFailures(b) ==
  IF b.state # "HalfOpen" THEN Settled(b, b.failures)
  ELSE IF b.successes + 1 >= SuccessToClose
       THEN [NewBreaker EXCEPT !.trips = b.trips, !.failures = b.failures]
       ELSE [Settled(b, b.failures) EXCEPT !.successes = @ + 1]

-----------------------------------------------------------------------------
(* allow(): may a request use this account now?                            *)
Allows(b) ==
  \/ b.state = "Closed"
  \/ b.state = "HalfOpen" /\ ~b.probing
  \/ b.state = "Open" /\ b.cooldown = 0

(* The effect of allow() when it says yes: an Open breaker whose rest is   *)
(* over turns HalfOpen, and a HalfOpen one hands out its only probe.       *)
Allow(b) ==
  CASE b.state = "Closed"   -> b
    [] b.state = "HalfOpen" -> [b EXCEPT !.probing = TRUE]
    [] b.state = "Open"     -> [b EXCEPT !.state = "HalfOpen", !.successes = 0,
                                         !.probing = TRUE]

RecordSuccess(b) ==
  IF b.state # "HalfOpen" THEN Settled(b, 0)
  ELSE IF b.successes + 1 >= SuccessToClose
       THEN [NewBreaker EXCEPT !.trips = b.trips]
       ELSE [Settled(b, 0) EXCEPT !.successes = @ + 1]

Trip(b) == OpensFor(b, RestAfter(AtMost(b.trips + 1, TripCap)))

TripFor(b, rest) == OpensFor(b, AtMost(rest, MaxCooldown))

RecordFailure(b) ==
  LET failures == AtMost(b.failures + 1, FailureThreshold) IN
  IF \/ b.state = "HalfOpen"
     \/ b.state = "Closed" /\ failures >= FailureThreshold
  THEN Trip(b) ELSE Settled(b, failures)

(* One tick of the clock. *)
Elapse(b) == [b EXCEPT !.cooldown = IF @ = 0 THEN 0 ELSE @ - 1]
=============================================================================
