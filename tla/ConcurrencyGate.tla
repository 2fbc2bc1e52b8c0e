--------------------------- MODULE ConcurrencyGate ---------------------------
(***************************************************************************)
(* What TierGuard promises to the handlers of src/src/api.rs: at any time  *)
(* at most Limit[t] requests of tier t hold a guard.  Queues, time-outs    *)
(* and the two permits behind a guard are TieredSemaphore's business.      *)
(***************************************************************************)
EXTENDS Integers, FiniteSets

CONSTANTS Requests, Tiers, Limit, NoTier

(* What the modules that use the gate assume of its constants. *)
GateAssumption ==
  /\ Limit \in [Tiers -> Nat \ {0}]
  /\ NoTier \notin Tiers

VARIABLE inside    (* the tier whose guard a request holds *)

Init == inside = [r \in Requests |-> NoTier]

Inside(t) == {r \in Requests : inside[r] = t}

Enter(r, t) ==
  /\ inside[r] = NoTier
  /\ Cardinality(Inside(t)) < Limit[t]
  /\ inside' = [inside EXCEPT ![r] = t]

Leave(r) ==
  /\ inside[r] # NoTier
  /\ inside' = [inside EXCEPT ![r] = NoTier]

Next == \E r \in Requests : Leave(r) \/ \E t \in Tiers : Enter(r, t)

Spec == Init /\ [][Next]_inside

(* The concurrency wall: never more requests inside than the limit. *)
WallHolds == \A t \in Tiers : Cardinality(Inside(t)) <= Limit[t]
=============================================================================
