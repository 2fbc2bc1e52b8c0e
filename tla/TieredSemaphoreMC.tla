-------------------------- MODULE TieredSemaphoreMC --------------------------
(***************************************************************************)
(* A small instance of TieredSemaphore.  The free tier has as many multi   *)
(* permits as slots, the tightest of the configurations in which the slots *)
(* are the scarcer; the subscriber tier has fewer, which the environment   *)
(* variables allow.                                                        *)
(***************************************************************************)
EXTENDS TieredSemaphore

MCTiers == {"free", "sub"}
MCSlots == [t \in MCTiers |-> 2]
MCMulti == [t \in MCTiers |-> IF t = "free" THEN 2 ELSE 1]
=============================================================================
