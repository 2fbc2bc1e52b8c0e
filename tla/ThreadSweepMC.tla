---------------------------- MODULE ThreadSweepMC ----------------------------
(* Small instances of ThreadSweep: the loop, which keeps threads for an     *)
(* hour, and an operator who asks for a sweep of everything.                *)
EXTENDS ThreadSweep

MCMaxAge == [s \in Sweepers |-> IF s = Loop THEN 1 ELSE 0]
=============================================================================
