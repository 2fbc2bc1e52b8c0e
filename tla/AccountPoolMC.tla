---------------------------- MODULE AccountPoolMC ----------------------------
(***************************************************************************)
(* A small instance of AccountPool: two tokens, both configured at the     *)
(* start, and two requests.                                                *)
(***************************************************************************)
EXTENDS AccountPool

CONSTANTS t1, t2

MCTokens == {t1, t2}
MCPool == <<t1, t2>>
MCNames == {"token-1", "token-2"}
MCNameOf == [t \in MCTokens |-> IF t = t1 THEN "token-1" ELSE "token-2"]
MCDeltas == {-1, 1}
MCRests == {4}
=============================================================================
