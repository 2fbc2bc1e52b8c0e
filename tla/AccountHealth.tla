---------------------------- MODULE AccountHealth ----------------------------
(***************************************************************************)
(* What the account pool promises about each account, with no breaker, no  *)
(* counters and no scores: an account that is listed serves, rests after   *)
(* it was found failing, or is on trial.  While it stays listed a rest is  *)
(* never cut short, and a resting account serves again only through a      *)
(* trial that begins when the rest is over.  Only the operator can clear a *)
(* record, by taking the account off the list.                             *)
(***************************************************************************)
EXTENDS Integers

CONSTANTS Accounts, MaxRest

VARIABLES listed,  (* the accounts of the pool             *)
          mode,    (* what each account is doing           *)
          rest     (* ticks of rest it has still to take   *)

health == <<listed, mode, rest>>

Mode == {"Serving", "Resting", "Trial"}

TypeOK ==
  /\ listed \subseteq Accounts
  /\ mode \in [Accounts -> Mode]
  /\ rest \in [Accounts -> 0..MaxRest]

Init ==
  /\ listed \subseteq Accounts
  /\ mode = [a \in Accounts |-> "Serving"]
  /\ rest = [a \in Accounts |-> 0]

(* The account is found failing; a rest under way may only grow. *)
GoToRest(a) ==
  /\ a \in listed
  /\ \E ticks \in 1..MaxRest :
       /\ ticks >= rest[a]
       /\ mode' = [mode EXCEPT ![a] = "Resting"]
       /\ rest' = [rest EXCEPT ![a] = ticks]
  /\ UNCHANGED listed

(* Accounts whose rest is over are put on trial, possibly several at once. *)
StartTrials ==
  \E S \in SUBSET {a \in listed : mode[a] = "Resting" /\ rest[a] = 0} :
    /\ mode' = [a \in Accounts |-> IF a \in S THEN "Trial" ELSE mode[a]]
    /\ UNCHANGED <<listed, rest>>

PassTrial(a) ==
  /\ a \in listed /\ mode[a] = "Trial"
  /\ mode' = [mode EXCEPT ![a] = "Serving"]
  /\ UNCHANGED <<listed, rest>>

(* The operator takes the account away, or lists it (again): its record is *)
(* clean then, and at no other time.                                       *)
Clean(a) ==
  /\ mode' = [mode EXCEPT ![a] = "Serving"]
  /\ rest' = [rest EXCEPT ![a] = 0]

Remove(a) == a \in listed /\ listed' = listed \ {a} /\ Clean(a)

Add(a) == a \notin listed /\ listed' = listed \cup {a} /\ Clean(a)

Tick ==
  /\ rest' = [a \in Accounts |-> IF rest[a] = 0 THEN 0 ELSE rest[a] - 1]
  /\ UNCHANGED <<listed, mode>>

Next ==
  \/ \E a \in Accounts : GoToRest(a) \/ PassTrial(a) \/ Remove(a) \/ Add(a)
  \/ StartTrials
  \/ Tick

Spec == Init /\ [][Next]_health
=============================================================================
