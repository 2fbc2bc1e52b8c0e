------------------------------- MODULE Session -------------------------------
(***************************************************************************)
(* The free-mode session of one account, src/src/session.rs: requests that *)
(* call ensure_session at the same time, and what the upstream answers to  *)
(* create_session.  The mutex is taken anew for every look at the session, *)
(* so anything may happen between two looks.  The keep-alive loop reads    *)
(* the session and changes nothing of it.                                  *)
(***************************************************************************)
EXTENDS Integers

CONSTANTS
  Requests,    (* calls of ensure_session; each is made once               *)
  Ids,         (* instance ids the upstream gives out                      *)
  NoId,
  Answers,     (* statuses create_session may come back with               *)
  Life,        (* ticks an instance lives at most                          *)
  Offers,      (* what an Active answer says of the instance: its id and   *)
               (* the ticks until 5 s before it expires                    *)
  Wait         (* ticks between polls in the waiting room at most: 5 s     *)

Statuses == {"None", "Queued", "Active", "Disabled", "Ended", "Superseded"}

(* An answer without an expiry counts as valid for an hour from any now on.*)
Forever == Life + 1

ASSUME SessionAssumption ==
  /\ NoId \notin Ids
  /\ Answers \subseteq Statuses
  /\ Life \in Nat \ {0}
  /\ Wait \in Nat \ {0}
  /\ Offers \subseteq [id : Ids \cup {NoId}, life : 0..Forever]

VARIABLES
  status, id,    (* SessionInner: status and instance_id                   *)
  expires,       (* ticks until 5 s before expires_at                      *)
  pollAfter,     (* ticks until poll_after; 0 also when it is not set      *)
  at,            (* where each call is                                     *)
  got,           (* the instance id a call returned                        *)
  dropped        (* history: ids that were dropped when they had expired,  *)
                 (* and that the upstream has not given out again          *)

session == <<status, id, expires, pollAfter>>
vars == <<session, at, got, dropped>>

Places == {"New", "Look", "Sleep", "Create", "AskActive", "AskId", "Backoff",
           "Ready", "Waiting", "Failed", "Gone"}

TypeOK ==
  /\ status \in Statuses
  /\ id \in Ids \cup {NoId}
  /\ expires \in 0..Forever
  /\ pollAfter \in 0..Wait
  /\ at \in [Requests -> Places]
  /\ got \in [Requests -> Ids \cup {NoId}]
  /\ dropped \subseteq Ids

Init ==
  /\ status = "None" /\ id = NoId /\ expires = Forever /\ pollAfter = 0
  /\ at = [r \in Requests |-> "New"]
  /\ got = [r \in Requests |-> NoId]
  /\ dropped = {}

-----------------------------------------------------------------------------
Fresh == status = "Active" /\ id # NoId /\ expires > 0

GoTo(r, place) == at' = [at EXCEPT ![r] = place]

Return(r) ==
  /\ GoTo(r, "Ready")
  /\ got' = [got EXCEPT ![r] = id]

Call(r) ==
  /\ at[r] = "New"
  /\ GoTo(r, "Look")
  /\ UNCHANGED <<session, got, dropped>>

(* The head of the loop, one critical section with one of four outcomes.   *)
UseFresh(r) ==
  /\ at[r] = "Look" /\ Fresh
  /\ Return(r)
  /\ UNCHANGED <<session, dropped>>

InWaitingRoom(r) ==
  /\ at[r] = "Look" /\ status = "Queued" /\ pollAfter > 0
  /\ GoTo(r, "Waiting")
  /\ UNCHANGED <<session, got, dropped>>

WaitMore(r) ==
  /\ at[r] = "Look" /\ status = "Queued" /\ pollAfter = 0
  /\ GoTo(r, "Sleep")
  /\ UNCHANGED <<session, got, dropped>>

(* Anything else, a stale Active included, is created anew.  The id of a   *)
(* stale session is dropped, that of an ended one goes with the request.   *)
BeginKeepsId(r) ==   (* mutant: the id of a stale session is kept *)
  /\ at[r] = "Look" /\ status # "Queued" /\ ~Fresh
  /\ status' = "None"
  /\ dropped' = IF status = "Active" THEN dropped \cup ({id} \ {NoId}) ELSE dropped
  /\ GoTo(r, "Create")
  /\ UNCHANGED <<id, expires, pollAfter, got>>
Begin(r) ==
  /\ at[r] = "Look" /\ status # "Queued" /\ ~Fresh
  /\ status' = "None"
  /\ \/ /\ status = "Active"
        /\ id' = NoId /\ dropped' = dropped \cup ({id} \ {NoId})
     \/ status # "Active" /\ UNCHANGED <<id, dropped>>
  /\ GoTo(r, "Create")
  /\ UNCHANGED <<expires, pollAfter, got>>

Wake(r) ==
  /\ at[r] = "Sleep"
  /\ GoTo(r, "Look")
  /\ UNCHANGED <<session, got, dropped>>

(* create_session answers and absorb takes the answer in.                  *)
AbsorbActive(r, offer) ==
  /\ at[r] = "Create" /\ "Active" \in Answers
  /\ status' = "Active" /\ id' = offer.id /\ expires' = offer.life
  /\ dropped' = dropped \ {offer.id}
  /\ GoTo(r, "AskActive")
  /\ UNCHANGED <<pollAfter, got>>

AbsorbQueued(r, i, wait) ==
  /\ at[r] = "Create" /\ "Queued" \in Answers
  /\ status' = "Queued" /\ id' = i /\ pollAfter' = wait
  /\ dropped' = dropped \ {i}
  /\ GoTo(r, "AskActive")
  /\ UNCHANGED <<expires, got>>

AbsorbOther(r, other) ==
  /\ at[r] = "Create" /\ other \in Answers \ {"Active", "Queued"}
  /\ status' = other
  /\ GoTo(r, IF other = "Disabled" THEN "Failed" ELSE "AskActive")
  /\ UNCHANGED <<id, expires, pollAfter, got, dropped>>

CreateFails(r) ==
  /\ at[r] = "Create"
  /\ GoTo(r, "Backoff")
  /\ UNCHANGED <<session, got, dropped>>

GiveUpNever(r) ==   (* mutant: it tries again after the pause *)
  /\ at[r] = "Backoff"
  /\ GoTo(r, "Look")
  /\ UNCHANGED <<session, got, dropped>>
GiveUp(r) ==
  /\ at[r] = "Backoff"
  /\ GoTo(r, "Failed")
  /\ UNCHANGED <<session, got, dropped>>

(* is_active and instance_id, each with the mutex of its own. *)
AskActive(r) ==
  /\ at[r] = "AskActive"
  /\ GoTo(r, IF status = "Active" THEN "AskId" ELSE "Look")
  /\ UNCHANGED <<session, got, dropped>>

AskId(r) ==
  /\ at[r] = "AskId"
  /\ IF id # NoId THEN Return(r) ELSE GoTo(r, "Look") /\ UNCHANGED got
  /\ UNCHANGED <<session, dropped>>

(* The client of the request goes away. *)
Abandon(r) ==
  /\ at[r] \in {"Look", "Sleep", "Create", "AskActive", "AskId", "Backoff"}
  /\ GoTo(r, "Gone")
  /\ UNCHANGED <<session, got, dropped>>

Tick ==
  /\ expires \in 1..Life \/ pollAfter > 0
  /\ expires' = IF expires \in 1..Life THEN expires - 1 ELSE expires
  /\ pollAfter' = IF pollAfter > 0 THEN pollAfter - 1 ELSE 0
  /\ UNCHANGED <<status, id, at, got, dropped>>

Step(r) ==
  \/ UseFresh(r) \/ InWaitingRoom(r) \/ WaitMore(r) \/ Begin(r) \/ Wake(r)
  \/ \E offer \in Offers : AbsorbActive(r, offer)
  \/ \E i \in Ids \cup {NoId}, wait \in 1..Wait : AbsorbQueued(r, i, wait)
  \/ \E other \in Answers : AbsorbOther(r, other)
  \/ CreateFails(r) \/ GiveUp(r) \/ AskActive(r) \/ AskId(r)

Next ==
  \/ \E r \in Requests : Call(r) \/ Step(r) \/ Abandon(r)
  \/ Tick

Spec == Init /\ [][Next]_vars

(* Calls run, the upstream answers, and time goes on. *)
FairSpec == Spec /\ WF_vars(Tick) /\ \A r \in Requests : WF_vars(Step(r))

-----------------------------------------------------------------------------
Over == {"Ready", "Waiting", "Failed", "Gone"}

(* No call returns the id of a session that was dropped as expired, unless *)
(* the upstream gives it out again, although the mutex is free between the *)
(* answer, is_active and instance_id (session.rs 159-162), and another     *)
(* call may find the session stale there and begin anew.                   *)
DroppedStaysAway ==
  [][\A r \in Requests :
       at[r] # "Ready" /\ at'[r] = "Ready" => got'[r] \notin dropped]_vars

(* ensure_session ends, whatever other calls do to the same session, if    *)
(* from some time on the upstream has room: every session it gives is good *)
(* for use, none expires, and the account is not in the queue.             *)
EveryCallEnds ==
  /\ <>[][\A r \in Requests : at[r] = "Create" /\ at'[r] = "AskActive" => Fresh']_vars
  /\ <>[](status # "Queued" /\ (status = "Active" => Fresh))
  => \A r \in Requests : at[r] = "Look" ~> at[r] \in Over
=============================================================================
