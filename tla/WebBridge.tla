------------------------------ MODULE WebBridge ------------------------------
(***************************************************************************)
(* Requests of OpenAI and Claude clients that are answered over the web    *)
(* protocol, when there is no usable account but a web cookie              *)
(* (web_bridge_openai in src/src/api.rs).  The upstream keeps a thread of  *)
(* its own for what was said; web_threads binds a credential to the thread *)
(* it used last, and a later turn goes on there and sends the last user    *)
(* message only.  A turn holds a permit of the concurrency gate until the  *)
(* stream has ended and the thread has been bound and listed.              *)
(*                                                                         *)
(* A name in Requests is a turn, and free for another one when that is     *)
(* over.  Which credential is picked, by score and breaker, is left open;  *)
(* the files behind bound and listed are the business of WebThreads and    *)
(* ThreadSweep.                                                            *)
(***************************************************************************)
EXTENDS Integers, FiniteSets

CONSTANTS
  Requests,
  Convs,             (* conversations of clients                           *)
  Creds, Tier,       (* web credentials, and the bucket of each            *)
  Threads, NoThread, (* ids the upstream gives to threads, each once       *)
  Tiers, Limit, NoTier

ASSUME BridgeAssumption ==
  /\ IsFiniteSet(Requests)
  /\ NoThread \notin Threads
  /\ Tier \in [Creds -> Tiers]
  /\ Limit \in [Tiers -> Nat \ {0}] /\ NoTier \notin Tiers

VARIABLES
  bound,             (* web_threads: the thread of each credential         *)
  listed,            (* threads.json: the threads to be deleted one day    *)
  begun,             (* conversations whose client has an answer           *)
  pc, conv, cred,    (* each turn: where it is, whose it is, its cookie    *)
  into,              (* the thread it is to go on in                       *)
  at,                (* the thread the upstream has put it in              *)
  known,             (* has the stream named that thread?                  *)
  inside,            (* the permit it holds                                *)
  owner, live, said  (* the upstream: whose thread, there, of what         *)

Gate == INSTANCE ConcurrencyGate

turn == <<pc, conv, cred, into, at, known>>
upstream == <<owner, live, said>>
vars == <<bound, listed, begun, turn, inside, upstream>>

Unborn == {t \in Threads : owner[t] = {}}
Ended == {t \in Threads : owner[t] # {} /\ t \notin live}

TypeOK ==
  /\ bound \in [Creds -> Threads \cup {NoThread}]
  /\ listed \subseteq Threads /\ begun \subseteq Convs
  /\ pc \in [Requests -> {"Idle", "Wait", "Call", "Taken", "Stream", "Bind", "Record"}]
  /\ conv \in [Requests -> Convs] /\ cred \in [Requests -> Creds]
  /\ into \in [Requests -> Threads \cup {NoThread}]
  /\ at \in [Requests -> Threads \cup {NoThread}]
  /\ known \in [Requests -> BOOLEAN]
  /\ inside \in [Requests -> Tiers \cup {NoTier}]
  /\ owner \in [Threads -> SUBSET Creds]
  /\ live \subseteq Threads
  /\ said \in [Threads -> SUBSET Convs]
  /\ \A r \in Requests : inside[r] = IF pc[r] \in {"Idle", "Wait"} THEN NoTier ELSE Tier[cred[r]]

Init ==
  /\ bound = [c \in Creds |-> NoThread]
  /\ listed = {} /\ begun = {}
  /\ pc = [r \in Requests |-> "Idle"]
  /\ conv \in [Requests -> Convs] /\ cred \in [Requests -> Creds]
  /\ into = [r \in Requests |-> NoThread]
  /\ at = [r \in Requests |-> NoThread]
  /\ known = [r \in Requests |-> FALSE]
  /\ inside = [r \in Requests |-> NoTier]
  /\ owner = [t \in Threads |-> {}]
  /\ live = {} /\ said = [t \in Threads |-> {}]

-----------------------------------------------------------------------------
Goto(r, where) == pc' = [pc EXCEPT ![r] = where]

(* The turn is over, and what it knew forgotten.                           *)
Over(r) ==
  /\ Goto(r, "Idle")
  /\ into' = [into EXCEPT ![r] = NoThread]
  /\ at' = [at EXCEPT ![r] = NoThread]
  /\ known' = [known EXCEPT ![r] = FALSE]
  /\ UNCHANGED <<conv, cred>>

(* A cookie is picked, and decide_bridge_mode: a turn with an answer in it *)
(* goes on in the thread of the cookie, any other one opens a thread.      *)
DecideAny(r, k, c) ==   (* mutant: the thread of any cookie will do *)
  /\ pc[r] = "Idle" /\ Goto(r, "Wait")
  /\ conv' = [conv EXCEPT ![r] = k] /\ cred' = [cred EXCEPT ![r] = c]
  /\ \E d \in Creds :
       into' = [into EXCEPT ![r] = IF k \in begun THEN bound[d] ELSE NoThread]
  /\ UNCHANGED <<bound, listed, begun, at, known, inside, upstream>>
Decide(r, k, c) ==
  /\ pc[r] = "Idle" /\ Goto(r, "Wait")
  /\ conv' = [conv EXCEPT ![r] = k] /\ cred' = [cred EXCEPT ![r] = c]
  /\ \/ into' = [into EXCEPT ![r] = NoThread]
     \/ k \in begun /\ into' = [into EXCEPT ![r] = bound[c]]
  /\ UNCHANGED <<bound, listed, begun, at, known, inside, upstream>>

(* semaphore.acquire, for 2 s.                                             *)
AcquireLate(r) ==   (* mutant: the permit is waited for behind the request *)
  /\ pc[r] = "Wait" /\ Goto(r, "Call")
  /\ inside' = [inside EXCEPT ![r] = Tier[cred[r]]]
  /\ UNCHANGED <<bound, listed, begun, conv, cred, into, at, known, upstream>>
Acquire(r) ==
  /\ pc[r] = "Wait" /\ Goto(r, "Call")
  /\ Gate!Enter(r, Tier[cred[r]])
  /\ UNCHANGED <<bound, listed, begun, conv, cred, into, at, known, upstream>>

Busy(r) ==
  /\ pc[r] = "Wait" /\ Over(r)
  /\ UNCHANGED <<bound, listed, begun, inside, upstream>>

(* The upstream gets the request, and opens a thread if none is named.     *)
Take(r) ==
  /\ pc[r] = "Call" /\ Goto(r, "Taken")
  /\ \E t \in Threads :
       /\ IF into[r] = NoThread THEN t \in Unborn ELSE t = into[r] /\ t \in live
       /\ at' = [at EXCEPT ![r] = t]
       /\ owner' = [owner EXCEPT ![t] = @ \cup {cred[r]}]
       /\ live' = live \cup {t}
       /\ said' = [said EXCEPT ![t] = @ \cup {conv[r]}]
  /\ UNCHANGED <<bound, listed, begun, conv, cred, into, known, inside>>

Answer(r) ==
  /\ pc[r] = "Taken" /\ Goto(r, "Stream")
  /\ UNCHANGED <<bound, listed, begun, conv, cred, into, at, known, inside, upstream>>

FailsKeepsBinding(r) ==   (* mutant: the binding survives the error *)
  /\ pc[r] \in {"Call", "Taken"}
  /\ Over(r) /\ Gate!Leave(r)
  /\ UNCHANGED <<bound, listed, begun, upstream>>
(* There is no answer, or it is an error, the 404 for a thread that is     *)
(* gone included; the upstream may have taken the request all the same.    *)
Fails(r) ==
  /\ pc[r] \in {"Call", "Taken"}
  /\ bound' = IF into[r] = NoThread THEN bound ELSE [bound EXCEPT ![cred[r]] = NoThread]
  /\ Over(r) /\ Gate!Leave(r)
  /\ UNCHANGED <<listed, begun, upstream>>

(* The client is gone before the stream begins: the handler is dropped.    *)
HangUp(r) ==
  /\ pc[r] \in {"Wait", "Call", "Taken"}
  /\ Over(r)
  /\ IF pc[r] = "Wait" THEN UNCHANGED inside ELSE Gate!Leave(r)
  /\ UNCHANGED <<bound, listed, begun, upstream>>

(* An event of the stream names the thread.                                *)
Meta(r) ==
  /\ pc[r] = "Stream" /\ ~known[r]
  /\ known' = [known EXCEPT ![r] = TRUE]
  /\ UNCHANGED <<bound, listed, begun, pc, conv, cred, into, at, inside, upstream>>

StreamEndsSilently(r) ==   (* mutant: a client that is gone ends the task *)
  /\ pc[r] = "Stream"
  /\ begun' \in {begun, begun \cup {conv[r]}}
  /\ Over(r) /\ Gate!Leave(r)
  /\ UNCHANGED <<bound, listed, upstream>>
(* The stream ends or breaks, or the client is gone; whoever has part of   *)
(* an answer may ask again before the binding is there.                    *)
StreamEnds(r) ==
  /\ pc[r] = "Stream"
  /\ begun' \in {begun, begun \cup {conv[r]}}
  /\ \/ known[r] /\ Goto(r, "Bind") /\ UNCHANGED <<conv, cred, into, at, known, inside>>
     \/ ~known[r] /\ Over(r) /\ Gate!Leave(r)
  /\ UNCHANGED <<bound, listed, upstream>>

(* web_threads.bind, which drops bindings that are old or too many.        *)
Bind(r) ==
  /\ pc[r] = "Bind" /\ Goto(r, "Record")
  /\ \E old \in SUBSET (Creds \ {cred[r]}) :
       bound' = [c \in Creds |-> IF c = cred[r] THEN at[r]
                                 ELSE IF c \in old THEN NoThread ELSE bound[c]]
  /\ UNCHANGED <<listed, begun, conv, cred, into, at, known, inside, upstream>>

RecordKeepsPermit(r) ==   (* mutant: the permit is not tied to the task *)
  /\ pc[r] = "Record"
  /\ listed' = listed \cup {at[r]}
  /\ Over(r)
  /\ UNCHANGED <<bound, begun, inside, upstream>>
(* record_thread, and the task drops its permit.                           *)
Record(r) ==
  /\ pc[r] = "Record"
  /\ listed' = listed \cup {at[r]}
  /\ Over(r) /\ Gate!Leave(r)
  /\ UNCHANGED <<bound, begun, upstream>>

(* A thread is deleted, by a sweep that strikes it off the list, or on the *)
(* web site.                                                               *)
Vanish(t) ==
  /\ t \in live /\ live' = live \ {t}
  /\ listed' \in {listed, listed \ {t}}
  /\ UNCHANGED <<bound, begun, turn, inside, owner, said>>

GoesOn(r) ==
  \/ Acquire(r) \/ Busy(r) \/ Take(r) \/ Answer(r) \/ Fails(r)
  \/ StreamEnds(r) \/ Bind(r) \/ Record(r)

Next ==
  \/ \E r \in Requests :
       \/ \E k \in Convs, c \in Creds : Decide(r, k, c)
       \/ GoesOn(r) \/ HangUp(r) \/ Meta(r)
  \/ \E t \in Threads : Vanish(t)

Spec == Init /\ [][Next]_vars

(* No turn stays where it is: the gate waits 2 s, a connection 15 s, a     *)
(* stream that is silent is cut after 300 s; a client reads or hangs up.   *)
FairSpec == Spec /\ \A r \in Requests : WF_vars(GoesOn(r))

-----------------------------------------------------------------------------
(* Credentials are kept apart: a thread is bound to the credential that    *)
(* opened it, and no other one's cookie is ever sent for it.               *)
OwnThread ==
  /\ \A c \in Creds : bound[c] # NoThread => owner[bound[c]] = {c}
  /\ \A t \in Threads : \A c, d \in owner[t] : c = d

(* The wall of the upstream, api.rs:1193: the requests it is working for   *)
(* are no more than the bucket allows, to the end of their streams.        *)
AtUpstream(tier) == {r \in Requests : pc[r] \in {"Call", "Taken", "Stream"} /\ Tier[cred[r]] = tier}
StreamsBounded == \A tier \in Tiers : Cardinality(AtUpstream(tier)) <= Limit[tier]

(* A permit comes back, whatever becomes of the client and the upstream.   *)
PermitComesBack == \A r \in Requests : inside[r] # NoTier ~> inside[r] = NoTier

(* A thread the gateway has heard of gets into the list of threads to be   *)
(* deleted, also when the client is gone before its answer is complete.    *)
HeardIsListed ==
  \A r \in Requests, t \in Threads :
    (known[r] /\ at[r] = t) ~> (t \in listed \/ t \notin live)

(* api.rs:1129: a thread that is gone is given up: turns do not go on      *)
(* failing in it, though late streams may bind it again, and a client that *)
(* hangs up before the error leaves the binding to the next turn.          *)
GoneIsGivenUp ==
  <>[][\A r \in Requests : Fails(r) => into[r] \notin Ended]_vars

(* web_threads.rs:8: later turns go on in the same thread; the thread a    *)
(* turn goes on in holds its conversation.                                 *)
SameConversation ==
  \A r \in Requests : into[r] # NoThread => conv[r] \in said[into[r]]
=============================================================================
