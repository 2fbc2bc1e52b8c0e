------------------------------- MODULE Gateway -------------------------------
(***************************************************************************)
(* The life of a chat request in src/src/api.rs: handle_chat_completions   *)
(* (OpenAI) and handle_claude_messages (Claude).  A request passes the     *)
(* concurrency gate, then makes up to MaxAttempts attempts, each with an   *)
(* account of the pool: session, root run, chat.  The verdict of every     *)
(* step is reported to the pool one critical section at a time, and other  *)
(* requests, the operator, the clock and clients that go away come between *)
(* any two awaits.                                                         *)
(*                                                                         *)
(* The pool is AccountPool's, action by action; the gate is the abstract   *)
(* ConcurrencyGate, which TieredSemaphore is proved to implement.  A       *)
(* request is one HTTP request: it runs once.                              *)
(***************************************************************************)
EXTENDS Integers, Sequences, FiniteSets

CONSTANTS
  Tokens, InitialPool, Names, NameOf, Requests, ScoreCap, Deltas, Rests, NoToken,
  FailureThreshold, SuccessToClose, BaseCooldown, MaxCooldown, TripCap,
  Tiers, Limit, NoTier,
  Handler,          (* the handler a request is for: "OpenAI", "Claude"    *)
  Edited,           (* tokens the operator imports and deletes meanwhile   *)
  Subscriber,       (* tokens is_subscriber_token recognises               *)
  MaxAttempts,      (* RetryPolicy::max_attempts: 3                        *)
  Points            (* score changes: run +5, ok +10, session -30,         *)
                    (* http -20, network -40                               *)

Scored == {"run", "ok", "session", "http", "network"}

ASSUME GatewayAssumption ==
  /\ Handler \in [Requests -> {"OpenAI", "Claude"}]
  /\ Edited \subseteq Tokens
  /\ Tiers = {"free", "sub"}
  /\ MaxAttempts \in Nat \ {0}
  /\ Points \in [Scored -> Deltas]
  /\ IsFiniteSet(Requests)

VARIABLES
  pool, breaker, score, grant,   (* AccountPool; grant is account / token  *)
  inside,                        (* ConcurrencyGate: the TierGuard held    *)
  tier,       (* tier_is_sub, as read before acquire                       *)
  stage,      (* the await the handler is at                               *)
  attempts,   (* attempt_count                                             *)
  todo,       (* reports to the pool the handler has still to make         *)
  next,       (* where it goes on when they are made                       *)
  owed,       (* history: the verdict on the account not reported so far   *)
  answer,     (* what the client got                                       *)
  rows        (* history: rows written to the usage and telemetry tables   *)

poolVars == <<pool, breaker, score, grant>>
ledger == <<answer, rows>>
flow == <<tier, stage, attempts, todo, next, owed>>
vars == <<poolVars, inside, flow, ledger>>

Pool == INSTANCE AccountPool
Gate == INSTANCE ConcurrencyGate

ASSUME PoolConstants == Pool!PoolAssumption /\ Pool!BreakerAssumption
ASSUME GateConstants == Gate!GateAssumption

Stages == {"New", "Gate", "Pick", "Session", "Run", "Chat", "Report",
           "GiveUp", "Finish", "Ready", "Stream", "Over"}

Reports == {"failure", "success", "cooldown"} \cup Scored

Answers == {"None", "Busy", "NoAccount", "Waiting", "Failed", "Ok"}

TypeOK ==
  /\ Pool!TypeOK
  /\ inside \in [Requests -> Tiers \cup {NoTier}]
  /\ tier \in [Requests -> Tiers]
  /\ stage \in [Requests -> Stages]
  /\ attempts \in [Requests -> 0..MaxAttempts]
  /\ todo \in [Requests -> Seq(Reports)]
  /\ next \in [Requests -> Stages]
  /\ owed \in [Requests -> {"None", "Success", "Failure"}]
  /\ answer \in [Requests -> Answers]
  /\ rows \in [Requests -> [usage : Nat, telemetry : Nat]]

Init ==
  /\ Pool!Init /\ Gate!Init
  /\ tier = [r \in Requests |-> "free"]
  /\ stage = [r \in Requests |-> "New"]
  /\ attempts = [r \in Requests |-> 0]
  /\ todo = [r \in Requests |-> <<>>]
  /\ next = [r \in Requests |-> "New"]
  /\ owed = [r \in Requests |-> "None"]
  /\ answer = [r \in Requests |-> "None"]
  /\ rows = [r \in Requests |-> [usage |-> 0, telemetry |-> 0]]

-----------------------------------------------------------------------------
(* Helpers of the handlers.                                                *)
At(r, s) == stage[r] = s

GoTo(r, s) ==
  /\ stage' = [stage EXCEPT ![r] = s]
  /\ UNCHANGED <<tier, attempts, todo, next, owed>>

(* The handler makes some reports to the pool, then goes on at s. *)
ReportThen(r, reports, s, verdict) ==
  /\ stage' = [stage EXCEPT ![r] = "Report"]
  /\ todo' = [todo EXCEPT ![r] = reports]
  /\ next' = [next EXCEPT ![r] = s]
  /\ owed' = [owed EXCEPT ![r] = verdict]
  /\ UNCHANGED <<tier, attempts>>

(* continue: another turn of the loop, if there is one left.               *)
Retry(r) == IF attempts[r] < MaxAttempts THEN "Pick" ELSE "GiveUp"

(* The handler returns, or its future is dropped: the guard, the account   *)
(* and its local variables are gone.                                       *)
Forget(r) ==
  /\ stage' = [stage EXCEPT ![r] = "Over"]
  /\ tier' = [tier EXCEPT ![r] = "free"]
  /\ attempts' = [attempts EXCEPT ![r] = 0]
  /\ todo' = [todo EXCEPT ![r] = <<>>]
  /\ next' = [next EXCEPT ![r] = "Over"]
  /\ owed' = [owed EXCEPT ![r] = "None"]

LeaveGate(r) == IF inside[r] = NoTier THEN UNCHANGED inside ELSE Gate!Leave(r)

LetGo(r) == IF grant[r] = NoToken THEN UNCHANGED poolVars ELSE Pool!LetGo(r)

End(r) == LetGo(r) /\ LeaveGate(r) /\ Forget(r)

Answered(r, what) == answer' = [answer EXCEPT ![r] = what]

Record(r, u, t) ==
  rows' = [rows EXCEPT ![r] = [usage |-> @.usage + u, telemetry |-> @.telemetry + t]]

-----------------------------------------------------------------------------
(* The tier is that of the pool at this moment: subscriber if any of its   *)
(* tokens is one.  A token imported while the request waits changes it not.*)
Arrive(r) ==
  /\ At(r, "New")
  /\ tier' = [tier EXCEPT ![r] = IF Pool!Members \cap Subscriber # {} THEN "sub" ELSE "free"]
  /\ stage' = [stage EXCEPT ![r] = "Gate"]
  /\ UNCHANGED <<poolVars, inside, attempts, todo, next, owed, ledger>>

Admit(r) ==
  /\ At(r, "Gate")
  /\ Gate!Enter(r, tier[r])
  /\ GoTo(r, "Pick")
  /\ UNCHANGED <<poolVars, ledger>>

(* acquire timed out: 429. *)
TurnAway(r) ==
  /\ At(r, "Gate")
  /\ End(r) /\ Answered(r, "Busy") /\ Record(r, 1, 0)

(* A turn of the loop begins.  With no account to be had the first turn    *)
(* answers 502 and leaves no row; a later one ends the loop.               *)
PickAccount(r) ==
  /\ At(r, "Pick")
  /\ Pool!PickBest(r)
  /\ \/ /\ grant'[r] = NoToken /\ attempts[r] = 0
        /\ LeaveGate(r) /\ Forget(r) /\ Answered(r, "NoAccount")
     \/ /\ grant'[r] # NoToken \/ attempts[r] > 0
        /\ stage' = [stage EXCEPT ![r] = IF grant'[r] # NoToken THEN "Session" ELSE "GiveUp"]
        /\ attempts' = [attempts EXCEPT ![r] = @ + 1]
        /\ UNCHANGED <<inside, answer, tier, todo, next, owed>>
  /\ UNCHANGED rows

(* ensure_session: an instance id, the waiting room, or another error.     *)
SessionReady(r) ==
  /\ At(r, "Session")
  /\ GoTo(r, "Run")
  /\ UNCHANGED <<poolVars, inside, ledger>>

(* The waiting room is nobody's fault: nothing is reported to the pool.    *)
WaitingRoom(r) ==
  /\ At(r, "Session")
  /\ End(r) /\ Answered(r, "Waiting") /\ Record(r, 1, 0)

SessionFailsUnblamed(r) ==   (* mutant *)
  /\ At(r, "Session")
  /\ ReportThen(r, <<"session">>, Retry(r), "Failure")
  /\ UNCHANGED <<poolVars, inside, ledger>>
SessionFailsTryAgain(r) ==   (* mutant *)
  /\ At(r, "Session")
  /\ ReportThen(r, <<"failure", "session">>, "Session", "Failure")
  /\ UNCHANGED <<poolVars, inside, ledger>>
SessionFails(r) ==
  /\ At(r, "Session")
  /\ ReportThen(r, <<"failure", "session">>, Retry(r), "Failure")
  /\ UNCHANGED <<poolVars, inside, ledger>>

(* ensure_root_run starts a new run each time. *)
RunStarted(r) ==
  /\ At(r, "Run")
  /\ ReportThen(r, <<"run">>, "Chat", "None")
  /\ UNCHANGED <<poolVars, inside, ledger>>

RunFails(r) ==
  /\ At(r, "Run")
  /\ ReportThen(r, <<"failure">>, Retry(r), "Failure")
  /\ UNCHANGED <<poolVars, inside, ledger>>

(* chat_completions: 2xx, another status, or no response.  The OpenAI      *)
(* handler reports a success before it reads the body; the Claude handler  *)
(* never does.                                                             *)
Accepted(r) ==
  /\ At(r, "Chat")
  /\ \/ /\ Handler[r] = "OpenAI"
        /\ ReportThen(r, <<"ok", "success">>, "Finish", "Success")
     \/ /\ Handler[r] = "Claude"
        /\ stage' = [stage EXCEPT ![r] = "Ready"]
        /\ owed' = [owed EXCEPT ![r] = "Success"]
        /\ UNCHANGED <<tier, attempts, todo, next>>
  /\ UNCHANGED <<poolVars, inside, ledger>>

(* auth: the status is 401 or 403.  switch: the kind of error, which goes  *)
(* by the text of the body first, is retryable or an expired credential.   *)
Refused(r, auth, switch) ==
  /\ At(r, "Chat")
  /\ ReportThen(r, <<"failure", "http">> \o (IF auth THEN <<"cooldown">> ELSE <<>>),
                IF switch THEN Retry(r) ELSE "GiveUp", "Failure")
  /\ UNCHANGED <<poolVars, inside, ledger>>

Unreachable(r) ==
  /\ At(r, "Chat")
  /\ ReportThen(r, <<"failure", "network">>, Retry(r), "Failure")
  /\ UNCHANGED <<poolVars, inside, ledger>>

(* One report: mark_success, mark_failure, mark_cooldown or update_score.  *)
Report(r) ==
  /\ At(r, "Report")
  /\ LET what == Head(todo[r])
         rest == Tail(todo[r])
     IN /\ \/ what = "failure" /\ Pool!MarkFailure(r)
           \/ what = "success" /\ Pool!MarkSuccess(r)
           \/ what = "cooldown" /\ \E d \in Rests : Pool!MarkCooldown(r, d)
           \/ what \in Scored /\ Pool!UpdateScore(r, Points[what])
        /\ todo' = [todo EXCEPT ![r] = rest]
        /\ stage' = [stage EXCEPT ![r] = IF rest = <<>> THEN next[r] ELSE "Report"]
        /\ next' = [next EXCEPT ![r] = IF rest = <<>> THEN "New" ELSE @]
        /\ owed' = [owed EXCEPT ![r] = IF what \in {"failure", "success"} THEN "None" ELSE @]
  /\ UNCHANGED <<inside, tier, attempts, ledger>>

(* Every attempt failed: the last status is passed on. *)
AllFailed(r) ==
  /\ At(r, "GiveUp")
  /\ End(r) /\ Answered(r, "Failed") /\ Record(r, 1, 1)

(* FINISH is sent when the head of the response is there; whether it gets  *)
(* through is not looked at.                                               *)
FinishRun(r) ==
  /\ At(r, "Finish")
  /\ GoTo(r, "Ready")
  /\ UNCHANGED <<poolVars, inside, ledger>>

(* stream = false: the whole body is read, then answered.  OpenAI bodies   *)
(* that carry an error code become 502.                                    *)
ReadBody(r) ==
  /\ At(r, "Ready")
  /\ End(r) /\ Record(r, 1, 1)
  /\ Answered(r, "Ok") \/ (Handler[r] = "OpenAI" /\ Answered(r, "Failed"))

(* stream = true: a task of its own relays the stream and keeps the guard. *)
StartStreamWithoutGuard(r) ==   (* mutant: the guard is not moved into the task *)
  /\ At(r, "Ready")
  /\ GoTo(r, "Stream")
  /\ Answered(r, "Ok")
  /\ LeaveGate(r)
  /\ UNCHANGED <<poolVars, rows>>
StartStreamRecorded(r) ==   (* mutant: the row is written ahead of the stream *)
  /\ At(r, "Ready")
  /\ GoTo(r, "Stream")
  /\ Answered(r, "Ok") /\ Record(r, 1, 0)
  /\ UNCHANGED <<poolVars, inside>>
StartStream(r) ==
  /\ At(r, "Ready")
  /\ GoTo(r, "Stream")
  /\ Answered(r, "Ok")
  /\ UNCHANGED <<poolVars, inside, rows>>

(* The upstream closes the stream, or the client does not take it any more.*)
StreamEnds(r) ==
  /\ At(r, "Stream")
  /\ End(r) /\ Record(r, 1, 1)
  /\ UNCHANGED answer

(* The stream breaks off.  Only the Claude task falls through to the usage *)
(* row; the OpenAI task has returned by then.                              *)
StreamBreaks(r) ==
  /\ At(r, "Stream")
  /\ End(r) /\ Record(r, IF Handler[r] = "Claude" THEN 1 ELSE 0, 1)
  /\ UNCHANGED answer

(* The client goes away before it has an answer: the handler's future is   *)
(* dropped at the await it is at.                                          *)
Disconnect(r) ==
  /\ stage[r] \in {"Gate", "Pick", "Session", "Run", "Chat", "Report", "Finish", "Ready"}
  /\ End(r)
  /\ UNCHANGED <<answer, rows>>

(* Imports and deletions of tokens, and the clock of the breakers.         *)
Elsewhere ==
  /\ \/ \E t \in Edited : Pool!AddAccount(t) \/ Pool!RemoveAccount(t)
     \/ Pool!Tick
  /\ UNCHANGED <<inside, flow, ledger>>

Handle(r) ==
  \/ Admit(r) \/ TurnAway(r) \/ PickAccount(r)
  \/ SessionReady(r) \/ WaitingRoom(r) \/ SessionFails(r)
  \/ RunStarted(r) \/ RunFails(r)
  \/ Accepted(r) \/ Unreachable(r)
  \/ \E auth, switch \in BOOLEAN : Refused(r, auth, switch)
  \/ Report(r) \/ AllFailed(r) \/ FinishRun(r)
  \/ ReadBody(r) \/ StartStream(r) \/ StreamEnds(r) \/ StreamBreaks(r)

Next ==
  \/ \E r \in Requests : Arrive(r) \/ Handle(r) \/ Disconnect(r)
  \/ Elsewhere

Spec == Init /\ [][Next]_vars

(* Handlers run, acquire ends (TieredSemaphore's EveryAcquireEnds), and    *)
(* the upstream answers each call and ends each stream sooner or later.    *)
(* Nothing makes ensure_session come back: a session whose time in the     *)
(* queue is over is slept on for as long as the client stays.              *)
Onward(r) == ~At(r, "Session") /\ Handle(r)

FairSpec == Spec /\ \A r \in Requests : WF_vars(Onward(r))

-----------------------------------------------------------------------------
(* Requests that use the upstream, be it for a session or for a stream     *)
(* that goes on after the handler has returned.                            *)
Upstream(t) ==
  {r \in Requests : tier[r] = t /\ stage[r] \in {"Session", "Run", "Chat", "Finish", "Ready", "Stream"}}

(* The concurrency wall: at no time do more requests of a tier use the     *)
(* upstream than the limit allows, whoever retries, streams or goes away;  *)
(* and a request that is over has given its permit back.                   *)
UpstreamWall ==
  /\ \A t \in Tiers : Cardinality(Upstream(t)) <= Limit[t]
  /\ \A r \in Requests : At(r, "Over") => inside[r] = NoTier

(* An account that failed a request is blamed for it before the request    *)
(* goes on to another attempt or to an answer, so that no verdict is lost  *)
(* unless the client went away in between.                                 *)
FailureIsReported ==
  \A r \in Requests : owed[r] = "Failure" => At(r, "Report") /\ answer[r] = "None"

(* The rows an answer comes with. *)
RowsFit(r, what, left) ==
  /\ \/ what \in {"Busy", "Waiting", "Failed"}
     \/ what = "Ok" /\ Handler[r] = "Claude"
     => left.usage = 1
  /\ what \in {"Failed", "Ok"} => left.telemetry = 1

(* A request leaves at most one row in each table, and a row of either     *)
(* only when it is over: no early return falls through to another, and     *)
(* a client that goes away before its answer leaves none.  And no way out  *)
(* forgets one: what was answered is in the usage table, but for requests  *)
(* that found no account and OpenAI streams that broke off, and what came  *)
(* out of the loop is in the telemetry.                                    *)
RowsOnce ==
  \A r \in Requests :
    /\ rows[r].usage <= 1 /\ rows[r].telemetry <= 1
    /\ rows[r].usage + rows[r].telemetry > 0 => At(r, "Over") /\ answer[r] # "None"
    /\ At(r, "Over") => RowsFit(r, answer[r], rows[r])

(* The handlers use the pool in no way AccountPool does not allow for, and *)
(* the limiter only by its protocol, so that what is proved of the two     *)
(* holds of the gateway.                                                   *)
PoolSpec == Pool!Spec
GateSpec == Gate!Spec

(* A request that arrives is over at some time, if no ensure_session keeps *)
(* it for ever: neither the retries, nor the wall, nor another request     *)
(* that sits in the queue of its session with a permit in hand, hold it up.*)
EveryRequestEnds ==
  \A r \in Requests :
    (At(r, "Session") ~> ~At(r, "Session")) => (At(r, "Gate") ~> At(r, "Over"))
=============================================================================
