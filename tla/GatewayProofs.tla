---------------------------- MODULE GatewayProofs ----------------------------
(***************************************************************************)
(* Proofs about Gateway.  The two refinements come first: the handlers use *)
(* the pool and the gate by their protocols, whence the pool's theorems    *)
(* and the limit on guards hold of the gateway.  Then the invariant of the *)
(* requests themselves, and from both the concurrency wall.                *)
(***************************************************************************)
EXTENDS Gateway, FiniteSetTheorems, TLAPS

(* The theorems of AccountPoolProofs, about the pool of the gateway. *)
PoolFacts == INSTANCE AccountPoolProofs

-----------------------------------------------------------------------------
(* The gateway uses the pool in no way AccountPool does not allow for.     *)

(* A request that ends lets go of its account, if it has one. *)
LEMMA EndUsesPool ==
  ASSUME NEW r \in Requests, LetGo(r)
  PROVE  [Pool!Next]_(Pool!vars)
BY DEF LetGo, Pool!Next, Pool!vars, poolVars

(* Every report is one of the pool's methods, with a known score change.   *)
LEMMA ReportUsesPool ==
  ASSUME NEW r \in Requests, Report(r)
  PROVE  Pool!Next
<1>1. CASE Pool!MarkFailure(r)
  BY <1>1 DEF Pool!Next
<1>2. CASE Pool!MarkSuccess(r)
  BY <1>2 DEF Pool!Next
<1>3. CASE \E d \in Rests : Pool!MarkCooldown(r, d)
  BY <1>3 DEF Pool!Next
<1>4. CASE Head(todo[r]) \in Scored /\ Pool!UpdateScore(r, Points[Head(todo[r])])
  <2>1. Points[Head(todo[r])] \in Deltas
    BY <1>4, GatewayAssumption
  <2> QED
    BY <1>4, <2>1 DEF Pool!Next
<1> QED
  BY <1>1, <1>2, <1>3, <1>4 DEF Report

LEMMA StepUsesPool ==
  ASSUME [Next]_vars
  PROVE  [Pool!Next]_(Pool!vars)
<1>1. CASE UNCHANGED vars
  BY <1>1 DEF vars, poolVars, Pool!vars
<1>2. CASE Elsewhere
  BY <1>2, GatewayAssumption DEF Elsewhere, Pool!Next
<1>3. ASSUME NEW r \in Requests, Arrive(r) \/ Handle(r) \/ Disconnect(r)
      PROVE  [Pool!Next]_(Pool!vars)
  <2>1. CASE Report(r)
    BY <2>1, ReportUsesPool
  <2>2. CASE PickAccount(r)
    BY <2>2 DEF PickAccount, Pool!Next
  <2>3. CASE End(r)
    BY <2>3, EndUsesPool DEF End
  <2>4. CASE UNCHANGED poolVars
    BY <2>4 DEF poolVars, Pool!vars
  <2>5. Report(r) \/ PickAccount(r) \/ End(r) \/ UNCHANGED poolVars
    BY <1>3 DEF Handle, Arrive, Admit, TurnAway, SessionReady, WaitingRoom, SessionFails,
                RunStarted, RunFails, Accepted, Refused, Unreachable, AllFailed, FinishRun,
                ReadBody, StartStream, StreamEnds, StreamBreaks, Disconnect
  <2> QED
    BY <2>1, <2>2, <2>3, <2>4, <2>5
<1> QED
  BY <1>1, <1>2, <1>3 DEF Next

(* Gateway implements AccountPool: the handlers call nothing of the pool   *)
(* out of turn, so what is proved of the pool under any use holds here.    *)
THEOREM GatewayUsesPool == Spec => PoolSpec
<1>1. Init => Pool!Init
  BY DEF Init
<1> QED
  BY <1>1, StepUsesPool, PTL DEF Spec, PoolSpec, Pool!Spec

(* The pool of the gateway and the pool of AccountPoolProofs are the same. *)
LEMMA SameInit == Pool!Init => PoolFacts!Init
BY DEF Pool!Init, PoolFacts!Init, Pool!NewBreaker, PoolFacts!NewBreaker

LEMMA SamePick == \A r : Pool!PickBest(r) => PoolFacts!PickBest(r)
BY DEF Pool!PickBest, PoolFacts!PickBest, Pool!AskAll, PoolFacts!AskAll,
       Pool!Allowed, PoolFacts!Allowed, Pool!Best, PoolFacts!Best, Pool!Allows,
       PoolFacts!Allows, Pool!Allow, PoolFacts!Allow, Pool!Members, PoolFacts!Members

LEMMA SameSuccess == \A r : Pool!MarkSuccess(r) => PoolFacts!MarkSuccess(r)
BY DEF Pool!MarkSuccess, PoolFacts!MarkSuccess, Pool!Report, PoolFacts!Report,
       Pool!Found, PoolFacts!Found, Pool!RecordSuccess, PoolFacts!RecordSuccess,
       Pool!NewBreaker, PoolFacts!NewBreaker, Pool!Settled, PoolFacts!Settled

LEMMA SameFailure == \A r : Pool!MarkFailure(r) => PoolFacts!MarkFailure(r)
BY DEF Pool!MarkFailure, PoolFacts!MarkFailure, Pool!Report, PoolFacts!Report,
       Pool!Found, PoolFacts!Found, Pool!RecordFailure, PoolFacts!RecordFailure,
       Pool!Trip, PoolFacts!Trip, Pool!OpensFor, PoolFacts!OpensFor, Pool!RestAfter,
       PoolFacts!RestAfter, Pool!AtMost, PoolFacts!AtMost, Pool!Settled, PoolFacts!Settled

LEMMA SameCooldown == \A r, d : Pool!MarkCooldown(r, d) => PoolFacts!MarkCooldown(r, d)
BY DEF Pool!MarkCooldown, PoolFacts!MarkCooldown, Pool!Report, PoolFacts!Report,
       Pool!Found, PoolFacts!Found, Pool!TripFor, PoolFacts!TripFor, Pool!OpensFor,
       PoolFacts!OpensFor, Pool!AtMost, PoolFacts!AtMost

LEMMA SameScore == \A r, d : Pool!UpdateScore(r, d) => PoolFacts!UpdateScore(r, d)
BY DEF Pool!UpdateScore, PoolFacts!UpdateScore, Pool!Found, PoolFacts!Found,
       Pool!Clamp, PoolFacts!Clamp

LEMMA SameLetGo == \A r : Pool!LetGo(r) => PoolFacts!LetGo(r)
BY DEF Pool!LetGo, PoolFacts!LetGo

LEMMA SameAdd == \A t : Pool!AddAccount(t) => PoolFacts!AddAccount(t)
BY DEF Pool!AddAccount, PoolFacts!AddAccount, Pool!Members, PoolFacts!Members,
       Pool!NewBreaker, PoolFacts!NewBreaker

LEMMA SameRemove == \A t : Pool!RemoveAccount(t) => PoolFacts!RemoveAccount(t)
BY DEF Pool!RemoveAccount, PoolFacts!RemoveAccount, Pool!NewBreaker,
       PoolFacts!NewBreaker, Pool!RemoveAt, PoolFacts!RemoveAt

LEMMA SameTick == Pool!Tick => PoolFacts!Tick
BY DEF Pool!Tick, PoolFacts!Tick, Pool!Elapse, PoolFacts!Elapse

LEMMA SameNext == Pool!Next => PoolFacts!Next
<1>1. ASSUME NEW r \in Requests,
             \/ Pool!PickBest(r) \/ Pool!MarkSuccess(r) \/ Pool!MarkFailure(r) \/ Pool!LetGo(r)
             \/ \E rest \in Rests : Pool!MarkCooldown(r, rest)
             \/ \E delta \in Deltas : Pool!UpdateScore(r, delta)
      PROVE  PoolFacts!Next
  BY <1>1, SamePick, SameSuccess, SameFailure, SameCooldown, SameScore, SameLetGo
     DEF PoolFacts!Next
<1>2. ASSUME NEW t \in Tokens, Pool!AddAccount(t) \/ Pool!RemoveAccount(t)
      PROVE  PoolFacts!Next
  BY <1>2, SameAdd, SameRemove DEF PoolFacts!Next
<1> QED
  BY <1>1, <1>2, SameTick DEF Pool!Next, PoolFacts!Next

LEMMA SamePool == Pool!Spec => PoolFacts!Spec
<1>1. [Pool!Next]_(Pool!vars) => [PoolFacts!Next]_(PoolFacts!vars)
  BY SameNext DEF Pool!vars, PoolFacts!vars
<1> QED
  BY <1>1, SameInit, PTL DEF Pool!Spec, PoolFacts!Spec

(* The pool's types hold whatever the requests do. *)
LEMMA PoolTypes == Spec => []Pool!TypeOK
<1>1. PoolFacts!PoolAssumption /\ PoolFacts!BreakerAssumption
  BY PoolConstants DEF Pool!PoolAssumption, Pool!BreakerAssumption,
                       PoolFacts!PoolAssumption, PoolFacts!BreakerAssumption
<1>2. PoolFacts!Spec => []PoolFacts!TypeOK
  BY <1>1, PoolFacts!PoolTypeCorrect
<1>3. PoolFacts!TypeOK => Pool!TypeOK
  BY DEF Pool!TypeOK, PoolFacts!TypeOK, Pool!Breaker, PoolFacts!Breaker,
         Pool!CircuitState, PoolFacts!CircuitState
<1> QED
  BY <1>2, <1>3, SamePool, GatewayUsesPool, PTL DEF PoolSpec

-----------------------------------------------------------------------------
(* The requests.  What is true of one at each stage is a matter of its own *)
(* variables: nobody else writes them.                                     *)
FlowTypes ==
  /\ inside \in [Requests -> Tiers \cup {NoTier}]
  /\ tier \in [Requests -> Tiers]
  /\ stage \in [Requests -> Stages]
  /\ attempts \in [Requests -> 0..MaxAttempts]
  /\ todo \in [Requests -> Seq(Reports)]
  /\ next \in [Requests -> Stages]
  /\ owed \in [Requests -> {"None", "Success", "Failure"}]
  /\ answer \in [Requests -> Answers]
  /\ rows \in [Requests -> [usage : Nat, telemetry : Nat]]

(* The guard of its tier, from the gate to the end. *)
Guarded(r) ==
  inside[r] = IF stage[r] \in {"New", "Gate", "Over"} THEN NoTier ELSE tier[r]

(* The loop has a turn left where it goes on. *)
InLoop(r) ==
  /\ stage[r] \in {"New", "Gate"} => attempts[r] = 0
  /\ stage[r] = "Pick" => attempts[r] < MaxAttempts
  /\ stage[r] = "Report" =>
       /\ todo[r] # <<>>
       /\ next[r] \in {"Pick", "GiveUp", "Chat", "Finish"}
       /\ next[r] = "Pick" => attempts[r] < MaxAttempts

(* A failure not yet reported is the next thing the handler reports. *)
Owing(r) ==
  owed[r] = "Failure" => stage[r] = "Report" /\ Head(todo[r]) = "failure"

(* Nothing is answered before the stream, or recorded before the end. *)
Books(r) ==
  /\ stage[r] \notin {"Stream", "Over"} => answer[r] = "None"
  /\ stage[r] = "Stream" => answer[r] = "Ok"
  /\ stage[r] # "Over" => rows[r].usage = 0 /\ rows[r].telemetry = 0
  /\ rows[r].usage <= 1 /\ rows[r].telemetry <= 1
  /\ rows[r].usage + rows[r].telemetry > 0 => answer[r] # "None"
  /\ stage[r] = "Over" => RowsFit(r, answer[r], rows[r])

Local(r) == Guarded(r) /\ InLoop(r) /\ Owing(r) /\ Books(r)

LInv == FlowTypes /\ \A r \in Requests : Local(r)

LEMMA InitLocal == Init => LInv
BY GatewayAssumption, GateConstants
   DEF Init, Gate!Init, Gate!GateAssumption, LInv, FlowTypes, Local, Guarded, InLoop,
       Owing, Books, Stages, Reports, Answers

(* The end of a request, whatever the answer and the rows. *)
LEMMA EndLocal ==
  ASSUME LInv, NEW r \in Requests, LeaveGate(r), Forget(r),
         NEW a \in Answers, answer' = [answer EXCEPT ![r] = a],
         NEW u \in 0..1, NEW t \in 0..1, Record(r, u, t),
         u + t > 0 => a # "None", stage[r] # "Over",
         RowsFit(r, a, [usage |-> u, telemetry |-> t])
  PROVE  LInv'
<1>1. FlowTypes'
  <2>1. <<>> \in Seq(Reports) /\ "free" \in Tiers /\ 0 \in 0..MaxAttempts
    BY GatewayAssumption
  <2>2. rows' \in [Requests -> [usage : Nat, telemetry : Nat]]
    BY DEF LInv, FlowTypes, Record
  <2> QED
    BY <2>1, <2>2 DEF LInv, FlowTypes, LeaveGate, Gate!Leave, Forget, Stages
<1>2. Local(r)'
  BY DEF LInv, FlowTypes, LeaveGate, Gate!Leave, Forget, Record, Local, Guarded, InLoop,
         Owing, Books
<1>3. ASSUME NEW q \in Requests, q # r
      PROVE  Local(q)'
  BY <1>3 DEF LInv, FlowTypes, LeaveGate, Gate!Leave, Forget, Record, Local, Guarded,
              InLoop, Owing, Books
<1> QED
  BY <1>1, <1>2, <1>3 DEF LInv
LEMMA ArriveLocal ==
  ASSUME LInv, NEW r \in Requests, Arrive(r)
  PROVE  LInv'
<1>1. FlowTypes'
  BY GatewayAssumption DEF Arrive, At, ledger, LInv, FlowTypes, Stages, Reports, Scored
<1>2. \A q \in Requests : Local(q)'
  BY DEF Arrive, At, ledger, LInv, FlowTypes, Local, Guarded, InLoop, Owing, Books
<1> QED
  BY <1>1, <1>2 DEF LInv

LEMMA AdmitLocal ==
  ASSUME LInv, NEW r \in Requests, Admit(r)
  PROVE  LInv'
<1>1. FlowTypes'
  BY GatewayAssumption DEF Admit, At, GoTo, Gate!Enter, ledger, LInv, FlowTypes, Stages, Reports, Scored
<1>2. \A q \in Requests : Local(q)'
  BY GatewayAssumption DEF Admit, At, GoTo, Gate!Enter, ledger, LInv, FlowTypes, Local, Guarded, InLoop, Owing, Books
<1> QED
  BY <1>1, <1>2 DEF LInv

LEMMA SessionReadyLocal ==
  ASSUME LInv, NEW r \in Requests, SessionReady(r)
  PROVE  LInv'
<1>1. FlowTypes'
  BY DEF SessionReady, At, GoTo, ledger, LInv, FlowTypes, Stages, Reports, Scored
<1>2. \A q \in Requests : Local(q)'
  BY DEF SessionReady, At, GoTo, ledger, LInv, FlowTypes, Local, Guarded, InLoop, Owing, Books
<1> QED
  BY <1>1, <1>2 DEF LInv

LEMMA SessionFailsLocal ==
  ASSUME LInv, NEW r \in Requests, SessionFails(r)
  PROVE  LInv'
<1>1. FlowTypes'
  BY DEF SessionFails, At, ReportThen, Retry, ledger, LInv, FlowTypes, Stages, Reports, Scored
<1>2. \A q \in Requests : Local(q)'
  BY DEF SessionFails, At, ReportThen, Retry, ledger, LInv, FlowTypes, Local, Guarded, InLoop, Owing, Books
<1> QED
  BY <1>1, <1>2 DEF LInv

LEMMA RunStartedLocal ==
  ASSUME LInv, NEW r \in Requests, RunStarted(r)
  PROVE  LInv'
<1>1. FlowTypes'
  BY DEF RunStarted, At, ledger, ReportThen, LInv, FlowTypes, Stages, Reports, Scored
<1>2. \A q \in Requests : Local(q)'
  BY DEF RunStarted, At, ledger, ReportThen, LInv, FlowTypes, Local, Guarded, InLoop, Owing, Books
<1> QED
  BY <1>1, <1>2 DEF LInv

LEMMA RunFailsLocal ==
  ASSUME LInv, NEW r \in Requests, RunFails(r)
  PROVE  LInv'
<1>1. FlowTypes'
  BY DEF RunFails, At, ReportThen, Retry, ledger, LInv, FlowTypes, Stages, Reports, Scored
<1>2. \A q \in Requests : Local(q)'
  BY DEF RunFails, At, ReportThen, Retry, ledger, LInv, FlowTypes, Local, Guarded, InLoop, Owing, Books
<1> QED
  BY <1>1, <1>2 DEF LInv

LEMMA AcceptedLocal ==
  ASSUME LInv, NEW r \in Requests, Accepted(r)
  PROVE  LInv'
<1>1. CASE ReportThen(r, <<"ok", "success">>, "Finish", "Success")
  <2>1. FlowTypes'
    BY <1>1 DEF Accepted, ReportThen, LInv, FlowTypes, Stages, Reports, Scored, ledger
  <2>2. \A q \in Requests : Local(q)'
    BY <1>1 DEF Accepted, At, ReportThen, ledger, LInv, FlowTypes, Local, Guarded, InLoop,
                Owing, Books
  <2> QED
    BY <2>1, <2>2 DEF LInv
<1>2. CASE /\ stage' = [stage EXCEPT ![r] = "Ready"]
           /\ owed' = [owed EXCEPT ![r] = "Success"]
           /\ UNCHANGED <<tier, attempts, todo, next>>
  <2>1. FlowTypes'
    BY <1>2 DEF Accepted, LInv, FlowTypes, Stages, ledger
  <2>2. \A q \in Requests : Local(q)'
    BY <1>2 DEF Accepted, At, ledger, LInv, FlowTypes, Local, Guarded, InLoop,
                Owing, Books
  <2> QED
    BY <2>1, <2>2 DEF LInv
<1> QED
  BY <1>1, <1>2 DEF Accepted

LEMMA UnreachableLocal ==
  ASSUME LInv, NEW r \in Requests, Unreachable(r)
  PROVE  LInv'
<1>1. FlowTypes'
  BY DEF Unreachable, At, ReportThen, Retry, ledger, LInv, FlowTypes, Stages, Reports, Scored
<1>2. \A q \in Requests : Local(q)'
  BY DEF Unreachable, At, ReportThen, Retry, ledger, LInv, FlowTypes, Local, Guarded, InLoop, Owing, Books
<1> QED
  BY <1>1, <1>2 DEF LInv

LEMMA FinishRunLocal ==
  ASSUME LInv, NEW r \in Requests, FinishRun(r)
  PROVE  LInv'
<1>1. FlowTypes'
  BY DEF FinishRun, At, ledger, GoTo, LInv, FlowTypes, Stages, Reports, Scored
<1>2. \A q \in Requests : Local(q)'
  BY DEF FinishRun, At, ledger, GoTo, LInv, FlowTypes, Local, Guarded, InLoop, Owing, Books
<1> QED
  BY <1>1, <1>2 DEF LInv

LEMMA StartStreamLocal ==
  ASSUME LInv, NEW r \in Requests, StartStream(r)
  PROVE  LInv'
<1>1. FlowTypes'
  BY DEF StartStream, At, GoTo, Answered, LInv, FlowTypes, Stages, Answers
<1>2. \A q \in Requests : Local(q)'
  BY DEF StartStream, At, GoTo, Answered, LInv, FlowTypes, Local, Guarded, InLoop, Owing, Books
<1> QED
  BY <1>1, <1>2 DEF LInv

LEMMA ReportLocal ==
  ASSUME LInv, NEW r \in Requests, Report(r)
  PROVE  LInv'
<1> DEFINE rest == Tail(todo[r])
<1>1. todo[r] \in Seq(Reports) /\ todo[r] # <<>> /\ rest \in Seq(Reports)
  BY DEF Report, At, LInv, FlowTypes, Local, InLoop
<1>2. /\ todo' = [todo EXCEPT ![r] = rest]
      /\ stage' = [stage EXCEPT ![r] = IF rest = <<>> THEN next[r] ELSE "Report"]
      /\ next' = [next EXCEPT ![r] = IF rest = <<>> THEN "New" ELSE @]
      /\ owed' = [owed EXCEPT ![r] = IF Head(todo[r]) \in {"failure", "success"}
                                     THEN "None" ELSE @]
      /\ UNCHANGED <<inside, tier, attempts, ledger>>
      /\ stage[r] = "Report"
  BY DEF Report, At
<1> HIDE DEF rest
<1>3. FlowTypes'
  BY <1>1, <1>2 DEF LInv, FlowTypes, Stages, ledger
<1>4. Local(r)'
  BY <1>1, <1>2 DEF LInv, FlowTypes, ledger, Local, Guarded, InLoop, Owing, Books
<1>5. ASSUME NEW q \in Requests, q # r
      PROVE  Local(q)'
  BY <1>2, <1>5 DEF LInv, FlowTypes, ledger, Local, Guarded, InLoop, Owing, Books
<1> QED
  BY <1>3, <1>4, <1>5 DEF LInv

LEMMA RefusedLocal ==
  ASSUME LInv, NEW r \in Requests, NEW auth \in BOOLEAN, NEW switch \in BOOLEAN,
         Refused(r, auth, switch)
  PROVE  LInv'
<1> DEFINE reports == <<"failure", "http">> \o (IF auth THEN <<"cooldown">> ELSE <<>>)
           where == IF switch THEN Retry(r) ELSE "GiveUp"
<1>1. reports \in Seq(Reports) /\ reports # <<>> /\ Head(reports) = "failure"
  <2> DEFINE last == IF auth THEN <<"cooldown">> ELSE <<>>
  <2>1. /\ last = <<"cooldown">> \/ last = <<>>
        /\ last \in Seq(Reports)
        /\ <<"failure", "http">> \in Seq(Reports)
    <3>1. <<"cooldown">> \in Seq(Reports) /\ <<"failure", "http">> \in Seq(Reports)
      BY DEF Reports, Scored
    <3>2. <<>> \in Seq(Reports)
      OBVIOUS
    <3> QED
      BY <3>1, <3>2
  <2> HIDE DEF last
  <2>2. reports = <<"failure", "http">> \o last
    BY DEF last
  <2> HIDE DEF reports
  <2>3. Len(reports) = 2 + Len(last) /\ reports[1] = "failure" /\ reports \in Seq(Reports)
    BY <2>1, <2>2
  <2> QED
    BY <2>1, <2>3
<1>2. where \in Stages /\ where \in {"Pick", "GiveUp"}
      /\ (where = "Pick" => attempts[r] < MaxAttempts)
  BY DEF Retry, Stages
<1>3. /\ stage[r] = "Chat"
      /\ ReportThen(r, reports, where, "Failure")
      /\ UNCHANGED <<inside, ledger>>
  BY DEF Refused, At
<1> HIDE DEF reports, where
<1>4. FlowTypes'
  BY <1>1, <1>2, <1>3 DEF ReportThen, LInv, FlowTypes, Stages, ledger
<1>5. \A q \in Requests : Local(q)'
  BY <1>1, <1>2, <1>3
     DEF ReportThen, LInv, FlowTypes, ledger, Local, Guarded, InLoop, Owing, Books
<1> QED
  BY <1>4, <1>5 DEF LInv

LEMMA PickAccountLocal ==
  ASSUME LInv, NEW r \in Requests, PickAccount(r)
  PROVE  LInv'
<1>1. CASE LeaveGate(r) /\ Forget(r) /\ Answered(r, "NoAccount")
  <2>1. Record(r, 0, 0)
    BY DEF PickAccount, Record, LInv, FlowTypes
  <2>2. /\ answer' = [answer EXCEPT ![r] = "NoAccount"]
        /\ stage[r] # "Over" /\ "NoAccount" \in Answers /\ 0 \in 0..1
        /\ ~(0 + 0 > 0) /\ RowsFit(r, "NoAccount", [usage |-> 0, telemetry |-> 0])
    BY <1>1 DEF PickAccount, At, Answered, Answers, RowsFit
  <2> QED
    BY <1>1, <2>1, <2>2, EndLocal
<1>2. CASE ~(LeaveGate(r) /\ Forget(r) /\ Answered(r, "NoAccount"))
  <2>1. /\ stage[r] = "Pick"
        /\ \/ stage' = [stage EXCEPT ![r] = "Session"]
           \/ stage' = [stage EXCEPT ![r] = "GiveUp"]
        /\ attempts' = [attempts EXCEPT ![r] = @ + 1]
        /\ UNCHANGED <<inside, answer, tier, todo, next, owed, rows>>
    BY <1>2 DEF PickAccount, At
  <2>2. attempts' \in [Requests -> 0..MaxAttempts]
    BY <2>1, GatewayAssumption DEF LInv, FlowTypes, Local, InLoop
  <2>3. FlowTypes'
    BY <2>1, <2>2 DEF LInv, FlowTypes, Stages
  <2>4. \A q \in Requests : Local(q)'
    BY <2>1 DEF LInv, FlowTypes, Local, Guarded, InLoop, Owing, Books
  <2> QED
    BY <2>3, <2>4 DEF LInv
<1> QED
  BY <1>1, <1>2
(* The ways out, with their answer and rows. *)
LEMMA EndsLocal ==
  ASSUME LInv, NEW r \in Requests,
         \/ TurnAway(r) \/ WaitingRoom(r) \/ AllFailed(r) \/ ReadBody(r)
         \/ StreamEnds(r) \/ StreamBreaks(r) \/ Disconnect(r)
  PROVE  LInv'
<1>1. LeaveGate(r) /\ Forget(r) /\ stage[r] # "Over"
  BY DEF TurnAway, WaitingRoom, AllFailed, ReadBody, StreamEnds, StreamBreaks, Disconnect, At, End
<1>2. ASSUME NEW a \in Answers, NEW u \in 0..1, NEW t \in 0..1,
             u + t > 0 => a # "None",
             RowsFit(r, a, [usage |-> u, telemetry |-> t]),
             answer' = [answer EXCEPT ![r] = a], Record(r, u, t)
      PROVE  LInv'
  BY <1>1, <1>2, EndLocal
<1>3. {0, 1} = 0..1 /\ ~(0 + 0 > 0)
  OBVIOUS
<1>4. CASE TurnAway(r)
  BY <1>2, <1>3, <1>4, "Busy" \in Answers, "Busy" # "None" DEF TurnAway, Answered, Answers, RowsFit
<1>5. CASE WaitingRoom(r)
  BY <1>2, <1>3, <1>5, "Waiting" # "None" DEF WaitingRoom, Answered, Answers, RowsFit
<1>6. CASE AllFailed(r)
  BY <1>2, <1>3, <1>6, "Failed" # "None" DEF AllFailed, Answered, Answers, RowsFit
<1>7. CASE ReadBody(r)
  <2>1. \E a \in {"Ok", "Failed"} : answer' = [answer EXCEPT ![r] = a] /\ Record(r, 1, 1)
    BY <1>7 DEF ReadBody, Answered
  <2> QED
    BY <1>2, <1>3, <2>1 DEF Answers, RowsFit
<1>8. CASE StreamEnds(r) \/ StreamBreaks(r)
  <2>1. answer' = [answer EXCEPT ![r] = "Ok"]
    BY <1>8 DEF StreamEnds, StreamBreaks, At, LInv, FlowTypes, Local, Books
  <2>2. \E u \in 0..1 : Record(r, u, 1) /\ (Handler[r] = "Claude" => u = 1)
    BY <1>3, <1>8 DEF StreamEnds, StreamBreaks
  <2> QED
    BY <1>2, <1>3, <2>1, <2>2, "Ok" # "None" DEF Answers, RowsFit
<1>9. CASE Disconnect(r)
  <2>1. answer' = [answer EXCEPT ![r] = "None"]
    BY <1>9 DEF Disconnect, LInv, FlowTypes, Local, Books
  <2>2. Record(r, 0, 0)
    BY <1>9 DEF Disconnect, Record, LInv, FlowTypes
  <2> QED
    BY <1>2, <1>3, <2>1, <2>2 DEF Answers, RowsFit
<1> QED
  BY <1>4, <1>5, <1>6, <1>7, <1>8, <1>9

LEMMA StepLocal ==
  ASSUME LInv, [Next]_vars
  PROVE  LInv'
<1>1. CASE UNCHANGED <<inside, flow, ledger>>
  BY <1>1 DEF LInv, FlowTypes, Local, Guarded, InLoop, Owing, Books, flow, ledger
<1>2. CASE UNCHANGED vars \/ Elsewhere
  BY <1>1, <1>2 DEF vars, Elsewhere
<1>3. ASSUME NEW r \in Requests, Arrive(r) \/ Handle(r) \/ Disconnect(r)
      PROVE  LInv'
  BY <1>3, ArriveLocal, AdmitLocal, SessionReadyLocal, SessionFailsLocal, RunStartedLocal,
     RunFailsLocal, AcceptedLocal, UnreachableLocal, FinishRunLocal, StartStreamLocal,
     ReportLocal, RefusedLocal, PickAccountLocal, EndsLocal DEF Handle
<1> QED
  BY <1>2, <1>3 DEF Next

(* The invariant of the requests. *)
THEOREM GatewayInvariant == Spec => []LInv
BY InitLocal, StepLocal, PTL DEF Spec

(* Types: the counters of a request stay within the retry budget. *)
THEOREM GatewayTypeCorrect == Spec => []TypeOK
<1>1. LInv /\ Pool!TypeOK => TypeOK
  BY DEF LInv, FlowTypes, TypeOK
<1> QED
  BY <1>1, GatewayInvariant, PoolTypes, PTL

(* No failure is lost on the way to the pool, unless the client leaves. *)
THEOREM FailuresAreReported == Spec => []FailureIsReported
<1>1. LInv => FailureIsReported
  BY DEF LInv, Local, Owing, Books, FailureIsReported, At
<1> QED
  BY <1>1, GatewayInvariant, PTL

(* A request leaves at most one row in each table, at its end, and the rows *)
(* that go with its answer.                                                *)
THEOREM RowsAreWrittenOnce == Spec => []RowsOnce
<1>1. LInv => RowsOnce
  BY DEF LInv, FlowTypes, Local, Books, RowsOnce, At
<1> QED
  BY <1>1, GatewayInvariant, PTL
-----------------------------------------------------------------------------
(* The gate is entered and left by its protocol only.                      *)
LEMMA StepUsesGate ==
  ASSUME LInv, [Next]_vars
  PROVE  [Gate!Next]_inside
<1>1. CASE UNCHANGED vars \/ Elsewhere
  BY <1>1 DEF vars, Elsewhere
<1>2. ASSUME NEW r \in Requests, Arrive(r) \/ Handle(r) \/ Disconnect(r)
      PROVE  [Gate!Next]_inside
  <2>1. CASE LeaveGate(r)
    BY <2>1 DEF LeaveGate, Gate!Next
  <2>2. CASE Admit(r)
    BY <2>2 DEF Admit, Gate!Next, LInv, FlowTypes
  <2>3. Admit(r) \/ LeaveGate(r) \/ UNCHANGED inside
    BY <1>2 DEF Handle, Arrive, TurnAway, SessionReady, WaitingRoom, SessionFails,
                RunStarted, RunFails, Accepted, Refused, Unreachable, AllFailed, FinishRun,
                ReadBody, StartStream, StreamEnds, StreamBreaks, Disconnect, End,
                PickAccount, Report
  <2> QED
    BY <2>1, <2>2, <2>3
<1> QED
  BY <1>1, <1>2 DEF Next

(* Gateway implements ConcurrencyGate: guards are taken one at a time,     *)
(* while there is room, and given back by who took them.                   *)
THEOREM GatewayUsesGate == Spec => GateSpec
<1>1. Init => Gate!Init
  BY DEF Init
<1> QED
  BY <1>1, StepUsesGate, GatewayInvariant, PTL DEF Spec, GateSpec, Gate!Spec

LEMMA InsideFinite ==
  \A t : IsFiniteSet(Gate!Inside(t)) /\ Cardinality(Gate!Inside(t)) \in Nat
BY GatewayAssumption, FS_Subset, FS_CardinalityType DEF Gate!Inside

LEMMA GateStep ==
  ASSUME LInv, [Gate!Next]_inside, Gate!WallHolds
  PROVE  Gate!WallHolds'
<1>1. CASE UNCHANGED inside
  BY <1>1 DEF Gate!WallHolds, Gate!Inside
<1>2. ASSUME NEW r \in Requests, Gate!Leave(r), NEW t \in Tiers
      PROVE  Cardinality(Gate!Inside(t)') <= Limit[t]
  <2>1. Gate!Inside(t)' \subseteq Gate!Inside(t)
    BY <1>2, GateConstants DEF Gate!GateAssumption, Gate!Leave, Gate!Inside, LInv, FlowTypes
  <2>2. Cardinality(Gate!Inside(t)') <= Cardinality(Gate!Inside(t))
    BY <2>1, InsideFinite, FS_Subset
  <2>3. Cardinality(Gate!Inside(t)') \in Nat /\ Limit[t] \in Nat
    BY <2>1, InsideFinite, FS_Subset, FS_CardinalityType, GateConstants DEF Gate!GateAssumption
  <2>4. Cardinality(Gate!Inside(t)) <= Limit[t]
    BY DEF Gate!WallHolds, Gate!Cardinality, Cardinality
  <2>5. \A a, b, c \in Nat : a <= b /\ b <= c => a <= c
    OBVIOUS
  <2> QED
    BY <2>2, <2>3, <2>4, <2>5, InsideFinite
<1>3. ASSUME NEW r \in Requests, NEW s \in Tiers, Gate!Enter(r, s), NEW t \in Tiers
      PROVE  Cardinality(Gate!Inside(t)') <= Limit[t]
  <2>1. CASE s = t
    <3>1. Gate!Inside(t)' = Gate!Inside(t) \cup {r}
      BY <1>3, <2>1 DEF Gate!Enter, Gate!Inside, LInv, FlowTypes
    <3>2. r \notin Gate!Inside(t)
      BY <1>3, GateConstants DEF Gate!Enter, Gate!Inside, Gate!GateAssumption
    <3>3. Cardinality(Gate!Inside(t) \cup {r}) = Cardinality(Gate!Inside(t)) + 1
      BY <3>2, InsideFinite, FS_AddElement
    <3>4. Cardinality(Gate!Inside(t)) < Limit[t]
      BY <1>3, <2>1 DEF Gate!Enter, Gate!Cardinality, Cardinality
    <3>5. \A c, d \in Nat : c < d => c + 1 <= d
      OBVIOUS
    <3>6. Limit[t] \in Nat
      BY GateConstants DEF Gate!GateAssumption
    <3> QED
      BY <3>1, <3>3, <3>4, <3>5, <3>6, InsideFinite
  <2>2. CASE s # t
    <3>1. Gate!Inside(t)' = Gate!Inside(t)
      BY <1>3, <2>2, GateConstants
         DEF Gate!Enter, Gate!Inside, Gate!GateAssumption, LInv, FlowTypes
    <3> QED
      BY <3>1, Gate!WallHolds DEF Gate!WallHolds, Gate!Cardinality, Cardinality
  <2> QED
    BY <2>1, <2>2
<1> QED
  BY <1>1, <1>2, <1>3 DEF Gate!Next, Gate!WallHolds, Gate!Cardinality, Cardinality

LEMMA GateInit == Init => Gate!WallHolds
<1> SUFFICES ASSUME Init, NEW t \in Tiers
             PROVE  Cardinality(Gate!Inside(t)) <= Limit[t]
  BY DEF Gate!WallHolds, Gate!Cardinality, Cardinality
<1>1. Gate!Inside(t) = {}
  BY GateConstants DEF Init, Gate!Init, Gate!Inside, Gate!GateAssumption
<1> QED
  BY <1>1, FS_EmptySet, GateConstants DEF Gate!GateAssumption

(* Who uses the upstream has a guard. *)
LEMMA UpstreamInside ==
  ASSUME LInv, NEW t \in Tiers
  PROVE  Upstream(t) \subseteq Gate!Inside(t)
BY DEF Upstream, Gate!Inside, LInv, Local, Guarded

(* The concurrency wall, for any number of requests and any limits.        *)
THEOREM WallStands == Spec => []UpstreamWall
<1>1. Spec => []Gate!WallHolds
  BY GateInit, GateStep, StepUsesGate, GatewayInvariant, PTL DEF Spec
<1>2. LInv /\ Gate!WallHolds => UpstreamWall
  <2> SUFFICES ASSUME LInv, Gate!WallHolds
               PROVE  UpstreamWall
    OBVIOUS
  <2>1. ASSUME NEW t \in Tiers
        PROVE  Cardinality(Upstream(t)) <= Limit[t]
    <3>1. Cardinality(Upstream(t)) <= Cardinality(Gate!Inside(t))
      BY UpstreamInside, InsideFinite, FS_Subset
    <3>2. Cardinality(Upstream(t)) \in Nat /\ Limit[t] \in Nat
      BY UpstreamInside, InsideFinite, FS_Subset, FS_CardinalityType, GateConstants
         DEF Gate!GateAssumption
    <3>3. Cardinality(Gate!Inside(t)) <= Limit[t]
      BY DEF Gate!WallHolds, Gate!Cardinality, Cardinality
    <3>4. \A a, b, c \in Nat : a <= b /\ b <= c => a <= c
      OBVIOUS
    <3> QED
      BY <3>1, <3>2, <3>3, <3>4, InsideFinite
  <2>2. \A r \in Requests : At(r, "Over") => inside[r] = NoTier
    BY DEF LInv, Local, Guarded, At
  <2> QED
    BY <2>1, <2>2 DEF UpstreamWall
<1> QED
  BY <1>1, <1>2, GatewayInvariant, PTL

-----------------------------------------------------------------------------
(***************************************************************************)
(* Why every request ends.  The number of steps a handler has still to     *)
(* make is bounded from its first one on, and each step makes it less,     *)
(* whatever the upstream answers and whatever other requests and imports   *)
(* do to the pool meanwhile.  With handlers that go on, and sessions that  *)
(* come back, as in EveryRequestEnds, the loop over the attempts comes to  *)
(* its end.                                                                *)
(***************************************************************************)

(* The steps an attempt has still to make from an await on, with as many   *)
(* reports in between as there may be; a turn of the loop is less than 16. *)
FromAwait(s) ==
  CASE s = "New" -> 12 [] s = "Gate" -> 11 [] s = "Session" -> 10 [] s = "Run" -> 9
    [] s = "Chat" -> 7 [] s = "Finish" -> 3 [] s = "Pick" -> 2 [] s = "Ready" -> 2
    [] OTHER -> 1

TurnsLeft(r) == 16 * (MaxAttempts - attempts[r])

StepsLeft(r) ==
  IF stage[r] = "Over" THEN 0
  ELSE TurnsLeft(r)
       + IF stage[r] = "Report" THEN FromAwait(next[r]) + Len(todo[r])
         ELSE FromAwait(stage[r])

LEMMA AwaitCounts == \A s : FromAwait(s) \in 1..12
BY DEF FromAwait

LEMMA TurnsLeftType ==
  ASSUME LInv, NEW r \in Requests
  PROVE  TurnsLeft(r) \in Nat
<1>1. MaxAttempts \in Nat /\ attempts[r] \in 0..MaxAttempts
  BY GatewayAssumption DEF LInv, FlowTypes
<1> QED
  BY <1>1 DEF TurnsLeft

LEMMA StepsLeftType ==
  ASSUME LInv, NEW r \in Requests
  PROVE  StepsLeft(r) \in Nat /\ (stage[r] # "Over" => StepsLeft(r) > 0)
<1>1. Len(todo[r]) \in Nat
  BY DEF LInv, FlowTypes
<1>2. FromAwait(next[r]) \in 1..12 /\ FromAwait(stage[r]) \in 1..12 /\ TurnsLeft(r) \in Nat
  BY AwaitCounts, TurnsLeftType
<1>3. \A n, k \in Nat, m \in 1..12 : /\ n + m \in Nat /\ n + m > 0
                                     /\ n + (m + k) \in Nat /\ n + (m + k) > 0
  OBVIOUS
<1>4. CASE stage[r] = "Over"
  BY <1>4 DEF StepsLeft
<1>5. CASE stage[r] = "Report"
  <2>1. StepsLeft(r) = TurnsLeft(r) + (FromAwait(next[r]) + Len(todo[r]))
    BY <1>5 DEF StepsLeft
  <2> QED
    BY <1>1, <1>2, <1>3, <2>1
<1>6. CASE stage[r] \notin {"Over", "Report"}
  <2>1. StepsLeft(r) = TurnsLeft(r) + FromAwait(stage[r])
    BY <1>6 DEF StepsLeft
  <2> QED
    BY <1>2, <1>3, <2>1
<1> QED
  BY <1>4, <1>5, <1>6

(* The count, a step later. *)
LEMMA StepsLeftTypeNext == LInv' => (\A r \in Requests : StepsLeft(r) \in Nat)'
<1>1. LInv => \A r \in Requests : StepsLeft(r) \in Nat
  BY StepsLeftType
<1> QED
  BY <1>1, PTL

(* In the same turn of the loop it is what is left of the turn that counts.*)
LEMMA SameTurn ==
  ASSUME NEW n \in Nat, NEW x \in Int, NEW y \in Int, x < y
  PROVE  n + x < n + y
OBVIOUS

(* A handler goes on to an await that is nearer to the end.                *)
LEMMA NearerAwait ==
  ASSUME LInv, NEW r \in Requests, stage[r] \notin {"Over", "Report"},
         stage'[r] \notin {"Over", "Report"}, attempts'[r] = attempts[r],
         FromAwait(stage'[r]) < FromAwait(stage[r])
  PROVE  StepsLeft(r)' < StepsLeft(r)
<1>1. FromAwait(stage'[r]) \in Int /\ FromAwait(stage[r]) \in Int /\ TurnsLeft(r) \in Nat
  BY AwaitCounts, TurnsLeftType
<1>2. TurnsLeft(r)' = TurnsLeft(r)
  BY DEF TurnsLeft
<1>3. StepsLeft(r)' = TurnsLeft(r) + FromAwait(stage'[r])
  BY <1>2 DEF StepsLeft, FromAwait
<1>4. StepsLeft(r) = TurnsLeft(r) + FromAwait(stage[r])
  BY DEF StepsLeft
<1> QED
  BY <1>1, <1>3, <1>4, SameTurn

(* The reports of a verdict fit between the call and what comes next.      *)
LEMMA NearerReport ==
  ASSUME LInv, NEW r \in Requests, stage[r] \notin {"Over", "Report"},
         NEW reports \in Seq(Reports), NEW where, NEW verdict,
         ReportThen(r, reports, where, verdict),
         FromAwait(where) + Len(reports) < FromAwait(stage[r])
  PROVE  StepsLeft(r)' < StepsLeft(r)
<1>1. FromAwait(where) \in Int /\ FromAwait(stage[r]) \in Int /\ TurnsLeft(r) \in Nat
  BY AwaitCounts, TurnsLeftType
<1>2. FromAwait(where) + Len(reports) \in Int
  BY <1>1
<1>3. /\ stage'[r] = "Report" /\ todo'[r] = reports /\ next'[r] = where
      /\ attempts'[r] = attempts[r]
  BY DEF ReportThen, LInv, FlowTypes
<1>4. StepsLeft(r)' = TurnsLeft(r) + (FromAwait(where) + Len(reports))
  BY <1>3 DEF StepsLeft, TurnsLeft, FromAwait
<1>5. StepsLeft(r) = TurnsLeft(r) + FromAwait(stage[r])
  BY DEF StepsLeft
<1> QED
  BY <1>1, <1>2, <1>4, <1>5, SameTurn

(* From one await to the next, with no report in between.                  *)
LEMMA AwaitsRunDown ==
  ASSUME LInv, NEW r \in Requests,
         \/ Admit(r) \/ SessionReady(r) \/ FinishRun(r) \/ StartStream(r)
         \/ Arrive(r)
  PROVE  StepsLeft(r)' < StepsLeft(r)
<1>1. PICK s \in {"Gate", "Pick", "Run", "Ready", "Stream"} :
        /\ stage' = [stage EXCEPT ![r] = s] /\ UNCHANGED attempts
        /\ stage[r] \notin {"Over", "Report"}
        /\ FromAwait(s) < FromAwait(stage[r])
  BY DEF Admit, SessionReady, FinishRun, StartStream, Arrive, GoTo, At, FromAwait
<1>2. stage'[r] = s
  BY <1>1 DEF LInv, FlowTypes
<1> QED
  BY <1>1, <1>2, NearerAwait

(* A verdict and its reports, where the loop goes on or ends after them.   *)
LEMMA VerdictRunsDown ==
  ASSUME LInv, NEW r \in Requests, stage[r] \in {"Session", "Run", "Chat"},
         NEW reports \in Seq(Reports), Len(reports) \in {1, 2, 3},
         NEW where \in {"Pick", "GiveUp"}, NEW verdict,
         ReportThen(r, reports, where, verdict)
  PROVE  StepsLeft(r)' < StepsLeft(r)
<1>1. FromAwait(where) \in {1, 2} /\ FromAwait(stage[r]) \in {7, 9, 10}
  BY DEF FromAwait
<1>2. \A a \in {1, 2}, b \in {1, 2, 3}, c \in {7, 9, 10} : a + b < c
  OBVIOUS
<1>3. FromAwait(where) + Len(reports) < FromAwait(stage[r])
  BY <1>1, <1>2
<1>4. stage[r] \notin {"Over", "Report"}
  OBVIOUS
<1> QED
  BY <1>3, <1>4, NearerReport

LEMMA VerdictsRunDown ==
  ASSUME LInv, NEW r \in Requests,
         \/ SessionFails(r) \/ RunFails(r) \/ Unreachable(r)
         \/ \E auth, switch \in BOOLEAN : Refused(r, auth, switch)
  PROVE  StepsLeft(r)' < StepsLeft(r)
<1>1. Retry(r) \in {"Pick", "GiveUp"}
  BY DEF Retry
<1>2. /\ <<"failure", "session">> \in Seq(Reports) /\ Len(<<"failure", "session">>) = 2
      /\ <<"failure">> \in Seq(Reports) /\ Len(<<"failure">>) = 1
      /\ <<"failure", "network">> \in Seq(Reports) /\ Len(<<"failure", "network">>) = 2
  BY DEF Reports, Scored
<1>3. CASE SessionFails(r)
  <2>1. stage[r] = "Session" /\ ReportThen(r, <<"failure", "session">>, Retry(r), "Failure")
    BY <1>3 DEF SessionFails, At
  <2> QED
    BY <1>1, <1>2, <2>1, VerdictRunsDown
<1>4. CASE RunFails(r)
  <2>1. stage[r] = "Run" /\ ReportThen(r, <<"failure">>, Retry(r), "Failure")
    BY <1>4 DEF RunFails, At
  <2> QED
    BY <1>1, <1>2, <2>1, VerdictRunsDown
<1>5. CASE Unreachable(r)
  <2>1. stage[r] = "Chat" /\ ReportThen(r, <<"failure", "network">>, Retry(r), "Failure")
    BY <1>5 DEF Unreachable, At
  <2> QED
    BY <1>1, <1>2, <2>1, VerdictRunsDown
<1>6. ASSUME NEW auth \in BOOLEAN, NEW switch \in BOOLEAN, Refused(r, auth, switch)
      PROVE  StepsLeft(r)' < StepsLeft(r)
  <2> DEFINE last == IF auth THEN <<"cooldown">> ELSE <<>>
             reports == <<"failure", "http">> \o last
             where == IF switch THEN Retry(r) ELSE "GiveUp"
  <2>1. stage[r] = "Chat" /\ ReportThen(r, reports, where, "Failure")
    BY <1>6 DEF Refused, At
  <2>2. where \in {"Pick", "GiveUp"}
    BY <1>1
  <2>3. last \in Seq(Reports) /\ (Len(last) = 0 \/ Len(last) = 1)
    <3>1. /\ <<"cooldown">> \in Seq(Reports) /\ Len(<<"cooldown">>) = 1
          /\ <<>> \in Seq(Reports) /\ Len(<<>>) = 0
      BY DEF Reports, Scored
    <3> QED
      BY <3>1
  <2>4. <<"failure", "http">> \in Seq(Reports) /\ Len(<<"failure", "http">>) = 2
    BY DEF Reports, Scored
  <2> HIDE DEF last, where
  <2>5. reports \in Seq(Reports) /\ Len(reports) = 2 + Len(last)
    <3>1. \A u, v \in Seq(Reports) : u \o v \in Seq(Reports) /\ Len(u \o v) = Len(u) + Len(v)
      OBVIOUS
    <3> QED
      BY <2>3, <2>4, <3>1
  <2> HIDE DEF reports
  <2>6. Len(reports) \in {1, 2, 3}
    <3>1. Len(last) \in {0, 1} /\ \A n \in {0, 1} : 2 + n \in {1, 2, 3}
      BY <2>3
    <3> QED
      BY <2>5, <3>1
  <2> QED
    BY <2>1, <2>2, <2>5, <2>6, VerdictRunsDown
<1> QED
  BY <1>3, <1>4, <1>5, <1>6

LEMMA RunStartedRunsDown ==
  ASSUME LInv, NEW r \in Requests, RunStarted(r)
  PROVE  StepsLeft(r)' < StepsLeft(r)
<1>1. stage[r] = "Run" /\ ReportThen(r, <<"run">>, "Chat", "None")
  BY DEF RunStarted, At
<1>2. <<"run">> \in Seq(Reports) /\ Len(<<"run">>) = 1
  BY DEF Reports, Scored
<1>3. FromAwait("Chat") = 7 /\ FromAwait("Run") = 9 /\ 7 + 1 < 9
  BY DEF FromAwait
<1>4. FromAwait("Chat") + Len(<<"run">>) < FromAwait("Run")
  BY <1>2, <1>3
<1> QED
  BY <1>1, <1>2, <1>4, NearerReport

LEMMA AcceptanceRunsDown ==
  ASSUME LInv, NEW r \in Requests, Accepted(r)
  PROVE  StepsLeft(r)' < StepsLeft(r)
<1>1. stage[r] = "Chat" /\ FromAwait("Chat") = 7 /\ FromAwait("Finish") = 3
      /\ FromAwait("Ready") = 2
  BY DEF Accepted, At, FromAwait
<1>2. CASE ReportThen(r, <<"ok", "success">>, "Finish", "Success")
  <2>1. <<"ok", "success">> \in Seq(Reports) /\ Len(<<"ok", "success">>) = 2
    BY DEF Reports, Scored
  <2> QED
    BY <1>1, <1>2, <2>1, NearerReport
<1>3. CASE stage' = [stage EXCEPT ![r] = "Ready"] /\ UNCHANGED attempts
  <2>1. stage'[r] = "Ready"
    BY <1>3 DEF LInv, FlowTypes
  <2> QED
    BY <1>1, <1>3, <2>1, NearerAwait
<1> QED
  BY <1>2, <1>3 DEF Accepted

(* Each report is made once. *)
LEMMA ReportsRunDown ==
  ASSUME LInv, NEW r \in Requests, Report(r)
  PROVE  StepsLeft(r)' < StepsLeft(r)
<1> DEFINE rest == Tail(todo[r])
<1>1. /\ todo[r] \in Seq(Reports) /\ todo[r] # <<>> /\ rest \in Seq(Reports)
      /\ Len(rest) = Len(todo[r]) - 1 /\ Len(todo[r]) \in Nat
      /\ next[r] \in {"Pick", "GiveUp", "Chat", "Finish"}
  BY DEF Report, At, LInv, FlowTypes, Local, InLoop
<1>2. /\ todo' = [todo EXCEPT ![r] = rest]
      /\ stage' = [stage EXCEPT ![r] = IF rest = <<>> THEN next[r] ELSE "Report"]
      /\ next' = [next EXCEPT ![r] = IF rest = <<>> THEN "New" ELSE @]
      /\ attempts' = attempts
      /\ stage[r] = "Report"
  BY DEF Report, At
<1>3. TurnsLeft(r) \in Nat /\ FromAwait(next[r]) \in 1..12
  BY AwaitCounts, TurnsLeftType
<1> HIDE DEF rest
<1>4. StepsLeft(r) = TurnsLeft(r) + (FromAwait(next[r]) + Len(todo[r]))
  BY <1>2 DEF StepsLeft
<1>5. CASE rest = <<>>
  <2>1. stage'[r] = next[r] /\ attempts'[r] = attempts[r]
    BY <1>2, <1>5 DEF LInv, FlowTypes
  <2>2. StepsLeft(r)' = TurnsLeft(r) + FromAwait(next[r])
    BY <1>1, <2>1 DEF StepsLeft, TurnsLeft, FromAwait
  <2>3. Len(todo[r]) = 1
    BY <1>1, <1>5
  <2>4. FromAwait(next[r]) < FromAwait(next[r]) + Len(todo[r])
    BY <1>3, <2>3
  <2> QED
    BY <1>3, <1>4, <2>2, <2>3, <2>4, SameTurn
<1>6. CASE rest # <<>>
  <2>1. /\ stage'[r] = "Report" /\ attempts'[r] = attempts[r]
        /\ next'[r] = next[r] /\ todo'[r] = rest
    BY <1>2, <1>6 DEF LInv, FlowTypes
  <2>2. StepsLeft(r)' = TurnsLeft(r) + (FromAwait(next[r]) + Len(rest))
    BY <2>1 DEF StepsLeft, TurnsLeft, FromAwait
  <2>3. \A m \in 1..12, k \in Nat : m + (k - 1) < m + k /\ m + (k - 1) \in Int /\ m + k \in Int
    OBVIOUS
  <2>4. /\ FromAwait(next[r]) + Len(rest) < FromAwait(next[r]) + Len(todo[r])
        /\ FromAwait(next[r]) + Len(rest) \in Int /\ FromAwait(next[r]) + Len(todo[r]) \in Int
    BY <1>1, <1>3, <2>3
  <2> QED
    BY <1>3, <1>4, <2>2, <2>4, SameTurn
<1> QED
  BY <1>5, <1>6

(* A turn of the loop uses up an attempt. *)
LEMMA PickRunsDown ==
  ASSUME LInv, NEW r \in Requests, PickAccount(r)
  PROVE  StepsLeft(r)' < StepsLeft(r)
<1>1. /\ stage[r] = "Pick" /\ MaxAttempts \in Nat /\ attempts[r] \in 0..MaxAttempts
      /\ attempts[r] < MaxAttempts
  BY GatewayAssumption DEF PickAccount, At, LInv, FlowTypes, Local, InLoop
<1>2. StepsLeft(r) = 16 * (MaxAttempts - attempts[r]) + 2
  BY <1>1 DEF StepsLeft, TurnsLeft, FromAwait
<1>3. CASE Forget(r)
  <2>1. stage'[r] = "Over"
    BY <1>3 DEF Forget, LInv, FlowTypes
  <2> QED
    BY <1>1, <1>2, <2>1 DEF StepsLeft
<1>4. CASE ~Forget(r)
  <2>1. /\ attempts' = [attempts EXCEPT ![r] = @ + 1]
        /\ \/ stage' = [stage EXCEPT ![r] = "Session"]
           \/ stage' = [stage EXCEPT ![r] = "GiveUp"]
    BY <1>4 DEF PickAccount
  <2>2. attempts'[r] = attempts[r] + 1 /\ stage'[r] \in {"Session", "GiveUp"}
    BY <2>1 DEF LInv, FlowTypes
  <2>3. FromAwait(stage'[r]) <= 10 /\ FromAwait(stage'[r]) \in Nat
    BY <2>2 DEF FromAwait
  <2>4. StepsLeft(r)' = 16 * (MaxAttempts - (attempts[r] + 1)) + FromAwait(stage'[r])
    BY <2>2 DEF StepsLeft, TurnsLeft, FromAwait
  <2> QED
    BY <1>1, <1>2, <2>3, <2>4
<1> QED
  BY <1>3, <1>4

LEMMA EndsRunDown ==
  ASSUME LInv, NEW r \in Requests, End(r), stage[r] # "Over"
  PROVE  StepsLeft(r)' < StepsLeft(r)
<1>1. stage'[r] = "Over"
  BY DEF End, Forget, LInv, FlowTypes
<1> QED
  BY <1>1, StepsLeftType DEF StepsLeft

LEMMA HandlersRunDown ==
  ASSUME LInv, NEW r \in Requests, Arrive(r) \/ Handle(r) \/ Disconnect(r)
  PROVE  StepsLeft(r)' < StepsLeft(r)
<1>1. CASE End(r) /\ stage[r] # "Over"
  BY <1>1, EndsRunDown
<1>2. ASSUME ~(End(r) /\ stage[r] # "Over")
      PROVE  \/ Admit(r) \/ SessionReady(r) \/ FinishRun(r) \/ StartStream(r) \/ Arrive(r)
             \/ SessionFails(r) \/ RunStarted(r) \/ RunFails(r) \/ Unreachable(r)
             \/ \E auth, switch \in BOOLEAN : Refused(r, auth, switch)
             \/ Accepted(r) \/ Report(r) \/ PickAccount(r)
  BY <1>2 DEF Handle, TurnAway, WaitingRoom, AllFailed, ReadBody, StreamEnds, StreamBreaks,
              Disconnect, At
<1> QED
  BY <1>1, <1>2, AwaitsRunDown, VerdictsRunDown, RunStartedRunsDown,
     AcceptanceRunsDown, ReportsRunDown, PickRunsDown

(* A request's own variables are nobody else's. *)
LEMMA OthersKeep ==
  ASSUME NEW r \in Requests, Arrive(r) \/ Handle(r) \/ Disconnect(r), LInv,
         NEW q \in Requests, q # r
  PROVE  StepsLeft(q)' = StepsLeft(q)
<1>1. /\ stage'[q] = stage[q] /\ attempts'[q] = attempts[q]
      /\ todo'[q] = todo[q] /\ next'[q] = next[q]
  BY DEF LInv, FlowTypes, Handle, Arrive, Admit, TurnAway, SessionReady, WaitingRoom,
         SessionFails, RunStarted, RunFails, Accepted, Refused, Unreachable, AllFailed,
         FinishRun, ReadBody, StartStream, StreamEnds, StreamBreaks, Disconnect, End,
         PickAccount, Report, Forget, GoTo, ReportThen
<1> QED
  BY <1>1 DEF StepsLeft, TurnsLeft, FromAwait

(* No step makes a request's way longer, and each of its own makes it      *)
(* shorter: MaxAttempts turns of the loop at most, each of fewer than 16   *)
(* steps, none of them waiting for another request.                        *)
EveryStepCounts ==
  [][\A r \in Requests :
       /\ StepsLeft(r)' <= StepsLeft(r)
       /\ Handle(r) => StepsLeft(r)' < StepsLeft(r)]_vars

THEOREM RequestsRunDown == Spec => EveryStepCounts
<1>1. ASSUME LInv, [Next]_vars, NEW r \in Requests
      PROVE  /\ StepsLeft(r)' <= StepsLeft(r)
             /\ Handle(r) => StepsLeft(r)' < StepsLeft(r)
  <2>1. StepsLeft(r) \in Nat /\ StepsLeft(r)' \in Nat
    BY <1>1, StepLocal, StepsLeftType, StepsLeftTypeNext
  <2>2. Handle(r) => StepsLeft(r)' < StepsLeft(r)
    BY <1>1, HandlersRunDown
  <2>3. StepsLeft(r)' = StepsLeft(r) \/ StepsLeft(r)' < StepsLeft(r)
    <3>1. CASE UNCHANGED flow
      BY <3>1 DEF flow, StepsLeft, TurnsLeft
    <3>2. ASSUME NEW q \in Requests, Arrive(q) \/ Handle(q) \/ Disconnect(q)
          PROVE  StepsLeft(r)' = StepsLeft(r) \/ StepsLeft(r)' < StepsLeft(r)
      BY <1>1, <3>2, HandlersRunDown, OthersKeep
    <3> QED
      BY <1>1, <3>1, <3>2 DEF Next, Elsewhere, vars
  <2>4. StepsLeft(r)' <= StepsLeft(r)
    BY <2>1, <2>3
  <2> QED
    BY <2>2, <2>4
<1>2. LInv /\ [Next]_vars =>
        \A r \in Requests : /\ StepsLeft(r)' <= StepsLeft(r)
                            /\ Handle(r) => StepsLeft(r)' < StepsLeft(r)
  BY <1>1
<1> QED
  BY <1>2, GatewayInvariant, PTL DEF Spec, EveryStepCounts
=============================================================================
