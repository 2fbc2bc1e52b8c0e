---------------------------- MODULE SessionProofs ----------------------------
(* Proofs about Session, for any number of calls and whatever the upstream  *)
(* answers.                                                                 *)
EXTENDS Session, TLAPS

(* The type invariant is inductive. *)
LEMMA InitType == Init => TypeOK
BY SessionAssumption DEF Init, TypeOK, Statuses, Forever, Places

(* What one call does keeps the types. *)
LEMMA CallType ==
  ASSUME TypeOK, NEW r \in Requests, Call(r) \/ Step(r) \/ Abandon(r)
  PROVE  TypeOK'
<1> USE SessionAssumption DEF TypeOK, Statuses, Places, Forever, session
<1>1. CASE Call(r) \/ Abandon(r)
  BY <1>1 DEF Call, Abandon, GoTo
<1>2. CASE UseFresh(r) \/ InWaitingRoom(r) \/ WaitMore(r) \/ Wake(r)
  BY <1>2 DEF UseFresh, InWaitingRoom, WaitMore, Wake, Return, GoTo
<1>3. CASE Begin(r)
  BY <1>3 DEF Begin, GoTo
<1>4. ASSUME NEW offer \in Offers, AbsorbActive(r, offer)
      PROVE  TypeOK'
  BY <1>4 DEF AbsorbActive, GoTo
<1>5. ASSUME NEW i \in Ids \cup {NoId}, NEW wait \in 1..Wait, AbsorbQueued(r, i, wait)
      PROVE  TypeOK'
  BY <1>5 DEF AbsorbQueued, GoTo
<1>6. ASSUME NEW other \in Answers, AbsorbOther(r, other)
      PROVE  TypeOK'
  BY <1>6 DEF AbsorbOther, GoTo
<1>7. CASE CreateFails(r) \/ GiveUp(r) \/ AskActive(r)
  BY <1>7 DEF CreateFails, GiveUp, AskActive, GoTo
<1>8. CASE AskId(r)
  BY <1>8 DEF AskId, Return, GoTo
<1> QED BY <1>1, <1>2, <1>3, <1>4, <1>5, <1>6, <1>7, <1>8 DEF Step

LEMMA NextType == TypeOK /\ [Next]_vars => TypeOK'
<1> SUFFICES ASSUME TypeOK, [Next]_vars PROVE TypeOK'
  OBVIOUS
<1>1. CASE Tick
  BY <1>1, SessionAssumption DEF TypeOK, Tick, Forever
<1>2. CASE UNCHANGED vars
  BY <1>2 DEF TypeOK, vars, session
<1> QED BY <1>1, <1>2, CallType DEF Next

(* The state of the session and of every call of ensure_session has its    *)
(* type; above all, a wait in the waiting room is never longer than Wait.  *)
THEOREM SessionTypeCorrect == Spec => []TypeOK
BY InitType, NextType, PTL DEF Spec

(* What the session holds was not dropped, or it was given out anew.       *)
IInv == TypeOK /\ id \notin dropped

LEMMA CallKeepsDropped ==
  ASSUME IInv, NEW r \in Requests, Call(r) \/ Step(r) \/ Abandon(r)
  PROVE  id' \notin dropped'
<1> USE SessionAssumption DEF IInv, TypeOK
<1>1. CASE Begin(r)
  BY <1>1 DEF Begin
<1>2. CASE \/ \E offer \in Offers : AbsorbActive(r, offer)
           \/ \E i \in Ids \cup {NoId}, wait \in 1..Wait : AbsorbQueued(r, i, wait)
  BY <1>2 DEF AbsorbActive, AbsorbQueued
<1>3. ASSUME NEW other \in Answers, AbsorbOther(r, other)
      PROVE  id' \notin dropped'
  BY <1>3 DEF AbsorbOther
<1>4. CASE \/ Call(r) \/ Abandon(r) \/ UseFresh(r) \/ InWaitingRoom(r) \/ WaitMore(r) \/ Wake(r)
           \/ CreateFails(r) \/ GiveUp(r) \/ AskActive(r) \/ AskId(r)
  BY <1>4 DEF Call, Abandon, UseFresh, InWaitingRoom, WaitMore, Wake, CreateFails, GiveUp,
     AskActive, AskId, session
<1> QED BY <1>1, <1>2, <1>3, <1>4 DEF Step

LEMMA NextIInv == IInv /\ [Next]_vars => IInv'
<1> SUFFICES ASSUME IInv, [Next]_vars PROVE IInv'
  OBVIOUS
<1>1. TypeOK'
  BY NextType DEF IInv
<1>2. CASE Tick \/ UNCHANGED vars
  BY <1>1, <1>2 DEF IInv, Tick, vars, session
<1> QED BY <1>1, <1>2, CallKeepsDropped DEF IInv, Next

(* ensure_session returns no id that was dropped as expired and not given  *)
(* out again, for any number of calls and any answers of the upstream.     *)
THEOREM DroppedIsNotReturned == Spec => DroppedStaysAway
<1>1. Init => IInv
  BY InitType DEF Init, IInv
<1>2. ASSUME IInv, [Next]_vars, NEW r \in Requests, at[r] # "Ready", at'[r] = "Ready"
      PROVE  got'[r] \notin dropped
  <2>1. Return(r)
    <3>1. PICK s \in Requests : Call(s) \/ Step(s) \/ Abandon(s)
      BY <1>2 DEF Next, Tick, vars
    <3>2. s = r
      BY <1>2, <3>1 DEF IInv, TypeOK, Call, Abandon, Step, UseFresh, InWaitingRoom, WaitMore,
         Begin, Wake, AbsorbActive, AbsorbQueued, AbsorbOther, CreateFails, GiveUp, AskActive,
         AskId, Return, GoTo
    <3>3. UseFresh(r) \/ (AskId(r) /\ Return(r))
      BY <1>2, <3>1, <3>2 DEF IInv, TypeOK, Call, Abandon, Step, InWaitingRoom, WaitMore,
         Begin, Wake, AbsorbActive, AbsorbQueued, AbsorbOther, CreateFails, GiveUp, AskActive,
         AskId, GoTo
    <3> QED BY <3>3 DEF UseFresh
  <2> QED BY <1>2, <2>1 DEF IInv, TypeOK, Return
<1>3. IInv /\ [Next]_vars =>
        [\A r \in Requests :
           at[r] # "Ready" /\ at'[r] = "Ready" => got'[r] \notin dropped]_vars
  BY <1>2
<1> QED BY <1>1, <1>3, NextIInv, PTL DEF Spec, DroppedStaysAway
=============================================================================
