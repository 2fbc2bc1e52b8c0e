--------------------------- MODULE WebBridgeProofs ---------------------------
(***************************************************************************)
(* Theorems about WebBridge: credentials are kept apart, and the turns the *)
(* upstream is working for are never more than the gate lets in.           *)
(***************************************************************************)
EXTENDS WebBridge, FiniteSetTheorems, TLAPS

Apart(r) ==
  /\ into[r] # NoThread => owner[into[r]] = {cred[r]}
  /\ pc[r] \in {"Taken", "Stream", "Bind", "Record"} => at[r] # NoThread
  /\ at[r] # NoThread => owner[at[r]] = {cred[r]}
  /\ pc[r] = "Idle" => into[r] = NoThread
  /\ pc[r] \in {"Idle", "Wait", "Call"} => at[r] = NoThread

(* Besides the types and OwnThread: the thread a turn is to go on in, and  *)
(* the one it is in, were opened with its own cookie.                      *)
IInv ==
  /\ TypeOK
  /\ OwnThread
  /\ \A r \in Requests : Apart(r)
  /\ \A t \in live : owner[t] # {}

LEMMA InitInv == Init => IInv
<1> SUFFICES ASSUME Init PROVE IInv
  OBVIOUS
<1>1. TypeOK
  BY DEF Init, TypeOK
<1>2. QED
  BY <1>1 DEF Init, IInv, OwnThread, Apart

(* What forgetting a turn does to the invariant.                           *)
LEMMA OverInv ==
  ASSUME IInv, NEW r \in Requests, Over(r),
         inside' = [inside EXCEPT ![r] = NoTier],
         bound' = bound \/ bound' = [bound EXCEPT ![cred[r]] = NoThread],
         listed' \subseteq Threads, begun' \subseteq Convs, UNCHANGED upstream
  PROVE  IInv'
<1>1. TypeOK'
  BY DEF IInv, TypeOK, Over, Goto, upstream
<1>2. OwnThread'
  BY DEF IInv, TypeOK, OwnThread, upstream
<1>3. \A q \in Requests : Apart(q)'
  BY DEF IInv, TypeOK, Over, Goto, Apart, upstream
<1>4. QED
  BY <1>1, <1>2, <1>3 DEF IInv, upstream

LEMMA StepInv == IInv /\ [Next]_vars => IInv'
<1> SUFFICES ASSUME IInv, [Next]_vars PROVE IInv'
  OBVIOUS
<1> USE BridgeAssumption
<1>1. ASSUME NEW r \in Requests, NEW k \in Convs, NEW c \in Creds, Decide(r, k, c)
      PROVE  IInv'
  <2>1. into'[r] \in {NoThread, bound[c]} /\ cred'[r] = c
    BY <1>1 DEF Decide, IInv, TypeOK
  <2>2. TypeOK'
    BY <1>1 DEF Decide, Goto, IInv, TypeOK, upstream
  <2>3. \A q \in Requests : Apart(q)'
    BY <1>1, <2>1 DEF Decide, Goto, IInv, TypeOK, OwnThread, Apart, upstream
  <2>4. QED
    BY <1>1, <2>2, <2>3 DEF Decide, IInv, OwnThread, upstream
<1>2. ASSUME NEW r \in Requests, Acquire(r) PROVE IInv'
  <2>1. TypeOK'
    BY <1>2 DEF Acquire, Goto, Gate!Enter, IInv, TypeOK, upstream
  <2>2. QED
    BY <1>2, <2>1 DEF Acquire, Goto, IInv, TypeOK, OwnThread, Apart, upstream
<1>3. ASSUME NEW r \in Requests, Busy(r) PROVE IInv'
  <2>1. inside' = [inside EXCEPT ![r] = NoTier]
    BY <1>3 DEF Busy, IInv, TypeOK
  <2>2. QED
    BY <1>3, <2>1, OverInv DEF Busy, IInv, TypeOK
<1>4. ASSUME NEW r \in Requests, Take(r) PROVE IInv'
  <2>1. PICK t \in Threads :
          /\ IF into[r] = NoThread THEN t \in Unborn ELSE t = into[r] /\ t \in live
          /\ at' = [at EXCEPT ![r] = t]
          /\ owner' = [owner EXCEPT ![t] = @ \cup {cred[r]}]
          /\ live' = live \cup {t}
          /\ said' = [said EXCEPT ![t] = @ \cup {conv[r]}]
    BY <1>4 DEF Take
  <2>2. owner'[t] = {cred[r]} /\ (owner[t] = {} \/ owner[t] = {cred[r]})
    BY <2>1 DEF IInv, TypeOK, Apart, Unborn
  <2>3. \A u \in Threads, c \in Creds : owner[u] = {c} => owner'[u] = {c}
    <3>1. \A u \in Threads : u # t => owner'[u] = owner[u]
      BY <2>1 DEF IInv, TypeOK
    <3>2. \A c \in Creds : owner[t] = {c} => owner'[t] = {c}
      BY <2>2
    <3>3. QED
      BY <3>1, <3>2
  <2>4. TypeOK'
    BY <1>4, <2>1 DEF Take, Goto, IInv, TypeOK
  <2>5. OwnThread'
    <3>1. \A c \in Creds : bound[c] # NoThread => owner'[bound[c]] = {c}
      <4>1. bound \in [Creds -> Threads \cup {NoThread}]
        BY DEF IInv, TypeOK
      <4>2. QED
        BY <2>3, <4>1 DEF IInv, OwnThread
    <3>2. \A u \in Threads : u # t => owner'[u] = owner[u]
      BY <2>1 DEF IInv, TypeOK
    <3>3. \A u \in Threads : \A c, d \in owner'[u] : c = d
      BY <2>2, <3>2 DEF IInv, OwnThread
    <3>4. QED
      BY <1>4, <3>1, <3>3 DEF Take, OwnThread
  <2>6. ASSUME NEW q \in Requests
        PROVE  Apart(q)'
    <3>0. /\ into[q] \in Threads \cup {NoThread} /\ at[q] \in Threads \cup {NoThread}
          /\ cred[q] \in Creds /\ Apart(q)
      BY DEF IInv, TypeOK
    <3>1. into[q] # NoThread => owner'[into[q]] = {cred[q]}
      BY <2>3, <3>0 DEF Apart
    <3>2. CASE q = r
      BY <1>4, <2>1, <2>2, <3>1, <3>2 DEF Take, Goto, IInv, TypeOK, Apart
    <3>3. CASE q # r
      <4>1. at[q] # NoThread => owner'[at[q]] = {cred[q]}
        BY <2>3, <3>0 DEF Apart
      <4>2. at'[q] = at[q] /\ pc'[q] = pc[q]
        BY <1>4, <2>1, <3>3 DEF Take, Goto, IInv, TypeOK
      <4>3. QED
        BY <1>4, <3>1, <4>1, <4>2 DEF Take, IInv, Apart
    <3>4. QED
      BY <3>2, <3>3
  <2>7. QED
    BY <2>1, <2>2, <2>3, <2>4, <2>5, <2>6 DEF IInv, TypeOK
<1>5. ASSUME NEW r \in Requests, Answer(r) PROVE IInv'
  <2>1. TypeOK'
    BY <1>5 DEF Answer, Goto, IInv, TypeOK, upstream
  <2>2. QED
    BY <1>5, <2>1 DEF Answer, Goto, IInv, TypeOK, OwnThread, Apart, upstream
<1>6. ASSUME NEW r \in Requests, Fails(r) PROVE IInv'
  BY <1>6, OverInv DEF Fails, Gate!Leave, IInv, TypeOK
<1>7. ASSUME NEW r \in Requests, HangUp(r) PROVE IInv'
  <2>1. inside' = [inside EXCEPT ![r] = NoTier]
    BY <1>7 DEF HangUp, Gate!Leave, IInv, TypeOK
  <2>2. QED
    BY <1>7, <2>1, OverInv DEF HangUp, IInv, TypeOK
<1>8. ASSUME NEW r \in Requests, Meta(r) PROVE IInv'
  <2>1. TypeOK'
    BY <1>8 DEF Meta, IInv, TypeOK, upstream
  <2>2. QED
    BY <1>8, <2>1 DEF Meta, IInv, OwnThread, Apart, upstream
<1>9. ASSUME NEW r \in Requests, StreamEnds(r) PROVE IInv'
  <2>1. CASE Over(r) /\ Gate!Leave(r)
    <3>1. begun' \subseteq Convs
      BY <1>9 DEF StreamEnds, IInv, TypeOK
    <3>2. inside' = [inside EXCEPT ![r] = NoTier]
      BY <2>1 DEF Gate!Leave
    <3>3. bound' = bound /\ listed' \subseteq Threads /\ UNCHANGED upstream
      BY <1>9 DEF StreamEnds, IInv, TypeOK
    <3>4. QED
      BY <2>1, <3>1, <3>2, <3>3, OverInv
  <2>2. CASE Goto(r, "Bind") /\ UNCHANGED <<conv, cred, into, at, known, inside>>
    <3>1. TypeOK'
      BY <1>9, <2>2 DEF StreamEnds, Goto, IInv, TypeOK, upstream
    <3>2. QED
      BY <1>9, <2>2, <3>1 DEF StreamEnds, Goto, IInv, TypeOK, OwnThread, Apart, upstream
  <2>3. QED
    BY <1>9, <2>1, <2>2 DEF StreamEnds
<1>10. ASSUME NEW r \in Requests, Bind(r) PROVE IInv'
  <2>1. at[r] \in Threads /\ owner[at[r]] = {cred[r]}
    BY <1>10 DEF Bind, IInv, TypeOK, Apart
  <2>2. TypeOK'
    BY <1>10, <2>1 DEF Bind, Goto, IInv, TypeOK, upstream
  <2>3. OwnThread'
    BY <1>10, <2>1 DEF Bind, IInv, TypeOK, OwnThread, upstream
  <2>4. QED
    BY <1>10, <2>2, <2>3 DEF Bind, Goto, IInv, TypeOK, Apart, upstream
<1>11. ASSUME NEW r \in Requests, Record(r) PROVE IInv'
  <2>1. at[r] \in Threads
    BY <1>11 DEF Record, IInv, TypeOK, Apart
  <2>2. QED
    BY <1>11, <2>1, OverInv DEF Record, Gate!Leave, IInv, TypeOK
<1>12. ASSUME NEW t \in Threads, Vanish(t) PROVE IInv'
  <2>1. TypeOK'
    BY <1>12 DEF Vanish, turn, IInv, TypeOK
  <2>2. QED
    BY <1>12, <2>1 DEF Vanish, turn, IInv, OwnThread, Apart
<1>13. CASE UNCHANGED vars
  BY <1>13 DEF vars, turn, upstream, IInv, TypeOK, OwnThread, Apart
<1>14. QED
  BY <1>1, <1>2, <1>3, <1>4, <1>5, <1>6, <1>7, <1>8, <1>9, <1>10, <1>11, <1>12, <1>13
     DEF Next, GoesOn

LEMMA AlwaysInv == Spec => []IInv
BY InitInv, StepInv, PTL DEF Spec

(* A turn that is under way has the permit of its own bucket, one that is  *)
(* not has none.                                                           *)
THEOREM TypeCorrect == Spec => []TypeOK
<1>1. IInv => TypeOK
  BY DEF IInv
<1>2. QED
  BY <1>1, AlwaysInv, PTL

(* api.rs:998, 1219: however turns, bindings and deletions interleave, the *)
(* thread of one credential is never asked for, nor bound, with another.   *)
THEOREM CredentialsApart == Spec => []OwnThread
<1>1. IInv => OwnThread
  BY DEF IInv
<1>2. QED
  BY <1>1, AlwaysInv, PTL

-----------------------------------------------------------------------------
(* The wall: the turns inside are counted by the gate.                     *)
LEMMA InsideFinite ==
  ASSUME NEW t
  PROVE  IsFiniteSet(Gate!Inside(t)) /\ Cardinality(Gate!Inside(t)) \in Nat
BY BridgeAssumption, FS_Subset, FS_CardinalityType DEF Gate!Inside

LEMMA StepUsesGate ==
  ASSUME IInv, [Next]_vars
  PROVE  [Gate!Next]_inside
<1>1. ASSUME NEW r \in Requests, GoesOn(r) \/ HangUp(r) \/ Meta(r)
      PROVE  UNCHANGED inside \/ Gate!Leave(r) \/ Gate!Enter(r, Tier[cred[r]])
  BY <1>1 DEF GoesOn, Acquire, Busy, Take, Answer, Fails, StreamEnds, Bind, Record, HangUp, Meta
<1>2. \A r \in Requests : Tier[cred[r]] \in Tiers
  BY BridgeAssumption DEF IInv, TypeOK
<1>3. CASE \E r \in Requests, k \in Convs, c \in Creds : Decide(r, k, c)
  BY <1>3 DEF Decide
<1>4. CASE UNCHANGED vars \/ \E t \in Threads : Vanish(t)
  BY <1>4 DEF vars, Vanish
<1>5. QED
  BY <1>1, <1>2, <1>3, <1>4 DEF Next, Gate!Next

LEMMA WallStep ==
  ASSUME IInv, [Gate!Next]_inside, Gate!WallHolds
  PROVE  Gate!WallHolds'
<1>1. CASE UNCHANGED inside
  BY <1>1 DEF Gate!WallHolds, Gate!Inside
<1>2. ASSUME NEW r \in Requests, Gate!Leave(r), NEW t \in Tiers
      PROVE  Cardinality(Gate!Inside(t)') <= Limit[t]
  <2>1. Gate!Inside(t)' \subseteq Gate!Inside(t)
    BY <1>2, BridgeAssumption DEF Gate!Leave, Gate!Inside, IInv, TypeOK
  <2>2. Cardinality(Gate!Inside(t)') <= Cardinality(Gate!Inside(t))
    BY <2>1, InsideFinite, FS_Subset
  <2>3. Cardinality(Gate!Inside(t)') \in Nat /\ Limit[t] \in Nat
    BY <2>1, InsideFinite, FS_Subset, FS_CardinalityType, BridgeAssumption
  <2>4. Cardinality(Gate!Inside(t)) <= Limit[t]
    BY DEF Gate!WallHolds, Gate!Cardinality, Cardinality
  <2>5. \A a, b, c \in Nat : a <= b /\ b <= c => a <= c
    OBVIOUS
  <2>6. QED
    BY <2>2, <2>3, <2>4, <2>5, InsideFinite
<1>3. ASSUME NEW r \in Requests, NEW s \in Tiers, Gate!Enter(r, s), NEW t \in Tiers
      PROVE  Cardinality(Gate!Inside(t)') <= Limit[t]
  <2>1. CASE s = t
    <3>1. Gate!Inside(t)' = Gate!Inside(t) \cup {r}
      BY <1>3, <2>1 DEF Gate!Enter, Gate!Inside, IInv, TypeOK
    <3>2. r \notin Gate!Inside(t)
      BY <1>3, BridgeAssumption DEF Gate!Enter, Gate!Inside
    <3>3. Cardinality(Gate!Inside(t) \cup {r}) = Cardinality(Gate!Inside(t)) + 1
      BY <3>2, InsideFinite, FS_AddElement
    <3>4. Cardinality(Gate!Inside(t)) < Limit[t]
      BY <1>3, <2>1 DEF Gate!Enter, Gate!Cardinality, Cardinality
    <3>5. \A c, d \in Nat : c < d => c + 1 <= d
      OBVIOUS
    <3>6. Limit[t] \in Nat
      BY BridgeAssumption
    <3>7. QED
      BY <3>1, <3>3, <3>4, <3>5, <3>6, InsideFinite
  <2>2. CASE s # t
    <3>1. Gate!Inside(t)' = Gate!Inside(t)
      BY <1>3, <2>2, BridgeAssumption DEF Gate!Enter, Gate!Inside, IInv, TypeOK
    <3>2. QED
      BY <3>1, Gate!WallHolds DEF Gate!WallHolds, Gate!Cardinality, Cardinality
  <2>3. QED
    BY <2>1, <2>2
<1>4. QED
  BY <1>1, <1>2, <1>3 DEF Gate!Next, Gate!WallHolds, Gate!Cardinality, Cardinality

LEMMA WallInit == Init => Gate!WallHolds
<1> SUFFICES ASSUME Init, NEW t \in Tiers
             PROVE  Cardinality(Gate!Inside(t)) <= Limit[t]
  BY DEF Gate!WallHolds, Gate!Cardinality, Cardinality
<1>1. Gate!Inside(t) = {}
  BY BridgeAssumption DEF Init, Gate!Inside
<1>2. QED
  BY <1>1, FS_EmptySet, BridgeAssumption

(* Who is at the upstream is inside.                                       *)
LEMMA AtUpstreamInside ==
  ASSUME IInv, Gate!WallHolds
  PROVE  StreamsBounded
<1> SUFFICES ASSUME NEW t \in Tiers
             PROVE  Cardinality(AtUpstream(t)) <= Limit[t]
  BY DEF StreamsBounded
<1>1. AtUpstream(t) \subseteq Gate!Inside(t)
  BY DEF AtUpstream, Gate!Inside, IInv, TypeOK
<1>2. Cardinality(AtUpstream(t)) <= Cardinality(Gate!Inside(t))
  BY <1>1, InsideFinite, FS_Subset
<1>3. Cardinality(AtUpstream(t)) \in Nat /\ Limit[t] \in Nat
  BY <1>1, InsideFinite, FS_Subset, FS_CardinalityType, BridgeAssumption
<1>4. Cardinality(Gate!Inside(t)) <= Limit[t]
  BY DEF Gate!WallHolds, Gate!Cardinality, Cardinality
<1>5. \A a, b, c \in Nat : a <= b /\ b <= c => a <= c
  OBVIOUS
<1>6. QED
  BY <1>2, <1>3, <1>4, <1>5, InsideFinite

(* api.rs:1193: the permit goes with the stream, so that the bucket bounds *)
(* the turns the upstream is working for, and not only their beginnings.   *)
THEOREM StreamsAreBounded == Spec => []StreamsBounded
BY WallInit, WallStep, StepUsesGate, AtUpstreamInside, AlwaysInv, PTL DEF Spec

(* WebBridge implements ConcurrencyGate: a turn takes one permit of its    *)
(* credential's bucket, and gives it back by whichever way it ends.        *)
BridgeGateSpec == Gate!Spec

THEOREM BridgeUsesGate == Spec => BridgeGateSpec
<1>1. Init => Gate!Init
  BY DEF Init, Gate!Init
<1> QED
  BY <1>1, StepUsesGate, AlwaysInv, PTL DEF Spec, BridgeGateSpec, Gate!Spec

-----------------------------------------------------------------------------
(* The half of HeardIsListed that needs no fairness: a turn that has heard *)
(* the name of its thread keeps it, whatever comes between, until the      *)
(* thread is on the list for deletion.                                     *)
NameIsCarried ==
  [][\A r \in Requests :
       known[r] => (known'[r] /\ at'[r] = at[r]) \/ at[r] \in listed']_vars

Hears == \A r \in Requests : known[r] => pc[r] \in {"Stream", "Bind", "Record"}

LEMMA HearsInit == Init => Hears
BY DEF Init, Hears

LEMMA HearsStep ==
  ASSUME IInv, Hears, [Next]_vars
  PROVE  Hears'
<1>1. ASSUME NEW r \in Requests, NEW k \in Convs, NEW c \in Creds, Decide(r, k, c)
      PROVE  Hears'
  BY <1>1 DEF Decide, Goto, IInv, TypeOK, Hears
<1>2. ASSUME NEW r \in Requests, Over(r)
      PROVE  Hears'
  BY <1>2 DEF Over, Goto, IInv, TypeOK, Hears
<1>3. ASSUME NEW r \in Requests, Meta(r)
      PROVE  Hears'
  BY <1>3 DEF Meta, IInv, TypeOK, Hears
<1>4. ASSUME NEW r \in Requests, GoesOn(r) \/ HangUp(r), ~Over(r)
      PROVE  Hears'
  BY <1>4 DEF GoesOn, Acquire, Busy, Take, Answer, Fails, StreamEnds, Bind, Record, HangUp,
              Goto, IInv, TypeOK, Hears
<1>5. CASE UNCHANGED vars \/ \E t \in Threads : Vanish(t)
  BY <1>5 DEF vars, turn, Vanish, Hears
<1> QED
  BY <1>1, <1>2, <1>3, <1>4, <1>5 DEF Next

LEMMA CarriedStep ==
  ASSUME IInv, Hears, [Next]_vars, NEW r \in Requests, known[r]
  PROVE  (known'[r] /\ at'[r] = at[r]) \/ at[r] \in listed'
<1>1. pc[r] \in {"Stream", "Bind", "Record"}
  BY DEF Hears
<1>2. ASSUME NEW q \in Requests, q # r,
             (\E k \in Convs, c \in Creds : Decide(q, k, c)) \/ GoesOn(q) \/ HangUp(q) \/ Meta(q)
      PROVE  known'[r] = known[r] /\ at'[r] = at[r]
  BY <1>2 DEF Decide, GoesOn, Acquire, Busy, Take, Answer, Fails, StreamEnds, Bind, Record,
              HangUp, Meta, Over, IInv, TypeOK
<1>3. ASSUME StreamEnds(r) \/ Bind(r) \/ Meta(r)
      PROVE  known'[r] /\ at'[r] = at[r]
  BY <1>3 DEF StreamEnds, Bind, Meta, IInv, TypeOK
<1>4. ASSUME Record(r)
      PROVE  at[r] \in listed'
  BY <1>4 DEF Record
<1>5. ASSUME (\E k \in Convs, c \in Creds : Decide(r, k, c)) \/ GoesOn(r) \/ HangUp(r) \/ Meta(r)
      PROVE  StreamEnds(r) \/ Bind(r) \/ Meta(r) \/ Record(r)
  BY <1>1, <1>5 DEF Decide, GoesOn, Acquire, Busy, Take, Answer, Fails, HangUp
<1>6. CASE UNCHANGED vars \/ \E t \in Threads : Vanish(t)
  BY <1>6 DEF vars, turn, Vanish
<1> QED
  BY <1>2, <1>3, <1>4, <1>5, <1>6 DEF Next

THEOREM HeardIsCarried == Spec => NameIsCarried
<1>1. Spec => []Hears
  BY HearsInit, HearsStep, AlwaysInv, PTL DEF Spec
<1>2. IInv /\ Hears /\ [Next]_vars =>
        \A r \in Requests : known[r] => (known'[r] /\ at'[r] = at[r]) \/ at[r] \in listed'
  BY CarriedStep
<1> QED
  BY <1>1, <1>2, AlwaysInv, PTL DEF Spec, NameIsCarried
=============================================================================
