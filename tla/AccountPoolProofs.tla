-------------------------- MODULE AccountPoolProofs --------------------------
(***************************************************************************)
(* Proofs about AccountPool, for any number of tokens and requests and any *)
(* thresholds.  The inductive invariant is TypeOK /\ BreakerConsistent /\  *)
(* NoTokenTwice: the type of a breaker alone is not inductive, because     *)
(* record_success only keeps successes in range when a HalfOpen breaker is *)
(* below SuccessToClose.                                                   *)
(***************************************************************************)
EXTENDS AccountPool, SequenceTheorems, TLAPS

USE BreakerAssumption

Sound(b) == b \in Breaker /\ Consistent(b)

(* The rest of an ordinary trip is never empty and never above the cap.    *)
LEMMA RestAfterRange ==
  ASSUME NEW n \in 1..TripCap
  PROVE  RestAfter(n) \in 1..MaxCooldown
BY DEF RestAfter, AtMost

(* A fresh breaker is sound. *)
LEMMA NewBreakerSound == Sound(NewBreaker)
BY DEF Sound, NewBreaker, Breaker, CircuitState, Consistent

(* A breaker stays a breaker when an outcome settles its probe. *)
LEMMA SettledType ==
  ASSUME NEW b \in Breaker, NEW n \in 0..FailureThreshold
  PROVE  Settled(b, n) \in Breaker
<1> DEFINE c == [b EXCEPT !.failures = n]
<1>1. c \in Breaker
  BY DEF Breaker
<1> HIDE DEF c
<1>2. [c EXCEPT !.probing = FALSE] \in Breaker
  BY <1>1 DEF Breaker
<1>3. Settled(b, n) = [c EXCEPT !.probing = FALSE]
  BY DEF c, Settled
<1>4. QED
  BY <1>2, <1>3

(* allow keeps a breaker sound. *)
LEMMA AllowSound ==
  ASSUME NEW b, Sound(b), Allows(b)
  PROVE  Sound(Allow(b))
<1>1. CASE b.state = "Closed"
  BY <1>1 DEF Sound, Allow
<1>2. CASE b.state = "HalfOpen"
  BY <1>2 DEF Sound, Allow, Breaker, CircuitState, Consistent
<1>3. CASE b.state = "Open"
  <2> DEFINE c == [b EXCEPT !.state = "HalfOpen"]
             d == [c EXCEPT !.successes = 0]
  <2>1. c \in Breaker /\ c.cooldown = 0 /\ c.trips > 0 /\ c.state = "HalfOpen"
    BY <1>3 DEF Sound, Allows, Breaker, CircuitState, Consistent
  <2> HIDE DEF c
  <2>2. d \in Breaker /\ d.cooldown = 0 /\ d.trips > 0 /\ d.successes = 0
        /\ d.state = "HalfOpen"
    BY <2>1 DEF Breaker, CircuitState
  <2> HIDE DEF d
  <2>3. [d EXCEPT !.probing = TRUE] \in Breaker
    BY <2>2 DEF Breaker
  <2>4. Consistent([d EXCEPT !.probing = TRUE])
    BY <2>2 DEF Breaker, Consistent
  <2>5. Allow(b) = [d EXCEPT !.probing = TRUE]
    BY <1>3 DEF Allow, c, d
  <2>6. QED
    BY <2>3, <2>4, <2>5 DEF Sound
<1>4. QED
  BY <1>1, <1>2, <1>3 DEF Sound, Breaker, CircuitState

(* record_success keeps a breaker sound. *)
LEMMA RecordSuccessSound ==
  ASSUME NEW b, Sound(b)
  PROVE  Sound(RecordSuccess(b))
<1>1. Settled(b, 0) \in Breaker
  BY SettledType DEF Sound
<1>2. CASE b.state # "HalfOpen"
  <2>1. Consistent(Settled(b, 0))
    BY <1>2 DEF Sound, Settled, Breaker, CircuitState, Consistent
  <2>2. QED
    BY <1>1, <1>2, <2>1 DEF Sound, RecordSuccess
<1>3. CASE b.state = "HalfOpen" /\ b.successes + 1 >= SuccessToClose
  <2> DEFINE c == [NewBreaker EXCEPT !.trips = b.trips]
  <2>1. b.trips \in 0..TripCap /\ NewBreaker \in Breaker
    BY NewBreakerSound DEF Sound, Breaker
  <2>2. c \in Breaker
    BY <2>1 DEF Breaker
  <2>3. Consistent(c)
    BY <2>1 DEF NewBreaker, Consistent
  <2>4. QED
    BY <1>3, <2>2, <2>3 DEF RecordSuccess, Sound
<1>4. CASE b.state = "HalfOpen" /\ ~(b.successes + 1 >= SuccessToClose)
  <2> DEFINE c == Settled(b, 0)
  <2>1. c.state = "HalfOpen" /\ c.successes = b.successes
        /\ c.cooldown = 0 /\ c.trips > 0
    BY <1>4 DEF Sound, Settled, Breaker, Consistent
  <2>2. b.successes + 1 \in 1..SuccessToClose /\ b.successes + 1 < SuccessToClose
    BY <1>4 DEF Sound, Breaker
  <2>3. RecordSuccess(b) = [c EXCEPT !.successes = @ + 1]
    BY <1>4 DEF RecordSuccess
  <2> HIDE DEF c
  <2>4. Sound([c EXCEPT !.successes = @ + 1])
    BY <1>1, <2>1, <2>2 DEF c, Sound, Breaker, Consistent
  <2>5. QED
    BY <2>3, <2>4
<1>5. QED
  BY <1>2, <1>3, <1>4

(* Opening a breaker of any state for a legal rest leaves it sound. *)
LEMMA OpensForSound ==
  ASSUME NEW b \in Breaker, NEW rest \in 0..MaxCooldown
  PROVE  Sound(OpensFor(b, rest))
<1>1. AtMost(b.trips + 1, TripCap) \in 1..TripCap
  BY DEF Breaker, AtMost
<1>2. QED
  BY <1>1 DEF OpensFor, Sound, Breaker, CircuitState, Consistent

(* trip leaves a breaker sound. *)
LEMMA TripSound ==
  ASSUME NEW b \in Breaker
  PROVE  Sound(Trip(b))
<1>1. AtMost(b.trips + 1, TripCap) \in 1..TripCap
  BY DEF Breaker, AtMost
<1>2. QED
  BY <1>1, RestAfterRange, OpensForSound DEF Trip

(* trip_for leaves a breaker sound. *)
LEMMA TripForSound ==
  ASSUME NEW b \in Breaker, NEW rest \in Nat
  PROVE  Sound(TripFor(b, rest))
<1>1. AtMost(rest, MaxCooldown) \in 0..MaxCooldown
  BY DEF AtMost
<1>2. QED
  BY <1>1, OpensForSound DEF TripFor

(* record_failure keeps a breaker sound. *)
LEMMA RecordFailureSound ==
  ASSUME NEW b, Sound(b)
  PROVE  Sound(RecordFailure(b))
<1> DEFINE n == AtMost(b.failures + 1, FailureThreshold)
<1>1. n \in 0..FailureThreshold
  BY DEF Sound, Breaker, AtMost
<1>2. CASE b.state = "HalfOpen" \/ (b.state = "Closed" /\ n >= FailureThreshold)
  BY <1>2, TripSound DEF RecordFailure, Sound
<1>3. CASE ~(b.state = "HalfOpen" \/ (b.state = "Closed" /\ n >= FailureThreshold))
  <2>1. Settled(b, n) \in Breaker
    BY <1>1, SettledType DEF Sound
  <2>2. Consistent(Settled(b, n))
    BY <1>1, <1>3 DEF Sound, Settled, Consistent, Breaker, CircuitState
  <2>3. QED
    BY <1>3, <2>1, <2>2 DEF RecordFailure, Sound
<1>4. QED
  BY <1>2, <1>3

(* A tick keeps a breaker sound. *)
LEMMA ElapseSound ==
  ASSUME NEW b, Sound(b)
  PROVE  Sound(Elapse(b))
BY DEF Sound, Elapse, Breaker, CircuitState, Consistent

-----------------------------------------------------------------------------
(* The invariant, one part per group of variables.                         *)

AllSound == breaker \in [Tokens -> Breaker] /\ BreakerConsistent

IInv == TypeOK /\ BreakerConsistent /\ NoTokenTwice

(* Every action applies a method of the breaker to the entries it reaches  *)
(* and leaves the others alone; so every step keeps all of them sound.     *)
LEMMA SoundStep ==
  ASSUME AllSound, [Next]_vars
  PROVE  AllSound'
<1>1. AllSound <=> (breaker = [t \in Tokens |-> breaker[t]] /\ \A t \in Tokens : Sound(breaker[t]))
  BY DEF AllSound, BreakerConsistent, Sound
<1>3. ASSUME NEW r \in Requests, PickBest(r) PROVE AllSound'
  <2> DEFINE S == {t \in Members : Allows(breaker[t])}
  <2>1. breaker' = [t \in Tokens |-> IF t \in S THEN Allow(breaker[t]) ELSE breaker[t]]
    BY <1>3 DEF PickBest, AskAll
  <2>2. \A t \in Tokens : t \in S => Sound(Allow(breaker[t]))
    BY <1>1, AllowSound
  <2>3. QED
    BY <1>1, <2>1, <2>2 DEF AllSound, BreakerConsistent, Sound
<1>4. ASSUME NEW r \in Requests, MarkSuccess(r) PROVE AllSound'
  BY <1>1, <1>4, RecordSuccessSound DEF MarkSuccess, Report, AllSound, BreakerConsistent, Sound
<1>5. ASSUME NEW r \in Requests, MarkFailure(r) PROVE AllSound'
  BY <1>1, <1>5, RecordFailureSound DEF MarkFailure, Report, AllSound, BreakerConsistent, Sound
<1>6. ASSUME NEW r \in Requests, NEW rest \in Rests, MarkCooldown(r, rest) PROVE AllSound'
  <2>1. \A t \in Tokens : Sound(TripFor(breaker[t], rest))
    BY PoolAssumption, TripForSound DEF AllSound
  <2>2. QED
    BY <1>1, <1>6, <2>1 DEF MarkCooldown, Report, AllSound, BreakerConsistent, Sound
<1>7. ASSUME NEW t \in Tokens, AddAccount(t) \/ RemoveAccount(t) PROVE AllSound'
  BY <1>1, <1>7, NewBreakerSound
     DEF AddAccount, RemoveAccount, AllSound, BreakerConsistent, Sound
<1>8. ASSUME Tick PROVE AllSound'
  BY <1>1, <1>8, ElapseSound DEF Tick, AllSound, BreakerConsistent, Sound
<1>9. CASE UNCHANGED breaker
  BY <1>9 DEF AllSound, BreakerConsistent
<1>10. QED
  BY <1>3, <1>4, <1>5, <1>6, <1>7, <1>8, <1>9
     DEF Next, UpdateScore, LetGo, vars

(* Removing one entry of a sequence: what is left, and where it stands. *)
LEMMA RemoveAtProperties ==
  ASSUME NEW S, NEW s \in Seq(S), NEW i \in 1..Len(s)
  PROVE  /\ RemoveAt(s, i) \in Seq(S)
         /\ Len(RemoveAt(s, i)) = Len(s) - 1
         /\ \A j \in 1..Len(s)-1 :
              RemoveAt(s, i)[j] = s[IF j < i THEN j ELSE j + 1]
<1> DEFINE a == SubSeq(s, 1, i - 1)
           b == SubSeq(s, i + 1, Len(s))
<1>1. a \in Seq(S) /\ Len(a) = i - 1 /\ \A j \in 1..i-1 : a[j] = s[j]
  BY SubSeqProperties, LenProperties
<1>2. b \in Seq(S) /\ Len(b) = Len(s) - i /\ \A j \in 1..Len(s)-i : b[j] = s[i + j]
  BY SubSeqProperties, LenProperties
<1>3. Len(s) \in Nat /\ RemoveAt(s, i) = a \o b
  BY LenProperties DEF RemoveAt
<1> HIDE DEF a, b
<1>4. /\ a \o b \in Seq(S) /\ Len(a \o b) = Len(a) + Len(b)
      /\ \A j \in 1..Len(a) + Len(b) :
           (a \o b)[j] = IF j <= Len(a) THEN a[j] ELSE b[j - Len(a)]
  BY <1>1, <1>2, ConcatProperties
<1>5. ASSUME NEW j \in 1..Len(s)-1
      PROVE  RemoveAt(s, i)[j] = s[IF j < i THEN j ELSE j + 1]
  <2>1. CASE j < i
    BY <1>1, <1>2, <1>3, <1>4, <2>1
  <2>2. CASE ~(j < i)
    <3>1. j - Len(a) \in 1..Len(s)-i /\ i + (j - Len(a)) = j + 1
      BY <1>1, <1>3, <2>2
    <3>2. b[j - Len(a)] = s[j + 1]
      BY <1>2, <3>1
    <3>3. QED
      BY <1>1, <1>2, <1>3, <1>4, <2>2, <3>2
  <2>3. QED
    BY <2>1, <2>2
<1>6. QED
  BY <1>1, <1>2, <1>3, <1>4, <1>5

(* The pool stays a sequence of distinct tokens. *)
LEMMA PoolStep ==
  ASSUME pool \in Seq(Tokens), NoTokenTwice, [Next]_vars
  PROVE  pool' \in Seq(Tokens) /\ NoTokenTwice'
<1>1. ASSUME NEW t \in Tokens, AddAccount(t)
      PROVE  pool' \in Seq(Tokens) /\ NoTokenTwice'
  BY <1>1, AppendProperties, LenProperties DEF AddAccount, Members, NoTokenTwice
<1>2. ASSUME NEW t \in Tokens, RemoveAccount(t)
      PROVE  pool' \in Seq(Tokens) /\ NoTokenTwice'
  <2>1. PICK i \in 1..Len(pool) : pool' = RemoveAt(pool, i)
    BY <1>2 DEF RemoveAccount
  <2>2. Len(pool) \in Nat
    BY LenProperties
  <2>3. /\ pool' \in Seq(Tokens) /\ Len(pool') = Len(pool) - 1
        /\ \A j \in 1..Len(pool)-1 : pool'[j] = pool[IF j < i THEN j ELSE j + 1]
    BY <2>1, RemoveAtProperties
  <2>4. ASSUME NEW j \in 1..Len(pool'), NEW k \in 1..Len(pool'), pool'[j] = pool'[k]
        PROVE  j = k
    <3> DEFINE at(n) == IF n < i THEN n ELSE n + 1
    <3>1. at(j) \in 1..Len(pool) /\ at(k) \in 1..Len(pool)
      BY <2>2, <2>3
    <3>2. pool[at(j)] = pool[at(k)]
      BY <2>3, <2>4
    <3>3. at(j) = at(k)
      BY <3>1, <3>2 DEF NoTokenTwice
    <3>4. QED
      BY <2>2, <2>3, <3>3
  <2>5. QED
    BY <2>3, <2>4 DEF NoTokenTwice
<1>3. CASE UNCHANGED pool
  BY <1>3 DEF NoTokenTwice
<1>4. QED
  BY <1>1, <1>2, <1>3
     DEF Next, PickBest, MarkSuccess, MarkFailure, MarkCooldown, Report,
         UpdateScore, LetGo, Tick, vars

(* The scores stay within their cap and the grants name tokens. *)
LEMMA TypeStep ==
  ASSUME TypeOK, NoTokenTwice, AllSound', [Next]_vars
  PROVE  TypeOK'
<1>1. pool' \in Seq(Tokens) /\ breaker' \in [Tokens -> Breaker]
  BY PoolStep DEF TypeOK, AllSound
<1>2. ASSUME NEW n \in Int PROVE Clamp(n) \in -ScoreCap..ScoreCap
  BY PoolAssumption DEF Clamp
<1>3. score' \in [Tokens -> -ScoreCap..ScoreCap]
  <2>1. 0 \in -ScoreCap..ScoreCap
    BY PoolAssumption
  <2>2. ASSUME NEW r \in Requests, NEW delta \in Deltas, UpdateScore(r, delta)
        PROVE  score' \in [Tokens -> -ScoreCap..ScoreCap]
    <3>1. \A t \in Tokens : score[t] + delta \in Int
      BY PoolAssumption DEF TypeOK
    <3>2. QED
      BY <1>2, <2>2, <3>1 DEF UpdateScore, TypeOK
  <2>3. QED
    BY <2>1, <2>2
       DEF TypeOK, Next, PickBest, MarkSuccess, MarkFailure, MarkCooldown, Report,
           LetGo, AddAccount, RemoveAccount, Tick, vars
<1>4. grant' \in [Requests -> Tokens \cup {NoToken}]
  <2>1. ASSUME NEW r \in Requests, PickBest(r)
        PROVE  grant' \in [Requests -> Tokens \cup {NoToken}]
    <3>1. \A i \in Allowed : pool[i] \in Tokens
      BY ElementOfSeq DEF Allowed, TypeOK
    <3>2. QED
      BY <2>1, <3>1 DEF PickBest, TypeOK
  <2>2. QED
    BY <2>1
       DEF TypeOK, Next, MarkSuccess, MarkFailure, MarkCooldown, Report,
           UpdateScore, LetGo, AddAccount, RemoveAccount, Tick, vars
<1>5. QED
  BY <1>1, <1>3, <1>4 DEF TypeOK

(* The pool starts within the invariant. *)
LEMMA InitInvariant == Init => IInv
<1> SUFFICES ASSUME Init PROVE IInv
  OBVIOUS
<1>1. AllSound
  BY NewBreakerSound DEF Init, AllSound, BreakerConsistent, Sound
<1>2. NoTokenTwice
  BY PoolAssumption DEF Init, NoTokenTwice
<1>3. QED
  BY <1>1, <1>2, PoolAssumption DEF Init, IInv, TypeOK, AllSound

(* Every step, of a request, the operator or the clock, keeps it. *)
LEMMA StepInvariant == IInv /\ [Next]_vars => IInv'
BY SoundStep, PoolStep, TypeStep DEF IInv, AllSound, TypeOK

(* The invariant holds in every state the pool can reach. *)
THEOREM PoolInvariant == Spec => []IInv
BY InitInvariant, StepInvariant, PTL DEF Spec

(* The pool is well-typed: counters, rests and scores stay in range. *)
THEOREM PoolTypeCorrect == Spec => []TypeOK
BY PoolInvariant, PTL DEF IInv

(* No order of reports brings a breaker into an inconsistent state. *)
THEOREM PoolBreakersConsistent == Spec => []BreakerConsistent
BY PoolInvariant, PTL DEF IInv

(* No sequence of imports and deletions puts a token into the pool twice. *)
THEOREM PoolHasNoTokenTwice == Spec => []NoTokenTwice
BY PoolInvariant, PTL DEF IInv

-----------------------------------------------------------------------------
(* What a step may do to one breaker: nothing, one of the methods, or a    *)
(* fresh start.  Both action properties and the refinement rest on it.     *)
Moved(b, c) ==
  \/ c = b
  \/ Allows(b) /\ c = Allow(b)
  \/ c = RecordSuccess(b)
  \/ c = RecordFailure(b)
  \/ \E rest \in Rests : c = TripFor(b, rest)
  \/ c = NewBreaker

(* Every step but the clock moves every breaker in one of these ways. *)
LEMMA StepMoves ==
  ASSUME AllSound, [Next]_vars, ~Tick
  PROVE  \A t \in Tokens : Moved(breaker[t], breaker'[t])
<1> USE DEF AllSound, Moved
<1>1. ASSUME NEW r \in Requests, PickBest(r)
      PROVE  \A t \in Tokens : Moved(breaker[t], breaker'[t])
  BY <1>1 DEF PickBest, AskAll
<1>2. ASSUME NEW r \in Requests, MarkSuccess(r)
      PROVE  \A t \in Tokens : Moved(breaker[t], breaker'[t])
  BY <1>2 DEF MarkSuccess, Report
<1>3. ASSUME NEW r \in Requests, MarkFailure(r)
      PROVE  \A t \in Tokens : Moved(breaker[t], breaker'[t])
  BY <1>3 DEF MarkFailure, Report
<1>4. ASSUME NEW r \in Requests, NEW rest \in Rests, MarkCooldown(r, rest)
      PROVE  \A t \in Tokens : Moved(breaker[t], breaker'[t])
  BY <1>4 DEF MarkCooldown, Report
<1>5. ASSUME NEW u \in Tokens, AddAccount(u) \/ RemoveAccount(u)
      PROVE  \A t \in Tokens : Moved(breaker[t], breaker'[t])
  BY <1>5 DEF AddAccount, RemoveAccount
<1>6. CASE UNCHANGED breaker
  BY <1>6
<1>7. QED
  BY <1>1, <1>2, <1>3, <1>4, <1>5, <1>6 DEF Next, UpdateScore, LetGo, vars

(* An account that says yes is not resting. *)
LEMMA AllowedHasRested ==
  ASSUME NEW b, Sound(b), Allows(b)
  PROVE  b.cooldown = 0
BY DEF Sound, Allows, Consistent, Breaker, CircuitState

(* No request is handed an account that is still resting. *)
THEOREM PoolHonoursRest == Spec => RestIsHonoured
<1>1. ASSUME IInv, [Next]_vars, NEW r \in Requests,
             grant'[r] # grant[r], grant'[r] # NoToken
      PROVE  breaker[grant'[r]].cooldown = 0
  <2>1. PICK q \in Requests : PickBest(q)
    BY <1>1 DEF Next, MarkSuccess, MarkFailure, MarkCooldown, Report, UpdateScore,
                LetGo, AddAccount, RemoveAccount, Tick, vars, IInv, TypeOK
  <2>2. PICK i \in Allowed : grant' = [grant EXCEPT ![q] = pool[i]]
    BY <1>1, <2>1 DEF PickBest, IInv, TypeOK
  <2>3. grant'[r] = pool[i]
    BY <1>1, <2>2 DEF IInv, TypeOK
  <2>4. pool[i] \in Tokens /\ Allows(breaker[pool[i]])
    BY <1>1, <2>2, ElementOfSeq DEF Allowed, IInv, TypeOK
  <2>5. Sound(breaker[pool[i]])
    BY <2>4, <1>1 DEF IInv, TypeOK, BreakerConsistent, Sound
  <2>6. QED
    BY <2>3, <2>4, <2>5, AllowedHasRested
<1>2. IInv /\ [Next]_vars =>
        [\A r \in Requests : grant'[r] # grant[r] /\ grant'[r] # NoToken
                               => breaker[grant'[r]].cooldown = 0]_vars
  BY <1>1
<1>3. QED
  BY <1>2, PoolInvariant, PTL DEF Spec, RestIsHonoured

(* The rest of a breaker that was and stays Open after any method. *)
LEMMA MovedKeepsRest ==
  ASSUME NEW b, Sound(b), b.state = "Open", NEW c, Moved(b, c), c.state = "Open"
  PROVE  c.cooldown >= b.cooldown
<1>0. b.cooldown \in 0..MaxCooldown /\ b.cooldown >= b.cooldown
  BY DEF Sound, Breaker
<1>1. CASE c = b
  BY <1>0, <1>1
<1>2. CASE c = Allow(b)
  BY <1>2 DEF Allow, Sound, Breaker
<1>3. CASE c = RecordSuccess(b)
  BY <1>0, <1>3 DEF RecordSuccess, Settled, Sound, Breaker
<1>4. CASE c = RecordFailure(b)
  BY <1>0, <1>4 DEF RecordFailure, Settled, Sound, Breaker
<1>5. ASSUME NEW rest \in Rests, c = TripFor(b, rest)
      PROVE  c.cooldown >= b.cooldown
  <2>1. AtMost(rest, MaxCooldown) = MaxCooldown
    BY PoolAssumption DEF AtMost
  <2>2. QED
    BY <1>0, <1>5, <2>1 DEF TripFor, OpensFor
<1>6. CASE c = NewBreaker
  BY <1>6 DEF NewBreaker
<1>7. QED
  BY <1>1, <1>2, <1>3, <1>4, <1>5, <1>6 DEF Moved

(* While a breaker stays Open its rest shrinks only with the clock. *)
THEOREM PoolNeverCutsRest == Spec => RestIsNeverCut
<1>1. ASSUME IInv, [Next]_vars, NEW t \in Tokens,
             breaker[t].state = "Open", breaker'[t].state = "Open"
      PROVE  breaker'[t].cooldown >= breaker[t].cooldown - 1
  <2>1. Sound(breaker[t]) /\ breaker[t].cooldown \in 0..MaxCooldown
    BY <1>1 DEF IInv, TypeOK, BreakerConsistent, Sound, Breaker
  <2>2. CASE Tick
    BY <2>1, <2>2 DEF Tick, Elapse, Sound, Breaker
  <2>3. CASE ~Tick
    <3>1. Moved(breaker[t], breaker'[t])
      BY <1>1, <2>3, StepMoves DEF IInv, TypeOK, AllSound
    <3>2. breaker'[t].cooldown >= breaker[t].cooldown
      BY <1>1, <2>1, <3>1, MovedKeepsRest
    <3>3. AllSound'
      BY <1>1, SoundStep DEF IInv, TypeOK, AllSound
    <3>4. breaker'[t].cooldown \in 0..MaxCooldown
      BY <3>3 DEF AllSound, Breaker
    <3>5. QED
      BY <2>1, <3>2, <3>4
  <2>4. QED
    BY <2>2, <2>3
<1>2. IInv /\ [Next]_vars =>
        [\A t \in Tokens : breaker[t].state = "Open" /\ breaker'[t].state = "Open"
                             => breaker'[t].cooldown >= breaker[t].cooldown - 1]_vars
  BY <1>1
<1>3. QED
  BY <1>2, PoolInvariant, PTL DEF Spec, RestIsNeverCut
-----------------------------------------------------------------------------
(* What AccountHealth sees of one account, and what it lets one account do *)
(* in a step.                                                              *)
ModeOf(b) == CASE b.state = "Closed" -> "Serving"
               [] b.state = "Open" -> "Resting"
               [] OTHER -> "Trial"

HealthMode == [t \in Tokens |-> ModeOf(breaker[t])]
HealthRest == [t \in Tokens |-> breaker[t].cooldown]

(* The rests an account found failing may be sent to.                      *)
Longer(b) == {n \in 1..MaxCooldown : n >= b.cooldown}

(* A reported outcome is a stutter, a rest that is not cut, or a passed    *)
(* trial of the account.                                                   *)
LEMMA ReportedHealth ==
  ASSUME NEW b, Sound(b), NEW c, Sound(c),
         \/ c = RecordSuccess(b)
         \/ c = RecordFailure(b)
         \/ \E rest \in Rests : c = TripFor(b, rest)
  PROVE  \/ ModeOf(c) = ModeOf(b) /\ c.cooldown = b.cooldown
         \/ ModeOf(c) = "Resting" /\ c.cooldown \in Longer(b)
         \/ ModeOf(b) = "Trial" /\ ModeOf(c) = "Serving" /\ c.cooldown = b.cooldown
<1>0. /\ b.cooldown \in 0..MaxCooldown /\ c.cooldown \in 0..MaxCooldown
      /\ b.state \in CircuitState
      /\ b.state = "HalfOpen" => b.cooldown = 0
      /\ b.state = "Closed" => b.cooldown = 0
  BY DEF Sound, Breaker, Consistent
<1>1. CASE c = RecordSuccess(b)
  BY <1>0, <1>1 DEF RecordSuccess, Settled, NewBreaker, ModeOf, Sound, Breaker, CircuitState
<1>2. CASE c = RecordFailure(b)
  <2>1. CASE c = Trip(b)
    <3>1. CASE b.state = "Open"
      BY <1>0, <1>2, <3>1 DEF RecordFailure, Settled, ModeOf, Sound, Breaker
    <3>2. CASE b.state # "Open"
      <4>1. c.state = "Open"
        BY <2>1 DEF Trip, OpensFor
      <4>2. b.cooldown = 0
        BY <1>0, <3>2 DEF CircuitState
      <4>3. c.cooldown \in 1..MaxCooldown
        <5>1. AtMost(b.trips + 1, TripCap) \in 1..TripCap
          BY DEF AtMost, Sound, Breaker
        <5>2. QED
          BY <2>1, <5>1, RestAfterRange DEF Trip, OpensFor
      <4>4. QED
        BY <1>0, <4>1, <4>2, <4>3 DEF ModeOf, Longer
    <3>3. QED
      BY <3>1, <3>2
  <2>2. CASE \E n \in Nat : c = Settled(b, n)
    <3>1. PICK n \in Nat : c = Settled(b, n)
      BY <2>2
    <3>2. c.state = b.state /\ c.cooldown = b.cooldown
      BY <3>1 DEF Settled, Sound, Breaker
    <3>3. QED
      BY <3>2 DEF ModeOf
  <2>3. AtMost(b.failures + 1, FailureThreshold) \in Nat
    BY DEF AtMost, Sound, Breaker
  <2>4. QED
    BY <1>2, <2>1, <2>2, <2>3 DEF RecordFailure
<1>3. ASSUME NEW rest \in Rests, c = TripFor(b, rest)
      PROVE  ModeOf(c) = "Resting" /\ c.cooldown \in Longer(b)
  <2>1. AtMost(rest, MaxCooldown) = MaxCooldown
    BY PoolAssumption DEF AtMost
  <2>2. c.state = "Open" /\ c.cooldown = MaxCooldown
    BY <1>3, <2>1 DEF TripFor, OpensFor
  <2>3. QED
    BY <1>0, <2>2 DEF ModeOf, Longer
<1>4. QED
  BY <1>1, <1>2, <1>3

(* A permission is a stutter, or the start of a trial of a rested account. *)
LEMMA AllowedHealth ==
  ASSUME NEW b, Sound(b), Allows(b)
  PROVE  /\ Allow(b).cooldown = b.cooldown
         /\ \/ ModeOf(Allow(b)) = ModeOf(b)
            \/ /\ ModeOf(b) = "Resting" /\ b.cooldown = 0
               /\ ModeOf(Allow(b)) = "Trial"
<1>1. b.cooldown = 0
  BY AllowedHasRested
<1>2. b.state \in CircuitState
  BY DEF Sound, Breaker
<1>3. CASE b.state = "Closed"
  BY <1>3 DEF Allow
<1>4. CASE b.state = "HalfOpen"
  BY <1>4 DEF Allow, ModeOf, Sound, Breaker
<1>5. CASE b.state = "Open"
  <2>1. Allow(b) = [b EXCEPT !.state = "HalfOpen", !.successes = 0, !.probing = TRUE]
    BY <1>5 DEF Allow
  <2>2. Allow(b).state = "HalfOpen" /\ Allow(b).cooldown = b.cooldown
    BY <2>1 DEF Sound, Breaker
  <2>3. QED
    BY <1>1, <1>5, <2>2 DEF ModeOf
<1>6. QED
  BY <1>2, <1>3, <1>4, <1>5 DEF CircuitState

(* Picking an account is, for AccountHealth, the start of some trials. *)
LEMMA PickStartsTrials ==
  ASSUME AllSound, AskAll
  PROVE  UNCHANGED pool => Health!StartTrials
<1> DEFINE S == {t \in Tokens : ModeOf(breaker'[t]) # ModeOf(breaker[t])}
<1>1. ASSUME NEW t \in Tokens
      PROVE  /\ breaker'[t].cooldown = breaker[t].cooldown
             /\ t \in S => /\ t \in Members
                           /\ ModeOf(breaker[t]) = "Resting" /\ breaker[t].cooldown = 0
                           /\ ModeOf(breaker'[t]) = "Trial"
  <2>1. Sound(breaker[t])
    BY DEF AllSound, BreakerConsistent, Sound
  <2>2. CASE breaker'[t] = breaker[t]
    BY <2>2
  <2>3. CASE t \in Members /\ Allows(breaker[t]) /\ breaker'[t] = Allow(breaker[t])
    BY <2>1, <2>3, AllowedHealth
  <2>4. QED
    BY <2>2, <2>3 DEF AskAll
<1>2. S \in SUBSET {t \in Members : HealthMode[t] = "Resting" /\ HealthRest[t] = 0}
  BY <1>1 DEF HealthMode, HealthRest
<1>3. HealthMode' = [t \in Tokens |-> IF t \in S THEN "Trial" ELSE HealthMode[t]]
  BY <1>1 DEF HealthMode
<1>4. HealthRest' = HealthRest
  BY <1>1 DEF HealthRest
<1> HIDE DEF S
<1>5. UNCHANGED pool => UNCHANGED Members
  BY DEF Members
<1>6. QED
  BY <1>2, <1>3, <1>4, <1>5 DEF Health!StartTrials, HealthMode, HealthRest, ModeOf

(* A name finds one entry at most. *)
LEMMA FoundIsOne ==
  ASSUME pool \in Seq(Tokens), NEW name
  PROVE  Found(name) \subseteq Members \cap Tokens /\ \A t, u \in Found(name) : t = u
<1>1. Len(pool) \in Nat
  BY LenProperties
<1>2. Found(name) \subseteq Members \cap Tokens
  BY ElementOfSeq DEF Found, Members
<1>3. ASSUME NEW i \in 1..Len(pool), NEW k \in 1..Len(pool),
             NameOf[pool[i]] = name, \A j \in 1..i-1 : NameOf[pool[j]] # name,
             NameOf[pool[k]] = name, \A j \in 1..k-1 : NameOf[pool[j]] # name
      PROVE  i = k
  BY <1>1, <1>3
<1>4. QED
  BY <1>2, <1>3 DEF Found

(* When one breaker moves as a report moves it and the others do not, then *)
(* AccountHealth takes a step of that account or none.                     *)
LEMMA OneReportHealth ==
  ASSUME AllSound, NEW u \in Tokens, u \in Members, UNCHANGED pool,
         HealthMode' = [HealthMode EXCEPT ![u] = ModeOf(breaker'[u])],
         HealthRest' = [HealthRest EXCEPT ![u] = breaker'[u].cooldown],
         \/ /\ ModeOf(breaker'[u]) = ModeOf(breaker[u])
            /\ breaker'[u].cooldown = breaker[u].cooldown
         \/ /\ ModeOf(breaker'[u]) = "Resting"
            /\ breaker'[u].cooldown \in Longer(breaker[u])
         \/ /\ ModeOf(breaker[u]) = "Trial" /\ ModeOf(breaker'[u]) = "Serving"
            /\ breaker'[u].cooldown = breaker[u].cooldown
  PROVE  [Health!Next]_(Health!health)
<1>0. UNCHANGED Members
  BY DEF Members
<1>1. HealthMode[u] = ModeOf(breaker[u]) /\ HealthRest[u] = breaker[u].cooldown
  BY DEF HealthMode, HealthRest
<1>2. HealthMode \in [Tokens -> {ModeOf(breaker[t]) : t \in Tokens}]
  BY DEF HealthMode
<1>3. HealthRest \in [Tokens -> {breaker[t].cooldown : t \in Tokens}]
  BY DEF HealthRest
<1>4. CASE /\ ModeOf(breaker'[u]) = ModeOf(breaker[u])
           /\ breaker'[u].cooldown = breaker[u].cooldown
  <2>1. HealthMode' = HealthMode /\ HealthRest' = HealthRest
    BY <1>1, <1>2, <1>3, <1>4
  <2>2. QED
    BY <1>0, <2>1 DEF Health!health, HealthMode, HealthRest, ModeOf
<1>5. CASE /\ ModeOf(breaker'[u]) = "Resting"
           /\ breaker'[u].cooldown \in Longer(breaker[u])
  <2>1. \E ticks \in 1..MaxCooldown :
          /\ ticks >= HealthRest[u]
          /\ HealthMode' = [HealthMode EXCEPT ![u] = "Resting"]
          /\ HealthRest' = [HealthRest EXCEPT ![u] = ticks]
    BY <1>1, <1>5 DEF Longer
  <2>2. Health!GoToRest(u)
    BY <1>0, <2>1 DEF Health!GoToRest, HealthMode, HealthRest, ModeOf
  <2>3. QED
    BY <2>2 DEF Health!Next
<1>6. CASE /\ ModeOf(breaker[u]) = "Trial" /\ ModeOf(breaker'[u]) = "Serving"
           /\ breaker'[u].cooldown = breaker[u].cooldown
  <2>1. /\ HealthMode[u] = "Trial"
        /\ HealthMode' = [HealthMode EXCEPT ![u] = "Serving"]
        /\ HealthRest' = HealthRest
    BY <1>1, <1>3, <1>6
  <2>2. Health!PassTrial(u)
    BY <1>0, <2>1 DEF Health!PassTrial, HealthMode, HealthRest, ModeOf
  <2>3. QED
    BY <2>2 DEF Health!Next
<1>7. QED
  BY <1>4, <1>5, <1>6

(* A report moves at most the one account its name finds.                  *)
LEMMA ReportHealth ==
  ASSUME AllSound, AllSound', pool \in Seq(Tokens), NEW r \in Requests,
         \/ MarkSuccess(r) \/ MarkFailure(r)
         \/ \E rest \in Rests : MarkCooldown(r, rest)
  PROVE  [Health!Next]_(Health!health)
<1> DEFINE F == Found(NameOf[grant[r]])
<1>0. \A t \in Tokens : Sound(breaker[t]) /\ Sound(breaker'[t])
  BY DEF AllSound, BreakerConsistent, Sound
<1>1. /\ breaker' \in [Tokens -> Breaker]
      /\ \A t \in Tokens : t \notin F => breaker'[t] = breaker[t]
      /\ \A t \in F : t \in Tokens =>
           \/ breaker'[t] = RecordSuccess(breaker[t])
           \/ breaker'[t] = RecordFailure(breaker[t])
           \/ \E rest \in Rests : breaker'[t] = TripFor(breaker[t], rest)
  BY DEF MarkSuccess, MarkFailure, MarkCooldown, Report, AllSound
<1>2. F \subseteq Members \cap Tokens /\ (\A t, u \in F : t = u) /\ UNCHANGED pool
  BY FoundIsOne DEF MarkSuccess, MarkFailure, MarkCooldown, Report
<1> HIDE DEF F
<1>3. CASE F = {}
  <2>1. HealthMode' = HealthMode /\ HealthRest' = HealthRest
    BY <1>1, <1>3 DEF HealthMode, HealthRest
  <2>2. QED
    BY <1>2, <2>1 DEF Health!health, HealthMode, HealthRest, ModeOf, Members
<1>4. ASSUME NEW u \in F PROVE [Health!Next]_(Health!health)
  <2>1. /\ u \in Tokens /\ u \in Members
        /\ \A t \in Tokens : t # u => breaker'[t] = breaker[t]
    BY <1>1, <1>2, <1>4
  <2>2. HealthMode' = [HealthMode EXCEPT ![u] = ModeOf(breaker'[u])]
    BY <2>1 DEF HealthMode
  <2>3. HealthRest' = [HealthRest EXCEPT ![u] = breaker'[u].cooldown]
    BY <2>1 DEF HealthRest
  <2>4. \/ /\ ModeOf(breaker'[u]) = ModeOf(breaker[u])
           /\ breaker'[u].cooldown = breaker[u].cooldown
        \/ /\ ModeOf(breaker'[u]) = "Resting"
           /\ breaker'[u].cooldown \in Longer(breaker[u])
        \/ /\ ModeOf(breaker[u]) = "Trial" /\ ModeOf(breaker'[u]) = "Serving"
           /\ breaker'[u].cooldown = breaker[u].cooldown
    BY <1>0, <1>1, <2>1, ReportedHealth
  <2>5. QED
    BY <1>2, <2>1, <2>2, <2>3, <2>4, OneReportHealth
<1>5. QED
  BY <1>3, <1>4

(* An import lists one token more, a deletion one less: no token is in the *)
(* pool twice, so that nothing is left of the one that is removed.         *)
LEMMA MembersMove ==
  ASSUME pool \in Seq(Tokens), NoTokenTwice, NEW t \in Tokens
  PROVE  /\ AddAccount(t) => t \notin Members /\ Members' = Members \cup {t}
         /\ RemoveAccount(t) => t \in Members /\ Members' = Members \ {t}
<1>0. Len(pool) \in Nat
  BY LenProperties
<1>1. ASSUME AddAccount(t)
      PROVE  t \notin Members /\ Members' = Members \cup {t}
  <2>1. /\ Len(pool') = Len(pool) + 1 /\ pool'[Len(pool) + 1] = t
        /\ \A j \in 1..Len(pool) : pool'[j] = pool[j]
    BY <1>1, AppendProperties DEF AddAccount
  <2>2. \A j \in 1..Len(pool') : j \in 1..Len(pool) \/ j = Len(pool) + 1
    BY <1>0, <2>1
  <2>3. 1..Len(pool) \subseteq 1..Len(pool') /\ Len(pool) + 1 \in 1..Len(pool')
    BY <1>0, <2>1
  <2>4. QED
    BY <1>1, <2>1, <2>2, <2>3 DEF AddAccount, Members
<1>2. ASSUME RemoveAccount(t)
      PROVE  t \in Members /\ Members' = Members \ {t}
  <2>1. PICK i \in 1..Len(pool) : pool[i] = t /\ pool' = RemoveAt(pool, i)
    BY <1>2 DEF RemoveAccount
  <2> DEFINE at(n) == IF n < i THEN n ELSE n + 1
             back(n) == IF n < i THEN n ELSE n - 1
  <2>2. Len(pool') = Len(pool) - 1 /\ \A j \in 1..Len(pool)-1 : pool'[j] = pool[at(j)]
    BY <2>1, RemoveAtProperties
  <2>3. \A j \in 1..Len(pool') : at(j) \in 1..Len(pool) /\ at(j) # i
    BY <1>0, <2>2
  <2>4. \A k \in 1..Len(pool) : k # i => back(k) \in 1..Len(pool') /\ at(back(k)) = k
    BY <1>0, <2>2
  <2> HIDE DEF at, back
  <2>5. ASSUME NEW u \in Members' PROVE u \in Members \ {t}
    <3>1. PICK j \in 1..Len(pool') : u = pool'[j]
      BY <2>5 DEF Members
    <3>2. u = pool[at(j)]
      BY <2>2, <3>1
    <3>3. QED
      BY <2>1, <2>3, <3>1, <3>2 DEF Members, NoTokenTwice
  <2>6. ASSUME NEW u \in Members \ {t} PROVE u \in Members'
    <3>1. PICK k \in 1..Len(pool) : u = pool[k]
      BY <2>6 DEF Members
    <3>2. back(k) \in 1..Len(pool') /\ at(back(k)) = k
      BY <2>1, <2>4, <2>6, <3>1
    <3>3. pool'[back(k)] = u
      BY <2>2, <3>1, <3>2
    <3>4. QED
      BY <3>2, <3>3 DEF Members
  <2>7. QED
    BY <2>1, <2>5, <2>6 DEF Members
<1>3. QED
  BY <1>1, <1>2

(* Every step of the pool is a step of AccountHealth or a stutter. *)
LEMMA StepHealth ==
  ASSUME IInv, [Next]_vars
  PROVE  [Health!Next]_(Health!health)
<1>0. /\ AllSound /\ AllSound' /\ pool \in Seq(Tokens)
      /\ \A t \in Tokens : Sound(breaker[t]) /\ Sound(breaker'[t])
  BY SoundStep DEF IInv, TypeOK, AllSound, BreakerConsistent, Sound
<1>1. ASSUME NEW r \in Requests, PickBest(r)
      PROVE  [Health!Next]_(Health!health)
  BY <1>0, <1>1, PickStartsTrials DEF PickBest, Health!Next
<1>2. CASE Tick
  <2>1. ASSUME NEW t \in Tokens
        PROVE  /\ breaker'[t].state = breaker[t].state
               /\ breaker'[t].cooldown =
                    IF breaker[t].cooldown = 0 THEN 0 ELSE breaker[t].cooldown - 1
    BY <1>0, <1>2, <2>1 DEF Tick, Elapse, Sound, Breaker
  <2>2. HealthMode' = HealthMode
    BY <2>1 DEF HealthMode, ModeOf
  <2>3. HealthRest' = [t \in Tokens |-> IF HealthRest[t] = 0 THEN 0 ELSE HealthRest[t] - 1]
    BY <2>1 DEF HealthRest
  <2>4. UNCHANGED Members
    BY <1>2 DEF Tick, Members
  <2>5. QED
    BY <2>2, <2>3, <2>4 DEF Health!Tick, Health!Next, HealthMode, HealthRest, ModeOf
<1>3. ASSUME NEW r \in Requests,
             \/ MarkSuccess(r) \/ MarkFailure(r)
             \/ \E rest \in Rests : MarkCooldown(r, rest)
      PROVE  [Health!Next]_(Health!health)
  BY <1>0, <1>3, ReportHealth
<1>4. ASSUME NEW u \in Tokens, AddAccount(u) \/ RemoveAccount(u)
      PROVE  [Health!Next]_(Health!health)
  <2>1. breaker' = [breaker EXCEPT ![u] = NewBreaker]
    BY <1>4 DEF AddAccount, RemoveAccount
  <2>2. breaker \in [Tokens -> Breaker]
    BY <1>0 DEF AllSound
  <2>3. HealthMode' = [HealthMode EXCEPT ![u] = "Serving"]
    BY <2>1, <2>2 DEF HealthMode, ModeOf, NewBreaker
  <2>4. HealthRest' = [HealthRest EXCEPT ![u] = 0]
    BY <2>1, <2>2 DEF HealthRest, NewBreaker
  <2>5. Health!Clean(u)
    BY <2>3, <2>4 DEF Health!Clean, HealthMode, HealthRest, ModeOf
  <2>6. \/ u \notin Members /\ Members' = Members \cup {u}
        \/ u \in Members /\ Members' = Members \ {u}
    BY <1>0, <1>4, MembersMove DEF IInv
  <2>7. Health!Add(u) \/ Health!Remove(u)
    BY <2>5, <2>6 DEF Health!Add, Health!Remove
  <2>8. QED
    BY <2>7 DEF Health!Next
<1>5. CASE UNCHANGED <<pool, breaker>>
  BY <1>5 DEF Health!health, Members
<1>6. QED
  BY <1>1, <1>2, <1>3, <1>4, <1>5 DEF Next, UpdateScore, LetGo, vars

(* The pool implements AccountHealth: an account found failing takes its   *)
(* whole rest and passes a trial before it serves again, unless the        *)
(* operator deletes it in between.                                         *)
THEOREM PoolImplementsHealth == Spec => HealthSpec
<1>1. Init => Health!Init
  <2>1. Init => Members \subseteq Tokens
    BY PoolAssumption, ElementOfSeq DEF Init, Members
  <2>2. QED
    BY <2>1 DEF Init, NewBreaker, Health!Init
<1>2. IInv /\ [Next]_vars => [Health!Next]_(Health!health)
  BY StepHealth
<1>3. QED
  BY <1>1, <1>2, PoolInvariant, PTL DEF Spec, HealthSpec, Health!Spec
=============================================================================
