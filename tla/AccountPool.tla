----------------------------- MODULE AccountPool -----------------------------
(***************************************************************************)
(* The pool of upstream accounts of src/src/pool.rs under every use its    *)
(* callers can make of it: requests pick an account, keep it across        *)
(* awaits, report what became of it any number of times or not at all,     *)
(* while the operator imports and deletes tokens.  Each action is one      *)
(* critical section of the pool's mutex.                                   *)
(***************************************************************************)
EXTENDS CircuitBreaker, SequencesExt

CONSTANTS
  Tokens,             (* credentials that may be in the pool               *)
  InitialPool,        (* auth_tokens of the configuration, in order        *)
  Names,              (* account names, as the mark_* methods take them    *)
  NameOf,             (* the name an entry made for a token carries        *)
  Requests,           (* requests in flight at the same time               *)
  ScoreCap,           (* scores are clamped to -ScoreCap .. ScoreCap       *)
  Deltas,             (* score changes callers ask for                     *)
  Rests,              (* cooldowns callers ask for: 600 s everywhere       *)
  NoToken             (* what pick_best returns when nothing is allowed    *)

ASSUME PoolAssumption ==
  /\ InitialPool \in Seq(Tokens)
  /\ \A i, j \in 1..Len(InitialPool) : InitialPool[i] = InitialPool[j] => i = j
  /\ NameOf \in [Tokens -> Names]
  /\ ScoreCap \in Nat
  /\ Deltas \subseteq Int
  /\ Rests \subseteq Nat
  /\ \A rest \in Rests : rest >= MaxCooldown
  /\ NoToken \notin Tokens

VARIABLES
  pool,      (* Pool::accounts: the tokens in Vec order                    *)
  breaker,   (* the breaker of each entry; fresh for a token not in pool   *)
  score,     (* the score of each entry; 0 for a token not in pool         *)
  grant      (* the account each request holds since its last pick         *)

vars == <<pool, breaker, score, grant>>

TypeOK ==
  /\ pool \in Seq(Tokens)
  /\ breaker \in [Tokens -> Breaker]
  /\ score \in [Tokens -> -ScoreCap..ScoreCap]
  /\ grant \in [Requests -> Tokens \cup {NoToken}]

Members == {pool[i] : i \in 1..Len(pool)}

Clamp(n) == IF n > ScoreCap THEN ScoreCap ELSE IF n < -ScoreCap THEN -ScoreCap ELSE n

Init ==
  /\ pool = InitialPool
  /\ breaker = [t \in Tokens |-> NewBreaker]
  /\ score = [t \in Tokens |-> 0]
  /\ grant = [r \in Requests |-> NoToken]

-----------------------------------------------------------------------------
(* The entry pick_best returns: of the entries that allow a request, the   *)
(* first of those with the highest score.                                  *)
Allowed == {i \in 1..Len(pool) : Allows(breaker[pool[i]])}

Best(i) ==
  /\ i \in Allowed
  /\ \A j \in Allowed : score[pool[j]] <= score[pool[i]]
  /\ \A j \in Allowed : score[pool[j]] = score[pool[i]] => i <= j

(* pick_best asks every entry for permission, not only the one it returns, *)
(* so every entry that says yes goes through the effect of allow.          *)
AskAll ==
  breaker' = [t \in Tokens |-> IF t \in Members /\ Allows(breaker[t])
                               THEN Allow(breaker[t]) ELSE breaker[t]]

PickBest(r) ==
  /\ AskAll
  /\ \/ /\ Allowed = {}
        /\ grant' = [grant EXCEPT ![r] = NoToken]
     \/ \E i \in Allowed :
          /\ Best(i)
          /\ grant' = [grant EXCEPT ![r] = pool[i]]
  /\ UNCHANGED <<pool, score>>

(* find(|a| a.name == name): the first entry with the name, if there is one. *)
Found(name) ==
  {pool[i] : i \in {k \in 1..Len(pool) :
                      /\ NameOf[pool[k]] = name
                      /\ \A j \in 1..k-1 : NameOf[pool[j]] # name}}

(* Apply a method to the breaker of the entry a name finds. *)
Report(r, Method(_)) ==
  /\ grant[r] # NoToken
  /\ breaker' = [t \in Tokens |-> IF t \in Found(NameOf[grant[r]])
                                  THEN Method(breaker[t]) ELSE breaker[t]]
  /\ UNCHANGED <<pool, score, grant>>

MarkSuccess(r) == Report(r, RecordSuccess)

MarkFailure(r) == Report(r, RecordFailure)

MarkCooldown(r, rest) ==
  LET Method(b) == TripFor(b, rest) IN Report(r, Method)

UpdateScore(r, delta) ==
  /\ grant[r] # NoToken
  /\ score' = [t \in Tokens |-> IF t \in Found(NameOf[grant[r]])
                                THEN Clamp(score[t] + delta) ELSE score[t]]
  /\ UNCHANGED <<pool, breaker, grant>>

(* The request is over, or its future was dropped: nothing is reported.    *)
LetGo(r) ==
  /\ grant[r] # NoToken
  /\ grant' = [grant EXCEPT ![r] = NoToken]
  /\ UNCHANGED <<pool, breaker, score>>

(* add_account: ignored when the token is already there. *)
AddAccount(t) ==
  /\ t \notin Members
  /\ pool' = Append(pool, t)
  /\ breaker' = [breaker EXCEPT ![t] = NewBreaker]
  /\ score' = [score EXCEPT ![t] = 0]
  /\ UNCHANGED grant

(* remove_account: the entry is dropped with its breaker and score; a      *)
(* request that holds the token goes on with it.                           *)
RemoveAccount(t) ==
  /\ \E i \in 1..Len(pool) : pool[i] = t /\ pool' = RemoveAt(pool, i)
  /\ breaker' = [breaker EXCEPT ![t] = NewBreaker]
  /\ score' = [score EXCEPT ![t] = 0]
  /\ UNCHANGED grant

Tick ==
  /\ \E t \in Tokens : breaker[t].cooldown > 0
  /\ breaker' = [t \in Tokens |-> Elapse(breaker[t])]
  /\ UNCHANGED <<pool, score, grant>>

Next ==
  \/ \E r \in Requests :
       \/ PickBest(r) \/ MarkSuccess(r) \/ MarkFailure(r) \/ LetGo(r)
       \/ \E rest \in Rests : MarkCooldown(r, rest)
       \/ \E delta \in Deltas : UpdateScore(r, delta)
  \/ \E t \in Tokens : AddAccount(t) \/ RemoveAccount(t)
  \/ Tick

Spec == Init /\ [][Next]_vars

-----------------------------------------------------------------------------
(* What each state of a breaker guarantees, whatever requests report and   *)
(* in whatever order.  A Closed breaker is below the threshold with its    *)
(* gate down and no rest left over; an Open one has no gate to hold; and a *)
(* HalfOpen one whose gate is free has already seen a success: the gate is *)
(* never freed by anything but a reported success (record_failure opens).  *)
Consistent(b) ==
  /\ b.state = "Closed" => /\ b.failures < FailureThreshold
                           /\ ~b.probing /\ b.cooldown = 0
  /\ b.state = "Open" => ~b.probing /\ b.successes = 0 /\ b.trips > 0
  /\ b.state = "HalfOpen" => /\ b.cooldown = 0 /\ b.trips > 0
                             /\ b.successes < SuccessToClose
                             /\ b.probing \/ b.successes > 0

(* Every breaker is consistent: see above. *)
BreakerConsistent == \A t \in Tokens : Consistent(breaker[t])

(* The pool holds no token twice: imports of a token that is already there *)
(* are dropped by add_account, and a deletion removes every entry.         *)
NoTokenTwice ==
  \A i, j \in 1..Len(pool) : pool[i] = pool[j] => i = j

(* No request is handed an account that is still resting.  A request that  *)
(* got the account before it was tripped keeps it: the guarantee is only   *)
(* about the moment of the pick.                                           *)
RestIsHonoured ==
  [][\A r \in Requests :
       grant'[r] # grant[r] /\ grant'[r] # NoToken
         => breaker[grant'[r]].cooldown = 0]_vars

(* While a breaker stays Open its rest shrinks only with the clock: late   *)
(* failures of requests that still hold the account do not restart it, and *)
(* the 600 s of a refused credential are never replaced by the shorter     *)
(* exponential rest of an ordinary trip.                                   *)
RestIsNeverCut ==
  [][\A t \in Tokens :
       breaker[t].state = "Open" /\ breaker'[t].state = "Open"
         => breaker'[t].cooldown >= breaker[t].cooldown - 1]_vars

(* The pool keeps the promise of AccountHealth, with its entries for the   *)
(* accounts that are listed: no report, however late and by whomever, cuts *)
(* a rest or closes a breaker that is Open; only the deletion of the entry *)
(* does.                                                                   *)
Health ==
  INSTANCE AccountHealth WITH
    Accounts <- Tokens,
    MaxRest <- MaxCooldown,
    listed <- Members,
    mode <- [t \in Tokens |-> CASE breaker[t].state = "Closed" -> "Serving"
                                [] breaker[t].state = "Open" -> "Resting"
                                [] OTHER -> "Trial"],
    rest <- [t \in Tokens |-> breaker[t].cooldown]

HealthSpec == Health!Spec
=============================================================================
