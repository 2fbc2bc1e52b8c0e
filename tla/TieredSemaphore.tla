--------------------------- MODULE TieredSemaphore ---------------------------
(***************************************************************************)
(* The concurrency limiter of src/src/semaphore.rs.  A request takes a     *)
(* permit of its tier's slots, then one of its tier's multi, and waits for *)
(* either at most ACQUIRE_TIMEOUT_MS; the two are given back together when *)
(* the guard is dropped.  The semaphore is tokio's: waiters queue first in *)
(* first out, and a permit given back goes to the head of the queue, which *)
(* finds it when it runs next.                                             *)
(***************************************************************************)
EXTENDS Integers, FiniteSets, SequencesExt

CONSTANTS
  Requests,
  Tiers,        (* the two buckets: free and subscriber                    *)
  Slots,        (* capacity of each tier's slots: 1 and 3                  *)
  Multi,        (* capacity of each tier's multi: 3 and 8                  *)
  Patience,     (* ticks a single wait may take: 2000 ms                   *)
  NoTier

ASSUME SemaphoreAssumption ==
  /\ IsFiniteSet(Requests)
  /\ Slots \in [Tiers -> Nat \ {0}]
  /\ Multi \in [Tiers -> Nat \ {0}]
  /\ Patience \in Nat \ {0}
  /\ NoTier \notin Tiers

VARIABLES
  slots,     (* each tier's slots semaphore: free permits and waiters      *)
  multi,     (* each tier's multi semaphore                                *)
  tier,      (* the tier a request asked for                               *)
  phase,     (* how far a request's acquire is                             *)
  left,      (* ticks left of the wait under way                           *)
  waited     (* history: ticks this acquire has waited so far              *)

vars == <<slots, multi, tier, phase, left, waited>>

Phase == {"Idle", "Slots", "Multi", "Inside", "Leaving", "Backing"}

Semaphore == [free : Nat, queue : Seq(Requests)]

TypeOK ==
  /\ slots \in [Tiers -> Semaphore]
  /\ multi \in [Tiers -> Semaphore]
  /\ tier \in [Requests -> Tiers \cup {NoTier}]
  /\ phase \in [Requests -> Phase]
  /\ \A r \in Requests : tier[r] = NoTier <=> phase[r] = "Idle"
  /\ left \in [Requests -> 0..Patience]
  /\ waited \in [Requests -> 0..2 * Patience]

Init ==
  /\ slots = [t \in Tiers |-> [free |-> Slots[t], queue |-> <<>>]]
  /\ multi = [t \in Tiers |-> [free |-> Multi[t], queue |-> <<>>]]
  /\ tier = [r \in Requests |-> NoTier]
  /\ phase = [r \in Requests |-> "Idle"]
  /\ left = [r \in Requests |-> 0]
  /\ waited = [r \in Requests |-> 0]

-----------------------------------------------------------------------------
(* tokio::sync::Semaphore: ask for a permit, give one back, stop waiting.  *)
Ask(s, r) ==
  IF s.free > 0 THEN [s EXCEPT !.free = @ - 1] ELSE [s EXCEPT !.queue = Append(@, r)]

Give(s) ==
  IF s.queue = <<>> THEN [s EXCEPT !.free = @ + 1] ELSE [s EXCEPT !.queue = Tail(@)]

Queued(s) == {s.queue[i] : i \in 1..Len(s.queue)}

Quit(s, r) ==
  IF r \in Queued(s)
  THEN [s EXCEPT !.queue = RemoveAt(@, CHOOSE i \in 1..Len(@) : @[i] = r)]
  ELSE Give(s)

(* A request whose wait is over but who has not run yet is in no queue. *)
Waiting(r) ==
  \/ phase[r] = "Slots" /\ r \in Queued(slots[tier[r]])
  \/ phase[r] = "Multi" /\ r \in Queued(multi[tier[r]])

-----------------------------------------------------------------------------
(* The request is done with acquire, or with its guard. *)
Reset(r) ==
  /\ phase' = [phase EXCEPT ![r] = "Idle"]
  /\ tier' = [tier EXCEPT ![r] = NoTier]
  /\ left' = [left EXCEPT ![r] = 0]
  /\ waited' = [waited EXCEPT ![r] = 0]

(* Mutants of the ways out of acquire.                                     *)
GiveUpLeaksSlot(r) ==
  \/ /\ phase[r] = "Slots"
     /\ slots' = [slots EXCEPT ![tier[r]] = Quit(@, r)]
     /\ UNCHANGED multi /\ Reset(r)
  \/ /\ phase[r] = "Multi"
     /\ multi' = [multi EXCEPT ![tier[r]] = Quit(@, r)]
     /\ UNCHANGED slots /\ Reset(r)
GetGuardAnyway(r) ==
  /\ phase[r] = "Multi"
  /\ phase' = [phase EXCEPT ![r] = "Inside"]
  /\ UNCHANGED <<slots, multi, tier, left, waited>>
FinishDropSlotOnly(r) ==
  /\ phase[r] \in {"Leaving", "Backing"}
  /\ slots' = IF phase[r] = "Backing" THEN [slots EXCEPT ![tier[r]] = Give(@)] ELSE slots
  /\ UNCHANGED multi /\ Reset(r)

-----------------------------------------------------------------------------
AskSlots(r, t) ==
  /\ phase[r] = "Idle"
  /\ phase' = [phase EXCEPT ![r] = "Slots"]
  /\ tier' = [tier EXCEPT ![r] = t]
  /\ slots' = [slots EXCEPT ![t] = Ask(@, r)]
  /\ left' = [left EXCEPT ![r] = Patience]
  /\ waited' = [waited EXCEPT ![r] = 0]
  /\ UNCHANGED multi

(* The slot is there: ask for the other permit, with a time-out of its own. *)
AskMulti(r) ==
  /\ phase[r] = "Slots" /\ ~Waiting(r)
  /\ phase' = [phase EXCEPT ![r] = "Multi"]
  /\ multi' = [multi EXCEPT ![tier[r]] = Ask(@, r)]
  /\ left' = [left EXCEPT ![r] = Patience]
  /\ UNCHANGED <<slots, tier, waited>>

(* Both permits are there: acquire returns the guard. *)
GetGuard(r) ==
  /\ phase[r] = "Multi" /\ ~Waiting(r)
  /\ phase' = [phase EXCEPT ![r] = "Inside"]
  /\ UNCHANGED <<slots, multi, tier, left, waited>>

(* acquire is left without a guard: the wait under way is given up, then   *)
(* the slot, if there is one, by its own drop.                             *)
GiveUp(r) ==
  \/ /\ phase[r] = "Slots"
     /\ slots' = [slots EXCEPT ![tier[r]] = Quit(@, r)]
     /\ UNCHANGED multi /\ Reset(r)
  \/ /\ phase[r] = "Multi"
     /\ multi' = [multi EXCEPT ![tier[r]] = Quit(@, r)]
     /\ phase' = [phase EXCEPT ![r] = "Backing"]
     /\ UNCHANGED <<slots, tier, left, waited>>

(* acquire returns Busy.  timeout polls the wait before the timer, so a    *)
(* request that was handed its permit in time does not lose it.            *)
BusyOnSlotsOnly(r) == phase[r] = "Slots" /\ Waiting(r) /\ left[r] = 0 /\ GiveUp(r)
Busy(r) == Waiting(r) /\ left[r] = 0 /\ GiveUp(r)

(* The client goes away inside acquire: its future is dropped, and with it *)
(* its place in the queue or the permits it has.                           *)
Abandon(r) == GiveUp(r)

(* The guard is dropped: on return, on error, at the end of a stream, or   *)
(* because the client went away.  The slot goes first.                     *)
DropGuard(r) ==
  /\ phase[r] = "Inside"
  /\ slots' = [slots EXCEPT ![tier[r]] = Give(@)]
  /\ phase' = [phase EXCEPT ![r] = "Leaving"]
  /\ UNCHANGED <<multi, tier, left, waited>>

(* The second of the two permits a request gives back. *)
FinishDrop(r) ==
  /\ \/ /\ phase[r] = "Leaving"
        /\ multi' = [multi EXCEPT ![tier[r]] = Give(@)]
        /\ UNCHANGED slots
     \/ /\ phase[r] = "Backing"
        /\ slots' = [slots EXCEPT ![tier[r]] = Give(@)]
        /\ UNCHANGED multi
  /\ Reset(r)

(* Time passes for those who wait.  A timer that is due fires first, and   *)
(* dropping a guard takes no time worth a tick.                            *)
Tick ==
  /\ \A r \in Requests : phase[r] \notin {"Leaving", "Backing"}
  /\ \E r \in Requests : Waiting(r)
  /\ \A r \in Requests : Waiting(r) => left[r] > 0
  /\ left' = [r \in Requests |-> IF Waiting(r) THEN left[r] - 1 ELSE left[r]]
  /\ waited' = [r \in Requests |-> IF Waiting(r) THEN waited[r] + 1 ELSE waited[r]]
  /\ UNCHANGED <<slots, multi, tier, phase>>

Next ==
  \/ \E r \in Requests :
       \/ \E t \in Tiers : AskSlots(r, t)
       \/ AskMulti(r) \/ GetGuard(r) \/ Busy(r) \/ Abandon(r)
       \/ DropGuard(r) \/ FinishDrop(r)
  \/ Tick

Spec == Init /\ [][Next]_vars

(* Tasks that can run do run, timers fire, and the clock is not held up    *)
(* for ever by requests that come and go.  Nothing makes a request give    *)
(* its guard back: an upstream stream may be as long as it likes.          *)
Fairness ==
  /\ SF_vars(Tick)
  /\ \A r \in Requests :
       /\ WF_vars(AskMulti(r)) /\ WF_vars(GetGuard(r))
       /\ WF_vars(Busy(r)) /\ WF_vars(FinishDrop(r))

FairSpec == Spec /\ Fairness

-----------------------------------------------------------------------------
(* Who has asked a semaphore for a permit and not given it back, and who   *)
(* of them has one, handed over or in use.                                 *)
SlotTakers(t) ==
  {r \in Requests : tier[r] = t /\ phase[r] \in {"Slots", "Multi", "Inside", "Backing"}}

MultiTakers(t) ==
  {r \in Requests : tier[r] = t /\ phase[r] \in {"Multi", "Inside", "Leaving"}}

SlotHolders(t) == SlotTakers(t) \ Queued(slots[t])

MultiHolders(t) == MultiTakers(t) \ Queued(multi[t])

(* Permits are neither lost nor made: whatever ends a request, and at      *)
(* whatever point of acquire, the permits it had are back or with a        *)
(* waiter, and nobody waits while a permit is free.                        *)
PermitsConserved ==
  \A t \in Tiers :
    /\ slots[t].free + Cardinality(SlotHolders(t)) = Slots[t]
    /\ multi[t].free + Cardinality(MultiHolders(t)) = Multi[t]
    /\ slots[t].free > 0 => slots[t].queue = <<>>
    /\ multi[t].free > 0 => multi[t].queue = <<>>

(* With at least as many multi permits as slots, a request that has its    *)
(* slot does not wait again, but for the instant in which a leaving request *)
(* has given its slot back and not yet its multi.  So no time passes in    *)
(* the second wait, and no slot is held by a request that cannot go on.    *)
SlotMeansEntry ==
  \A r \in Requests :
    phase[r] = "Multi" /\ Waiting(r) /\ Slots[tier[r]] <= Multi[tier[r]] =>
      \E s \in Requests : tier[s] = tier[r] /\ phase[s] = "Leaving"

(* The limiter keeps the promise of ConcurrencyGate with the scarcer of    *)
(* the two capacities as the limit.                                        *)
Gate ==
  INSTANCE ConcurrencyGate WITH
    Limit <- [t \in Tiers |-> IF Slots[t] < Multi[t] THEN Slots[t] ELSE Multi[t]],
    inside <- [r \in Requests |-> IF phase[r] = "Inside" THEN tier[r] ELSE NoTier]

GateSpec == Gate!Spec

(* An acquire never hangs: it ends in a guard, in Busy, or with its client. *)
EveryAcquireEnds ==
  \A r \in Requests : phase[r] \in {"Slots", "Multi"} ~> phase[r] \in {"Idle", "Inside"}

(* The module documentation says Busy comes after ACQUIRE_TIMEOUT_MS, and  *)
(* acquire has two time-outs, one after the other.  With at least as many  *)
(* multi permits as slots, as is the default, they do not add up.          *)
BusyInTime ==
  \A r \in Requests :
    tier[r] # NoTier => (Slots[tier[r]] <= Multi[tier[r]] => waited[r] <= Patience)
=============================================================================
