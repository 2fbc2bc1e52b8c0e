------------------------ MODULE TieredSemaphoreProofs ------------------------
(***************************************************************************)
(* Theorems about TieredSemaphore: permits are conserved, the tiers keep   *)
(* to their limits, and a slot is as good as a guard.                      *)
(*                                                                         *)
(* A semaphore is judged against its takers: the requests that have asked  *)
(* it for a permit and not given it back.  It is sound when its waiters    *)
(* are takers, each waiting once, when the takers that do not wait account *)
(* for every permit that is not free, and when nobody waits in vain.       *)
(***************************************************************************)
EXTENDS TieredSemaphore, SequenceTheorems, FiniteSetTheorems, TLAPS

(***************************************************************************)
(* Queues without repetition: what Append, Tail and RemoveAt do to them.   *)
(***************************************************************************)
Elements(s) == {s[i] : i \in 1..Len(s)}

Distinct(s) == \A i, j \in 1..Len(s) : s[i] = s[j] => i = j

(* Removing one entry of a sequence: what is left, and where it stands. *)
LEMMA RemoveAtProperties ==
  ASSUME NEW S, NEW s \in Seq(S), NEW i \in 1..Len(s)
  PROVE  /\ RemoveAt(s, i) \in Seq(S)
         /\ Len(RemoveAt(s, i)) = Len(s) - 1
         /\ \A j \in 1..Len(s)-1 :
              RemoveAt(s, i)[j] = s[IF j < i THEN j ELSE j + 1]
<1> DEFINE a == SubSeq(s, 1, i - 1)
           b == SubSeq(s, i + 1, Len(s))
<1>1. a \in Seq(S) /\ Len(a) = i - 1 /\ \A j \in 1..i-1 : a[j] = s[j]
  BY SubSeqProperties, LenProperties
<1>2. b \in Seq(S) /\ Len(b) = Len(s) - i /\ \A j \in 1..Len(s)-i : b[j] = s[i + j]
  BY SubSeqProperties, LenProperties
<1>3. Len(s) \in Nat /\ RemoveAt(s, i) = a \o b
  BY LenProperties DEF RemoveAt
<1> HIDE DEF a, b
<1>4. /\ a \o b \in Seq(S) /\ Len(a \o b) = Len(a) + Len(b)
      /\ \A j \in 1..Len(a) + Len(b) :
           (a \o b)[j] = IF j <= Len(a) THEN a[j] ELSE b[j - Len(a)]
  BY <1>1, <1>2, ConcatProperties
<1>5. ASSUME NEW j \in 1..Len(s)-1
      PROVE  RemoveAt(s, i)[j] = s[IF j < i THEN j ELSE j + 1]
  <2>1. CASE j < i
    BY <1>1, <1>2, <1>3, <1>4, <2>1
  <2>2. CASE ~(j < i)
    <3>1. j - Len(a) \in 1..Len(s)-i /\ i + (j - Len(a)) = j + 1
      BY <1>1, <1>3, <2>2
    <3>2. b[j - Len(a)] = s[j + 1]
      BY <1>2, <3>1
    <3>3. QED
      BY <1>1, <1>2, <1>3, <1>4, <2>2, <3>2
  <2>3. QED
    BY <2>1, <2>2
<1>6. QED
  BY <1>1, <1>2, <1>3, <1>4, <1>5

(* Adding a new element at the end. *)
LEMMA AppendDistinct ==
  ASSUME NEW S, NEW s \in Seq(S), NEW e \in S, Distinct(s), e \notin Elements(s)
  PROVE  /\ Append(s, e) \in Seq(S) /\ Distinct(Append(s, e))
         /\ Elements(Append(s, e)) = Elements(s) \cup {e}
<1>1. /\ Len(s) \in Nat /\ Append(s, e) \in Seq(S)
      /\ Len(Append(s, e)) = Len(s) + 1
      /\ \A i \in 1..Len(s) : Append(s, e)[i] = s[i]
      /\ Append(s, e)[Len(s) + 1] = e
  BY LenProperties, AppendProperties
<1>2. Distinct(Append(s, e))
  BY <1>1 DEF Distinct, Elements
<1>3. Elements(Append(s, e)) = Elements(s) \cup {e}
  BY <1>1 DEF Elements
<1>4. QED
  BY <1>1, <1>2, <1>3

(* Removing one element, wherever it is. *)
LEMMA RemoveDistinct ==
  ASSUME NEW S, NEW s \in Seq(S), Distinct(s), NEW i \in 1..Len(s)
  PROVE  /\ RemoveAt(s, i) \in Seq(S) /\ Distinct(RemoveAt(s, i))
         /\ Elements(RemoveAt(s, i)) = Elements(s) \ {s[i]}
<1> DEFINE q == RemoveAt(s, i)
           at(j) == IF j < i THEN j ELSE j + 1
<1>1. /\ Len(s) \in Nat /\ q \in Seq(S) /\ Len(q) = Len(s) - 1
      /\ \A j \in 1..Len(s)-1 : q[j] = s[at(j)]
  BY LenProperties, RemoveAtProperties
<1> HIDE DEF q
<1>2. \A j \in 1..Len(q) : at(j) \in 1..Len(s) /\ at(j) # i
  BY <1>1
<1>3. ASSUME NEW j \in 1..Len(q), NEW k \in 1..Len(q), q[j] = q[k]
      PROVE  j = k
  <2>1. at(j) = at(k)
    BY <1>1, <1>2, <1>3 DEF Distinct
  <2>2. QED
    BY <1>1, <2>1
<1>4. ASSUME NEW k \in 1..Len(s), k # i
      PROVE  s[k] \in Elements(q)
  <2>1. CASE k < i
    BY <1>1, <1>4, <2>1 DEF Elements
  <2>2. CASE ~(k < i)
    <3>1. k - 1 \in 1..Len(q) /\ at(k - 1) = k
      BY <1>1, <1>4, <2>2
    <3>2. q[k - 1] = s[k]
      BY <1>1, <3>1
    <3>3. QED
      BY <3>1, <3>2 DEF Elements
  <2>3. QED
    BY <2>1, <2>2
<1>5. Elements(q) = Elements(s) \ {s[i]}
  <2>1. Elements(q) \subseteq Elements(s) \ {s[i]}
    <3>1. ASSUME NEW j \in 1..Len(q)
          PROVE  q[j] \in Elements(s) \ {s[i]}
      <4>1. q[j] = s[at(j)] /\ at(j) \in 1..Len(s) /\ at(j) # i
        BY <1>1, <1>2
      <4>2. s[at(j)] # s[i]
        BY <4>1 DEF Distinct
      <4>3. QED
        BY <4>1, <4>2 DEF Elements
    <3>2. QED
      BY <3>1 DEF Elements
  <2>2. Elements(s) \ {s[i]} \subseteq Elements(q)
    BY <1>4 DEF Elements
  <2>3. QED
    BY <2>1, <2>2
<1>6. QED
  BY <1>1, <1>3, <1>5 DEF Distinct, q

(* Taking the first element off. *)
LEMMA TailDistinct ==
  ASSUME NEW S, NEW s \in Seq(S), s # <<>>, Distinct(s)
  PROVE  /\ Tail(s) \in Seq(S) /\ Distinct(Tail(s))
         /\ Head(s) \in Elements(s)
         /\ Elements(Tail(s)) = Elements(s) \ {Head(s)}
<1>1. /\ Tail(s) \in Seq(S) /\ Len(Tail(s)) = Len(s) - 1
      /\ \A j \in 1..Len(s)-1 : Tail(s)[j] = s[j + 1]
  BY HeadTailProperties
<1>2. Len(s) \in Nat \ {0} /\ Head(s) = s[1]
  BY EmptySeq
<1>3. Distinct(Tail(s))
  BY <1>1, <1>2 DEF Distinct
<1>4. ASSUME NEW k \in 2..Len(s)
      PROVE  s[k] \in Elements(Tail(s))
  <2>1. k - 1 \in 1..Len(Tail(s)) /\ Tail(s)[k - 1] = s[k]
    BY <1>1, <1>2
  <2>2. QED
    BY <2>1 DEF Elements
<1>5. Elements(s) \ {Head(s)} \subseteq Elements(Tail(s))
  <2>1. ASSUME NEW k \in 1..Len(s), s[k] # Head(s)
        PROVE  k \in 2..Len(s)
    BY <1>2, <2>1
  <2>2. QED
    BY <1>4, <2>1 DEF Elements
<1>6. Elements(Tail(s)) \subseteq Elements(s) \ {Head(s)}
  BY <1>1, <1>2 DEF Elements, Distinct
<1>7. Head(s) \in Elements(s)
  BY <1>2 DEF Elements
<1>8. Elements(Tail(s)) = Elements(s) \ {Head(s)}
  BY <1>5, <1>6
<1>9. QED
  BY <1>1, <1>3, <1>7, <1>8

-----------------------------------------------------------------------------
USE SemaphoreAssumption

SoundFor(s, takers, capacity) ==
  /\ s \in Semaphore
  /\ Distinct(s.queue)
  /\ takers \subseteq Requests
  /\ Elements(s.queue) \subseteq takers
  /\ s.free + Cardinality(takers \ Elements(s.queue)) = capacity
  /\ s.free > 0 => s.queue = <<>>

(* The takers that do not wait are finitely many.                          *)
LEMMA HoldersFinite ==
  ASSUME NEW T, T \subseteq Requests, NEW Q
  PROVE  IsFiniteSet(T \ Q) /\ Cardinality(T \ Q) \in Nat
<1>1. T \ Q \subseteq Requests
  OBVIOUS
<1>2. IsFiniteSet(T \ Q)
  BY <1>1, FS_Subset
<1>3. QED
  BY <1>2, FS_CardinalityType

(* How the soundness of a semaphore is established from its two parts.     *)
LEMMA MakeSound ==
  ASSUME NEW n \in Nat, NEW q \in Seq(Requests), Distinct(q),
         NEW T, T \subseteq Requests, Elements(q) \subseteq T,
         NEW cap, n + Cardinality(T \ Elements(q)) = cap, n > 0 => q = <<>>
  PROVE  SoundFor([free |-> n, queue |-> q], T, cap)
BY DEF SoundFor, Semaphore

(* Asking: the request takes a free permit, or waits.                      *)
LEMMA AskSound ==
  ASSUME NEW s, NEW T, NEW cap, SoundFor(s, T, cap), NEW r \in Requests, r \notin T
  PROVE  /\ SoundFor(Ask(s, r), T \cup {r}, cap)
         /\ Elements(Ask(s, r).queue) \subseteq Elements(s.queue) \cup {r}
<1>0. s = [free |-> s.free, queue |-> s.queue]
  BY DEF SoundFor, Semaphore
<1>1. /\ s.free \in Nat /\ s.queue \in Seq(Requests)
      /\ r \notin Elements(s.queue)
  BY DEF SoundFor, Semaphore
<1>2. T \subseteq Requests /\ T \cup {r} \subseteq Requests /\ Elements(s.queue) \subseteq T
  BY DEF SoundFor
<1> DEFINE H == T \ Elements(s.queue)
<1>3. /\ IsFiniteSet(H) /\ Cardinality(H) \in Nat /\ s.free + Cardinality(H) = cap
      /\ r \notin H
  BY HoldersFinite DEF SoundFor
<1>4. CASE s.free > 0
  <2>1. Ask(s, r) = [free |-> s.free - 1, queue |-> s.queue]
    BY <1>0, <1>1, <1>4 DEF Ask
  <2>2. s.queue = <<>> /\ Distinct(s.queue)
    BY <1>4 DEF SoundFor
  <2>3. (T \cup {r}) \ Elements(s.queue) = H \cup {r}
    BY <1>1
  <2> HIDE DEF H
  <2>4. Cardinality(H \cup {r}) = Cardinality(H) + 1
    BY <1>3, FS_AddElement
  <2>5. (s.free - 1) + Cardinality((T \cup {r}) \ Elements(s.queue)) = cap
    <3>1. Cardinality((T \cup {r}) \ Elements(s.queue)) = Cardinality(H) + 1
      BY <2>3, <2>4
    <3>2. \A f \in Nat, c \in Nat : f + c = cap => (f - 1) + (c + 1) = cap
      OBVIOUS
    <3>3. QED
      BY <1>1, <1>3, <3>1, <3>2, Zenon
  <2>6. s.free - 1 \in Nat /\ Elements(s.queue) \subseteq T \cup {r}
    BY <1>1, <1>2, <1>4
  <2>7. SoundFor([free |-> s.free - 1, queue |-> s.queue], T \cup {r}, cap)
    BY <1>1, <1>2, <2>2, <2>5, <2>6, MakeSound
  <2>8. QED
    BY <2>1, <2>7
<1>5. CASE s.free = 0
  <2> DEFINE q == Append(s.queue, r)
  <2>1. Ask(s, r) = [s EXCEPT !.queue = q]
    BY <1>5 DEF Ask
  <2>2. q \in Seq(Requests) /\ Distinct(q) /\ Elements(q) = Elements(s.queue) \cup {r}
    BY <1>1, AppendDistinct DEF SoundFor
  <2> HIDE DEF q
  <2>3. Ask(s, r) = [free |-> 0, queue |-> q]
    BY <1>0, <1>1, <1>5, <2>1
  <2>4. (T \cup {r}) \ Elements(q) = H /\ Elements(q) \subseteq T \cup {r}
    BY <1>2, <2>2
  <2> HIDE DEF H
  <2>5. 0 + Cardinality((T \cup {r}) \ Elements(q)) = cap
    BY <1>3, <1>5, <2>4
  <2>6. 0 \in Nat /\ (0 > 0 => q = <<>>)
    OBVIOUS
  <2>7. SoundFor([free |-> 0, queue |-> q], T \cup {r}, cap)
    <3> DEFINE U == T \cup {r}
    <3>1. U \subseteq Requests /\ Elements(q) \subseteq U /\ 0 + Cardinality(U \ Elements(q)) = cap
      BY <1>2, <2>4, <2>5
    <3> HIDE DEF U
    <3>2. SoundFor([free |-> 0, queue |-> q], U, cap)
      BY <2>2, <2>6, <3>1, MakeSound
    <3>3. QED
      BY <3>2 DEF U
  <2>8. QED
    BY <2>2, <2>3, <2>7
<1>6. QED
  BY <1>1, <1>4, <1>5

(* Giving back: the permit is free again, or the first waiter has it.      *)
LEMMA GiveSound ==
  ASSUME NEW s, NEW T, NEW cap, SoundFor(s, T, cap), NEW r \in T,
         r \notin Elements(s.queue)
  PROVE  /\ SoundFor(Give(s), T \ {r}, cap)
         /\ Elements(Give(s).queue) \subseteq Elements(s.queue)
<1> DEFINE H == T \ Elements(s.queue)
<1>0. s = [free |-> s.free, queue |-> s.queue]
  BY DEF SoundFor, Semaphore
<1>1. /\ s.free \in Nat /\ s.queue \in Seq(Requests)
      /\ Elements(s.queue) \subseteq T /\ Distinct(s.queue)
  BY DEF SoundFor, Semaphore
<1>2. IsFiniteSet(H) /\ Cardinality(H) \in Nat /\ s.free + Cardinality(H) = cap /\ r \in H
  BY HoldersFinite DEF SoundFor
<1>3. IsFiniteSet(H \ {r}) /\ Cardinality(H \ {r}) = Cardinality(H) - 1
  BY <1>2, FS_RemoveElement
<1>4. T \subseteq Requests /\ (s.free > 0 => s.queue = <<>>)
  BY DEF SoundFor
<1>5. CASE s.queue = <<>>
  <2>1. Give(s) = [free |-> s.free + 1, queue |-> s.queue]
    BY <1>0, <1>1, <1>5 DEF Give
  <2>2. (T \ {r}) \ Elements(s.queue) = H \ {r} /\ Elements(s.queue) \subseteq T \ {r}
    BY <1>1
  <2> HIDE DEF H
  <2>3. (s.free + 1) + Cardinality((T \ {r}) \ Elements(s.queue)) = cap
    <3>1. Cardinality((T \ {r}) \ Elements(s.queue)) = Cardinality(H) - 1
      BY <1>3, <2>2
    <3>2. \A f \in Nat, c \in Nat : f + c = cap => (f + 1) + (c - 1) = cap
      OBVIOUS
    <3>3. QED
      BY <1>1, <1>2, <3>1, <3>2, Zenon
  <2>4. T \ {r} \subseteq Requests /\ s.free + 1 \in Nat
    BY <1>1, <1>4
  <2>5. SoundFor([free |-> s.free + 1, queue |-> s.queue], T \ {r}, cap)
    BY <1>1, <1>5, <2>2, <2>3, <2>4, MakeSound
  <2>6. QED
    BY <2>1, <2>5
<1>6. CASE s.queue # <<>>
  <2> DEFINE h == Head(s.queue)
  <2>1. Give(s) = [free |-> s.free, queue |-> Tail(s.queue)]
    BY <1>0, <1>1, <1>6 DEF Give
  <2>2. /\ Tail(s.queue) \in Seq(Requests) /\ Distinct(Tail(s.queue))
        /\ h \in Elements(s.queue)
        /\ Elements(Tail(s.queue)) = Elements(s.queue) \ {h}
    BY <1>1, <1>6, TailDistinct
  <2> HIDE DEF h
  <2>3. (T \ {r}) \ Elements(Tail(s.queue)) = (H \ {r}) \cup {h} /\ h \notin H \ {r}
    BY <1>1, <2>2
  <2> DEFINE G == H \ {r}
  <2>4. IsFiniteSet(G) /\ Cardinality(G) = Cardinality(H) - 1 /\ h \notin G
    BY <1>3, <2>3
  <2> HIDE DEF G
  <2>5. Cardinality(G \cup {h}) = Cardinality(G) + 1
    BY <2>4, FS_AddElement
  <2>6. Cardinality(G \cup {h}) = Cardinality(H)
    BY <1>2, <2>4, <2>5
  <2>7. s.free + Cardinality((T \ {r}) \ Elements(Tail(s.queue))) = cap
    BY <1>2, <2>3, <2>6 DEF G
  <2>8. s.free = 0
    BY <1>1, <1>4, <1>6
  <2>9. Elements(Tail(s.queue)) \subseteq T \ {r} /\ T \ {r} \subseteq Requests
    BY <1>1, <1>4, <2>2
  <2>10. SoundFor([free |-> s.free, queue |-> Tail(s.queue)], T \ {r}, cap)
    BY <1>1, <2>2, <2>7, <2>8, <2>9 DEF SoundFor, Semaphore
  <2>11. QED
    BY <2>1, <2>2, <2>10
<1>7. QED
  BY <1>5, <1>6

(* Giving up: a waiter leaves the queue, a holder gives its permit back.   *)
LEMMA QuitSound ==
  ASSUME NEW s, NEW T, NEW cap, SoundFor(s, T, cap), NEW r \in T
  PROVE  /\ SoundFor(Quit(s, r), T \ {r}, cap)
         /\ Elements(Quit(s, r).queue) \subseteq Elements(s.queue) \ {r}
<1>0. s = [free |-> s.free, queue |-> s.queue]
  BY DEF SoundFor, Semaphore
<1>1. /\ s.free \in Nat /\ s.queue \in Seq(Requests)
      /\ Elements(s.queue) \subseteq T /\ Distinct(s.queue)
      /\ Queued(s) = Elements(s.queue)
  BY DEF SoundFor, Semaphore, Queued, Elements
<1>2. CASE r \in Elements(s.queue)
  <2> DEFINE i == CHOOSE k \in 1..Len(s.queue) : s.queue[k] = r
             q == RemoveAt(s.queue, i)
  <2>1. i \in 1..Len(s.queue) /\ s.queue[i] = r
    BY <1>2 DEF Elements
  <2>2. Quit(s, r) = [free |-> s.free, queue |-> q]
    BY <1>0, <1>1, <1>2 DEF Quit
  <2> HIDE DEF i
  <2>3. q \in Seq(Requests) /\ Distinct(q) /\ Elements(q) = Elements(s.queue) \ {r}
    BY <1>1, <2>1, RemoveDistinct
  <2>4. (T \ {r}) \ Elements(q) = T \ Elements(s.queue)
    BY <1>2, <2>3
  <2>5. s.queue # <<>>
    <3>1. Len(s.queue) # 0
      BY <1>1, <2>1
    <3>2. QED
      BY <3>1
  <2>6. s.free = 0
    BY <1>1, <2>5 DEF SoundFor
  <2> HIDE DEF q
  <2>7. /\ Elements(q) \subseteq T \ {r} /\ T \ {r} \subseteq Requests
        /\ s.free + Cardinality((T \ {r}) \ Elements(q)) = cap
    BY <1>1, <2>3, <2>4 DEF SoundFor
  <2>8. SoundFor([free |-> s.free, queue |-> q], T \ {r}, cap)
    <3> DEFINE U == T \ {r}
    <3>1. /\ U \subseteq Requests /\ Elements(q) \subseteq U
          /\ s.free + Cardinality(U \ Elements(q)) = cap
      BY <2>7
    <3>2. s.free > 0 => q = <<>>
      BY <2>6
    <3> HIDE DEF U
    <3>3. SoundFor([free |-> s.free, queue |-> q], U, cap)
      BY <1>1, <2>3, <3>1, <3>2, MakeSound
    <3>4. QED
      BY <3>3 DEF U
  <2>9. QED
    BY <2>2, <2>3, <2>8
<1>3. CASE r \notin Elements(s.queue)
  <2>1. Quit(s, r) = Give(s)
    BY <1>1, <1>3 DEF Quit
  <2>2. QED
    BY <1>3, <2>1, GiveSound
<1>4. QED
  BY <1>2, <1>3

-----------------------------------------------------------------------------
(* The invariant.  Besides the soundness of the semaphores it says who may *)
(* be found in a queue, and how the time spent waiting is bounded.         *)
SlotWaiters(t) == {r \in Requests : tier[r] = t /\ phase[r] = "Slots"}
MultiWaiters(t) == {r \in Requests : tier[r] = t /\ phase[r] = "Multi"}

SlotsSound(t) ==
  /\ SoundFor(slots[t], SlotTakers(t), Slots[t])
  /\ Elements(slots[t].queue) \subseteq SlotWaiters(t)

MultiSound(t) ==
  /\ SoundFor(multi[t], MultiTakers(t), Multi[t])
  /\ Elements(multi[t].queue) \subseteq MultiWaiters(t)

WaitBounded ==
  \A r \in Requests :
    /\ phase[r] = "Slots" => waited[r] + left[r] <= Patience
    /\ phase[r] = "Multi" => waited[r] + left[r] <= 2 * Patience

IInv ==
  /\ TypeOK
  /\ \A t \in Tiers : SlotsSound(t) /\ MultiSound(t)
  /\ WaitBounded

(* At the start all permits are free and nobody has asked for one.         *)
LEMMA InitSound == Init => \A t \in Tiers : SlotsSound(t) /\ MultiSound(t)
<1> SUFFICES ASSUME Init, NEW t \in Tiers
             PROVE  SlotsSound(t) /\ MultiSound(t)
  OBVIOUS
<1>1. SlotTakers(t) = {} /\ MultiTakers(t) = {}
  BY DEF Init, SlotTakers, MultiTakers
<1>2. <<>> \in Seq(Requests) /\ Distinct(<<>>) /\ Elements(<<>>) = {}
  BY EmptySeq DEF Distinct, Elements
<1>3. Cardinality({} \ Elements(<<>>)) = 0
  BY <1>2, FS_EmptySet
<1>4. Slots[t] \in Nat /\ Multi[t] \in Nat
  OBVIOUS
<1>5. ASSUME NEW n \in Nat PROVE SoundFor([free |-> n, queue |-> <<>>], {}, n)
  <2> DEFINE q == <<>>
             T == {}
  <2>1. q \in Seq(Requests) /\ Distinct(q) /\ T \subseteq Requests /\ Elements(q) \subseteq T
    BY <1>2
  <2>2. n + Cardinality(T \ Elements(q)) = n /\ q = <<>>
    BY <1>3
  <2> HIDE DEF q, T
  <2>3. SoundFor([free |-> n, queue |-> q], T, n)
    BY <2>1, <2>2, MakeSound
  <2>4. QED
    BY <2>3 DEF q, T
<1>6. /\ SoundFor([free |-> Slots[t], queue |-> <<>>], {}, Slots[t])
      /\ SoundFor([free |-> Multi[t], queue |-> <<>>], {}, Multi[t])
  BY <1>4, <1>5
<1>7. /\ slots[t] = [free |-> Slots[t], queue |-> <<>>]
      /\ multi[t] = [free |-> Multi[t], queue |-> <<>>]
  BY DEF Init
<1>8. QED
  BY <1>1, <1>2, <1>6, <1>7 DEF SlotsSound, MultiSound

(* The soundness of a tier in the next state, from its two parts.          *)
LEMMA SlotsMake ==
  ASSUME NEW t, NEW s, NEW T, slots'[t] = s, SlotTakers(t)' = T, SoundFor(s, T, Slots[t]),
         Elements(s.queue) \subseteq SlotWaiters(t)'
  PROVE  SlotsSound(t)'
BY DEF SlotsSound

(* The same of the multi semaphore.                                        *)
LEMMA MultiMake ==
  ASSUME NEW t, NEW s, NEW T, multi'[t] = s, MultiTakers(t)' = T, SoundFor(s, T, Multi[t]),
         Elements(s.queue) \subseteq MultiWaiters(t)'
  PROVE  MultiSound(t)'
BY DEF MultiSound

(* A tier whose takers and queue do not change stays sound, if those who   *)
(* wait in it still do.                                                    *)
LEMMA SlotsStay ==
  ASSUME NEW t, SlotsSound(t), slots'[t] = slots[t], SlotTakers(t)' = SlotTakers(t),
         Elements(slots[t].queue) \subseteq SlotWaiters(t)'
  PROVE  SlotsSound(t)'
BY DEF SlotsSound

(* The same of the multi semaphore.                                        *)
LEMMA MultiStay ==
  ASSUME NEW t, MultiSound(t), multi'[t] = multi[t], MultiTakers(t)' = MultiTakers(t),
         Elements(multi[t].queue) \subseteq MultiWaiters(t)'
  PROVE  MultiSound(t)'
BY DEF MultiSound

(* Every action keeps the slots of every tier sound.                       *)
LEMMA SlotsStep ==
  ASSUME TypeOK, NEW t \in Tiers, SlotsSound(t), [Next]_vars
  PROVE  SlotsSound(t)'
<1> USE DEF SlotTakers, SlotWaiters
<1>0. /\ phase \in [Requests -> Phase] /\ tier \in [Requests -> Tiers \cup {NoTier}]
      /\ slots \in [Tiers -> Semaphore]
      /\ \A r \in Requests : phase[r] # "Idle" => tier[r] \in Tiers
      /\ Elements(slots[t].queue) \subseteq SlotWaiters(t)
      /\ Queued(slots[t]) = Elements(slots[t].queue)
      /\ SoundFor(slots[t], SlotTakers(t), Slots[t])
  BY DEF TypeOK, SlotsSound, Queued, Elements
<1>1. ASSUME NEW r \in Requests, NEW u \in Tiers, AskSlots(r, u)
      PROVE  SlotsSound(t)'
  <2>1. CASE t = u
    <3>1. slots'[t] = Ask(slots[t], r) /\ SlotTakers(t)' = SlotTakers(t) \cup {r}
      BY <1>0, <1>1, <2>1 DEF AskSlots
    <3>2. r \notin SlotTakers(t)
      BY <1>1 DEF AskSlots
    <3>3. SlotWaiters(t) \cup {r} \subseteq SlotWaiters(t)'
      BY <1>0, <1>1, <2>1 DEF AskSlots
    <3>4. /\ SoundFor(Ask(slots[t], r), SlotTakers(t) \cup {r}, Slots[t])
          /\ Elements(Ask(slots[t], r).queue) \subseteq Elements(slots[t].queue) \cup {r}
      BY <1>0, <3>2, AskSound
    <3>5. Elements(Ask(slots[t], r).queue) \subseteq SlotWaiters(t)'
      BY <1>0, <3>3, <3>4
    <3> HIDE DEF SlotTakers, SlotWaiters
    <3>6. QED
      BY <3>1, <3>4, <3>5, SlotsMake
  <2>2. CASE t # u
    <3>1. slots'[t] = slots[t] /\ SlotTakers(t)' = SlotTakers(t)
      BY <1>0, <1>1, <2>2 DEF AskSlots
    <3>2. SlotWaiters(t) \subseteq SlotWaiters(t)'
      BY <1>0, <1>1 DEF AskSlots
    <3>3. QED
      BY <1>0, <3>1, <3>2, SlotsStay
  <2>3. QED
    BY <2>1, <2>2
<1>2. ASSUME NEW r \in Requests, AskMulti(r)
      PROVE  SlotsSound(t)'
  <2>1. slots'[t] = slots[t] /\ SlotTakers(t)' = SlotTakers(t)
    BY <1>0, <1>2 DEF AskMulti
  <2>2. SlotWaiters(t) \ {r} \subseteq SlotWaiters(t)'
    BY <1>0, <1>2 DEF AskMulti
  <2>3. r \notin Elements(slots[t].queue)
    BY <1>0, <1>2 DEF AskMulti, Waiting
  <2>4. QED
    BY <1>0, <2>1, <2>2, <2>3, SlotsStay
<1>3. ASSUME NEW r \in Requests, phase[r] = "Multi", UNCHANGED <<slots, tier>>,
             phase' = [phase EXCEPT ![r] = "Inside"] \/ phase' = [phase EXCEPT ![r] = "Backing"]
      PROVE  SlotsSound(t)'
  <2>1. slots'[t] = slots[t] /\ SlotTakers(t)' = SlotTakers(t)
    BY <1>0, <1>3
  <2>2. SlotWaiters(t) \subseteq SlotWaiters(t)'
    BY <1>0, <1>3
  <2>3. QED
    BY <1>0, <2>1, <2>2, SlotsStay
<1>4. ASSUME NEW r \in Requests, phase[r] = "Slots", Reset(r),
             slots' = [slots EXCEPT ![tier[r]] = Quit(@, r)]
      PROVE  SlotsSound(t)'
  <2>1. CASE t = tier[r]
    <3>1. slots'[t] = Quit(slots[t], r) /\ SlotTakers(t)' = SlotTakers(t) \ {r}
      BY <1>0, <1>4, <2>1 DEF Reset
    <3>2. r \in SlotTakers(t)
      BY <1>4, <2>1
    <3>3. SlotWaiters(t) \ {r} \subseteq SlotWaiters(t)'
      BY <1>0, <1>4 DEF Reset
    <3>4. /\ SoundFor(Quit(slots[t], r), SlotTakers(t) \ {r}, Slots[t])
          /\ Elements(Quit(slots[t], r).queue) \subseteq Elements(slots[t].queue) \ {r}
      BY <1>0, <3>2, QuitSound
    <3>5. Elements(Quit(slots[t], r).queue) \subseteq SlotWaiters(t)'
      BY <1>0, <3>3, <3>4
    <3> HIDE DEF SlotTakers, SlotWaiters
    <3>6. QED
      BY <3>1, <3>4, <3>5, SlotsMake
  <2>2. CASE t # tier[r]
    <3>1. slots'[t] = slots[t] /\ SlotTakers(t)' = SlotTakers(t)
      BY <1>0, <1>4, <2>2 DEF Reset
    <3>2. SlotWaiters(t) \subseteq SlotWaiters(t)'
      BY <1>0, <1>4, <2>2 DEF Reset
    <3>3. QED
      BY <1>0, <3>1, <3>2, SlotsStay
  <2>3. QED
    BY <2>1, <2>2
<1>5. ASSUME NEW r \in Requests, phase[r] \in {"Inside", "Backing"},
             slots' = [slots EXCEPT ![tier[r]] = Give(@)],
             \/ phase' = [phase EXCEPT ![r] = "Leaving"] /\ UNCHANGED tier
             \/ Reset(r)
      PROVE  SlotsSound(t)'
  <2>1. CASE t = tier[r]
    <3>1. slots'[t] = Give(slots[t])
      BY <1>0, <1>5, <2>1
    <3>2. SlotTakers(t)' = SlotTakers(t) \ {r}
      BY <1>0, <1>5, <2>1 DEF Reset
    <3>3. r \in SlotTakers(t) /\ r \notin Elements(slots[t].queue)
      BY <1>0, <1>5, <2>1
    <3>4. SlotWaiters(t) \subseteq SlotWaiters(t)'
      BY <1>0, <1>5 DEF Reset
    <3>5. /\ SoundFor(Give(slots[t]), SlotTakers(t) \ {r}, Slots[t])
          /\ Elements(Give(slots[t]).queue) \subseteq Elements(slots[t].queue)
      BY <1>0, <3>3, GiveSound
    <3>6. Elements(Give(slots[t]).queue) \subseteq SlotWaiters(t)'
      BY <1>0, <3>4, <3>5
    <3> HIDE DEF SlotTakers, SlotWaiters
    <3>7. QED
      BY <3>1, <3>2, <3>5, <3>6, SlotsMake
  <2>2. CASE t # tier[r]
    <3>1. slots'[t] = slots[t] /\ SlotTakers(t)' = SlotTakers(t)
      BY <1>0, <1>5, <2>2 DEF Reset
    <3>2. SlotWaiters(t) \subseteq SlotWaiters(t)'
      BY <1>0, <1>5, <2>2 DEF Reset
    <3>3. QED
      BY <1>0, <3>1, <3>2, SlotsStay
  <2>3. QED
    BY <2>1, <2>2
<1>6. ASSUME NEW r \in Requests, phase[r] = "Leaving", Reset(r), UNCHANGED slots
      PROVE  SlotsSound(t)'
  <2>1. slots'[t] = slots[t] /\ SlotTakers(t)' = SlotTakers(t)
    BY <1>0, <1>6 DEF Reset
  <2>2. SlotWaiters(t) \subseteq SlotWaiters(t)'
    BY <1>0, <1>6 DEF Reset
  <2>3. QED
    BY <1>0, <2>1, <2>2, SlotsStay
<1>7. CASE UNCHANGED <<slots, tier, phase>>
  <2>1. slots'[t] = slots[t] /\ SlotTakers(t)' = SlotTakers(t) /\ SlotWaiters(t)' = SlotWaiters(t)
    BY <1>7
  <2>2. QED
    BY <1>0, <2>1, SlotsStay
<1>8. QED
  BY <1>1, <1>2, <1>3, <1>4, <1>5, <1>6, <1>7
     DEF Next, GetGuard, Busy, Abandon, GiveUp, DropGuard, FinishDrop, Tick, vars

(* Every action keeps the multi semaphore of every tier sound.             *)
LEMMA MultiStep ==
  ASSUME TypeOK, NEW t \in Tiers, MultiSound(t), [Next]_vars
  PROVE  MultiSound(t)'
<1> USE DEF MultiTakers, MultiWaiters
<1>0. /\ phase \in [Requests -> Phase] /\ tier \in [Requests -> Tiers \cup {NoTier}]
      /\ multi \in [Tiers -> Semaphore]
      /\ \A r \in Requests : phase[r] # "Idle" => tier[r] \in Tiers
      /\ Elements(multi[t].queue) \subseteq MultiWaiters(t)
      /\ Queued(multi[t]) = Elements(multi[t].queue)
      /\ SoundFor(multi[t], MultiTakers(t), Multi[t])
  BY DEF TypeOK, MultiSound, Queued, Elements
<1>1. ASSUME NEW r \in Requests, AskMulti(r)
      PROVE  MultiSound(t)'
  <2>1. CASE t = tier[r]
    <3>1. multi'[t] = Ask(multi[t], r) /\ MultiTakers(t)' = MultiTakers(t) \cup {r}
      BY <1>0, <1>1, <2>1 DEF AskMulti
    <3>2. r \notin MultiTakers(t)
      BY <1>1 DEF AskMulti
    <3>3. MultiWaiters(t) \cup {r} \subseteq MultiWaiters(t)'
      BY <1>0, <1>1, <2>1 DEF AskMulti
    <3>4. /\ SoundFor(Ask(multi[t], r), MultiTakers(t) \cup {r}, Multi[t])
          /\ Elements(Ask(multi[t], r).queue) \subseteq Elements(multi[t].queue) \cup {r}
      BY <1>0, <3>2, AskSound
    <3>5. Elements(Ask(multi[t], r).queue) \subseteq MultiWaiters(t)'
      BY <1>0, <3>3, <3>4
    <3> HIDE DEF MultiTakers, MultiWaiters
    <3>6. QED
      BY <3>1, <3>4, <3>5, MultiMake
  <2>2. CASE t # tier[r]
    <3>1. multi'[t] = multi[t] /\ MultiTakers(t)' = MultiTakers(t)
      BY <1>0, <1>1, <2>2 DEF AskMulti
    <3>2. MultiWaiters(t) \subseteq MultiWaiters(t)'
      BY <1>0, <1>1 DEF AskMulti
    <3>3. QED
      BY <1>0, <3>1, <3>2, MultiStay
  <2>3. QED
    BY <2>1, <2>2
<1>2. ASSUME NEW r \in Requests, GetGuard(r)
      PROVE  MultiSound(t)'
  <2>1. multi'[t] = multi[t] /\ MultiTakers(t)' = MultiTakers(t)
    BY <1>0, <1>2 DEF GetGuard
  <2>2. MultiWaiters(t) \ {r} \subseteq MultiWaiters(t)'
    BY <1>0, <1>2 DEF GetGuard
  <2>3. r \notin Elements(multi[t].queue)
    BY <1>0, <1>2 DEF GetGuard, Waiting
  <2>4. QED
    BY <1>0, <2>1, <2>2, <2>3, MultiStay
<1>3. ASSUME NEW r \in Requests, phase[r] = "Multi",
             phase' = [phase EXCEPT ![r] = "Backing"], UNCHANGED tier,
             multi' = [multi EXCEPT ![tier[r]] = Quit(@, r)]
      PROVE  MultiSound(t)'
  <2>1. CASE t = tier[r]
    <3>1. multi'[t] = Quit(multi[t], r) /\ MultiTakers(t)' = MultiTakers(t) \ {r}
      BY <1>0, <1>3, <2>1
    <3>2. r \in MultiTakers(t)
      BY <1>3, <2>1
    <3>3. MultiWaiters(t) \ {r} \subseteq MultiWaiters(t)'
      BY <1>0, <1>3
    <3>4. /\ SoundFor(Quit(multi[t], r), MultiTakers(t) \ {r}, Multi[t])
          /\ Elements(Quit(multi[t], r).queue) \subseteq Elements(multi[t].queue) \ {r}
      BY <1>0, <3>2, QuitSound
    <3>5. Elements(Quit(multi[t], r).queue) \subseteq MultiWaiters(t)'
      BY <1>0, <3>3, <3>4
    <3> HIDE DEF MultiTakers, MultiWaiters
    <3>6. QED
      BY <3>1, <3>4, <3>5, MultiMake
  <2>2. CASE t # tier[r]
    <3>1. multi'[t] = multi[t] /\ MultiTakers(t)' = MultiTakers(t)
      BY <1>0, <1>3, <2>2
    <3>2. MultiWaiters(t) \subseteq MultiWaiters(t)'
      BY <1>0, <1>3, <2>2
    <3>3. QED
      BY <1>0, <3>1, <3>2, MultiStay
  <2>3. QED
    BY <2>1, <2>2
<1>4. ASSUME NEW r \in Requests, phase[r] = "Leaving", Reset(r),
             multi' = [multi EXCEPT ![tier[r]] = Give(@)]
      PROVE  MultiSound(t)'
  <2>1. CASE t = tier[r]
    <3>1. multi'[t] = Give(multi[t]) /\ MultiTakers(t)' = MultiTakers(t) \ {r}
      BY <1>0, <1>4, <2>1 DEF Reset
    <3>2. r \in MultiTakers(t) /\ r \notin Elements(multi[t].queue)
      BY <1>0, <1>4, <2>1
    <3>3. MultiWaiters(t) \subseteq MultiWaiters(t)'
      BY <1>0, <1>4 DEF Reset
    <3>4. /\ SoundFor(Give(multi[t]), MultiTakers(t) \ {r}, Multi[t])
          /\ Elements(Give(multi[t]).queue) \subseteq Elements(multi[t].queue)
      BY <1>0, <3>2, GiveSound
    <3>5. Elements(Give(multi[t]).queue) \subseteq MultiWaiters(t)'
      BY <1>0, <3>3, <3>4
    <3> HIDE DEF MultiTakers, MultiWaiters
    <3>6. QED
      BY <3>1, <3>4, <3>5, MultiMake
  <2>2. CASE t # tier[r]
    <3>1. multi'[t] = multi[t] /\ MultiTakers(t)' = MultiTakers(t)
      BY <1>0, <1>4, <2>2 DEF Reset
    <3>2. MultiWaiters(t) \subseteq MultiWaiters(t)'
      BY <1>0, <1>4 DEF Reset
    <3>3. QED
      BY <1>0, <3>1, <3>2, MultiStay
  <2>3. QED
    BY <2>1, <2>2
<1>5. ASSUME NEW r \in Requests, UNCHANGED multi,
             \/ /\ phase[r] = "Idle"
                /\ phase' = [phase EXCEPT ![r] = "Slots"]
                /\ \E u \in Tiers : tier' = [tier EXCEPT ![r] = u]
             \/ phase[r] \in {"Slots", "Backing"} /\ Reset(r)
             \/ /\ phase[r] = "Inside"
                /\ phase' = [phase EXCEPT ![r] = "Leaving"] /\ UNCHANGED tier
      PROVE  MultiSound(t)'
  <2>1. multi'[t] = multi[t] /\ MultiTakers(t)' = MultiTakers(t)
    BY <1>0, <1>5 DEF Reset
  <2>2. MultiWaiters(t) \subseteq MultiWaiters(t)'
    BY <1>0, <1>5 DEF Reset
  <2>3. QED
    BY <1>0, <2>1, <2>2, MultiStay
<1>6. CASE UNCHANGED <<multi, tier, phase>>
  <2>1. multi'[t] = multi[t] /\ MultiTakers(t)' = MultiTakers(t) /\ MultiWaiters(t)' = MultiWaiters(t)
    BY <1>6
  <2>2. QED
    BY <1>0, <2>1, MultiStay
<1>7. QED
  BY <1>1, <1>2, <1>3, <1>4, <1>5, <1>6
     DEF Next, AskSlots, Busy, Abandon, GiveUp, DropGuard, FinishDrop, Tick, vars

(* Types and the bound on the waits.                                       *)
LEMMA TypeStep ==
  ASSUME IInv, \A t \in Tiers : SlotsSound(t)' /\ MultiSound(t)', [Next]_vars
  PROVE  TypeOK' /\ WaitBounded'
<1>0. /\ TypeOK /\ WaitBounded
      /\ Patience \in Nat
      /\ \A r \in Requests : left[r] \in 0..Patience /\ waited[r] \in 0..2*Patience
  BY DEF IInv, TypeOK
<1>1. /\ slots' \in [Tiers -> Semaphore] /\ multi' \in [Tiers -> Semaphore]
  <2>1. \A t \in Tiers : slots'[t] \in Semaphore /\ multi'[t] \in Semaphore
    BY DEF SlotsSound, MultiSound, SoundFor
  <2>2. slots' = [t \in Tiers |-> slots'[t]] /\ multi' = [t \in Tiers |-> multi'[t]]
    BY <1>0 DEF TypeOK, Next, AskSlots, AskMulti, GetGuard, Busy, Abandon, GiveUp,
                DropGuard, FinishDrop, Tick, vars
  <2>3. QED
    BY <2>1, <2>2
<1>2. /\ tier' \in [Requests -> Tiers \cup {NoTier}] /\ phase' \in [Requests -> Phase]
      /\ \A r \in Requests : tier'[r] = NoTier <=> phase'[r] = "Idle"
  BY <1>0 DEF TypeOK, Phase, Next, AskSlots, AskMulti, GetGuard, Busy, Abandon, GiveUp,
              DropGuard, FinishDrop, Reset, Tick, vars
<1>3. /\ left' \in [Requests -> 0..Patience] /\ waited' \in [Requests -> 0..2*Patience]
      /\ WaitBounded'
  <2> DEFINE Timed == /\ left' \in [Requests -> 0..Patience]
                      /\ waited' \in [Requests -> 0..2*Patience]
                      /\ WaitBounded'
  <2>1. ASSUME NEW r \in Requests, NEW t \in Tiers, AskSlots(r, t) PROVE Timed
    BY <1>0, <2>1 DEF TypeOK, Phase, AskSlots, WaitBounded
  <2>2. ASSUME NEW r \in Requests, AskMulti(r) PROVE Timed
    BY <1>0, <2>2 DEF TypeOK, Phase, AskMulti, WaitBounded
  <2>3. ASSUME NEW r \in Requests, UNCHANGED <<left, waited>>,
               \E p \in {"Inside", "Leaving", "Backing"} : phase' = [phase EXCEPT ![r] = p]
        PROVE  Timed
    BY <1>0, <2>3 DEF TypeOK, WaitBounded
  <2>4. ASSUME NEW r \in Requests, Reset(r) PROVE Timed
    BY <1>0, <2>4 DEF TypeOK, Reset, WaitBounded
  <2>5. CASE Tick
    <3>1. ASSUME NEW r \in Requests
          PROVE  \/ left'[r] = left[r] /\ waited'[r] = waited[r]
                 \/ /\ left[r] > 0 /\ left'[r] = left[r] - 1
                    /\ waited'[r] = waited[r] + 1
                    /\ phase[r] \in {"Slots", "Multi"}
      BY <1>0, <2>5 DEF Tick, Waiting
    <3>2. ASSUME NEW r \in Requests
          PROVE  /\ left'[r] \in 0..Patience /\ waited'[r] \in 0..2*Patience
                 /\ phase[r] = "Slots" => waited'[r] + left'[r] <= Patience
                 /\ phase[r] = "Multi" => waited'[r] + left'[r] <= 2*Patience
      BY <1>0, <3>1 DEF WaitBounded
    <3>3. /\ left' = [r \in Requests |-> left'[r]]
          /\ waited' = [r \in Requests |-> waited'[r]]
          /\ phase' = phase
      BY <2>5 DEF Tick
    <3>4. QED
      BY <3>2, <3>3 DEF WaitBounded
  <2>6. CASE UNCHANGED vars
    BY <1>0, <2>6 DEF TypeOK, WaitBounded, vars
  <2>7. QED
    BY <2>1, <2>2, <2>3, <2>4, <2>5, <2>6
       DEF Next, GetGuard, Busy, Abandon, GiveUp, DropGuard, FinishDrop
<1>4. QED
  BY <1>1, <1>2, <1>3 DEF TypeOK

(* The invariant holds in every reachable state. *)
THEOREM SemaphoreInvariant == Spec => []IInv
<1>1. Init => IInv
  BY InitSound, EmptySeq DEF Init, IInv, TypeOK, Semaphore, Phase, WaitBounded
<1>2. IInv /\ [Next]_vars => IInv'
  BY SlotsStep, MultiStep, TypeStep DEF IInv
<1>3. QED
  BY <1>1, <1>2, PTL DEF Spec

(* The limiter is well-typed, and no acquire waits longer than two         *)
(* time-outs.                                                              *)
THEOREM SemaphoreTypeCorrect == Spec => []TypeOK
BY SemaphoreInvariant, PTL DEF IInv

(* No permit is lost or made, however a request ends, and no request waits *)
(* while a permit is free.                                                 *)
THEOREM PermitsAreConserved == Spec => []PermitsConserved
<1>1. IInv => PermitsConserved
  BY DEF IInv, SlotsSound, MultiSound, SoundFor, PermitsConserved, SlotHolders,
         MultiHolders, Queued, Elements
<1>2. QED
  BY <1>1, SemaphoreInvariant, PTL

-----------------------------------------------------------------------------
(* A request that has its slot waits for the other permit only while a     *)
(* leaving request is about to give one back: were nobody leaving, every   *)
(* multi holder and the waiter itself would hold slots, one too many.      *)
THEOREM SlotIsEntry == Spec => []SlotMeansEntry
<1>1. ASSUME IInv, NEW r \in Requests, phase[r] = "Multi", Waiting(r),
             Slots[tier[r]] <= Multi[tier[r]],
             \A s \in Requests : ~(tier[s] = tier[r] /\ phase[s] = "Leaving")
      PROVE  FALSE
  <2> DEFINE t == tier[r]
             S == SlotTakers(t) \ Elements(slots[t].queue)
             M == MultiTakers(t) \ Elements(multi[t].queue)
  <2>1. t \in Tiers /\ SlotsSound(t) /\ MultiSound(t)
    BY <1>1 DEF IInv, TypeOK
  <2>2. r \in Elements(multi[t].queue)
    BY <1>1 DEF Waiting, Queued, Elements
  <2>3. M \cup {r} \subseteq S
    BY <1>1, <2>1 DEF SlotsSound, MultiSound, SlotTakers, MultiTakers, SlotWaiters
  <2>4. /\ IsFiniteSet(M) /\ Cardinality(M) \in Nat
        /\ IsFiniteSet(S) /\ Cardinality(S) \in Nat
    BY <2>1, HoldersFinite DEF SlotsSound, MultiSound, SoundFor
  <2>5. r \notin M
    BY <2>2
  <2>6. multi[t].free = 0
    <3>1. multi[t].free \in Nat /\ (multi[t].free > 0 => multi[t].queue = <<>>)
      BY <2>1 DEF MultiSound, SoundFor, Semaphore
    <3>2. multi[t].queue # <<>>
      BY <2>2, EmptySeq DEF Elements
    <3>3. QED
      BY <3>1, <3>2
  <2>7. multi[t].free + Cardinality(M) = Multi[t] /\ slots[t].free + Cardinality(S) = Slots[t]
    BY <2>1 DEF SlotsSound, MultiSound, SoundFor
  <2>8. slots[t].free \in Nat
    BY <2>1 DEF SlotsSound, SoundFor, Semaphore
  <2>9. Slots[t] \in Nat /\ Multi[t] \in Nat /\ Slots[t] <= Multi[t]
    BY <1>1, <2>1
  <2> HIDE DEF M, S, t
  <2>10. Cardinality(M \cup {r}) = Cardinality(M) + 1
    BY <2>4, <2>5, FS_AddElement
  <2>11. Cardinality(M \cup {r}) <= Cardinality(S)
    BY <2>3, <2>4, FS_Subset
  <2>12. QED
    BY <2>4, <2>6, <2>7, <2>8, <2>9, <2>10, <2>11
<1>2. IInv => SlotMeansEntry
  BY <1>1 DEF SlotMeansEntry
<1>3. QED
  BY <1>2, SemaphoreInvariant, PTL

(* The two time-outs do not add up where the slots are the scarcer of the  *)
(* two: the clock does not move while a request waits for its second       *)
(* permit, because somebody is leaving then and leaving takes no time.     *)
THEOREM BusyComesInTime == Spec => []BusyInTime
<1>1. Init => BusyInTime
  BY DEF Init, BusyInTime
<1>2. ASSUME IInv, SlotMeansEntry, BusyInTime, [Next]_vars PROVE BusyInTime'
  <2>0. /\ TypeOK /\ WaitBounded /\ Patience \in Nat
        /\ \A r \in Requests : left[r] \in 0..Patience /\ waited[r] \in 0..2*Patience
    BY <1>2 DEF IInv, TypeOK
  <2>1. CASE Tick
    <3>1. ASSUME NEW r \in Requests, tier[r] # NoTier, Slots[tier[r]] <= Multi[tier[r]]
          PROVE  waited'[r] <= Patience
      <4>1. CASE Waiting(r)
        <5>1. phase[r] = "Slots"
          BY <1>2, <2>1, <3>1, <4>1 DEF Waiting, SlotMeansEntry, Tick
        <5>2. waited'[r] = waited[r] + 1 /\ left[r] > 0 /\ waited[r] + left[r] <= Patience
          BY <2>0, <2>1, <4>1, <5>1 DEF Tick, WaitBounded
        <5> QED
          BY <2>0, <5>2
      <4>2. CASE ~Waiting(r)
        BY <1>2, <2>1, <3>1, <4>2 DEF Tick, BusyInTime
      <4> QED
        BY <4>1, <4>2
    <3> QED
      BY <2>1, <3>1 DEF Tick, BusyInTime
  <2>2. ASSUME NEW r \in Requests, NEW t \in Tiers, AskSlots(r, t) PROVE BusyInTime'
    BY <1>2, <2>0, <2>2 DEF AskSlots, BusyInTime, TypeOK
  <2>3. CASE UNCHANGED <<waited, tier>>
    BY <1>2, <2>3 DEF BusyInTime
  <2>4. ASSUME NEW r \in Requests, Reset(r) PROVE BusyInTime'
    BY <1>2, <2>0, <2>4 DEF Reset, BusyInTime, TypeOK
  <2> QED
    BY <1>2, <2>1, <2>2, <2>3, <2>4
       DEF Next, AskMulti, GetGuard, Busy, Abandon, GiveUp, DropGuard, FinishDrop, vars
<1>3. IInv /\ SlotMeansEntry /\ BusyInTime /\ [Next]_vars => BusyInTime'
  BY <1>2
<1> QED
  BY <1>1, <1>3, SemaphoreInvariant, SlotIsEntry, PTL DEF Spec

-----------------------------------------------------------------------------
(* The guards of a tier, as ConcurrencyGate sees them. *)
Guarded(t) == {r \in Requests : tier[r] = t /\ phase[r] = "Inside"}

Limits == [t \in Tiers |-> IF Slots[t] < Multi[t] THEN Slots[t] ELSE Multi[t]]
InsideOf == [r \in Requests |-> IF phase[r] = "Inside" THEN tier[r] ELSE NoTier]

(* A request that may have its guard finds fewer than the limit inside:    *)
(* each of those inside has a slot and a multi permit, and so has the      *)
(* request itself.                                                         *)
LEMMA RoomForGuard ==
  ASSUME IInv, NEW r \in Requests, phase[r] = "Multi", ~Waiting(r)
  PROVE  /\ Cardinality(Guarded(tier[r])) < Slots[tier[r]]
         /\ Cardinality(Guarded(tier[r])) < Multi[tier[r]]
<1> DEFINE t == tier[r]
           G == Guarded(t)
           S == SlotTakers(t) \ Elements(slots[t].queue)
           M == MultiTakers(t) \ Elements(multi[t].queue)
<1>1. t \in Tiers /\ SlotsSound(t) /\ MultiSound(t)
  BY DEF IInv, TypeOK
<1>2. r \notin Elements(multi[t].queue)
  BY DEF Waiting, Queued, Elements
<1>3. G \cup {r} \subseteq S /\ G \cup {r} \subseteq M /\ r \notin G
  BY <1>1, <1>2 DEF SlotsSound, MultiSound, SlotTakers, MultiTakers, SlotWaiters,
                    MultiWaiters, Guarded
<1>4. /\ IsFiniteSet(M) /\ Cardinality(M) \in Nat
      /\ IsFiniteSet(S) /\ Cardinality(S) \in Nat
  BY <1>1, HoldersFinite DEF SlotsSound, MultiSound, SoundFor
<1>5. IsFiniteSet(G) /\ Cardinality(G) \in Nat
  BY FS_Subset, FS_CardinalityType DEF Guarded
<1>6. multi[t].free + Cardinality(M) = Multi[t] /\ slots[t].free + Cardinality(S) = Slots[t]
  BY <1>1 DEF SlotsSound, MultiSound, SoundFor
<1>7. slots[t].free \in Nat /\ multi[t].free \in Nat
  BY <1>1 DEF SlotsSound, MultiSound, SoundFor, Semaphore
<1> HIDE DEF M, S, G, t
<1>8. Cardinality(G \cup {r}) = Cardinality(G) + 1
  BY <1>3, <1>5, FS_AddElement
<1>9. Cardinality(G \cup {r}) <= Cardinality(S) /\ Cardinality(G \cup {r}) <= Cardinality(M)
  BY <1>3, <1>4, FS_Subset
<1>10. Cardinality(G) < Slots[t] /\ Cardinality(G) < Multi[t]
  BY <1>4, <1>5, <1>6, <1>7, <1>8, <1>9
<1>11. QED
  BY <1>10 DEF G, t

(* The limiter implements ConcurrencyGate: at no time are more requests of *)
(* a tier inside than the scarcer of its two capacities.                   *)
THEOREM SemaphoreImplementsGate == Spec => GateSpec
<1>1. Init => Gate!Init
  BY DEF Init, Gate!Init
<1>2. ASSUME IInv, [Next]_vars PROVE [Gate!Next]_InsideOf
  <2>0. phase \in [Requests -> Phase] /\ tier \in [Requests -> Tiers \cup {NoTier}]
    BY <1>2 DEF IInv, TypeOK
  <2>1. ASSUME NEW r \in Requests, GetGuard(r) PROVE Gate!Next
    <3>1. PICK t \in Tiers : t = tier[r]
      BY <1>2, <2>1 DEF IInv, TypeOK, GetGuard
    <3>2. Cardinality(Guarded(t)) < Limits[t]
      BY <1>2, <2>1, <3>1, RoomForGuard DEF GetGuard, Limits
    <3>3. Gate!Inside(t) = Guarded(t)
      BY <3>1 DEF Gate!Inside, Guarded
    <3>4. InsideOf[r] = NoTier
      BY <2>1 DEF InsideOf, GetGuard
    <3>5. InsideOf' = [InsideOf EXCEPT ![r] = t]
      BY <2>0, <2>1, <3>1 DEF InsideOf, GetGuard
    <3>6. Gate!Cardinality(Gate!Inside(t)) = Cardinality(Gate!Inside(t))
      BY DEF Gate!Cardinality, Cardinality
    <3>7. Gate!Cardinality(Gate!Inside(t)) < Limits[t]
      BY <3>2, <3>3, <3>6
    <3>8. Gate!Enter(r, t)
      BY <3>4, <3>5, <3>7 DEF Gate!Enter, InsideOf, Limits
    <3>9. QED
      BY <3>1, <3>8 DEF Gate!Next
  <2>2. ASSUME NEW r \in Requests, DropGuard(r) PROVE Gate!Next
    <3>1. InsideOf[r] # NoTier
      BY <1>2, <2>2 DEF InsideOf, DropGuard, IInv, TypeOK
    <3>2. InsideOf' = [InsideOf EXCEPT ![r] = NoTier]
      BY <2>0, <2>2 DEF InsideOf, DropGuard
    <3>3. QED
      BY <3>1, <3>2 DEF Gate!Leave, Gate!Next, InsideOf
  <2>3. ASSUME NEW r \in Requests, phase[r] # "Inside",
               \A q \in Requests \ {r} : phase'[q] = phase[q] /\ tier'[q] = tier[q],
               phase'[r] # "Inside"
        PROVE  InsideOf' = InsideOf
    BY <2>3 DEF InsideOf
  <2>4. ASSUME NEW r \in Requests,
                \/ \E t \in Tiers : AskSlots(r, t)
                \/ AskMulti(r) \/ GiveUp(r) \/ FinishDrop(r)
         PROVE  InsideOf' = InsideOf
    BY <2>0, <2>4, <2>3 DEF AskSlots, AskMulti, GiveUp, FinishDrop, Reset
  <2>5. CASE UNCHANGED <<phase, tier>>
    BY <2>5 DEF InsideOf
  <2>6. QED
    BY <1>2, <2>1, <2>2, <2>4, <2>5 DEF Next, Busy, Abandon, Tick, vars
<1>3. IInv /\ [Next]_vars => [Gate!Next]_InsideOf
  BY <1>2
<1>4. QED
  BY <1>1, <1>3, SemaphoreInvariant, PTL DEF Spec, GateSpec, Gate!Spec, InsideOf
=============================================================================
