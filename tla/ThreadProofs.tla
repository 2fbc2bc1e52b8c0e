----------------------------- MODULE ThreadProofs -----------------------------
(***************************************************************************)
(* Theorems about the threads of the web bridge: about the list and its    *)
(* sweeps (ThreadSweep), and about the table that binds credentials to     *)
(* threads and its file (WebThreads).                                      *)
(***************************************************************************)
EXTENDS ThreadSweep, WebThreads, FiniteSetTheorems, TLAPS

-----------------------------------------------------------------------------
(***************************************************************************)
(* ThreadSweep: no thread is forgotten, and what could not be deleted      *)
(* stays in the list, for any number of threads and sweeps.                *)
(***************************************************************************)
(* What a sweep found deleted is gone upstream, and what it has still to    *)
(* delete or failed to delete is in the list it read at the start.          *)
DeletedAreGone == \A s \in Sweepers : deleted[s] \cap live = {}

SeenWhenListed ==
  \A s \in Sweepers : \A t \in todo[s] \cup failed[s] : seen[s][t] # Unlisted

IdleHasNothing ==
  \A s \in Sweepers : pc[s] = "Idle" => todo[s] = {} /\ deleted[s] = {} /\ failed[s] = {}

(* Only threads the upstream had are listed or deleted: ids are not reused. *)
OnlyBorn ==
  /\ Listed \subseteq born
  /\ \A s \in Sweepers : todo[s] \cup deleted[s] \cup failed[s] \subseteq born

IInv ==
  /\ TypeOK /\ NoneForgotten
  /\ DeletedAreGone /\ SeenWhenListed /\ IdleHasNothing /\ OnlyBorn
  /\ todo \in [Sweepers -> SUBSET Threads]
  /\ deleted \in [Sweepers -> SUBSET Threads]
  /\ failed \in [Sweepers -> SUBSET Threads]

(* The invariant holds at the start. *)
LEMMA InitIInv == Init => IInv
BY SweepAssumption DEF Init, IInv, TypeOK, NoneForgotten, DeletedAreGone, SeenWhenListed,
     IdleHasNothing, OnlyBorn, Lists, Empty, Listed, Unlisted

(* Turns leave sweeps alone and only add to the list. *)
LEMMA TurnIInv ==
  ASSUME IInv, NEW t \in Threads,
         OpenThread(t) \/ ContinueThread(t) \/ RecordThread(t)
  PROVE  IInv'
<1>1. CASE OpenThread(t)
  <2>1. TypeOK'
    BY <1>1, SweepAssumption DEF IInv, TypeOK, OpenThread, file, sweep
  <2>2. NoneForgotten'
    BY <1>1 DEF IInv, TypeOK, NoneForgotten, OpenThread, file, sweep, Listed
  <2>3. DeletedAreGone'
    BY <1>1 DEF IInv, TypeOK, DeletedAreGone, OnlyBorn, OpenThread, file, sweep
  <2>4. OnlyBorn'
    BY <1>1 DEF IInv, OnlyBorn, Listed, OpenThread, file, sweep
  <2> QED
    BY <1>1, <2>1, <2>2, <2>3, <2>4
    DEF IInv, SeenWhenListed, IdleHasNothing, OpenThread, file, sweep
<1>2. CASE ContinueThread(t)
  BY <1>2, SweepAssumption
  DEF IInv, TypeOK, NoneForgotten, DeletedAreGone, SeenWhenListed, IdleHasNothing, OnlyBorn,
      ContinueThread, file, sweep, Listed
<1>3. CASE RecordThread(t)
  <2>1. created' \in Lists /\ \A u \in Threads : u = t \/ created'[u] = created[u]
    BY <1>3 DEF IInv, TypeOK, RecordThread, Lists
  <2>2. created'[t] # Unlisted
    BY <1>3, SweepAssumption DEF IInv, TypeOK, RecordThread, Lists, Listed, Unlisted
  <2>3. TypeOK'
    BY <1>3, <2>1 DEF IInv, TypeOK, RecordThread, sweep
  <2>4. NoneForgotten'
    BY <1>3, <2>1, <2>2 DEF IInv, NoneForgotten, TypeOK, RecordThread, sweep, Listed
  <2>5. OnlyBorn'
    BY <1>3, <2>1 DEF IInv, OnlyBorn, TypeOK, Listed, RecordThread, sweep
  <2> QED
    BY <1>3, <2>3, <2>4, <2>5
    DEF IInv, DeletedAreGone, SeenWhenListed, IdleHasNothing, RecordThread, sweep
<1> QED BY <1>1, <1>2, <1>3

(* A sweep keeps the list and its own notes in order. *)
LEMMA SweepIInv ==
  ASSUME IInv, NEW s \in Sweepers, Sweep(s)
  PROVE  IInv'
<1>1. CASE Begin(s)
  <2>1. Expired(s) \subseteq Threads /\ \A t \in Expired(s) : created[t] # Unlisted
    BY DEF Expired, Listed
  <2>2. TypeOK'
    BY <1>1, <2>1 DEF IInv, TypeOK, IdleHasNothing, Begin, file
  <2>3. SeenWhenListed'
    BY <1>1, <2>1 DEF IInv, TypeOK, SeenWhenListed, IdleHasNothing, Begin, file
  <2>4. OnlyBorn'
    BY <1>1, <2>1 DEF IInv, TypeOK, OnlyBorn, Expired, Begin, file, Listed
  <2> QED
    BY <1>1, <2>1, <2>2, <2>3, <2>4
    DEF IInv, TypeOK, NoneForgotten, DeletedAreGone, IdleHasNothing, Begin, file, Listed
<1>2. ASSUME NEW t \in Threads, DeleteFound(s, t)
      PROVE  IInv'
  <2>1. TypeOK'
    BY <1>2 DEF IInv, TypeOK, DeleteFound, file
  <2> QED
    BY <1>2, <2>1
    DEF IInv, TypeOK, NoneForgotten, DeletedAreGone, SeenWhenListed, IdleHasNothing, OnlyBorn,
        DeleteFound, file, Listed
<1>3. ASSUME NEW t \in Threads, DeleteFails(s, t)
      PROVE  IInv'
  <2>1. TypeOK'
    BY <1>3 DEF IInv, TypeOK, DeleteFails, file
  <2> QED
    BY <1>3, <2>1
    DEF IInv, TypeOK, NoneForgotten, DeletedAreGone, SeenWhenListed, IdleHasNothing, OnlyBorn,
        DeleteFails, file, Listed
<1>4. CASE Merge(s)
  <2>1. created' \in Lists
    BY <1>4 DEF IInv, TypeOK, Merge, Lists, Unlisted
  <2>2. ASSUME NEW t \in Listed, t \notin deleted[s]
        PROVE  t \in Listed'
    BY <1>4, <2>2 DEF IInv, TypeOK, Merge, Lists, Listed
  <2>3. NoneForgotten'
    BY <1>4, <2>2 DEF IInv, NoneForgotten, DeletedAreGone, Merge
  <2>4. TypeOK'
    BY <1>4, <2>1 DEF IInv, TypeOK, Merge, Lists, Empty, Unlisted
  <2>5. OnlyBorn'
    BY <1>4 DEF IInv, TypeOK, OnlyBorn, Merge, Listed
  <2> QED
    BY <1>4, <2>3, <2>4, <2>5
    DEF IInv, TypeOK, DeletedAreGone, SeenWhenListed, IdleHasNothing, Merge
<1> QED BY <1>1, <1>2, <1>3, <1>4 DEF Sweep

(* Every step keeps the invariant. *)
LEMMA NextIInv == IInv /\ [Next]_vars => IInv'
<1> SUFFICES ASSUME IInv, [Next]_vars PROVE IInv'
  OBVIOUS
<1>1. CASE Crash
  BY <1>1, SweepAssumption
  DEF IInv, TypeOK, NoneForgotten, DeletedAreGone, SeenWhenListed, IdleHasNothing, OnlyBorn,
      Crash, file, Listed, Lists, Empty, Unlisted
<1>2. CASE Tick \/ SetBack
  BY <1>2, SweepAssumption
  DEF IInv, TypeOK, NoneForgotten, DeletedAreGone, SeenWhenListed, IdleHasNothing, OnlyBorn,
      Tick, SetBack, file, sweep, Listed
<1>3. CASE UNCHANGED vars
  BY <1>3
  DEF IInv, TypeOK, NoneForgotten, DeletedAreGone, SeenWhenListed, IdleHasNothing, OnlyBorn,
      vars, file, sweep, Listed
<1> QED BY <1>1, <1>2, <1>3, TurnIInv, SweepIInv DEF Next

(* The inductive invariant holds of every behaviour. *)
THEOREM SweepInvariant == Spec => []IInv
BY InitIInv, NextIInv, PTL DEF Spec

(* The state of the list, of the threads and of every sweep has its type,  *)
(* and the three sets of a sweep are apart.                                *)
THEOREM SweepTypeCorrect == Spec => []TypeOK
<1>1. IInv => TypeOK
  BY DEF IInv
<1> QED BY <1>1, SweepInvariant, PTL

(* record_thread and sweep_threads together forget no thread: one that was *)
(* recorded and lives upstream is in threads.json.                         *)
THEOREM NoThreadIsForgotten == Spec => []NoneForgotten
<1>1. IInv => NoneForgotten
  BY DEF IInv
<1> QED BY <1>1, SweepInvariant, PTL

(* What sweep_threads could not delete is in threads.json when it is done. *)
THEOREM FailedAreTriedAgain == Spec => FailedStaysListed
<1>1. ASSUME IInv, [Next]_vars, NEW s \in Sweepers,
             pc[s] = "Delete", pc'[s] = "Idle", crashes' = crashes
      PROVE  failed[s] \subseteq Listed'
  <2>1. PICK r \in Sweepers : Merge(r)
    BY <1>1, SweepAssumption
    DEF IInv, TypeOK, Next, Sweep, vars, sweep, OpenThread, ContinueThread, RecordThread,
        Begin, DeleteFound, DeleteFails, Crash, Tick, SetBack
  <2>2. r = s
    BY <1>1, <2>1 DEF IInv, TypeOK, Merge
  <2> QED
    BY <1>1, <2>1, <2>2 DEF IInv, TypeOK, SeenWhenListed, Merge, Listed
<1>2. IInv /\ [Next]_vars =>
        [\A s \in Sweepers : pc[s] = "Delete" /\ pc'[s] = "Idle" /\ crashes' = crashes
           => failed[s] \subseteq Listed']_vars
  BY <1>1
<1> QED BY <1>2, SweepInvariant, PTL DEF Spec, FailedStaysListed

-----------------------------------------------------------------------------
(***************************************************************************)
(* WebThreads, for any number of callers of bind and clear that may        *)
(* overlap.  Two of them write the same temporary file and can mix their   *)
(* copies in it; what is proved of the file is therefore what holds until  *)
(* calls overlap, and again from the first one that then runs alone.       *)
(***************************************************************************)

(* There is a file for a caller to open that nobody else has.              *)
LEMMA FreeFile ==
  ASSUME WTTypeOK
  PROVE  Files \ ({path} \cup {fd[v] : v \in Writers}) # {}
<1> DEFINE open == {fd[v] : v \in Writers}
           used == open \cup {path}
<1>1. fd \in Surjection(Writers, open)
  BY DEF WTTypeOK, Surjection
<1>2. IsFiniteSet(open) /\ Cardinality(open) <= Cardinality(Writers)
  BY <1>1, FS_Surjection, WebThreadsAssumption
<1> HIDE DEF open
<1>3. Cardinality(Writers) \in Nat /\ Cardinality(open) \in Nat /\ Cardinality(Files) \in Nat
  BY <1>2, FS_CardinalityType, WebThreadsAssumption
<1>4. IsFiniteSet(used) /\ Cardinality(used) <= Cardinality(open) + 1
  BY <1>2, <1>3, FS_AddElement
<1>5. ASSUME Files \subseteq used PROVE FALSE
  <2>1. Cardinality(Files) <= Cardinality(used) /\ Cardinality(used) \in Nat
    BY <1>4, <1>5, FS_Subset, FS_CardinalityType
  <2> QED BY <1>2, <1>3, <1>4, <2>1, WebThreadsAssumption
<1> QED BY <1>5 DEF open

(* A pruned table is a table.                                              *)
LEMMA PrunedType ==
  ASSUME now \in 0..MaxNow, NEW table \in Tables, NEW pruned \in Prune(table)
  PROVE  pruned \in Tables
<1>1. DropExpired(table) \in Tables
  BY DEF DropExpired, Tables
<1>2. \A kept : Keep(DropExpired(table), kept) \in Tables
  BY <1>1 DEF Keep, Tables
<1> QED BY <1>2 DEF Prune

(* Every step of a caller keeps the types.                                 *)
LEMMA CallerType ==
  ASSUME WTTypeOK, NEW w \in Writers,
         \/ \E c \in Creds : Bind(w, c) \/ Clear(w, c)
         \/ Open(w) \/ Fill(w) \/ Rename(w) \/ WriteFails(w)
  PROVE  WTTypeOK'
<1>0. NoFile \notin Files /\ NoBindings \in Tables
  BY WebThreadsAssumption DEF NoBindings, Tables
<1>1. ASSUME NEW table \in Tables, Save(w, table), at[w] = "Idle", UNCHANGED boot
      PROVE  WTTypeOK'
  BY <1>1 DEF WTTypeOK, Save
<1>2. ASSUME NEW c \in Creds, Bind(w, c)
      PROVE  WTTypeOK'
  <2>1. [cache EXCEPT ![c] = now] \in Tables
    BY DEF WTTypeOK, Tables
  <2> QED BY <1>1, <1>2, <2>1, PrunedType DEF Bind, WTTypeOK
<1>3. ASSUME NEW c \in Creds, Clear(w, c)
      PROVE  WTTypeOK'
  <2>1. [cache EXCEPT ![c] = Unbound] \in Tables
    BY DEF WTTypeOK, Tables
  <2> QED BY <1>1, <1>3, <2>1 DEF Clear
<1>4. CASE Open(w)
  <2>1. PICK f \in Files :
          /\ tmp' = f /\ fd' = [fd EXCEPT ![w] = f] /\ content' = [content EXCEPT ![f] = Torn]
    BY <1>4, FreeFile DEF Open, WTTypeOK
  <2>2. /\ at' = [at EXCEPT ![w] = "Fill"]
        /\ UNCHANGED <<now, cache, path, copy, result, overlap, boot>>
    BY <1>4 DEF Open
  <2>3. content' \in [Files -> Contents]
    BY <1>0, <2>1 DEF WTTypeOK, Torn, Contents
  <2>4. /\ at' \in [Writers -> {"Idle", "Open", "Fill", "Rename"}]
        /\ fd' \in [Writers -> Files \cup {NoFile}]
        /\ \A v \in Writers : at'[v] = "Fill" <=> fd'[v] # NoFile
    BY <1>0, <2>1, <2>2 DEF WTTypeOK
  <2> QED BY <2>1, <2>2, <2>3, <2>4 DEF WTTypeOK
<1>5. CASE Fill(w)
  <2>1. PICK all \in Contents : content' = [content EXCEPT ![fd[w]] = all]
    BY <1>0, <1>5 DEF Fill, WTTypeOK, Whole, Torn, Contents
  <2>2. content' \in [Files -> Contents]
    BY <2>1 DEF WTTypeOK
  <2>3. /\ at' \in [Writers -> {"Idle", "Open", "Fill", "Rename"}]
        /\ fd' \in [Writers -> Files \cup {NoFile}]
        /\ \A v \in Writers : at'[v] = "Fill" <=> fd'[v] # NoFile
    BY <1>0, <1>5 DEF Fill, WTTypeOK
  <2> QED BY <1>5, <2>2, <2>3 DEF Fill, WTTypeOK
<1>6. ASSUME NEW what \in {"Ok", "Err"}, Return(w, what)
      PROVE  /\ at' = [at EXCEPT ![w] = "Idle"]
             /\ at' \in [Writers -> {"Idle", "Open", "Fill", "Rename"}]
             /\ copy' \in [Writers -> Tables] /\ boot' \in BOOLEAN
             /\ result' \in {"None", "Ok", "Err"} /\ overlap' \in {"None", "Past", "Now"}
  BY <1>0, <1>6 DEF Return, WTTypeOK
<1>7. CASE Rename(w)
  <2>1. {tmp', path'} \subseteq Files \cup {NoFile}
    BY <1>7 DEF Rename, WTTypeOK
  <2>2. at[w] = "Rename" /\ UNCHANGED <<now, cache, content, fd>>
    BY <1>7 DEF Rename
  <2> QED BY <1>6, <1>7, <2>1, <2>2 DEF Rename, WTTypeOK
<1>8. CASE WriteFails(w)
  <2>1. content' \in [Files -> Contents]
    BY <1>0, <1>8 DEF WriteFails, WTTypeOK, Torn, Contents
  <2>2. fd' = [fd EXCEPT ![w] = NoFile] /\ UNCHANGED <<now, cache, tmp, path>>
    BY <1>8 DEF WriteFails
  <2> QED BY <1>6, <1>8, <2>1, <2>2 DEF WriteFails, WTTypeOK
<1> QED BY <1>2, <1>3, <1>4, <1>5, <1>7, <1>8

(* A restart finds a table in the file, or none.                           *)
LEMMA BootType ==
  ASSUME WTTypeOK, Restart
  PROVE  WTTypeOK'
<1> DEFINE saved == IF path = NoFile THEN NoBindings ELSE content[path].table
<1>1. saved \in Tables /\ NoBindings \in Tables
  BY DEF WTTypeOK, NoBindings, Tables, Contents
<1>2. PICK table \in Prune(saved), w \in Writers :
        /\ cache' = table /\ boot' = (table # saved)
        /\ at' = [v \in Writers |-> IF v = w /\ table # saved THEN "Open" ELSE "Idle"]
        /\ copy' = [v \in Writers |-> IF v = w /\ table # saved THEN table ELSE NoBindings]
  BY DEF Restart
<1>3. table \in Tables
  BY <1>1, PrunedType DEF WTTypeOK
<1> HIDE DEF saved
<1>4. fd' = [v \in Writers |-> NoFile] /\ result' = "None"
      /\ overlap' = (IF overlap = "Now" THEN "Past" ELSE overlap)
      /\ UNCHANGED <<now, tmp, path, content>>
  BY DEF Restart
<1>5. at' \in [Writers -> {"Idle", "Open"}] /\ copy' \in [Writers -> Tables]
  BY <1>1, <1>2, <1>3
<1> QED BY <1>2, <1>3, <1>4, <1>5 DEF WTTypeOK

LEMMA InitWTType == WTInit => WTTypeOK
<1> SUFFICES ASSUME WTInit PROVE WTTypeOK
  OBVIOUS
<1>1. NoBindings \in Tables /\ Torn \in Contents /\ 0 \in 0..MaxNow
  BY WebThreadsAssumption DEF NoBindings, Tables, Torn, Contents
<1> QED BY <1>1 DEF WTInit, WTTypeOK

LEMMA NextWTType == WTTypeOK /\ [WTNext]_wtVars => WTTypeOK'
<1> SUFFICES ASSUME WTTypeOK, [WTNext]_wtVars PROVE WTTypeOK'
  OBVIOUS
<1>1. CASE ClockTick
  BY <1>1, WebThreadsAssumption DEF ClockTick, WTTypeOK
<1>2. CASE UNCHANGED wtVars
  BY <1>2 DEF wtVars, WTTypeOK
<1> QED BY <1>1, <1>2, CallerType, BootType DEF WTNext

(* The table, the files and the callers (web_threads.rs) have their types, *)
(* for any number of callers; a caller has a file open only to fill it.    *)
THEOREM BindingsTypeCorrect == WTSpec => []WTTypeOK
BY InitWTType, NextWTType, PTL DEF WTSpec

-----------------------------------------------------------------------------
(* What a change of the table may take away from a binding.                *)
LEMMA BoundAfter ==
  ASSUME WTTypeOK, NEW table \in Tables, NEW kept \in SUBSET Bound(DropExpired(table)),
         NEW c \in Creds, Keep(DropExpired(table), kept)[c] # Unbound
  PROVE  /\ c \in kept /\ c \in Bound(DropExpired(table))
         /\ Keep(DropExpired(table), kept)[c] = table[c]
         /\ DropExpired(table)[c] = table[c] /\ now - table[c] < Ttl
<1> DEFINE young == DropExpired(table)
<1>1. Keep(young, kept)[c] = IF c \in kept THEN young[c] ELSE Unbound
  BY DEF Keep
<1>2. young[c] = IF table[c] # Unbound /\ now - table[c] >= Ttl THEN Unbound ELSE table[c]
  BY DEF DropExpired
<1>3. table[c] \in Int /\ now \in Int /\ Ttl \in Int
  BY WebThreadsAssumption DEF WTTypeOK, Tables, Unbound
<1> HIDE DEF young
<1>4. c \in kept /\ young[c] # Unbound
  BY <1>1 DEF young
<1>5. c \in Bound(young)
  BY <1>4 DEF Bound
<1> QED BY <1>1, <1>2, <1>3, <1>4, <1>5 DEF young

(* When bind makes room (prune_locked sorts by last_seen_sec), what goes   *)
(* has not been used since anything that stays, for any table and limit    *)
(* and any number of callers.                                              *)
THEOREM OldestBindingsGoFirst == WTSpec => OldestGoFirst
<1>1. ASSUME WTTypeOK, WTNext, NEW w \in Writers, NEW new \in Creds, NEW gone \in Creds,
             NEW kept \in Creds,
             at[w] = "Idle", at'[w] = "Open", ~boot',
             cache'[new] # cache[new], cache'[new] = now,
             gone # new, gone \in Bound(cache) \ Bound(cache'),
             kept \in Bound(cache) \cap Bound(cache')
      PROVE  cache[gone] <= cache'[kept]
  <2>1. cache'[new] # Unbound /\ cache'[gone] = Unbound /\ cache'[kept] # Unbound
    BY <1>1 DEF Bound, WTTypeOK, Unbound
  <2>2. PICK c \in Creds : \E v \in Writers : Bind(v, c)
    <3>1. ~Restart /\ ~ClockTick
      BY <1>1 DEF Restart, ClockTick
    <3>2. ASSUME NEW v \in Writers
          PROVE  ~Open(v) /\ ~Fill(v) /\ ~Rename(v) /\ ~WriteFails(v)
      BY <1>1 DEF WTTypeOK, Open, Fill, Rename, WriteFails, Return
    <3>3. ASSUME NEW v \in Writers, NEW d \in Creds
          PROVE  ~Clear(v, d)
      BY <1>1, <2>1 DEF WTTypeOK, Tables, Clear, Save
    <3> QED BY <1>1, <3>1, <3>2, <3>3 DEF WTNext
  <2> DEFINE table == [cache EXCEPT ![c] = now]
             young == DropExpired(table)
  <2>3. table \in Tables
    BY <1>1 DEF WTTypeOK, Tables
  <2>4. PICK S \in SUBSET Bound(young) :
          cache' = Keep(young, S) /\ \A a \in S, d \in Bound(young) \ S : young[d] <= young[a]
    <3>1. cache' \in Prune(table)
      BY <2>2 DEF Bind, Save
    <3> HIDE DEF table
    <3> QED BY <3>1 DEF Prune
  <2>5. new \in S /\ cache'[new] = table[new]
    <3> HIDE DEF table
    <3> QED BY <1>1, <2>1, <2>3, <2>4, BoundAfter
  <2>6. c = new
    BY <1>1, <2>5 DEF WTTypeOK, Tables
  <2>7. table[gone] = cache[gone] /\ cache[gone] # Unbound
    BY <1>1, <2>6 DEF WTTypeOK, Tables, Bound
  <2>8. kept \in S /\ cache'[kept] = table[kept] /\ young[kept] = table[kept]
        /\ now - table[kept] < Ttl
    <3> HIDE DEF table
    <3> QED BY <1>1, <2>1, <2>3, <2>4, BoundAfter
  <2>9. {now, table[gone], table[kept], Ttl} \subseteq Int
    BY <1>1, <2>3, WebThreadsAssumption DEF WTTypeOK, Tables, Unbound
  <2>10. CASE now - table[gone] >= Ttl
    BY <2>7, <2>8, <2>9, <2>10
  <2>11. CASE ~(now - table[gone] >= Ttl)
    <3>1. young[gone] = table[gone]
      BY <1>1, <2>11 DEF DropExpired
    <3>2. gone \notin S
      BY <2>1, <2>4, <2>7, <3>1 DEF Keep
    <3>3. gone \in Bound(young)
      BY <1>1, <2>7, <3>1 DEF Bound
    <3> QED BY <2>4, <2>7, <2>8, <3>1, <3>2, <3>3
  <2> QED BY <2>10, <2>11
<1>2. WTTypeOK /\ [WTNext]_wtVars =>
        [\A w \in Writers, new, gone, kept \in Creds :
           /\ at[w] = "Idle" /\ at'[w] = "Open" /\ ~boot'
           /\ cache'[new] # cache[new] /\ cache'[new] = now
           /\ gone # new /\ gone \in Bound(cache) \ Bound(cache')
           /\ kept \in Bound(cache) \cap Bound(cache')
         => cache[gone] <= cache'[kept]]_wtVars
  BY <1>1
<1> QED BY <1>2, BindingsTypeCorrect, PTL DEF WTSpec, OldestGoFirst

-----------------------------------------------------------------------------
(* prune_locked keeps the table within MAX_BINDINGS, and so is whatever is *)
(* written of it, by any number of callers and after any failure.          *)
Small(table) == Cardinality(Bound(table)) <= Cap

TableIsBounded ==
  /\ Small(cache)
  /\ \A w \in Writers : Small(copy[w])
  /\ \A f \in Files : Small(content[f].table)

LEMMA SmallerIsSmall ==
  ASSUME NEW small, Small(small), NEW table, Bound(table) \subseteq Bound(small)
  PROVE  Small(table)
<1>1. IsFiniteSet(Bound(small)) /\ Cap \in Nat
  BY FS_Subset, WebThreadsAssumption DEF Bound
<1>2. Cardinality(Bound(table)) <= Cardinality(Bound(small)) /\ IsFiniteSet(Bound(table))
  BY <1>1, FS_Subset
<1>3. Cardinality(Bound(table)) \in Nat /\ Cardinality(Bound(small)) \in Nat
  BY <1>1, <1>2, FS_CardinalityType
<1> QED BY <1>1, <1>2, <1>3 DEF Small

LEMMA NoBindingsSmall == Small(NoBindings)
<1>1. Bound(NoBindings) = {}
  BY DEF Bound, NoBindings
<1> QED BY <1>1, FS_EmptySet, WebThreadsAssumption DEF Small

LEMMA PrunedSmall ==
  ASSUME NEW table, NEW pruned \in Prune(table)
  PROVE  Small(pruned)
<1> DEFINE young == DropExpired(table)
           n == Cardinality(Bound(young))
<1>1. PICK kept \in SUBSET Bound(young) :
        pruned = Keep(young, kept) /\ Cardinality(kept) = IF n > Cap THEN Cap ELSE n
  BY DEF Prune
<1>2. IsFiniteSet(Bound(young)) /\ n \in Nat /\ Cap \in Nat
  BY FS_Subset, FS_CardinalityType, WebThreadsAssumption DEF Bound
<1>3. Bound(pruned) \subseteq kept /\ IsFiniteSet(kept)
  BY <1>1, <1>2, FS_Subset DEF Bound, Keep
<1> HIDE DEF n, young
<1>4. Cardinality(kept) \in Nat /\ Cardinality(kept) <= Cap
  BY <1>1, <1>2
<1>5. Cardinality(Bound(pruned)) <= Cardinality(kept) /\ Cardinality(Bound(pruned)) \in Nat
  BY <1>3, FS_Subset, FS_CardinalityType
<1> QED BY <1>2, <1>4, <1>5 DEF Small

LEMMA NextBounded == WTTypeOK /\ TableIsBounded /\ [WTNext]_wtVars => TableIsBounded'
<1> SUFFICES ASSUME WTTypeOK, TableIsBounded, [WTNext]_wtVars
             PROVE  TableIsBounded'
  OBVIOUS
<1>1. ASSUME NEW w \in Writers, NEW table, Small(table), Save(w, table)
      PROVE  TableIsBounded'
  BY <1>1 DEF Save, WTTypeOK, TableIsBounded
<1>2. ASSUME NEW w \in Writers, NEW c \in Creds, Bind(w, c)
      PROVE  TableIsBounded'
  BY <1>1, <1>2, PrunedSmall DEF Bind
<1>3. ASSUME NEW w \in Writers, NEW c \in Creds, Clear(w, c)
      PROVE  TableIsBounded'
  <2>1. Bound([cache EXCEPT ![c] = Unbound]) \subseteq Bound(cache)
    BY DEF Bound, WTTypeOK, Tables
  <2>2. Small([cache EXCEPT ![c] = Unbound])
    BY <2>1, SmallerIsSmall DEF TableIsBounded
  <2> QED BY <1>1, <1>3, <2>2 DEF Clear
<1>4. Torn.table = NoBindings
  BY DEF Torn
<1>5. ASSUME NEW w \in Writers, Open(w)
      PROVE  TableIsBounded'
  BY <1>4, <1>5, NoBindingsSmall DEF Open, WTTypeOK, TableIsBounded
<1>6. ASSUME NEW w \in Writers, Fill(w)
      PROVE  TableIsBounded'
  <2>1. Whole(copy[w]).table = copy[w]
    BY DEF Whole
  <2> QED BY <1>4, <1>6, <2>1, NoBindingsSmall DEF Fill, WTTypeOK, TableIsBounded
<1>7. ASSUME NEW w \in Writers, Rename(w) \/ WriteFails(w)
      PROVE  TableIsBounded'
  BY <1>4, <1>7, NoBindingsSmall DEF Rename, WriteFails, Return, WTTypeOK, TableIsBounded
<1>8. CASE Restart
  <2>1. Small(cache') /\ UNCHANGED content
    BY <1>8, PrunedSmall DEF Restart
  <2>2. \A w \in Writers : copy'[w] \in {cache', NoBindings}
    BY <1>8 DEF Restart
  <2> QED BY <2>1, <2>2, NoBindingsSmall DEF TableIsBounded
<1>9. CASE ClockTick \/ UNCHANGED wtVars
  BY <1>9 DEF ClockTick, wtVars, TableIsBounded
<1> QED BY <1>2, <1>3, <1>5, <1>6, <1>7, <1>8, <1>9 DEF WTNext

(* No table in memory, in a caller's copy or in a file has more bindings   *)
(* than the limit (MAX_BINDINGS), whoever calls at the same time.          *)
THEOREM TableStaysBounded == WTSpec => []TableIsBounded
<1>1. WTInit => TableIsBounded
  <2>1. Torn.table = NoBindings
    BY DEF Torn
  <2> QED BY <2>1, NoBindingsSmall DEF WTInit, TableIsBounded
<1> QED BY <1>1, NextBounded, BindingsTypeCorrect, PTL DEF WTSpec

-----------------------------------------------------------------------------
(* The file.  As long as no call runs beside another one, what has the     *)
(* temporary name is the caller's own and is not the file under the final  *)
(* name, and what the caller writes is the table in memory.                *)
OneAtATime == \A v, w \in Writers : at[v] # "Idle" /\ at[w] # "Idle" => v = w

CallerOwnsTmp ==
  \A w \in Writers :
    /\ at[w] = "Fill" => fd[w] = tmp /\ content[tmp] = Torn
    /\ at[w] = "Rename" => tmp # NoFile /\ content[tmp] = Whole(copy[w])
    /\ at[w] # "Idle" => copy[w] = cache

FileInv ==
  /\ FileIsWhole
  /\ SavedWhenOk
  /\ tmp # NoFile => tmp # path
  /\ overlap # "Now" => OneAtATime /\ CallerOwnsTmp

(* A caller that others write beside promises nothing of the file.         *)
LEMMA CallerAmongOthers ==
  ASSUME WTTypeOK, FileInv, overlap = "Now", NEW w \in Writers,
         \/ \E c \in Creds : Bind(w, c) \/ Clear(w, c)
         \/ Open(w) \/ Fill(w) \/ Rename(w) \/ WriteFails(w)
  PROVE  FileInv'
<1>0. NoFile \notin Files
  BY WebThreadsAssumption
<1>1. tmp' # NoFile => tmp' # path'
  <2>1. CASE Open(w)
    BY <1>0, <2>1, FreeFile DEF Open, FileInv
  <2> QED BY <2>1 DEF Bind, Clear, Save, Fill, Rename, WriteFails, FileInv
<1>2. overlap' = "Now" \/ (overlap' = "Past" /\ \A v \in Writers : at'[v] = "Idle")
  BY DEF Bind, Clear, Save, Open, Fill, Rename, WriteFails, Return, Others, WTTypeOK
<1> QED BY <1>1, <1>2 DEF FileInv, FileIsWhole, SavedWhenOk, OneAtATime, CallerOwnsTmp

(* A caller that runs alone keeps the file whole, or makes it so.          *)
LEMMA CallerAlone ==
  ASSUME WTTypeOK, FileInv, overlap # "Now", NEW w \in Writers,
         \/ \E c \in Creds : Bind(w, c) \/ Clear(w, c)
         \/ Open(w) \/ Fill(w) \/ Rename(w) \/ WriteFails(w)
  PROVE  FileInv'
<1>0. NoFile \notin Files
  BY WebThreadsAssumption
<1>1. ASSUME NEW table, Save(w, table), at[w] = "Idle"
      PROVE  FileInv'
  <2>1. at' = [at EXCEPT ![w] = "Open"] /\ copy'[w] = table /\ cache' = table
        /\ UNCHANGED <<tmp, path, content, fd>>
    BY <1>1 DEF Save, WTTypeOK
  <2>2. tmp' # NoFile => tmp' # path'
    BY <2>1 DEF FileInv
  <2>3. CASE Others(w) # {}
    <3>1. overlap' = "Now"
      BY <1>1, <2>3 DEF Save
    <3> QED BY <2>2, <3>1 DEF FileInv, FileIsWhole, SavedWhenOk
  <2>4. CASE Others(w) = {}
    <3>1. overlap' = overlap
      BY <1>1, <2>4 DEF Save
    <3>2. at'[w] = "Open" /\ \A v \in Writers : v # w => at'[v] = "Idle"
      BY <2>1, <2>4 DEF Others, WTTypeOK
    <3>3. OneAtATime' /\ CallerOwnsTmp'
      BY <2>1, <3>2 DEF OneAtATime, CallerOwnsTmp
    <3> QED BY <2>1, <2>2, <3>1, <3>2, <3>3 DEF FileInv, FileIsWhole, SavedWhenOk
  <2> QED BY <2>3, <2>4
<1>2. ASSUME at[w] # "Idle"
      PROVE  \A v \in Writers : v # w => at[v] = "Idle"
  BY <1>2 DEF FileInv, OneAtATime
<1>3. CASE Open(w)
  <2>1. PICK f \in Files :
          /\ f = IF tmp # NoFile THEN tmp
                 ELSE CHOOSE g \in Files : g \notin {path} \cup {fd[v] : v \in Writers}
          /\ tmp' = f /\ fd' = [fd EXCEPT ![w] = f] /\ content' = [content EXCEPT ![f] = Torn]
    BY <1>3, FreeFile DEF Open, WTTypeOK
  <2>2. f # path
    BY <2>1, FreeFile DEF FileInv
  <2>3. at' = [at EXCEPT ![w] = "Fill"] /\ UNCHANGED <<cache, path, copy, result, overlap>>
        /\ at[w] = "Open"
    BY <1>3 DEF Open
  <2>4. /\ at'[w] = "Fill" /\ fd'[w] = tmp' /\ content'[tmp'] = Torn /\ tmp' # path'
        /\ path' # NoFile => content'[path'] = content[path]
    BY <2>1, <2>2, <2>3 DEF WTTypeOK
  <2>5. \A v \in Writers : v # w => at'[v] = "Idle"
    BY <1>2, <2>3 DEF WTTypeOK
  <2>6. OneAtATime' /\ CallerOwnsTmp'
    BY <2>3, <2>4, <2>5 DEF OneAtATime, CallerOwnsTmp, FileInv
  <2> QED BY <2>3, <2>4, <2>6 DEF FileInv, FileIsWhole, SavedWhenOk
<1>4. CASE Fill(w)
  <2>1. fd[w] = tmp /\ tmp \in Files /\ tmp # path /\ content[tmp] = Torn /\ copy[w] = cache
    BY <1>0, <1>4 DEF Fill, FileInv, CallerOwnsTmp, WTTypeOK
  <2>2. content' = [content EXCEPT ![tmp] = Whole(copy[w])]
    BY <1>4, <2>1 DEF Fill
  <2>3. at' = [at EXCEPT ![w] = "Rename"] /\ at[w] = "Fill"
        /\ UNCHANGED <<cache, tmp, path, copy, result, overlap>>
    BY <1>4 DEF Fill
  <2>4. /\ content'[tmp'] = Whole(copy'[w])
        /\ path' # NoFile => content'[path'] = content[path]
    BY <2>1, <2>2, <2>3 DEF WTTypeOK
  <2>5. at'[w] = "Rename" /\ \A v \in Writers : v # w => at'[v] = "Idle"
    BY <1>2, <2>3 DEF WTTypeOK
  <2>6. OneAtATime' /\ CallerOwnsTmp'
    BY <1>0, <2>1, <2>3, <2>4, <2>5 DEF OneAtATime, CallerOwnsTmp
  <2> QED BY <2>1, <2>3, <2>4, <2>5, <2>6 DEF FileInv, FileIsWhole, SavedWhenOk
<1>5. ASSUME at' = [at EXCEPT ![w] = "Idle"], at[w] # "Idle"
      PROVE  (\A v \in Writers : at'[v] = "Idle") /\ OneAtATime' /\ CallerOwnsTmp'
  <2>1. \A v \in Writers : at'[v] = "Idle"
    BY <1>2, <1>5 DEF WTTypeOK
  <2> QED BY <2>1 DEF OneAtATime, CallerOwnsTmp
<1>6. CASE Rename(w)
  <2>1. tmp # NoFile /\ content[tmp] = Whole(cache)
    BY <1>6 DEF Rename, FileInv, CallerOwnsTmp
  <2>2. path' = tmp /\ tmp' = NoFile /\ at' = [at EXCEPT ![w] = "Idle"] /\ at[w] # "Idle"
        /\ UNCHANGED <<cache, content>>
    BY <1>6, <2>1 DEF Rename, Return
  <2>3. content'[path'].whole /\ content'[path'] = Whole(cache')
    BY <2>1, <2>2 DEF Whole
  <2> QED BY <1>5, <2>1, <2>2, <2>3 DEF FileInv, FileIsWhole, SavedWhenOk
<1>7. CASE WriteFails(w)
  <2>1. fd[w] = tmp /\ tmp \in Files /\ tmp # path
    BY <1>0, <1>7 DEF WriteFails, FileInv, CallerOwnsTmp, WTTypeOK
  <2>2. content' = [content EXCEPT ![tmp] = Torn] /\ UNCHANGED <<cache, tmp, path>>
        /\ at' = [at EXCEPT ![w] = "Idle"] /\ at[w] # "Idle" /\ result' = "Err"
        /\ overlap' = overlap
    BY <1>7, <2>1 DEF WriteFails, Return
  <2>3. path' # NoFile => content'[path'] = content[path]
    BY <2>1, <2>2 DEF WTTypeOK
  <2> QED BY <1>5, <2>1, <2>2, <2>3 DEF FileInv, FileIsWhole, SavedWhenOk
<1> QED BY <1>1, <1>3, <1>4, <1>6, <1>7 DEF Bind, Clear

(* A restart has no file open, and has returned nothing to anybody.        *)
LEMMA BootKeepsFile ==
  ASSUME FileInv, Restart
  PROVE  FileInv'
<1>1. PICK w \in Writers : \A v \in Writers :
        /\ at'[v] \in {"Idle", "Open"}
        /\ at'[v] = "Open" => v = w /\ copy'[v] = cache'
  BY DEF Restart
<1>2. UNCHANGED <<tmp, path, content>> /\ result' = "None"
      /\ overlap' = (IF overlap = "Now" THEN "Past" ELSE overlap)
  BY DEF Restart
<1>3. OneAtATime' /\ CallerOwnsTmp'
  BY <1>1 DEF OneAtATime, CallerOwnsTmp
<1> QED BY <1>2, <1>3 DEF FileInv, FileIsWhole, SavedWhenOk

LEMMA NextFile == WTTypeOK /\ FileInv /\ [WTNext]_wtVars => FileInv'
<1> SUFFICES ASSUME WTTypeOK, FileInv, [WTNext]_wtVars PROVE FileInv'
  OBVIOUS
<1>1. CASE ClockTick \/ UNCHANGED wtVars
  BY <1>1
  DEF ClockTick, wtVars, FileInv, FileIsWhole, SavedWhenOk, OneAtATime, CallerOwnsTmp
<1> QED BY <1>1, CallerAmongOthers, CallerAlone, BootKeepsFile DEF WTNext

(* The inductive invariant of the table's file, with any number of callers *)
(* that may overlap: what has the temporary name belongs to the one caller *)
(* as long as there is but one, also after others overlapped before it.    *)
THEOREM FileInvariant == WTSpec => []FileInv
<1>1. WTInit => FileInv
  BY DEF WTInit, FileInv, FileIsWhole, SavedWhenOk, OneAtATime, CallerOwnsTmp
<1> QED BY <1>1, NextFile, BindingsTypeCorrect, PTL DEF WTSpec

(* At any point a restart finds a whole table in the file (web_threads.rs: *)
(* 148), wherever the last process died, until calls overlap; and if they  *)
(* did, again from the first call that runs alone and returns Ok.          *)
THEOREM FileStaysWhole == WTSpec => []FileIsWhole
<1>1. FileInv => FileIsWhole
  BY DEF FileInv
<1> QED BY <1>1, FileInvariant, PTL

(* When the last call to end returned Ok, the table is saved (web_threads. *)
(* rs:65), whatever writes failed before it, until calls overlap, and      *)
(* again from the first one that then runs alone.                          *)
THEOREM OkIsSaved == WTSpec => []SavedWhenOk
<1>1. FileInv => SavedWhenOk
  BY DEF FileInv
<1> QED BY <1>1, FileInvariant, PTL
=============================================================================
