----------------------------- MODULE ThreadSweep -----------------------------
(***************************************************************************)
(* The list of upstream threads in threads.json, which grows when a turn   *)
(* ends (record_thread) and shrinks when expired threads are deleted       *)
(* upstream (sweep_threads), all in src/src/api.rs.  Both hold a lock when *)
(* they write the file, but a sweep reads it without the lock and then     *)
(* deletes over the network; the hourly loop and an operator's request may *)
(* sweep at the same time.                                                 *)
(*                                                                         *)
(* Writing under the lock is one step: the temporary file is renamed, so   *)
(* that a crash leaves the old list or the new one.  A dry run, and a      *)
(* sweep for which there is no web cookie, change nothing.                 *)
(***************************************************************************)
EXTENDS Integers, FiniteSets

CONSTANTS
  Threads,    (* ids the upstream gives to threads, each once              *)
  Sweepers,   (* the loop, and requests to clean up                        *)
  Loop,       (* thread_cleanup_loop                                       *)
  MaxAge,     (* max_age_hours of each sweeper                             *)
  Word,       (* 2^64 of the cast to u64, scaled down                      *)
  MaxHour,    (* bound on the clock                                        *)
  SetBacks,   (* how often the clock is set back by an hour                *)
  Crashes     (* how often the process is restarted                        *)

ASSUME SweepAssumption ==
  /\ Loop \in Sweepers
  /\ MaxAge \in [Sweepers -> 0..MaxHour]
  /\ MaxHour \in Nat /\ Word \in Nat /\ Word > MaxHour
  /\ SetBacks \in Nat /\ Crashes \in Nat

VARIABLES
  hour,       (* Utc::now                                                  *)
  created,    (* the file: created_at of the threads in it                 *)
  live,       (* threads the upstream has                                  *)
  born,       (* threads it ever had                                       *)
  turn,       (* threads with a turn under way                             *)
  pc, seen, todo, deleted, failed,   (* a sweep and its local variables    *)
  known,      (* history: threads record_thread was called for             *)
  setBacks, crashes

file == <<created, known>>
sweep == <<pc, seen, todo, deleted, failed>>
vars == <<hour, file, live, born, turn, sweep, setBacks, crashes>>

Unlisted == -1
Lists == [Threads -> 0..MaxHour \cup {Unlisted}]
Empty == [t \in Threads |-> Unlisted]
Listed == {t \in Threads : created[t] # Unlisted}

TypeOK ==
  /\ hour \in 0..MaxHour
  /\ created \in Lists
  /\ live \subseteq born /\ born \subseteq Threads
  /\ turn \subseteq born /\ known \subseteq born
  /\ pc \in [Sweepers -> {"Idle", "Delete"}]
  /\ seen \in [Sweepers -> Lists]
  /\ \A s \in Sweepers :
       /\ todo[s] \cup deleted[s] \cup failed[s] \subseteq Threads
       /\ todo[s] \cap (deleted[s] \cup failed[s]) = {}
       /\ deleted[s] \cap failed[s] = {}
  /\ setBacks \in 0..SetBacks /\ crashes \in 0..Crashes

Init ==
  /\ hour = 0 /\ created = Empty
  /\ live = {} /\ born = {} /\ turn = {} /\ known = {}
  /\ pc = [s \in Sweepers |-> "Idle"]
  /\ seen = [s \in Sweepers |-> Empty]
  /\ todo = [s \in Sweepers |-> {}]
  /\ deleted = [s \in Sweepers |-> {}]
  /\ failed = [s \in Sweepers |-> {}]
  /\ setBacks = 0 /\ crashes = 0

-----------------------------------------------------------------------------
(* A turn opens a thread or goes on in one the upstream still has.         *)
OpenThread(t) ==
  /\ t \notin born
  /\ born' = born \cup {t} /\ live' = live \cup {t} /\ turn' = turn \cup {t}
  /\ UNCHANGED <<hour, file, sweep, setBacks, crashes>>

ContinueThread(t) ==
  /\ t \in live \ turn
  /\ turn' = turn \cup {t}
  /\ UNCHANGED <<hour, file, live, born, sweep, setBacks, crashes>>

(* record_thread: a thread in the list keeps its time.                     *)
RecordThread(t) ==
  /\ t \in turn
  /\ turn' = turn \ {t}
  /\ created' = IF t \in Listed THEN created ELSE [created EXCEPT ![t] = hour]
  /\ known' = known \cup {t}
  /\ UNCHANGED <<hour, live, born, sweep, setBacks, crashes>>

(* num_hours() as u64: a time in the future is a very long time ago.       *)
Age(t) == (hour - created[t]) % Word

Expired(s) == {t \in Listed : Age(t) >= MaxAge[s]}

Begin(s) ==
  /\ pc[s] = "Idle" /\ Expired(s) # {}
  /\ pc' = [pc EXCEPT ![s] = "Delete"]
  /\ seen' = [seen EXCEPT ![s] = created]
  /\ todo' = [todo EXCEPT ![s] = Expired(s)]
  /\ UNCHANGED <<hour, file, live, born, turn, deleted, failed, setBacks, crashes>>

(* Deleted, or not there any more (404).                                   *)
DeleteFound(s, t) ==
  /\ pc[s] = "Delete" /\ t \in todo[s]
  /\ live' = live \ {t}
  /\ todo' = [todo EXCEPT ![s] = @ \ {t}]
  /\ deleted' = [deleted EXCEPT ![s] = @ \cup {t}]
  /\ UNCHANGED <<hour, file, born, turn, pc, seen, failed, setBacks, crashes>>

(* Refused, or the answer is lost: it may be gone all the same.            *)
DeleteFails(s, t) ==
  /\ pc[s] = "Delete" /\ t \in todo[s]
  /\ live' \in {live, live \ {t}}
  /\ todo' = [todo EXCEPT ![s] = @ \ {t}]
  /\ failed' = [failed EXCEPT ![s] = @ \cup {t}]
  /\ UNCHANGED <<hour, file, born, turn, pc, seen, deleted, setBacks, crashes>>

(* Under the lock the file is read again; what was deleted goes, and what  *)
(* could not be deleted is put back if another sweep took it out.          *)
MergeFromSnapshot(s) ==   (* mutant: the list read at the start is written back *)
  /\ pc[s] = "Delete" /\ todo[s] = {}
  /\ created' = [t \in Threads |-> IF t \in deleted[s] THEN Unlisted ELSE seen[s][t]]
  /\ pc' = [pc EXCEPT ![s] = "Idle"]
  /\ seen' = [seen EXCEPT ![s] = Empty]
  /\ deleted' = [deleted EXCEPT ![s] = {}]
  /\ failed' = [failed EXCEPT ![s] = {}]
  /\ UNCHANGED <<hour, live, born, turn, todo, known, setBacks, crashes>>
MergeWithoutFailed(s) ==   (* mutant: what failed is not put back *)
  /\ pc[s] = "Delete" /\ todo[s] = {}
  /\ created' = [t \in Threads |-> IF t \in deleted[s] THEN Unlisted ELSE created[t]]
  /\ pc' = [pc EXCEPT ![s] = "Idle"]
  /\ seen' = [seen EXCEPT ![s] = Empty]
  /\ deleted' = [deleted EXCEPT ![s] = {}]
  /\ failed' = [failed EXCEPT ![s] = {}]
  /\ UNCHANGED <<hour, live, born, turn, todo, known, setBacks, crashes>>
MergeAllPutBack(s) ==   (* mutant: all that had expired is put back *)
  /\ pc[s] = "Delete" /\ todo[s] = {}
  /\ created' = [t \in Threads |->
       IF t \in deleted[s] \cup failed[s] THEN seen[s][t] ELSE created[t]]
  /\ pc' = [pc EXCEPT ![s] = "Idle"]
  /\ seen' = [seen EXCEPT ![s] = Empty]
  /\ deleted' = [deleted EXCEPT ![s] = {}]
  /\ failed' = [failed EXCEPT ![s] = {}]
  /\ UNCHANGED <<hour, live, born, turn, todo, known, setBacks, crashes>>
Merge(s) ==
  /\ pc[s] = "Delete" /\ todo[s] = {}
  /\ created' = [t \in Threads |->
       IF t \in deleted[s] THEN Unlisted
       ELSE IF t \in failed[s] \ Listed THEN seen[s][t]
       ELSE created[t]]
  /\ pc' = [pc EXCEPT ![s] = "Idle"]
  /\ seen' = [seen EXCEPT ![s] = Empty]
  /\ deleted' = [deleted EXCEPT ![s] = {}]
  /\ failed' = [failed EXCEPT ![s] = {}]
  /\ UNCHANGED <<hour, live, born, turn, todo, known, setBacks, crashes>>

(* The process is restarted: turns and sweeps are forgotten, not the file. *)
Crash ==
  /\ crashes < Crashes
  /\ crashes' = crashes + 1
  /\ turn' = {}
  /\ pc' = [s \in Sweepers |-> "Idle"]
  /\ seen' = [s \in Sweepers |-> Empty]
  /\ todo' = [s \in Sweepers |-> {}]
  /\ deleted' = [s \in Sweepers |-> {}]
  /\ failed' = [s \in Sweepers |-> {}]
  /\ UNCHANGED <<hour, file, live, born, setBacks>>

Tick ==
  /\ hour < MaxHour
  /\ hour' = hour + 1
  /\ UNCHANGED <<file, live, born, turn, sweep, setBacks, crashes>>

SetBack ==
  /\ setBacks < SetBacks /\ hour > 0
  /\ hour' = hour - 1
  /\ setBacks' = setBacks + 1
  /\ UNCHANGED <<file, live, born, turn, sweep, crashes>>

Sweep(s) ==
  \/ Begin(s) \/ Merge(s)
  \/ \E t \in Threads : DeleteFound(s, t) \/ DeleteFails(s, t)

Next ==
  \/ \E t \in Threads : OpenThread(t) \/ ContinueThread(t) \/ RecordThread(t)
  \/ \E s \in Sweepers : Sweep(s)
  \/ Crash \/ Tick \/ SetBack

Spec == Init /\ [][Next]_vars

(* Hours pass; the loop sweeps again and again (thread_cleanup_loop; there *)
(* is a web cookie for it); and the upstream, asked by it again and again  *)
(* to delete a thread, does so at some time.  An operator's request need   *)
(* never come, and one that came need never go on.                         *)
FairSpec ==
  /\ Spec /\ WF_vars(Tick) /\ WF_vars(Sweep(Loop))
  /\ \A t \in Threads : SF_vars(DeleteFound(Loop, t))

-----------------------------------------------------------------------------
(* No thread is forgotten: one that was recorded and that the upstream     *)
(* still has is in the list, whatever sweeps and turns did meanwhile.      *)
NoneForgotten == known \cap live \subseteq Listed

(* What a sweep could not delete is in the list when it is done, even if   *)
(* another sweep had taken it out: it will be tried again.                 *)
FailedStaysListed ==
  [][\A s \in Sweepers : pc[s] = "Delete" /\ pc'[s] = "Idle" /\ crashes' = crashes
       => failed[s] \subseteq Listed']_vars

(* Every thread in the list leaves it at some time, by the loop alone: the *)
(* ones an operator's sweep deleted and put back, or left half done,       *)
(* included.  The premise is the bound of the clock: the thread's age      *)
(* comes.                                                                  *)
EveryThreadIsSwept ==
  \A t \in Threads :
    t \in Listed /\ created[t] + MaxAge[Loop] <= MaxHour ~> t \notin Listed
=============================================================================
