----------------------------- MODULE WebThreads ------------------------------
(***************************************************************************)
(* The table that binds a web credential to its upstream thread, kept in   *)
(* memory and in data/web_threads.json (src/src/web_threads.rs).  A caller *)
(* changes the table and takes a copy of it under the mutex, and writes    *)
(* the copy after the mutex is free: open and truncate the temporary file, *)
(* fill it, rename it.  Every caller uses the same temporary file, so the  *)
(* model keeps the files (inodes) apart from the names they have.          *)
(*                                                                         *)
(* Of a binding only the time it was last used is modelled, and of a file  *)
(* whether it can be parsed and which copy of the table it holds.          *)
(***************************************************************************)
EXTENDS Integers, FiniteSets

CONSTANTS
  Creds,      (* credential ids                                            *)
  Writers,    (* callers of bind and clear that run at the same time       *)
  Files,      (* inodes                                                    *)
  NoFile,
  Cap,        (* MAX_BINDINGS: 2000                                        *)
  Ttl,        (* BINDING_TTL_SECS: a day                                   *)
  MaxNow      (* bound on the clock                                        *)

ASSUME WebThreadsAssumption ==
  /\ IsFiniteSet(Creds) /\ IsFiniteSet(Files)
  /\ IsFiniteSet(Writers) /\ Writers # {}
  /\ NoFile \notin Files
  /\ Cardinality(Files) >= Cardinality(Writers) + 2
  /\ Cap \in Nat /\ Ttl \in Nat \ {0} /\ MaxNow \in Nat

VARIABLES
  now,              (* unix_now_sec                                        *)
  cache,            (* the table in memory                                 *)
  tmp, path,        (* the files behind the two names                      *)
  content,          (* what is in each file                                *)
  at, copy, fd,     (* each caller: where it is, its copy, its open file   *)
  result,           (* history: what the last call to end returned         *)
  overlap,          (* history: has a call run beside another one?  Past   *)
                    (* when none runs that did, and none since then that   *)
                    (* ran alone has returned Ok                           *)
  boot              (* start-up prunes the table before anyone else runs   *)

wtVars == <<now, cache, tmp, path, content, at, copy, fd, result, overlap, boot>>

Unbound == -1
Tables == [Creds -> 0..MaxNow \cup {Unbound}]
NoBindings == [c \in Creds |-> Unbound]
Bound(table) == {c \in Creds : table[c] # Unbound}

(* A file that is no table: cut short, or two copies mixed.                *)
Contents == [whole : BOOLEAN, table : Tables]
Torn == [whole |-> FALSE, table |-> NoBindings]
Whole(table) == [whole |-> TRUE, table |-> table]

WTTypeOK ==
  /\ now \in 0..MaxNow
  /\ cache \in Tables
  /\ {tmp, path} \subseteq Files \cup {NoFile}
  /\ content \in [Files -> Contents]
  /\ at \in [Writers -> {"Idle", "Open", "Fill", "Rename"}]
  /\ copy \in [Writers -> Tables]
  /\ fd \in [Writers -> Files \cup {NoFile}]
  /\ result \in {"None", "Ok", "Err"}
  /\ overlap \in {"None", "Past", "Now"}
  /\ boot \in BOOLEAN
  /\ \A w \in Writers : at[w] = "Fill" <=> fd[w] # NoFile

WTInit ==
  /\ now = 0
  /\ cache = NoBindings
  /\ tmp = NoFile /\ path = NoFile
  /\ content = [f \in Files |-> Torn]
  /\ at = [w \in Writers |-> "Idle"]
  /\ copy = [w \in Writers |-> NoBindings]
  /\ fd = [w \in Writers |-> NoFile]
  /\ result = "None" /\ overlap = "None"
  /\ boot = FALSE

-----------------------------------------------------------------------------
(* prune_locked: drop what has not been used for Ttl, then the oldest of   *)
(* what is too much, in an order of its own among equals.                  *)
DropExpired(table) ==
  [c \in Creds |-> IF table[c] # Unbound /\ now - table[c] >= Ttl THEN Unbound ELSE table[c]]

Keep(table, kept) == [c \in Creds |-> IF c \in kept THEN table[c] ELSE Unbound]

PruneAnyOldOne(table) ==   (* mutant: not sorted by last_seen_sec *)
  LET young == DropExpired(table)
  IN  {Keep(young, kept) : kept \in
         {S \in SUBSET Bound(young) :
            Cardinality(S) = IF Cardinality(Bound(young)) > Cap THEN Cap
                             ELSE Cardinality(Bound(young))}}
Prune(table) ==
  LET young == DropExpired(table)
  IN  {Keep(young, kept) : kept \in
         {S \in SUBSET Bound(young) :
            /\ Cardinality(S) = IF Cardinality(Bound(young)) > Cap THEN Cap
                                ELSE Cardinality(Bound(young))
            /\ \A c \in S, d \in Bound(young) \ S : young[d] <= young[c]}}

Others(w) == {v \in Writers \ {w} : at[v] # "Idle"}

(* The copy is taken in the critical section that changes the table.       *)
Save(w, table) ==
  /\ cache' = table
  /\ copy' = [copy EXCEPT ![w] = table]
  /\ at' = [at EXCEPT ![w] = "Open"]
  /\ overlap' = IF Others(w) = {} THEN overlap ELSE "Now"
  /\ UNCHANGED <<now, tmp, path, content, fd, result>>

Bind(w, c) ==
  /\ at[w] = "Idle" /\ ~boot
  /\ \E table \in Prune([cache EXCEPT ![c] = now]) : Save(w, table)
  /\ UNCHANGED boot

Clear(w, c) ==
  /\ at[w] = "Idle" /\ ~boot
  /\ Save(w, [cache EXCEPT ![c] = Unbound])
  /\ UNCHANGED boot

(* atomic_write.  std::fs::write opens with truncation: the file that has  *)
(* the temporary name, be it another caller's, or a new one.               *)
OpenInPlace(w) ==   (* mutant: no temporary file *)
  /\ at[w] = "Open"
  /\ \E f \in Files :
       /\ f = IF path # NoFile THEN path ELSE CHOOSE g \in Files : TRUE
       /\ path' = f /\ tmp' = f
       /\ fd' = [fd EXCEPT ![w] = f]
       /\ content' = [content EXCEPT ![f] = Torn]
  /\ at' = [at EXCEPT ![w] = "Fill"]
  /\ UNCHANGED <<now, cache, copy, result, overlap, boot>>
Open(w) ==
  /\ at[w] = "Open"
  /\ LET used == {path} \cup {fd[v] : v \in Writers}
         f == IF tmp # NoFile THEN tmp ELSE CHOOSE g \in Files : g \notin used
     IN /\ tmp' = f
        /\ fd' = [fd EXCEPT ![w] = f]
        /\ content' = [content EXCEPT ![f] = Torn]
  /\ at' = [at EXCEPT ![w] = "Fill"]
  /\ UNCHANGED <<now, cache, path, copy, result, overlap, boot>>

(* A copy written over another one in the same file leaves the end of it,  *)
(* if that was longer.                                                     *)
Fill(w) ==
  /\ at[w] = "Fill"
  /\ \E all \in {Whole(copy[w])} \cup (IF content[fd[w]] = Torn THEN {} ELSE {Torn}) :
       content' = [content EXCEPT ![fd[w]] = all]
  /\ fd' = [fd EXCEPT ![w] = NoFile]
  /\ at' = [at EXCEPT ![w] = "Rename"]
  /\ UNCHANGED <<now, cache, tmp, path, copy, result, overlap, boot>>

Return(w, what) ==
  /\ at' = [at EXCEPT ![w] = "Idle"]
  /\ copy' = [copy EXCEPT ![w] = NoBindings]
  /\ result' = what /\ boot' = FALSE
  /\ overlap' = IF overlap = "Now" THEN IF Others(w) = {} THEN "Past" ELSE "Now"
                ELSE IF what = "Ok" THEN "None" ELSE overlap

RenameAlwaysOk(w) ==   (* mutant: a failed write is reported as a success *)
  /\ at[w] \in {"Fill", "Rename"}
  /\ fd' = [fd EXCEPT ![w] = NoFile]
  /\ path' = IF at[w] = "Rename" THEN tmp ELSE path
  /\ tmp' = IF at[w] = "Rename" THEN NoFile ELSE tmp
  /\ Return(w, "Ok")
  /\ UNCHANGED <<now, cache, content>>
Rename(w) ==
  /\ at[w] = "Rename"
  /\ \/ tmp # NoFile /\ path' = tmp /\ tmp' = NoFile /\ Return(w, "Ok")
     \/ tmp = NoFile /\ UNCHANGED <<path, tmp>> /\ Return(w, "Err")
  /\ UNCHANGED <<now, cache, content, fd>>

(* The disk is full: what was written so far stays where it is.            *)
WriteFailsLeavesOpen(w) ==   (* mutant: the file is not closed *)
  /\ at[w] = "Fill"
  /\ content' = [content EXCEPT ![fd[w]] = Torn]
  /\ Return(w, "Err")
  /\ UNCHANGED <<now, cache, tmp, path, fd>>
WriteFails(w) ==
  /\ at[w] = "Fill"
  /\ content' = [content EXCEPT ![fd[w]] = Torn]
  /\ fd' = [fd EXCEPT ![w] = NoFile]
  /\ Return(w, "Err")
  /\ UNCHANGED <<now, cache, tmp, path>>

(* The process dies at any point and starts again: a file that is missing  *)
(* or cannot be parsed counts as an empty table; a table that had to be    *)
(* pruned is written before anything else.                                 *)
Restart ==
  LET saved == IF path = NoFile THEN NoBindings ELSE content[path].table
  IN  /\ fd' = [w \in Writers |-> NoFile]
      /\ result' = "None" /\ overlap' = IF overlap = "Now" THEN "Past" ELSE overlap
      /\ \E table \in Prune(saved), w \in Writers :
           /\ cache' = table
           /\ boot' = (table # saved)
           /\ at' = [v \in Writers |-> IF v = w /\ table # saved THEN "Open" ELSE "Idle"]
           /\ copy' = [v \in Writers |-> IF v = w /\ table # saved THEN table ELSE NoBindings]
      /\ UNCHANGED <<now, tmp, path, content>>

ClockTick ==
  /\ now < MaxNow
  /\ now' = now + 1
  /\ UNCHANGED <<cache, tmp, path, content, at, copy, fd, result, overlap, boot>>

WTNext ==
  \/ \E w \in Writers :
       \/ \E c \in Creds : Bind(w, c) \/ Clear(w, c)
       \/ Open(w) \/ Fill(w) \/ Rename(w) \/ WriteFails(w)
  \/ Restart \/ ClockTick

WTSpec == WTInit /\ [][WTNext]_wtVars

-----------------------------------------------------------------------------
(* When a binding makes room for itself, what goes has not been used since *)
(* anything that stays: a conversation in use does not lose its thread to  *)
(* one that is not.                                                        *)
OldestGoFirst ==
  [][\A w \in Writers, new, gone, kept \in Creds :
       /\ at[w] = "Idle" /\ at'[w] = "Open" /\ ~boot'
       /\ cache'[new] # cache[new] /\ cache'[new] = now
       /\ gone # new /\ gone \in Bound(cache) \ Bound(cache')
       /\ kept \in Bound(cache) \cap Bound(cache')
     => cache[gone] <= cache'[kept]]_wtVars

(* web_threads.rs:148: a crash in the middle of a write leaves no          *)
(* truncated file behind; at any point a restart finds a whole table.  The *)
(* code keeps it of calls that do not overlap; when some did, and shared   *)
(* the temporary file, the next one that runs alone makes it good.         *)
FileIsWhole == overlap = "None" /\ path # NoFile => content[path].whole

(* web_threads.rs:65: a call that returned Ok has saved the table: with no *)
(* call under way, the file holds what is in memory, also what a failed    *)
(* write left out.  Kept, again, of calls that do not overlap, and         *)
(* restored by the first one after them that runs alone.                   *)
SavedWhenOk ==
  overlap = "None" /\ result = "Ok" /\ (\A w \in Writers : at[w] = "Idle")
    => path # NoFile /\ content[path] = Whole(cache)
=============================================================================
