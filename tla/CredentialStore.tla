--------------------------- MODULE CredentialStore ---------------------------
(***************************************************************************)
(* The credentials of the gateway: the file tokens.json (src/src/          *)
(* import.rs), and the two pools that requests draw from, of desktop       *)
(* tokens (pool.rs) and of web cookies (web_pool.rs).  The handlers under  *)
(* /api/tokens and /api/import (api.rs) change first the file and          *)
(* then the pools.  Every change of the file is a read, and a write of the *)
(* whole of it; TOKENS_LOCK is held from the read of an import and of a    *)
(* delete, for the write only when a reader dates old credentials (which   *)
(* have no added_at), and not at all by the import of a backup.            *)
(*                                                                         *)
(* A name in Handlers is a request under way, or free for another one.     *)
(* The write of a file is one step: a temporary file is renamed.  Reads    *)
(* and writes may fail, and then the file is what it was.                  *)
(* Credentials of config.json, which are in a pool from the start and in   *)
(* no file, and what is known of an account are left out.                  *)
(***************************************************************************)
EXTENDS FiniteSets

CONSTANTS
  Handlers, Nobody,
  Credentials, Cookies,  (* web cookies; the others are desktop tokens     *)
  Backup                 (* the credentials a backup holds                 *)

ASSUME StoreAssumption ==
  /\ Nobody \notin Handlers
  /\ Cookies \subseteq Credentials /\ Backup \subseteq Credentials

VARIABLES
  file, dated,       (* tokens.json, and which of them have a date         *)
  lock,              (* TOKENS_LOCK                                        *)
  accounts, cookies, (* the two pools                                      *)
  op, arg, pc,       (* each request: what, of which credentials, where    *)
  read,              (* the file as the request has read it                *)
  spoiled            (* history: what two requests were about at once, or  *)
                     (* one that ended between the file and the pools      *)

request == <<op, arg, pc>>
vars == <<file, dated, lock, accounts, cookies, request, read, spoiled>>

Tokens == Credentials \ Cookies
Pooled == accounts \cup cookies

TypeOK ==
  /\ dated \subseteq file /\ file \subseteq Credentials
  /\ lock \in Handlers \cup {Nobody}
  /\ accounts \subseteq Tokens /\ cookies \subseteq Cookies
  /\ op \in [Handlers -> {"import", "delete", "list", "restore"}]
  /\ arg \in [Handlers -> SUBSET Credentials]
  /\ pc \in [Handlers -> {"Idle", "Lock", "Write", "Pool", "Read", "Heal",
                          "HealWrite", "Replace", "Build"}]
  /\ read \in [Handlers -> [held : SUBSET Credentials, dated : SUBSET Credentials]]
  /\ spoiled \subseteq Credentials
  /\ \A h \in Handlers : lock = h <=> pc[h] \in {"Write", "HealWrite"}

Nothing == [held |-> {}, dated |-> {}]

Init ==
  /\ file = {} /\ dated = {}
  /\ lock = Nobody
  /\ accounts = {} /\ cookies = {}
  /\ op = [h \in Handlers |-> "list"] /\ arg = [h \in Handlers |-> {}]
  /\ pc = [h \in Handlers |-> "Idle"]
  /\ read = [h \in Handlers |-> Nothing]
  /\ spoiled = {}

-----------------------------------------------------------------------------
Goto(h, where) == pc' = [pc EXCEPT ![h] = where]
Busy(h) == pc[h] # "Idle"

(* What a request can be about: a reader may write the whole file again.   *)
AboutOf(what, of) == IF what \in {"import", "delete"} THEN of ELSE Credentials
About(h) == IF Busy(h) THEN AboutOf(op[h], arg[h]) ELSE {}

(* What is spoiled when a request begins.  The import of a backup, which *)
(* takes no lock, is never safe beside another request, whatever that is   *)
(* about.                                                                  *)
Clash(what, of) ==
  LET busy == {h \in Handlers : Busy(h)}
  IN  IF busy # {} /\ (what = "restore" \/ \E h \in busy : op[h] = "restore")
      THEN Credentials
      ELSE AboutOf(what, of) \cap UNION {About(h) : h \in busy}

(* The request is answered, or given up with its client.                   *)
Over(h) ==
  /\ Goto(h, "Idle") /\ read' = [read EXCEPT ![h] = Nothing]
  /\ arg' = [arg EXCEPT ![h] = {}] /\ op' = [op EXCEPT ![h] = "list"]

Looks == [held |-> file, dated |-> dated]

Begin(h, what, of, where) ==
  /\ ~Busy(h) /\ Goto(h, where)
  /\ op' = [op EXCEPT ![h] = what] /\ arg' = [arg EXCEPT ![h] = of]
  /\ spoiled' = spoiled \cup Clash(what, of)
  /\ UNCHANGED <<file, dated, lock, accounts, cookies, read>>

Import(h, C) == C # {} /\ Begin(h, "import", C, "Lock")
Delete(h, c) == Begin(h, "delete", {c}, "Lock")
List(h) == Begin(h, "list", {}, "Read")
Restore(h) == Begin(h, "restore", Backup, "Replace")

-----------------------------------------------------------------------------
(* persist_tokens and delete_token read under the lock.                    *)
Lock(h) ==
  /\ pc[h] = "Lock" /\ lock = Nobody
  /\ lock' = h /\ Goto(h, "Write")
  /\ read' = [read EXCEPT ![h] = Looks]
  /\ UNCHANGED <<file, dated, accounts, cookies, op, arg, spoiled>>

New(h) == arg[h] \ read[h].held

(* persist_tokens adds what is new, with a date; arg is left with it for   *)
(* the pools.  When all is known, the answer is "exists", and no pool is   *)
(* touched.                                                                *)
PersistOverwrites(h) ==   (* mutant: the file is written, not added to *)
  /\ pc[h] = "Write" /\ op[h] = "import"
  /\ lock' = Nobody
  /\ file' = arg[h] /\ dated' = arg[h]
  /\ \/ New(h) = {} /\ Over(h)
     \/ /\ New(h) # {} /\ Goto(h, "Pool")
        /\ arg' = [arg EXCEPT ![h] = New(h)]
        /\ UNCHANGED <<op, read>>
  /\ UNCHANGED <<accounts, cookies, spoiled>>
PersistKeepsLock(h) ==   (* mutant: the lock is kept for the pools *)
  /\ pc[h] = "Write" /\ op[h] = "import"
  /\ file' = read[h].held \cup New(h) /\ dated' = read[h].dated \cup New(h)
  /\ \/ New(h) = {} /\ Over(h)
     \/ /\ New(h) # {} /\ Goto(h, "Pool")
        /\ arg' = [arg EXCEPT ![h] = New(h)]
        /\ UNCHANGED <<op, read>>
  /\ UNCHANGED <<lock, accounts, cookies, spoiled>>
Persist(h) ==
  /\ pc[h] = "Write" /\ op[h] = "import"
  /\ lock' = Nobody
  /\ file' = read[h].held \cup New(h) /\ dated' = read[h].dated \cup New(h)
  /\ \/ New(h) = {} /\ Over(h)
     \/ /\ New(h) # {} /\ Goto(h, "Pool")
        /\ arg' = [arg EXCEPT ![h] = New(h)]
        /\ UNCHANGED <<op, read>>
  /\ UNCHANGED <<accounts, cookies, spoiled>>

RemoveFromFile(h) ==
  /\ pc[h] = "Write" /\ op[h] = "delete"
  /\ lock' = Nobody
  /\ \/ /\ arg[h] \subseteq read[h].held /\ Goto(h, "Pool")
        /\ file' = read[h].held \ arg[h] /\ dated' = read[h].dated \ arg[h]
        /\ UNCHANGED <<op, arg, read>>
     \/ /\ New(h) # {} /\ Over(h)
        /\ UNCHANGED <<file, dated>>
  /\ UNCHANGED <<accounts, cookies, spoiled>>

(* persist_tokens or delete_token cannot read or write, or the import of a *)
(* backup cannot copy what there is or write the credentials: the answer   *)
(* is 500, and nothing has changed.                                        *)
Fails(h) ==
  /\ pc[h] \in {"Write", "Replace"} /\ Over(h)
  /\ lock' = IF lock = h THEN Nobody ELSE lock
  /\ UNCHANGED <<file, dated, accounts, cookies, spoiled>>

(* The pools come behind the file, an account at a time, tokens first.     *)
AddToPool(h) ==
  /\ pc[h] = "Pool" /\ op[h] = "import"
  /\ \E c \in arg[h] :
       /\ c \in Cookies => arg[h] \subseteq Cookies
       /\ accounts' = accounts \cup ({c} \cap Tokens)
       /\ cookies' = cookies \cup ({c} \cap Cookies)
       /\ IF arg[h] = {c} THEN Over(h)
          ELSE /\ arg' = [arg EXCEPT ![h] = @ \ {c}] /\ UNCHANGED <<op, pc, read>>
  /\ UNCHANGED <<file, dated, lock, spoiled>>

TakeFromFileOnly(h) ==   (* mutant: the pools keep what was deleted *)
  /\ pc[h] = "Pool" /\ op[h] = "delete" /\ Over(h)
  /\ UNCHANGED <<file, dated, lock, accounts, cookies, spoiled>>
TakeFromPool(h) ==
  /\ pc[h] = "Pool" /\ op[h] = "delete" /\ Over(h)
  /\ accounts' = accounts \ arg[h] /\ cookies' = cookies \ arg[h]
  /\ UNCHANGED <<file, dated, lock, spoiled>>

-----------------------------------------------------------------------------
(* load_tokens_healed: read without the lock, and write what was read,     *)
(* dated, if a date was missing.  A reload builds its entries from it.     *)
Read(h) ==
  /\ pc[h] = "Read"
  /\ \/ file # dated /\ Goto(h, "Heal") /\ read' = [read EXCEPT ![h] = Looks]
        /\ UNCHANGED <<op, arg>>
     \/ file = dated /\ op[h] = "list" /\ Over(h)
     \/ file = dated /\ op[h] = "restore" /\ Goto(h, "Build")
        /\ read' = [read EXCEPT ![h] = Looks] /\ UNCHANGED <<op, arg>>
  /\ UNCHANGED <<file, dated, lock, accounts, cookies, spoiled>>

LockToHeal(h) ==
  /\ pc[h] = "Heal" /\ lock = Nobody
  /\ lock' = h /\ Goto(h, "HealWrite")
  /\ UNCHANGED <<file, dated, accounts, cookies, op, arg, read, spoiled>>

Heal(h) ==
  /\ pc[h] = "HealWrite" /\ lock' = Nobody
  /\ file' = read[h].held /\ dated' = read[h].held
  /\ \/ op[h] = "list" /\ Over(h)
     \/ op[h] = "restore" /\ Goto(h, "Build") /\ UNCHANGED <<op, arg, read>>
  /\ UNCHANGED <<accounts, cookies, spoiled>>

(* The file cannot be read, or not be written: a listing is empty, and a   *)
(* reload goes on as if there were no credentials (if let Ok, web_pool.rs  *)
(* 128), which takes those of the file out of the pool.                    *)
LoadFails(h) ==
  /\ pc[h] \in {"Read", "HealWrite"}
  /\ lock' = IF lock = h THEN Nobody ELSE lock
  /\ \/ op[h] = "list" /\ Over(h) /\ UNCHANGED spoiled
     \/ /\ op[h] = "restore" /\ Goto(h, "Build") /\ UNCHANGED <<op, arg>>
        /\ read' = [read EXCEPT ![h] = Nothing] /\ spoiled' = spoiled \cup file
  /\ UNCHANGED <<file, dated, accounts, cookies>>

(* apply_import writes the credentials of the backup, with the dates they  *)
(* have (an old one has none), and no lock is asked for; the pool of       *)
(* tokens is not told.  It writes config.json after that: if it cannot,    *)
(* the answer is 500, and the pool of cookies is not told either.          *)
Replace(h) ==
  /\ pc[h] = "Replace"
  /\ file' = IF arg[h] = {} THEN file ELSE arg[h]
  /\ dated' \in IF arg[h] = {} THEN {dated} ELSE {{}, arg[h]}
  /\ \/ /\ Goto(h, "Read") /\ UNCHANGED <<op, arg, read>>
        /\ spoiled' = spoiled \cup Tokens
     \/ Over(h) /\ spoiled' = spoiled \cup About(h)
  /\ UNCHANGED <<lock, accounts, cookies>>

Reload(h) ==
  /\ pc[h] = "Build" /\ Over(h)
  /\ cookies' = read[h].held \cap Cookies
  /\ UNCHANGED <<file, dated, lock, accounts, spoiled>>

-----------------------------------------------------------------------------
(* The client goes away while its handler waits for a pool.                *)
GivenUp(h) ==
  /\ pc[h] \in {"Pool", "Build"} /\ Over(h)
  /\ spoiled' = spoiled \cup About(h)
  /\ UNCHANGED <<file, dated, lock, accounts, cookies>>

(* WebCookiePool::load reads the file, and dates it; Pool::new does not.   *)
(* If it cannot, the pool of cookies begins empty.                         *)
Restart ==
  /\ lock' = Nobody
  /\ \/ dated' = file /\ cookies' = file \cap Cookies /\ spoiled' = file \cap Tokens
     \/ dated' = dated /\ cookies' = {} /\ spoiled' = file
  /\ accounts' = {}
  /\ pc' = [h \in Handlers |-> "Idle"]
  /\ op' = [h \in Handlers |-> "list"] /\ arg' = [h \in Handlers |-> {}]
  /\ read' = [h \in Handlers |-> Nothing]
  /\ UNCHANGED file

Steps(h) ==
  \/ \E C \in SUBSET Credentials : Import(h, C)
  \/ \E c \in Credentials : Delete(h, c)
  \/ List(h) \/ Restore(h)
  \/ Lock(h) \/ Persist(h) \/ RemoveFromFile(h) \/ AddToPool(h) \/ TakeFromPool(h)
  \/ Read(h) \/ LockToHeal(h) \/ Heal(h) \/ Replace(h) \/ Reload(h)
  \/ Fails(h) \/ LoadFails(h) \/ GivenUp(h)

Next == Restart \/ \E h \in Handlers : Steps(h)

Spec == Init /\ [][Next]_vars

-----------------------------------------------------------------------------
(* Requests about other credentials do no harm, whatever fails in them: of *)
(* a credential that no two requests were about at once, none has left     *)
(* between file and pools, and none is about now, the pool of its kind     *)
(* holds it if and only if the file does.  What reads and writes the whole *)
(* file must not lose or bring back what another request has changed, also *)
(* when a read or a write of it fails (TOKENS_LOCK, and the order of file  *)
(* and pools in api.rs 1801-1834 and 1988-1995).  A restart that can read  *)
(* the file sets the pool of cookies right again.                          *)
PoolsFollowFile ==
  \A c \in Credentials \ spoiled :
    (\A h \in Handlers : c \notin About(h)) => (c \in file <=> c \in Pooled)

(* The answer is true when it is sent: an import has left what it was to   *)
(* add in the file and in a pool, a delete what it was to delete in none   *)
(* ("exists" and 404 included), but of what is spoiled.                    *)
AnswersHold ==
  [][\A h \in Handlers, c \in Credentials :
       /\ Persist(h) \/ AddToPool(h) \/ RemoveFromFile(h) \/ TakeFromPool(h)
       /\ c \in arg[h] \ spoiled /\ pc'[h] = "Idle"
       => /\ op[h] = "import" => c \in file' /\ c \in Pooled'
          /\ op[h] = "delete" => c \notin file' /\ c \notin Pooled']_vars

(* "Import, delete and dating now exclude each other: concurrent imports   *)
(* no longer overwrite each other and lose credentials" (CHANGELOG.md 297):*)
(* dating the credentials of the file takes none out and brings none back. *)
DatingLosesNothing == [][\A h \in Handlers : Heal(h) => file' = file]_vars
=============================================================================
