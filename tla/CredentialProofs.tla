--------------------------- MODULE CredentialProofs ---------------------------
(***************************************************************************)
(* Theorems about CredentialStore, for any credentials and any number of   *)
(* requests: the pools follow the file, and answers are true.              *)
(*                                                                         *)
(* Neither is inductive.  A request goes from the file to the pools, and   *)
(* between the two they differ in what it is about; and it writes the      *)
(* whole file from what it has read.  The invariant says what a request    *)
(* may rely on at each place: that no other one is about the same          *)
(* credentials, and that what it has read is still there.                  *)
(***************************************************************************)
EXTENDS CredentialStore, ExtensionImport, SequenceTheorems, TLAPS

USE StoreAssumption

(* The places of the four kinds of requests.                               *)
PlaceOfKind ==
  \A h \in Handlers :
    /\ pc[h] \in {"Lock", "Write", "Pool"} => op[h] \in {"import", "delete"}
    /\ pc[h] \in {"Read", "Heal", "HealWrite"} => op[h] \in {"list", "restore"}
    /\ pc[h] \in {"Replace", "Build"} => op[h] = "restore"
    /\ Busy(h) /\ op[h] = "delete" => \E c \in Credentials : arg[h] = {c}
    /\ read[h].dated \subseteq read[h].held

(* What two requests are about is spoiled, and so is everything beside   *)
(* the import of a backup; when that has replaced the file, tokens are.    *)
OnlyOne ==
  /\ \A h, g \in Handlers : h # g => About(h) \cap About(g) \subseteq spoiled
  /\ \A h, g \in Handlers :
       h # g /\ Busy(h) /\ Busy(g) /\ op[h] = "restore" => Credentials \subseteq spoiled
  /\ \A h \in Handlers :
       op[h] = "restore" /\ pc[h] \in {"Read", "Heal", "HealWrite", "Build"}
         => Tokens \subseteq spoiled

(* What a request has read, and is going to use, is what the file holds.   *)
ReadIsFresh ==
  \A h \in Handlers, c \in Credentials \ spoiled :
    pc[h] \in {"Write", "Heal", "HealWrite", "Build"} => (c \in read[h].held <=> c \in file)

(* A request that has changed the file, and not yet all of the pools.      *)
Between(h) ==
  \/ pc[h] = "Pool"
  \/ op[h] = "restore" /\ pc[h] \in {"Read", "Heal", "HealWrite", "Build"}

PoolsFollow ==
  \A c \in Credentials \ spoiled :
    (\A h \in Handlers : Between(h) => c \notin About(h)) => (c \in file <=> c \in Pooled)

FileIsAhead ==
  \A h \in Handlers : \A c \in arg[h] \ spoiled :
    pc[h] = "Pool" => (c \in file <=> op[h] = "import")

IInv == /\ TypeOK /\ PlaceOfKind /\ OnlyOne
        /\ ReadIsFresh /\ PoolsFollow /\ FileIsAhead

-----------------------------------------------------------------------------
(* A request begins as an import or a delete, or with the whole file.      *)
LEMMA BeginsAs ==
  ASSUME NEW h \in Handlers,
         \/ \E C \in SUBSET Credentials : Import(h, C)
         \/ \E c \in Credentials : Delete(h, c)
         \/ List(h) \/ Restore(h)
  PROVE  \E what \in {"import", "delete", "list", "restore"},
            of \in SUBSET Credentials, where \in {"Lock", "Read", "Replace"} :
           /\ Begin(h, what, of, where)
           /\ where = "Lock" => what \in {"import", "delete"}
           /\ where = "Read" => what = "list"
           /\ where = "Replace" => what = "restore"
           /\ what = "delete" => \E c \in Credentials : of = {c}
BY DEF Import, Delete, List, Restore

(* What a request does to itself, and that it leaves the others alone.     *)
LEMMA OthersStay ==
  ASSUME TypeOK, NEW h \in Handlers, NEW g \in Handlers, g # h, Steps(h)
  PROVE  pc'[g] = pc[g] /\ op'[g] = op[g] /\ arg'[g] = arg[g] /\ read'[g] = read[g]
BY DEF TypeOK, Steps, Import, Delete, List, Restore, Begin, Lock, Persist, RemoveFromFile, AddToPool,
       TakeFromPool, Read, LockToHeal, Heal, Replace, Reload, Fails, LoadFails, GivenUp, Over, Goto

-----------------------------------------------------------------------------
(* Types.                                                                  *)
LEMMA InitType == Init => TypeOK
BY DEF Init, TypeOK, Nothing

(* The types of the local variables of requests, and of what they share.   *)
RequestsTyped ==
  /\ op \in [Handlers -> {"import", "delete", "list", "restore"}]
  /\ arg \in [Handlers -> SUBSET Credentials]
  /\ pc \in [Handlers -> {"Idle", "Lock", "Write", "Pool", "Read", "Heal",
                          "HealWrite", "Replace", "Build"}]
  /\ read \in [Handlers -> [held : SUBSET Credentials, dated : SUBSET Credentials]]

SharedTyped ==
  /\ dated \subseteq file /\ file \subseteq Credentials
  /\ accounts \subseteq Tokens /\ cookies \subseteq Cookies
  /\ spoiled \subseteq Credentials

LockHeld ==
  /\ lock \in Handlers \cup {Nobody}
  /\ \A h \in Handlers : lock = h <=> pc[h] \in {"Write", "HealWrite"}

LEMMA TypeParts == TypeOK <=> RequestsTyped /\ SharedTyped /\ LockHeld
BY DEF TypeOK, RequestsTyped, SharedTyped, LockHeld

LEMMA OverType ==
  ASSUME RequestsTyped, NEW h \in Handlers, Over(h)
  PROVE  RequestsTyped' /\ pc'[h] = "Idle"
<1>1. Nothing \in [held : SUBSET Credentials, dated : SUBSET Credentials]
  BY DEF Nothing
<1> QED BY <1>1 DEF RequestsTyped, Over, Goto

LEMMA LooksType ==
  ASSUME SharedTyped
  PROVE  Looks \in [held : SUBSET Credentials, dated : SUBSET Credentials]
BY DEF SharedTyped, Looks

LEMMA StepRequestsTyped ==
  ASSUME TypeOK, NEW h \in Handlers, Steps(h)
  PROVE  RequestsTyped'
<1> USE TypeParts
<1>1. CASE Over(h)
  BY <1>1, OverType
<1>2. CASE ~Over(h)
  <2>1. CASE \/ \E C \in SUBSET Credentials : Import(h, C)
             \/ \E c \in Credentials : Delete(h, c)
             \/ List(h) \/ Restore(h)
    <3>1. PICK what \in {"import", "delete", "list", "restore"},
               of \in SUBSET Credentials, where \in {"Lock", "Read", "Replace"} :
               Begin(h, what, of, where)
      BY <2>1, BeginsAs
    <3> QED BY <3>1 DEF Begin, Goto, RequestsTyped
  <2>2. CASE Lock(h) \/ Read(h)
    <3>1. PICK where \in {"Write", "Heal", "Build"} :
            /\ pc' = [pc EXCEPT ![h] = where] /\ read' = [read EXCEPT ![h] = Looks]
            /\ UNCHANGED <<op, arg>>
      BY <1>2, <2>2 DEF Lock, Read, Goto
    <3>2. read' \in [Handlers -> [held : SUBSET Credentials, dated : SUBSET Credentials]]
      BY <3>1, LooksType DEF RequestsTyped
    <3> QED BY <3>1, <3>2 DEF RequestsTyped
  <2>3. CASE Persist(h) \/ RemoveFromFile(h)
    <3>1. New(h) \in SUBSET Credentials
      BY DEF New, RequestsTyped
    <3>2. /\ arg' = [arg EXCEPT ![h] = New(h)] \/ arg' = arg
          /\ pc' = [pc EXCEPT ![h] = "Pool"] /\ UNCHANGED <<op, read>>
      BY <1>2, <2>3 DEF Persist, RemoveFromFile, Goto
    <3> QED BY <3>1, <3>2 DEF RequestsTyped
  <2>4. CASE AddToPool(h)
    <3>1. PICK c \in arg[h] : arg' = [arg EXCEPT ![h] = @ \ {c}] /\ UNCHANGED <<op, pc, read>>
      BY <1>2, <2>4 DEF AddToPool
    <3>2. arg[h] \ {c} \in SUBSET Credentials
      BY DEF RequestsTyped
    <3> QED BY <3>1, <3>2 DEF RequestsTyped
  <2>5. CASE LockToHeal(h) \/ Heal(h) \/ Replace(h)
    BY <1>2, <2>5 DEF LockToHeal, Heal, Replace, Goto, RequestsTyped
  <2>6. CASE LoadFails(h)
    <3>1. /\ pc' = [pc EXCEPT ![h] = "Build"] /\ read' = [read EXCEPT ![h] = Nothing]
          /\ UNCHANGED <<op, arg>>
      BY <1>2, <2>6 DEF LoadFails, Goto
    <3>2. Nothing \in [held : SUBSET Credentials, dated : SUBSET Credentials]
      BY DEF Nothing
    <3> QED BY <3>1, <3>2 DEF RequestsTyped
  <2>7. ~TakeFromPool(h) /\ ~Reload(h) /\ ~Fails(h) /\ ~GivenUp(h)
    BY <1>2 DEF TakeFromPool, Reload, Fails, GivenUp
  <2> QED BY <2>1, <2>2, <2>3, <2>4, <2>5, <2>6, <2>7 DEF Steps
<1> QED BY <1>1, <1>2

LEMMA StepSharedTyped ==
  ASSUME TypeOK, PlaceOfKind, NEW h \in Handlers, Steps(h)
  PROVE  SharedTyped'
<1> USE TypeParts
<1>1. CASE \/ \E C \in SUBSET Credentials : Import(h, C)
           \/ \E c \in Credentials : Delete(h, c)
           \/ List(h) \/ Restore(h)
  <2>1. PICK what \in {"import", "delete", "list", "restore"},
             of \in SUBSET Credentials, where \in {"Lock", "Read", "Replace"} :
             Begin(h, what, of, where)
    BY <1>1, BeginsAs
  <2>2. spoiled' \subseteq Credentials
    BY <2>1 DEF Begin, Clash, AboutOf, SharedTyped
  <2> QED BY <2>1, <2>2 DEF Begin, SharedTyped
<1>2. CASE Persist(h)
  BY <1>2 DEF Persist, New, PlaceOfKind, SharedTyped, RequestsTyped
<1>3. CASE RemoveFromFile(h)
  BY <1>3 DEF RemoveFromFile, PlaceOfKind, SharedTyped, RequestsTyped
<1>4. CASE AddToPool(h) \/ TakeFromPool(h)
  BY <1>4 DEF AddToPool, TakeFromPool, SharedTyped
<1>5. CASE Heal(h)
  BY <1>5 DEF Heal, SharedTyped, RequestsTyped
<1>6. CASE Replace(h)
  BY <1>6 DEF Replace, Tokens, About, AboutOf, SharedTyped, RequestsTyped
<1>7. CASE Reload(h)
  BY <1>7 DEF Reload, SharedTyped
<1>8. CASE GivenUp(h)
  BY <1>8 DEF GivenUp, About, AboutOf, SharedTyped, RequestsTyped
<1>9. CASE Lock(h) \/ Read(h) \/ LockToHeal(h) \/ Fails(h) \/ LoadFails(h)
  BY <1>9 DEF Lock, Read, LockToHeal, Fails, LoadFails, SharedTyped
<1> QED
  BY <1>1, <1>2, <1>3, <1>4, <1>5, <1>6, <1>7, <1>8, <1>9 DEF Steps

(* The lock is taken by who is going to write, and free when it is idle.   *)
LEMMA StepLockHeld ==
  ASSUME TypeOK, NEW h \in Handlers, Steps(h)
  PROVE  LockHeld'
<1>1. \A g \in Handlers : g # h => pc'[g] = pc[g]
  BY OthersStay
<1>2. \/ lock' = lock /\ pc[h] \notin {"Write", "HealWrite"} /\ pc'[h] \notin {"Write", "HealWrite"}
      \/ lock = Nobody /\ lock' = h /\ pc'[h] \in {"Write", "HealWrite"}
      \/ lock = h /\ lock' = Nobody /\ pc'[h] \notin {"Write", "HealWrite"}
  BY DEF TypeOK, Steps, Import, Delete, List, Restore, Begin, Busy, Lock, Persist, RemoveFromFile,
     AddToPool, TakeFromPool, Read, LockToHeal, Heal, Replace, Reload,
     Fails, LoadFails, GivenUp, Over, Goto
<1> QED BY <1>1, <1>2, TypeParts DEF LockHeld

LEMMA StepType ==
  ASSUME TypeOK, PlaceOfKind, NEW h \in Handlers, Steps(h)
  PROVE  TypeOK'
<1>1. RequestsTyped' /\ SharedTyped' /\ LockHeld'
  BY StepRequestsTyped, StepSharedTyped, StepLockHeld
<1> QED
  BY <1>1 DEF TypeOK, RequestsTyped, SharedTyped, LockHeld

LEMMA RestartType ==
  ASSUME TypeOK, Restart
  PROVE  TypeOK'
BY DEF TypeOK, Restart, Nothing, Tokens

-----------------------------------------------------------------------------
(* Steps of a request that is under way.                                   *)
GoesOn(h) ==
  \/ Lock(h) \/ Persist(h) \/ RemoveFromFile(h) \/ AddToPool(h) \/ TakeFromPool(h)
  \/ Read(h) \/ LockToHeal(h) \/ Heal(h) \/ Replace(h) \/ Reload(h)
  \/ Fails(h) \/ LoadFails(h) \/ GivenUp(h)

(* A request that goes on is about no more than before, and about nothing  *)
(* when it is over.                                                        *)
LEMMA AboutLess ==
  ASSUME TypeOK, PlaceOfKind, NEW h \in Handlers, GoesOn(h)
  PROVE  /\ Busy(h) /\ About(h)' \subseteq About(h) /\ spoiled \subseteq spoiled'
         /\ \/ op'[h] = op[h] /\ pc'[h] # "Idle" /\ arg'[h] \subseteq arg[h]
            \/ op'[h] = "list" /\ pc'[h] = "Idle" /\ arg'[h] = {}
<1>1. Busy(h) /\ spoiled \subseteq spoiled'
  BY DEF GoesOn, Lock, Persist, RemoveFromFile, AddToPool, TakeFromPool, Read, LockToHeal, Heal,
         Replace, Reload, Fails, LoadFails, GivenUp, Busy
<1>2. \/ op'[h] = op[h] /\ pc'[h] # "Idle" /\ arg'[h] \subseteq arg[h]
      \/ op'[h] = "list" /\ pc'[h] = "Idle" /\ arg'[h] = {}
  BY DEF TypeOK, GoesOn, Lock, Persist, RemoveFromFile, AddToPool, TakeFromPool, Read, LockToHeal, Heal,
         Replace, Reload, Fails, LoadFails, GivenUp, Over, Goto, New
<1>3. About(h)' \subseteq About(h)
  BY <1>1, <1>2 DEF About, AboutOf, Busy
<1> QED BY <1>1, <1>2, <1>3

LEMMA AboutOthers ==
  ASSUME TypeOK, NEW h \in Handlers, NEW g \in Handlers, g # h, Steps(h)
  PROVE  About(g)' = About(g) /\ Busy(g)' = Busy(g)
BY OthersStay DEF About, Busy

(* What is not spoiled in the end was not spoiled before.              *)
LEMMA SpoiledGrows ==
  ASSUME NEW h \in Handlers, Steps(h)
  PROVE  spoiled \subseteq spoiled'
BY DEF Steps, Import, Delete, List, Restore, Begin, Lock, Persist, RemoveFromFile, AddToPool,
       TakeFromPool, Read, LockToHeal, Heal, Replace, Reload, Fails, LoadFails, GivenUp

-----------------------------------------------------------------------------
LEMMA StepPlace ==
  ASSUME TypeOK, PlaceOfKind, NEW h \in Handlers, Steps(h)
  PROVE  PlaceOfKind'
<1> DEFINE P(g) ==
      /\ pc'[g] \in {"Lock", "Write", "Pool"} => op'[g] \in {"import", "delete"}
      /\ pc'[g] \in {"Read", "Heal", "HealWrite"} => op'[g] \in {"list", "restore"}
      /\ pc'[g] \in {"Replace", "Build"} => op'[g] = "restore"
      /\ pc'[g] # "Idle" /\ op'[g] = "delete" => \E c \in Credentials : arg'[g] = {c}
      /\ read'[g].dated \subseteq read'[g].held
<1>1. ASSUME NEW g \in Handlers, g # h
      PROVE  P(g)
  BY <1>1, OthersStay DEF PlaceOfKind, Busy
<1>2. P(h)
  <2>1. CASE \/ \E C \in SUBSET Credentials : Import(h, C)
             \/ \E c \in Credentials : Delete(h, c)
             \/ List(h) \/ Restore(h)
    <3>1. PICK what \in {"import", "delete", "list", "restore"},
               of \in SUBSET Credentials, where \in {"Lock", "Read", "Replace"} :
            /\ Begin(h, what, of, where)
            /\ where = "Lock" => what \in {"import", "delete"}
            /\ where = "Read" => what = "list"
            /\ where = "Replace" => what = "restore"
            /\ what = "delete" => \E c \in Credentials : of = {c}
      BY <2>1, BeginsAs
    <3>2. pc'[h] = where /\ op'[h] = what /\ arg'[h] = of /\ read' = read
      BY <3>1 DEF Begin, Goto, TypeOK
    <3> QED BY <3>1, <3>2 DEF PlaceOfKind
  <2>2. CASE GoesOn(h)
    <3>1. read'[h].dated \subseteq read'[h].held
      BY <2>2 DEF TypeOK, PlaceOfKind, GoesOn, Lock, Persist, RemoveFromFile, AddToPool, TakeFromPool,
         Read, LockToHeal, Heal, Replace, Reload,
         Fails, LoadFails, GivenUp, Over, Goto, Looks, Nothing
    <3>2. /\ pc'[h] \in {"Lock", "Write", "Pool"} => op'[h] \in {"import", "delete"}
          /\ pc'[h] \in {"Read", "Heal", "HealWrite"} => op'[h] \in {"list", "restore"}
          /\ pc'[h] \in {"Replace", "Build"} => op'[h] = "restore"
      BY <2>2 DEF TypeOK, PlaceOfKind, GoesOn, Lock, Persist, RemoveFromFile, AddToPool, TakeFromPool,
         Read, LockToHeal, Heal, Replace, Reload, Fails, LoadFails, GivenUp, Over, Goto
    <3>3. pc'[h] # "Idle" /\ op'[h] = "delete" => op[h] = "delete" /\ arg'[h] = arg[h]
      BY <2>2, AboutLess DEF TypeOK, GoesOn, Lock, Persist, RemoveFromFile, AddToPool, TakeFromPool,
         Read, LockToHeal, Heal, Replace, Reload, Fails, LoadFails, GivenUp, Over, Goto
    <3>4. Busy(h)
      BY <2>2, AboutLess
    <3> QED BY <3>1, <3>2, <3>3, <3>4 DEF PlaceOfKind
  <2> QED BY <2>1, <2>2 DEF Steps, GoesOn
<1>3. \A g \in Handlers : P(g)
  BY <1>1, <1>2
<1> QED BY <1>3 DEF PlaceOfKind, Busy

(* What a request that begins finds under way, or would be in its way, is  *)
(* spoiled from then on.                                                 *)
LEMMA BeginSpoils ==
  ASSUME TypeOK, NEW h \in Handlers, NEW what \in {"import", "delete", "list", "restore"},
         NEW of \in SUBSET Credentials, NEW where \in {"Lock", "Read", "Replace"},
         Begin(h, what, of, where)
  PROVE  /\ ~Busy(h) /\ pc'[h] = where /\ op'[h] = what /\ arg'[h] = of
         /\ \A g \in Handlers : Busy(g) =>
              /\ About(h)' \cap About(g) \subseteq spoiled'
              /\ what = "restore" \/ op[g] = "restore" => Credentials \subseteq spoiled'
<1>1. ~Busy(h) /\ pc'[h] = where /\ op'[h] = what /\ arg'[h] = of
  BY DEF Begin, Goto, TypeOK
<1>2. About(h)' = AboutOf(what, of)
  BY <1>1 DEF About, Busy
<1>3. spoiled' = spoiled \cup Clash(what, of)
  BY DEF Begin
<1>4. ASSUME NEW g \in Handlers, Busy(g)
      PROVE  About(g) \subseteq Credentials
  BY DEF About, AboutOf, TypeOK
<1>5. ASSUME NEW g \in Handlers, Busy(g)
      PROVE  /\ About(h)' \cap About(g) \subseteq spoiled'
             /\ what = "restore" \/ op[g] = "restore" => Credentials \subseteq spoiled'
  <2>1. CASE what = "restore" \/ \E k \in {k \in Handlers : Busy(k)} : op[k] = "restore"
    <3>1. Clash(what, of) = Credentials
      BY <1>5, <2>1 DEF Clash
    <3> QED BY <1>3, <1>4, <1>5, <3>1
  <2>2. CASE ~(what = "restore" \/ \E k \in {k \in Handlers : Busy(k)} : op[k] = "restore")
    <3>1. Clash(what, of) = AboutOf(what, of) \cap UNION {About(k) : k \in {k \in Handlers : Busy(k)}}
      BY <2>2 DEF Clash
    <3>2. g \in {k \in Handlers : Busy(k)}
      BY <1>5
    <3>3. AboutOf(what, of) \cap About(g) \subseteq Clash(what, of)
      BY <3>1, <3>2
    <3> QED BY <1>2, <1>3, <2>2, <3>2, <3>3
  <2> QED BY <2>1, <2>2
<1> QED BY <1>1, <1>5

(* No two requests are about the same, but for what is spoiled.          *)
LEMMA StepOnlyOne ==
  ASSUME TypeOK, PlaceOfKind, OnlyOne, NEW h \in Handlers, Steps(h)
  PROVE  OnlyOne'
<1> DEFINE Clear(f, g) ==
      /\ About(f)' \cap About(g)' \subseteq spoiled'
      /\ pc'[f] # "Idle" /\ pc'[g] # "Idle" /\ op'[f] = "restore" => Credentials \subseteq spoiled'
           Told(f) ==
      op'[f] = "restore" /\ pc'[f] \in {"Read", "Heal", "HealWrite", "Build"}
        => Tokens \subseteq spoiled'
<1>1. spoiled \subseteq spoiled'
  BY SpoiledGrows
<1>2. ASSUME NEW f \in Handlers, NEW g \in Handlers, f # g, f # h, g # h
      PROVE  Clear(f, g)
  BY <1>1, <1>2, AboutOthers, OthersStay DEF OnlyOne, Busy
<1>3. ASSUME NEW f \in Handlers, f # h
      PROVE  Told(f)
  BY <1>1, <1>3, OthersStay DEF OnlyOne
<1>4. ASSUME NEW g \in Handlers, g # h
      PROVE  Clear(h, g) /\ Clear(g, h)
  <2>1. About(g)' = About(g) /\ pc'[g] = pc[g] /\ op'[g] = op[g]
    BY <1>4, AboutOthers, OthersStay
  <2>2. CASE GoesOn(h)
    <3>1. Busy(h) /\ About(h)' \subseteq About(h) /\ (op'[h] = "restore" => op[h] = "restore")
      BY <2>2, AboutLess
    <3> QED BY <1>1, <1>4, <2>1, <3>1 DEF OnlyOne, Busy
  <2>3. CASE ~GoesOn(h)
    <3>1. PICK what \in {"import", "delete", "list", "restore"},
               of \in SUBSET Credentials, where \in {"Lock", "Read", "Replace"} :
               Begin(h, what, of, where)
      BY <2>3, BeginsAs DEF Steps, GoesOn
    <3>2. op'[h] = what
      BY <3>1, BeginSpoils
    <3>3. CASE Busy(g)
      BY <1>4, <2>1, <3>1, <3>2, <3>3, BeginSpoils
    <3>4. CASE ~Busy(g)
      BY <2>1, <3>4 DEF About, Busy
    <3> QED BY <3>3, <3>4
  <2> QED BY <2>2, <2>3
<1>5. Told(h)
  <2>1. CASE GoesOn(h)
    <3>1. CASE Replace(h)
      BY <3>1 DEF Replace, Over, Goto, TypeOK
    <3>2. CASE ~Replace(h)
      <4>1. op'[h] = "restore" /\ pc'[h] \in {"Read", "Heal", "HealWrite", "Build"}
              => op[h] = "restore" /\ pc[h] \in {"Read", "Heal", "HealWrite", "Build"}
        BY <2>1, <3>2 DEF TypeOK, PlaceOfKind, GoesOn, Lock, Persist, RemoveFromFile, AddToPool,
           TakeFromPool, Read, LockToHeal, Heal, Reload, Fails, LoadFails, GivenUp, Over, Goto
      <4> QED BY <1>1, <4>1 DEF OnlyOne
    <3> QED BY <3>1, <3>2
  <2>2. CASE ~GoesOn(h)
    <3>1. PICK what \in {"import", "delete", "list", "restore"},
               of \in SUBSET Credentials, where \in {"Lock", "Read", "Replace"} :
               Begin(h, what, of, where) /\ (where = "Read" => what = "list")
      BY <2>2, BeginsAs DEF Steps, GoesOn
    <3>2. op'[h] = what /\ pc'[h] = where
      BY <3>1, BeginSpoils
    <3> QED BY <3>1, <3>2
  <2> QED BY <2>1, <2>2
<1>6. \A f, g \in Handlers : f # g => Clear(f, g)
  BY <1>2, <1>4
<1>7. \A f \in Handlers : Told(f)
  BY <1>3, <1>5
<1> QED BY <1>6, <1>7 DEF OnlyOne, Busy

-----------------------------------------------------------------------------
(* What a write does to a credential that is not spoiled: nothing, but   *)
(* where the request is about it, and imports or deletes it.               *)
LEMMA FileStep ==
  ASSUME TypeOK, PlaceOfKind, OnlyOne, ReadIsFresh, NEW h \in Handlers, Steps(h), ~Replace(h),
         NEW c \in Credentials \ spoiled, c \notin arg[h] \/ pc[h] # "Write"
  PROVE  c \in file' <=> c \in file
<1>1. CASE Persist(h)
  BY <1>1 DEF Persist, New, ReadIsFresh
<1>2. CASE RemoveFromFile(h)
  BY <1>2 DEF RemoveFromFile, ReadIsFresh
<1>3. CASE Heal(h)
  BY <1>3 DEF Heal, ReadIsFresh
<1>4. CASE ~Persist(h) /\ ~RemoveFromFile(h) /\ ~Heal(h)
  BY <1>4 DEF Steps, Import, Delete, List, Restore, Begin, Lock, AddToPool, TakeFromPool,
     Read, LockToHeal, Reload, Fails, LoadFails, GivenUp
<1> QED BY <1>1, <1>2, <1>3, <1>4

(* To another request that is under way nothing happens that it does not   *)
(* know of, unless it is spoiled.                                        *)
LEMMA FileOfOthers ==
  ASSUME TypeOK, PlaceOfKind, OnlyOne, ReadIsFresh, NEW h \in Handlers, Steps(h),
         NEW g \in Handlers, g # h, Busy(g),
         NEW c \in Credentials \ spoiled', c \in About(g)
  PROVE  c \in file' <=> c \in file
<1>1. c \notin spoiled
  BY SpoiledGrows
<1>2. ~Replace(h)
  <2>1. Replace(h) => Busy(h) /\ op[h] = "restore"
    BY DEF Replace, PlaceOfKind, Busy
  <2> QED BY <1>1, <2>1 DEF OnlyOne
<1>3. c \notin arg[h] \/ pc[h] # "Write"
  <2>1. c \notin About(h)
    BY <1>1 DEF OnlyOne
  <2> QED BY <2>1 DEF About, AboutOf, Busy, PlaceOfKind
<1> QED BY <1>1, <1>2, <1>3, FileStep

LEMMA StepReadIsFresh ==
  ASSUME TypeOK, PlaceOfKind, OnlyOne, ReadIsFresh, NEW h \in Handlers, Steps(h)
  PROVE  ReadIsFresh'
<1>1. spoiled \subseteq spoiled'
  BY SpoiledGrows
<1>2. ASSUME NEW g \in Handlers, g # h, NEW c \in Credentials \ spoiled',
             pc'[g] \in {"Write", "Heal", "HealWrite", "Build"}
      PROVE  c \in read'[g].held <=> c \in file'
  <2>1. pc'[g] = pc[g] /\ read'[g] = read[g] /\ Busy(g)
    BY <1>2, OthersStay DEF Busy
  <2>2. c \in read[g].held <=> c \in file
    BY <1>1, <1>2, <2>1 DEF ReadIsFresh
  <2>3. CASE pc[g] = "Write"
    <3>1. lock = g
      BY <2>3 DEF TypeOK
    <3>2. ~Persist(h) /\ ~RemoveFromFile(h) /\ ~Heal(h)
      BY <1>2, <3>1 DEF TypeOK, Persist, RemoveFromFile, Heal
    <3>3. ~Replace(h)
      <4>1. Replace(h) => Busy(h) /\ op[h] = "restore"
        BY DEF Replace, PlaceOfKind, Busy
      <4> QED BY <1>1, <1>2, <2>1, <4>1 DEF OnlyOne
    <3>4. file' = file
      BY <3>2, <3>3 DEF Steps, Import, Delete, List, Restore, Begin, Lock, AddToPool,
         TakeFromPool, Read, LockToHeal, Reload, Fails, LoadFails, GivenUp
    <3> QED BY <2>1, <2>2, <3>4
  <2>4. CASE pc[g] # "Write"
    <3>1. op[g] \in {"list", "restore"}
      BY <1>2, <2>1, <2>4 DEF PlaceOfKind
    <3>2. c \in About(g)
      BY <1>2, <2>1, <3>1 DEF About, AboutOf
    <3> QED BY <1>2, <2>1, <2>2, <3>2, FileOfOthers
  <2> QED BY <2>3, <2>4
<1>3. ASSUME NEW c \in Credentials \ spoiled',
             pc'[h] \in {"Write", "Heal", "HealWrite", "Build"}
      PROVE  c \in read'[h].held <=> c \in file'
  <2>1. CASE Lock(h) \/ Read(h)
    BY <1>3, <2>1 DEF Lock, Read, Looks, Over, Goto, TypeOK
  <2>2. CASE LockToHeal(h)
    BY <1>3, <2>2 DEF LockToHeal, Goto, TypeOK, ReadIsFresh
  <2>3. CASE Heal(h)
    BY <1>3, <2>3 DEF Heal, Over, Goto, TypeOK
  <2>4. ~Persist(h) /\ ~RemoveFromFile(h) /\ ~AddToPool(h) /\ ~TakeFromPool(h) /\ ~Replace(h)
        /\ ~Reload(h) /\ ~Fails(h) /\ ~GivenUp(h)
    BY <1>3 DEF Persist, RemoveFromFile, AddToPool, TakeFromPool, Replace, Reload, Fails, GivenUp,
       Over, Goto, TypeOK
  <2>5. CASE \/ \E C \in SUBSET Credentials : Import(h, C)
             \/ \E d \in Credentials : Delete(h, d)
             \/ List(h) \/ Restore(h)
    BY <1>3, <2>5 DEF Import, Delete, List, Restore, Begin, Goto, TypeOK
  <2>6. CASE LoadFails(h)
    BY <1>3, <2>6 DEF LoadFails, Over, Goto, Nothing, TypeOK
  <2> QED BY <2>1, <2>2, <2>3, <2>4, <2>5, <2>6 DEF Steps
<1> QED BY <1>2, <1>3 DEF ReadIsFresh

LEMMA StepFileIsAhead ==
  ASSUME TypeOK, PlaceOfKind, OnlyOne, ReadIsFresh, FileIsAhead, NEW h \in Handlers, Steps(h)
  PROVE  FileIsAhead'
<1>1. spoiled \subseteq spoiled'
  BY SpoiledGrows
<1>2. ASSUME NEW g \in Handlers, g # h, NEW c \in arg'[g] \ spoiled', pc'[g] = "Pool"
      PROVE  c \in file' <=> op'[g] = "import"
  <2>1. pc[g] = "Pool" /\ op'[g] = op[g] /\ arg'[g] = arg[g] /\ Busy(g)
    BY <1>2, OthersStay DEF Busy
  <2>2. c \in file <=> op[g] = "import"
    BY <1>1, <1>2, <2>1 DEF FileIsAhead
  <2>3. c \in About(g) /\ c \in Credentials
    BY <1>2, <2>1 DEF About, AboutOf, PlaceOfKind, TypeOK
  <2>4. c \in file' <=> c \in file
    BY <1>2, <2>1, <2>3, FileOfOthers
  <2> QED BY <2>1, <2>2, <2>4
<1>3. ASSUME NEW c \in arg'[h] \ spoiled', pc'[h] = "Pool"
      PROVE  c \in file' <=> op'[h] = "import"
  <2>1. CASE Persist(h)
    BY <1>3, <2>1 DEF Persist, New, Over, Goto, TypeOK
  <2>2. CASE RemoveFromFile(h)
    BY <1>3, <2>2 DEF RemoveFromFile, Over, Goto, TypeOK
  <2>3. CASE AddToPool(h)
    BY <1>1, <1>3, <2>3 DEF AddToPool, Over, Goto, TypeOK, FileIsAhead
  <2>4. ~Persist(h) /\ ~RemoveFromFile(h) /\ ~AddToPool(h) => pc'[h] # "Pool"
    BY DEF TypeOK, Steps, Import, Delete, List, Restore, Begin, Lock, TakeFromPool, Read,
       LockToHeal, Heal, Replace, Reload, Fails, LoadFails, GivenUp, Over, Goto
  <2> QED BY <1>3, <2>1, <2>2, <2>3, <2>4
<1> QED BY <1>2, <1>3 DEF FileIsAhead

-----------------------------------------------------------------------------
(* The pools follow, if the file and they are left as they are, and no     *)
(* request was between the two that is not now.                            *)
LEMMA NothingPooled ==
  ASSUME TypeOK, PoolsFollow, NEW h \in Handlers, Steps(h),
         NEW c \in Credentials \ spoiled',
         \A g \in Handlers : Between(g)' => c \notin About(g)',
         Between(h) => c \notin About(h),
         c \in file' <=> c \in file, c \in Pooled' <=> c \in Pooled
  PROVE  c \in file' <=> c \in Pooled'
<1>1. c \notin spoiled
  BY SpoiledGrows
<1>2. ASSUME NEW g \in Handlers, g # h, Between(g)
      PROVE  c \notin About(g)
  BY <1>2, AboutOthers, OthersStay DEF Between
<1> QED BY <1>1, <1>2 DEF PoolsFollow

LEMMA StepPoolsFollow ==
  ASSUME IInv, NEW h \in Handlers, Steps(h)
  PROVE  PoolsFollow'
<1> SUFFICES ASSUME NEW c \in Credentials \ spoiled',
                    \A g \in Handlers : Between(g)' => c \notin About(g)'
             PROVE  c \in file' <=> c \in Pooled'
  BY DEF PoolsFollow
<1> USE DEF IInv
<1>1. c \notin spoiled
  BY SpoiledGrows
<1>2. CASE \/ \E C \in SUBSET Credentials : Import(h, C)
           \/ \E d \in Credentials : Delete(h, d)
           \/ List(h) \/ Restore(h)
  <2>1. UNCHANGED <<file, accounts, cookies>> /\ ~Busy(h)
    BY <1>2 DEF Import, Delete, List, Restore, Begin
  <2> QED BY <2>1, NothingPooled DEF Between, Busy, Pooled
<1>3. CASE Lock(h) \/ LockToHeal(h) \/ Read(h)
  <2>1. UNCHANGED <<file, accounts, cookies>>
    BY <1>3 DEF Lock, LockToHeal, Read
  <2>2. Between(h) => Between(h)' /\ About(h)' = About(h)
    BY <1>3 DEF Lock, LockToHeal, Read, Between, About, AboutOf, Busy, Over, Goto, TypeOK,
       PlaceOfKind
  <2> QED BY <2>1, <2>2, NothingPooled DEF Pooled
<1>4. CASE Persist(h)
  <2>1. c \notin New(h)
    <3>1. c \in New(h) => pc'[h] = "Pool" /\ op'[h] = "import" /\ arg'[h] = New(h)
      BY <1>4 DEF Persist, Goto, TypeOK
    <3>2. c \in New(h) => Between(h)' /\ c \in About(h)'
      BY <3>1 DEF Between, About, AboutOf, Busy
    <3> QED BY <3>2
  <2>2. c \in file' <=> c \in file
    BY <1>1, <1>4, <2>1 DEF Persist, ReadIsFresh
  <2>3. ~Between(h) /\ UNCHANGED <<accounts, cookies>>
    BY <1>4 DEF Persist, Between
  <2> QED BY <2>2, <2>3, NothingPooled DEF Pooled
<1>5. CASE RemoveFromFile(h)
  <2>1. CASE arg[h] \subseteq read[h].held /\ Goto(h, "Pool")
             /\ file' = read[h].held \ arg[h] /\ UNCHANGED <<op, arg, read>>
    <3>1. Between(h)' /\ About(h)' = arg[h]
      BY <1>5, <2>1 DEF RemoveFromFile, Goto, TypeOK, Between, About, AboutOf, Busy
    <3>2. c \in file' <=> c \in file
      BY <1>1, <1>5, <2>1, <3>1 DEF RemoveFromFile, ReadIsFresh
    <3>3. ~Between(h) /\ UNCHANGED <<accounts, cookies>>
      BY <1>5 DEF RemoveFromFile, Between
    <3> QED BY <3>2, <3>3, NothingPooled DEF Pooled
  <2>2. CASE file' = file
    <3>1. ~Between(h) /\ UNCHANGED <<accounts, cookies>>
      BY <1>5 DEF RemoveFromFile, Between
    <3> QED BY <2>2, <3>1, NothingPooled DEF Pooled
  <2> QED BY <1>5, <2>1, <2>2 DEF RemoveFromFile
<1>6. CASE AddToPool(h)
  <2>1. PICK d \in arg[h] :
          /\ accounts' = accounts \cup ({d} \cap Tokens)
          /\ cookies' = cookies \cup ({d} \cap Cookies)
          /\ IF arg[h] = {d} THEN Over(h)
             ELSE /\ arg' = [arg EXCEPT ![h] = @ \ {d}] /\ UNCHANGED <<op, pc, read>>
    BY <1>6 DEF AddToPool
  <2>2. pc[h] = "Pool" /\ op[h] = "import" /\ file' = file /\ spoiled' = spoiled
    BY <1>6 DEF AddToPool
  <2>3. CASE c = d
    BY <1>1, <2>1, <2>2, <2>3 DEF FileIsAhead, Pooled, Tokens
  <2>4. CASE c # d
    <3>1. c \notin arg[h]
      <4>1. SUFFICES ASSUME c \in arg[h] PROVE FALSE
        OBVIOUS
      <4>2. arg'[h] = arg[h] \ {d} /\ pc' = pc /\ op' = op
        BY <2>1, <2>4, <4>1 DEF TypeOK
      <4> QED BY <2>2, <2>4, <4>1, <4>2 DEF Between, About, AboutOf, Busy
    <3>2. c \notin About(h)
      BY <2>2, <3>1 DEF About, AboutOf, Busy
    <3>3. c \in Pooled' <=> c \in Pooled
      BY <2>1, <2>4 DEF Pooled
    <3> QED BY <2>2, <3>2, <3>3, NothingPooled
  <2> QED BY <2>3, <2>4
<1>7. CASE TakeFromPool(h)
  <2>1. CASE c \in arg[h]
    BY <1>1, <1>7, <2>1 DEF TakeFromPool, FileIsAhead, Pooled
  <2>2. CASE c \notin arg[h]
    <3>1. c \notin About(h)
      BY <1>7, <2>2 DEF TakeFromPool, About, AboutOf, Busy
    <3>2. file' = file /\ (c \in Pooled' <=> c \in Pooled)
      BY <1>7, <2>2 DEF TakeFromPool, Pooled
    <3> QED BY <3>1, <3>2, NothingPooled
  <2> QED BY <2>1, <2>2
<1>8. CASE Heal(h)
  <2>1. Between(h) => Between(h)' /\ About(h)' = About(h)
    BY <1>8 DEF Heal, Between, About, AboutOf, Busy, Over, Goto, TypeOK
  <2>2. (c \in file' <=> c \in file) /\ UNCHANGED <<accounts, cookies>>
    BY <1>1, <1>8 DEF Heal, ReadIsFresh
  <2> QED BY <2>1, <2>2, NothingPooled DEF Pooled
<1>9. ~Replace(h)
  <2>1. Replace(h) => About(h) = Credentials
    BY DEF Replace, PlaceOfKind, About, AboutOf, Busy
  <2>2. Replace(h) /\ ~Over(h) => Between(h)' /\ About(h)' = Credentials
    BY DEF Replace, Goto, TypeOK, PlaceOfKind, Between, About, AboutOf, Busy
  <2>3. Replace(h) /\ Over(h) => spoiled' = spoiled \cup About(h)
    BY DEF Replace, Over, Goto, TypeOK
  <2> QED BY <2>1, <2>2, <2>3
<1>10. CASE Reload(h)
  <2>1. c \in Cookies
    BY <1>1, <1>10 DEF Reload, OnlyOne, PlaceOfKind, Tokens
  <2>2. c \in cookies' <=> c \in file
    BY <1>1, <1>10, <2>1 DEF Reload, ReadIsFresh
  <2>3. file' = file /\ c \notin accounts'
    BY <1>10, <2>1 DEF Reload, TypeOK, Tokens
  <2> QED BY <2>2, <2>3 DEF Pooled
<1>11. CASE GivenUp(h)
  <2>1. c \notin About(h) /\ UNCHANGED <<file, accounts, cookies>>
    BY <1>11 DEF GivenUp
  <2> QED BY <2>1, NothingPooled DEF Pooled
<1>12. CASE Fails(h)
  <2>1. UNCHANGED <<file, accounts, cookies>> /\ ~Between(h)
    BY <1>12 DEF Fails, Between
  <2> QED BY <2>1, NothingPooled DEF Pooled
<1>13. CASE LoadFails(h)
  <2>1. UNCHANGED <<file, accounts, cookies>>
    BY <1>13 DEF LoadFails
  <2>2. Between(h) => Between(h)' /\ About(h)' = About(h)
    BY <1>13 DEF LoadFails, Between, About, AboutOf, Busy, Over, Goto, TypeOK
  <2> QED BY <2>1, <2>2, NothingPooled DEF Pooled
<1> QED
  BY <1>2, <1>3, <1>4, <1>5, <1>6, <1>7, <1>8, <1>9, <1>10, <1>11, <1>12, <1>13 DEF Steps

-----------------------------------------------------------------------------
(* The invariant holds at the start and after a restart, when there are no *)
(* requests, and what is in the file and in no pool is spoiled.            *)
LEMMA InitIInv == Init => IInv
<1> SUFFICES ASSUME Init PROVE IInv
  OBVIOUS
<1>1. TypeOK
  BY InitType
<1>2. \A h \in Handlers : ~Busy(h) /\ About(h) = {} /\ op[h] = "list" /\ read[h] = Nothing
  BY DEF Init, Busy, About
<1> QED
  BY <1>1, <1>2 DEF Init, IInv, PlaceOfKind, OnlyOne, ReadIsFresh, PoolsFollow, FileIsAhead,
     Between, Busy, Pooled, Nothing

LEMMA RestartIInv ==
  ASSUME IInv, Restart
  PROVE  IInv'
<1>1. TypeOK'
  BY RestartType DEF IInv
<1>2. \A h \in Handlers :
        /\ pc'[h] = "Idle" /\ About(h)' = {} /\ op'[h] = "list" /\ read'[h] = Nothing
        /\ arg'[h] = {}
  BY DEF Restart, Busy, About
<1>3. PoolsFollow'
  <2>1. \A c \in Credentials \ spoiled' : c \in file' <=> c \in Pooled'
    BY DEF Restart, Tokens, Pooled
  <2> QED BY <2>1 DEF PoolsFollow
<1> QED
  BY <1>1, <1>2, <1>3 DEF IInv, PlaceOfKind, OnlyOne, ReadIsFresh, FileIsAhead, Busy, Nothing

LEMMA NextIInv == IInv /\ [Next]_vars => IInv'
<1> SUFFICES ASSUME IInv, [Next]_vars PROVE IInv'
  OBVIOUS
<1>1. ASSUME NEW h \in Handlers, Steps(h)
      PROVE  IInv'
  BY <1>1, StepType, StepPlace, StepOnlyOne, StepReadIsFresh, StepFileIsAhead,
     StepPoolsFollow DEF IInv
<1>2. CASE UNCHANGED vars
  BY <1>2 DEF vars, request, IInv, TypeOK, PlaceOfKind, OnlyOne, ReadIsFresh, PoolsFollow,
     FileIsAhead, Between, About, Busy, Pooled
<1> QED BY <1>1, <1>2, RestartIInv DEF Next

-----------------------------------------------------------------------------
(* The inductive invariant of file, pools and requests (import.rs, and the *)
(* handlers under /api/tokens and /api/import in api.rs): between the lock *)
(* and the pools a request knows what the file holds of the credentials    *)
(* that it alone is about.                                                 *)
THEOREM StoreInvariant == Spec => []IInv
BY InitIInv, NextIInv, PTL DEF Spec

(* The state of the file, the pools and the requests has its type, and the *)
(* lock is held exactly while a request is going to write (TOKENS_LOCK).   *)
THEOREM StoreTypeCorrect == Spec => []TypeOK
<1>1. IInv => TypeOK
  BY DEF IInv
<1> QED BY <1>1, StoreInvariant, PTL

(* The pool of its kind holds a credential if and only if tokens.json      *)
(* does, for any number of requests, reads and writes of which may fail,   *)
(* unless two requests were about it at once, one ended between file and   *)
(* pools, or one is about it now: imports, deletions, dating and reloads   *)
(* of the whole file do not undo each other.                               *)
THEOREM PoolsFollowTheFile == Spec => []PoolsFollowFile
<1>1. IInv => PoolsFollowFile
  BY DEF IInv, PoolsFollow, PoolsFollowFile, Between, About, Busy
<1> QED BY <1>1, StoreInvariant, PTL

(* An answer is true when it is sent: what an import was about is then in  *)
(* the file and in a pool, what a delete was about in none.                *)
THEOREM AnswersAreTrue == Spec => AnswersHold
<1>1. ASSUME IInv, NEW h \in Handlers, NEW c \in Credentials, c \in arg[h] \ spoiled,
             Persist(h) \/ AddToPool(h) \/ RemoveFromFile(h) \/ TakeFromPool(h), pc'[h] = "Idle"
      PROVE  /\ op[h] = "import" => c \in file' /\ c \in Pooled'
             /\ op[h] = "delete" => c \notin file' /\ c \notin Pooled'
  <2> USE <1>1 DEF IInv
  <2>1. Steps(h) /\ Busy(h) /\ op[h] \in {"import", "delete"} /\ c \in About(h)
    BY DEF Steps, Persist, AddToPool, RemoveFromFile, TakeFromPool, Busy, About, AboutOf
  <2>2. ~Between(h) => (c \in file <=> c \in Pooled)
    <3>1. \A g \in Handlers : g # h => c \notin About(g)
      BY <2>1 DEF OnlyOne
    <3> QED BY <3>1 DEF PoolsFollow
  <2>3. CASE Persist(h)
    <3>1. New(h) = {} /\ ~Between(h) /\ op[h] = "import" /\ UNCHANGED <<accounts, cookies>>
      BY <2>3 DEF Persist, Between, Goto, TypeOK
    <3>2. c \in read[h].held /\ c \in file'
      BY <2>3, <3>1 DEF Persist, New
    <3>3. c \in file
      BY <2>3, <3>2 DEF Persist, ReadIsFresh
    <3> QED BY <2>2, <3>1, <3>2, <3>3 DEF Pooled
  <2>4. CASE RemoveFromFile(h)
    <3>1. New(h) # {} /\ ~Between(h) /\ op[h] = "delete" /\ UNCHANGED <<file, accounts, cookies>>
      BY <2>4 DEF RemoveFromFile, Between, Goto, TypeOK
    <3>2. c \notin read[h].held
      BY <2>1, <3>1 DEF PlaceOfKind, New
    <3>3. c \notin file
      BY <2>4, <3>2 DEF RemoveFromFile, ReadIsFresh
    <3> QED BY <2>2, <3>1, <3>3 DEF Pooled
  <2>5. CASE AddToPool(h)
    <3>1. PICK d \in arg[h] :
            /\ accounts' = accounts \cup ({d} \cap Tokens)
            /\ cookies' = cookies \cup ({d} \cap Cookies)
            /\ IF arg[h] = {d} THEN Over(h)
               ELSE /\ arg' = [arg EXCEPT ![h] = @ \ {d}] /\ UNCHANGED <<op, pc, read>>
      BY <2>5 DEF AddToPool
    <3>2. pc[h] = "Pool" /\ op[h] = "import" /\ file' = file
      BY <2>5 DEF AddToPool
    <3>3. c = d
      BY <3>1, <3>2
    <3> QED BY <3>1, <3>2, <3>3 DEF FileIsAhead, Pooled, Tokens
  <2>6. CASE TakeFromPool(h)
    BY <2>6 DEF TakeFromPool, FileIsAhead, Pooled
  <2> QED BY <1>1, <2>3, <2>4, <2>5, <2>6
<1>2. IInv /\ [Next]_vars =>
        [\A h \in Handlers, c \in Credentials :
           /\ Persist(h) \/ AddToPool(h) \/ RemoveFromFile(h) \/ TakeFromPool(h)
           /\ c \in arg[h] \ spoiled /\ pc'[h] = "Idle"
           => /\ op[h] = "import" => c \in file' /\ c \in Pooled'
              /\ op[h] = "delete" => c \notin file' /\ c \notin Pooled']_vars
  BY <1>1
<1> QED BY <1>2, StoreInvariant, PTL DEF Spec, AnswersHold

-----------------------------------------------------------------------------
(***************************************************************************)
(* The browser extension, by which a cookie comes to a gateway's import:   *)
(* it offers the cookie first to the port that was named for this flow,    *)
(* and "done" is true.  The invariant says that what was named is what the *)
(* flow will use, until it posts, and that a gateway that has taken the    *)
(* cookie holds it.                                                        *)
(***************************************************************************)
FlowInv ==
  /\ EITypeOK
  /\ flow # "Post" => asked = [port |-> flowPanelPort, key |-> flowApiKey]
  /\ flow = "Post" <=> post # "None"
  /\ post = "Taken" => Head(ports) \in holds

(* The list of ports begins with the one named.                            *)
LEMMA CandidatePorts ==
  ASSUME NEW p \in Ports \cup {NoPort}
  PROVE  /\ Candidates(p) \in Seq(Ports) /\ Candidates(p) # <<>>
         /\ IF p = NoPort THEN Candidates(p) = Usual ELSE Head(Candidates(p)) = p
         /\ Len(Candidates(p)) \in 1..(Len(Usual) + 1)
<1>1. Usual \in Seq(Ports) /\ Usual # <<>> /\ Len(Usual) \in Nat \ {0}
  BY ExtensionAssumption, LenProperties, EmptySeq
<1>2. CASE p = NoPort
  BY <1>1, <1>2 DEF Candidates
<1>3. CASE p # NoPort
  <2> DEFINE rest == RemoveFirst(Usual, p)
  <2>1. rest \in Seq(Ports) /\ Len(rest) <= Len(Usual)
    <3>1. CASE \E i \in 1..Len(Usual) : Usual[i] = p
      <4>1. PICK i \in 1..Len(Usual) : Usual[i] = p
        BY <3>1
      <4> DEFINE I == {j \in 1..Len(Usual) : Usual[j] = p}
      <4>2. I = {i}
        <5>1. DOMAIN Usual = 1..Len(Usual)
          BY <1>1, LenProperties
        <5> QED BY <4>1, <5>1, ExtensionAssumption DEF IsInjective
      <4>3. (CHOOSE j \in I : \A k \in I : j <= k) = i
        <5>1. i <= i
          BY <1>1
        <5> HIDE DEF I
        <5> QED BY <4>2, <5>1
      <4>4. rest = RemoveAt(Usual, i)
        <5>1. SelectInSeq(Usual, LAMBDA v : v = p) = CHOOSE j \in I : \A k \in I : j <= k
          BY <4>2 DEF SelectInSeq, Min
        <5> QED BY <3>1, <4>3, <5>1 DEF RemoveFirst
      <4>5. /\ SubSeq(Usual, 1, i - 1) \in Seq(Ports) /\ SubSeq(Usual, i + 1, Len(Usual)) \in Seq(Ports)
            /\ Len(SubSeq(Usual, 1, i - 1)) = i - 1
            /\ Len(SubSeq(Usual, i + 1, Len(Usual))) = Len(Usual) - i
        BY <1>1, <4>1, SubSeqProperties
      <4> HIDE DEF rest, I
      <4>6. rest \in Seq(Ports) /\ Len(rest) = (i - 1) + (Len(Usual) - i)
        <5> DEFINE before == SubSeq(Usual, 1, i - 1)
                   after == SubSeq(Usual, i + 1, Len(Usual))
        <5>1. rest = before \o after
          BY <4>4 DEF RemoveAt
        <5>2. before \in Seq(Ports) /\ after \in Seq(Ports)
              /\ Len(before) = i - 1 /\ Len(after) = Len(Usual) - i
          BY <4>5
        <5> HIDE DEF before, after
        <5>3. before \o after \in Seq(Ports) /\ Len(before \o after) = Len(before) + Len(after)
          BY <5>2, ConcatProperties
        <5> QED BY <5>1, <5>2, <5>3
      <4>7. i \in Nat /\ Len(Usual) \in Nat
        BY <1>1, <4>1
      <4>8. Len(rest) <= Len(Usual)
        <5>1. \A n, j \in Nat : (j - 1) + (n - j) <= n
          OBVIOUS
        <5> QED BY <4>6, <4>7, <5>1
      <4> QED BY <4>6, <4>8
    <3>2. CASE ~\E i \in 1..Len(Usual) : Usual[i] = p
      BY <1>1, <3>2 DEF RemoveFirst
    <3> QED BY <3>1, <3>2
  <2>2. Candidates(p) = <<p>> \o rest
    BY <1>3 DEF Candidates
  <2> HIDE DEF rest
  <2>3. <<p>> \in Seq(Ports) /\ Len(<<p>>) = 1 /\ <<p>>[1] = p
    BY <1>3
  <2>4. /\ <<p>> \o rest \in Seq(Ports) /\ Len(<<p>> \o rest) = 1 + Len(rest)
        /\ (<<p>> \o rest)[1] = p
    BY <2>1, <2>3, ConcatProperties, LenProperties
  <2>5. Len(rest) \in Nat /\ 1 + Len(rest) \in 1..(Len(Usual) + 1)
    BY <1>1, <2>1, LenProperties
  <2>6. <<p>> \o rest # <<>> /\ Head(<<p>> \o rest) = p
    BY <2>4, <2>5
  <2> QED BY <1>3, <2>2, <2>4, <2>5, <2>6
<1> QED BY <1>2, <1>3

(* The end of a flow, by whatever answer or timer, leaves nothing of it.   *)
LEMMA FinishFlow ==
  ASSUME FlowInv, NEW result \in {"started", "done"}, Finish(result),
         UNCHANGED <<signedIn, up, holds>>, late' \subseteq up
  PROVE  FlowInv'
<1>1. panel' \in [Panels -> {"Idle", "Probe", "Await"}] /\ \A m \in Panels : panel'[m] # "Await"
  BY DEF FlowInv, EITypeOK, Finish
<1>2. told' \in [Panels -> {"nothing", "login", "started", "done"}]
  BY DEF FlowInv, EITypeOK, Finish
<1>3. <<>> \in Seq(Ports)
  OBVIOUS
<1> QED BY <1>1, <1>2, <1>3 DEF FlowInv, EITypeOK, Finish, Named, NoneNamed

(* A panel or a click starts a flow, or names a port and a key for it.     *)
LEMMA StartFlowInv ==
  ASSUME FlowInv, NEW p \in Ports \cup {NoPort}, NEW k \in Keys \cup {NoKey}, StartFlow(p, k),
         panel' \in [Panels -> {"Idle", "Probe", "Await"}],
         told' \in [Panels -> {"nothing", "login", "started", "done"}],
         UNCHANGED <<signedIn, gateways>>
  PROVE  FlowInv'
<1>1. /\ flow' \in {"Read", "Login", "Again", "Post"} /\ (flow' = "Post" <=> flow = "Post")
      /\ flowPanelPort' \in Ports \cup {NoPort} /\ flowApiKey' \in Keys \cup {NoKey}
  BY DEF FlowInv, EITypeOK, StartFlow
<1>2. asked' \in Named
  BY DEF FlowInv, EITypeOK, StartFlow, Named
<1>3. UNCHANGED <<ports, key, post, signedIn, up, holds, late>>
  BY DEF StartFlow, gateways
<1>4. flow' # "Post" => asked' = [port |-> flowPanelPort', key |-> flowApiKey']
  BY <1>1 DEF FlowInv, StartFlow
<1> QED BY <1>1, <1>2, <1>3, <1>4 DEF FlowInv, EITypeOK

(* The flow begins to post.                                                *)
LEMMA OfferFlow ==
  ASSUME FlowInv, flow \in {"Read", "Again"}, Offer,
         UNCHANGED <<signedIn, gateways>>
  PROVE  FlowInv'
<1>1. ports' \in Seq(Ports) /\ ports' # <<>> /\ key' \in Keys \cup {NoKey}
  BY CandidatePorts, ExtensionAssumption DEF Offer, FlowInv, EITypeOK
<1>2. flow' = "Post" /\ post' = "Out"
      /\ UNCHANGED <<flowPanelPort, flowApiKey, panel, told, asked, signedIn, up, holds, late>>
  BY DEF Offer, gateways
<1> QED BY <1>1, <1>2 DEF FlowInv, EITypeOK

(* The next port is tried, or there is none.                               *)
LEMMA NextPortFlow ==
  ASSUME FlowInv, flow = "Post", NextPort,
         UNCHANGED <<signedIn, up, holds>>, late' \subseteq up
  PROVE  FlowInv'
<1>1. CASE Len(ports) = 1
  BY <1>1, FinishFlow DEF NextPort
<1>2. CASE Len(ports) # 1
  <2>1. ports \in Seq(Ports) /\ ports # <<>>
    BY DEF FlowInv, EITypeOK
  <2>2. Tail(ports) \in Seq(Ports) /\ Len(Tail(ports)) = Len(ports) - 1 /\ Len(ports) \in Nat
    BY <2>1, HeadTailProperties, LenProperties
  <2>3. Len(ports) # 0
    BY <2>1, EmptySeq
  <2>4. Tail(ports) # <<>>
    <3>1. Len(Tail(ports)) # 0
      BY <1>2, <2>2, <2>3
    <3> QED BY <3>1, EmptySeq
  <2>5. ports' = Tail(ports) /\ post' = "Out"
        /\ UNCHANGED <<flow, flowPanelPort, flowApiKey, key, panel, told, asked>>
    BY <1>2 DEF NextPort
  <2> QED BY <2>2, <2>4, <2>5 DEF FlowInv, EITypeOK
<1> QED BY <1>1, <1>2

LEMMA InitFlow == EIInit => FlowInv
<1> SUFFICES ASSUME EIInit PROVE FlowInv
  OBVIOUS
<1>1. panel \in [Panels -> {"Idle", "Probe", "Await"}] /\ \A m \in Panels : panel[m] # "Await"
  BY DEF EIInit
<1>2. told \in [Panels -> {"nothing", "login", "started", "done"}]
  BY DEF EIInit
<1>3. ports = <<>> /\ ports \in Seq(Ports)
  BY DEF EIInit
<1>4. up \subseteq Ports /\ holds \subseteq Ports /\ late \subseteq up /\ signedIn \in BOOLEAN
  BY DEF EIInit
<1>5. /\ flow = "None" /\ flowPanelPort = NoPort /\ flowApiKey = NoKey
      /\ key = NoKey /\ post = "None" /\ asked = NoneNamed
  BY DEF EIInit
<1> QED BY <1>1, <1>2, <1>3, <1>4, <1>5 DEF FlowInv, EITypeOK, Named, NoneNamed

LEMMA FlowSteps ==
  ASSUME FlowInv, Flow
  PROVE  FlowInv'
<1>1. CASE ReadCookie
  <2>1. CASE Offer
    BY <1>1, <2>1, OfferFlow DEF ReadCookie
  <2>2. CASE Finish("started")
    BY <1>1, <2>2, FinishFlow DEF ReadCookie, gateways, FlowInv, EITypeOK
  <2>3. CASE flow' = "Login" /\ UNCHANGED <<flowPanelPort, flowApiKey, ports, key, post, panel,
                                           told, asked, signedIn, gateways>>
    BY <1>1, <2>3 DEF ReadCookie, gateways, FlowInv, EITypeOK
  <2> QED BY <1>1, <2>1, <2>2, <2>3 DEF ReadCookie
<1>2. CASE LoginSeen
  BY <1>2 DEF LoginSeen, gateways, FlowInv, EITypeOK
<1>3. CASE LoginTimeout
  BY <1>3, FinishFlow DEF LoginTimeout, gateways, FlowInv, EITypeOK
<1>4. CASE Answered
  BY <1>4, FinishFlow DEF Answered, gateways, FlowInv, EITypeOK
<1>5. CASE Refused
  BY <1>5, NextPortFlow DEF Refused, gateways, FlowInv, EITypeOK
<1>6. CASE FetchTimeout
  BY <1>6, NextPortFlow DEF FetchTimeout, Underway, FlowInv, EITypeOK
<1> QED BY <1>1, <1>2, <1>3, <1>4, <1>5, <1>6 DEF Flow

LEMMA OtherSteps ==
  ASSUME FlowInv, EINext, ~Flow
  PROVE  FlowInv'
<1>1. CASE Handle
  <2>1. Head(ports) \in up /\ post = "Out"
        /\ UNCHANGED <<flow, flowPanelPort, flowApiKey, ports, key, panel, told, asked,
                      signedIn, up, late>>
    BY <1>1 DEF Handle
  <2>2. holds' = holds \cup Underway /\ holds' \subseteq Ports
    BY <1>1 DEF Handle, Underway, FlowInv, EITypeOK
  <2>3. post' \in {"Taken", "Denied"} /\ (post' = "Taken" => May(Head(ports)))
    BY <1>1 DEF Handle
  <2>4. post' = "Taken" => Head(ports') \in holds'
    BY <2>1, <2>2, <2>3 DEF Underway
  <2> QED BY <2>1, <2>2, <2>3, <2>4 DEF FlowInv, EITypeOK
<1>2. CASE Click
  BY <1>2, StartFlowInv DEF Click, FlowInv, EITypeOK
<1>3. CASE Evict
  <2>1. late' \subseteq up /\ UNCHANGED <<told, signedIn, up, holds>>
    BY <1>3 DEF Evict, Underway, FlowInv, EITypeOK
  <2>2. /\ flow' = "None" /\ flowPanelPort' = NoPort /\ flowApiKey' = NoKey
        /\ ports' = <<>> /\ key' = NoKey /\ post' = "None"
        /\ asked' = NoneNamed
        /\ panel' = [m \in Panels |-> "Idle"]
    BY <1>3 DEF Evict
  <2>3. <<>> \in Seq(Ports)
    OBVIOUS
  <2> QED BY <2>1, <2>2, <2>3 DEF FlowInv, EITypeOK, Named, NoneNamed
<1>4. CASE Sign
  BY <1>4 DEF Sign, worker, gateways, FlowInv, EITypeOK
<1>5. ASSUME NEW m \in Panels, Message(m) \/ GuardTimeout(m)
      PROVE  FlowInv'
  <2>1. panel' \in [Panels -> {"Idle", "Probe", "Await"}]
        /\ \A n \in Panels : panel'[n] = "Await" => panel[n] = "Await"
    BY <1>5 DEF Message, GuardTimeout, FlowInv, EITypeOK
  <2>2. told' \in [Panels -> {"nothing", "login", "started", "done"}]
    BY <1>5 DEF Message, GuardTimeout, FlowInv, EITypeOK
  <2>3. UNCHANGED <<flow, flowPanelPort, flowApiKey, ports, key, post, asked, signedIn, up,
                    holds, late>>
    BY <1>5 DEF Message, GuardTimeout, worker, gateways
  <2> QED BY <2>1, <2>2, <2>3 DEF FlowInv, EITypeOK
<1>6. ASSUME NEW m \in Panels, NEW p \in Ports \cup {NoPort}, NEW k \in Keys \cup {NoKey},
             Join(m, p, k) \/ JoinUnseen(m, p, k)
      PROVE  FlowInv'
  <2>1. panel' \in [Panels -> {"Idle", "Probe", "Await"}]
    BY <1>6 DEF Join, JoinUnseen, FlowInv, EITypeOK
  <2>2. told' \in [Panels -> {"nothing", "login", "started", "done"}]
    BY <1>6 DEF Join, JoinUnseen, FlowInv, EITypeOK
  <2>3. StartFlow(p, k) /\ UNCHANGED <<signedIn, gateways>>
    BY <1>6 DEF Join, JoinUnseen
  <2> QED BY <2>1, <2>2, <2>3, StartFlowInv
<1>7. ASSUME NEW p \in Ports, GatewayStarts(p) \/ GatewayStops(p) \/ HandleLate(p)
      PROVE  FlowInv'
  <2>1. UNCHANGED <<flow, flowPanelPort, flowApiKey, ports, key, post, panel, told, asked, signedIn>>
    BY <1>7 DEF GatewayStarts, GatewayStops, HandleLate, worker
  <2>2. up' \subseteq Ports /\ holds' \subseteq Ports /\ late' \subseteq up' /\ holds \subseteq holds'
    BY <1>7 DEF GatewayStarts, GatewayStops, HandleLate, FlowInv, EITypeOK
  <2> QED BY <2>1, <2>2 DEF FlowInv, EITypeOK
<1> QED BY <1>1, <1>2, <1>3, <1>4, <1>5, <1>6, <1>7 DEF EINext, Hear

LEMMA NextFlow == FlowInv /\ [EINext]_eiVars => FlowInv'
<1> SUFFICES ASSUME FlowInv, [EINext]_eiVars PROVE FlowInv'
  OBVIOUS
<1>1. CASE UNCHANGED eiVars
  BY <1>1 DEF eiVars, worker, gateways, FlowInv, EITypeOK
<1> QED BY <1>1, FlowSteps, OtherSteps

(* The inductive invariant of the extension (background.js): until the     *)
(* flow posts, it has the port and the key that were named for it; it      *)
(* fetches exactly while it posts; a fetch that was taken is held.         *)
THEOREM ExtensionInvariant == EISpec => []FlowInv
BY InitFlow, NextFlow, PTL DEF EISpec

(* The state of the extension, its panels and the gateways has its type;   *)
(* when no flow runs (runningFlow), no panel waits and no port is named.   *)
THEOREM ExtensionTypeCorrect == EISpec => []EITypeOK
<1>1. FlowInv => EITypeOK
  BY DEF FlowInv
<1> QED BY <1>1, ExtensionInvariant, PTL

(* The cookie is offered first to the port named last for this flow, with  *)
(* the key named last for it, and with nothing that was named for an       *)
(* earlier one (flowPanelPort and flowApiKey, which a finally resets), for *)
(* any panels, ports and keys.  The two may be of different panels.        *)
THEOREM NamedPortIsFirst == EISpec => NamedForThisFlow
<1>1. ASSUME FlowInv, [EINext]_eiVars, flow # "Post", flow' = "Post"
      PROVE  /\ asked.port # NoPort => Head(ports') = asked.port
             /\ asked.port = NoPort => ports' = Usual
             /\ key' = IF asked.key # NoKey THEN asked.key ELSE OwnKey
  <2>1. Offer
    BY <1>1 DEF eiVars, worker, EINext, Flow, Hear, ReadCookie, LoginSeen, LoginTimeout,
       Answered, Refused, FetchTimeout, Finish, Handle, Click,
       Evict, Sign, Message, GuardTimeout, Join, JoinUnseen,
       StartFlow, GatewayStarts, GatewayStops, HandleLate
  <2>2. asked = [port |-> flowPanelPort, key |-> flowApiKey]
        /\ flowPanelPort \in Ports \cup {NoPort}
    BY <1>1 DEF FlowInv, EITypeOK
  <2>3. asked.port = flowPanelPort /\ asked.key = flowApiKey
    BY <2>2
  <2>4. ports' = Candidates(flowPanelPort) /\ key' = IF flowApiKey # NoKey THEN flowApiKey ELSE OwnKey
    BY <2>1 DEF Offer
  <2> QED BY <2>2, <2>3, <2>4, CandidatePorts
<1>2. FlowInv /\ [EINext]_eiVars =>
        [flow # "Post" /\ flow' = "Post" =>
           /\ asked.port # NoPort => Head(ports') = asked.port
           /\ asked.port = NoPort => ports' = Usual
           /\ key' = IF asked.key # NoKey THEN asked.key ELSE OwnKey]_eiVars
  BY <1>1
<1> QED BY <1>2, ExtensionInvariant, PTL DEF EISpec, NamedForThisFlow

(* A panel is told "done" only of a gateway that holds the cookie, however *)
(* many ports were tried before and whatever gateways start and stop.      *)
THEOREM DoneIsTrue == EISpec => DoneIsHeld
<1>1. ASSUME FlowInv, [EINext]_eiVars, NEW m \in Panels, told'[m] = "done", told[m] # "done"
      PROVE  Head(ports) \in holds
  <2>1. \A result : Finish(result) => told'[m] \in {told[m], result}
    BY DEF Finish
  <2>2. NextPort => told'[m] # "done"
    BY <1>1, <2>1 DEF NextPort
  <2>3. CASE Flow
    <3>1. ~ReadCookie /\ ~LoginSeen /\ ~LoginTimeout
      BY <1>1, <2>1 DEF ReadCookie, Offer, LoginSeen, LoginTimeout
    <3>2. ~Refused /\ ~FetchTimeout
      BY <1>1, <2>2 DEF Refused, FetchTimeout
    <3>3. Answered
      BY <2>3, <3>1, <3>2 DEF Flow
    <3> QED BY <1>1, <2>1, <3>3 DEF Answered, FlowInv
  <2>4. CASE ~Flow
    <3>1. ~(UNCHANGED told)
      BY <1>1
    <3>2. ~Handle /\ ~Click /\ ~Evict /\ ~Sign /\ ~(UNCHANGED eiVars)
      BY <3>1 DEF Handle, Click, Evict, Sign, eiVars
    <3>3. \A p \in Ports :
            ~GatewayStarts(p) /\ ~GatewayStops(p) /\ ~HandleLate(p)
      BY <3>1 DEF GatewayStarts, GatewayStops, HandleLate
    <3>4. ASSUME NEW n \in Panels
          PROVE  ~Message(n) /\ ~GuardTimeout(n)
      BY <1>1 DEF Message, GuardTimeout, FlowInv, EITypeOK
    <3>5. ASSUME NEW n \in Panels, NEW p \in Ports \cup {NoPort}, NEW k \in Keys \cup {NoKey}
          PROVE  ~Join(n, p, k) /\ ~JoinUnseen(n, p, k)
      BY <1>1 DEF Join, JoinUnseen, FlowInv, EITypeOK
    <3> QED BY <1>1, <2>4, <3>2, <3>3, <3>4, <3>5 DEF EINext, Hear
  <2> QED BY <2>3, <2>4
<1>2. FlowInv /\ [EINext]_eiVars =>
        [\A m \in Panels : told'[m] = "done" /\ told[m] # "done" => Head(ports) \in holds]_eiVars
  BY <1>1
<1> QED BY <1>2, ExtensionInvariant, PTL DEF EISpec, DoneIsHeld

(* Why a flow ends: what it has still to wait for gets less with each of   *)
(* its steps, and nothing a panel, the browser or a gateway does makes it  *)
(* more.  The login is waited for once, and each port is tried once        *)
(* (FlowsEnd adds that the waits end).                                     *)
WaitsLeft ==
  CASE flow = "Read" -> Len(Usual) + 4 [] flow = "Login" -> Len(Usual) + 3
    [] flow = "Again" -> Len(Usual) + 2 [] flow = "Post" -> Len(ports)
    [] OTHER -> 0

FlowRunsDown ==
  [][/\ flow # "None" => WaitsLeft' <= WaitsLeft
     /\ Flow => WaitsLeft' < WaitsLeft]_eiVars

LEMMA WaitsLeftType ==
  ASSUME FlowInv
  PROVE  WaitsLeft \in Nat /\ (flow # "None" => WaitsLeft > 0)
<1>1. Len(Usual) \in Nat
  BY ExtensionAssumption, LenProperties
<1>2. Len(ports) \in Nat /\ (flow = "Post" => Len(ports) > 0)
  BY LenProperties, EmptySeq DEF FlowInv, EITypeOK
<1>3. flow \in {"None", "Read", "Login", "Again", "Post"}
  BY DEF FlowInv, EITypeOK
<1> QED BY <1>1, <1>2, <1>3 DEF WaitsLeft

LEMMA WaitsLeftTypeNext == FlowInv' => (WaitsLeft \in Nat)'
<1>1. FlowInv => WaitsLeft \in Nat
  BY WaitsLeftType
<1> QED BY <1>1, PTL

LEMMA FinishRunsDown ==
  ASSUME FlowInv, flow # "None", flow' = "None"
  PROVE  WaitsLeft' < WaitsLeft
<1>1. WaitsLeft' = 0
  BY DEF WaitsLeft
<1> QED BY <1>1, WaitsLeftType

LEMMA NextPortRunsDown ==
  ASSUME FlowInv, flow = "Post", NextPort
  PROVE  WaitsLeft' < WaitsLeft
<1>1. CASE Len(ports) = 1
  BY <1>1, FinishRunsDown DEF NextPort, Finish
<1>2. CASE Len(ports) # 1
  <2>1. ports \in Seq(Ports) /\ ports # <<>>
    BY DEF FlowInv, EITypeOK
  <2>2. Len(Tail(ports)) = Len(ports) - 1 /\ Len(ports) \in Nat
    BY <2>1, HeadTailProperties, LenProperties
  <2>3. WaitsLeft' = Len(Tail(ports)) /\ WaitsLeft = Len(ports)
    BY <1>2 DEF NextPort, WaitsLeft
  <2> QED BY <2>2, <2>3
<1> QED BY <1>1, <1>2

LEMMA FlowStepsRunDown ==
  ASSUME FlowInv, Flow
  PROVE  WaitsLeft' < WaitsLeft
<1>1. Len(Usual) \in Nat
  BY ExtensionAssumption, LenProperties
<1>2. CASE ReadCookie /\ Offer
  <2>1. flowPanelPort \in Ports \cup {NoPort}
    BY DEF FlowInv, EITypeOK
  <2>2. WaitsLeft' = Len(Candidates(flowPanelPort))
    BY <1>2 DEF Offer, WaitsLeft
  <2>3. WaitsLeft \in {Len(Usual) + 4, Len(Usual) + 2}
    BY <1>2 DEF ReadCookie, WaitsLeft
  <2>4. Len(Candidates(flowPanelPort)) \in 1..(Len(Usual) + 1)
    BY <2>1, CandidatePorts
  <2> QED BY <1>1, <2>2, <2>3, <2>4
<1>3. CASE (flow = "Read" /\ flow' = "Login") \/ (flow = "Login" /\ flow' = "Again")
  BY <1>1, <1>3 DEF WaitsLeft
<1>4. CASE flow # "None" /\ flow' = "None"
  BY <1>4, FinishRunsDown
<1>5. CASE flow = "Post" /\ NextPort
  BY <1>5, NextPortRunsDown
<1>6. \/ ReadCookie /\ Offer
      \/ flow = "Read" /\ flow' = "Login"
      \/ flow = "Login" /\ flow' = "Again"
      \/ flow # "None" /\ flow' = "None"
      \/ flow = "Post" /\ NextPort
  BY DEF Flow, ReadCookie, LoginSeen, LoginTimeout, Answered, Refused, FetchTimeout, Finish
<1> QED BY <1>2, <1>3, <1>4, <1>5, <1>6

LEMMA OthersKeepWaits ==
  ASSUME FlowInv, [EINext]_eiVars, ~Flow, flow # "None"
  PROVE  WaitsLeft' = WaitsLeft \/ flow' = "None"
<1>1. (flow' = flow /\ ports' = ports) \/ flow' = "None"
  BY DEF EINext, Hear, Handle, Click, Evict, Sign, Message, GuardTimeout, Join, JoinUnseen,
         StartFlow, GatewayStarts, GatewayStops, HandleLate, eiVars, worker
<1> QED BY <1>1 DEF WaitsLeft

(* A flow makes at most Len(Usual) + 4 waits, however often panels join it *)
(* and name other ports.                                                   *)
THEOREM FlowsRunDown == EISpec => FlowRunsDown
<1>1. ASSUME FlowInv, [EINext]_eiVars
      PROVE  /\ flow # "None" => WaitsLeft' <= WaitsLeft
             /\ Flow => WaitsLeft' < WaitsLeft
  <2>1. Flow => WaitsLeft' < WaitsLeft
    BY <1>1, FlowStepsRunDown
  <2>2. flow # "None" => WaitsLeft' < WaitsLeft \/ WaitsLeft' = WaitsLeft
    BY <1>1, <2>1, OthersKeepWaits, FinishRunsDown
  <2>3. WaitsLeft \in Int
    BY <1>1, WaitsLeftType
  <2>4. WaitsLeft' \in Int
    <3>1. FlowInv'
      BY <1>1, NextFlow
    <3> QED BY <3>1, WaitsLeftTypeNext
  <2> QED BY <2>1, <2>2, <2>3, <2>4
<1>2. FlowInv /\ [EINext]_eiVars =>
        /\ flow # "None" => WaitsLeft' <= WaitsLeft
        /\ Flow => WaitsLeft' < WaitsLeft
  BY <1>1
<1> QED BY <1>2, ExtensionInvariant, PTL DEF EISpec, FlowRunsDown
=============================================================================
