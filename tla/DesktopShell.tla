---------------------------- MODULE DesktopShell -----------------------------
(***************************************************************************)
(* The Electron shell of src/desktop/main.js: it starts the gateway as a   *)
(* child process, waits until the gateway answers, starts it again when it *)
(* exits, and kills it when the user quits.  The shell runs callbacks one  *)
(* at a time (events of children, answers to probes, timers, the menu);    *)
(* the children, the user and the operating system run beside it.          *)
(*                                                                         *)
(* A name in Children stands for a process while that lives and until its  *)
(* exit has been handled; then it is free for another process.             *)
(***************************************************************************)
EXTENDS Integers, FiniteSets

CONSTANTS
  Children,      (* names of gateway processes                             *)
  NoChild,
  Ports,         (* what listen_addr in config.json may say                *)
  DefaultPort,   (* GATEWAY_PORT: the one checkHealth asks                 *)
  MaxProbes,     (* probes that fit into the wait of 15 s                  *)
  MaxChecks      (* bound on the checks that are due 4 s after a restart   *)

ASSUME DesktopAssumption ==
  /\ IsFiniteSet(Children) /\ NoChild \notin Children
  /\ DefaultPort \in Ports
  /\ MaxProbes \in Nat \ {0} /\ MaxChecks \in Nat \ {0}

VARIABLES
  config,      (* the port in config.json                                  *)
  exe,         (* can the binary be found and started?                     *)
  proc,        (* what each child is doing                                 *)
  port,        (* the port each child listens on, or will                  *)
  mine,        (* the children of the shell that runs now                  *)
  shell,       (* where the shell is                                       *)
  gateway,     (* the child started last                                   *)
  ready, isQuitting,
  probe,       (* the probe under way and the answer on its way            *)
  probes,      (* probes left of the wait                                  *)
  restarts,    (* timers of 2 s that will start the gateway                *)
  checks,      (* timers of 4 s that will see whether it answers           *)
  log,         (* logStream                                                *)
  box          (* the last error box                                       *)

children == <<proc, port, mine>>
outside == <<config, exe>>
waiting == <<ready, probe, probes>>
timers == <<restarts, checks>>
vars == <<outside, children, shell, gateway, waiting, isQuitting, timers, log, box>>

Alive == {c \in Children : proc[c] \in {"Booting", "Serving", "Killed"}}
Exited == {c \in Children : proc[c] = "Exited"}
Answering(p) == \E c \in Children : proc[c] = "Serving" /\ port[c] = p

TypeOK ==
  /\ config \in Ports /\ exe \in BOOLEAN
  /\ proc \in [Children -> {"Free", "Booting", "Serving", "Killed", "Exited"}]
  /\ port \in [Children -> Ports]
  /\ mine \subseteq Children
  /\ shell \in {"Down", "Waiting", "Up", "Closing"}
  /\ gateway \in Children \cup {NoChild}
  /\ ready \in BOOLEAN /\ isQuitting \in BOOLEAN
  /\ probe \in {"None", "Yes", "No"}
  /\ probes \in 0..MaxProbes
  /\ restarts \in Nat /\ checks \in 0..MaxChecks
  /\ log \in {"Open", "Ended", "Broken"}
  /\ box \in {"None", "Startup", "Restart"}
  /\ mine \subseteq Alive \cup Exited /\ Exited \subseteq mine
  /\ shell = "Down" => mine = {}

Init ==
  /\ config \in Ports /\ exe = TRUE
  /\ proc = [c \in Children |-> "Free"]
  /\ port = [c \in Children |-> DefaultPort]
  /\ mine = {}
  /\ shell = "Down" /\ gateway = NoChild
  /\ ready = FALSE /\ isQuitting = FALSE
  /\ probe = "None" /\ probes = 0
  /\ restarts = 0 /\ checks = 0
  /\ log = "Ended" /\ box = "None"

-----------------------------------------------------------------------------
(* writeLog: a write to a stream that has ended is an error event that     *)
(* nobody listens to; the try around it does not see it.                   *)
WriteLog == log' = IF log = "Ended" THEN "Broken" ELSE log

StartKeepsHandle ==   (* mutant: the variable gateway still names the first child *)
  \/ ~exe /\ UNCHANGED <<children, gateway>>
  \/ /\ exe
     /\ \E c \in Children :
          /\ proc[c] = "Free"
          /\ proc' = [proc EXCEPT ![c] = "Booting"]
          /\ port' = [port EXCEPT ![c] = config]
          /\ mine' = mine \cup {c}
          /\ gateway' = IF gateway = NoChild THEN c ELSE gateway
(* startGateway.  If the binary cannot be found it returns; if it cannot   *)
(* be started there is an error event, and neither child nor exit event.   *)
StartGateway ==
  \/ /\ ~exe
     /\ UNCHANGED <<children, gateway>>
  \/ /\ exe
     /\ \E c \in Children :
          /\ proc[c] = "Free"
          /\ proc' = [proc EXCEPT ![c] = "Booting"]
          /\ port' = [port EXCEPT ![c] = config]
          /\ mine' = mine \cup {c}
          /\ gateway' = c

(* The process is started; a second instance gives way to the first.       *)
Launch ==
  /\ shell = "Down" /\ shell' = "Waiting"
  /\ log' = "Open" /\ box' = "None"
  /\ ready' = FALSE /\ isQuitting' = FALSE
  /\ probe' = "None" /\ probes' = MaxProbes
  /\ restarts' = 0 /\ checks' = 0
  /\ StartGateway
  /\ UNCHANGED outside

(* checkHealth of the wait: the answer is settled when the gateway gives   *)
(* it, and heard when the shell gets round to it.                          *)
Probe ==
  /\ shell = "Waiting" /\ probe = "None"
  /\ probe' = IF Answering(DefaultPort) THEN "Yes" ELSE "No"
  /\ UNCHANGED <<outside, children, shell, gateway, ready, probes, isQuitting, timers, log, box>>

HearYes ==
  /\ probe = "Yes" /\ probe' = "None"
  /\ ready' = TRUE /\ shell' = "Up"
  /\ UNCHANGED <<outside, children, gateway, probes, isQuitting, timers, log, box>>

HearNo ==
  /\ probe = "No" /\ probe' = "None"
  /\ probes' = probes - 1
  /\ IF probes = 1 THEN shell' = "Up" /\ box' = "Startup" ELSE UNCHANGED <<shell, box>>
  /\ UNCHANGED <<outside, children, gateway, ready, isQuitting, timers, log>>

ExitDebounced(c) ==   (* mutant: no restart while a check is due *)
  /\ c \in Exited
  /\ proc' = [proc EXCEPT ![c] = "Free"] /\ mine' = mine \ {c}
  /\ WriteLog
  /\ restarts' = IF ready /\ ~isQuitting /\ checks = 0 THEN restarts + 1 ELSE restarts
  /\ UNCHANGED <<outside, port, shell, gateway, waiting, isQuitting, checks, box>>
(* The exit handler: a crash is followed by a restart, once the shell has  *)
(* found the gateway ready.                                                *)
Exit(c) ==
  /\ c \in Exited
  /\ proc' = [proc EXCEPT ![c] = "Free"] /\ mine' = mine \ {c}
  /\ WriteLog
  /\ restarts' = IF ready /\ ~isQuitting THEN restarts + 1 ELSE restarts
  /\ UNCHANGED <<outside, port, shell, gateway, waiting, isQuitting, checks, box>>

RestartUntilTold ==   (* mutant: no restart after the error box *)
  /\ restarts > 0 /\ restarts' = restarts - 1 /\ box = "None"
  /\ WriteLog
  /\ StartGateway
  /\ checks' = checks + 1
  /\ UNCHANGED <<outside, shell, waiting, isQuitting, box>>
(* The timer of 2 s.  It does not look at isQuitting again.                *)
Restart ==
  /\ restarts > 0 /\ restarts' = restarts - 1
  /\ WriteLog
  /\ StartGateway
  /\ checks' = checks + 1
  /\ UNCHANGED <<outside, shell, waiting, isQuitting, box>>

CheckRestarts ==   (* mutant: a check that fails starts the gateway again *)
  /\ checks > 0 /\ checks' = checks - 1
  /\ restarts' = IF Answering(DefaultPort) THEN restarts ELSE restarts + 1
  /\ UNCHANGED <<outside, children, shell, gateway, waiting, isQuitting, log, box>>
(* The timer of 4 s: one failed check is enough for the error box.         *)
Check ==
  /\ checks > 0 /\ checks' = checks - 1
  /\ box' = IF Answering(DefaultPort) THEN box ELSE "Restart"
  /\ UNCHANGED <<outside, children, shell, gateway, waiting, isQuitting, restarts, log>>

(* Quit from the tray, the menu, or to install an update, with before-quit *)
(* in it: kill is asked of the child started last.                         *)
Quit ==
  /\ shell = "Up" /\ shell' = "Closing"
  /\ isQuitting' = TRUE
  /\ proc' = [c \in Children |-> IF c = gateway /\ c \in mine \cap Alive THEN "Killed" ELSE proc[c]]
  /\ log' = IF log = "Open" THEN "Ended" ELSE log
  /\ UNCHANGED <<outside, port, mine, gateway, waiting, timers, box>>

(* The shell is gone, its timers with it; a child that lives goes on.      *)
ShellEnds ==
  /\ shell' = "Down" /\ gateway' = NoChild
  /\ mine' = {} /\ proc' = [c \in Children |-> IF c \in Exited THEN "Free" ELSE proc[c]]
  /\ ready' = FALSE /\ isQuitting' = FALSE
  /\ probe' = "None" /\ probes' = 0
  /\ restarts' = 0 /\ checks' = 0
  /\ log' = "Ended" /\ box' = "None"
  /\ UNCHANGED <<outside, port>>

(* The windows are closed, which takes a while.                            *)
Leave == shell = "Closing" /\ ShellEnds

(* It is ended from outside, or the session is; no handler runs.           *)
ShellDies == shell # "Down" /\ ShellEnds

-----------------------------------------------------------------------------
(* What the gateways, the user and the system do.                          *)
Ends(c) == proc' = [proc EXCEPT ![c] = IF c \in mine THEN "Exited" ELSE "Free"]

ProcessStep(c) ==
  /\ \/ /\ proc[c] = "Booting"
        /\ ~Answering(port[c])
        /\ proc' = [proc EXCEPT ![c] = "Serving"]
     \/ /\ proc[c] \in {"Booting", "Serving"}
        /\ checks < MaxChecks
        /\ Ends(c)
     \/ /\ proc[c] = "Killed"
        /\ Ends(c)
  /\ UNCHANGED <<outside, port, mine, shell, gateway, waiting, isQuitting, timers, log, box>>

(* The user, or the settings page, changes the port; the binary is moved   *)
(* into quarantine or comes back.                                          *)
Outside ==
  /\ config' \in Ports /\ exe' \in BOOLEAN
  /\ UNCHANGED <<children, shell, gateway, waiting, isQuitting, timers, log, box>>

(* Bound: two names are left for the shell that starts.                    *)
Room == Cardinality(Alive) + 2 <= Cardinality(Children)

Next ==
  \/ Room /\ Launch
  \/ Probe \/ HearYes \/ HearNo
  \/ \E c \in Children : Exit(c) \/ ProcessStep(c)
  \/ Restart \/ Check \/ Quit \/ Leave \/ ShellDies \/ Outside

Spec == Init /\ [][Next]_vars

(* The shell gets round to every event, and its timers go off.             *)
FairSpec ==
  /\ Spec
  /\ \A c \in Children : WF_vars(Exit(c))
  /\ WF_vars(Restart) /\ WF_vars(Check)

-----------------------------------------------------------------------------
(* There is one gateway at a time: a child that has not been buried, or a  *)
(* timer that will start the next one, never two (main.js:168-185).        *)
OneGateway ==
  /\ \A c, d \in mine : c = d
  /\ restarts = 0 \/ (restarts = 1 /\ mine = {})

(* Quitting asks every child that lives to end (main.js:242, 415): none is *)
(* left that the variable gateway does not name any more.                  *)
QuitKillsAll ==
  [][~isQuitting /\ isQuitting' => \A c \in mine : proc'[c] \in {"Killed", "Exited"}]_vars

(* Once the gateway is ready, there is always somebody who will see to the *)
(* next restart, until the user quits or the binary is gone (main.js:172). *)
Linked == mine # {} \/ restarts > 0
ChainUnbroken ==
  [][Linked /\ ready /\ shell' = "Up" /\ exe => Linked']_vars

(* A gateway that crashes while the shell is up is started again.          *)
CrashIsRestarted ==
  (shell = "Up" /\ ready /\ Linked /\ mine \cap Alive = {})
    ~> (mine \cap Alive # {} \/ shell # "Up" \/ ~exe)
=============================================================================
