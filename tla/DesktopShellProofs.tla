-------------------------- MODULE DesktopShellProofs --------------------------
(***************************************************************************)
(* Theorems about DesktopShell: there is one gateway at a time, quitting   *)
(* leaves none of the shell's children without a signal, and the chain of  *)
(* restarts does not break while the binary can be started.                *)
(***************************************************************************)
EXTENDS DesktopShell, TLAPS

USE DesktopAssumption

(* Besides the properties: the only child is the one the variable gateway  *)
(* names; a signal is sent when the shell quits and not before; before the *)
(* wait is over there is no timer; a child that is to be restarted was not *)
(* allowed to exit while the last check was due (the bound on checks).     *)
IInv ==
  /\ TypeOK
  /\ OneGateway
  /\ mine \subseteq {gateway}
  /\ isQuitting <=> shell = "Closing"
  /\ shell = "Waiting" => probes > 0
  /\ probe # "None" => shell = "Waiting"
  /\ \A c \in mine : proc[c] = "Killed" => isQuitting
  /\ restarts > 0 \/ (Exited # {} /\ ~isQuitting) => checks < MaxChecks
  /\ restarts > 0 => shell # "Down"

LEMMA InitInv == Init => IInv
<1> SUFFICES ASSUME Init PROVE IInv
  OBVIOUS
<1>1. TypeOK
  <2>1. exe \in BOOLEAN /\ ready \in BOOLEAN /\ isQuitting \in BOOLEAN
    BY Zenon DEF Init
  <2>2. mine = {} /\ Exited = {}
    BY DEF Init, Exited
  <2>3. QED
    BY <2>1, <2>2 DEF Init, TypeOK
<1>2. OneGateway
  BY DEF Init, OneGateway
<1>3. isQuitting <=> shell = "Closing"
  BY DEF Init
<1>4. shell = "Waiting" => probes > 0
  BY DEF Init
<1>5. probe # "None" => shell = "Waiting"
  BY DEF Init
<1>6. restarts = 0 /\ checks < MaxChecks
  BY DEF Init
<1>7. mine = {}
  BY DEF Init
<1>8. QED
  BY <1>1, <1>2, <1>3, <1>4, <1>5, <1>6, <1>7 DEF IInv

(* Starting a gateway when there is none leaves one at most.               *)
LEMMA StartOne ==
  ASSUME IInv, mine = {}, StartGateway
  PROVE  /\ proc' \in [Children -> {"Free", "Booting", "Serving", "Killed", "Exited"}]
         /\ port' \in [Children -> Ports]
         /\ gateway' \in Children \cup {NoChild}
         /\ mine' \subseteq {gateway'} /\ mine' \subseteq Alive'
         /\ Exited' = {}
         /\ \A c \in mine' : proc'[c] = "Booting"
BY DEF IInv, TypeOK, StartGateway, children, Alive, Exited

(* The invariant is kept by every action.                                  *)
LEMMA StepInv == IInv /\ [Next]_vars => IInv'
<1> SUFFICES ASSUME IInv, [Next]_vars PROVE IInv'
  OBVIOUS
<1>1. CASE Launch
  <2>1. mine = {} /\ StartGateway
    BY <1>1 DEF Launch, IInv, TypeOK
  <2>2. TypeOK'
    <3>1. exe' \in BOOLEAN /\ ready' \in BOOLEAN /\ isQuitting' \in BOOLEAN
      BY Zenon, <1>1 DEF Launch, outside, IInv, TypeOK
    <3>2. /\ config' \in Ports /\ shell' = "Waiting" /\ probe' = "None" /\ probes' \in 0..MaxProbes
          /\ restarts' = 0 /\ checks' \in 0..MaxChecks /\ log' = "Open" /\ box' = "None"
      BY <1>1 DEF Launch, outside, IInv, TypeOK
    <3>3. /\ proc' \in [Children -> {"Free", "Booting", "Serving", "Killed", "Exited"}]
          /\ port' \in [Children -> Ports] /\ gateway' \in Children \cup {NoChild}
          /\ mine' \subseteq Children /\ mine' \subseteq Alive' /\ Exited' = {}
      BY <2>1, StartOne DEF Alive
    <3>4. QED
      BY <3>1, <3>2, <3>3 DEF TypeOK
  <2>3. OneGateway'
    BY <1>1, <2>1, StartOne DEF Launch, OneGateway
  <2>4. \A c \in mine' : proc'[c] = "Booting"
    BY <2>1, StartOne
  <2>5. isQuitting' <=> shell' = "Closing"
    BY <1>1 DEF Launch
  <2>6. probes' > 0 /\ probe' = "None" /\ restarts' = 0 /\ checks' < MaxChecks
    BY <1>1 DEF Launch
  <2>7. QED
    BY <2>1, <2>2, <2>3, <2>4, <2>5, <2>6, StartOne DEF IInv
<1>2. CASE Probe
  BY <1>2 DEF Probe, IInv, TypeOK, OneGateway, Exited, Alive, outside, children, timers
<1>3. CASE HearYes
  BY <1>3 DEF HearYes, IInv, TypeOK, OneGateway, Exited, Alive, outside, children, timers
<1>4. CASE HearNo
  BY <1>4 DEF HearNo, IInv, TypeOK, OneGateway, Exited, Alive, outside, children, timers
<1>5. ASSUME NEW c \in Children, Exit(c) PROVE IInv'
  <2>1. c \in mine /\ mine = {c} /\ restarts = 0 /\ mine' = {} /\ restarts' \in {0, 1}
    BY <1>5 DEF Exit, IInv, TypeOK, OneGateway
  <2>2. Exited' = {} /\ proc' \in [Children -> {"Free", "Booting", "Serving", "Killed", "Exited"}]
    BY <1>5, <2>1 DEF Exit, Exited, IInv, TypeOK
  <2>3. restarts' > 0 => ~isQuitting /\ Exited # {}
    BY <1>5, <2>1 DEF Exit
  <2>4. log' \in {"Open", "Ended", "Broken"}
    BY <1>5 DEF Exit, WriteLog, IInv, TypeOK
  <2>5. QED
    BY <1>5, <2>1, <2>2, <2>3, <2>4 DEF Exit, IInv, TypeOK, OneGateway, outside, waiting
<1>6. CASE Restart
  <2>1. mine = {} /\ restarts' = 0 /\ StartGateway /\ checks < MaxChecks
    BY <1>6 DEF Restart, IInv, OneGateway
  <2>2. log' \in {"Open", "Ended", "Broken"}
    BY <1>6 DEF Restart, WriteLog, IInv, TypeOK
  <2>3. TypeOK'
    <3>1. shell' # "Down"
      BY <1>6 DEF Restart, IInv
    <3>2. /\ exe' \in BOOLEAN /\ ready' \in BOOLEAN /\ isQuitting' \in BOOLEAN
          /\ config' \in Ports /\ shell' \in {"Down", "Waiting", "Up", "Closing"}
          /\ probe' \in {"None", "Yes", "No"} /\ probes' \in 0..MaxProbes
          /\ box' \in {"None", "Startup", "Restart"}
      BY <1>6 DEF Restart, outside, waiting, IInv, TypeOK
    <3>3. restarts' = 0 /\ checks' \in 0..MaxChecks
      BY <1>6, <2>1 DEF Restart, IInv, TypeOK
    <3>4. /\ proc' \in [Children -> {"Free", "Booting", "Serving", "Killed", "Exited"}]
          /\ port' \in [Children -> Ports] /\ gateway' \in Children \cup {NoChild}
          /\ mine' \subseteq Children /\ mine' \subseteq Alive' /\ Exited' = {}
      BY <2>1, StartOne DEF Alive
    <3>5. QED
      BY <2>2, <3>1, <3>2, <3>3, <3>4 DEF TypeOK
  <2>4. OneGateway'
    BY <1>6, <2>1, StartOne DEF Restart, OneGateway
  <2>5. \A c \in mine' : proc'[c] = "Booting"
    BY <2>1, StartOne
  <2>6. /\ isQuitting' <=> shell' = "Closing"
        /\ shell' = "Waiting" => probes' > 0
        /\ probe' # "None" => shell' = "Waiting"
    BY <1>6 DEF Restart, waiting, IInv
  <2>7. QED
    BY <2>1, <2>3, <2>4, <2>5, <2>6, StartOne DEF IInv
<1>7. CASE Check
  BY <1>7 DEF Check, IInv, TypeOK, OneGateway, Exited, Alive, outside, children, waiting
<1>8. CASE Quit
  BY <1>8 DEF Quit, IInv, TypeOK, OneGateway, Exited, Alive, outside, waiting, timers
<1>9. CASE ShellEnds
  <2>1. mine' = {} /\ Exited' = {} /\ restarts' = 0 /\ checks' = 0 /\ probe' = "None"
    BY <1>9 DEF ShellEnds, Exited, IInv, TypeOK
  <2>2. shell' = "Down" /\ ~isQuitting'
    BY <1>9 DEF ShellEnds
  <2>3. TypeOK'
    <3>1. exe' \in BOOLEAN /\ ready' \in BOOLEAN /\ isQuitting' \in BOOLEAN
      BY Zenon, <1>9 DEF ShellEnds, outside, IInv, TypeOK
    <3>2. QED
      BY <1>9, <2>1, <2>2, <3>1 DEF ShellEnds, outside, IInv, TypeOK
  <2>4. isQuitting' <=> shell' = "Closing"
    BY <2>2
  <2>5. QED
    BY <2>1, <2>2, <2>3, <2>4 DEF IInv, OneGateway
<1>10. ASSUME NEW c \in Children, ProcessStep(c) PROVE IInv'
  <2>1. UNCHANGED <<outside, port, mine, shell, gateway, waiting, isQuitting, timers, log, box>>
    BY <1>10 DEF ProcessStep
  <2>2. /\ proc' \in [Children -> {"Free", "Booting", "Serving", "Killed", "Exited"}]
        /\ \A d \in Children : d # c => proc'[d] = proc[d]
        /\ proc'[c] \in {"Serving", "Free", "Exited"}
        /\ c \in mine => proc'[c] # "Free"
        /\ proc'[c] = "Exited" => c \in mine /\ (proc[c] = "Killed" \/ checks < MaxChecks)
    BY <1>10 DEF ProcessStep, Ends, IInv, TypeOK
  <2>3. mine' \subseteq Alive' \cup Exited' /\ Exited' \subseteq mine'
    BY <2>1, <2>2 DEF IInv, TypeOK, Alive, Exited
  <2>4. Exited' # {} /\ ~isQuitting => checks < MaxChecks
    BY <2>1, <2>2, <2>3 DEF IInv, Exited
  <2>5. QED
    BY <2>1, <2>2, <2>3, <2>4 DEF IInv, TypeOK, OneGateway, outside, waiting, timers
<1>11. CASE Outside
  BY <1>11 DEF Outside, IInv, TypeOK, OneGateway, Exited, Alive, children, waiting, timers
<1>12. CASE UNCHANGED vars
  BY <1>12 DEF vars, IInv, TypeOK, OneGateway, Exited, Alive, outside, children, waiting, timers
<1>13. QED
  BY <1>1, <1>2, <1>3, <1>4, <1>5, <1>6, <1>7, <1>8, <1>9, <1>10, <1>11, <1>12
     DEF Next, Leave, ShellDies

LEMMA AlwaysInv == Spec => []IInv
BY InitInv, StepInv, PTL DEF Spec

(* The variables of the shell keep their types; the shell that has ended   *)
(* has no children, and only its own children's exits are waiting for it.  *)
THEOREM TypeCorrect == Spec => []TypeOK
<1>1. IInv => TypeOK
  BY DEF IInv
<1>2. QED
  BY <1>1, AlwaysInv, PTL

(* main.js:168-185: crashes and restarts in any order never lead to two    *)
(* gateways of one shell, nor to a timer beside a gateway.                 *)
THEOREM OneGatewayAtATime == Spec => []OneGateway
<1>1. IInv => OneGateway
  BY DEF IInv
<1>2. QED
  BY <1>1, AlwaysInv, PTL

(* main.js:242, 415: whoever lives when the user quits is asked to end.    *)
THEOREM QuittingKillsAll == Spec => QuitKillsAll
<1>1. ASSUME IInv, [Next]_vars, ~isQuitting /\ isQuitting'
      PROVE  \A c \in mine : proc'[c] \in {"Killed", "Exited"}
  <2>1. Quit
    BY <1>1 DEF Next, Launch, Probe, HearYes, HearNo, Exit, ProcessStep, Restart, Check, Leave,
       ShellDies, ShellEnds, Outside, vars, waiting
  <2>2. QED
    BY <1>1, <2>1 DEF Quit, IInv, TypeOK, Alive, Exited
<1>2. IInv /\ [Next]_vars
        => [~isQuitting /\ isQuitting' => \A c \in mine : proc'[c] \in {"Killed", "Exited"}]_vars
  BY <1>1
<1>3. QED
  BY <1>2, AlwaysInv, PTL DEF Spec, QuitKillsAll

(* main.js:172: while the shell is up and the binary can be started, an    *)
(* exit leads to a timer, and a timer to a gateway.                        *)
THEOREM ChainDoesNotBreak == Spec => ChainUnbroken
<1>1. ASSUME IInv, [Next]_vars, Linked, ready, shell' = "Up", exe
      PROVE  Linked'
  <2>1. CASE \E c \in Children : Exit(c)
    <3>1. ~isQuitting
      BY <1>1, <2>1 DEF Exit, IInv
    <3>2. QED
      BY <1>1, <2>1, <3>1 DEF Exit, Linked, IInv, TypeOK
  <2>2. CASE Restart
    BY <1>1, <2>2 DEF Restart, StartGateway, Linked
  <2>3. CASE UNCHANGED <<mine, restarts>>
    BY <1>1, <2>3 DEF Linked
  <2>4. QED
    BY <1>1, <2>1, <2>2, <2>3 DEF Next, Launch, Probe, HearYes, HearNo, ProcessStep, Check, Quit,
       Leave, ShellDies, ShellEnds, Outside, vars, children, timers
<1>2. IInv /\ [Next]_vars
        => [Linked /\ ready /\ shell' = "Up" /\ exe => Linked']_vars
  BY <1>1
<1>3. QED
  BY <1>2, AlwaysInv, PTL DEF Spec, ChainUnbroken
=============================================================================
