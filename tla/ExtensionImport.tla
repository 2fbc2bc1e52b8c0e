--------------------------- MODULE ExtensionImport ---------------------------
(***************************************************************************)
(* The browser extension (src/browser-extension/background.js), which      *)
(* takes the login cookie of the upstream to the gateway.  One flow runs   *)
(* at a time: it reads the cookie, waits up to three minutes for a login   *)
(* if there is none, and offers it to one port of 127.0.0.1 after another, *)
(* the one a panel has named, the one of the options, and the usual ones,  *)
(* until a gateway answers.  A panel that asks while a flow runs joins it, *)
(* and names its port and key for it; it is answered soon, whatever the    *)
(* flow does.  A click on the icon starts the same flow and names nothing. *)
(*                                                                         *)
(* Everything here runs on one thread and is cut at each await.  A browser *)
(* may stop the worker at any time.  What a gateway does with the cookie   *)
(* is the Import of CredentialStore, here a member of holds.               *)
(***************************************************************************)
EXTENDS Sequences, SequencesExt

CONSTANTS
  Panels,
  Ports, NoPort,
  Keys, NoKey,
  Usual,     (* the ports tried last: option page and DEFAULT_PORTS        *)
  OwnKey,    (* the key of the options page                                *)
  KeyOf      (* the key each gateway asks for                              *)

ASSUME ExtensionAssumption ==
  /\ NoPort \notin Ports /\ NoKey \notin Keys
  /\ Usual \in Seq(Ports) /\ Usual # <<>> /\ IsInjective(Usual)
  /\ OwnKey \in Keys \cup {NoKey} /\ KeyOf \in [Ports -> Keys \cup {NoKey}]

VARIABLES
  flow,                 (* runningFlow: where it is                        *)
  flowPanelPort, flowApiKey,
  ports, key, post,     (* the ports to try, the key, and the fetch        *)
  panel, told,          (* each panel: its request, and the answer         *)
  asked,                (* history: the port and the key named last for    *)
                        (* this flow, by one panel or two                  *)
  signedIn,             (* is there a session cookie?                      *)
  up, holds, late       (* gateways that run, hold the cookie, or have the *)
                        (* request of a fetch that is given up before them *)

worker == <<flow, flowPanelPort, flowApiKey, ports, key, post>>
gateways == <<up, holds, late>>
eiVars == <<worker, panel, told, asked, signedIn, gateways>>

Named == [port : Ports \cup {NoPort}, key : Keys \cup {NoKey}]
NoneNamed == [port |-> NoPort, key |-> NoKey]

EITypeOK ==
  /\ flow \in {"None", "Read", "Login", "Again", "Post"}
  /\ flowPanelPort \in Ports \cup {NoPort} /\ flowApiKey \in Keys \cup {NoKey}
  /\ ports \in Seq(Ports) /\ (flow = "Post") = (ports # <<>>)
  /\ key \in Keys \cup {NoKey} /\ post \in {"None", "Out", "Taken", "Denied"}
  /\ panel \in [Panels -> {"Idle", "Probe", "Await"}]
  /\ told \in [Panels -> {"nothing", "login", "started", "done"}]
  /\ asked \in Named
  /\ signedIn \in BOOLEAN
  /\ up \subseteq Ports /\ holds \subseteq Ports /\ late \subseteq up
  /\ flow = "None" => flowPanelPort = NoPort /\ \A m \in Panels : panel[m] # "Await"

EIInit ==
  /\ flow = "None" /\ flowPanelPort = NoPort /\ flowApiKey = NoKey
  /\ ports = <<>> /\ key = NoKey /\ post = "None"
  /\ panel = [m \in Panels |-> "Idle"] /\ told = [m \in Panels |-> "nothing"]
  /\ asked = NoneNamed
  /\ signedIn \in BOOLEAN
  /\ up \in SUBSET Ports /\ holds = {} /\ late = {}

-----------------------------------------------------------------------------
(* startFlow: begin a flow, or join the one that runs and name a port, a   *)
(* key, both or neither for it.                                            *)
StartFlow(p, k) ==
  /\ flow' = IF flow = "None" THEN "Read" ELSE flow
  /\ flowPanelPort' = IF p # NoPort THEN p ELSE flowPanelPort
  /\ flowApiKey' = IF k # NoKey THEN k ELSE flowApiKey
  /\ asked' = IF flow = "Post" THEN asked
              ELSE [port |-> IF p # NoPort THEN p ELSE asked.port,
                    key |-> IF k # NoKey THEN k ELSE asked.key]
  /\ UNCHANGED <<ports, key, post>>

(* The finally of the flow: nothing of it is left for the next one.  The   *)
(* panels that wait for it are answered.                                   *)
FinishForgetsLittle(result) ==   (* mutant: port and key are kept *)
  /\ flow' = "None" /\ UNCHANGED <<flowPanelPort, flowApiKey>>
  /\ ports' = <<>> /\ key' = NoKey /\ post' = "None"
  /\ asked' = NoneNamed
  /\ panel' = [m \in Panels |-> IF panel[m] = "Await" THEN "Idle" ELSE panel[m]]
  /\ told' = [m \in Panels |-> IF panel[m] = "Await" THEN result ELSE told[m]]
FinishKeepsKey(result) ==   (* mutant: the key is kept *)
  /\ flow' = "None" /\ flowPanelPort' = NoPort /\ UNCHANGED flowApiKey
  /\ ports' = <<>> /\ key' = NoKey /\ post' = "None"
  /\ asked' = NoneNamed
  /\ panel' = [m \in Panels |-> IF panel[m] = "Await" THEN "Idle" ELSE panel[m]]
  /\ told' = [m \in Panels |-> IF panel[m] = "Await" THEN result ELSE told[m]]
Finish(result) ==
  /\ flow' = "None" /\ flowPanelPort' = NoPort /\ flowApiKey' = NoKey
  /\ ports' = <<>> /\ key' = NoKey /\ post' = "None"
  /\ asked' = NoneNamed
  /\ panel' = [m \in Panels |-> IF panel[m] = "Await" THEN "Idle" ELSE panel[m]]
  /\ told' = [m \in Panels |-> IF panel[m] = "Await" THEN result ELSE told[m]]

(* candidatePorts: no port is tried twice.                                 *)
Candidates(p) ==
  IF p = NoPort THEN Usual ELSE <<p>> \o RemoveFirst(Usual, p)

(* importCookieToGateway takes port and key as they are named by now, the  *)
(* key of the options page if none is.                                     *)
Offer ==
  /\ flow' = "Post" /\ post' = "Out"
  /\ ports' = Candidates(flowPanelPort)
  /\ key' = IF flowApiKey # NoKey THEN flowApiKey ELSE OwnKey
  /\ UNCHANGED <<flowPanelPort, flowApiKey, panel, told, asked>>

(* readFreebuffCookie, at first and after a login                          *)
ReadCookie ==
  /\ flow \in {"Read", "Again"}
  /\ \/ signedIn /\ Offer
     \/ ~signedIn /\ flow = "Again" /\ Finish("started")
     \/ /\ ~signedIn /\ flow = "Read" /\ flow' = "Login"
        /\ UNCHANGED <<flowPanelPort, flowApiKey, ports, key, post, panel, told, asked>>
  /\ UNCHANGED <<signedIn, gateways>>

(* waitForSessionCookie                                                    *)
LoginSeen ==
  /\ flow = "Login" /\ signedIn /\ flow' = "Again"
  /\ UNCHANGED <<flowPanelPort, flowApiKey, ports, key, post, panel, told, asked,
                 signedIn, gateways>>

LoginTimeoutLate ==   (* mutant: the wait for a login has no end *)
  /\ flow = "Login" /\ signedIn /\ Finish("started")
  /\ UNCHANGED <<signedIn, gateways>>
LoginTimeout ==
  /\ flow = "Login" /\ Finish("started")
  /\ UNCHANGED <<signedIn, gateways>>

-----------------------------------------------------------------------------
(* postToGateway.  The gateway gets the request and looks at the key.      *)
May(p) == KeyOf[p] \in {NoKey, key}
Underway == {p \in up : post = "Out" /\ p = Head(ports) /\ May(p)}

Handle ==
  /\ post = "Out" /\ Head(ports) \in up
  /\ post' = IF May(Head(ports)) THEN "Taken" ELSE "Denied"
  /\ holds' = holds \cup Underway
  /\ UNCHANGED <<flow, flowPanelPort, flowApiKey, ports, key, panel, told, asked,
                 signedIn, up, late>>

NextPort ==
  IF Len(ports) = 1 THEN Finish("started")
  ELSE /\ ports' = Tail(ports) /\ post' = "Out"
       /\ UNCHANGED <<flow, flowPanelPort, flowApiKey, key, panel, told, asked>>

(* Any answer ends the search, and is a success if the gateway says so.   *)
AnsweredIsOk ==   (* mutant: a gateway that answers has taken it *)
  /\ flow = "Post" /\ post # "Out" /\ Head(ports) \in up /\ Finish("done")
  /\ UNCHANGED <<signedIn, gateways>>
Answered ==
  /\ flow = "Post" /\ Head(ports) \in up
  /\ \/ post = "Taken" /\ Finish("done")
     \/ post = "Denied" /\ Finish("started")
  /\ UNCHANGED <<signedIn, gateways>>

(* No connection, or one that broke.                                       *)
Refused ==
  /\ flow = "Post" /\ Head(ports) \notin up /\ NextPort
  /\ UNCHANGED <<signedIn, gateways>>

(* Eight seconds without an answer; the gateway may have the request, and  *)
(* may still get it.                                                       *)
FetchTimeout ==
  /\ flow = "Post" /\ Head(ports) \in up /\ NextPort
  /\ late' = late \cup Underway
  /\ UNCHANGED <<signedIn, up, holds>>

-----------------------------------------------------------------------------
(* onMessageExternal: is there a session?  That is asked for 1.5 s.        *)
Message(m) ==
  /\ panel[m] = "Idle"
  /\ panel' = [panel EXCEPT ![m] = "Probe"] /\ told' = [told EXCEPT ![m] = "nothing"]
  /\ UNCHANGED <<worker, asked, signedIn, gateways>>

(* There is: the panel waits for the flow.                                 *)
Join(m, p, k) ==
  /\ panel[m] = "Probe" /\ signedIn
  /\ panel' = [panel EXCEPT ![m] = "Await"] /\ StartFlow(p, k)
  /\ UNCHANGED <<told, signedIn, gateways>>

(* There is none, or no word of it: the panel is told at once.             *)
JoinUnseen(m, p, k) ==
  /\ panel[m] = "Probe"
  /\ panel' = [panel EXCEPT ![m] = "Idle"] /\ told' = [told EXCEPT ![m] = "login"]
  /\ StartFlow(p, k)
  /\ UNCHANGED <<signedIn, gateways>>

(* The flow has taken more than three seconds.                             *)
GuardTimeoutAtEnd(m) ==   (* mutant: the panel waits for the flow *)
  /\ panel[m] = "Await" /\ flow = "None"
  /\ panel' = [panel EXCEPT ![m] = "Idle"] /\ told' = [told EXCEPT ![m] = "started"]
  /\ UNCHANGED <<worker, asked, signedIn, gateways>>
GuardTimeout(m) ==
  /\ panel[m] = "Await"
  /\ panel' = [panel EXCEPT ![m] = "Idle"] /\ told' = [told EXCEPT ![m] = "started"]
  /\ UNCHANGED <<worker, asked, signedIn, gateways>>

Click == StartFlow(NoPort, NoKey) /\ UNCHANGED <<panel, told, signedIn, gateways>>

-----------------------------------------------------------------------------
(* The browser stops the worker, and panels hear no more of it.            *)
Evict ==
  /\ flow' = "None" /\ flowPanelPort' = NoPort /\ flowApiKey' = NoKey
  /\ ports' = <<>> /\ key' = NoKey /\ post' = "None"
  /\ asked' = NoneNamed
  /\ panel' = [m \in Panels |-> "Idle"]
  /\ late' = late \cup Underway
  /\ UNCHANGED <<told, signedIn, up, holds>>

Sign == signedIn' = ~signedIn /\ UNCHANGED <<worker, panel, told, asked, gateways>>

GatewayStarts(p) ==
  /\ p \notin up /\ up' = up \cup {p}
  /\ UNCHANGED <<worker, panel, told, asked, signedIn, holds, late>>
GatewayStops(p) ==
  /\ p \in up /\ up' = up \ {p} /\ late' = late \ {p}
  /\ UNCHANGED <<worker, panel, told, asked, signedIn, holds>>
HandleLate(p) ==
  /\ p \in late /\ late' = late \ {p} /\ holds' = holds \cup {p}
  /\ UNCHANGED <<worker, panel, told, asked, signedIn, up>>

Flow == ReadCookie \/ LoginSeen \/ LoginTimeout \/ Answered \/ Refused \/ FetchTimeout
Hear(m) == \/ GuardTimeout(m)
           \/ \E p \in Ports \cup {NoPort}, k \in Keys \cup {NoKey} : Join(m, p, k) \/ JoinUnseen(m, p, k)

EINext ==
  \/ Flow \/ Handle \/ Click \/ Evict \/ Sign
  \/ \E m \in Panels : Message(m) \/ Hear(m)
  \/ \E p \in Ports : GatewayStarts(p) \/ GatewayStops(p) \/ HandleLate(p)

EISpec == EIInit /\ [][EINext]_eiVars

(* What a panel waits for ends, by itself or by a timer.                   *)
EIFairSpec == EISpec /\ \A m \in Panels : WF_eiVars(Hear(m))

-----------------------------------------------------------------------------
(* The cookie is offered first to the port that was named last for this    *)
(* flow, with the key that was named last for it, also by panels that      *)
(* joined while it waited for a login (background.js 244, 245); and with   *)
(* nothing that was named for an earlier flow or that came too late for    *)
(* it.  Port and key are named apart: they need not be of one panel.       *)
NamedForThisFlow ==
  [][flow # "Post" /\ flow' = "Post" =>
       /\ asked.port # NoPort => Head(ports') = asked.port
       /\ asked.port = NoPort => ports' = Usual
       /\ key' = IF asked.key # NoKey THEN asked.key ELSE OwnKey]_eiVars

(* A panel that is told "done" is told of a gateway that holds the cookie. *)
DoneIsHeld ==
  [][\A m \in Panels : told'[m] = "done" /\ told[m] # "done" => Head(ports) \in holds]_eiVars

(* Every panel is answered, or the worker is gone, also when the flow it   *)
(* asked for makes no progress at all: it is fair to the panels only       *)
(* ("never wait for a login of up to three minutes", onMessageExternal).   *)
PanelsHear == \A m \in Panels : panel[m] # "Idle" ~> panel[m] = "Idle"

(* If its awaits end, by what they wait for or by their timers, a flow     *)
(* comes to its end, and another one can begin (the finally of runningFlow;*)
(* the deadlines of waitForSessionCookie and postToGateway).               *)
FlowsEnd == WF_eiVars(Flow) => (flow # "None" ~> flow = "None")
=============================================================================
