----------------------------- MODULE WebServer ------------------------------
(***************************************************************************)
(* The web debug server (web_server.cpp) with its browsers and, where the  *)
(* simulator was started with both, the GDB stub.  Three threads: the main *)
(* thread, which serves the WebSockets one callback at a time; the worker  *)
(* that runs the machine after `continue`; the stub.  A step is one access *)
(* to shared state.                                                        *)
(*                                                                         *)
(* Abstracted: of the machine, whether a client has been sent it as it     *)
(* stands; of a page's refresh (web/index.html), one request in place of   *)
(* its nine; of the stub, the commands that change the machine.  A message *)
(* the server writes is taken as read at once: a slow client is one whose  *)
(* queue is written late.  Trace notifications and reloads are left out.   *)
(***************************************************************************)
EXTENDS Naturals, Sequences

CONSTANTS
  Clients,       (* browsers                                               *)
  MaxRequests,   (* bound: requests their users make                       *)
  MaxConnects,   (* bound: connections made                                *)
  MaxGdb         (* bound: changes the stub makes; 0 where it is not there *)

ASSUME WebAssumption == MaxRequests \in Nat /\ MaxConnects \in Nat /\ MaxGdb \in Nat
                        /\ Clients # {}

(* Served at any time: status, breakpoints, watchpoints, interrupt.        *)
(* "inspect" and "operate" need a stopped machine: the reads of a refresh; *)
(* step, reset, memory.write and snapshot.load.                            *)
UserMethods == {"continue", "pause", "operate", "manage"}
Methods     == UserMethods \cup {"inspect"}

VARIABLES
  inbox,                (* per client: requests on their way               *)
  wsClients,            (* the open connections                            *)
  wsSendQueues,         (* per client: replies and notifications to write  *)
  mainAt, serving,      (* main thread: its next step, the request served  *)
  simAt,                (* worker thread, "none" when there is none        *)
  gdbAt,                (* stub: "away" or at a step under the mutex       *)
  simRunning, pauseRequested, externalStateChanged, notifyQueue,
  asked, connects, gdbDone,   (* counted against the bounds                *)
  upToDate,             (* history: clients that have been sent, since its *)
                        (* last change, what the machine looks like        *)
  overtaken             (* history: clients whose refresh came after the   *)
                        (* stop was reported and before simRunning fell;   *)
                        (* all of them if a change of the stub did         *)

network == <<inbox, wsClients, wsSendQueues, connects>>
flags   == <<simRunning, pauseRequested, externalStateChanged, notifyQueue>>
counts  == <<asked, gdbDone>>
history == <<upToDate, overtaken>>
vars    == <<network, mainAt, serving, simAt, gdbAt, flags, counts, history>>

Ended == {"none", "done"}

NoRequest == [client |-> CHOOSE c \in Clients : TRUE, method |-> "manage"]

Init ==
  /\ inbox = [c \in Clients |-> <<>>] /\ wsSendQueues = [c \in Clients |-> <<>>]
  /\ wsClients = {}
  /\ mainAt = "service" /\ serving = NoRequest /\ simAt = "none" /\ gdbAt = "away"
  /\ simRunning = FALSE /\ pauseRequested = FALSE /\ externalStateChanged = FALSE
  /\ notifyQueue = <<>>
  /\ asked = 0 /\ connects = 0 /\ gdbDone = 0
  /\ upToDate = {} /\ overtaken = {}

(* Someone changes the machine: nobody has seen it as it is now. *)
MachineChanges == upToDate' = {} /\ overtaken' = {}

MutexFree == simAt # "batch" /\ gdbAt = "away"

-----------------------------------------------------------------------------
(* The browsers. *)

Ask(c, m) ==
  /\ c \in wsClients /\ asked < MaxRequests
  /\ inbox' = [inbox EXCEPT ![c] = Append(@, m)]
  /\ asked' = asked + 1
  /\ UNCHANGED <<wsClients, wsSendQueues, connects, mainAt, serving, simAt, gdbAt, flags,
                 gdbDone, history>>

(* What a page does with a message: it refreshes itself after a            *)
(* notification, a change of its own and an answered pause, also when it   *)
(* hears that nothing was running.                                         *)
Refreshes == {"stopped", "stateChanged", "changed", "paused", "notRunning"}

-----------------------------------------------------------------------------
(* The main thread. *)

MainGoes(from, to) == mainAt = from /\ mainAt' = to

Stays == UNCHANGED <<serving, simAt, gdbAt, counts>>

Pushed(queues, to, msg) ==
  [c \in Clients |-> IF c \in to THEN Append(queues[c], msg) ELSE queues[c]]

(* lwsCallback, LWS_CALLBACK_ESTABLISHED; the page refreshes when it opens. *)
Established(c) ==
  /\ mainAt = "service" /\ c \notin wsClients /\ connects < MaxConnects
  /\ connects' = connects + 1
  /\ wsClients' = wsClients \cup {c}
  /\ wsSendQueues' = [wsSendQueues EXCEPT ![c] = <<>>]
  /\ inbox' = [inbox EXCEPT ![c] = <<"inspect">>]
  /\ upToDate' = upToDate \ {c} /\ overtaken' = overtaken \ {c}
  /\ UNCHANGED <<mainAt, flags>> /\ Stays

(* LWS_CALLBACK_CLOSED. *)
Closed(c) ==
  /\ mainAt = "service" /\ c \in wsClients
  /\ wsClients' = wsClients \ {c}
  /\ wsSendQueues' = [wsSendQueues EXCEPT ![c] = <<>>]
  /\ inbox' = [inbox EXCEPT ![c] = <<>>]
  /\ UNCHANGED <<connects, mainAt, flags, history>> /\ Stays

(* LWS_CALLBACK_RECEIVE, up to the call of dispatch. *)
Receive(c) ==
  /\ MainGoes("service", "dispatch")
  /\ inbox[c] # <<>>
  /\ serving' = [client |-> c, method |-> Head(inbox[c])]
  /\ inbox' = [inbox EXCEPT ![c] = Tail(@)]
  /\ UNCHANGED <<wsClients, wsSendQueues, connects, simAt, gdbAt, flags, counts, history>>

(* LWS_CALLBACK_SERVER_WRITEABLE writes one message. *)
Writable(c) ==
  /\ mainAt = "service" /\ wsSendQueues[c] # <<>>
  /\ inbox' = IF Head(wsSendQueues[c]) \in Refreshes
              THEN [inbox EXCEPT ![c] = Append(@, "inspect")] ELSE inbox
  /\ wsSendQueues' = [wsSendQueues EXCEPT ![c] = Tail(@)]
  /\ UNCHANGED <<wsClients, connects, mainAt, flags, history>> /\ Stays

(* lws_service returns. *)
LeaveService ==
  /\ MainGoes("service", "drain")
  /\ UNCHANGED <<network, flags, history>> /\ Stays

NarrowDrainNotifications ==          \* mutant: a notification goes to one browser
  /\ MainGoes("drain", "push")
  /\ notifyQueue' = <<>>
  /\ UNCHANGED <<inbox, wsClients, connects, simRunning, pauseRequested,
                 externalStateChanged, history>> /\ Stays
  /\ IF wsClients = {} THEN UNCHANGED wsSendQueues
     ELSE \E c \in wsClients : wsSendQueues' = [wsSendQueues EXCEPT ![c] = @ \o notifyQueue]

DrainNotifications ==
  /\ MainGoes("drain", "push")
  /\ wsSendQueues' = [c \in Clients |-> IF c \in wsClients THEN wsSendQueues[c] \o notifyQueue
                                                           ELSE wsSendQueues[c]]
  /\ notifyQueue' = <<>>
  /\ UNCHANGED <<inbox, wsClients, connects, simRunning, pauseRequested,
                 externalStateChanged, history>> /\ Stays

LosingPush ==                        \* mutant: the flag is taken and nothing is pushed
  /\ MainGoes("push", "service")
  /\ externalStateChanged' = FALSE
  /\ UNCHANGED <<network, simRunning, pauseRequested, notifyQueue, history>> /\ Stays

(* The exchange at the end of run's loop, and what is pushed after it. *)
PushStateChange ==
  /\ MainGoes("push", "service")
  /\ externalStateChanged' = FALSE
  /\ wsSendQueues' = IF externalStateChanged THEN Pushed(wsSendQueues, wsClients, "stateChanged")
                                             ELSE wsSendQueues
  /\ UNCHANGED <<inbox, wsClients, connects, simRunning, pauseRequested, notifyQueue,
                 history>> /\ Stays

(* A handler returns: the response goes to the client that asked. *)
Respond(from, msg) ==
  /\ MainGoes(from, "service")
  /\ wsSendQueues' = Pushed(wsSendQueues, {serving.client}, msg)
  /\ UNCHANGED <<inbox, wsClients, connects>>

Goes(from, to) == MainGoes(from, to) /\ UNCHANGED network

(* The worker has reported its stop, or will not, and simRunning is up.    *)
Ending == simRunning /\ simAt \in {"tail", "clear", "store"}

Dispatch ==
  LET m == serving.method IN
  /\ \/ /\ simRunning /\ m \in {"continue", "operate", "inspect"}
        /\ Respond("dispatch", "refused")
     \/ ~simRunning /\ m = "pause"    /\ Respond("dispatch", "notRunning")
     \/ simRunning  /\ m = "pause"    /\ Goes("dispatch", "pause")
     \/ ~simRunning /\ m = "continue" /\ Goes("dispatch", "continue")
     \/ /\ m = "manage" \/ (~simRunning /\ m \in {"operate", "inspect"})
        /\ Goes("dispatch", "locked")
  /\ overtaken' = IF m = "inspect" /\ Ending THEN overtaken \cup {serving.client}
                                             ELSE overtaken
  /\ UNCHANGED <<flags, upToDate>> /\ Stays

(* handleContinue. *)
SetRunning ==
  /\ Goes("continue", "rearm")
  /\ simRunning' = TRUE
  /\ UNCHANGED <<pauseRequested, externalStateChanged, notifyQueue, history>> /\ Stays

Rearm ==
  /\ Goes("rearm", "spawn")
  /\ pauseRequested' = FALSE
  /\ UNCHANGED <<simRunning, externalStateChanged, notifyQueue, history>> /\ Stays

(* Joins the previous worker, if any, and starts a new one. *)
Spawn ==
  /\ simAt \in Ended /\ simAt' = "start"
  /\ Respond("spawn", "running")
  /\ UNCHANGED <<serving, gdbAt, counts, flags, history>>

(* handlePause. *)
PauseCheck ==
  /\ \/ simRunning  /\ Goes("pause", "setPause")
     \/ ~simRunning /\ Respond("pause", "notRunning")
  /\ UNCHANGED <<flags, history>> /\ Stays

QuietSetPause ==                     \* mutant: waits for the worker without asking it
  /\ Goes("setPause", "join")
  /\ UNCHANGED <<flags, history>> /\ Stays

SetPause ==
  /\ Goes("setPause", "join")
  /\ pauseRequested' = TRUE
  /\ UNCHANGED <<simRunning, externalStateChanged, notifyQueue, history>> /\ Stays

Join ==
  /\ simAt = "done" /\ simAt' = "none"
  /\ Goes("join", "locked")
  /\ UNCHANGED <<serving, gdbAt, counts, flags, history>>

(* A handler's access to the engine, under the engine's mutex.  A change   *)
(* calls the state change callbacks before the mutex is released.          *)
Inspect ==
  /\ serving.method = "inspect" /\ MutexFree
  /\ Respond("locked", "shown")
  /\ upToDate' = upToDate \cup {serving.client}
  /\ overtaken' = overtaken \ {serving.client}
  /\ UNCHANGED flags /\ Stays

Operate ==
  /\ serving.method = "operate" /\ MutexFree
  /\ Respond("locked", "changed")
  /\ MachineChanges
  /\ externalStateChanged' = (externalStateChanged \/ ~simRunning)
  /\ UNCHANGED <<simRunning, pauseRequested, notifyQueue>> /\ Stays

Manage ==
  /\ serving.method \in {"manage", "pause"} /\ MutexFree
  /\ Respond("locked", IF serving.method = "pause" THEN "paused" ELSE "managed")
  /\ UNCHANGED <<flags, history>> /\ Stays

Main == \/ LeaveService \/ DrainNotifications \/ PushStateChange \/ Dispatch
        \/ SetRunning \/ Rearm \/ Spawn \/ PauseCheck \/ SetPause \/ Join
        \/ Inspect \/ Operate \/ Manage

-----------------------------------------------------------------------------
(* The worker: simLoop. *)

Sim(from, to) ==
  /\ simAt = from /\ simAt' = to
  /\ UNCHANGED <<network, mainAt, serving, gdbAt, counts>>

Quiet == UNCHANGED <<flags, history>>

Reports == /\ notifyQueue' = Append(notifyQueue, "stopped")
           /\ UNCHANGED <<simRunning, pauseRequested, externalStateChanged, history>>

SetTrace == Sim("start", "loop") /\ Quiet
LoopTest == Sim("loop", IF pauseRequested THEN "tail" ELSE "enter") /\ Quiet

EnterBatch == gdbAt = "away" /\ Sim("enter", "batch") /\ Quiet

(* runBatch calls the state change callbacks as well, which find           *)
(* simRunning set.                                                         *)
EndBatch ==
  /\ \/ Sim("batch", "loop")
     \/ Sim("batch", "report")
  /\ MachineChanges
  /\ externalStateChanged' = (externalStateChanged \/ ~simRunning)
  /\ UNCHANGED <<simRunning, pauseRequested, notifyQueue>>

Report   == Sim("report", "tail") /\ Reports

TailTest == Sim("tail", IF pauseRequested THEN "paused" ELSE "clear") /\ Quiet

(* getStatus needs the mutex. *)
ReportPaused == gdbAt = "away" /\ Sim("paused", "clear") /\ Reports

EarlyClear ==                        \* mutant: lowers the flag, then removes the callback
  /\ Sim("clear", "store")
  /\ simRunning' = FALSE
  /\ UNCHANGED <<pauseRequested, externalStateChanged, notifyQueue, history>>

(* engine.setTraceCallback(nullptr), without a lock. *)
ClearTrace == Sim("clear", "store") /\ Quiet

ClearRunning ==
  /\ Sim("store", "done")
  /\ simRunning' = FALSE
  /\ UNCHANGED <<pauseRequested, externalStateChanged, notifyQueue, history>>

Worker == \/ SetTrace \/ LoopTest \/ EnterBatch \/ EndBatch \/ Report \/ TailTest
          \/ ReportPaused \/ ClearTrace \/ ClearRunning

-----------------------------------------------------------------------------
(* The GDB stub: a command that changes the machine takes the mutex; the   *)
(* state change callback looks at simRunning and sets the flag.            *)

Gdb(from, to) ==
  /\ gdbAt = from /\ gdbAt' = to
  /\ UNCHANGED <<network, mainAt, serving, simAt, asked, simRunning, pauseRequested,
                 notifyQueue>>

GdbChanges ==
  /\ gdbDone < MaxGdb /\ gdbDone' = gdbDone + 1
  /\ simAt # "batch"
  /\ Gdb("away", "callback")
  /\ MachineChanges /\ UNCHANGED externalStateChanged

GdbCallback ==
  /\ Gdb("callback", IF simRunning THEN "away" ELSE "store")
  /\ overtaken' = IF Ending THEN Clients ELSE overtaken
  /\ UNCHANGED <<externalStateChanged, gdbDone, upToDate>>

GdbStores ==
  /\ Gdb("store", "away")
  /\ externalStateChanged' = TRUE
  /\ UNCHANGED <<gdbDone, history>>

Stub == GdbChanges \/ GdbCallback \/ GdbStores

-----------------------------------------------------------------------------
Next == \/ \E c \in Clients : \/ \E m \in UserMethods : Ask(c, m)
                              \/ Established(c) \/ Closed(c) \/ Receive(c) \/ Writable(c)
        \/ Main \/ Worker \/ Stub

Spec == Init /\ [][Next]_vars

(***************************************************************************)
(* The threads keep running, and lws_service attends to every socket that  *)
(* has something to read or room to write.                                 *)
(***************************************************************************)
FairSpec == /\ Spec
            /\ WF_vars(Main) /\ WF_vars(Worker) /\ WF_vars(GdbCallback \/ GdbStores)
            /\ \A c \in Clients : SF_vars(Receive(c)) /\ SF_vars(Writable(c))
-----------------------------------------------------------------------------
(* Properties. *)

MainSteps == {"service", "drain", "push", "dispatch", "continue", "rearm", "spawn", "pause",
              "setPause", "join", "locked"}
SimSteps  == {"none", "start", "loop", "enter", "batch", "report", "tail", "paused",
              "clear", "store", "done"}
Responses == {"running", "paused", "refused", "notRunning", "changed", "managed", "shown"}
Messages  == Responses \cup {"stopped", "stateChanged"}

(* Every thread is at one of its steps, and queues, flags and counters     *)
(* hold what the code can put there.                                       *)
TypeOK ==
  /\ inbox \in [Clients -> Seq(Methods)] /\ wsSendQueues \in [Clients -> Seq(Messages)]
  /\ notifyQueue \in Seq({"stopped"}) /\ serving \in [client : Clients, method : Methods]
  /\ wsClients \subseteq Clients /\ upToDate \subseteq Clients /\ overtaken \subseteq Clients
  /\ mainAt \in MainSteps /\ simAt \in SimSteps /\ gdbAt \in {"away", "callback", "store"}
  /\ simRunning \in BOOLEAN /\ pauseRequested \in BOOLEAN /\ externalStateChanged \in BOOLEAN
  /\ asked \in 0 .. MaxRequests /\ connects \in 0 .. MaxConnects /\ gdbDone \in 0 .. MaxGdb

(* Handlers that need a stopped machine reach the peripherals and the      *)
(* pipeline history without the mutex: the worker must be past its last    *)
(* access to the engine when one of them runs.                             *)
StoppedOnlyAlone ==
  mainAt = "locked" /\ serving.method \in {"operate", "inspect"} => simAt \in Ended

(* A page that shows an old state of a machine that stands has the remedy  *)
(* coming: a change not yet pushed, a stop not yet broadcast, a message    *)
(* that makes it refresh, or the refresh itself.  Excused is a page whose  *)
(* refresh, or news of the stub's, fell into the last steps of the worker. *)
In(x, q) == \E i \in 1 .. Len(q) : q[i] = x

RemedyComing(c) ==
  \/ externalStateChanged \/ gdbAt # "away"
  \/ In("stopped", notifyQueue)
  \/ \E msg \in Refreshes : In(msg, wsSendQueues[c])
  \/ In("inspect", inbox[c])
  \/ /\ mainAt \in {"dispatch", "locked"}
     /\ serving = [client |-> c, method |-> "inspect"]

UpdatesOnTheWay ==
  \A c \in wsClients \ (upToDate \cup overtaken) : simRunning \/ RemedyComing(c)

(* ... and is brought up to date sooner or later, unless it leaves or the  *)
(* machine is set going again.                                             *)
PagesFollow ==
  \A c \in Clients :
    (c \in wsClients /\ ~simRunning)
      ~> (c \notin wsClients \/ simRunning \/ c \in upToDate \/ c \in overtaken)

(* `pause` is answered, whatever the worker and the stub are doing.        *)
PauseAnswered ==
  (mainAt = "pause") ~> (mainAt = "service")

(* The comments' own claims, without the excuse.  web_server.cpp:212, in   *)
(* the state change callback: "web UI sim loop handles its own updates";   *)
(* but a page's refresh after the sim loop's notification is refused where *)
(* the worker has not lowered simRunning yet, and nothing follows it; and  *)
(* what the stub changes in that window is dropped.                        *)
SimLoopUpdatesPages == overtaken = {}
=============================================================================
