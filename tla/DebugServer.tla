---------------------------- MODULE DebugServer -----------------------------
(***************************************************************************)
(* The remote debug server (debug_server.cpp): the main thread, which      *)
(* serves one request at a time on the REP socket and publishes queued     *)
(* notifications on the PUB socket; the worker thread that runs the        *)
(* machine in batches after `continue`; and one client with a REQ and a    *)
(* SUB socket.  A step is one access to shared state: an atomic flag, the  *)
(* notification queue (under notifyMutex), the engine (under its mutex).   *)
(*                                                                         *)
(* Abstracted: the machine is its cycle counter, kept modulo CycleMod; of  *)
(* a notification, the run it belongs to and whether it says "paused" (the *)
(* reasons breakpoint, watchpoint and halted are one); trace notifications *)
(* are left out; a request is one of the classes below.                    *)
(***************************************************************************)
EXTENDS Naturals, Sequences

CONSTANTS
  MaxRequests,   (* bound: requests the client sends                       *)
  CycleMod       (* bound: the cycle counter is kept modulo this           *)

ASSUME ServerAssumption == MaxRequests \in Nat /\ CycleMod \in Nat /\ CycleMod > 1

(* Requests served at any time: status; breakpoint, watchpoint, interrupt. *)
AnyTime     == {"status", "manage"}
(* Requests served only while stopped: registers, memory.read and other    *)
(* reads; step, reset, memory.write, snapshot.load and other changes.      *)
StoppedOnly == {"inspect", "operate"}
Methods     == {"continue", "pause"} \cup AnyTime \cup StoppedOnly

VARIABLES
  clientAt, sent,     (* the client's request loop, and requests so far    *)
  method, early,      (* the request: its method; whether it was sent with *)
                      (* the stop of the current run already heard         *)
  reply,              (* the last reply                                    *)
  sub, heard,         (* notifications on their way; runs heard to stop    *)
  assured,            (* the last reply told the client the machine stands *)
  mainAt,             (* main thread: the step it takes next               *)
  simAt,              (* worker thread, "none" when there is none to join  *)
  simRunning, pauseRequested, notifyQueue,
  cycle,              (* the engine                                        *)
  run, reported       (* history: runs started, runs reported as stopped   *)

client == <<clientAt, sent, method, early, sub, heard, assured>>
flags  == <<simRunning, pauseRequested>>
hist   == <<run, reported>>
vars   == <<client, reply, mainAt, simAt, flags, notifyQueue, cycle, hist>>

Ended == {"none", "done"}   (* the worker is gone, joined or not *)

Moved == IF cycle + 1 < CycleMod THEN cycle + 1 ELSE 0

Init ==
  /\ clientAt = "idle" /\ sent = 0 /\ method = "status" /\ early = FALSE /\ reply = "none"
  /\ sub = <<>> /\ heard = {} /\ assured = FALSE
  /\ mainAt = "drain" /\ simAt = "none"
  /\ simRunning = FALSE /\ pauseRequested = FALSE /\ notifyQueue = <<>>
  /\ cycle = 0 /\ run = 0 /\ reported = {}

-----------------------------------------------------------------------------
(* The client. *)

Send(m) ==
  /\ clientAt = "idle" /\ sent < MaxRequests
  /\ clientAt' = "waiting" /\ sent' = sent + 1
  /\ method' = m /\ early' = (run \in heard)
  /\ assured' = (assured /\ m \notin {"continue", "operate"})
  /\ reply' = "none"
  /\ UNCHANGED <<sub, heard, mainAt, simAt, flags, notifyQueue, cycle, hist>>

ReceiveReply ==
  /\ clientAt = "waiting" /\ reply # "none"
  /\ clientAt' = "idle"
  /\ assured' = (assured \/ reply \in {"paused", "stopped", "notRunning"})
  /\ UNCHANGED <<sent, method, early, sub, heard, reply, mainAt, simAt, flags, notifyQueue,
                 cycle, hist>>

Hear ==
  /\ sub # <<>>
  /\ heard' = heard \cup {Head(sub).run} /\ sub' = Tail(sub)
  /\ UNCHANGED <<clientAt, sent, method, early, assured, reply, mainAt, simAt, flags,
                 notifyQueue, cycle, hist>>

-----------------------------------------------------------------------------
(* The main thread: run, dispatch and the handlers. *)

MainGoes(from, to) == mainAt = from /\ mainAt' = to

Answer(from, r) == MainGoes(from, "drain") /\ reply' = r

Idles == UNCHANGED <<client, simAt, notifyQueue, cycle>>

DropNotifications ==                 \* mutant: the queue is emptied, nothing is sent
  /\ MainGoes("drain", "poll")
  /\ notifyQueue' = <<>>
  /\ UNCHANGED <<client, reply, simAt, flags, cycle, hist>>

DrainNotifications ==
  /\ MainGoes("drain", "poll")
  /\ sub' = sub \o notifyQueue /\ notifyQueue' = <<>>
  /\ UNCHANGED <<clientAt, sent, method, early, heard, assured, reply, simAt, flags, cycle, hist>>

(* The poll returns with a request, or empty-handed after 50 ms. *)
Poll ==
  /\ mainAt = "poll"
  /\ mainAt' = IF clientAt = "waiting" /\ reply = "none" THEN "dispatch" ELSE "drain"
  /\ Idles /\ UNCHANGED <<reply, flags, hist>>

Dispatch ==
  /\ \/ simRunning /\ method = "pause" /\ MainGoes("dispatch", "pause") /\ UNCHANGED reply
     \/ ~simRunning /\ method = "pause" /\ Answer("dispatch", "notRunning")
     \/ ~simRunning /\ method = "continue" /\ MainGoes("dispatch", "continue") /\ UNCHANGED reply
     \/ /\ method \in AnyTime \/ (method \in StoppedOnly /\ ~simRunning)
        /\ MainGoes("dispatch", "locked") /\ UNCHANGED reply
     \/ simRunning /\ method \in StoppedOnly \cup {"continue"} /\ Answer("dispatch", "refused")
  /\ Idles /\ UNCHANGED <<flags, hist>>

(* handleContinue. *)
SetRunning ==
  /\ MainGoes("continue", "rearm")
  /\ simRunning' = TRUE /\ run' = run + 1
  /\ Idles /\ UNCHANGED <<reply, pauseRequested, reported>>

Rearm ==
  /\ MainGoes("rearm", "spawn")
  /\ pauseRequested' = FALSE
  /\ Idles /\ UNCHANGED <<reply, simRunning, hist>>

(* Joins the previous worker, if any, and starts a new one. *)
Spawn ==
  /\ simAt \in Ended /\ simAt' = "start"
  /\ Answer("spawn", "running")
  /\ UNCHANGED <<client, flags, notifyQueue, cycle, hist>>

(* handlePause. *)
PauseCheck ==
  /\ \/ simRunning /\ MainGoes("pause", "setPause") /\ UNCHANGED reply
     \/ ~simRunning /\ Answer("pause", "notRunning")
  /\ Idles /\ UNCHANGED <<flags, hist>>

QuietSetPause ==                     \* mutant: waits for the worker without asking it
  /\ MainGoes("setPause", "join")
  /\ Idles /\ UNCHANGED <<reply, flags, hist>>

SetPause ==
  /\ MainGoes("setPause", "join")
  /\ pauseRequested' = TRUE
  /\ Idles /\ UNCHANGED <<reply, simRunning, hist>>

HastyJoin ==                         \* mutant: answers while the worker winds down
  /\ MainGoes("join", "locked")
  /\ UNCHANGED <<client, reply, simAt, flags, notifyQueue, cycle, hist>>

Join ==
  /\ simAt = "done" /\ simAt' = "none"
  /\ MainGoes("join", "locked")
  /\ UNCHANGED <<client, reply, flags, notifyQueue, cycle, hist>>

(* A handler's access to the engine, which waits for the engine's mutex.   *)
(* handleStatus reads simRunning once it has released the mutex.           *)
Locked ==
  /\ simAt # "batch"
  /\ CASE method = "status"  -> MainGoes("locked", "flag") /\ UNCHANGED reply
       [] method = "pause"   -> Answer("locked", "paused")
       [] OTHER              -> Answer("locked", "ok")
  /\ cycle' = IF method = "operate" THEN Moved ELSE cycle
  /\ UNCHANGED <<client, simAt, flags, notifyQueue, hist>>

StatusFlag ==
  /\ Answer("flag", IF simRunning THEN "runs" ELSE "stopped")
  /\ Idles /\ UNCHANGED <<flags, hist>>

Main == \/ DrainNotifications \/ Poll \/ Dispatch \/ SetRunning \/ Rearm \/ Spawn
        \/ PauseCheck \/ SetPause \/ Join \/ Locked \/ StatusFlag

-----------------------------------------------------------------------------
(* The worker: simLoop. *)

SimGoes(from, to) == simAt = from /\ simAt' = to

Works == UNCHANGED <<client, reply, mainAt>>

Push(reason) ==
  /\ notifyQueue' = Append(notifyQueue, [run |-> run, reason |-> reason])
  /\ reported' = reported \cup {run}

(* engine.setTraceCallback, which takes no lock. *)
SetTrace ==
  /\ SimGoes("start", "loop")
  /\ Works /\ UNCHANGED <<flags, notifyQueue, cycle, hist>>

LoopTest ==
  /\ SimGoes("loop", IF pauseRequested THEN "tail" ELSE "enter")
  /\ Works /\ UNCHANGED <<flags, notifyQueue, cycle, hist>>

(* runBatch: takes the mutex, clocks the machine, releases the mutex.      *)
EnterBatch ==
  /\ SimGoes("enter", "batch")
  /\ Works /\ UNCHANGED <<flags, notifyQueue, cycle, hist>>

EndBatch ==
  /\ \/ SimGoes("batch", "loop") /\ cycle' = Moved
     \/ SimGoes("batch", "report") /\ cycle' \in {cycle, Moved}   \* it may be halted already
  /\ Works /\ UNCHANGED <<flags, notifyQueue, hist>>

Report ==
  /\ SimGoes("report", "tail")
  /\ Push("event")
  /\ Works /\ UNCHANGED <<flags, cycle, run>>

SilentTailTest ==                    \* mutant: a pause is not reported
  /\ SimGoes("tail", "clear")
  /\ Works /\ UNCHANGED <<flags, notifyQueue, cycle, hist>>

TailTest ==
  /\ SimGoes("tail", IF pauseRequested THEN "paused" ELSE "clear")
  /\ Works /\ UNCHANGED <<flags, notifyQueue, cycle, hist>>

ReportPaused ==
  /\ SimGoes("paused", "clear")
  /\ Push("paused")
  /\ Works /\ UNCHANGED <<flags, cycle, run>>

EarlyClear ==                        \* mutant: clears the flag, then the callback
  /\ SimGoes("clear", "store")
  /\ simRunning' = FALSE
  /\ Works /\ UNCHANGED <<pauseRequested, notifyQueue, cycle, hist>>

(* engine.setTraceCallback(nullptr), again without a lock. *)
ClearTrace ==
  /\ SimGoes("clear", "store")
  /\ Works /\ UNCHANGED <<flags, notifyQueue, cycle, hist>>

ClearRunning ==
  /\ SimGoes("store", "done")
  /\ simRunning' = FALSE
  /\ Works /\ UNCHANGED <<pauseRequested, notifyQueue, cycle, hist>>

Sim == \/ SetTrace \/ LoopTest \/ EnterBatch \/ EndBatch \/ Report \/ TailTest
       \/ ReportPaused \/ ClearTrace \/ ClearRunning

-----------------------------------------------------------------------------
Next == (\E m \in Methods : Send(m)) \/ ReceiveReply \/ Hear \/ Main \/ Sim

Spec == Init /\ [][Next]_vars

(***************************************************************************)
(* Both threads keep running and the client takes what it is sent.  A      *)
(* std::mutex promises no more: a thread may wait for it for ever while    *)
(* another keeps releasing and taking it, which is weak fairness here.     *)
(***************************************************************************)
FairSpec == /\ Spec
            /\ WF_vars(Main) /\ WF_vars(Sim) /\ WF_vars(ReceiveReply) /\ WF_vars(Hear)

-----------------------------------------------------------------------------
(* Properties. *)

MainSteps == {"drain", "poll", "dispatch", "continue", "rearm", "spawn", "pause", "setPause",
              "join", "locked", "flag"}
SimSteps  == {"none", "start", "loop", "enter", "batch", "report", "tail", "paused",
              "clear", "store", "done"}
Replies   == {"none", "running", "paused", "notRunning", "refused", "ok", "runs", "stopped"}
Note      == [run : Nat, reason : {"event", "paused"}]

(* The two threads and the client are at one of their steps, and flags,    *)
(* queue and counters hold what the code can put there.                    *)
TypeOK ==
  /\ clientAt \in {"idle", "waiting"} /\ sent \in 0 .. MaxRequests
  /\ method \in Methods /\ early \in BOOLEAN /\ reply \in Replies
  /\ sub \in Seq(Note) /\ heard \subseteq Nat /\ assured \in BOOLEAN
  /\ mainAt \in MainSteps /\ simAt \in SimSteps
  /\ simRunning \in BOOLEAN /\ pauseRequested \in BOOLEAN /\ notifyQueue \in Seq(Note)
  /\ cycle \in 0 .. CycleMod - 1 /\ run \in Nat /\ reported \subseteq Nat

(* The handlers that need a stopped machine reach parts of the engine that *)
(* no mutex protects (trace callback, peripherals): the worker must be     *)
(* past its last access to the engine when one of them runs.               *)
StoppedOnlyAlone ==
  mainAt = "locked" /\ method \in StoppedOnly => simAt \in Ended

(* A client that was told that the machine stands (by the reply to pause,  *)
(* to status, or error -3) finds it where it stood until it asks for a     *)
(* change itself.                                                          *)
StandStep == assured => cycle' = cycle
AssuredStandsStill == [][StandStep]_vars

(* The server keeps the promises of Session: nothing runs after its stop   *)
(* was reported, and no run ends without a report.                         *)
Promise == INSTANCE Session WITH running <- simRunning

ImplementsSession == Promise!Spec

(* `pause` is answered, whatever program runs and whoever gets the mutex.  *)
PauseAnswered == (clientAt = "waiting" /\ method = "pause") ~> (clientAt = "idle")

(* Every request is answered, if the mutex is granted to the main thread   *)
(* sooner or later whenever it is free again and again.                    *)
RequestsAnswered ==
  SF_vars(Locked) => ((clientAt = "waiting") ~> (clientAt = "idle"))

(* Every stop that the worker reports reaches the client.                  *)
StopsAreHeard == \A r \in 1 .. MaxRequests : (r \in reported) ~> (r \in heard)

(* README, Python client example: after the stopped notification the       *)
(* client inspects the machine.  The request is refused when it overtakes  *)
(* the worker's last two steps.                                            *)
InspectAfterStop == method = "inspect" /\ early => reply # "refused"
=============================================================================
