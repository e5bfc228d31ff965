-------------------------- MODULE WebServerProofs ---------------------------
(***************************************************************************)
(* Safety of the web server, for any set of browsers and any number of     *)
(* requests.  ThreadsInv, the discipline of the flag simRunning, keeps the *)
(* handlers and the worker apart, with or without the GDB stub.  PagesInv  *)
(* accounts for every page that shows an old state.  PageInv, at the end,  *)
(* is about the page itself, as it is transferred and replaced.            *)
(***************************************************************************)
EXTENDS WebServer, LiveReload, SequenceTheorems, TLAPS

USE DEF network, flags, counts, history, MainGoes, Goes, Stays, Respond, Sim, Quiet, Reports,
        Gdb, MachineChanges

(***************************************************************************)
(* simRunning is up for as long as a worker may touch the engine, and      *)
(* otherwise only while handleContinue starts one; a handler that found it *)
(* down keeps it so until it has responded.                                *)
(***************************************************************************)
ThreadsInv ==
  /\ simAt \notin Ended => simRunning
  /\ simRunning /\ simAt \in Ended => mainAt \in {"rearm", "spawn"}
  /\ mainAt \in {"rearm", "spawn"} => simRunning /\ simAt \in Ended
  /\ mainAt = "continue" => ~simRunning
  /\ mainAt = "locked" /\ serving.method \in {"operate", "inspect"} => ~simRunning

(* TypeOK in two parts: the queues with the request served, and the rest.  *)
QueuesOK ==
  /\ inbox \in [Clients -> Seq(Methods)] /\ wsSendQueues \in [Clients -> Seq(Messages)]
  /\ notifyQueue \in Seq({"stopped"}) /\ serving \in [client : Clients, method : Methods]

ControlOK ==
  /\ wsClients \subseteq Clients /\ upToDate \subseteq Clients /\ overtaken \subseteq Clients
  /\ mainAt \in MainSteps /\ simAt \in SimSteps /\ gdbAt \in {"away", "callback", "store"}
  /\ simRunning \in BOOLEAN /\ pauseRequested \in BOOLEAN /\ externalStateChanged \in BOOLEAN
  /\ asked \in 0 .. MaxRequests /\ connects \in 0 .. MaxConnects /\ gdbDone \in 0 .. MaxGdb

WebInv == QueuesOK /\ ControlOK /\ ThreadsInv

-----------------------------------------------------------------------------
(* What the steps of the server do to a queue. *)
LEMMA Queues ==
  ASSUME NEW S, NEW q \in Seq(S), NEW r \in Seq(S), NEW e \in S
  PROVE  /\ <<>> \in Seq(S) /\ <<e>> \in Seq(S)
         /\ Append(q, e) \in Seq(S) /\ q \o r \in Seq(S)
         /\ q # <<>> => Head(q) \in S /\ Tail(q) \in Seq(S)
OBVIOUS

LEMMA PushedQueues ==
  ASSUME QueuesOK, NEW to, NEW msg \in Messages
  PROVE  Pushed(wsSendQueues, to, msg) \in [Clients -> Seq(Messages)]
<1>1. \A c \in Clients : Append(wsSendQueues[c], msg) \in Seq(Messages)
  BY Queues DEF QueuesOK
<1> QED
  BY <1>1 DEF QueuesOK, Pushed

LEMMA InitWeb == Init => WebInv
<1> SUFFICES ASSUME Init PROVE WebInv
  OBVIOUS
<1> USE DEF Init
<1>1. QueuesOK
  <2>1. (CHOOSE c \in Clients : TRUE) \in Clients
    BY WebAssumption
  <2>2. NoRequest \in [client : Clients, method : Methods]
    BY <2>1 DEF NoRequest, Methods, UserMethods
  <2>3. <<>> \in Seq(Methods) /\ <<>> \in Seq(Messages) /\ <<>> \in Seq({"stopped"})
    BY EmptySeq
  <2>4. inbox \in [Clients -> Seq(Methods)] /\ wsSendQueues \in [Clients -> Seq(Messages)]
    BY <2>3, Zenon
  <2> QED
    BY <2>2, <2>3, <2>4 DEF QueuesOK
<1>2. ControlOK
  <2>1. asked \in 0 .. MaxRequests /\ connects \in 0 .. MaxConnects /\ gdbDone \in 0 .. MaxGdb
    BY WebAssumption
  <2>2. mainAt \in MainSteps /\ simAt \in SimSteps
    BY DEF MainSteps, SimSteps
  <2> QED
    BY <2>1, <2>2 DEF ControlOK
<1>3. ThreadsInv
  BY DEF ThreadsInv, Ended
<1> QED
  BY <1>1, <1>2, <1>3 DEF WebInv

(* Every step keeps the queues well formed: nothing but requests goes to   *)
(* the server, and nothing but responses and notifications to the pages.   *)
LEMMA QueuesStep == QueuesOK /\ [Next]_vars => QueuesOK'
<1> SUFFICES ASSUME QueuesOK, [Next]_vars PROVE QueuesOK'
  OBVIOUS
<1> USE DEF QueuesOK
<1>1. ASSUME NEW c \in Clients, NEW m \in UserMethods, Ask(c, m) PROVE QueuesOK'
  BY <1>1, Queues DEF Ask, Methods
<1>2. ASSUME NEW c \in Clients, Established(c) PROVE QueuesOK'
  BY <1>2, Queues, "inspect" \in Methods DEF Established, Methods
<1>3. ASSUME NEW c \in Clients, Closed(c) PROVE QueuesOK'
  BY <1>3, Queues DEF Closed
<1>4. ASSUME NEW c \in Clients, Receive(c) PROVE QueuesOK'
  BY <1>4, Queues DEF Receive
<1>5. ASSUME NEW c \in Clients, Writable(c) PROVE QueuesOK'
  BY <1>5, Queues, "inspect" \in Methods DEF Writable, Methods
<1>6. CASE Main
  <2>1. CASE LeaveService
    BY <2>1 DEF LeaveService
  <2>2. CASE DrainNotifications
    <3>1. {"stopped"} \subseteq Messages
      BY DEF Messages
    <3>2. notifyQueue \in Seq(Messages) /\ <<>> \in Seq({"stopped"})
      BY <3>1, SeqMonotonic, EmptySeq DEF QueuesOK
    <3>3. \A c \in Clients : wsSendQueues[c] \o notifyQueue \in Seq(Messages)
      BY <3>2, Queues
    <3> QED
      BY <2>2, <3>2, <3>3 DEF DrainNotifications
  <2>3. CASE PushStateChange
    BY <2>3, PushedQueues DEF PushStateChange, Messages, Responses
  <2>4. CASE Dispatch
    BY <2>4, PushedQueues DEF Dispatch, Messages, Responses
  <2>5. CASE SetRunning
    BY <2>5 DEF SetRunning
  <2>6. CASE Rearm
    BY <2>6 DEF Rearm
  <2>7. CASE Spawn
    BY <2>7, PushedQueues DEF Spawn, Messages, Responses
  <2>8. CASE PauseCheck
    BY <2>8, PushedQueues DEF PauseCheck, Messages, Responses
  <2>9. CASE SetPause
    BY <2>9 DEF SetPause
  <2>10. CASE Join
    BY <2>10 DEF Join
  <2>11. CASE Inspect
    BY <2>11, PushedQueues DEF Inspect, Messages, Responses
  <2>12. CASE Operate
    BY <2>12, PushedQueues DEF Operate, Messages, Responses
  <2>13. CASE Manage
    BY <2>13, PushedQueues DEF Manage, Messages, Responses
  <2> QED
    BY <1>6, <2>1, <2>2, <2>3, <2>4, <2>5, <2>6, <2>7, <2>8, <2>9, <2>10, <2>11, <2>12, <2>13
       DEF Main
<1>7. CASE Worker
  <2>1. CASE SetTrace
    BY <2>1 DEF SetTrace
  <2>2. CASE LoopTest
    BY <2>2 DEF LoopTest
  <2>3. CASE EnterBatch
    BY <2>3 DEF EnterBatch
  <2>4. CASE EndBatch
    BY <2>4 DEF EndBatch
  <2>5. CASE Report
    BY <2>5, Queues DEF Report
  <2>6. CASE TailTest
    BY <2>6 DEF TailTest
  <2>7. CASE ReportPaused
    BY <2>7, Queues DEF ReportPaused
  <2>8. CASE ClearTrace
    BY <2>8 DEF ClearTrace
  <2>9. CASE ClearRunning
    BY <2>9 DEF ClearRunning
  <2> QED
    BY <1>7, <2>1, <2>2, <2>3, <2>4, <2>5, <2>6, <2>7, <2>8, <2>9 DEF Worker
<1>8. CASE Stub
  <2>1. CASE GdbChanges
    BY <2>1 DEF GdbChanges
  <2>2. CASE GdbCallback
    BY <2>2 DEF GdbCallback
  <2>3. CASE GdbStores
    BY <2>3 DEF GdbStores
  <2> QED
    BY <1>8, <2>1, <2>2, <2>3 DEF Stub
<1>9. CASE UNCHANGED vars
  BY <1>9 DEF vars
<1> QED
  BY <1>1, <1>2, <1>3, <1>4, <1>5, <1>6, <1>7, <1>8, <1>9 DEF Next

LEMMA ControlStep == ControlOK /\ QueuesOK /\ [Next]_vars => ControlOK'
<1> SUFFICES ASSUME ControlOK, QueuesOK, [Next]_vars PROVE ControlOK'
  OBVIOUS
<1>0. serving.client \in Clients
  BY DEF QueuesOK
<1> USE <1>0, WebAssumption DEF ControlOK, MainSteps, SimSteps
<1>1. ASSUME NEW c \in Clients, NEW m \in UserMethods, Ask(c, m) PROVE ControlOK'
  BY <1>1 DEF Ask
<1>2. ASSUME NEW c \in Clients, Established(c) PROVE ControlOK'
  BY <1>2 DEF Established
<1>3. ASSUME NEW c \in Clients, Closed(c) PROVE ControlOK'
  BY <1>3 DEF Closed
<1>4. ASSUME NEW c \in Clients, Receive(c) PROVE ControlOK'
  BY <1>4 DEF Receive
<1>5. ASSUME NEW c \in Clients, Writable(c) PROVE ControlOK'
  BY <1>5 DEF Writable
<1>6. CASE Main
  <2>1. CASE LeaveService
    BY <2>1 DEF LeaveService
  <2>2. CASE DrainNotifications
    BY <2>2 DEF DrainNotifications
  <2>3. CASE PushStateChange
    BY <2>3 DEF PushStateChange
  <2>4. CASE Dispatch
    BY <2>4 DEF Dispatch
  <2>5. CASE SetRunning
    BY <2>5 DEF SetRunning
  <2>6. CASE Rearm
    BY <2>6 DEF Rearm
  <2>7. CASE Spawn
    BY <2>7 DEF Spawn
  <2>8. CASE PauseCheck
    BY <2>8 DEF PauseCheck
  <2>9. CASE SetPause
    BY <2>9 DEF SetPause
  <2>10. CASE Join
    BY <2>10 DEF Join
  <2>11. CASE Inspect
    BY <2>11 DEF Inspect
  <2>12. CASE Operate
    BY <2>12 DEF Operate
  <2>13. CASE Manage
    BY <2>13 DEF Manage
  <2> QED
    BY <1>6, <2>1, <2>2, <2>3, <2>4, <2>5, <2>6, <2>7, <2>8, <2>9, <2>10, <2>11, <2>12, <2>13
       DEF Main
<1>7. CASE Worker
  <2>1. CASE SetTrace
    BY <2>1 DEF SetTrace
  <2>2. CASE LoopTest
    BY <2>2 DEF LoopTest
  <2>3. CASE EnterBatch
    BY <2>3 DEF EnterBatch
  <2>4. CASE EndBatch
    BY <2>4 DEF EndBatch
  <2>5. CASE Report
    BY <2>5 DEF Report
  <2>6. CASE TailTest
    BY <2>6 DEF TailTest
  <2>7. CASE ReportPaused
    BY <2>7 DEF ReportPaused
  <2>8. CASE ClearTrace
    BY <2>8 DEF ClearTrace
  <2>9. CASE ClearRunning
    BY <2>9 DEF ClearRunning
  <2> QED
    BY <1>7, <2>1, <2>2, <2>3, <2>4, <2>5, <2>6, <2>7, <2>8, <2>9 DEF Worker
<1>8. CASE Stub
  <2>1. CASE GdbChanges
    BY <2>1 DEF GdbChanges
  <2>2. CASE GdbCallback
    BY <2>2 DEF GdbCallback
  <2>3. CASE GdbStores
    BY <2>3 DEF GdbStores
  <2> QED
    BY <1>8, <2>1, <2>2, <2>3 DEF Stub
<1>9. CASE UNCHANGED vars
  BY <1>9 DEF vars
<1> QED
  BY <1>1, <1>2, <1>3, <1>4, <1>5, <1>6, <1>7, <1>8, <1>9 DEF Next

(* Dispatch is the step at stake: what it saw in the flag must hold until  *)
(* the response.                                                           *)
LEMMA ThreadsStep == WebInv /\ [Next]_vars => ThreadsInv'
<1> SUFFICES ASSUME WebInv, [Next]_vars PROVE ThreadsInv'
  OBVIOUS
<1> USE DEF WebInv, ThreadsInv, Ended
<1>1. ASSUME NEW c \in Clients, NEW m \in UserMethods, Ask(c, m) PROVE ThreadsInv'
  BY <1>1 DEF Ask
<1>2. ASSUME NEW c \in Clients, Established(c) PROVE ThreadsInv'
  BY <1>2 DEF Established
<1>3. ASSUME NEW c \in Clients, Closed(c) PROVE ThreadsInv'
  BY <1>3 DEF Closed
<1>4. ASSUME NEW c \in Clients, Receive(c) PROVE ThreadsInv'
  BY <1>4 DEF Receive
<1>5. ASSUME NEW c \in Clients, Writable(c) PROVE ThreadsInv'
  BY <1>5 DEF Writable
<1>6. CASE Main
  <2>1. CASE LeaveService
    BY <2>1 DEF LeaveService
  <2>2. CASE DrainNotifications
    BY <2>2 DEF DrainNotifications
  <2>3. CASE PushStateChange
    BY <2>3 DEF PushStateChange
  <2>4. CASE Dispatch
    BY <2>4 DEF Dispatch
  <2>5. CASE SetRunning
    BY <2>5 DEF SetRunning
  <2>6. CASE Rearm
    BY <2>6 DEF Rearm
  <2>7. CASE Spawn
    BY <2>7 DEF Spawn
  <2>8. CASE PauseCheck
    BY <2>8 DEF PauseCheck
  <2>9. CASE SetPause
    BY <2>9 DEF SetPause
  <2>10. CASE Join
    BY <2>10 DEF Join
  <2>11. CASE Inspect
    BY <2>11 DEF Inspect
  <2>12. CASE Operate
    BY <2>12 DEF Operate
  <2>13. CASE Manage
    BY <2>13 DEF Manage
  <2> QED
    BY <1>6, <2>1, <2>2, <2>3, <2>4, <2>5, <2>6, <2>7, <2>8, <2>9, <2>10, <2>11, <2>12, <2>13
       DEF Main
<1>7. CASE Worker
  <2>1. CASE SetTrace
    BY <2>1 DEF SetTrace
  <2>2. CASE LoopTest
    BY <2>2 DEF LoopTest
  <2>3. CASE EnterBatch
    BY <2>3 DEF EnterBatch
  <2>4. CASE EndBatch
    BY <2>4 DEF EndBatch
  <2>5. CASE Report
    BY <2>5 DEF Report
  <2>6. CASE TailTest
    BY <2>6 DEF TailTest
  <2>7. CASE ReportPaused
    BY <2>7 DEF ReportPaused
  <2>8. CASE ClearTrace
    BY <2>8 DEF ClearTrace
  <2>9. CASE ClearRunning
    BY <2>9 DEF ClearRunning
  <2> QED
    BY <1>7, <2>1, <2>2, <2>3, <2>4, <2>5, <2>6, <2>7, <2>8, <2>9 DEF Worker
<1>8. CASE Stub
  <2>1. CASE GdbChanges
    BY <2>1 DEF GdbChanges
  <2>2. CASE GdbCallback
    BY <2>2 DEF GdbCallback
  <2>3. CASE GdbStores
    BY <2>3 DEF GdbStores
  <2> QED
    BY <1>8, <2>1, <2>2, <2>3 DEF Stub
<1>9. CASE UNCHANGED vars
  BY <1>9 DEF vars
<1> QED
  BY <1>1, <1>2, <1>3, <1>4, <1>5, <1>6, <1>7, <1>8, <1>9 DEF Next

THEOREM WebInvariant == Spec => []WebInv
<1>1. Init => WebInv
  BY InitWeb
<1>2. WebInv /\ [Next]_vars => WebInv'
  BY QueuesStep, ControlStep, ThreadsStep DEF WebInv
<1> QED
  BY <1>1, <1>2, PTL DEF Spec

(* Every variable stays within its type, with or without the stub.         *)
THEOREM WebTypeCorrect == Spec => []TypeOK
<1>1. WebInv => TypeOK
  BY DEF WebInv, QueuesOK, ControlOK, TypeOK
<1> QED
  BY <1>1, WebInvariant, PTL

(* No handler that needs a stopped machine runs while the worker can still *)
(* touch the engine.                                                       *)
THEOREM WebHandlersAlone == Spec => []StoppedOnlyAlone
<1>1. WebInv => StoppedOnlyAlone
  BY DEF WebInv, ThreadsInv, StoppedOnlyAlone
<1> QED
  BY <1>1, WebInvariant, PTL

-----------------------------------------------------------------------------
(* Every page that shows an old state, and is not excused, has a remedy    *)
(* coming, or the run that made it old is still to be reported.            *)
ReportDue ==
  /\ simRunning
  /\ \/ simAt \in {"start", "loop", "enter", "batch", "report", "paused"}
     \/ simAt = "tail" /\ pauseRequested
     \/ mainAt \in {"rearm", "spawn"}

Accounted(c) == ReportDue \/ RemedyComing(c)

PagesInv == \A c \in wsClients \ (upToDate \cup overtaken) : Accounted(c)

(* What stays in a queue when something is added to it or read from it. *)
LEMMA InQueues ==
  ASSUME NEW S, NEW q \in Seq(S), NEW r \in Seq(S), NEW e, NEW x
  PROVE  /\ In(x, Append(q, x)) /\ (In(x, q) => In(x, Append(q, e)))
         /\ In(x, q) => In(x, q \o r)
         /\ In(x, r) => In(x, q \o r)
         /\ In(x, q) => Head(q) = x \/ In(x, Tail(q))
         /\ In(x, <<x>>)
<1> USE DEF In
<1>1. In(x, Append(q, x)) /\ (In(x, q) => In(x, Append(q, e)))
  <2>1. Len(q) + 1 \in 1 .. Len(Append(q, x)) /\ Append(q, x)[Len(q) + 1] = x
    OBVIOUS
  <2>2. \A i \in 1 .. Len(q) : i \in 1 .. Len(Append(q, e)) /\ Append(q, e)[i] = q[i]
    OBVIOUS
  <2> QED
    BY <2>1, <2>2
<1>2. In(x, q) => In(x, q \o r)
  <2> SUFFICES ASSUME NEW i \in 1 .. Len(q), q[i] = x PROVE In(x, q \o r)
    OBVIOUS
  <2>1. i \in 1 .. Len(q \o r) /\ (q \o r)[i] = q[i]
    OBVIOUS
  <2> QED
    BY <2>1
<1>3. In(x, r) => In(x, q \o r)
  <2> SUFFICES ASSUME NEW i \in 1 .. Len(r), r[i] = x PROVE In(x, q \o r)
    OBVIOUS
  <2>1. Len(q) + i \in 1 .. Len(q \o r) /\ (q \o r)[Len(q) + i] = r[i]
    OBVIOUS
  <2> QED
    BY <2>1
<1>4. In(x, q) => Head(q) = x \/ In(x, Tail(q))
  <2> SUFFICES ASSUME NEW i \in 1 .. Len(q), q[i] = x, i # 1 PROVE In(x, Tail(q))
    OBVIOUS
  <2>1. i - 1 \in 1 .. Len(Tail(q)) /\ Tail(q)[i - 1] = q[i]
    OBVIOUS
  <2> QED
    BY <2>1
<1>5. In(x, <<x>>)
  OBVIOUS
<1> QED
  BY <1>1, <1>2, <1>3, <1>4, <1>5

(* The queues of a page, as the lemma above sees them. *)
LEMMA PageQueues ==
  ASSUME QueuesOK, NEW c \in Clients
  PROVE  /\ inbox[c] \in Seq(Methods) /\ wsSendQueues[c] \in Seq(Messages)
         /\ notifyQueue \in Seq(Messages)
<1>1. {"stopped"} \subseteq Messages
  BY DEF Messages
<1>2. notifyQueue \in Seq(Messages)
  BY <1>1, SeqMonotonic DEF QueuesOK
<1> QED
  BY <1>2 DEF QueuesOK

(* Responding to one page takes nothing from another. *)
LEMMA RespondKeeps ==
  ASSUME QueuesOK, NEW c \in Clients, NEW m, NEW to, NEW msg,
         In(m, wsSendQueues[c])
  PROVE  In(m, Pushed(wsSendQueues, to, msg)[c])
<1>1. wsSendQueues[c] \in Seq(Messages) /\ <<>> \in Seq(Messages)
  BY EmptySeq DEF QueuesOK
<1> QED
  BY <1>1, InQueues DEF Pushed

(***************************************************************************)
(* A page that shows an old state after a step either did so before, and   *)
(* what accounted for it has been passed on, or the step made it old, and  *)
(* started what accounts for it.                                           *)
(***************************************************************************)
LEMMA PagesStep ==
  ASSUME WebInv, PagesInv, [Next]_vars
  PROVE  PagesInv'
<1> SUFFICES ASSUME NEW c \in wsClients', c \notin upToDate', c \notin overtaken'
             PROVE  Accounted(c)'
  BY DEF PagesInv
<1> USE DEF WebInv, Accounted, ReportDue
<1>c. c \in Clients
  BY ControlStep DEF ControlOK
<1>q. /\ inbox[c] \in Seq(Methods) /\ wsSendQueues[c] \in Seq(Messages)
      /\ notifyQueue \in Seq(Messages) /\ \A m \in Methods : <<m>> \in Seq(Methods)
      /\ DOMAIN inbox = Clients /\ DOMAIN wsSendQueues = Clients
  BY <1>c, PageQueues DEF QueuesOK
<1>a. c \in wsClients \ (upToDate \cup overtaken) => ReportDue \/ RemedyComing(c)
  BY DEF PagesInv
<1>k. \A to, msg, m : In(m, wsSendQueues[c]) => In(m, Pushed(wsSendQueues, to, msg)[c])
  BY <1>c, RespondKeeps
<1>1. ASSUME NEW d \in Clients, NEW m \in UserMethods, Ask(d, m) PROVE Accounted(c)'
  <2>1. In("inspect", inbox[c]) => In("inspect", inbox'[c])
    BY <1>1, <1>c, <1>q, InQueues DEF Ask
  <2> QED
    BY <1>1, <1>a, <1>c, <2>1 DEF Ask, RemedyComing
<1>2. ASSUME NEW d \in Clients, Established(d) PROVE Accounted(c)'
  <2>1. CASE c = d
    <3>1. inbox'[c] = <<"inspect">>
      BY <1>2, <2>1, <1>q DEF Established
    <3> QED
      BY <3>1, EmptySeq, InQueues DEF RemedyComing
  <2>2. CASE c # d
    BY <1>2, <1>a, <2>2 DEF Established, RemedyComing
  <2> QED
    BY <2>1, <2>2
<1>3. ASSUME NEW d \in Clients, Closed(d) PROVE Accounted(c)'
  BY <1>3, <1>a DEF Closed, RemedyComing
<1>4. ASSUME NEW d \in Clients, Receive(d) PROVE Accounted(c)'
  <2>1. CASE c = d /\ Head(inbox[c]) = "inspect"
    BY <1>4, <2>1 DEF Receive, RemedyComing
  <2>2. (In("inspect", inbox[c]) /\ ~(c = d /\ Head(inbox[c]) = "inspect"))
          => In("inspect", inbox'[c])
    BY <1>4, <1>c, <1>q, InQueues DEF Receive
  <2> QED
    BY <1>4, <1>a, <2>1, <2>2 DEF Receive, RemedyComing
<1>5. ASSUME NEW d \in Clients, Writable(d) PROVE Accounted(c)'
  <2>1. CASE c = d /\ Head(wsSendQueues[c]) \in Refreshes
    <3>1. inbox'[c] = Append(inbox[c], "inspect")
      BY <1>5, <2>1, <1>q DEF Writable
    <3>2. In("inspect", inbox'[c])
      BY <3>1, <1>q, InQueues
    <3> QED
      BY <3>2 DEF RemedyComing
  <2>2. ASSUME ~(c = d /\ Head(wsSendQueues[c]) \in Refreshes)
        PROVE  /\ inbox'[c] = inbox[c]
               /\ \A m \in Refreshes : In(m, wsSendQueues[c]) => In(m, wsSendQueues'[c])
    BY <1>5, <2>2, <1>c, <1>q, InQueues DEF Writable
  <2> QED
    BY <1>5, <1>a, <2>1, <2>2 DEF Writable, RemedyComing
<1>6. CASE Main
  <2>1. CASE LeaveService
    BY <2>1, <1>a DEF LeaveService, RemedyComing
  <2>2. CASE DrainNotifications
    <3>1. wsSendQueues'[c] = wsSendQueues[c] \o notifyQueue
      BY <2>2, <1>c DEF DrainNotifications
    <3>2. /\ In("stopped", notifyQueue) => In("stopped", wsSendQueues'[c])
          /\ \A m \in Refreshes : In(m, wsSendQueues[c]) => In(m, wsSendQueues'[c])
      BY <3>1, <1>q, InQueues
    <3> QED
      BY <2>2, <1>a, <3>2 DEF DrainNotifications, RemedyComing, Refreshes
  <2>3. CASE PushStateChange
    <3>1. externalStateChanged => In("stateChanged", wsSendQueues'[c])
      BY <2>3, <1>c, <1>q, InQueues DEF PushStateChange, Pushed
    <3> QED
      BY <2>3, <1>a, <1>k, <3>1 DEF PushStateChange, RemedyComing, Refreshes
  <2>4. CASE Dispatch
    <3>1. CASE serving = [client |-> c, method |-> "inspect"] /\ simRunning
      <4>1. simAt \notin {"tail", "clear", "store"}
        BY <2>4, <3>1 DEF Dispatch, Ending
      <4>2. simAt \notin Ended
        BY <2>4, <3>1 DEF Dispatch, ThreadsInv
      <4> QED
        BY <2>4, <3>1, <4>1, <4>2 DEF Dispatch, Ended, ControlOK, SimSteps
    <3>2. CASE serving = [client |-> c, method |-> "inspect"] /\ ~simRunning
      BY <2>4, <3>2 DEF Dispatch, RemedyComing
    <3>3. CASE serving # [client |-> c, method |-> "inspect"]
      <4>1. \A m \in Refreshes : In(m, wsSendQueues[c]) => In(m, wsSendQueues'[c])
        BY <2>4, <1>k DEF Dispatch
      <4>2. UNCHANGED <<inbox, flags, simAt, gdbAt, serving, wsClients, upToDate>>
            /\ c \notin overtaken /\ mainAt = "dispatch"
        BY <2>4 DEF Dispatch
      <4> QED
        BY <1>a, <3>3, <4>1, <4>2 DEF RemedyComing
    <3> QED
      BY <3>1, <3>2, <3>3
  <2>5. CASE SetRunning
    BY <2>5, <1>a DEF SetRunning, RemedyComing
  <2>6. CASE Rearm
    BY <2>6, <1>a DEF Rearm, RemedyComing, ThreadsInv, Ended
  <2>7. CASE Spawn
    BY <2>7, <1>a, <1>k DEF Spawn, RemedyComing, ThreadsInv
  <2>8. CASE PauseCheck
    BY <2>8, <1>a, <1>k DEF PauseCheck, RemedyComing
  <2>9. CASE SetPause
    BY <2>9, <1>a DEF SetPause, RemedyComing
  <2>10. CASE Join
    BY <2>10, <1>a DEF Join, RemedyComing, ThreadsInv, Ended
  <2>11. CASE Inspect
    BY <2>11, <1>a, <1>k DEF Inspect, RemedyComing
  <2>12. CASE Operate
    BY <2>12 DEF Operate, RemedyComing, ThreadsInv
  <2>13. CASE Manage
    BY <2>13, <1>a, <1>k DEF Manage, RemedyComing
  <2> QED
    BY <1>6, <2>1, <2>2, <2>3, <2>4, <2>5, <2>6, <2>7, <2>8, <2>9, <2>10, <2>11, <2>12, <2>13
       DEF Main
<1>7. CASE Worker
  <2>1. CASE SetTrace
    BY <2>1, <1>a DEF SetTrace, RemedyComing
  <2>2. CASE LoopTest
    BY <2>2, <1>a DEF LoopTest, RemedyComing
  <2>3. CASE EnterBatch
    BY <2>3, <1>a DEF EnterBatch, RemedyComing
  <2>4. CASE EndBatch
    BY <2>4 DEF EndBatch, ThreadsInv, Ended
  <2>5. CASE Report \/ ReportPaused
    BY <2>5, <1>q, InQueues DEF Report, ReportPaused, RemedyComing
  <2>6. CASE TailTest
    BY <2>6, <1>a DEF TailTest, RemedyComing
  <2>7. CASE ClearTrace
    BY <2>7, <1>a DEF ClearTrace, RemedyComing
  <2>8. CASE ClearRunning
    BY <2>8, <1>a DEF ClearRunning, RemedyComing, ThreadsInv, Ended
  <2> QED
    BY <1>7, <2>1, <2>2, <2>3, <2>4, <2>5, <2>6, <2>7, <2>8 DEF Worker
<1>8. CASE Stub
  <2>1. CASE GdbChanges
    BY <2>1 DEF GdbChanges, RemedyComing
  <2>2. CASE GdbCallback
    <3>1. CASE ~simRunning
      BY <2>2, <3>1 DEF GdbCallback, RemedyComing
    <3>2. CASE simRunning
      <4>1. ~Ending
        BY <2>2, <1>c DEF GdbCallback
      <4>2. ReportDue
        BY <3>2, <4>1 DEF Ending, ThreadsInv, Ended, ControlOK, SimSteps
      <4> QED
        BY <2>2, <4>2 DEF GdbCallback
    <3> QED
      BY <3>1, <3>2
  <2>3. CASE GdbStores
    BY <2>3 DEF GdbStores, RemedyComing
  <2> QED
    BY <1>8, <2>1, <2>2, <2>3 DEF Stub
<1>9. CASE UNCHANGED vars
  BY <1>9, <1>a DEF vars, RemedyComing
<1> QED
  BY <1>1, <1>2, <1>3, <1>4, <1>5, <1>6, <1>7, <1>8, <1>9 DEF Next

(* No page that shows an old state is forgotten, whoever changed it.       *)
THEOREM PagesRemembered == Spec => []UpdatesOnTheWay
<1>1. Init => PagesInv
  BY DEF Init, PagesInv
<1>2. WebInv /\ PagesInv /\ [Next]_vars => PagesInv'
  BY PagesStep
<1>3. PagesInv => UpdatesOnTheWay
  BY DEF PagesInv, Accounted, ReportDue, UpdatesOnTheWay
<1> QED
  BY <1>1, <1>2, <1>3, WebInvariant, PTL DEF Spec
-----------------------------------------------------------------------------
(***************************************************************************)
(* The page (module LiveReload), for any number of browsers and edits and  *)
(* files of any length.  A transfer the buffer was not replaced under is   *)
(* the beginning of the buffer, as far as it has come.                     *)
(***************************************************************************)
PageStates == {"closed", "loading", "loaded", "connected", "reloading"}
Pages      == [state : PageStates, want : Nat, parts : Seq([of : Version, at : Nat])]

PageType ==
  /\ file \in Version /\ html \in Version
  /\ sess \in [Browsers -> Nat \cup {None}] /\ page \in [Browsers -> Pages]
  /\ swapped \in [Browsers -> BOOLEAN]

(* The first k chunks of version v. *)
Begun(v, k) == [n \in 1 .. k |-> Chunk(v, n - 1)]

Truthful(c) ==
  LET p == page[c] IN
    /\ p.state = "closed" => p = Blank
    /\ ~swapped[c] /\ p.state = "loading" =>
         /\ p.want = Chunks[html] /\ Len(p.parts) < p.want
         /\ sess[c] = Len(p.parts) /\ p.parts = Begun(html, Len(p.parts))
    /\ ~swapped[c] /\ p.state \in {"loaded", "connected", "reloading"} =>
         \E v \in Version : p.parts = Begun(v, Chunks[v]) /\ p.want = Chunks[v]

(* Nobody has a page before the server serves. *)
NoneYet == phase \in {"reading", "stamping"} => \A c \in Browsers : page[c].state = "closed"

PageInv == PageType /\ NoneYet /\ \A c \in Browsers : Truthful(c)

LEMMA BegunParts ==
  ASSUME NEW v \in Version, NEW k \in Nat
  PROVE  /\ Begun(v, k) \in Seq([of : Version, at : Nat]) /\ Len(Begun(v, k)) = k
         /\ \A n \in 1 .. k : Begun(v, k)[n] = Chunk(v, n - 1)
<1>1. Begun(v, k) \in [1 .. k -> [of : Version, at : Nat]]
  BY DEF Begun, Chunk
<1>2. Begun(v, k) \in Seq([of : Version, at : Nat])
  BY <1>1, SeqDef
<1> QED BY <1>1, <1>2 DEF Begun

LEMMA OneChunkMore ==
  ASSUME NEW v \in Version, NEW k \in Nat
  PROVE  Append(Begun(v, k), Chunk(v, k)) = Begun(v, k + 1)
<1> DEFINE S == [of : Version, at : Nat]
           s == Append(Begun(v, k), Chunk(v, k))
           t == Begun(v, k + 1)
<1>1. Begun(v, k) \in Seq(S) /\ Len(Begun(v, k)) = k /\ Chunk(v, k) \in S
  BY BegunParts DEF Chunk
<1>6. k + 1 \in Nat /\ \A n \in 1 .. Len(Begun(v, k)) : n \in 1 .. k
  BY <1>1
<1> HIDE DEF S
<1>2. /\ s \in Seq(S) /\ Len(s) = k + 1 /\ s[k + 1] = Chunk(v, k)
      /\ \A n \in 1 .. k : s[n] = Begun(v, k)[n]
  BY <1>1, AppendProperties
<1>3. t \in Seq(S) /\ Len(t) = k + 1 /\ \A n \in 1 .. k + 1 : t[n] = Chunk(v, n - 1)
  BY <1>6, BegunParts DEF S
<1> HIDE DEF s, t
<1>4. \A n \in 1 .. k + 1 : s[n] = t[n]
  <2>1. \A n \in 1 .. k : s[n] = Chunk(v, n - 1)
    BY <1>2, BegunParts
  <2>2. \A n \in 1 .. k + 1 : n = k + 1 \/ n \in 1 .. k
    OBVIOUS
  <2>3. k + 1 - 1 = k
    OBVIOUS
  <2> QED BY <1>2, <1>3, <2>1, <2>2, <2>3
<1> QED BY <1>2, <1>3, <1>4, SeqEqual DEF s, t

LEMMA ChunkCount ==
  ASSUME NEW v \in Version
  PROVE  Chunks[v] \in Nat /\ Chunks[v] # 0 /\ Len(Begun(v, Chunks[v])) = Chunks[v]
BY ReloadAssumption, BegunParts

LEMMA BlankPage == Blank \in Pages
<1>1. <<>> \in Seq([of : Version, at : Nat])
  OBVIOUS
<1> QED BY <1>1 DEF Blank, Pages, PageStates

LEMMA PageStarts == ReloadInit => PageInv
<1> SUFFICES ASSUME ReloadInit PROVE PageInv
  OBVIOUS
<1>1. 0 \in Version
  BY ReloadAssumption DEF Version
<1>2. PageType
  BY <1>1, BlankPage DEF ReloadInit, PageType
<1>3. \A c \in Browsers : page[c] = Blank
  BY DEF ReloadInit
<1>4. Blank.state = "closed"
  BY DEF Blank
<1> QED BY <1>2, <1>3, <1>4 DEF PageInv, NoneYet, Truthful

(* What a browser makes of a chunk. *)
LEMMA ReceivedPage ==
  ASSUME NEW p \in Pages, NEW e \in [of : Version, at : Nat]
  PROVE  /\ Received(p, e) \in Pages
         /\ Len(p.parts) = p.want => Received(p, e) = p
         /\ Len(p.parts) # p.want =>
              /\ Received(p, e).parts = Append(p.parts, e) /\ Received(p, e).want = p.want
              /\ Received(p, e).state = IF Len(p.parts) + 1 = p.want THEN "loaded" ELSE p.state
<1> DEFINE S == [of : Version, at : Nat]
<1>1. p.parts \in Seq(S) /\ p.state \in PageStates /\ p.want \in Nat
  BY DEF Pages
<1>2. Append(p.parts, e) \in Seq(S) /\ "loaded" \in PageStates
  BY <1>1, AppendProperties DEF PageStates
<1> QED BY <1>1, <1>2 DEF Received, Pages

(* The next chunk of the buffer. *)
LEMMA WritableStep ==
  ASSUME PageInv, NEW c \in Browsers, HttpWritable(c)
  PROVE  PageInv'
<1> USE DEF PageInv
<1> DEFINE p == page[c]
           k == sess[c]
           e == Chunk(html, k)
<1>1. /\ p \in Pages /\ k \in Nat /\ html \in Version /\ swapped[c] \in BOOLEAN
      /\ Chunks[html] \in Nat /\ Chunks[html] # 0
  BY ChunkCount DEF PageType, HttpWritable
<1>2. e \in [of : Version, at : Nat]
  BY <1>1 DEF Chunk
<1>3. UNCHANGED <<file, phase, html, swapped>>
  BY DEF HttpWritable, server, remembered
<1>4. CASE AtEnd(c)
  <2>1. sess' = [sess EXCEPT ![c] = None] /\ page' = page
    BY <1>4 DEF HttpWritable
  <2>2. ~(~swapped[c] /\ p.state = "loading")
    BY <1>1, <1>4 DEF AtEnd, Truthful
  <2>3. PageType'
    BY <1>3, <2>1 DEF PageType
  <2>4. \A d \in Browsers : d # c => sess'[d] = sess[d]
    BY <2>1 DEF PageType
  <2>5. \A d \in Browsers : Truthful(d)'
    BY <1>3, <2>1, <2>2, <2>4 DEF Truthful
  <2> QED BY <1>3, <2>1, <2>3, <2>5 DEF NoneYet
<1>5. CASE ~AtEnd(c)
  <2> DEFINE q == Received(p, e)
  <2>1. /\ sess' = [sess EXCEPT ![c] = IF k + 1 = Chunks[html] THEN None ELSE k + 1]
        /\ page' = [page EXCEPT ![c] = q]
    BY <1>5 DEF HttpWritable, NextChunk
  <2>2. q \in Pages
    BY <1>1, <1>2, ReceivedPage
  <2>3. PageType'
    BY <1>1, <1>3, <2>1, <2>2 DEF PageType
  <2>4. /\ page'[c] = q /\ sess'[c] = IF k + 1 = Chunks[html] THEN None ELSE k + 1
        /\ \A d \in Browsers : d # c => page'[d] = page[d] /\ sess'[d] = sess[d]
    BY <2>1 DEF PageType
  <2>5. ASSUME NEW d \in Browsers, d # c
        PROVE  Truthful(d)'
    BY <1>3, <2>4, <2>5 DEF Truthful
  <2>6. Truthful(c)'
    <3>1. CASE p.state = "closed"
      <4>1. q = p
        BY <1>1, <1>2, <3>1, ReceivedPage DEF Truthful, Blank
      <4> QED BY <1>3, <2>4, <3>1, <4>1 DEF Truthful
    <3>2. CASE swapped[c] /\ p.state # "closed"
      <4>1. q.state # "closed"
        BY <1>1, <1>2, <3>2, ReceivedPage
      <4> QED BY <1>3, <2>4, <3>2, <4>1 DEF Truthful
    <3>3. CASE ~swapped[c] /\ p.state = "loading"
      <4>1. /\ p.want = Chunks[html] /\ Len(p.parts) < p.want /\ Len(p.parts) = k
            /\ p.parts = Begun(html, k)
        BY <3>3 DEF Truthful
      <4>2. q.parts = Begun(html, k + 1) /\ q.want = Chunks[html] /\ Len(q.parts) = k + 1
        <5>1. Len(p.parts) # p.want
          BY <1>1, <4>1
        <5>2. q.parts = Append(p.parts, e) /\ q.want = p.want
          BY <1>1, <1>2, <5>1, ReceivedPage
        <5>3. Append(Begun(html, k), Chunk(html, k)) = Begun(html, k + 1)
          BY <1>1, OneChunkMore
        <5>4. Len(Begun(html, k + 1)) = k + 1
          BY <1>1, BegunParts
        <5> QED BY <4>1, <5>2, <5>3, <5>4
      <4>3. q.state = IF k + 1 = Chunks[html] THEN "loaded" ELSE "loading"
        BY <1>1, <1>2, <3>3, <4>1, ReceivedPage
      <4>4. CASE k + 1 = Chunks[html]
        BY <1>1, <1>3, <2>4, <4>2, <4>3, <4>4 DEF Truthful
      <4>5. CASE k + 1 # Chunks[html]
        BY <1>1, <1>3, <2>4, <4>1, <4>2, <4>3, <4>5 DEF Truthful
      <4> QED BY <4>4, <4>5
    <3>4. CASE ~swapped[c] /\ p.state \in {"loaded", "connected", "reloading"}
      <4>1. Len(p.parts) = p.want
        BY <3>4, ChunkCount DEF Truthful
      <4>2. q = p
        BY <1>1, <1>2, <4>1, ReceivedPage
      <4> QED BY <1>3, <2>4, <3>4, <4>2 DEF Truthful
    <3> QED BY <1>1, <3>1, <3>2, <3>3, <3>4 DEF Pages, PageStates
  <2>7. phase \notin {"reading", "stamping"}
    BY DEF HttpWritable
  <2> QED BY <1>3, <2>3, <2>5, <2>6, <2>7 DEF NoneYet
<1> QED BY <1>4, <1>5

(* A request begins a transfer of its own. *)
LEMMA GetStep ==
  ASSUME PageInv, NEW c \in Browsers, Get(c)
  PROVE  PageInv'
<1> USE DEF PageInv
<1> DEFINE q == [state |-> "loading", want |-> Chunks[html], parts |-> <<>>]
<1>1. /\ sess' = [sess EXCEPT ![c] = 0] /\ page' = [page EXCEPT ![c] = q]
      /\ swapped' = [swapped EXCEPT ![c] = FALSE]
      /\ UNCHANGED <<file, phase, html>> /\ phase = "serving"
  BY DEF Get, NewTransfer, server
<1>2. Chunks[html] \in Nat /\ Chunks[html] > 0 /\ html \in Version
  BY ChunkCount DEF PageType
<1>3. q \in Pages
  <2>1. <<>> \in Seq([of : Version, at : Nat])
    OBVIOUS
  <2> QED BY <1>2, <2>1 DEF Pages, PageStates
<1>4. /\ page'[c] = q /\ sess'[c] = 0
      /\ \A d \in Browsers : d # c => /\ page'[d] = page[d] /\ sess'[d] = sess[d]
                                      /\ swapped'[d] = swapped[d]
  BY <1>1 DEF PageType
<1>5. PageType'
  BY <1>1, <1>3 DEF PageType
<1>6. Begun(html, 0) = <<>> /\ Len(<<>>) = 0
  <2>1. Begun(html, 0) \in Seq([of : Version, at : Nat]) /\ Len(Begun(html, 0)) = 0
    BY <1>2, BegunParts
  <2> QED BY <2>1, EmptySeq
<1>7. Truthful(c)'
  BY <1>1, <1>2, <1>4, <1>6 DEF Truthful
<1>8. ASSUME NEW d \in Browsers, d # c
      PROVE  Truthful(d)'
  BY <1>1, <1>4, <1>8 DEF Truthful
<1> QED BY <1>1, <1>5, <1>7, <1>8 DEF NoneYet

(* The buffer is replaced under the transfers that are on their way. *)
LEMMA ReReadStep ==
  ASSUME PageInv, ReRead
  PROVE  PageInv'
<1> USE DEF PageInv
<1>1. /\ html' = file /\ UNCHANGED <<file, sess, page>> /\ phase = "changed" /\ phase' = "serving"
      /\ swapped' = [c \in Browsers |-> swapped[c] \/ sess[c] # None]
  BY DEF ReRead, Replaced
<1>2. PageType'
  BY <1>1 DEF PageType
<1>3. ASSUME NEW c \in Browsers
      PROVE  Truthful(c)'
  <2>1. ~swapped'[c] => ~swapped[c] /\ sess[c] = None
    BY <1>1
  <2>2. page[c].state = "loading" /\ ~swapped[c] => sess[c] # None
    <3>1. page[c].parts \in Seq([of : Version, at : Nat])
      BY DEF PageType, Pages
    <3>2. Len(page[c].parts) \in Nat
      BY <3>1
    <3> QED BY <3>2 DEF Truthful, None
  <2> QED BY <1>1, <2>1, <2>2 DEF Truthful
<1> QED BY <1>1, <1>2, <1>3 DEF NoneYet

(* What the browsers do by themselves, and the end of a connection. *)
LEMMA BrowserStep ==
  ASSUME PageInv, NEW c \in Browsers, Connect(c) \/ Reload(c) \/ Leave(c) \/ ClosedHttp(c)
  PROVE  PageInv'
<1> USE DEF PageInv
<1>1. UNCHANGED <<file, phase, html, swapped>>
  BY DEF Connect, Reload, Leave, ClosedHttp, server, remembered
<1>2. page[c] \in Pages
  BY DEF PageType
<1>3. CASE Connect(c) \/ Reload(c)
  <2>1. PICK st \in {"connected", "reloading"} :
             /\ page' = [page EXCEPT ![c].state = st] /\ sess' = sess
             /\ page[c].state \in {"loaded", "connected"} /\ phase # "reading" /\ phase # "stamping"
    BY <1>3 DEF Connect, Reload, NoneYet
  <2>2. [page[c] EXCEPT !.state = st] \in Pages
    BY <1>2 DEF Pages, PageStates
  <2>3. PageType'
    BY <1>1, <2>1, <2>2 DEF PageType
  <2>4. /\ page'[c] = [page[c] EXCEPT !.state = st]
        /\ \A d \in Browsers : d # c => page'[d] = page[d]
    BY <2>1 DEF PageType
  <2>5. page'[c].parts = page[c].parts /\ page'[c].want = page[c].want /\ page'[c].state = st
    BY <1>2, <2>4 DEF Pages
  <2>6. Truthful(c)'
    BY <1>1, <2>1, <2>5 DEF Truthful
  <2>7. ASSUME NEW d \in Browsers, d # c
        PROVE  Truthful(d)'
    BY <1>1, <2>1, <2>4, <2>7 DEF Truthful
  <2> QED BY <1>1, <2>1, <2>3, <2>6, <2>7 DEF NoneYet
<1>4. CASE Leave(c)
  <2>1. page' = [page EXCEPT ![c] = Blank] /\ sess' = sess
    BY <1>4 DEF Leave
  <2>2. PageType'
    BY <1>1, <2>1, BlankPage DEF PageType
  <2>3. page'[c] = Blank /\ \A d \in Browsers : d # c => page'[d] = page[d]
    BY <2>1 DEF PageType
  <2>4. Blank.state = "closed"
    BY DEF Blank
  <2>5. Truthful(c)'
    BY <2>3, <2>4 DEF Truthful
  <2>6. ASSUME NEW d \in Browsers, d # c
        PROVE  Truthful(d)'
    BY <1>1, <2>1, <2>3, <2>6 DEF Truthful
  <2> QED BY <1>1, <2>2, <2>3, <2>4, <2>5, <2>6 DEF NoneYet
<1>5. CASE ClosedHttp(c)
  <2>1. sess' = [sess EXCEPT ![c] = None] /\ page' = page /\ page[c].state = "closed"
    BY <1>5 DEF ClosedHttp
  <2>2. PageType'
    BY <1>1, <2>1 DEF PageType
  <2>3. \A d \in Browsers : d # c => sess'[d] = sess[d]
    BY <2>1 DEF PageType
  <2>4. Truthful(c)'
    BY <2>1 DEF Truthful
  <2>5. ASSUME NEW d \in Browsers, d # c
        PROVE  Truthful(d)'
    BY <1>1, <2>1, <2>3, <2>5 DEF Truthful
  <2> QED BY <1>1, <2>1, <2>2, <2>4, <2>5 DEF NoneYet
<1> QED BY <1>3, <1>4, <1>5

LEMMA PageStep == PageInv /\ [ReloadNext]_rvars => PageInv'
<1> SUFFICES ASSUME PageInv, [ReloadNext]_rvars PROVE PageInv'
  OBVIOUS
<1>1. CASE Edit \/ Stamp \/ Check \/ UNCHANGED rvars
  <2>1. /\ UNCHANGED <<html, sess, page, swapped>>
        /\ phase' \in {"reading", "stamping"} => phase \in {"reading", "stamping"}
    BY <1>1 DEF Edit, Stamp, Check, rvars, server, pages, remembered
  <2>2. file' = file \/ (file < MaxEdits /\ file' = file + 1)
    BY <1>1 DEF Edit, Stamp, Check, rvars
  <2>3. file' \in Version
    BY <2>2, ReloadAssumption DEF PageInv, PageType, Version
  <2> QED BY <2>1, <2>3 DEF PageInv, PageType, NoneYet, Truthful
<1>2. CASE FirstRead
  <2>1. /\ html' = file /\ UNCHANGED <<file, sess, page, swapped>>
        /\ \A c \in Browsers : page[c].state = "closed"
    BY <1>2 DEF FirstRead, PageInv, NoneYet, pages, remembered
  <2> QED BY <2>1 DEF PageInv, PageType, NoneYet, Truthful
<1>3. CASE ReRead
  BY <1>3, ReReadStep
<1>4. ASSUME NEW c \in Browsers, Serve(c) \/ Reload(c) \/ Leave(c)
      PROVE  PageInv'
  BY <1>4, GetStep, WritableStep, BrowserStep DEF Serve
<1> QED BY <1>1, <1>2, <1>3, <1>4 DEF ReloadNext

(* Whatever the editor and the browsers do, a page is one version of the   *)
(* file, and a transfer that has ended delivered what it promised, if the  *)
(* buffer was not replaced under it.                                       *)
THEOREM PagesStayWhole == ReloadSpec => []PagesAreWhole
<1>1. PageInv => PagesAreWhole
  <2> SUFFICES ASSUME PageInv, NEW c \in Browsers, ~swapped[c]
               PROVE  /\ page[c].state \in {"loaded", "connected"} =>
                            \E v \in Version : page[c].parts = Whole(v)
                      /\ page[c].state = "loading" => sess[c] # None
    BY DEF PagesAreWhole
  <2>1. Truthful(c) /\ page[c] \in Pages
    BY DEF PageInv, PageType
  <2>2. \A v \in Version : Begun(v, Chunks[v]) = Whole(v)
    BY DEF Begun, Whole
  <2>3. Len(page[c].parts) \in Nat
    <3>1. page[c].parts \in Seq([of : Version, at : Nat])
      BY <2>1 DEF Pages
    <3> QED BY <3>1
  <2> QED BY <2>1, <2>2, <2>3 DEF Truthful, None
<1> QED BY <1>1, PageStarts, PageStep, PTL DEF ReloadSpec
=============================================================================
