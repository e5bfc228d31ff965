------------------------- MODULE DebugServerProofs --------------------------
(***************************************************************************)
(* The safety properties of the debug server, for any number of requests   *)
(* and any machine.  All of them follow from one inductive invariant,      *)
(* ServerInv, which says who may be where while the flag simRunning has a  *)
(* given value: the flag, and not the mutex, is what keeps the handlers    *)
(* and the worker apart.                                                   *)
(***************************************************************************)
EXTENDS DebugServer, TLAPS

USE DEF client, flags, hist, Idles, Works, MainGoes, SimGoes, Answer

(***************************************************************************)
(* The client's request loop: the main thread is past its poll only with a *)
(* request that has not been answered, so the method does not change under *)
(* a handler, and a handler that was reached belongs to its method.        *)
(***************************************************************************)
ServingInv ==
  /\ mainAt \notin {"drain", "poll"} => clientAt = "waiting" /\ reply = "none"
  /\ mainAt \in {"continue", "rearm", "spawn"} => method = "continue"
  /\ mainAt \in {"pause", "setPause", "join"} => method = "pause"
  /\ mainAt = "flag" => method = "status"
  /\ mainAt = "locked" => method \notin {"continue"}

(***************************************************************************)
(* simRunning against the two threads: it is set for as long as a worker   *)
(* may touch the engine, and otherwise only while handleContinue starts    *)
(* one; a handler that found it unset keeps it so until it has answered.   *)
(***************************************************************************)
RunningInv ==
  /\ simAt \notin Ended => simRunning
  /\ simRunning /\ simAt \in Ended => mainAt \in {"rearm", "spawn"}
  /\ mainAt \in {"rearm", "spawn"} => simRunning /\ simAt \in Ended
  /\ mainAt = "continue" => ~simRunning
  /\ mainAt = "locked" /\ method \in StoppedOnly => ~simRunning
  /\ mainAt = "locked" /\ method = "pause" => ~simRunning

(***************************************************************************)
(* Runs and reports: a run executes only while it is unreported, and the   *)
(* worker clears the flag only after a report.  At TailTest a run without  *)
(* a report is one that was asked to pause.                                *)
(***************************************************************************)
ReportInv ==
  /\ \A r \in reported : r =< run
  /\ simAt \in {"start", "loop", "enter", "batch", "report"} => run \notin reported
  /\ mainAt \in {"rearm", "spawn"} => run \notin reported
  /\ simAt = "tail" => pauseRequested \/ run \in reported
  /\ simAt \in {"clear", "store"} => run \in reported

(***************************************************************************)
(* What the client was told: a reply that says that the machine stands is  *)
(* true when it is given, and stays true until the client itself asks for  *)
(* a change.                                                               *)
(***************************************************************************)
AssuredInv ==
  /\ reply \in {"paused", "stopped", "notRunning"} => ~simRunning
  /\ assured => ~simRunning
  /\ assured => ~(clientAt = "waiting" /\ method \in {"continue", "operate"})

ServerInv == TypeOK /\ ServingInv /\ RunningInv /\ ReportInv /\ AssuredInv

-----------------------------------------------------------------------------
(* The clock of the machine moves within its bound, and does move. *)
LEMMA MovedMoves ==
  ASSUME cycle \in 0 .. CycleMod - 1
  PROVE  Moved \in 0 .. CycleMod - 1 /\ Moved # cycle
BY ServerAssumption DEF Moved

(* What the two ends of the notification path do to a sequence of notes.   *)
LEMMA NoteSequences ==
  ASSUME NEW s \in Seq(Note), NEW t \in Seq(Note), NEW n \in Note
  PROVE  /\ <<>> \in Seq(Note) /\ s \o t \in Seq(Note) /\ Append(s, n) \in Seq(Note)
         /\ s # <<>> => Head(s) \in Note /\ Tail(s) \in Seq(Note)
OBVIOUS

LEMMA NotesOfRuns ==
  /\ \A n \in Note : n.run \in Nat
  /\ \A r \in Nat : [run |-> r, reason |-> "event"] \in Note
                 /\ [run |-> r, reason |-> "paused"] \in Note
BY DEF Note

LEMMA InitServer == Init => ServerInv
<1> SUFFICES ASSUME Init PROVE ServerInv
  OBVIOUS
<1> USE DEF Init
<1>0. <<>> \in Seq(Note)
  OBVIOUS
<1>1. TypeOK
  <2>1. 0 \in 0 .. MaxRequests /\ 0 \in 0 .. CycleMod - 1
    BY ServerAssumption
  <2>2. method \in Methods /\ mainAt \in MainSteps /\ simAt \in SimSteps /\ reply \in Replies
    BY DEF Methods, AnyTime, MainSteps, SimSteps, Replies
  <2> QED
    BY <1>0, <2>1, <2>2 DEF TypeOK
<1>2. ServingInv /\ RunningInv /\ AssuredInv
  BY DEF ServingInv, RunningInv, AssuredInv, Ended
<1>3. ReportInv
  BY DEF ReportInv
<1> QED
  BY <1>1, <1>2, <1>3 DEF ServerInv

(* Every step keeps the variables within their types. *)
LEMMA TypeStep == TypeOK /\ [Next]_vars => TypeOK'
<1> SUFFICES ASSUME TypeOK, [Next]_vars PROVE TypeOK'
  OBVIOUS
<1> USE ServerAssumption DEF TypeOK
<1>m. Moved \in 0 .. CycleMod - 1
  BY MovedMoves
<1>1. ASSUME NEW m \in Methods, Send(m) PROVE TypeOK'
  BY <1>1 DEF Send, Replies
<1>2. CASE ReceiveReply
  BY <1>2 DEF ReceiveReply
<1>3. CASE Hear
  BY <1>3, NoteSequences, NotesOfRuns DEF Hear
<1>4. CASE Main
  <2>1. CASE DrainNotifications
    <3>1. sub \o notifyQueue \in Seq(Note) /\ <<>> \in Seq(Note)
      OBVIOUS
    <3> QED
      BY <2>1, <3>1 DEF DrainNotifications, MainSteps
  <2>2. CASE Poll
    BY <2>2 DEF Poll, MainSteps
  <2>3. CASE Dispatch
    BY <2>3 DEF Dispatch, MainSteps, Replies
  <2>4. CASE SetRunning
    BY <2>4 DEF SetRunning, MainSteps
  <2>5. CASE Rearm
    BY <2>5 DEF Rearm, MainSteps
  <2>6. CASE Spawn
    BY <2>6 DEF Spawn, MainSteps, SimSteps, Replies
  <2>7. CASE PauseCheck
    BY <2>7 DEF PauseCheck, MainSteps, Replies
  <2>8. CASE SetPause
    BY <2>8 DEF SetPause, MainSteps
  <2>9. CASE Join
    BY <2>9 DEF Join, MainSteps, SimSteps
  <2>10. CASE Locked
    BY <2>10, <1>m DEF Locked, MainSteps, Replies
  <2>11. CASE StatusFlag
    BY <2>11 DEF StatusFlag, MainSteps, Replies
  <2> QED
    BY <1>4, <2>1, <2>2, <2>3, <2>4, <2>5, <2>6, <2>7, <2>8, <2>9, <2>10, <2>11 DEF Main
<1>5. CASE Sim
  <2>1. CASE SetTrace \/ LoopTest \/ EnterBatch \/ TailTest \/ ClearTrace \/ ClearRunning
    BY <1>5, <2>1 DEF SetTrace, LoopTest, EnterBatch, TailTest, ClearTrace, ClearRunning, SimSteps
  <2>2. CASE EndBatch
    BY <2>2, <1>m DEF EndBatch, SimSteps
  <2>3. CASE Report \/ ReportPaused
    BY <2>3, NoteSequences, NotesOfRuns DEF Report, ReportPaused, Push, SimSteps
  <2> QED
    BY <1>5, <2>1, <2>2, <2>3 DEF Sim
<1>6. CASE UNCHANGED vars
  BY <1>6 DEF vars
<1> QED
  BY <1>1, <1>2, <1>3, <1>4, <1>5, <1>6 DEF Next

(* The main thread serves one request from its dispatch to its answer.     *)
LEMMA ServingStep == ServerInv /\ [Next]_vars => ServingInv'
<1> SUFFICES ASSUME ServerInv, [Next]_vars PROVE ServingInv'
  OBVIOUS
<1> USE DEF ServerInv, ServingInv, AnyTime, StoppedOnly
<1>1. ASSUME NEW m \in Methods, Send(m) PROVE ServingInv'
  BY <1>1 DEF Send
<1>2. CASE ReceiveReply
  BY <1>2 DEF ReceiveReply
<1>3. CASE Hear
  BY <1>3 DEF Hear
<1>4. CASE Main
  <2>1. CASE DrainNotifications
    BY <2>1 DEF DrainNotifications
  <2>2. CASE Poll
    BY <2>2 DEF Poll
  <2>3. CASE Dispatch
    BY <2>3 DEF Dispatch
  <2>4. CASE SetRunning
    BY <2>4 DEF SetRunning
  <2>5. CASE Rearm
    BY <2>5 DEF Rearm
  <2>6. CASE Spawn
    BY <2>6 DEF Spawn
  <2>7. CASE PauseCheck
    BY <2>7 DEF PauseCheck
  <2>8. CASE SetPause
    BY <2>8 DEF SetPause
  <2>9. CASE Join
    BY <2>9 DEF Join
  <2>10. CASE Locked
    BY <2>10 DEF Locked
  <2>11. CASE StatusFlag
    BY <2>11 DEF StatusFlag
  <2> QED
    BY <1>4, <2>1, <2>2, <2>3, <2>4, <2>5, <2>6, <2>7, <2>8, <2>9, <2>10, <2>11 DEF Main
<1>5. CASE Sim
  <2>1. CASE SetTrace
    BY <2>1 DEF SetTrace
  <2>2. CASE LoopTest
    BY <2>2 DEF LoopTest
  <2>3. CASE EnterBatch
    BY <2>3 DEF EnterBatch
  <2>4. CASE EndBatch
    BY <2>4 DEF EndBatch
  <2>5. CASE Report
    BY <2>5 DEF Report, Push
  <2>6. CASE TailTest
    BY <2>6 DEF TailTest
  <2>7. CASE ReportPaused
    BY <2>7 DEF ReportPaused, Push
  <2>8. CASE ClearTrace
    BY <2>8 DEF ClearTrace
  <2>9. CASE ClearRunning
    BY <2>9 DEF ClearRunning
  <2> QED
    BY <1>5, <2>1, <2>2, <2>3, <2>4, <2>5, <2>6, <2>7, <2>8, <2>9 DEF Sim
<1>6. CASE UNCHANGED vars
  BY <1>6 DEF vars
<1> QED
  BY <1>1, <1>2, <1>3, <1>4, <1>5, <1>6 DEF Next

(* The flag and the two threads.  Dispatch and Spawn are the steps at      *)
(* stake: what Dispatch saw in the flag must hold until the answer.        *)
LEMMA RunningStep == ServerInv /\ [Next]_vars => RunningInv'
<1> SUFFICES ASSUME ServerInv, [Next]_vars PROVE RunningInv'
  OBVIOUS
<1> USE DEF ServerInv, ServingInv, RunningInv, Ended, AnyTime, StoppedOnly
<1>1. ASSUME NEW m \in Methods, Send(m) PROVE RunningInv'
  BY <1>1 DEF Send
<1>2. CASE ReceiveReply
  BY <1>2 DEF ReceiveReply
<1>3. CASE Hear
  BY <1>3 DEF Hear
<1>4. CASE Main
  <2>1. CASE DrainNotifications
    BY <2>1 DEF DrainNotifications
  <2>2. CASE Poll
    BY <2>2 DEF Poll
  <2>3. CASE Dispatch
    BY <2>3 DEF Dispatch
  <2>4. CASE SetRunning
    BY <2>4 DEF SetRunning
  <2>5. CASE Rearm
    BY <2>5 DEF Rearm
  <2>6. CASE Spawn
    BY <2>6 DEF Spawn
  <2>7. CASE PauseCheck
    BY <2>7 DEF PauseCheck
  <2>8. CASE SetPause
    BY <2>8 DEF SetPause
  <2>9. CASE Join
    BY <2>9 DEF Join
  <2>10. CASE Locked
    BY <2>10 DEF Locked
  <2>11. CASE StatusFlag
    BY <2>11 DEF StatusFlag
  <2> QED
    BY <1>4, <2>1, <2>2, <2>3, <2>4, <2>5, <2>6, <2>7, <2>8, <2>9, <2>10, <2>11 DEF Main
<1>5. CASE Sim
  <2>1. CASE SetTrace
    BY <2>1 DEF SetTrace
  <2>2. CASE LoopTest
    BY <2>2 DEF LoopTest
  <2>3. CASE EnterBatch
    BY <2>3 DEF EnterBatch
  <2>4. CASE EndBatch
    BY <2>4 DEF EndBatch
  <2>5. CASE Report
    BY <2>5 DEF Report, Push
  <2>6. CASE TailTest
    BY <2>6 DEF TailTest
  <2>7. CASE ReportPaused
    BY <2>7 DEF ReportPaused, Push
  <2>8. CASE ClearTrace
    BY <2>8 DEF ClearTrace
  <2>9. CASE ClearRunning
    BY <2>9 DEF ClearRunning
  <2> QED
    BY <1>5, <2>1, <2>2, <2>3, <2>4, <2>5, <2>6, <2>7, <2>8, <2>9 DEF Sim
<1>6. CASE UNCHANGED vars
  BY <1>6 DEF vars
<1> QED
  BY <1>1, <1>2, <1>3, <1>4, <1>5, <1>6 DEF Next

(* Runs and their reports. *)
LEMMA ReportStep == ServerInv /\ [Next]_vars => ReportInv'
<1> SUFFICES ASSUME ServerInv, [Next]_vars PROVE ReportInv'
  OBVIOUS
<1> USE DEF ServerInv, TypeOK, RunningInv, ReportInv, Ended
<1>1. ASSUME NEW m \in Methods, Send(m) PROVE ReportInv'
  BY <1>1 DEF Send
<1>2. CASE ReceiveReply
  BY <1>2 DEF ReceiveReply
<1>3. CASE Hear
  BY <1>3 DEF Hear
<1>4. CASE Main
  <2>1. CASE DrainNotifications
    BY <2>1 DEF DrainNotifications
  <2>2. CASE Poll
    BY <2>2 DEF Poll
  <2>3. CASE Dispatch
    BY <2>3 DEF Dispatch
  <2>4. CASE SetRunning
    BY <2>4 DEF SetRunning
  <2>5. CASE Rearm
    BY <2>5 DEF Rearm
  <2>6. CASE Spawn
    BY <2>6 DEF Spawn
  <2>7. CASE PauseCheck
    BY <2>7 DEF PauseCheck
  <2>8. CASE SetPause
    BY <2>8 DEF SetPause
  <2>9. CASE Join
    BY <2>9 DEF Join
  <2>10. CASE Locked
    BY <2>10 DEF Locked
  <2>11. CASE StatusFlag
    BY <2>11 DEF StatusFlag
  <2> QED
    BY <1>4, <2>1, <2>2, <2>3, <2>4, <2>5, <2>6, <2>7, <2>8, <2>9, <2>10, <2>11 DEF Main
<1>5. CASE Sim
  <2>1. CASE SetTrace
    BY <2>1 DEF SetTrace
  <2>2. CASE LoopTest
    BY <2>2 DEF LoopTest
  <2>3. CASE EnterBatch
    BY <2>3 DEF EnterBatch
  <2>4. CASE EndBatch
    BY <2>4 DEF EndBatch
  <2>5. CASE Report
    BY <2>5 DEF Report, Push
  <2>6. CASE TailTest
    BY <2>6 DEF TailTest
  <2>7. CASE ReportPaused
    BY <2>7 DEF ReportPaused, Push
  <2>8. CASE ClearTrace
    BY <2>8 DEF ClearTrace
  <2>9. CASE ClearRunning
    BY <2>9 DEF ClearRunning
  <2> QED
    BY <1>5, <2>1, <2>2, <2>3, <2>4, <2>5, <2>6, <2>7, <2>8, <2>9 DEF Sim
<1>6. CASE UNCHANGED vars
  BY <1>6 DEF vars
<1> QED
  BY <1>1, <1>2, <1>3, <1>4, <1>5, <1>6 DEF Next

(* What the client was told stays true. *)
LEMMA AssuredStep == ServerInv /\ [Next]_vars => AssuredInv'
<1> SUFFICES ASSUME ServerInv, [Next]_vars PROVE AssuredInv'
  OBVIOUS
<1> USE DEF ServerInv, ServingInv, RunningInv, AssuredInv, Ended, AnyTime, StoppedOnly
<1>1. ASSUME NEW m \in Methods, Send(m) PROVE AssuredInv'
  BY <1>1 DEF Send
<1>2. CASE ReceiveReply
  BY <1>2 DEF ReceiveReply
<1>3. CASE Hear
  BY <1>3 DEF Hear
<1>4. CASE Main
  <2>1. CASE DrainNotifications
    BY <2>1 DEF DrainNotifications
  <2>2. CASE Poll
    BY <2>2 DEF Poll
  <2>3. CASE Dispatch
    BY <2>3 DEF Dispatch
  <2>4. CASE SetRunning
    BY <2>4 DEF SetRunning
  <2>5. CASE Rearm
    BY <2>5 DEF Rearm
  <2>6. CASE Spawn
    BY <2>6 DEF Spawn
  <2>7. CASE PauseCheck
    BY <2>7 DEF PauseCheck
  <2>8. CASE SetPause
    BY <2>8 DEF SetPause
  <2>9. CASE Join
    BY <2>9 DEF Join
  <2>10. CASE Locked
    BY <2>10 DEF Locked
  <2>11. CASE StatusFlag
    BY <2>11 DEF StatusFlag
  <2> QED
    BY <1>4, <2>1, <2>2, <2>3, <2>4, <2>5, <2>6, <2>7, <2>8, <2>9, <2>10, <2>11 DEF Main
<1>5. CASE Sim
  <2>1. CASE SetTrace
    BY <2>1 DEF SetTrace
  <2>2. CASE LoopTest
    BY <2>2 DEF LoopTest
  <2>3. CASE EnterBatch
    BY <2>3 DEF EnterBatch
  <2>4. CASE EndBatch
    BY <2>4 DEF EndBatch
  <2>5. CASE Report
    BY <2>5 DEF Report, Push
  <2>6. CASE TailTest
    BY <2>6 DEF TailTest
  <2>7. CASE ReportPaused
    BY <2>7 DEF ReportPaused, Push
  <2>8. CASE ClearTrace
    BY <2>8 DEF ClearTrace
  <2>9. CASE ClearRunning
    BY <2>9 DEF ClearRunning
  <2> QED
    BY <1>5, <2>1, <2>2, <2>3, <2>4, <2>5, <2>6, <2>7, <2>8, <2>9 DEF Sim
<1>6. CASE UNCHANGED vars
  BY <1>6 DEF vars
<1> QED
  BY <1>1, <1>2, <1>3, <1>4, <1>5, <1>6 DEF Next

-----------------------------------------------------------------------------
(* ServerInv is an invariant of the server. *)
THEOREM ServerInvariant == Spec => []ServerInv
<1>1. Init => ServerInv
  BY InitServer
<1>2. ServerInv /\ [Next]_vars => ServerInv'
  BY TypeStep, ServingStep, RunningStep, ReportStep, AssuredStep DEF ServerInv
<1> QED
  BY <1>1, <1>2, PTL DEF Spec

(* Every variable stays within its type, whatever the client asks and      *)
(* however the threads interleave.                                         *)
THEOREM ServerTypeCorrect == Spec => []TypeOK
<1>1. ServerInv => TypeOK
  BY DEF ServerInv
<1> QED
  BY <1>1, ServerInvariant, PTL

(* No handler that needs a stopped machine runs while the worker can still *)
(* touch the engine, its unprotected parts included.                       *)
THEOREM HandlersAlone == Spec => []StoppedOnlyAlone
<1>1. ServerInv => StoppedOnlyAlone
  BY DEF ServerInv, RunningInv, StoppedOnlyAlone
<1> QED
  BY <1>1, ServerInvariant, PTL

(* After pause, a status that says stopped, or error -3, the machine does  *)
(* not move until the client asks for it.                                  *)
THEOREM ToldStandsStill == Spec => AssuredStandsStill
<1>1. ServerInv /\ [Next]_vars => StandStep
  <2> SUFFICES ASSUME ServerInv, [Next]_vars, assured PROVE cycle' = cycle
    BY DEF StandStep
  <2>1. simAt # "batch" /\ ~(clientAt = "waiting" /\ method = "operate")
    BY DEF ServerInv, RunningInv, AssuredInv, Ended
  <2>2. CASE Locked
    BY <2>1, <2>2 DEF Locked, ServerInv, ServingInv
  <2>3. CASE EndBatch
    BY <2>1, <2>3 DEF EndBatch
  <2>4. ASSUME NEW m \in Methods, Send(m) PROVE cycle' = cycle
    BY <2>4 DEF Send
  <2>5. CASE ReceiveReply \/ Hear \/ UNCHANGED vars
    BY <2>5 DEF ReceiveReply, Hear, vars
  <2>6. CASE Main /\ ~Locked
    BY <2>6 DEF Main, DrainNotifications, Poll, Dispatch, SetRunning, Rearm, Spawn,
                PauseCheck, SetPause, Join, StatusFlag
  <2>7. CASE Sim /\ ~EndBatch
    BY <2>7 DEF Sim, SetTrace, LoopTest, EnterBatch, Report, TailTest, ReportPaused,
                ClearTrace, ClearRunning
  <2> QED
    BY <2>2, <2>3, <2>4, <2>5, <2>6, <2>7 DEF Next
<1> QED
  BY <1>1, ServerInvariant, PTL DEF Spec, AssuredStandsStill

(***************************************************************************)
(* The server implements the abstract session: SetRunning is Continue, a   *)
(* batch that clocked the machine is Execute, the first report of a run is *)
(* ReportStop, ClearRunning is Stop; every other step stutters.            *)
(***************************************************************************)
THEOREM SessionImplemented == Spec => ImplementsSession
<1>1. Init => Promise!SInit
  BY DEF Init, Promise!SInit
<1>2. ServerInv /\ [Next]_vars => [Promise!SNext]_Promise!svars
  <2> SUFFICES ASSUME ServerInv, [Next]_vars
               PROVE  Promise!SNext \/ UNCHANGED Promise!svars
    OBVIOUS
  <2> USE DEF Promise!SNext, Promise!svars
  <2>1. CASE SetRunning
    BY <2>1 DEF SetRunning, ServerInv, RunningInv, Promise!Continue
  <2>2. CASE EndBatch
    <3>1. Moved # cycle /\ simRunning /\ run \notin reported
      BY <2>2, MovedMoves DEF EndBatch, ServerInv, TypeOK, RunningInv, ReportInv, Ended
    <3> QED
      BY <2>2, <3>1 DEF EndBatch, Promise!Execute
  <2>3. CASE Report \/ ReportPaused
    BY <2>3 DEF Report, ReportPaused, Push, ServerInv, RunningInv, Ended, Promise!ReportStop
  <2>4. CASE ClearRunning
    BY <2>4 DEF ClearRunning, ServerInv, RunningInv, ReportInv, Ended, Promise!Stop
  <2>5. CASE Locked
    <3>1. Moved # cycle
      BY MovedMoves DEF ServerInv, TypeOK
    <3>2. method = "operate" => ~simRunning
      BY <2>5 DEF Locked, StoppedOnly, ServerInv, RunningInv
    <3> QED
      BY <2>5, <3>1, <3>2 DEF Locked, Promise!Operate
  <2>6. ASSUME NEW m \in Methods, Send(m) PROVE UNCHANGED Promise!svars
    BY <2>6 DEF Send
  <2>7. CASE ReceiveReply \/ Hear \/ UNCHANGED vars
    BY <2>7 DEF ReceiveReply, Hear, vars
  <2>8. CASE DrainNotifications \/ Poll \/ Dispatch \/ Rearm \/ Spawn \/ PauseCheck \/ SetPause
             \/ Join \/ StatusFlag
    BY <2>8 DEF DrainNotifications, Poll, Dispatch, Rearm, Spawn, PauseCheck, SetPause, Join,
                StatusFlag
  <2>9. CASE SetTrace \/ LoopTest \/ EnterBatch \/ TailTest \/ ClearTrace
    BY <2>9 DEF SetTrace, LoopTest, EnterBatch, TailTest, ClearTrace
  <2> QED
    BY <2>1, <2>2, <2>3, <2>4, <2>5, <2>6, <2>7, <2>8, <2>9 DEF Next, Main, Sim
<1> QED
  BY <1>1, <1>2, ServerInvariant, PTL DEF Spec, ImplementsSession, Promise!Spec
=============================================================================
