--------------------------- MODULE DebuggerProofs ----------------------------
(***************************************************************************)
(* Proofs about the debug engine for every program, every set of break-    *)
(* and watchpoints and every order of commands.                            *)
(***************************************************************************)
EXTENDS Debugger, PipelineProofs

-----------------------------------------------------------------------------
(* What each action does to the parts of the state the invariants are      *)
(* about.                                                                  *)

Others == StepCall \/ Continue \/ NextBatch \/ Pause \/ AddBreakpoint \/ RemoveBreakpoint
          \/ AddWatchpoint \/ RemoveWatchpoint

LEMMA CoreStep ==
  ASSUME [DNext]_dvars
  PROVE  \/ [SNext]_<<vars, resets>>
         \/ /\ SetPC /\ pc' \in Nat
            /\ UNCHANGED <<cycle, prog, arch, intPin, latch, resets>>
<1>1. CASE StepClock \/ TurnClock
  BY <1>1 DEF StepClock, TurnClock, LoggedClock, SNext
<1>2. CASE EngineReset
  BY <1>2 DEF EngineReset, SNext
<1>3. CASE SetPC
  BY <1>3, DebuggerAssumption DEF SetPC
<1>4. CASE StepEnded \/ StepBegins \/ TurnAtBreakpoint \/ TurnEnded \/ BatchEnds
  BY <1>4 DEF StepEnded, StepBegins, TurnAtBreakpoint, TurnEnded, BatchEnds, machine
<1>5. CASE Others
  BY <1>5 DEF Others, StepCall, Continue, NextBatch, BatchCall, Pause, AddBreakpoint,
              RemoveBreakpoint, AddWatchpoint, RemoveWatchpoint, machine
<1>6. CASE UNCHANGED dvars
  BY <1>6 DEF dvars, machine
<1> QED BY <1>1, <1>2, <1>3, <1>4, <1>5, <1>6 DEF DNext, Goes, Others

LEMMA CoreType == TypeOK /\ [DNext]_dvars => TypeOK'
<1>1. TypeOK /\ pc' \in Nat /\ UNCHANGED <<cycle, prog, arch, intPin, latch>> => TypeOK'
  BY SMT DEF TypeOK, arch, latch
<1> QED BY <1>1, CoreStep, SessionType

-----------------------------------------------------------------------------
(* Type correctness.  The detection's count stays below 8 until it drains, *)
(* and a loop in progress has turns left.                                  *)

DetectionType ==
  /\ totalCycles \in Nat /\ lastPC \in Int /\ prevPC \in Int
  /\ samePCCount \in 0 .. 8 /\ drainCycles \in -1 .. 4
  /\ drainCycles = -1 => samePCCount < 8

LoopType ==
  /\ mode \in {"free", "step", "clocking", "batch"} /\ left \in Nat
  /\ mode \in {"step", "clocking"} => left > 0
  /\ stalls \in 0 .. MAX_STALL_CYCLES /\ startPC \in Int
  /\ mode = "clocking" => stalls < MAX_STALL_CYCLES

PointsType ==
  /\ breakpoints \subseteq Addresses /\ watchpoints \subseteq Addresses
  /\ accessLogEnabled \in BOOLEAN /\ accessLog \in Word \cup {NoAccess}

OutcomeType ==
  /\ debugMode \in BOOLEAN /\ halted \in BOOLEAN /\ looping \in BOOLEAN
  /\ reason \in Reasons /\ commands \in 0 .. MaxCommands

EInv == TypeOK /\ DetectionType /\ LoopType /\ PointsType /\ OutcomeType

LEMMA EngineInit == DInit => EInv
<1> SUFFICES ASSUME DInit PROVE EInv
  OBVIOUS
<1>1. TypeOK
  BY InitType DEF DInit, SInit
<1>2. DetectionType /\ LoopType
  BY DEF DInit, DetectionType, LoopType, MAX_STALL_CYCLES
<1>3. PointsType
  BY DEF DInit, PointsType
<1>4. debugMode \in BOOLEAN /\ halted \in BOOLEAN /\ looping \in BOOLEAN /\ reason \in Reasons
  BY DEF DInit, Reasons
<1>5. commands \in 0 .. MaxCommands
  BY DebuggerAssumption DEF DInit
<1> QED BY <1>1, <1>2, <1>3, <1>4, <1>5 DEF EInv, OutcomeType

(* The detection of the program's end. *)
LEMMA ProgramEndType == EInv /\ ProgramEnd => DetectionType'
<1> SUFFICES ASSUME EInv, ProgramEnd PROVE DetectionType'
  OBVIOUS
<1>1. /\ totalCycles \in Nat /\ lastPC \in Int /\ prevPC \in Int /\ pc \in Int
      /\ samePCCount \in 0 .. 8 /\ drainCycles \in -1 .. 4
      /\ drainCycles = -1 => samePCCount < 8
  BY DEF EInv, DetectionType, TypeOK
<1>2. totalCycles' = totalCycles + 1
  BY DEF ProgramEnd
<1>3. CASE UNCHANGED detection
  BY <1>1, <1>2, <1>3 DEF detection, DetectionType
<1>4. CASE /\ drainCycles > 0 /\ drainCycles' = drainCycles - 1
           /\ UNCHANGED <<lastPC, prevPC, samePCCount>>
  BY <1>1, <1>2, <1>4 DEF DetectionType
<1>5. CASE /\ drainCycles = -1 /\ drainCycles' = 4 /\ samePCCount' = SamePC(samePCCount)
           /\ UNCHANGED <<lastPC, prevPC>>
  <2>1. samePCCount' \in 0 .. 8
    BY <1>1, <1>5 DEF SamePC
  <2> QED BY <1>1, <1>2, <1>5, <2>1 DEF DetectionType
<1>6. CASE /\ drainCycles = -1 /\ SamePC(samePCCount) < 8
           /\ samePCCount' = SamePC(samePCCount)
           /\ prevPC' = lastPC /\ lastPC' = pc /\ UNCHANGED drainCycles
  <2>1. samePCCount' \in 0 .. 8 /\ samePCCount' < 8
    BY <1>1, <1>6 DEF SamePC
  <2> QED BY <1>1, <1>2, <1>6, <2>1 DEF DetectionType
<1> QED BY <1>3, <1>4, <1>5, <1>6 DEF ProgramEnd

LEMMA ResetDetectionType ==
  ASSUME EInv, ResetHaltDetection, UNCHANGED totalCycles
  PROVE  DetectionType'
<1>1. DetectionType /\ pc \in Int
  BY DEF EInv, TypeOK
<1>2. CASE Undetected
  BY <1>1, <1>2 DEF Undetected, DetectionType
<1>3. CASE UNCHANGED detection
  BY <1>1, <1>3 DEF detection, DetectionType
<1> QED BY <1>2, <1>3 DEF ResetHaltDetection

LEMMA DetectionStep == EInv /\ [DNext]_dvars => DetectionType'
<1> SUFFICES ASSUME EInv, [DNext]_dvars PROVE DetectionType'
  OBVIOUS
<1>1. CASE ProgramEnd
  BY <1>1, ProgramEndType
<1>2. CASE ResetHaltDetection /\ UNCHANGED totalCycles
  BY <1>2, ResetDetectionType
<1>3. CASE UNCHANGED <<totalCycles, detection>>
  BY <1>3 DEF EInv, detection, DetectionType
<1>4. CASE EngineReset
  BY <1>4 DEF EngineReset, DetectionType
<1> QED
  BY <1>1, <1>2, <1>3, <1>4
     DEF DNext, Goes, StepEnded, StepBegins, StepClock, NextBatch, TurnAtBreakpoint, TurnEnded,
         TurnClock, BatchEnds, StepCall, Continue, BatchCall, Pause, AddBreakpoint,
         RemoveBreakpoint, AddWatchpoint, RemoveWatchpoint, SetPC, untouched, dvars

(* The loops. *)
LEMMA LoopStep == EInv /\ [DNext]_dvars => LoopType'
<1> SUFFICES ASSUME EInv, [DNext]_dvars PROVE LoopType'
  OBVIOUS
<1>1. LoopType /\ pc \in Int
  BY DEF EInv, TypeOK
<1>2. CASE UNCHANGED loop
  BY <1>1, <1>2 DEF loop, LoopType
<1>3. CASE mode' = "free" /\ left' = 0 /\ UNCHANGED <<startPC, stalls>>
  BY <1>1, <1>3 DEF LoopType
<1>4. CASE StepCall
  BY <1>1, <1>4, DebuggerAssumption DEF StepCall, LoopType
<1>5. CASE StepBegins
  BY <1>1, <1>5 DEF StepBegins, LoopType, MAX_STALL_CYCLES
<1>6. CASE StepClock
  <2>1. /\ left \in Nat /\ left > 0 /\ stalls \in 0 .. 16 /\ stalls < 16
        /\ stalls' = stalls + 1 /\ startPC' = startPC /\ startPC \in Int
    BY <1>1, <1>6 DEF StepClock, LoopType, MAX_STALL_CYCLES
  <2>2. stalls' \in 0 .. 16
    BY <2>1
  <2>3. CASE ~PCMoved /\ UNCHANGED <<mode, left>>
    BY <1>1, <2>1, <2>2, <2>3 DEF PCMoved, LoopType, MAX_STALL_CYCLES
  <2>4. CASE \E why \in Reasons : Stop(why)
    BY <2>1, <2>2, <2>4 DEF Stop, LoopType, MAX_STALL_CYCLES
  <2>5. CASE left' = left - 1 /\ mode' = IF left = 1 THEN "free" ELSE "step"
    BY <2>1, <2>2, <2>5 DEF LoopType, MAX_STALL_CYCLES
  <2> QED BY <1>6, <2>3, <2>4, <2>5 DEF StepClock, Reasons
<1>7. CASE Continue \/ NextBatch
  BY <1>1, <1>7, DebuggerAssumption DEF Continue, NextBatch, BatchCall, LoopType
<1>8. CASE TurnClock
  <2>1. left \in Nat /\ left > 0 /\ UNCHANGED <<startPC, stalls>> /\ mode = "batch"
    BY <1>1, <1>8 DEF TurnClock, TurnsLeft, LoopType
  <2>2. CASE left' = left - 1 /\ UNCHANGED mode
    BY <1>1, <2>1, <2>2 DEF LoopType
  <2> QED BY <1>3, <1>8, <2>1, <2>2 DEF TurnClock, Stop
<1>9. CASE BatchEnds
  <2>1. mode' = "free" /\ (left' = left \/ left' = 0) /\ UNCHANGED <<startPC, stalls>>
    BY <1>9 DEF BatchEnds, HaltedStop, Stop
  <2> QED BY <1>1, <2>1 DEF LoopType
<1>10. CASE StepEnded \/ TurnAtBreakpoint \/ TurnEnded
  BY <1>3, <1>10 DEF StepEnded, TurnAtBreakpoint, TurnEnded, HaltedStop, Stop
<1>11. CASE Pause \/ AddBreakpoint \/ RemoveBreakpoint \/ AddWatchpoint \/ RemoveWatchpoint
            \/ SetPC \/ EngineReset
  BY <1>2, <1>11 DEF Pause, AddBreakpoint, RemoveBreakpoint, AddWatchpoint, RemoveWatchpoint,
                     SetPC, EngineReset, untouched
<1>12. CASE UNCHANGED dvars
  BY <1>2, <1>12 DEF dvars
<1> QED
  BY <1>4, <1>5, <1>6, <1>7, <1>8, <1>9, <1>10, <1>11, <1>12 DEF DNext, Goes

(* The points, the log and what is reported. *)
LEMMA LoggedClockType ==
  ASSUME EInv, LoggedClock
  PROVE  accessLog' \in Word \cup {NoAccess} /\ UNCHANGED points
<1>1. MemAddr(e2m) \in Word
  BY E2MFields DEF EInv, TypeOK, MemAddr
<1> QED BY <1>1 DEF LoggedClock

LEMMA PointsStep == EInv /\ [DNext]_dvars => PointsType'
<1> SUFFICES ASSUME EInv, [DNext]_dvars PROVE PointsType'
  OBVIOUS
<1>1. PointsType
  BY DEF EInv
<1>2. CASE UNCHANGED <<points, accessLog>>
  BY <1>1, <1>2 DEF points, PointsType
<1>3. CASE LoggedClock
  BY <1>1, <1>3, LoggedClockType DEF points, PointsType
<1>4. CASE Continue \/ NextBatch
  BY <1>1, <1>4 DEF Continue, NextBatch, BatchCall, machine, PointsType
<1>5. CASE AddBreakpoint \/ RemoveBreakpoint \/ AddWatchpoint \/ RemoveWatchpoint
  BY <1>1, <1>5 DEF AddBreakpoint, RemoveBreakpoint, AddWatchpoint, RemoveWatchpoint, machine,
                    PointsType
<1>6. CASE StepClock \/ TurnClock
  BY <1>3, <1>6 DEF StepClock, TurnClock
<1>7. CASE StepEnded \/ StepBegins \/ TurnAtBreakpoint \/ TurnEnded \/ BatchEnds \/ StepCall
           \/ Pause \/ SetPC \/ EngineReset \/ UNCHANGED dvars
  BY <1>2, <1>7 DEF StepEnded, StepBegins, TurnAtBreakpoint, TurnEnded, BatchEnds, StepCall,
                    Pause, SetPC, EngineReset, machine, dvars
<1> QED BY <1>4, <1>5, <1>6, <1>7 DEF DNext, Goes

LEMMA CommandsStep ==
  ASSUME EInv, [DNext]_dvars
  PROVE  commands' \in 0 .. MaxCommands
<1>1. commands \in 0 .. MaxCommands /\ MaxCommands \in Nat
  BY DebuggerAssumption DEF EInv, OutcomeType
<1>2. commands' = commands \/ (commands < MaxCommands /\ commands' = commands + 1)
  BY DEF DNext, Goes, StepEnded, StepBegins, StepClock, NextBatch, TurnAtBreakpoint, TurnEnded,
         TurnClock, BatchEnds, StepCall, Continue, Pause, AddBreakpoint, RemoveBreakpoint,
         AddWatchpoint, RemoveWatchpoint, SetPC, EngineReset, Command, dvars
<1> QED BY <1>1, <1>2

LEMMA OutcomeStep == EInv /\ [DNext]_dvars => OutcomeType'
<1> SUFFICES ASSUME EInv, [DNext]_dvars PROVE OutcomeType'
  OBVIOUS
<1>1. OutcomeType
  BY DEF EInv
<1>2. CASE UNCHANGED <<debugMode, outcome>>
  BY <1>1, <1>2, CommandsStep DEF outcome, OutcomeType
<1>3. CASE Stop("Breakpoint") \/ Stop("Watchpoint") \/ Stop("Halted")
  <2>1. looping' = FALSE /\ reason' \in Reasons
    BY <1>3 DEF Stop, Reasons
  <2>2. UNCHANGED debugMode
    BY DEF DNext, Goes, StepEnded, StepBegins, StepClock, NextBatch, TurnAtBreakpoint, TurnEnded,
           TurnClock, BatchEnds, StepCall, Continue, BatchCall, Pause, AddBreakpoint,
           RemoveBreakpoint, AddWatchpoint, RemoveWatchpoint, SetPC, EngineReset, untouched,
           dvars
  <2>3. halted' \in BOOLEAN
    BY <1>1, Zenon
       DEF OutcomeType, DNext, Goes, StepEnded, StepBegins, StepClock, NextBatch,
           TurnAtBreakpoint, TurnEnded, TurnClock, BatchEnds, HaltedStop, StepCall, Continue,
           BatchCall, Pause, AddBreakpoint, RemoveBreakpoint, AddWatchpoint, RemoveWatchpoint,
           SetPC, EngineReset, outcome, dvars
  <2> QED BY <1>1, <2>1, <2>2, <2>3, CommandsStep DEF OutcomeType
<1>4. CASE StepCall \/ Continue \/ NextBatch \/ Pause \/ EngineReset
  BY <1>1, <1>4, CommandsStep
     DEF StepCall, Continue, NextBatch, BatchCall, Pause, EngineReset, OutcomeType, Reasons
<1>5. CASE StepClock
  BY <1>1, <1>3, <1>5, CommandsStep DEF StepClock, OutcomeType
<1>6. CASE TurnClock
  BY <1>1, <1>3, <1>6, CommandsStep DEF TurnClock, OutcomeType
<1>7. CASE StepEnded \/ TurnAtBreakpoint \/ TurnEnded
  BY <1>3, <1>7 DEF StepEnded, TurnAtBreakpoint, TurnEnded, HaltedStop
<1>8. CASE BatchEnds
  BY <1>2, <1>3, <1>8 DEF BatchEnds, HaltedStop
<1>9. CASE StepBegins \/ AddBreakpoint \/ RemoveBreakpoint \/ AddWatchpoint
           \/ RemoveWatchpoint \/ SetPC \/ UNCHANGED dvars
  BY <1>2, <1>9 DEF StepBegins, AddBreakpoint, RemoveBreakpoint, AddWatchpoint,
                    RemoveWatchpoint, SetPC, untouched, dvars
<1> QED BY <1>4, <1>5, <1>6, <1>7, <1>8, <1>9 DEF DNext, Goes

THEOREM EngineInvariant == DSpec => []EInv
<1>1. EInv /\ [DNext]_dvars => EInv'
  BY CoreType, DetectionStep, LoopStep, PointsStep, OutcomeStep DEF EInv
<1> QED BY EngineInit, <1>1, PTL DEF DSpec

(* The engine's loops always have the turns and the clocks left that they  *)
(* count on, and the detection of the end never counts past its limit.     *)
THEOREM EngineTypeCorrect == DSpec => []EngineTypeOK
<1>1. EInv => EngineTypeOK
  BY DEF EInv, DetectionType, LoopType, PointsType, OutcomeType, EngineTypeOK
<1> QED BY <1>1, EngineInvariant, PTL

-----------------------------------------------------------------------------
(* Breakpoints.  After its first turn a batch stands at no breakpoint. *)

BatchAway == mode = "batch" /\ left # BatchSize => left < BatchSize /\ pc \notin breakpoints

BInv == EInv /\ BatchAway

LEMMA BatchStep == BInv /\ [DNext]_dvars => BatchAway'
<1> SUFFICES ASSUME BInv, [DNext]_dvars PROVE BatchAway'
  OBVIOUS
<1>1. CASE TurnClock
  <2>1. left \in Nat /\ left > 0 /\ BatchSize \in Nat /\ (left = BatchSize \/ left < BatchSize)
    BY <1>1, DebuggerAssumption DEF BInv, EInv, LoopType, BatchAway, TurnClock, TurnsLeft
  <2>2. breakpoints' = breakpoints
    BY <1>1 DEF TurnClock, LoggedClock, points
  <2>3. CASE mode' = "free"
    BY <2>3 DEF BatchAway
  <2>4. CASE ~CheckBreakpoints /\ left' = left - 1
    BY <2>1, <2>2, <2>4 DEF BatchAway, CheckBreakpoints
  <2> QED BY <1>1, <2>3, <2>4 DEF TurnClock, Stop
<1>2. CASE StepClock
  <2>1. mode' # "batch"
    BY <1>2 DEF StepClock, Stop
  <2> QED BY <2>1 DEF BatchAway
<1>3. CASE Continue \/ NextBatch
  BY <1>3 DEF Continue, NextBatch, BatchCall, BatchAway
<1>4. CASE StepEnded \/ StepBegins \/ TurnAtBreakpoint \/ TurnEnded \/ BatchEnds \/ StepCall
  <2>1. mode' # "batch"
    BY <1>4 DEF StepEnded, StepBegins, TurnAtBreakpoint, TurnEnded, BatchEnds, StepCall,
                HaltedStop, Stop
  <2> QED BY <2>1 DEF BatchAway
<1>5. CASE Pause \/ AddBreakpoint \/ RemoveBreakpoint \/ AddWatchpoint \/ RemoveWatchpoint
           \/ SetPC \/ EngineReset
  <2>1. mode' # "batch"
    BY <1>5 DEF Pause, AddBreakpoint, RemoveBreakpoint, AddWatchpoint, RemoveWatchpoint, SetPC,
                EngineReset, Command, Free, untouched, loop
  <2> QED BY <2>1 DEF BatchAway
<1>6. CASE UNCHANGED dvars
  BY <1>6 DEF BInv, BatchAway, dvars, machine, vars, points, loop
<1> QED BY <1>1, <1>2, <1>3, <1>4, <1>5, <1>6 DEF DNext, Goes

(* The only steps that clock the core. *)
LEMMA OnlyClocks ==
  ASSUME EInv, [DNext]_dvars, Clocked
  PROVE  (StepClock /\ mode = "clocking") \/ (TurnClock /\ mode = "batch")
<1>1. cycle \in Int /\ cycle' # cycle /\ cycle' # 0
  BY DEF EInv, TypeOK, Clocked
<1>2. [SNext]_<<vars, resets>> \/ cycle' = cycle
  BY CoreStep
<1>3. ~SetPC /\ ~EngineReset
  BY <1>1 DEF SetPC, EngineReset, Reset
<1>4. ~(StepEnded \/ StepBegins \/ TurnAtBreakpoint \/ TurnEnded \/ BatchEnds)
  BY <1>1 DEF StepEnded, StepBegins, TurnAtBreakpoint, TurnEnded, BatchEnds, machine, vars
<1>5. ~Others
  BY <1>1 DEF Others, StepCall, Continue, NextBatch, BatchCall, Pause, AddBreakpoint,
              RemoveBreakpoint, AddWatchpoint, RemoveWatchpoint, machine, vars
<1>6. ~UNCHANGED dvars
  BY <1>1 DEF dvars, machine, vars
<1> QED
  BY <1>3, <1>4, <1>5, <1>6 DEF DNext, Goes, Others, StepClock, TurnClock

(* The instruction at a breakpoint is not fetched in sequence, in whatever *)
(* batch, unless the batch began there; with GDB attached not even then.   *)
THEOREM BreakpointsStop == DSpec => BreakpointsHaltSequence
<1>1. DInit => BInv
  BY EngineInit DEF BInv, BatchAway, DInit
<1>2. EInv /\ [DNext]_dvars => EInv'
  BY CoreType, DetectionStep, LoopStep, PointsStep, OutcomeStep DEF EInv
<1>3. BInv /\ [DNext]_dvars => BInv'
  BY <1>2, BatchStep DEF BInv
<1>4. BInv /\ [DNext]_dvars => [SequentialFetchStep]_dvars
  <2> SUFFICES ASSUME BInv, [DNext]_dvars, mode = "batch", Clocked, pc \in breakpoints
               PROVE  FirstTurn /\ ~debugMode
    BY DEF SequentialFetchStep
  <2>1. TurnClock
    BY OnlyClocks DEF BInv
  <2>2. FirstTurn
    BY DEF BInv, BatchAway, FirstTurn
  <2> QED BY <2>1, <2>2 DEF TurnClock, StandsAtBreakpoint, FirstTurn
<1> QED BY <1>1, <1>3, <1>4, PTL DEF DSpec, BreakpointsHaltSequence

-----------------------------------------------------------------------------
(* Watchpoints.  While there are any, the log is on; and as long as an     *)
(* instruction is stepped the PC is where the step began.                  *)

Watching ==
  /\ watchpoints # {} => accessLogEnabled
  /\ mode = "clocking" => pc = startPC

WInv == EInv /\ Watching

LEMMA WatchingStep == WInv /\ [DNext]_dvars => Watching'
<1> SUFFICES ASSUME WInv, [DNext]_dvars PROVE Watching'
  OBVIOUS
<1>1. Watching
  BY DEF WInv
<1>2. CASE StepClock
  <2>1. UNCHANGED <<watchpoints, accessLogEnabled, startPC>>
    BY <1>2 DEF StepClock, LoggedClock, points
  <2>2. mode' = "clocking" => pc' = startPC
    BY <1>2 DEF StepClock, Stop, PCMoved
  <2> QED BY <1>1, <2>1, <2>2 DEF Watching
<1>3. CASE StepBegins
  BY <1>1, <1>3 DEF StepBegins, Watching, machine, vars, points
<1>4. CASE Continue \/ NextBatch
  BY <1>1, <1>4 DEF Continue, NextBatch, BatchCall, Watching
<1>5. CASE AddWatchpoint \/ RemoveWatchpoint
  BY <1>1, <1>5 DEF AddWatchpoint, RemoveWatchpoint, Command, Free, Watching, untouched, loop
<1>6. CASE TurnClock \/ StepEnded \/ TurnAtBreakpoint \/ TurnEnded \/ BatchEnds \/ StepCall
  <2>1. mode' # "clocking"
    BY <1>6 DEF TurnClock, StepEnded, TurnAtBreakpoint, TurnEnded, BatchEnds, StepCall,
                HaltedStop, Stop
  <2>2. UNCHANGED <<watchpoints, accessLogEnabled>>
    BY <1>6 DEF TurnClock, LoggedClock, StepEnded, TurnAtBreakpoint, TurnEnded, BatchEnds,
                StepCall, points
  <2> QED BY <1>1, <2>1, <2>2 DEF Watching
<1>7. CASE Pause \/ AddBreakpoint \/ RemoveBreakpoint \/ SetPC \/ EngineReset
  <2>1. mode' # "clocking" /\ UNCHANGED <<watchpoints, accessLogEnabled>>
    BY <1>7 DEF Pause, AddBreakpoint, RemoveBreakpoint, SetPC, EngineReset, Command, Free,
                untouched, loop, points
  <2> QED BY <1>1, <2>1 DEF Watching
<1>8. CASE UNCHANGED dvars
  BY <1>1, <1>8 DEF Watching, dvars, machine, vars, points, loop
<1> QED BY <1>2, <1>3, <1>4, <1>5, <1>6, <1>7, <1>8 DEF DNext, Goes

(* Whatever points came and went, the engine stops at an access to a       *)
(* watched address, unless the access falls into a stalled step.           *)
THEOREM WatchpointsStop == DSpec => WatchedAccessStops
<1>1. DInit => WInv
  BY EngineInit DEF WInv, Watching, DInit
<1>2. EInv /\ [DNext]_dvars => EInv'
  BY CoreType, DetectionStep, LoopStep, PointsStep, OutcomeStep DEF EInv
<1>3. WInv /\ [DNext]_dvars => WInv'
  BY <1>2, WatchingStep DEF WInv
<1>4. WInv /\ [DNext]_dvars => [WatchStep]_dvars
  <2> SUFFICES ASSUME WInv, [DNext]_dvars, Clocked, MemAccessed,
                      MemAddr(e2m) \in watchpoints
               PROVE  \/ mode' = "free" /\ reason' \in {"Watchpoint", "Breakpoint"}
                      \/ mode = "clocking" /\ pc' = pc
    BY DEF WatchStep
  <2>1. ASSUME LoggedClock PROVE Hit
    <3>1. accessLogEnabled
      BY DEF WInv, Watching
    <3> QED BY <2>1, <3>1 DEF LoggedClock, Hit
  <2>2. CASE StepClock /\ mode = "clocking"
    <3>1. Hit
      BY <2>1, <2>2 DEF StepClock
    <3>2. pc = startPC
      BY <2>2 DEF WInv, Watching
    <3> QED BY <2>2, <3>1, <3>2 DEF StepClock, PCMoved, Stop
  <2>3. CASE TurnClock
    <3>1. Hit
      BY <2>1, <2>3 DEF TurnClock
    <3> QED BY <2>3, <3>1 DEF TurnClock, Stop
  <2> QED BY <2>2, <2>3, OnlyClocks DEF WInv
<1> QED BY <1>1, <1>3, <1>4, PTL DEF DSpec, WatchedAccessStops

-----------------------------------------------------------------------------
(* The end.  What has been found at its end stays there without GDB: the   *)
(* detection is not reset, and no loop is past looking at it.              *)

AtEnd == halted /\ ~debugMode => Ended /\ mode # "clocking"

HInv == EInv /\ AtEnd

LEMMA AtEndStep == HInv /\ [DNext]_dvars => AtEnd'
<1> SUFFICES ASSUME HInv, [DNext]_dvars, halted', ~debugMode' PROVE Ended' /\ mode' # "clocking"
  BY DEF AtEnd
<1>11. /\ halted \in BOOLEAN /\ debugMode \in BOOLEAN
       /\ halted' \in BOOLEAN /\ debugMode' \in BOOLEAN
  BY OutcomeStep DEF HInv, EInv, OutcomeType
<1>1. totalCycles \in Nat /\ MaxTotal \in Nat
  BY DebuggerAssumption DEF HInv, EInv, DetectionType
<1>2. ASSUME ProgramEnd, Ended, UNCHANGED debugMode PROVE Ended'
  BY <1>1, <1>2 DEF ProgramEnd, Ended, OutOfCycles, detection
<1>3. ASSUME UNCHANGED <<totalCycles, detection, debugMode>>, Ended PROVE Ended'
  BY <1>3 DEF Ended, OutOfCycles, detection
<1>4. CASE StepEnded \/ TurnEnded
  BY <1>2, <1>4 DEF StepEnded, TurnEnded, HaltedStop, Stop
<1>5. CASE BatchEnds
  <2>1. UNCHANGED debugMode /\ ProgramEnd /\ mode' = "free"
    BY <1>5 DEF BatchEnds, HaltedStop, Stop
  <2>2. Ended
    BY <1>5, <1>11 DEF BatchEnds, HInv, AtEnd, outcome
  <2> QED BY <1>2, <2>1, <2>2
<1>6. CASE StepBegins \/ TurnClock
  <2>1. halted /\ ~debugMode /\ ~Ended
    BY <1>6, <1>11 DEF StepBegins, TurnClock, outcome
  <2> QED BY <2>1 DEF HInv, AtEnd
<1>7. CASE StepClock
  <2>1. halted /\ ~debugMode /\ mode = "clocking"
    BY <1>7 DEF StepClock
  <2> QED BY <2>1 DEF HInv, AtEnd
<1>8. CASE EngineReset
  BY <1>8 DEF EngineReset
<1>9. CASE StepCall \/ Continue \/ NextBatch
  <2>1. halted /\ ~debugMode /\ UNCHANGED <<totalCycles, debugMode>> /\ mode' # "clocking"
    BY <1>9, <1>11 DEF StepCall, Continue, NextBatch, BatchCall
  <2>2. UNCHANGED detection
    BY <1>9, <2>1 DEF StepCall, Continue, NextBatch, BatchCall, ResetHaltDetection
  <2> QED BY <1>3, <2>1, <2>2 DEF HInv, AtEnd
<1>10. CASE TurnAtBreakpoint \/ Pause \/ AddBreakpoint \/ RemoveBreakpoint \/ AddWatchpoint
            \/ RemoveWatchpoint \/ SetPC \/ UNCHANGED dvars
  <2>1. halted /\ ~debugMode /\ UNCHANGED <<totalCycles, detection, debugMode>>
    BY <1>10, <1>11 DEF TurnAtBreakpoint, Pause, AddBreakpoint, RemoveBreakpoint, AddWatchpoint,
                 RemoveWatchpoint, SetPC, untouched, outcome, dvars
  <2>2. mode' = mode \/ mode' = "free"
    BY <1>10 DEF TurnAtBreakpoint, Pause, AddBreakpoint, RemoveBreakpoint, AddWatchpoint,
                 RemoveWatchpoint, SetPC, untouched, loop, Stop, dvars
  <2> QED BY <1>3, <2>1, <2>2 DEF HInv, AtEnd
<1> QED BY <1>4, <1>5, <1>6, <1>7, <1>8, <1>9, <1>10 DEF DNext, Goes

(* A machine that was reported halted stands until it is reset. *)
THEOREM HaltedStaysHalted == DSpec => HaltedStands
<1>1. DInit => HInv
  BY EngineInit DEF HInv, AtEnd, DInit
<1>2. EInv /\ [DNext]_dvars => EInv'
  BY CoreType, DetectionStep, LoopStep, PointsStep, OutcomeStep DEF EInv
<1>3. HInv /\ [DNext]_dvars => HInv'
  BY <1>2, AtEndStep DEF HInv
<1>4. HInv /\ [DNext]_dvars => [StandStep]_dvars
  <2> SUFFICES ASSUME HInv, [DNext]_dvars, halted, ~debugMode PROVE cycle' = cycle \/ ~halted'
    BY DEF StandStep
  <2>1. ~StepClock /\ ~TurnClock
    BY DEF HInv, AtEnd, StepClock, TurnClock
  <2>2. ~EngineReset \/ ~halted'
    BY DEF EngineReset
  <2>3. CASE ~EngineReset
    BY <2>1, <2>3
       DEF DNext, Goes, StepEnded, StepBegins, NextBatch, TurnAtBreakpoint, TurnEnded,
           BatchEnds, StepCall, Continue, BatchCall, Pause, AddBreakpoint, RemoveBreakpoint,
           AddWatchpoint, RemoveWatchpoint, SetPC, machine, vars, dvars
  <2> QED BY <2>2, <2>3
<1> QED BY <1>1, <1>3, <1>4, PTL DEF DSpec, HaltedStands

-----------------------------------------------------------------------------
(* A step moves the PC.  Here a core may have been reset in mid-flight,    *)
(* and a bubble's other controls are those of the instruction it was.      *)
QuietBubble(l) == l.bubble => l.ctl.reg = "NOP" /\ l.ctl.exc = "none"

LatchInv ==
  /\ QuietBubble(d2e) /\ QuietBubble(e2m) /\ QuietBubble(m2w)
  /\ StallFollowsLoad

(* The last b clocks put bubbles into the pipeline.                        *)
Bubbles(b) == (b >= 1 => d2e.bubble) /\ (b >= 2 => e2m.bubble) /\ (b >= 3 => m2w.bubble)

(* The control is that of the instruction that has been fetched.           *)
OwnCtl(l) == l.ctl \in {NopCtl, Ctl(f2d.ireg)}

Returns(i) == FlowCtl(i) # "none" \/ IsM4(i, EI)

(* The fetch has come back n times to the word before the PC: the second   *)
(* time to an instruction that is in EX, or was dropped, the third time to *)
(* one that is a transfer, if it was no interrupt, which is now disabled.  *)
Around(n) ==
  /\ n >= 1 => f2d.pc = pc - 1 /\ f2d.ireg = FetchWord(prog, pc - 1)
  /\ n >= 2 => OwnCtl(d2e)
  /\ n >= 3 => OwnCtl(e2m) /\ (Returns(f2d.ireg) \/ ~ien)

(* The fetch comes back for ever, without stalls.                          *)
Settled == Around(3) /\ Returns(f2d.ireg) /\ stallCtr = 0

(* Between two returns there are at most three bubbles: sixteen clocks are *)
(* more than three returns and the stalls between them take.               *)
Waiting == \E n, b \in 0 .. 3 : stalls =< 4 * n + b /\ Bubbles(b) /\ Around(n)

StepInv == mode = "clocking" => pc = startPC /\ (Settled \/ Waiting)

MInv == EInv /\ LatchInv /\ StepInv

LEMMA QuietedIsQuiet ==
  ASSUME NEW l, l \in E2MType \/ l \in M2WType \/ l \in D2EType
  PROVE  QuietBubble(Quieted(l))
BY DEF QuietBubble, Quieted, E2MType, M2WType, D2EType, CtlType

LEMMA ClockKeepsLatches == TypeOK /\ LatchInv /\ Clock => LatchInv'
<1> SUFFICES ASSUME TypeOK, LatchInv, Clock PROVE LatchInv'
  OBVIOUS
<1>1. NopCtl.reg = "NOP" /\ NopCtl.exc = "none"
  BY DEF NopCtl
<1>2. QuietBubble(d2e)'
  BY <1>1, ClockMovesControl DEF QuietBubble
<1>3. QuietBubble(e2m)' /\ QuietBubble(m2w)'
  BY ClockMovesControl DEF QuietBubble, LatchInv
<1>4. StallFollowsLoad'
  <2>1. stallCtr' = StallsLeft /\ m2w'.ctl = e2m.ctl /\ stallCtr \in 0 .. 1
    BY ClockMovesControl DEF Clock, TypeOK
  <2>2. StallsLeft > 0 => LoadUse
    BY <2>1 DEF StallsLeft
  <2> QED BY <2>1, <2>2 DEF StallFollowsLoad, LoadUse
<1> QED BY <1>2, <1>3, <1>4 DEF LatchInv

LEMMA ResetKeepsLatches == TypeOK /\ Reset => LatchInv'
<1> SUFFICES ASSUME TypeOK, Reset PROVE LatchInv'
  OBVIOUS
<1>1. /\ d2e' = QuietedD2E /\ e2m' = Quieted(e2m) /\ m2w' = Quieted(m2w) /\ stallCtr' = 0
  BY DEF Reset
<1>2. d2e \in D2EType /\ e2m \in E2MType /\ m2w \in M2WType
  BY DEF TypeOK
<1>3. QuietBubble(Quieted(d2e)) /\ QuietBubble(Quieted(e2m)) /\ QuietBubble(Quieted(m2w))
  BY <1>2, QuietedIsQuiet
<1>4. QuietBubble(QuietedD2E)
  BY <1>2 DEF QuietBubble, QuietedD2E, Quieted, D2EType, CtlType
<1> QED BY <1>1, <1>3, <1>4 DEF LatchInv, StallFollowsLoad, QuietBubble

LEMMA LatchStep == EInv /\ LatchInv /\ [DNext]_dvars => LatchInv'
<1> SUFFICES ASSUME EInv, LatchInv, [DNext]_dvars PROVE LatchInv'
  OBVIOUS
<1>1. CASE Clock
  BY <1>1, ClockKeepsLatches DEF EInv
<1>2. CASE Reset
  BY <1>2, ResetKeepsLatches DEF EInv
<1>3. CASE UNCHANGED latch
  BY <1>3 DEF latch, LatchInv, QuietBubble, StallFollowsLoad
<1> QED BY <1>1, <1>2, <1>3, CoreStep DEF SNext, vars

(* Three bubbles leave nothing to wait for. *)
LEMMA BubblesEnd ==
  ASSUME LatchInv, Bubbles(3)
  PROVE  ~Stalled
<1>1. /\ d2e.bubble /\ d2e.ctl.exc = "none" /\ e2m.ctl.exc = "none" /\ m2w.ctl.reg = "NOP"
  BY DEF LatchInv, Bubbles, QuietBubble
<1> QED BY <1>1 DEF Stalled, ZeroGapHazard, EpcHazard, LatchInv, StallFollowsLoad

(* An instruction that redirects the fetch neither is a load nor touches   *)
(* EPC, and what writes a register reads none.                             *)
LEMMA ReturnControl ==
  ASSUME NEW i, Returns(i), NEW c \in {NopCtl, Ctl(i)}
  PROVE  /\ c.exc = "none" /\ c.reg \in {"NOP", "PC"}
         /\ c.reg = "PC" => Sources(i) = {}
<1>1. \/ i.op \in {OP_J, OP_JAL, OP_JR, OP_BZ, OP_BZ_T, OP_BZ_N, OP_BHLEQ}
      \/ IsM1(i, SYSCALL) \/ IsM4(i, RETI) \/ IsM4(i, EI)
  BY DEF Returns, FlowCtl
<1>2. NopCtl.exc = "none" /\ NopCtl.reg = "NOP"
  BY DEF NopCtl
<1>3. Ctl(i).exc = "none"
  BY <1>1 DEF Ctl, ExcCtl, IsM4, IsM1, OP_J, OP_JAL, OP_JR, OP_BZ, OP_BZ_T, OP_BZ_N, OP_BHLEQ,
              OP_M1, M4, SYSCALL, RETI, EI, MFEPC, MFECA, MTEPC
<1>4. Ctl(i).reg \in {"NOP", "PC"} /\ (Ctl(i).reg = "PC" => i.op = OP_JAL)
  BY <1>1 DEF Ctl, RegCtl, IsM4, IsM1, IsStack, OP_J, OP_JAL, OP_JR, OP_BZ, OP_BZ_T, OP_BZ_N,
              OP_BHLEQ, OP_M1, M4, SYSCALL, RETI, EI, MFEPC, MFECA, LPM, MFHI, MFLO,
              OP_R, OP_S, OP_ADDI, OP_LW, OP_LIU, OP_LIL, OP_STACK
<1>5. i.op = OP_JAL => Sources(i) = {}
  BY DEF Sources, ReadsA, ReadsB, IsM1, IsM4, OP_JAL, OP_R, OP_S, OP_LIL, OP_LIU, OP_SW, OP_JR,
         OP_ADDI, OP_STACK, OP_M1, OP_LW
<1> QED BY <1>2, <1>3, <1>4, <1>5

(* An instruction that has come around does not wait for itself. *)
LEMMA SettledRuns ==
  ASSUME Settled
  PROVE  ~Stalled /\ ~LoadUse
<1>1. OwnCtl(d2e) /\ OwnCtl(e2m) /\ Returns(f2d.ireg) /\ stallCtr = 0
  BY DEF Settled, Around
<1>2. /\ d2e.ctl.exc = "none" /\ d2e.ctl.reg \in {"NOP", "PC"}
      /\ d2e.ctl.reg = "PC" => Sources(f2d.ireg) = {}
      /\ e2m.ctl.exc = "none" /\ e2m.ctl.reg \in {"NOP", "PC"}
  BY <1>1, ReturnControl DEF OwnCtl
<1>3. ~ZeroGapHazard
  BY <1>2 DEF ZeroGapHazard
<1>4. ~EpcHazard /\ ~LoadUse
  BY <1>2 DEF EpcHazard, LoadUse
<1> QED BY <1>1, <1>3, <1>4 DEF Stalled

(* A stall puts in one more bubble.                                        *)
LEMMA WaitingClock ==
  ASSUME TypeOK, LatchInv, Clock, Stalled, NEW n \in 0 .. 3, NEW b \in 0 .. 3,
         Bubbles(b), Around(n)
  PROVE  b + 1 \in 0 .. 3 /\ Bubbles(b + 1)' /\ Around(n)'
<1>1. b # 3
  BY BubblesEnd
<1>2. /\ d2e'.bubble /\ d2e'.ctl = NopCtl /\ e2m'.bubble = d2e.bubble /\ m2w'.bubble = e2m.bubble
      /\ e2m'.ctl = d2e.ctl
  BY ClockMovesControl
<1>3. pc' = pc /\ f2d' = f2d
  BY DEF Clock
<1>4. Bubbles(b + 1)'
  BY <1>2 DEF Bubbles
<1>5. n >= 3 => OwnCtl(e2m)' /\ (Returns(f2d.ireg) \/ ~ien)'
  <2> SUFFICES ASSUME n >= 3 PROVE OwnCtl(e2m)' /\ (Returns(f2d.ireg) \/ ~ien)'
    OBVIOUS
  <2>1. OwnCtl(d2e) /\ (Returns(f2d.ireg) \/ ~ien)
    BY DEF Around
  <2>2. CASE Returns(f2d.ireg)
    BY <1>2, <1>3, <2>1, <2>2 DEF OwnCtl
  <2>3. CASE ~Returns(f2d.ireg)
    <3>1. FlowCtl(f2d.ireg) = "none" /\ ~IsM4(f2d.ireg, EI) /\ ~ien
      BY <2>1, <2>3 DEF Returns
    <3>2. Ctl(f2d.ireg).flow = "none" /\ NopCtl.flow = "none"
      BY <3>1 DEF Ctl, NopCtl
    <3>3. d2e.ctl.flow = "none"
      BY <2>1, <3>2 DEF OwnCtl
    <3>4. ~IenDecoded
      BY <3>1, <3>3 DEF IenDecoded, IenFetched
    <3>5. ien' = IenDecoded
      BY DEF Clock
    <3> QED BY <1>2, <1>3, <2>1, <3>4, <3>5 DEF OwnCtl
  <2> QED BY <2>2, <2>3
<1>6. n >= 1 => (f2d.pc = pc - 1 /\ f2d.ireg = FetchWord(prog, pc - 1))'
  BY <1>3 DEF Around, Clock
<1>7. n >= 2 => OwnCtl(d2e)'
  BY <1>2 DEF OwnCtl
<1> QED BY <1>1, <1>4, <1>5, <1>6, <1>7 DEF Around

(* A clock that fetches again what was fetched before. *)
LEMMA FetchAgain ==
  ASSUME TypeOK, Clock, ~Stalled, FetchPC = pc - 1, pc' = pc,
         f2d.pc = pc - 1, f2d.ireg = FetchWord(prog, pc - 1)
  PROVE  f2d' = f2d /\ OwnCtl(d2e)' /\ e2m'.ctl = d2e.ctl
<1>1. f2d' = [ireg |-> FetchWord(prog, FetchPC), pc |-> FetchPC]
  BY DEF Clock
<1>2. f2d = [ireg |-> f2d.ireg, pc |-> f2d.pc]
  BY DEF TypeOK, F2DType
<1>3. f2d' = f2d
  BY <1>1, <1>2
<1> QED BY <1>3, ClockMovesControl DEF OwnCtl

(* Without a transfer or an interrupt the fetch goes on. *)
LEMMA FetchGoesOn ==
  ASSUME OwnCtl(d2e), ~Returns(f2d.ireg), pc \in Int, FetchPC = pc - 1
  PROVE  IntTaken /\ ~IenDecoded
<1>1. FlowCtl(f2d.ireg) = "none" /\ ~IsM4(f2d.ireg, EI)
  BY DEF Returns
<1>2. Ctl(f2d.ireg).flow = "none" /\ NopCtl.flow = "none"
  BY <1>1 DEF Ctl, NopCtl
<1>3. d2e.ctl.flow = "none"
  BY <1>2 DEF OwnCtl
<1>4. IntTaken
  BY <1>3 DEF FetchPC, SyscallTaken, BranchTaken
<1> QED BY <1>1, <1>4 DEF IenDecoded, IenFetched

(* Who has come back three times and comes back again is a transfer.       *)
LEMMA ComesAround ==
  ASSUME pc \in Int, FetchPC = pc - 1, Around(3)
  PROVE  Returns(f2d.ireg)
<1> SUFFICES ASSUME ~Returns(f2d.ireg) PROVE FALSE
  OBVIOUS
<1>1. OwnCtl(d2e) /\ ~ien
  BY DEF Around
<1> QED BY <1>1, FetchGoesOn DEF IntTaken

LEMMA SettlesDown ==
  ASSUME TypeOK, Clock, ~Stalled, FetchPC = pc - 1, pc' = pc, Around(3), Returns(f2d.ireg)
  PROVE  Settled'
<1>1. OwnCtl(d2e) /\ OwnCtl(e2m)
  BY DEF Around
<1>2. f2d' = f2d /\ OwnCtl(d2e)' /\ e2m'.ctl = d2e.ctl
  BY FetchAgain DEF Around
<1>3. OwnCtl(e2m)'
  BY <1>1, <1>2 DEF OwnCtl
<1>4. ~LoadUse
  BY <1>1, ReturnControl DEF OwnCtl, LoadUse
<1>5. stallCtr' = 0
  BY <1>4 DEF Clock, StallsLeft, Stalled, TypeOK
<1>6. Around(3)'
  BY <1>2, <1>3 DEF Around, Clock
<1> QED BY <1>2, <1>5, <1>6 DEF Settled

(* A clock that is not stalled and leaves the PC where it is, is one more  *)
(* return.                                                                 *)
LEMMA FetchCloser ==
  ASSUME TypeOK, Clock, ~Stalled, FetchPC = pc - 1, pc' = pc, NEW n \in 0 .. 2, Around(n)
  PROVE  Around(n + 1)'
<1>1. (f2d.pc = pc - 1 /\ f2d.ireg = FetchWord(prog, pc - 1))'
  <2>1. f2d'.pc = FetchPC /\ f2d'.ireg = FetchWord(prog, FetchPC)
    <3> HIDE DEF FetchPC
    <3> QED BY DEF Clock
  <2> QED BY <2>1 DEF Clock
<1>2. n >= 1 => OwnCtl(d2e)' /\ f2d' = f2d /\ e2m'.ctl = d2e.ctl
  BY FetchAgain DEF Around
<1>3. n >= 2 => OwnCtl(e2m)'
  BY <1>2 DEF Around, OwnCtl
<1>4. n >= 2 => (Returns(f2d.ireg) \/ ~ien)'
  <2> SUFFICES ASSUME n >= 2, ~Returns(f2d.ireg) PROVE ~ien'
    BY <1>2
  <2>1. OwnCtl(d2e) /\ pc \in Int
    BY DEF Around, TypeOK
  <2> QED BY <2>1, FetchGoesOn DEF Clock
<1>5. ASSUME n + 1 >= 2 PROVE n >= 1
  BY <1>5
<1>6. ASSUME n + 1 >= 3 PROVE n >= 2
  BY <1>6
<1> QED BY <1>1, <1>2, <1>3, <1>4, <1>5, <1>6 DEF Around

LEMMA SameFetch ==
  ASSUME TypeOK, Clock, ~Stalled, pc' = pc
  PROVE  FetchPC = pc - 1 /\ pc \in Int
<1>1. FetchPC \in Int /\ pc \in Int
  BY FetchPCType DEF TypeOK
<1>2. pc' = FetchPC + 1
  BY DEF Clock
<1> QED BY <1>1, <1>2

LEMMA StandingClock ==
  ASSUME TypeOK, LatchInv, Clock, pc' = pc, stalls \in Nat, stalls' = stalls + 1,
         Settled \/ Waiting
  PROVE  (Settled \/ Waiting)'
<1>1. CASE Settled
  <2>1. ~Stalled
    BY <1>1, SettledRuns
  <2> QED BY <1>1, <2>1, SameFetch, SettlesDown DEF Settled
<1>2. CASE Waiting
  <2>1. PICK n \in 0 .. 3, b \in 0 .. 3 : stalls =< 4 * n + b /\ Bubbles(b) /\ Around(n)
    BY <1>2 DEF Waiting
  <2>2. CASE Stalled
    <3>1. b + 1 \in 0 .. 3 /\ Bubbles(b + 1)' /\ Around(n)'
      BY <2>1, <2>2, WaitingClock
    <3>2. stalls' =< 4 * n + (b + 1)
      BY <2>1
    <3> QED BY <3>1, <3>2 DEF Waiting
  <2>3. CASE ~Stalled /\ n = 3
    <3>1. FetchPC = pc - 1 /\ pc \in Int /\ Around(3)
      BY <2>1, <2>3, SameFetch
    <3> QED BY <2>3, <3>1, ComesAround, SettlesDown
  <2>4. CASE ~Stalled /\ n # 3
    <3>1. n \in 0 .. 2 /\ n + 1 \in 0 .. 3 /\ stalls' =< 4 * (n + 1) + 0
      BY <2>1, <2>4
    <3>2. Around(n + 1)'
      BY <2>1, <2>4, <3>1, SameFetch, FetchCloser
    <3>3. Bubbles(0)'
      BY DEF Bubbles
    <3>4. 0 \in 0 .. 3
      OBVIOUS
    <3> QED BY <3>1, <3>2, <3>3, <3>4 DEF Waiting
  <2> QED BY <2>2, <2>3, <2>4
<1> QED BY <1>1, <1>2

LEMMA StepBegun == EInv /\ StepBegins => StepInv'
<1> SUFFICES ASSUME EInv, StepBegins PROVE StepInv'
  OBVIOUS
<1>1. startPC' = pc /\ pc' = pc /\ stalls' = 0
  BY DEF StepBegins, machine, vars
<1>2. Bubbles(0)' /\ Around(0)' /\ stalls' =< 4 * 0 + 0
  BY <1>1 DEF Bubbles, Around
<1>3. 0 \in 0 .. 3
  OBVIOUS
<1> QED BY <1>1, <1>2, <1>3 DEF StepInv, Waiting

LEMMA StepGoesOn == MInv /\ StepClock => StepInv'
<1> SUFFICES ASSUME MInv, StepClock, mode' = "clocking" PROVE pc' = startPC' /\ (Settled \/ Waiting)'
  BY DEF StepInv
<1>1. /\ mode = "clocking" /\ Clock /\ stalls' = stalls + 1 /\ startPC' = startPC
  BY DEF StepClock, LoggedClock
<1>2. ~PCMoved
  BY DEF StepClock, Stop
<1>3. TypeOK /\ LatchInv /\ stalls \in Nat
  BY DEF MInv, EInv, LoopType
<1>4. pc = startPC /\ (Settled \/ Waiting)
  BY <1>1 DEF MInv, StepInv
<1>5. pc' = startPC
  BY <1>2 DEF PCMoved
<1> QED BY <1>1, <1>3, <1>4, <1>5, StandingClock

LEMMA StepKept == MInv /\ [DNext]_dvars => StepInv'
<1> SUFFICES ASSUME MInv, [DNext]_dvars PROVE StepInv'
  OBVIOUS
<1>1. CASE StepBegins
  BY <1>1, StepBegun DEF MInv
<1>2. CASE StepClock
  BY <1>2, StepGoesOn
<1>3. CASE UNCHANGED dvars
  <2>1. UNCHANGED <<mode, pc, prog, startPC, stalls, f2d, d2e, e2m, m2w, stallCtr, ien>>
    BY <1>3 DEF dvars, machine, vars, arch, latch, loop
  <2> QED BY <2>1 DEF MInv, StepInv, Settled, Waiting, Bubbles, Around, OwnCtl
<1>4. CASE DNext /\ ~StepBegins /\ ~StepClock
  <2>1. mode' # "clocking"
    BY <1>4 DEF DNext, Goes, StepEnded, NextBatch, TurnAtBreakpoint, TurnEnded, TurnClock,
           BatchEnds, StepCall, Continue, BatchCall, Pause, AddBreakpoint, RemoveBreakpoint,
           AddWatchpoint, RemoveWatchpoint, SetPC, EngineReset, Command, Free, Stop, HaltedStop,
           untouched, loop
  <2> QED BY <2>1 DEF StepInv
<1> QED BY <1>1, <1>2, <1>3, <1>4

LEMMA StepEndsMoved == MInv /\ [DNext]_dvars => MoveStep
<1> SUFFICES ASSUME MInv, [DNext]_dvars, mode = "clocking", mode' # "clocking", pc' = startPC
             PROVE  Refetched
  BY DEF MoveStep
<1>1. StepClock
  BY DEF DNext, Goes, StepEnded, StepBegins, NextBatch, TurnAtBreakpoint, TurnEnded, TurnClock,
         BatchEnds, StepCall, Continue, BatchCall, Pause, AddBreakpoint, RemoveBreakpoint,
         AddWatchpoint, RemoveWatchpoint, SetPC, EngineReset, Command, Free, dvars, loop
<1>2. Clock /\ PCMoved
  BY <1>1 DEF StepClock, LoggedClock
<1>3. TypeOK /\ LatchInv /\ stalls \in Nat
  BY DEF MInv, EInv, LoopType
<1>4. stalls = 15
  BY <1>2, <1>3 DEF PCMoved, MAX_STALL_CYCLES
<1>5. pc' = pc /\ (Settled \/ Waiting)
  BY DEF MInv, StepInv
<1>6. Around(3) /\ ~Stalled
  <2>1. CASE Settled
    BY <2>1, SettledRuns DEF Settled
  <2>2. CASE Waiting
    <3>1. PICK n \in 0 .. 3, b \in 0 .. 3 : stalls =< 4 * n + b /\ Bubbles(b) /\ Around(n)
      BY <2>2 DEF Waiting
    <3>2. n = 3 /\ b = 3
      BY <1>4, <3>1
    <3> QED BY <1>3, <3>1, <3>2, BubblesEnd
  <2> QED BY <1>5, <2>1, <2>2
<1>7. FetchPC = pc - 1 /\ pc \in Int
  BY <1>2, <1>3, <1>5, <1>6, SameFetch
<1>8. f2d.pc = pc - 1
  BY <1>6 DEF Around
<1>9. Returns(f2d.ireg)
  BY <1>6, <1>7, ComesAround
<1> QED BY <1>6, <1>7, <1>8, <1>9 DEF Refetched, Returns

LEMMA LatchInit == Init => LatchInv
<1> SUFFICES ASSUME Init PROVE LatchInv
  OBVIOUS
<1>1. d2e.ctl = NopCtl /\ e2m.ctl = NopCtl /\ m2w.ctl = NopCtl /\ stallCtr = 0
  BY DEF Init, EmptyD2E, EmptyE2M, EmptyM2W
<1>2. NopCtl.reg = "NOP" /\ NopCtl.exc = "none"
  BY DEF NopCtl
<1> QED BY <1>1, <1>2 DEF LatchInv, QuietBubble, StallFollowsLoad

(* A step moves the PC, for every program, with the pin held or not and    *)
(* after resets and changes of the PC: the limit of sixteen clocks never   *)
(* cuts off a stall.  The exception is a program that fetches the same     *)
(* transfer, or EI, over and over.                                         *)
THEOREM StepsMoveOn == DSpec => StepsMove
<1>1. DInit => MInv
  BY EngineInit, LatchInit DEF DInit, SInit, MInv, StepInv
<1>2. MInv /\ [DNext]_dvars => MInv'
  <2>1. EInv /\ [DNext]_dvars => EInv'
    BY CoreType, DetectionStep, LoopStep, PointsStep, OutcomeStep DEF EInv
  <2> QED BY <2>1, LatchStep, StepKept DEF MInv
<1>3. MInv /\ [DNext]_dvars => MoveStep
  BY StepEndsMoved
<1> QED BY <1>1, <1>2, <1>3, PTL DEF DSpec, StepsMove
=============================================================================
