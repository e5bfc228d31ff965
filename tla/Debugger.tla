------------------------------ MODULE Debugger ------------------------------
(***************************************************************************)
(* The debug engine (debug_engine.cpp) on the pipeline, and the detection  *)
(* of the program's end (ANEMCPU::programEnd).                             *)
(*                                                                         *)
(* The engine's methods are serialised by its mutex: while one runs, no    *)
(* other does.  `step` and `runBatch` are loops; here one action is one    *)
(* turn of the loop.  A client that continues calls runBatch again and     *)
(* again until it gets a reason to stop; between two batches any other     *)
(* method may run, of the same client or of another one.                   *)
(*                                                                         *)
(* Writes of registers and memory, the instruction history and the heat    *)
(* map are left out.                                                       *)
(***************************************************************************)
EXTENDS PipelineReset

CONSTANTS
  Addresses,     (* where clients put breakpoints and watchpoints          *)
  StepCounts,    (* the N of `step N`                                      *)
  BatchSize,     (* clocks of a batch: 128, 1000 or 10000 in the clients   *)
  MaxTotal,      (* maxCycles, option -m of the simulator                  *)
  MaxCommands    (* bound: commands in a session                           *)

ASSUME DebuggerAssumption ==
  /\ Addresses \subseteq Nat /\ StepCounts \subseteq Nat \ {0}
  /\ BatchSize \in Nat \ {0} /\ MaxTotal \in Nat \ {0} /\ MaxCommands \in Nat

VARIABLES
  breakpoints, watchpoints,
  accessLogEnabled, accessLog,  (* the last access of the last clock       *)
  debugMode,     (* a GDB stub is attached                                 *)
  halted,
  reason,        (* why the last step or batch ended                       *)
  mode,          (* what the method in progress is about to do             *)
  left,          (* turns left to its loop                                 *)
  startPC, stalls,              (* of the instruction being stepped        *)
  looping,       (* a client is continuing                                 *)
  commands,
  totalCycles, lastPC, prevPC, samePCCount, drainCycles   (* programEnd    *)

points    == <<breakpoints, watchpoints, accessLogEnabled>>
detection == <<lastPC, prevPC, samePCCount, drainCycles>>
loop      == <<mode, left, startPC, stalls>>
outcome   == <<halted, reason, looping>>
machine   == <<vars, resets, accessLog>>
dvars     == <<machine, points, debugMode, outcome, loop, commands, totalCycles, detection>>

NoAccess == -1
MAX_STALL_CYCLES == 16

-----------------------------------------------------------------------------
(* Detection of the program's end. *)

(* main.cpp lifts the limit when it starts the GDB stub. *)
OutOfCycles == ~debugMode /\ totalCycles + 1 >= MaxTotal
Ended       == OutOfCycles \/ drainCycles = 0

StuckPC == pc \in {lastPC, prevPC}

NeverReset(count) == IF StuckPC THEN count + 1 ELSE count   \* mutant: count kept

SamePC(count) == IF StuckPC THEN count + 1 ELSE 0

(* What a call of programEnd changes; its result is Ended. *)
ProgramEnd ==
  /\ totalCycles' = totalCycles + 1
  /\ \/ Ended /\ UNCHANGED detection
     \/ /\ ~Ended /\ drainCycles > 0
        /\ drainCycles' = drainCycles - 1
        /\ UNCHANGED <<lastPC, prevPC, samePCCount>>
     \/ /\ ~Ended /\ drainCycles = -1 /\ SamePC(samePCCount) >= 8
        /\ drainCycles' = 4 /\ samePCCount' = SamePC(samePCCount)
        /\ UNCHANGED <<lastPC, prevPC>>
     \/ /\ ~Ended /\ drainCycles = -1 /\ SamePC(samePCCount) < 8
        /\ samePCCount' = SamePC(samePCCount)
        /\ prevPC' = lastPC /\ lastPC' = pc
        /\ UNCHANGED drainCycles

(* With GDB attached every command starts the detection afresh. *)
Undetected == lastPC' = pc /\ prevPC' = 0 /\ samePCCount' = 0 /\ drainCycles' = -1

HastyResetHaltDetection == Undetected      \* mutant: whoever is attached

ResetHaltDetection == IF debugMode THEN Undetected ELSE UNCHANGED detection

-----------------------------------------------------------------------------
(* Parts of the loops. *)

MemAccessed == e2m.ctl.mem \in {"read", "write"}

(* A clock, the log cleared before it. *)
LoggedClock ==
  /\ Clock
  /\ accessLog' = IF accessLogEnabled /\ MemAccessed THEN MemAddr(e2m) ELSE NoAccess
  /\ UNCHANGED <<resets, points>>

Stop(why) == mode' = "free" /\ reason' = why /\ looping' = FALSE /\ left' = 0

HaltedStop == Stop("Halted") /\ halted' = TRUE

Free == mode = "free"

Command == Free /\ commands < MaxCommands /\ commands' = commands + 1

-----------------------------------------------------------------------------
(* step(count). *)

StepCall ==
  /\ Command
  /\ \E n \in StepCounts : left' = n
  /\ mode' = "step" /\ reason' = "None"
  /\ ResetHaltDetection
  /\ UNCHANGED <<machine, points, debugMode, halted, looping, startPC, stalls, totalCycles>>

(* The head of a turn: the program may have ended. *)
StepEnded ==
  /\ mode = "step" /\ Ended
  /\ ProgramEnd /\ HaltedStop
  /\ UNCHANGED <<machine, points, debugMode, startPC, stalls, commands>>

StepBegins ==
  /\ mode = "step" /\ ~Ended
  /\ ProgramEnd
  /\ mode' = "clocking" /\ startPC' = pc /\ stalls' = 0
  /\ UNCHANGED <<machine, points, debugMode, outcome, left, commands>>

Hit == accessLog' \in watchpoints

OneClock == TRUE               \* mutant: a step is one clock

PCMoved == pc' # startPC \/ stalls + 1 = MAX_STALL_CYCLES

(* One clock of the instruction being stepped; after the last one the      *)
(* breakpoints, unless it was the last instruction, and the watchpoints.   *)
StepClock ==
  /\ mode = "clocking"
  /\ LoggedClock
  /\ stalls' = stalls + 1
  /\ \/ ~PCMoved /\ UNCHANGED <<mode, left, reason, looping>>
     \/ PCMoved /\ left > 1 /\ pc' \in breakpoints /\ Stop("Breakpoint")
     \/ PCMoved /\ ~(left > 1 /\ pc' \in breakpoints) /\ Hit /\ Stop("Watchpoint")
     \/ /\ PCMoved /\ ~(left > 1 /\ pc' \in breakpoints) /\ ~Hit
        /\ left' = left - 1 /\ mode' = IF left = 1 THEN "free" ELSE "step"
        /\ UNCHANGED <<reason, looping>>
  /\ UNCHANGED <<debugMode, halted, startPC, commands, totalCycles, detection>>

-----------------------------------------------------------------------------
(* Continuing: runBatch(BatchSize) until there is a reason to stop. *)

BatchCall ==
  /\ mode' = "batch" /\ left' = BatchSize /\ reason' = "None" /\ looping' = TRUE
  /\ accessLogEnabled' = (accessLogEnabled \/ watchpoints # {})
  /\ ResetHaltDetection
  /\ UNCHANGED <<machine, breakpoints, watchpoints, debugMode, halted,
                 startPC, stalls, totalCycles>>

Continue  == Command /\ BatchCall
NextBatch == Free /\ looping /\ BatchCall /\ UNCHANGED commands

TurnsLeft == left > 0

(* With GDB attached the first turn looks at the breakpoints first. *)
StandsAtBreakpoint == debugMode /\ left = BatchSize /\ pc \in breakpoints

DeafTurnAtBreakpoint ==    \* mutant: the client's loop goes on
  /\ mode = "batch" /\ TurnsLeft /\ StandsAtBreakpoint
  /\ mode' = "free" /\ reason' = "Breakpoint" /\ left' = 0
  /\ UNCHANGED <<machine, points, debugMode, halted, looping, startPC, stalls,
                 commands, totalCycles, detection>>

TurnAtBreakpoint ==
  /\ mode = "batch" /\ TurnsLeft /\ StandsAtBreakpoint
  /\ Stop("Breakpoint")
  /\ UNCHANGED <<machine, points, debugMode, halted, startPC, stalls,
                 commands, totalCycles, detection>>

TurnEnded ==
  /\ mode = "batch" /\ TurnsLeft /\ ~StandsAtBreakpoint /\ Ended
  /\ ProgramEnd /\ HaltedStop
  /\ UNCHANGED <<machine, points, debugMode, startPC, stalls, commands>>

StaleCheckBreakpoints == pc \in breakpoints /\ left < BatchSize  \* mutant: PC before the clock

CheckBreakpoints == pc' \in breakpoints

TurnClock ==
  /\ mode = "batch" /\ TurnsLeft /\ ~StandsAtBreakpoint /\ ~Ended
  /\ ProgramEnd
  /\ LoggedClock
  /\ \/ CheckBreakpoints /\ Stop("Breakpoint")
     \/ ~CheckBreakpoints /\ Hit /\ Stop("Watchpoint")
     \/ /\ ~CheckBreakpoints /\ ~Hit
        /\ left' = left - 1 /\ UNCHANGED <<mode, reason, looping>>
  /\ UNCHANGED <<debugMode, halted, startPC, stalls, commands>>

(* After the last turn the end is looked for once more. *)
BatchEnds ==
  /\ mode = "batch" /\ ~TurnsLeft
  /\ ProgramEnd
  /\ \/ Ended /\ HaltedStop
     \/ ~Ended /\ mode' = "free" /\ UNCHANGED <<left, outcome>>
  /\ UNCHANGED <<machine, points, debugMode, startPC, stalls, commands>>

(* Ctrl-C, or a pause: noticed between two batches. *)
Pause ==
  /\ Command /\ looping /\ looping' = FALSE
  /\ UNCHANGED <<machine, points, debugMode, halted, reason, loop, totalCycles, detection>>

-----------------------------------------------------------------------------
(* The other methods. *)

untouched == <<debugMode, loop, totalCycles, detection>>

AddBreakpoint ==
  /\ Command
  /\ \E a \in Addresses \ breakpoints : breakpoints' = breakpoints \cup {a}
  /\ UNCHANGED <<machine, watchpoints, accessLogEnabled, outcome, untouched>>

RemoveBreakpoint ==
  /\ Command
  /\ \E a \in breakpoints : breakpoints' = breakpoints \ {a}
  /\ UNCHANGED <<machine, watchpoints, accessLogEnabled, outcome, untouched>>

MuteAddWatchpoint ==       \* mutant: the log that removal turned off stays off
  /\ Command
  /\ \E a \in Addresses \ watchpoints : watchpoints' = watchpoints \cup {a}
  /\ UNCHANGED <<machine, breakpoints, accessLogEnabled, outcome, untouched>>

AddWatchpoint ==
  /\ Command
  /\ \E a \in Addresses \ watchpoints : watchpoints' = watchpoints \cup {a}
  /\ accessLogEnabled' = TRUE
  /\ UNCHANGED <<machine, breakpoints, outcome, untouched>>

RemoveWatchpoint ==
  /\ Command
  /\ \E a \in watchpoints : watchpoints' = watchpoints \ {a}
  /\ accessLogEnabled' = (accessLogEnabled /\ watchpoints' # {})
  /\ UNCHANGED <<machine, breakpoints, outcome, untouched>>

(* Only the GDB stub writes the PC. *)
SetPC ==
  /\ Command /\ debugMode
  /\ pc' \in Addresses
  /\ UNCHANGED <<cycle, prog, arch, intPin, latch, resets, accessLog, points, outcome, untouched>>

(* The core is reset, and with it the detection of the end. *)
EngineReset ==
  /\ Command
  /\ Reset
  /\ totalCycles' = 0 /\ lastPC' = 0 /\ prevPC' = 0 /\ samePCCount' = 0 /\ drainCycles' = -1
  /\ halted' = FALSE
  /\ UNCHANGED <<accessLog, points, debugMode, reason, looping, loop>>

-----------------------------------------------------------------------------
DInit ==
  /\ SInit
  /\ breakpoints = {} /\ watchpoints = {} /\ accessLogEnabled = TRUE /\ accessLog = NoAccess
  /\ debugMode \in BOOLEAN /\ halted = FALSE /\ reason = "None" /\ looping = FALSE
  /\ mode = "free" /\ left = 0 /\ startPC = 0 /\ stalls = 0 /\ commands = 0
  /\ totalCycles = 0 /\ lastPC = 0 /\ prevPC = 0 /\ samePCCount = 0 /\ drainCycles = -1

(* A method in progress, and a client that continues, go on. *)
Goes == \/ StepEnded \/ StepBegins \/ StepClock
        \/ NextBatch \/ TurnAtBreakpoint \/ TurnEnded \/ TurnClock \/ BatchEnds

DNext == \/ Goes \/ StepCall \/ Continue \/ Pause
         \/ AddBreakpoint \/ RemoveBreakpoint \/ AddWatchpoint \/ RemoveWatchpoint
         \/ SetPC \/ EngineReset

(* The threads that run the methods are scheduled fairly. *)
DSpec == DInit /\ [][DNext]_dvars /\ WF_dvars(Goes)

-----------------------------------------------------------------------------
(* Properties. *)

Reasons == {"None", "Breakpoint", "Watchpoint", "Halted"}

(* The engine's own state has the types and ranges its loops rely on. *)
EngineTypeOK ==
  /\ breakpoints \subseteq Addresses /\ watchpoints \subseteq Addresses
  /\ accessLogEnabled \in BOOLEAN /\ accessLog \in Word \cup {NoAccess}
  /\ debugMode \in BOOLEAN /\ halted \in BOOLEAN /\ looping \in BOOLEAN
  /\ reason \in Reasons /\ mode \in {"free", "step", "clocking", "batch"}
  /\ left \in Nat /\ stalls \in 0 .. MAX_STALL_CYCLES /\ startPC \in Int
  /\ commands \in 0 .. MaxCommands /\ totalCycles \in Nat
  /\ lastPC \in Int /\ prevPC \in Int /\ samePCCount \in 0 .. 8 /\ drainCycles \in -1 .. 4

FirstTurn == left = BatchSize

(* README, debugger commands: "Breakpoints halt execution when the PC      *)
(* reaches the address": a batch never fetches the instruction at a        *)
(* breakpoint, save that at which it was standing when it began.           *)
FetchStep ==
  mode = "batch" /\ Clocked /\ ~Stalled /\ f2d'.pc \in breakpoints => FirstTurn

BreakpointsHalt == [][FetchStep]_dvars

(* What the engine does keep: the instruction at a breakpoint is not       *)
(* fetched in sequence, across batches and other clients' commands, unless *)
(* the batch began there, which with GDB attached it never does.           *)
SequentialFetchStep ==
  /\ mode = "batch" /\ Clocked /\ ~Stalled
  /\ f2d'.pc = pc /\ pc \in breakpoints
  => FirstTurn /\ ~debugMode

BreakpointsHaltSequence == [][SequentialFetchStep]_dvars

(* The engine does not go on to another instruction after an access to a   *)
(* watched address, whatever watchpoints came and went before.  The one    *)
(* gap: a clock in the middle of stepping an instruction that is stalled.  *)
WatchStep ==
  Clocked /\ MemAccessed /\ MemAddr(e2m) \in watchpoints =>
    \/ mode' = "free" /\ reason' \in {"Watchpoint", "Breakpoint"}
    \/ mode = "clocking" /\ pc' = pc

WatchedAccessStops == [][WatchStep]_dvars

(* A step moves the PC: no stall outlives MAX_STALL_CYCLES.  It is only    *)
(* where the program itself fetches an instruction again and again, a jump *)
(* to itself in its own delay slot or an EI at the vector, with the pin    *)
(* held, that a step ends where it began.                                  *)
Refetched ==
  /\ ~Stalled /\ FetchPC = f2d.pc
  /\ FlowCtl(f2d.ireg) # "none" \/ IsM4(f2d.ireg, EI)

MoveStep == mode = "clocking" /\ mode' # "clocking" => pc' # startPC \/ Refetched

StepsMove == [][MoveStep]_dvars

(* Without GDB a machine that was reported halted is not clocked again     *)
(* before it is reset.                                                     *)
StandStep == halted /\ ~debugMode => cycle' = cycle \/ ~halted'

HaltedStands == [][StandStep]_dvars

(* When the end of the program has been detected and drained, every        *)
(* instruction in flight belongs to the loop that ends it: what the        *)
(* program did before has reached registers and memory, and the stalls of  *)
(* a longer loop are not taken for its end.  (A loop of two instructions   *)
(* that does end is taken for it; the checked programs have none.)         *)
InLoop(l) == l.bubble \/ l.pc + 1 \in {lastPC, prevPC}

DrainedWhenHalted ==
  reason = "Halted" /\ Free /\ drainCycles = 0 =>
    InLoop(d2e) /\ InLoop(e2m) /\ InLoop(m2w)

(* A program that ends in a loop to itself does end a `continue`, also in  *)
(* the presence of other clients' commands.                                *)
ContinueEnds == looping ~> ~looping
=============================================================================
