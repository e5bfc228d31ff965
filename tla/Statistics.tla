----------------------------- MODULE Statistics -----------------------------
(***************************************************************************)
(* The counters of the core (stats.h, and where cpu.cpp counts): what the  *)
(* command `stats` and option -s report.  They are incremented in several  *)
(* places of a clock, some of which run whether or not the instruction     *)
(* they meet gets anywhere, and cleared one by one by a reset.             *)
(***************************************************************************)
EXTENDS PipelineReset

VARIABLES
  mix,              (* instructionCountByOpcode                            *)
  stalls, bubbles,  (* stallCount, bubbleCount                             *)
  fwdAlu, fwdMem,   (* fwdAluAluCount, fwdMemAluCount                      *)
  retired           (* history: instructions that were written back        *)

counters == <<mix, stalls, bubbles, fwdAlu, fwdMem, retired>>

Count(cond) == IF cond THEN 1 ELSE 0

(* clockCycle counts a stall where it detects a hazard, and p_fetch counts *)
(* it again; a load stall is counted by p_fetch alone, one clock later.    *)
StallsCounted == Count(Stalled) + Count(Stalled /\ stallCtr = 0)

(* p_decode counts for every operand, of a stalled instruction too.        *)
AluForwards == Count(FwdFromEX(RegA(f2d.ireg))) + Count(FwdFromEX(RegB(f2d.ireg)))

MemForwards ==
  LET one(r) == Count(~FwdFromEX(r) /\ FwdFromMEM(r))
  IN  one(RegA(f2d.ireg)) + one(RegB(f2d.ireg))

CountedClock ==
  /\ Clock /\ UNCHANGED resets
  /\ mix' = [mix EXCEPT ![f2d.ireg.op] = @ + 1]
  /\ stalls' = stalls + StallsCounted
  /\ bubbles' = bubbles + Count(Stalled \/ LoadUse)
  /\ fwdAlu' = fwdAlu + AluForwards
  /\ fwdMem' = fwdMem + MemForwards
  /\ retired' = retired + Count(~m2w.bubble)

NoCounts == [o \in Nibble |-> 0]

KeptBubbles ==                          \* mutant: one counter is forgotten
  /\ Reset
  /\ mix' = NoCounts /\ stalls' = 0 /\ fwdAlu' = 0 /\ fwdMem' = 0 /\ retired' = 0
  /\ UNCHANGED bubbles

CountedReset ==
  /\ Reset
  /\ mix' = NoCounts /\ stalls' = 0 /\ bubbles' = 0
  /\ fwdAlu' = 0 /\ fwdMem' = 0 /\ retired' = 0

CInit ==
  /\ SInit
  /\ mix = NoCounts /\ stalls = 0 /\ bubbles = 0 /\ fwdAlu = 0 /\ fwdMem = 0 /\ retired = 0

-----------------------------------------------------------------------------
(* Properties. *)

InFlight == Count(~d2e.bubble) + Count(~e2m.bubble) + Count(~m2w.bubble)

(* The counters account for the time since the last reset: every clock has *)
(* been spent either on a bubble that was counted or on an instruction     *)
(* that has been written back or is on its way, whatever was in the        *)
(* pipeline when the core was reset.                                       *)
TimeIsAccountedFor == cycle = bubbles + retired + InFlight

(* stats.cpp:72 reports the counter as "Stall cycles": there are no more   *)
(* of them than clocks in which an instruction was held back, and each of  *)
(* those puts a bubble into the pipeline.                                  *)
StallCyclesAreCycles == stalls <= bubbles
=============================================================================
