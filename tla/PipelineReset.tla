--------------------------- MODULE PipelineReset ----------------------------
(***************************************************************************)
(* The core in a debugging session, which may reset it between any two     *)
(* clocks (the command `reset` of the REPL and of the servers).  A reset   *)
(* on a running machine meets latches that are not empty.                  *)
(***************************************************************************)
EXTENDS Pipeline

CONSTANT MaxResets      (* bound: resets in a session *)

ASSUME ResetAssumption == MaxResets \in Nat

VARIABLE resets

(***************************************************************************)
(* ANEMCPU::reset quiets what the reg, sp and exc controls of a latch      *)
(* would do.  It leaves the memory enables and the HI/LO controls alone,   *)
(* and HI and LO themselves.                                               *)
(***************************************************************************)
HalfQuieted(l) == [l EXCEPT !.bubble = TRUE, !.ctl.reg = "NOP",   \* mutant: SP forgotten
                            !.ctl.exc = "none"]

Quieted(l) == [l EXCEPT !.bubble = TRUE, !.ctl.reg = "NOP", !.ctl.sp = "none",
                        !.ctl.exc = "none"]

(* Of the latch into EX also the ALU control and the SYSCALL and RETI      *)
(* flags; the jump and branch flags and their targets stay.                *)
QuietedD2E ==
  [Quieted(d2e) EXCEPT !.ctl.alu = "NOP",
                       !.ctl.flow = IF @ \in {"syscall", "reti"} THEN "none" ELSE @]

Reset ==
  /\ resets < MaxResets /\ resets' = resets + 1
  /\ cycle' = 0
  /\ pc' = 0 /\ f2d' = [ireg |-> NOP, pc |-> 0]
  /\ dmem' = [n \in DOMAIN dmem \cap {DMemSize} |-> dmem[n]]
  /\ regs' = [r \in Reg |-> 0] /\ sp' = ResetSP
  /\ zFlag' = FALSE /\ epc' = 0 /\ eca' = 0 /\ ien' = FALSE /\ intPin' = FALSE
  /\ d2e' = QuietedD2E /\ e2m' = Quieted(e2m) /\ m2w' = Quieted(m2w)
  /\ stallCtr' = 0
  /\ UNCHANGED <<prog, hi, lo>>

SInit == Init /\ resets = 0
SNext == (Clock /\ UNCHANGED resets) \/ Reset
SSpec == SInit /\ [][SNext]_<<vars, resets>>

-----------------------------------------------------------------------------
(* Properties.  cycle counts from the last reset; the first instruction    *)
(* fetched after it reaches EX in the third clock and writeback in the     *)
(* fifth.                                                                  *)

Clocked == cycle' = cycle + 1

(* No instruction that was in flight when the core was reset writes a      *)
(* general register or SP, redirects EPC or sets the Z register in the     *)
(* clocks before the first new instruction (for Z, the dummy NOP) could.   *)
StaleResultStep ==
  Clock => /\ cycle < 4 => UNCHANGED <<regs, sp>>
           /\ cycle < 2 => UNCHANGED <<epc, eca>>
           /\ cycle < 1 => UNCHANGED <<zFlag, ien>>

NoStaleResults == [][StaleResultStep]_<<vars, resets>>

(* README, debugger commands: "Reset CPU (PC = 0, ...)": the first         *)
(* instruction fetched after a reset is the one at 0.                      *)
StartStep == Clocked /\ cycle = 0 => f2d'.pc = 0

ResetStartsAtZero == [][StartStep]_<<vars, resets>>
=============================================================================
