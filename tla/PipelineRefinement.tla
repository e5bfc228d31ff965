------------------------- MODULE PipelineRefinement -------------------------
(***************************************************************************)
(* The pipeline implements the programmer's model ISA for software that    *)
(* keeps a scheduling discipline.                                          *)
(*                                                                         *)
(* An instruction counts as executed when it leaves the MEM stage: its     *)
(* store has been done by then, and everything else it will ever write is  *)
(* a function of the latch mem_to_wb.  The Z register alone is updated     *)
(* earlier, in EX, and the exception registers in several stages: they     *)
(* need history variables.  An interrupt is taken by the fetch, and counts *)
(* as taken when the instructions before it have been executed.            *)
(***************************************************************************)
EXTENDS Pipeline

CONSTANT Discipline   (* the scheduling rules that the software keeps *)

(* History variables: what the last executed instruction left. *)
VARIABLES
  zArch,     (* the Z register                                             *)
  excArch,   (* EPC, ECA and the interrupt enable                          *)
  cut        (* which of the instructions in EX and MEM is the last before *)
             (* an interrupt                                               *)

history == <<zArch, excArch, cut>>

Rules == {"loadUse", "link", "hiLo", "moveToHiLo", "branchInSlot", "exceptionRegs",
          "quietDecode"}

ASSUME DisciplineAssumption == Discipline \subseteq Rules

-----------------------------------------------------------------------------
(* The rules, each said of the instruction about to be decoded. *)

WritesHiLo(l) == l.ctl.hi # "noOp" \/ l.ctl.lo # "noOp"

ReadsHiLoInID(i) == i.op = OP_M1 /\ i.a \in {MFHI, MFLO, AIS, AIH, AIL}

(* A JAL in latch l forwards under the wrong register number, sel. *)
LinkClash(l, i) ==
  l.ctl.reg = "PC" /\ l.sel # LinkReg /\ Sources(i) \cap {LinkReg, l.sel} # {}

(* No use of a load's destination by the two instructions after the load.  *)
LoadUseRule == LoadUse => Stalled

(* No use of R15, or of the register that the top nibble of the JAL's      *)
(* offset happens to name, until the link has been written back.           *)
LinkRule ==
  /\ d2e.ctl.reg = "PC" => LinkReg \notin Sources(f2d.ireg)
  /\ ~Stalled => ~LinkClash(e2m, f2d.ireg) /\ ~LinkClash(m2w, f2d.ireg)

(* Three instructions between a writer of HI or LO and a reader, two       *)
(* before a BHLEQ.                                                         *)
HiLoRule ==
  /\ ~Stalled /\ ReadsHiLoInID(f2d.ireg)
        => ~WritesHiLo(d2e) /\ ~WritesHiLo(e2m) /\ ~WritesHiLo(m2w)
  /\ f2d.ireg.op = OP_BHLEQ => ~WritesHiLo(d2e) /\ ~WritesHiLo(e2m)

(* Three instructions between the writer of a register and MTHI or MTLO.   *)
MoveToHiLoRule ==
  ~Stalled /\ (IsM1(f2d.ireg, MTHI) \/ IsM1(f2d.ireg, MTLO))
    => ~FwdFromEX(RegA(f2d.ireg)) /\ ~FwdFromMEM(RegA(f2d.ireg))

(* No conditional branch in a delay slot. *)
BranchInSlotRule ==
  Ctl(f2d.ireg).flow \in {"bz", "bhleq"} => d2e.ctl.flow = "none"

(* No use of EPC and ECA that an interrupt or a SYSCALL can meet, and no   *)
(* transfer between an MTEPC and what waits for it.                        *)
ExceptionRegsRule ==
  /\ IntTaken \/ SyscallTaken => "mtepc" \notin {d2e.ctl.exc, e2m.ctl.exc, m2w.ctl.exc}
  /\ IntTaken => d2e.ctl.exc = "none" /\ Ctl(f2d.ireg).exc = "none"
  /\ EpcHazard => d2e.ctl.flow = "none"

(* No interrupt while a transfer, an EI or a DI is being decoded.  That is *)
(* not in the hands of the software: the core looks at EX only.            *)
QuietDecodeRule ==
  IntTaken => /\ Ctl(f2d.ireg).flow = "none"
              /\ ~IsM4(f2d.ireg, EI) /\ ~IsM4(f2d.ireg, DI)

Scheduled ==
  /\ "loadUse"      \in Discipline => LoadUseRule
  /\ "link"         \in Discipline => LinkRule
  /\ "hiLo"         \in Discipline => HiLoRule
  /\ "moveToHiLo"   \in Discipline => MoveToHiLoRule
  /\ "branchInSlot" \in Discipline => BranchInSlotRule
  /\ "exceptionRegs" \in Discipline => ExceptionRegsRule
  /\ "quietDecode"  \in Discipline => QuietDecodeRule

-----------------------------------------------------------------------------
RInit ==
  /\ Init
  /\ zArch = TRUE
  /\ excArch = [epc |-> 0, eca |-> 0, ien |-> FALSE]
  /\ cut = [ex |-> FALSE, mem |-> FALSE]

(* The exception registers after instruction l, in the order of execution. *)
ExceptionState(l) ==
  CASE l.ctl.flow = "syscall" ->
         [epc |-> (l.pc + 2) % WordSize, eca |-> 256 + Byte(l.ireg), ien |-> FALSE]
    [] l.ctl.flow = "reti" \/ IsM4(l.ireg, EI) -> [excArch EXCEPT !.ien = TRUE]
    [] IsM4(l.ireg, DI)      -> [excArch EXCEPT !.ien = FALSE]
    [] l.ctl.exc = "mtepc"   -> [excArch EXCEPT !.epc = l.alu.value]
    [] OTHER                 -> excArch

ExceptionsNext ==
  CASE e2m.bubble -> excArch
    [] ~e2m.bubble /\ cut.mem ->
         [epc |-> (e2m.pc + 1) % WordSize, eca |-> 255, ien |-> FALSE]
    [] OTHER -> ExceptionState(e2m)

RNext ==
  /\ Scheduled
  /\ Clock
  /\ zArch' = IF e2m.bubble THEN zArch ELSE zFlag
  /\ excArch' = ExceptionsNext
  /\ cut' = [ex |-> IntTaken, mem |-> cut.ex]

RSpec == RInit /\ [][RNext]_<<vars, history>>

-----------------------------------------------------------------------------
(* The instructions in EX and in MEM; in the first clocks the dummy NOP    *)
(* that reset left in f2d is still under way and does not count.           *)
InEX  == cycle >= 2 /\ ~d2e.bubble
InMEM == cycle >= 3 /\ ~e2m.bubble

(* The instruction to execute next is the oldest one in flight.  After it  *)
(* comes the next oldest, unless an interrupt comes between the two: that  *)
(* has not happened yet, and the program seems to go on.                   *)
Current == IF InMEM THEN e2m.pc ELSE IF InEX THEN d2e.pc ELSE f2d.pc

Following ==
  CASE InMEM /\ ~cut.mem           -> IF InEX THEN d2e.pc ELSE f2d.pc
    [] ~InMEM /\ InEX /\ ~cut.ex   -> f2d.pc
    [] OTHER                       -> Current + 1

Abs == INSTANCE ISA WITH
         pc <- Current, npc <- Following,
         regs <- WrittenRegs(m2w), sp <- WrittenSP(m2w),
         hi <- WrittenHi(m2w), lo <- WrittenLo(m2w),
         zFlag <- zArch,
         epc <- excArch.epc, eca <- excArch.eca, ien <- excArch.ien

(* Every clock either executes exactly the next instruction of the         *)
(* program, with the result the programmer's model gives it, or nothing;   *)
(* and an interrupt falls between two instructions that are both executed  *)
(* as if it had not come.                                                  *)
ImplementsISA == Abs!Spec
=============================================================================
