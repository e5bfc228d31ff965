-------------------------- MODULE RefinementProofs --------------------------
(***************************************************************************)
(* The proof that the pipeline implements the programmer's model for every *)
(* program that keeps the scheduling rules, with any data memory and any   *)
(* behaviour of the interrupt pin.  The invariant says what each latch     *)
(* holds in terms of the architectural state: the operands of the          *)
(* instruction in EX, the results of the one in MEM, the addresses of      *)
(* those behind them, and what the history variables have to do with the   *)
(* registers that are written ahead of the order of execution.             *)
(***************************************************************************)
EXTENDS PipelineRefinement, PipelineProofs

-----------------------------------------------------------------------------
(* The architectural state without the instruction in MEM, which is what   *)
(* ISA sees, and with it.                                                  *)
Regs1 == WrittenRegs(m2w)
SP1   == WrittenSP(m2w)
Hi1   == WrittenHi(m2w)
Lo1   == WrittenLo(m2w)

Regs2 == IF e2m.ctl.reg = "NOP" THEN Regs1
         ELSE RWrite(Regs1, Dest(e2m), WriteValue(e2m, Loaded(e2m)))
SP2   == IF WritesSP(e2m.ctl) THEN e2m.spNew ELSE SP1

-----------------------------------------------------------------------------
(* The parts of the invariant. *)

(* A latch carries the controls of its instruction, a bubble none.         *)
Honest(l) == /\ l.ctl = IF l.bubble THEN NopCtl ELSE Ctl(l.ireg)
             /\ l.sel = RegA(l.ireg)

LatchesAreHonest == Honest(d2e) /\ Honest(e2m) /\ Honest(m2w)

Idle(l) == l.bubble \/ l.ireg = NOP

Startup ==
  /\ cycle < 1 => f2d.ireg = NOP /\ f2d.pc = 0 /\ pc = 0 /\ d2e.bubble /\ ~(stallCtr > 0)
  /\ cycle = 1 => ~d2e.bubble
  /\ cycle < 2 => Idle(d2e) /\ e2m.bubble /\ ~ien
  /\ cycle < 3 => Idle(e2m) /\ zArch /\ ~cut.ex
  /\ cycle < 4 => ~cut.mem

Fetched ==
  /\ cycle >= 1 => pc = f2d.pc + 1 /\ f2d.ireg = FetchWord(prog, f2d.pc)
  /\ InEX  => d2e.ireg = FetchWord(prog, d2e.pc)
  /\ InMEM => e2m.ireg = FetchWord(prog, e2m.pc)

(* EI and DI are decoded in one clock. *)
Toggles(i) == IsM4(i, EI) \/ IsM4(i, DI)

TogglesAtOnce == Toggles(f2d.ireg) => ~(stallCtr > 0)

(* The instruction in EX holds what it will read: the architectural state  *)
(* that the instruction in MEM leaves.                                     *)
OperandsOf(d) ==
  /\ ReadsA(d.ireg) => d.opA = RRead(Regs2, RegA(d.ireg))
  /\ ReadsB(d.ireg) => d.opB = RRead(Regs2, RegB(d.ireg))
  /\ IsM1(d.ireg, MTHI) \/ IsM1(d.ireg, MTLO) => d.regaOut = d.opA
  /\ d.ctl.sp # "none" => d.spVal = SP2
  /\ ReadsHiLoInID(d.ireg) =>
       d.hiOut = hi /\ d.loOut = lo /\ ~WritesHiLo(e2m) /\ ~WritesHiLo(m2w)
  /\ d.ctl.flow = "bhleq" => ~WritesHiLo(e2m) /\ ~WritesHiLo(m2w)
  /\ d.ctl.exc = "mfepc" => e2m.ctl.exc # "mtepc" /\ m2w.ctl.exc # "mtepc"
  /\ d.ctl.flow = "j"  => d.jDest = d.pc + 1 + SignExt12(Address(d.ireg))
  /\ d.ctl.flow = "jr" => d.jDest = d.opA
  /\ d.ctl.flow \in {"bz", "bhleq"} => e2m.ctl.flow = "none"

OperandsInEX == ~d2e.bubble => OperandsOf(d2e)

(* The instruction in MEM holds what the programmer's model computes. *)
ResultsOf(e) ==
  LET i == e.ireg
      x == RRead(Regs1, RegA(i))
      y == RRead(Regs1, RegB(i))
  IN
  /\ i.op = OP_R => /\ e.alu.value = AluR(i.f, x, y) % WordSize
                    /\ i.f = F_MUL => e.alu.hi = MulHigh(x, y)
  /\ i.op = OP_S => e.alu.value = AluS(i.f, x, i.b) % WordSize
  /\ i.op = OP_ADDI => e.alu.value = (x + SignExt8(Byte(i))) % WordSize
  /\ i.op \in {OP_LW, OP_SW} => e.alu.value = (y + i.f) % WordSize
  /\ IsM1(i, LPM) => e.alu.value = y
  /\ IsStack(i, SPRD) => e.alu.value = SP1
  /\ IsM4(i, MFEPC) => e.alu.value = excArch.epc
  /\ IsM4(i, MFECA) => e.alu.value = excArch.eca
  /\ IsM4(i, MTEPC) => e.alu.value = x
  /\ IsStack(i, PUSH) => e.spNew = (SP1 - 1) % WordSize /\ e.spAddr = e.spNew
  /\ IsStack(i, POP) => e.spNew = (SP1 + 1) % WordSize /\ e.spAddr = SP1
  /\ IsStack(i, SPWR) => e.spNew = x
  /\ \/ i.op = OP_SW \/ IsStack(i, PUSH) \/ IsM1(i, MTHI) \/ IsM1(i, MTLO)
     \/ i.op \in {OP_LIL, OP_LIU} /\ i.a # 0
     => e.regaOut = x
  /\ ReadsHiLoInID(i) => e.hiOut = Hi1 /\ e.loOut = Lo1

ResultsInMEM == ~e2m.bubble => ResultsOf(e2m)

ZeroFlag ==
  cycle >= 2 =>
    zFlag = IF ~e2m.bubble /\ e2m.ctl.alu \in {"R", "S"} THEN e2m.alu.value = 0 ELSE zArch

(* Where the instruction in MEM sends the program, if anywhere. *)
Taken ==
  CASE e2m.ctl.flow = "none"  -> FALSE
    [] e2m.ctl.flow = "bz"    -> IF e2m.ireg.op = OP_BZ_N THEN ~zArch ELSE zArch
    [] e2m.ctl.flow = "bhleq" -> Hi1 = Lo1
    [] OTHER -> TRUE

Target ==
  CASE e2m.ctl.flow = "j"       -> e2m.pc + 1 + SignExt12(Address(e2m.ireg))
    [] e2m.ctl.flow = "jr"      -> RRead(Regs1, RegA(e2m.ireg))
    [] e2m.ctl.flow = "reti"    -> excArch.epc
    [] e2m.ctl.flow = "syscall" -> EXC_VECTOR
    [] OTHER                    -> e2m.pc + 2 + SignExt12(Address(e2m.ireg))

Quiet(l) == l.ctl.flow = "none" /\ l.ctl.exc = "none" /\ ~Toggles(l.ireg)

(* The instruction behind the delay slot is the one the transfer names; an *)
(* interrupt is followed by its handler.                                   *)
Sequence ==
  /\ Taken => InEX /\ f2d.pc = Target /\ ~cut.ex
  /\ ~Taken /\ InEX /\ ~cut.ex => f2d.pc = d2e.pc + 1
  /\ cut.ex  => InEX  /\ Quiet(d2e) /\ f2d.pc = EXC_VECTOR /\ ~cut.mem
  /\ cut.mem => InMEM /\ Quiet(e2m) /\ EXC_VECTOR = IF InEX THEN d2e.pc ELSE f2d.pc

(* Interrupt enable: set in ID and by the fetch. *)
IenAfterEX ==
  CASE d2e.bubble          -> ExceptionsNext.ien
    [] ~d2e.bubble /\ cut.ex -> FALSE
    [] ~d2e.bubble /\ ~cut.ex /\ IsM4(d2e.ireg, EI) -> TRUE
    [] ~d2e.bubble /\ ~cut.ex /\ IsM4(d2e.ireg, DI) -> FALSE
    [] OTHER               -> ExceptionsNext.ien

Enabled ==
  /\ ien = IenAfterEX
  /\ cut.ex  => ExceptionsNext.ien
  /\ cut.mem => excArch.ien

(* EPC and ECA: set by the fetch, and EPC in WB. *)
Saved ==
  /\ cut.ex => /\ epc = (d2e.pc + 1) % WordSize /\ eca = 255
               /\ e2m.ctl.exc # "mtepc" /\ m2w.ctl.exc # "mtepc"
  /\ cut.mem => m2w.ctl.exc # "mtepc"
  /\ e2m.ctl.flow = "syscall" => m2w.ctl.exc # "mtepc"
  /\ ~cut.ex => eca = ExceptionsNext.eca
  /\ ~cut.ex /\ e2m.ctl.exc # "mtepc" /\ m2w.ctl.exc # "mtepc" => epc = ExceptionsNext.epc
  /\ m2w.ctl.exc = "mtepc" => excArch.epc = m2w.alu.value

HistoryType ==
  /\ zArch \in BOOLEAN
  /\ excArch \in [epc : Word, eca : Word, ien : BOOLEAN]
  /\ cut \in [ex : BOOLEAN, mem : BOOLEAN]

SimInv ==
  /\ ControlInv /\ HistoryType
  /\ LatchesAreHonest /\ Startup /\ Fetched /\ TogglesAtOnce
  /\ OperandsInEX /\ ResultsInMEM /\ ZeroFlag /\ Sequence /\ Enabled /\ Saved
-----------------------------------------------------------------------------
(* The decoder, class by class. *)

Controls(i, reg, alu, mem, stack, h, l, exc, flow) ==
  /\ RegCtl(i) = reg /\ AluCtl(i) = alu /\ MemCtl(i) = mem /\ SpCtl(i) = stack
  /\ HiCtl(i) = h /\ LoCtl(i) = l /\ ExcCtl(i) = exc /\ FlowCtl(i) = flow

(* An instruction that only writes a general register and the Z register.  *)
Simply(i, reg, alu, mem) ==
  Controls(i, reg, alu, mem, "none", "noOp", "noOp", "none", "none")

LEMMA FieldsOfCtl ==
  ASSUME NEW i
  PROVE  /\ Ctl(i).reg = (IF WritesReg(i) THEN RegCtl(i) ELSE "NOP")
         /\ Ctl(i).alu = AluCtl(i) /\ Ctl(i).mem = MemCtl(i) /\ Ctl(i).sp = SpCtl(i)
         /\ Ctl(i).hi = HiCtl(i) /\ Ctl(i).lo = LoCtl(i)
         /\ Ctl(i).exc = ExcCtl(i) /\ Ctl(i).flow = FlowCtl(i)
BY DEF Ctl

LEMMA DecodeArithmetic ==
  ASSUME NEW i \in Instr
  PROVE  /\ i.op = OP_R => LET m == IF i.f = F_MUL THEN "mul" ELSE "noOp"
                           IN  Controls(i, "ALU", "R", "none", "none", m, m, "none", "none")
         /\ i.op = OP_S    => Simply(i, "ALU", "S", "none")
         /\ i.op = OP_ADDI => Simply(i, "ALU", "R", "none")
         /\ i.op = OP_LIL  => Simply(i, "byteLower", "NOP", "none")
         /\ i.op = OP_LIU  => Simply(i, "byteUpper", "NOP", "none")
         /\ i.op = OP_LW   => Simply(i, "MEM", "OFFSET", "read")
         /\ i.op = OP_SW   => Simply(i, "NOP", "OFFSET", "write")
BY DEF Simply, Controls, RegCtl, AluCtl, MemCtl, SpCtl, HiCtl, LoCtl, ExcCtl, FlowCtl, IsM1, IsM4,
       IsStack, OP_R, OP_S, OP_SW, OP_LW, OP_LIU, OP_LIL, OP_BHLEQ, OP_STACK, OP_BZ, OP_BZ_T,
       OP_BZ_N, OP_ADDI, OP_JR, OP_JAL, OP_M1, OP_J

LEMMA DecodeStack ==
  ASSUME NEW i \in Instr, i.op = OP_STACK
  PROVE  /\ i.f = PUSH =>
              Controls(i, "NOP", "NOP", "write", "push", "noOp", "noOp", "none", "none")
         /\ i.f = POP =>
              Controls(i, "MEM", "NOP", "read", "pop", "noOp", "noOp", "none", "none")
         /\ i.f = SPRD =>
              Controls(i, "ALU", "R", "none", "read", "noOp", "noOp", "none", "none")
         /\ i.f = SPWR =>
              Controls(i, "NOP", "NOP", "none", "write", "noOp", "noOp", "none", "none")
         /\ i.f \notin {PUSH, POP, SPRD, SPWR} => Simply(i, "NOP", "NOP", "none")
BY DEF Simply, Controls, RegCtl, AluCtl, MemCtl, SpCtl, HiCtl, LoCtl, ExcCtl, FlowCtl, IsM1, IsM4,
       IsStack, OP_R, OP_S, OP_SW, OP_LW, OP_LIU, OP_LIL, OP_BHLEQ, OP_STACK, OP_BZ, OP_BZ_T,
       OP_BZ_N, OP_ADDI, OP_JR, OP_JAL, OP_M1, OP_J, PUSH, POP, SPRD, SPWR

(* A transfer of control. *)
Moves(i, reg, alu, flow) ==
  Controls(i, reg, alu, "none", "none", "noOp", "noOp", "none", flow)

LEMMA DecodeTransfer ==
  ASSUME NEW i \in Instr
  PROVE  /\ i.op = OP_J     => Moves(i, "NOP", "REL", "j")
         /\ i.op = OP_JAL   => Moves(i, "PC", "NOP", "j")
         /\ i.op = OP_JR    => Moves(i, "NOP", "NOP", "jr")
         /\ i.op = OP_BHLEQ => Moves(i, "NOP", "NOP", "bhleq")
         /\ i.op \in {OP_BZ, OP_BZ_T, OP_BZ_N} => Moves(i, "NOP", "NOP", "bz")
BY DEF Moves, Controls, RegCtl, AluCtl, MemCtl, SpCtl, HiCtl, LoCtl, ExcCtl, FlowCtl, IsM1, IsM4,
       IsStack, OP_R, OP_S, OP_SW, OP_LW, OP_LIU, OP_LIL, OP_BHLEQ, OP_STACK, OP_BZ, OP_BZ_T,
       OP_BZ_N, OP_ADDI, OP_JR, OP_JAL, OP_M1, OP_J

(* An instruction that works on HI and LO. *)
Halves(i, h, l) ==
  Controls(i, "NOP", "NOP", "none", "none", h, l, "none", "none")

LEMMA DecodeM1 ==
  ASSUME NEW i \in Instr, i.op = OP_M1
  PROVE  /\ i.a = LHL  => Halves(i, "lower", "noOp")
         /\ i.a = LHH  => Halves(i, "upper", "noOp")
         /\ i.a = LLL  => Halves(i, "noOp", "lower")
         /\ i.a = LLH  => Halves(i, "noOp", "upper")
         /\ i.a = AIS  => Halves(i, "AIS", "AIS")
         /\ i.a = AIH  => Halves(i, "add", "noOp")
         /\ i.a = AIL  => Halves(i, "noOp", "add")
         /\ i.a = MTHI => Halves(i, "reg", "noOp")
         /\ i.a = MTLO => Halves(i, "noOp", "reg")
         /\ i.a = MFHI => Simply(i, "HI", "NOP", "none")
         /\ i.a = MFLO => Simply(i, "LO", "NOP", "none")
         /\ i.a = LPM  => Simply(i, "MEM", "OFFSET", "lpm")
         /\ i.a > LPM  => Simply(i, "NOP", "NOP", "none")
         /\ i.a = SYSCALL => Moves(i, "NOP", "NOP", "syscall")
BY DEF Simply, Moves, Halves, Controls, RegCtl, AluCtl, MemCtl, SpCtl, HiCtl, LoCtl, ExcCtl, FlowCtl,
       IsM1, IsM4, IsStack, OP_R, OP_S, OP_SW, OP_LW, OP_LIU, OP_LIL, OP_BHLEQ, OP_STACK, OP_BZ,
       OP_BZ_T, OP_BZ_N, OP_ADDI, OP_JR, OP_JAL, OP_M1, OP_J, LHL, LHH, LLL, LLH, AIS, AIH, AIL,
       MFHI, MFLO, MTHI, MTLO, SYSCALL, M4, LPM, Instr, Nibble

LEMMA DecodeM4 ==
  ASSUME NEW i \in Instr, IsM1(i, M4)
  PROVE  /\ i.b = RETI => Moves(i, "NOP", "NOP", "reti")
         /\ i.b \in {EI, DI} \/ i.b > MTEPC => Simply(i, "NOP", "NOP", "none")
         /\ i.b = MFEPC =>
              Controls(i, "ALU", "R", "none", "none", "noOp", "noOp", "mfepc", "none")
         /\ i.b = MFECA =>
              Controls(i, "ALU", "R", "none", "none", "noOp", "noOp", "mfeca", "none")
         /\ i.b = MTEPC =>
              Controls(i, "NOP", "R", "none", "none", "noOp", "noOp", "mtepc", "none")
BY DEF Simply, Moves, Controls, RegCtl, AluCtl, MemCtl, SpCtl, HiCtl, LoCtl, ExcCtl, FlowCtl,
       IsM1, IsM4, IsStack, OP_R, OP_S, OP_SW, OP_LW, OP_LIU, OP_LIL, OP_BHLEQ, OP_STACK, OP_BZ,
       OP_BZ_T, OP_BZ_N, OP_ADDI, OP_JR, OP_JAL, OP_M1, OP_J, LHL, LHH, LLL, LLH, AIS, AIH, AIL,
       MFHI, MFLO, MTHI, MTLO, SYSCALL, M4, LPM, RETI, EI, DI, MFEPC, MFECA, MTEPC, Instr, Nibble

(* Every word is an instruction of one of the classes. *)
LEMMA Classes ==
  ASSUME NEW i \in Instr
  PROVE  \/ i.op \in {OP_R, OP_S, OP_ADDI, OP_LIL, OP_LIU, OP_LW, OP_SW}
         \/ i.op \in {OP_J, OP_JAL, OP_JR, OP_BHLEQ, OP_BZ, OP_BZ_T, OP_BZ_N}
         \/ i.op = OP_STACK
         \/ i.op = OP_M1
BY DEF Instr, Nibble, OP_R, OP_S, OP_SW, OP_LW, OP_LIU, OP_LIL, OP_BHLEQ, OP_STACK, OP_BZ,
       OP_BZ_T, OP_BZ_N, OP_ADDI, OP_JR, OP_JAL, OP_M1, OP_J

LEMMA ClassesOfM1 ==
  ASSUME NEW i \in Instr
  PROVE  \/ i.a \in {LHL, LHH, LLL, LLH, AIS, AIH, AIL}
         \/ i.a \in {MTHI, MTLO, MFHI, MFLO}
         \/ i.a = LPM \/ i.a > LPM \/ i.a = SYSCALL \/ i.a = M4
BY DEF Instr, Nibble, LHL, LHH, LLL, LLH, AIS, AIH, AIL, MFHI, MFLO, MTHI, MTLO, SYSCALL, M4, LPM

LEMMA ClassesOfM4 ==
  ASSUME NEW i \in Instr
  PROVE  i.b \in {RETI, EI, DI, MFEPC, MFECA, MTEPC} \/ i.b > MTEPC
BY DEF Instr, Nibble, RETI, EI, DI, MFEPC, MFECA, MTEPC

(* A transfer writes no register, except JAL. *)
LEMMA TransferWrites ==
  ASSUME NEW i \in Instr, Ctl(i).flow # "none"
  PROVE  Ctl(i).reg \in {"NOP", "PC"} /\ Ctl(i).exc = "none" /\ ~Toggles(i)
<1>1. FlowCtl(i) # "none"
  BY FieldsOfCtl
<1>2. i.op \in {OP_J, OP_JAL, OP_JR, OP_BHLEQ, OP_BZ, OP_BZ_T, OP_BZ_N}
      \/ IsM1(i, SYSCALL) \/ IsM4(i, RETI)
  BY <1>1 DEF FlowCtl
<1> QED
  BY <1>2, FieldsOfCtl
  DEF RegCtl, ExcCtl, Toggles, IsM1, IsM4, IsStack, OP_R, OP_S, OP_LW, OP_LIU, OP_LIL,
      OP_BHLEQ, OP_STACK, OP_BZ, OP_BZ_T, OP_BZ_N, OP_ADDI, OP_JR, OP_JAL, OP_M1, OP_J,
      MFHI, MFLO, SYSCALL, M4, LPM, RETI, EI, DI, MFEPC, MFECA, MTEPC

-----------------------------------------------------------------------------
(* What one clock of a program that keeps the rules does. *)

Kept == /\ LoadUseRule /\ LinkRule /\ HiLoRule /\ MoveToHiLoRule
        /\ BranchInSlotRule /\ ExceptionRegsRule /\ QuietDecodeRule

LEMMA RulesAreKept == Discipline = Rules /\ Scheduled => Kept
BY DEF Scheduled, Rules, Kept

LEMMA LatchesMove ==
  ASSUME Clock
  PROVE  /\ d2e'.pc = f2d.pc /\ d2e'.ireg = f2d.ireg /\ d2e'.sel = RegA(f2d.ireg)
         /\ d2e'.bubble = (Stalled \/ LoadUse)
         /\ d2e'.ctl = (IF Stalled \/ LoadUse THEN NopCtl ELSE Ctl(f2d.ireg))
         /\ d2e'.regaOut = RRead(regs, RegA(f2d.ireg))
         /\ d2e'.opA = Forwarded(RegA(f2d.ireg)) /\ d2e'.opB = Forwarded(RegB(f2d.ireg))
         /\ d2e'.hiOut = hi /\ d2e'.loOut = lo
         /\ d2e'.spVal = (IF Ctl(f2d.ireg).sp = "none" THEN 0 ELSE ForwardedSP)
         /\ d2e'.jDest = JumpDest(f2d.ireg, Ctl(f2d.ireg))
<1>1. d2e' = Decoded(Stalled \/ LoadUse)
  BY DEF Clock
<1>2. \A b : HandedCtl(b, Ctl(f2d.ireg)) = IF b THEN NopCtl ELSE Ctl(f2d.ireg)
  BY DEF HandedCtl
<1> HIDE DEF HandedCtl, Ctl, Forwarded, ForwardedSP, JumpDest, Stalled, LoadUse
<1> QED BY <1>1, <1>2 DEF Decoded

LEMMA LaterLatchesMove ==
  ASSUME Clock
  PROVE  /\ e2m'.pc = d2e.pc /\ e2m'.ireg = d2e.ireg /\ e2m'.sel = d2e.sel
         /\ e2m'.bubble = d2e.bubble /\ e2m'.ctl = d2e.ctl
         /\ e2m'.regaOut = (IF CarriesOpA(d2e.ctl) THEN d2e.opA ELSE d2e.regaOut)
         /\ e2m'.alu = AluOut(d2e)
         /\ e2m'.hiOut = d2e.hiOut /\ e2m'.loOut = d2e.loOut
         /\ e2m'.spNew = SPAdder(d2e)
         /\ e2m'.spAddr = (IF d2e.ctl.sp = "push" THEN SPAdder(d2e) ELSE d2e.spVal)
         /\ m2w'.pc = e2m.pc /\ m2w'.ireg = e2m.ireg /\ m2w'.sel = e2m.sel
         /\ m2w'.bubble = e2m.bubble /\ m2w'.ctl = e2m.ctl
         /\ m2w'.regaOut = e2m.regaOut /\ m2w'.alu = e2m.alu /\ m2w'.memOut = Loaded(e2m)
         /\ m2w'.hiOut = e2m.hiOut /\ m2w'.loOut = e2m.loOut /\ m2w'.spNew = e2m.spNew
<1>1. e2m' = Executed(d2e) /\ m2w' = Accessed(e2m)
  BY DEF Clock
<1> QED BY <1>1 DEF Executed, Accessed

(* The architectural state moves by one instruction. *)
LEMMA StateMoves ==
  ASSUME Clock
  PROVE  /\ Regs1' = Regs2 /\ SP1' = SP2
         /\ e2m.ctl.hi = "noOp" /\ e2m.ctl.lo = "noOp" => Hi1' = Hi1 /\ Lo1' = Lo1
<1>1. /\ m2w'.pc = e2m.pc /\ m2w'.ireg = e2m.ireg /\ m2w'.sel = e2m.sel
      /\ m2w'.bubble = e2m.bubble /\ m2w'.ctl = e2m.ctl
      /\ m2w'.regaOut = e2m.regaOut /\ m2w'.alu = e2m.alu /\ m2w'.memOut = Loaded(e2m)
      /\ m2w'.hiOut = e2m.hiOut /\ m2w'.loOut = e2m.loOut /\ m2w'.spNew = e2m.spNew
  BY LaterLatchesMove
<1>2. regs' = Regs1 /\ sp' = SP1 /\ hi' = Hi1 /\ lo' = Lo1
  BY DEF Clock, Regs1, SP1, Hi1, Lo1
<1>3. WriteValue(m2w, m2w.memOut)' = WriteValue(e2m, Loaded(e2m))
  BY <1>1 DEF WriteValue
<1>4. Dest(m2w)' = Dest(e2m)
  BY <1>1 DEF Dest
<1>5. Regs1' = Regs2
  <2>1. Regs1' = IF m2w'.ctl.reg = "NOP" THEN regs'
                 ELSE RWrite(regs', Dest(m2w)', WriteValue(m2w, m2w.memOut)')
    BY DEF Regs1, WrittenRegs
  <2> QED BY <1>1, <1>2, <1>3, <1>4, <2>1 DEF Regs2
<1>6. SP1' = SP2
  BY <1>1, <1>2 DEF SP1, SP2, WrittenSP
<1>7. ASSUME e2m.ctl.hi = "noOp", e2m.ctl.lo = "noOp" PROVE Hi1' = Hi1 /\ Lo1' = Lo1
  BY <1>1, <1>2, <1>7 DEF Hi1, Lo1, WrittenHi, WrittenLo, HalfWritten
<1> QED BY <1>5, <1>6, <1>7

(* The registers before the instruction in WB is written back. *)
LEMMA HalvesKept ==
  ~WritesHiLo(m2w) => Hi1 = hi /\ Lo1 = lo
BY DEF WritesHiLo, Hi1, Lo1, WrittenHi, WrittenLo, HalfWritten

LEMMA HonestyStep == LatchesAreHonest /\ Clock => LatchesAreHonest'
<1> SUFFICES ASSUME LatchesAreHonest, Clock PROVE LatchesAreHonest'
  OBVIOUS
<1>1. Honest(d2e)'
  BY LatchesMove DEF Honest
<1>2. Honest(e2m)' /\ Honest(m2w)'
  BY LaterLatchesMove DEF Honest, LatchesAreHonest
<1> QED BY <1>1, <1>2 DEF LatchesAreHonest

(* An instruction that transfers control is never held up, nor is EI or DI. *)
LEMMA NothingHeldUp ==
  ASSUME SimInv, Kept
  PROVE  /\ d2e.ctl.flow # "none" => ~Stalled
         /\ LoadUse => Stalled
         /\ Toggles(f2d.ireg) => ~Stalled
<1>1. LoadUse => Stalled
  BY DEF Kept, LoadUseRule
<1>2. ASSUME d2e.ctl.flow # "none" PROVE ~Stalled
  <2>1. d2e.ctl # NopCtl
    BY <1>2 DEF NopCtl
  <2>2. ~d2e.bubble /\ d2e.ctl = Ctl(d2e.ireg) /\ d2e.ireg \in Instr
    BY <2>1, D2EFields DEF SimInv, ControlInv, TypeOK, LatchesAreHonest, Honest
  <2>3. ~(stallCtr > 0)
    BY <2>2 DEF SimInv, ControlInv, BubblesAreInert
  <2>4. ~EpcHazard
    BY <1>2 DEF Kept, ExceptionRegsRule
  <2>5. ~ZeroGapHazard
    <3>1. d2e.ctl.reg \in {"NOP", "PC"}
      BY <1>2, <2>2, TransferWrites
    <3> QED BY <3>1 DEF ZeroGapHazard, Kept, LinkRule, Dest
  <2> QED BY <2>3, <2>4, <2>5 DEF Stalled
<1>3. ASSUME Toggles(f2d.ireg) PROVE ~Stalled
  <2>1. ~(stallCtr > 0)
    BY <1>3 DEF SimInv, TogglesAtOnce
  <2>2. Sources(f2d.ireg) = {}
    BY <1>3 DEF Toggles, Sources, ReadsA, ReadsB, IsM4, IsM1, OP_R, OP_S, OP_LIL, OP_LIU, OP_SW, OP_JR,
       OP_ADDI, OP_STACK, OP_M1, OP_LW, M4, EI, DI, MTEPC, MTHI, MTLO, LPM
  <2>3. ~ZeroGapHazard
    BY <2>2 DEF ZeroGapHazard
  <2>4. ~EpcHazard
    BY <1>3 DEF Toggles, EpcHazard, IsM4, EI, DI, RETI, MFEPC
  <2> QED BY <2>1, <2>3, <2>4 DEF Stalled
<1> QED BY <1>1, <1>2, <1>3

-----------------------------------------------------------------------------
(* Forwarding: an operand that is decoded is the one the architectural     *)
(* state will have when the instructions in EX and MEM have retired.       *)

LEMMA Regs2Type == TypeOK => Regs1 \in [Reg -> Word] /\ Regs2 \in [Reg -> Word]
<1> SUFFICES ASSUME TypeOK PROVE Regs1 \in [Reg -> Word] /\ Regs2 \in [Reg -> Word]
  OBVIOUS
<1>1. Regs1 \in [Reg -> Word]
  BY WrittenType DEF Regs1
<1>2. Accessed(e2m).memOut \in Word
  BY AccessedType DEF M2WType
<1>3. Loaded(e2m) \in Word
  BY <1>2 DEF Accessed
<1>4. WriteValue(e2m, Loaded(e2m)) \in Word
  BY <1>3, E2MFields, WriteValueType DEF TypeOK
<1>5. Dest(e2m) \in Reg
  BY E2MFields DEF TypeOK, Dest, LinkReg, Reg
<1> QED BY <1>1, <1>4, <1>5, RWriteType DEF Regs2

LEMMA SourcesAreRegisters ==
  ASSUME NEW i \in Instr
  PROVE  /\ ReadsA(i) /\ RegA(i) # 0 => RegA(i) \in Sources(i)
         /\ ReadsB(i) /\ RegB(i) # 0 => RegB(i) \in Sources(i)
         /\ \A r \in Sources(i) : r \in Reg /\ r # 0 /\ r \in {RegA(i), RegB(i)}
BY RegAType DEF Sources

(* A write leaves the other registers alone. *)
LEMMA WriteOne ==
  ASSUME NEW rs \in [Reg -> Word], NEW d \in Reg, NEW v \in Word, NEW r \in Reg, r # 0
  PROVE  RWrite(rs, d, v)[r] = IF r = d THEN v ELSE rs[r]
BY DEF RWrite

LEMMA ForwardedIsCurrent ==
  ASSUME SimInv, Kept, ~Stalled, NEW r \in Sources(f2d.ireg)
  PROVE  Forwarded(r) = RRead(Regs2, r) /\ (d2e.ctl.reg # "NOP" => Dest(d2e) # r)
<1>1. f2d.ireg \in Instr /\ TypeOK
  BY F2DFields DEF SimInv, ControlInv, TypeOK
<1>2. r \in Reg /\ r # 0 /\ r \in {RegA(f2d.ireg), RegB(f2d.ireg)}
  BY <1>1, SourcesAreRegisters
<1>3. ~LoadUse
  BY DEF Kept, LoadUseRule
<1>4. ~LinkClash(e2m, f2d.ireg) /\ ~LinkClash(m2w, f2d.ireg)
  BY DEF Kept, LinkRule
<1>5. /\ e2m.ctl.reg = "PC" => (r = LinkReg <=> r = e2m.sel)
      /\ m2w.ctl.reg = "PC" => (r = LinkReg <=> r = m2w.sel)
  BY <1>4 DEF LinkClash
<1>6. /\ FwdFromEX(r) <=> e2m.ctl.reg # "NOP" /\ r = Dest(e2m)
      /\ FwdFromMEM(r) <=> m2w.ctl.reg # "NOP" /\ r = Dest(m2w)
  BY <1>2, <1>5 DEF FwdFromEX, FwdFromMEM, Dest
<1>7. Dest(e2m) \in Reg /\ Dest(m2w) \in Reg
  BY <1>1, E2MFields, M2WFields DEF TypeOK, Dest, LinkReg, Reg
<1>8. WriteValue(m2w, m2w.memOut) \in Word /\ regs \in [Reg -> Word]
  BY <1>1, M2WFields, WriteValueType DEF TypeOK
<1>9. WriteValue(e2m, Loaded(e2m)) \in Word
  <2>1. Accessed(e2m).memOut \in Word
    BY <1>1, AccessedType DEF M2WType
  <2>2. Loaded(e2m) \in Word
    BY <2>1 DEF Accessed
  <2> QED BY <1>1, <2>2, E2MFields, WriteValueType DEF TypeOK
<1>10. Regs1[r] = IF FwdFromMEM(r) THEN FwdValFromMEM ELSE regs[r]
  BY <1>2, <1>6, <1>7, <1>8, WriteOne DEF Regs1, WrittenRegs, FwdValFromMEM
<1>11. FwdFromEX(r) => FwdValFromEX = WriteValue(e2m, Loaded(e2m))
  <2> SUFFICES ASSUME FwdFromEX(r) PROVE FwdValFromEX = WriteValue(e2m, Loaded(e2m))
    OBVIOUS
  <2>1. e2m.ctl.reg # "MEM"
    BY <1>2, <1>3 DEF LoadUse
  <2> QED BY <2>1 DEF FwdValFromEX, WriteValue
<1>12. Regs2[r] = IF FwdFromEX(r) THEN FwdValFromEX ELSE Regs1[r]
  BY <1>1, <1>2, <1>6, <1>7, <1>9, <1>11, WriteOne, Regs2Type DEF Regs2
<1>13. Forwarded(r) = RRead(Regs2, r)
  BY <1>2, <1>10, <1>12 DEF Forwarded, RRead
<1>14. d2e.ctl.reg # "NOP" => Dest(d2e) # r
  <2>1. ~ZeroGapHazard
    BY DEF Stalled
  <2>2. d2e.ctl.reg # "NOP" => ~d2e.bubble
    BY DEF SimInv, ControlInv, BubblesAreInert, NopCtl
  <2> QED BY <2>1, <2>2 DEF ZeroGapHazard
<1> QED BY <1>13, <1>14

(* The operand stays current while the instruction in EX moves to MEM. *)
LEMMA OperandIsCurrent ==
  ASSUME SimInv, Clock, Kept, ~Stalled, NEW r \in Reg, r = 0 \/ r \in Sources(f2d.ireg)
  PROVE  Forwarded(r) = RRead(Regs2', r)
<1>1. TypeOK /\ TypeOK'
  BY ClockType DEF SimInv, ControlInv
<1>2. Regs2 \in [Reg -> Word] /\ Regs1' = Regs2
  BY <1>1, Regs2Type, StateMoves
<1>3. e2m'.ctl = d2e.ctl /\ Dest(e2m)' = Dest(d2e)
  BY LaterLatchesMove DEF Dest
<1>4. CASE r = 0
  <2>1. Forwarded(r) = 0
    BY <1>4 DEF Forwarded, FwdFromEX, FwdFromMEM, RRead
  <2> QED BY <1>4, <2>1 DEF RRead
<1>5. CASE r # 0
  <2>1. Forwarded(r) = Regs2[r] /\ (d2e.ctl.reg # "NOP" => Dest(d2e) # r)
    BY <1>5, ForwardedIsCurrent DEF RRead
  <2>2. Regs2'[r] = Regs2[r]
    <3>1. Regs2' = IF d2e.ctl.reg = "NOP" THEN Regs2
                   ELSE RWrite(Regs2, Dest(d2e), WriteValue(e2m, Loaded(e2m))')
      BY <1>2, <1>3 DEF Regs2
    <3> QED BY <1>2, <1>5, <2>1, <3>1 DEF RWrite
  <2> QED BY <1>5, <2>1, <2>2 DEF RRead
<1> QED BY <1>4, <1>5

(* SP is forwarded without any rule. *)
LEMMA ForwardedSPIsCurrent == Clock => ForwardedSP = SP2'
<1> SUFFICES ASSUME Clock PROVE ForwardedSP = SP2'
  OBVIOUS
<1>1. SP1' = SP2 /\ e2m'.ctl = d2e.ctl /\ e2m'.spNew = SPAdder(d2e)
  BY StateMoves, LaterLatchesMove
<1>2. SP2' = IF WritesSP(d2e.ctl) THEN SPAdder(d2e) ELSE SP2
  BY <1>1 DEF SP2
<1> QED BY <1>2 DEF ForwardedSP, SP2, SP1, WrittenSP

LEMMA OperandsStep == SimInv /\ Clock /\ Kept => OperandsInEX'
<1> SUFFICES ASSUME SimInv, Clock, Kept, ~d2e'.bubble PROVE OperandsOf(d2e)'
  BY DEF OperandsInEX
<1> DEFINE i == f2d.ireg
<1>1. ~Stalled /\ ~LoadUse /\ d2e'.ctl = Ctl(i) /\ d2e'.ireg = i
  BY LatchesMove
<1>2. i \in Instr /\ RegA(i) \in Reg /\ RegB(i) \in Reg
  BY F2DFields, RegAType DEF SimInv, ControlInv, TypeOK
<1>3. /\ d2e'.opA = Forwarded(RegA(i)) /\ d2e'.opB = Forwarded(RegB(i))
      /\ d2e'.hiOut = hi /\ d2e'.loOut = lo /\ d2e'.regaOut = RRead(regs, RegA(i))
      /\ d2e'.pc = f2d.pc
  BY LatchesMove
<1>4. e2m'.ctl = d2e.ctl /\ m2w'.ctl = e2m.ctl
  BY LaterLatchesMove
<1>5. WritesHiLo(e2m)' = WritesHiLo(d2e) /\ WritesHiLo(m2w)' = WritesHiLo(e2m)
  BY <1>4 DEF WritesHiLo
<1>6. ReadsA(i) => d2e'.opA = RRead(Regs2', RegA(i))
  BY <1>1, <1>2, <1>3, OperandIsCurrent, SourcesAreRegisters
<1>7. ReadsB(i) => d2e'.opB = RRead(Regs2', RegB(i))
  BY <1>1, <1>2, <1>3, OperandIsCurrent, SourcesAreRegisters
<1>8. IsM1(i, MTHI) \/ IsM1(i, MTLO) => d2e'.regaOut = d2e'.opA
  BY <1>1, <1>3 DEF Kept, MoveToHiLoRule, Forwarded
<1>9. d2e'.ctl.sp # "none" => d2e'.spVal = SP2'
  BY <1>1, ForwardedSPIsCurrent, LatchesMove, FieldsOfCtl
<1>10. ReadsHiLoInID(i) =>
         d2e'.hiOut = hi' /\ d2e'.loOut = lo' /\ ~WritesHiLo(e2m)' /\ ~WritesHiLo(m2w)'
  <2> SUFFICES ASSUME ReadsHiLoInID(i)
      PROVE  d2e'.hiOut = hi' /\ d2e'.loOut = lo' /\ ~WritesHiLo(e2m)' /\ ~WritesHiLo(m2w)'
    OBVIOUS
  <2>1. ~WritesHiLo(d2e) /\ ~WritesHiLo(e2m) /\ ~WritesHiLo(m2w)
    BY <1>1 DEF Kept, HiLoRule
  <2>2. hi' = hi /\ lo' = lo
    BY <2>1, HalvesKept DEF Clock, Hi1, Lo1
  <2> QED BY <1>3, <1>5, <2>1, <2>2
<1>11. Ctl(i).flow = "bhleq" => ~WritesHiLo(e2m)' /\ ~WritesHiLo(m2w)'
  <2>1. Ctl(i).flow = "bhleq" => i.op = OP_BHLEQ
    BY FieldsOfCtl DEF FlowCtl
  <2> QED BY <1>5, <2>1 DEF Kept, HiLoRule
<1>12. Ctl(i).exc = "mfepc" => e2m'.ctl.exc # "mtepc" /\ m2w'.ctl.exc # "mtepc"
  <2>1. Ctl(i).exc = "mfepc" => IsM4(i, MFEPC)
    BY FieldsOfCtl DEF ExcCtl
  <2> QED BY <1>1, <1>4, <2>1 DEF Stalled, EpcHazard
<1>13. /\ Ctl(i).flow = "j" => d2e'.jDest = f2d.pc + 1 + SignExt12(Address(i))
       /\ Ctl(i).flow = "jr" => d2e'.jDest = d2e'.opA
  <2>1. d2e'.jDest = JumpDest(i, Ctl(i))
    BY LatchesMove
  <2> QED BY <1>3, <2>1 DEF JumpDest
<1>14. Ctl(i).flow \in {"bz", "bhleq"} => e2m'.ctl.flow = "none"
  BY <1>4 DEF Kept, BranchInSlotRule
<1>15. /\ RRead(Regs2, RegA(d2e.ireg))' = RRead(Regs2', RegA(i))
       /\ RRead(Regs2, RegB(d2e.ireg))' = RRead(Regs2', RegB(i))
  BY <1>1
<1> HIDE DEF i
<1> QED
  BY <1>1, <1>3, <1>6, <1>7, <1>8, <1>9, <1>10, <1>11, <1>12, <1>13, <1>14, <1>15 DEF OperandsOf

-----------------------------------------------------------------------------
(* Execution: what the instruction in EX hands to MEM is the result the    *)
(* programmer's model gives it.                                            *)

LEMMA ExceptionOperand ==
  ASSUME SimInv, Kept
  PROVE  /\ d2e.ctl.exc = "mfepc" => EpcFetched = ExceptionsNext.epc
         /\ d2e.ctl.exc = "mfeca" => EcaFetched = ExceptionsNext.eca
<1> SUFFICES ASSUME d2e.ctl.exc \in {"mfepc", "mfeca"}
    PROVE  /\ d2e.ctl.exc = "mfepc" => EpcFetched = ExceptionsNext.epc
           /\ EcaFetched = ExceptionsNext.eca
  OBVIOUS
<1>1. ~d2e.bubble /\ d2e.ctl = Ctl(d2e.ireg) /\ d2e.ireg \in Instr
  BY D2EFields DEF SimInv, ControlInv, TypeOK, LatchesAreHonest, Honest, NopCtl
<1>2. d2e.ctl.flow = "none"
  BY <1>1, TransferWrites
<1>3. ~IntTaken /\ ~SyscallTaken
  BY <1>2 DEF Kept, ExceptionRegsRule, SyscallTaken
<1>4. ~cut.ex
  BY DEF SimInv, Sequence, Quiet
<1>5. d2e.ctl.exc = "mfepc" => e2m.ctl.exc # "mtepc" /\ m2w.ctl.exc # "mtepc"
  BY <1>1 DEF SimInv, OperandsInEX, OperandsOf
<1> QED BY <1>3, <1>4, <1>5 DEF SimInv, Saved, EpcFetched, EcaFetched

LEMMA ResultsStep == SimInv /\ Clock /\ Kept /\ excArch' = ExceptionsNext => ResultsInMEM'
<1> SUFFICES ASSUME SimInv, Clock, Kept, excArch' = ExceptionsNext, ~e2m'.bubble
    PROVE  ResultsOf(e2m)'
  BY DEF ResultsInMEM
<1> DEFINE i == d2e.ireg
           x == RRead(Regs2, RegA(i))
           y == RRead(Regs2, RegB(i))
<1>1. ~d2e.bubble /\ d2e.ctl = Ctl(i) /\ i \in Instr /\ e2m'.ireg = i
  BY LaterLatchesMove, D2EFields DEF SimInv, ControlInv, TypeOK, LatchesAreHonest, Honest
<1>2. Regs1' = Regs2 /\ SP1' = SP2
  BY StateMoves
<1>3. /\ e2m'.alu = Operate(d2e.ctl.alu, AluFunc(i, d2e.ctl), i.b, OperandA(d2e), OperandB(d2e))
      /\ e2m'.spNew = SPAdder(d2e)
      /\ e2m'.spAddr = (IF d2e.ctl.sp = "push" THEN SPAdder(d2e) ELSE d2e.spVal)
      /\ e2m'.regaOut = (IF CarriesOpA(d2e.ctl) THEN d2e.opA ELSE d2e.regaOut)
      /\ e2m'.hiOut = d2e.hiOut /\ e2m'.loOut = d2e.loOut
  BY LaterLatchesMove DEF AluOut
<1>4. OperandsOf(d2e)
  BY <1>1 DEF SimInv, OperandsInEX
<1>5. (ReadsA(i) => d2e.opA = x) /\ (ReadsB(i) => d2e.opB = y)
  BY <1>4 DEF OperandsOf
<1>6. /\ d2e.ctl.alu = AluCtl(i) /\ d2e.ctl.mem = MemCtl(i) /\ d2e.ctl.sp = SpCtl(i)
      /\ d2e.ctl.hi = HiCtl(i) /\ d2e.ctl.lo = LoCtl(i)
      /\ d2e.ctl.exc = ExcCtl(i) /\ d2e.ctl.flow = FlowCtl(i)
      /\ WritesReg(i) => d2e.ctl.reg = RegCtl(i)
  BY <1>1, FieldsOfCtl
<1>7. x \in Word /\ y \in Word /\ SP2 \in Word
  BY <1>1, Regs2Type, RReadType, RegAType, E2MFields, WrittenType DEF SimInv, ControlInv, TypeOK, SP2, SP1
<1>8. \A v \in Word : v % WordSize = v
  BY WordBounds DEF WordSize
<1>9. i.f \in Nibble /\ i.b \in Nibble /\ i.f \in Int /\ x \in Int /\ y \in Int /\ SP2 \in Int
  BY <1>1, <1>7, InstrFields, NibbleBounds, WordBounds
<1> HIDE DEF x, y, i
<1>10. i.op = OP_R => /\ e2m'.alu.value = AluR(i.f, x, y) % WordSize
                      /\ i.f = F_MUL => e2m'.alu.hi = MulHigh(x, y)
  <2> SUFFICES ASSUME i.op = OP_R
      PROVE  /\ e2m'.alu.value = AluR(i.f, x, y) % WordSize
             /\ i.f = F_MUL => e2m'.alu.hi = MulHigh(x, y)
    OBVIOUS
  <2>1. AluCtl(i) = "R" /\ MemCtl(i) = "none" /\ SpCtl(i) = "none" /\ ExcCtl(i) = "none"
    BY <1>1, DecodeArithmetic DEF Controls
  <2>2. ReadsA(i) /\ ReadsB(i) /\ ~IsM1(i, LPM) /\ i.op # OP_ADDI
    BY DEF ReadsA, ReadsB, IsM1, OP_R, OP_M1, OP_ADDI
  <2>3. OperandA(d2e) = x /\ OperandB(d2e) = y /\ AluFunc(i, d2e.ctl) = i.f
    BY <1>5, <1>6, <2>1, <2>2 DEF OperandA, OperandB, AluFunc, i
  <2> QED BY <1>3, <1>6, <2>1, <2>3 DEF Operate, AluValue
<1>11. i.op = OP_S => e2m'.alu.value = AluS(i.f, x, i.b) % WordSize
  <2> SUFFICES ASSUME i.op = OP_S PROVE e2m'.alu.value = AluS(i.f, x, i.b) % WordSize
    OBVIOUS
  <2>1. AluCtl(i) = "S" /\ MemCtl(i) = "none" /\ SpCtl(i) = "none" /\ ExcCtl(i) = "none"
    BY <1>1, DecodeArithmetic DEF Simply, Controls
  <2>2. ReadsA(i) /\ ~IsM1(i, LPM) /\ i.op # OP_ADDI
    BY DEF ReadsA, IsM1, OP_S, OP_M1, OP_ADDI
  <2>3. OperandA(d2e) = x /\ AluFunc(i, d2e.ctl) = i.f
    BY <1>5, <1>6, <2>1, <2>2 DEF OperandA, AluFunc, i
  <2> QED BY <1>3, <1>6, <2>1, <2>3 DEF Operate, AluValue
<1>12. i.op = OP_ADDI => e2m'.alu.value = (x + SignExt8(Byte(i))) % WordSize
  <2> SUFFICES ASSUME i.op = OP_ADDI
      PROVE  e2m'.alu.value = (x + SignExt8(Byte(i))) % WordSize
    OBVIOUS
  <2>1. AluCtl(i) = "R" /\ MemCtl(i) = "none" /\ SpCtl(i) = "none" /\ ExcCtl(i) = "none"
    BY <1>1, DecodeArithmetic DEF Simply, Controls
  <2>2. ReadsA(i) /\ ~IsM1(i, LPM)
    BY DEF ReadsA, IsM1, OP_M1, OP_ADDI
  <2>3. OperandA(d2e) = x /\ OperandB(d2e) = SignExt8(Byte(i)) /\ AluFunc(i, d2e.ctl) = F_ADD
    BY <1>5, <1>6, <2>1, <2>2 DEF OperandA, OperandB, AluFunc, i
  <2> QED BY <1>3, <1>6, <2>1, <2>3 DEF Operate, AluValue, AluR, F_SUB, F_AND, F_OR, F_NOR,
                                        F_XOR, F_SLT, F_SGT, F_MUL, F_ADD
<1>13. i.op \in {OP_LW, OP_SW} => e2m'.alu.value = (y + i.f) % WordSize
  <2> SUFFICES ASSUME i.op \in {OP_LW, OP_SW} PROVE e2m'.alu.value = (y + i.f) % WordSize
    OBVIOUS
  <2>1. AluCtl(i) = "OFFSET" /\ MemCtl(i) \in {"read", "write"} /\ SpCtl(i) = "none" /\ ExcCtl(i) = "none"
    BY <1>1, DecodeArithmetic DEF Simply, Controls
  <2>2. ReadsB(i) /\ ~IsM1(i, LPM) /\ i.op # OP_ADDI
    BY DEF ReadsB, IsM1, OP_LW, OP_SW, OP_M1, OP_ADDI
  <2>3. OperandA(d2e) = i.f /\ OperandB(d2e) = y
    BY <1>5, <1>6, <2>1, <2>2 DEF OperandA, OperandB, i
  <2>4. i.f + y = y + i.f
    BY <1>9
  <2> QED BY <1>3, <1>6, <2>1, <2>3, <2>4 DEF Operate, AluValue
<1>14. IsM1(i, LPM) => e2m'.alu.value = y
  <2> SUFFICES ASSUME IsM1(i, LPM) PROVE e2m'.alu.value = y
    OBVIOUS
  <2>1. AluCtl(i) = "OFFSET" /\ MemCtl(i) = "lpm" /\ SpCtl(i) = "none" /\ ExcCtl(i) = "none"
    BY <1>1, DecodeM1 DEF Simply, Controls, IsM1
  <2>2. ReadsB(i) /\ i.op # OP_ADDI
    BY DEF ReadsB, IsM1, OP_M1, OP_ADDI
  <2>3. OperandA(d2e) = 0 /\ OperandB(d2e) = y
    BY <1>5, <1>6, <2>1, <2>2 DEF OperandA, OperandB, i
  <2>4. 0 + y = y
    BY <1>9
  <2> QED BY <1>3, <1>6, <1>7, <1>8, <2>1, <2>3, <2>4 DEF Operate, AluValue
<1>15. IsStack(i, SPRD) => e2m'.alu.value = SP2
  <2> SUFFICES ASSUME IsStack(i, SPRD) PROVE e2m'.alu.value = SP2
    OBVIOUS
  <2>1. AluCtl(i) = "R" /\ SpCtl(i) = "read" /\ ExcCtl(i) = "none" /\ i.f = SPRD
    BY <1>1, DecodeStack DEF Controls, IsStack
  <2>2. d2e.spVal = SP2 /\ i.op # OP_ADDI /\ ~IsM1(i, LPM)
    BY <1>4, <1>6, <2>1 DEF OperandsOf, IsStack, IsM1, OP_STACK, OP_ADDI, OP_M1
  <2>3. OperandA(d2e) = SP2 /\ OperandB(d2e) = 0 /\ AluFunc(i, d2e.ctl) = F_ADD
    BY <1>6, <2>1, <2>2 DEF OperandA, OperandB, AluFunc, SPRD, F_ADD, i
  <2>4. SP2 + 0 = SP2
    BY <1>9
  <2> QED BY <1>3, <1>6, <1>7, <1>8, <2>1, <2>3, <2>4
          DEF Operate, AluValue, AluR, F_SUB, F_AND, F_OR, F_NOR, F_XOR, F_SLT, F_SGT, F_MUL, F_ADD
<1>16. \A v \in Word : AluR(F_ADD, v, 0) % WordSize = v
  <2>1. \A v \in Word : v + 0 = v
    BY WordBounds
  <2> QED BY <1>8, <2>1 DEF AluR, F_SUB, F_AND, F_OR, F_NOR, F_XOR, F_SLT, F_SGT, F_MUL, F_ADD
<1>17. /\ IsM4(i, MFEPC) => e2m'.alu.value = excArch'.epc
       /\ IsM4(i, MFECA) => e2m'.alu.value = excArch'.eca
       /\ IsM4(i, MTEPC) => e2m'.alu.value = x
  <2> SUFFICES ASSUME IsM1(i, M4), i.b \in {MFEPC, MFECA, MTEPC}
      PROVE  /\ i.b = MFEPC => e2m'.alu.value = excArch'.epc
             /\ i.b = MFECA => e2m'.alu.value = excArch'.eca
             /\ i.b = MTEPC => e2m'.alu.value = x
    BY DEF IsM4
  <2>1. /\ AluCtl(i) = "R" /\ MemCtl(i) = "none" /\ SpCtl(i) = "none"
        /\ i.b = MFEPC => ExcCtl(i) = "mfepc"
        /\ i.b = MFECA => ExcCtl(i) = "mfeca"
        /\ i.b = MTEPC => ExcCtl(i) = "mtepc"
    BY <1>1, DecodeM4 DEF Controls
  <2>2. ~IsM1(i, LPM) /\ i.op # OP_ADDI /\ (i.b = MTEPC => ReadsA(i))
    BY DEF ReadsA, IsM1, IsM4, LPM, M4, OP_M1, OP_ADDI
  <2>3. OperandB(d2e) = 0 /\ AluFunc(i, d2e.ctl) = F_ADD
    BY <1>6, <2>1, <2>2 DEF OperandB, AluFunc, i
  <2>4. /\ i.b = MFEPC => OperandA(d2e) = EpcFetched
        /\ i.b = MFECA => OperandA(d2e) = EcaFetched
        /\ i.b = MTEPC => OperandA(d2e) = x
    BY <1>5, <1>6, <2>1, <2>2 DEF OperandA, i
  <2>5. EpcFetched \in Word /\ EcaFetched \in Word
    BY FetchedType DEF SimInv, ControlInv
  <2>6. /\ i.b = MFEPC => EpcFetched = excArch'.epc
        /\ i.b = MFECA => EcaFetched = excArch'.eca
    BY <1>6, <2>1, ExceptionOperand
  <2>7. e2m'.alu.value = AluR(F_ADD, OperandA(d2e), 0) % WordSize
    BY <1>3, <1>6, <2>1, <2>3 DEF Operate, AluValue
  <2> QED BY <1>7, <1>16, <2>4, <2>5, <2>6, <2>7
<1>18. /\ IsStack(i, PUSH) => e2m'.spNew = (SP2 - 1) % WordSize /\ e2m'.spAddr = e2m'.spNew
       /\ IsStack(i, POP) => e2m'.spNew = (SP2 + 1) % WordSize /\ e2m'.spAddr = SP2
       /\ IsStack(i, SPWR) => e2m'.spNew = x
  <2> SUFFICES ASSUME i.op = OP_STACK, i.f \in {PUSH, POP, SPWR}
      PROVE  /\ i.f = PUSH => e2m'.spNew = (SP2 - 1) % WordSize /\ e2m'.spAddr = e2m'.spNew
             /\ i.f = POP => e2m'.spNew = (SP2 + 1) % WordSize /\ e2m'.spAddr = SP2
             /\ i.f = SPWR => e2m'.spNew = x
    BY DEF IsStack
  <2>1. /\ i.f = PUSH => SpCtl(i) = "push"
        /\ i.f = POP  => SpCtl(i) = "pop"
        /\ i.f = SPWR => SpCtl(i) = "write"
    BY <1>1, DecodeStack DEF Controls
  <2>2. d2e.spVal = SP2 /\ (i.f = SPWR => d2e.opA = x)
    BY <1>4, <1>5, <1>6, <2>1 DEF OperandsOf, ReadsA
  <2> QED BY <1>3, <1>6, <2>1, <2>2 DEF SPAdder
<1>19. \/ i.op = OP_SW \/ IsStack(i, PUSH) \/ IsM1(i, MTHI) \/ IsM1(i, MTLO)
       \/ i.op \in {OP_LIL, OP_LIU} /\ i.a # 0
       => e2m'.regaOut = x
  <2> SUFFICES ASSUME \/ i.op = OP_SW \/ IsStack(i, PUSH) \/ IsM1(i, MTHI) \/ IsM1(i, MTLO)
                      \/ i.op \in {OP_LIL, OP_LIU} /\ i.a # 0
      PROVE  e2m'.regaOut = x
    OBVIOUS
  <2>1. ReadsA(i)
    BY DEF ReadsA, IsStack
  <2>2. CASE CarriesOpA(d2e.ctl)
    BY <1>3, <1>5, <2>1, <2>2
  <2>3. CASE IsM1(i, MTHI) \/ IsM1(i, MTLO)
    BY <1>3, <1>4, <1>5, <2>1, <2>3 DEF OperandsOf, i
  <2>4. CASE ~CarriesOpA(d2e.ctl) /\ (i.op = OP_SW \/ IsStack(i, PUSH))
    BY <1>1, <1>6, <2>4, DecodeArithmetic, DecodeStack DEF CarriesOpA, Simply, Controls, IsStack
  <2>5. CASE ~CarriesOpA(d2e.ctl) /\ i.op \in {OP_LIL, OP_LIU} /\ i.a # 0
    BY <1>1, <1>6, <2>5, DecodeArithmetic DEF CarriesOpA, Simply, Controls, WritesReg
  <2> QED BY <2>2, <2>3, <2>4, <2>5
<1>20. ReadsHiLoInID(i) => e2m'.hiOut = Hi1' /\ e2m'.loOut = Lo1'
  <2> SUFFICES ASSUME ReadsHiLoInID(i) PROVE e2m'.hiOut = Hi1' /\ e2m'.loOut = Lo1'
    OBVIOUS
  <2>1. d2e.hiOut = hi /\ d2e.loOut = lo /\ ~WritesHiLo(e2m) /\ ~WritesHiLo(m2w)
    BY <1>4 DEF OperandsOf, i
  <2>2. Hi1' = Hi1 /\ Lo1' = Lo1
    BY <2>1, StateMoves DEF WritesHiLo
  <2> QED BY <1>3, <2>1, <2>2, HalvesKept
<1>21. /\ RRead(Regs1, RegA(e2m.ireg))' = x /\ RRead(Regs1, RegB(e2m.ireg))' = y
       /\ SP1' = SP2
  BY <1>1, <1>2 DEF x, y
<1> QED
  BY <1>1, <1>10, <1>11, <1>12, <1>13, <1>14, <1>15, <1>17, <1>18, <1>19, <1>20, <1>21
  DEF ResultsOf

-----------------------------------------------------------------------------
(* The invariant is kept: start-up, types, the Z register. *)

LEMMA IdleControl ==
  ASSUME SimInv
  PROVE  /\ Idle(d2e) => d2e.ctl.flow = "none" /\ d2e.ctl.reg = "NOP"
         /\ Idle(e2m) => /\ e2m.ctl.flow = "none" /\ e2m.ctl.reg = "NOP" /\ e2m.ctl.sp = "none"
                         /\ e2m.ctl.hi = "noOp" /\ e2m.ctl.lo = "noOp" /\ e2m.ctl.mem = "none"
                         /\ e2m.ctl.exc = "none" /\ (e2m.bubble \/ ~Toggles(e2m.ireg))
<1>1. /\ Ctl(NOP).reg = "NOP" /\ Ctl(NOP).sp = "none" /\ Ctl(NOP).exc = "none"
      /\ Ctl(NOP).flow = "none" /\ ~Toggles(NOP)
  BY NopIsStill DEF Toggles
<1>2. Ctl(NOP).hi = "noOp" /\ Ctl(NOP).lo = "noOp" /\ Ctl(NOP).mem = "none"
  <2>1. NOP \in Instr /\ NOP.op = OP_R /\ NOP.f # F_MUL
    BY NopType DEF NOP, F_OR, F_MUL
  <2> QED BY <2>1, DecodeArithmetic, FieldsOfCtl DEF Controls
<1> QED
  BY <1>1, <1>2 DEF Idle, SimInv, LatchesAreHonest, Honest, NopCtl

LEMMA FirstClock ==
  ASSUME SimInv, cycle < 1 PROVE ~Stalled /\ ~LoadUse
<1>1. f2d.ireg = NOP /\ d2e.bubble /\ ~(stallCtr > 0) /\ Idle(e2m)
  BY DEF SimInv, ControlInv, TypeOK, Startup
<1>2. e2m.ctl.reg = "NOP"
  BY <1>1, IdleControl
<1> QED
  BY <1>1, <1>2 DEF Stalled, LoadUse, ZeroGapHazard, EpcHazard, IsM4, IsM1, NOP, OP_R, OP_M1

(* What the instruction in MEM does to the exception registers. *)
IenNext == IF e2m.bubble THEN excArch.ien
           ELSE IF cut.mem \/ e2m.ctl.flow = "syscall" THEN FALSE
           ELSE IF e2m.ctl.flow = "reti" \/ IsM4(e2m.ireg, EI) THEN TRUE
           ELSE IF IsM4(e2m.ireg, DI) THEN FALSE ELSE excArch.ien

EpcNext == IF e2m.bubble THEN excArch.epc
           ELSE IF cut.mem THEN (e2m.pc + 1) % WordSize
           ELSE IF e2m.ctl.flow = "syscall" THEN (e2m.pc + 2) % WordSize
           ELSE IF e2m.ctl.exc = "mtepc" THEN e2m.alu.value ELSE excArch.epc

EcaNext == IF e2m.bubble THEN excArch.eca
           ELSE IF cut.mem THEN 255
           ELSE IF e2m.ctl.flow = "syscall" THEN 256 + Byte(e2m.ireg) ELSE excArch.eca

LEMMA ExceptionsMove ==
  ControlInv /\ HistoryType /\ LatchesAreHonest =>
    /\ ExceptionsNext.ien = IenNext /\ ExceptionsNext.epc = EpcNext
    /\ ExceptionsNext.eca = EcaNext
    /\ ExceptionsNext \in [epc : Word, eca : Word, ien : BOOLEAN]
<1> SUFFICES ASSUME ControlInv, HistoryType, LatchesAreHonest
    PROVE  /\ ExceptionsNext.ien = IenNext /\ ExceptionsNext.epc = EpcNext
           /\ ExceptionsNext.eca = EcaNext
           /\ ExceptionsNext \in [epc : Word, eca : Word, ien : BOOLEAN]
  OBVIOUS
<1> USE DEF IenNext, EpcNext, EcaNext
<1> DEFINE i == e2m.ireg
<1>1. excArch \in [epc : Word, eca : Word, ien : BOOLEAN] /\ TypeOK /\ i \in Instr
  BY E2MFields DEF ControlInv, TypeOK, HistoryType
<1>2. (e2m.pc + 1) % WordSize \in Word /\ (e2m.pc + 2) % WordSize \in Word /\ 255 \in Word
  BY <1>1, E2MFields, CutToWord, WordBounds DEF TypeOK
<1>3. 256 + Byte(i) \in Word /\ e2m.alu.value \in Word
  BY <1>1, E2MFields, ByteRange, WordBounds DEF TypeOK
<1>4. CASE e2m.bubble
  BY <1>1, <1>4 DEF ExceptionsNext
<1>5. CASE ~e2m.bubble /\ cut.mem
  BY <1>2, <1>5 DEF ExceptionsNext
<1>6. CASE ~e2m.bubble /\ ~cut.mem
  <2>1. e2m.ctl = Ctl(i) /\ ExceptionsNext = ExceptionState(e2m)
    BY <1>6 DEF LatchesAreHonest, Honest, ExceptionsNext
  <2>2. e2m.ctl.flow # "none" => e2m.ctl.exc = "none" /\ ~IsM4(i, EI) /\ ~IsM4(i, DI)
    BY <1>1, <2>1, TransferWrites DEF Toggles
  <2>3. /\ IsM4(i, EI) => ~IsM4(i, DI) /\ e2m.ctl.exc = "none"
        /\ IsM4(i, DI) => e2m.ctl.exc = "none"
    BY <1>1, <2>1, FieldsOfCtl DEF IsM4, ExcCtl, EI, DI, MFEPC, MFECA, MTEPC
  <2>4. CASE e2m.ctl.flow = "syscall"
    <3>1. ExceptionsNext = [epc |-> (e2m.pc + 2) % WordSize, eca |-> 256 + Byte(i), ien |-> FALSE]
      BY <2>1, <2>2, <2>4 DEF ExceptionState
    <3> QED BY <1>2, <1>3, <1>6, <2>4, <3>1
  <2>5. CASE e2m.ctl.flow = "reti" \/ IsM4(i, EI)
    <3>1. ExceptionsNext = [excArch EXCEPT !.ien = TRUE]
      BY <2>1, <2>2, <2>3, <2>5 DEF ExceptionState
    <3> QED BY <1>1, <1>6, <2>2, <2>3, <2>5, <3>1
  <2>6. CASE IsM4(i, DI)
    <3>1. ExceptionsNext = [excArch EXCEPT !.ien = FALSE]
      BY <2>1, <2>2, <2>3, <2>6 DEF ExceptionState
    <3> QED BY <1>1, <1>6, <2>2, <2>3, <2>6, <3>1
  <2>7. CASE e2m.ctl.exc = "mtepc"
    <3>1. ExceptionsNext = [excArch EXCEPT !.epc = e2m.alu.value]
      BY <2>1, <2>2, <2>3, <2>7 DEF ExceptionState
    <3> QED BY <1>1, <1>3, <1>6, <2>2, <2>3, <2>7, <3>1
  <2>8. CASE /\ e2m.ctl.flow \notin {"syscall", "reti"} /\ e2m.ctl.exc # "mtepc"
             /\ ~IsM4(i, EI) /\ ~IsM4(i, DI)
    <3>1. ExceptionsNext = excArch
      BY <2>1, <2>8 DEF ExceptionState
    <3> QED BY <1>1, <1>6, <2>8, <3>1
  <2> QED BY <2>4, <2>5, <2>6, <2>7, <2>8
<1> QED BY <1>4, <1>5, <1>6

LEMMA HistoryStep == SimInv /\ RNext => HistoryType'
<1> SUFFICES ASSUME SimInv, RNext PROVE HistoryType'
  OBVIOUS
<1>1. TypeOK /\ HistoryType /\ zFlag \in BOOLEAN /\ zArch \in BOOLEAN
  BY DEF SimInv, ControlInv, TypeOK, HistoryType
<1>2. zArch' \in BOOLEAN
  BY <1>1 DEF RNext
<1>3. IntTaken \in BOOLEAN /\ cut.ex \in BOOLEAN
  <2>1. intPin \in BOOLEAN /\ ien \in BOOLEAN /\ cut.ex \in BOOLEAN
    BY <1>1 DEF TypeOK, HistoryType
  <2> QED BY <2>1 DEF IntTaken
<1>4. cut' \in [ex : BOOLEAN, mem : BOOLEAN]
  BY <1>3 DEF RNext
<1> QED BY <1>1, <1>2, <1>4, ExceptionsMove DEF RNext, HistoryType, SimInv

LEMMA StartupStep == SimInv /\ RNext /\ Kept => Startup' /\ Fetched' /\ TogglesAtOnce'
<1> SUFFICES ASSUME SimInv, RNext, Kept PROVE Startup' /\ Fetched' /\ TogglesAtOnce'
  OBVIOUS
<1>1. /\ Clock /\ TypeOK /\ cycle \in Nat /\ cycle' = cycle + 1 /\ prog' = prog
      /\ cut' = [ex |-> IntTaken, mem |-> cut.ex]
      /\ zArch' = IF e2m.bubble THEN zArch ELSE zFlag
  BY DEF SimInv, ControlInv, TypeOK, RNext, Clock
<1>2. /\ d2e'.bubble = (Stalled \/ LoadUse) /\ d2e'.ireg = f2d.ireg /\ d2e'.pc = f2d.pc
      /\ e2m'.bubble = d2e.bubble /\ e2m'.ireg = d2e.ireg /\ e2m'.pc = d2e.pc
  BY <1>1, LatchesMove, LaterLatchesMove
<1>3. Startup'
  <2>1. CASE cycle < 1
    <3>1. /\ f2d.ireg = NOP /\ d2e.bubble /\ e2m.bubble /\ Idle(d2e) /\ zArch
          /\ ~ien /\ ~cut.ex /\ ~Stalled /\ ~LoadUse
      BY <1>1, <2>1, FirstClock DEF SimInv, Startup
    <3>2. ~ien' /\ ~IntTaken
      <4>1. d2e.ctl.flow = "none"
        BY <3>1, IdleControl
      <4>2. ~IntTaken /\ ~SyscallTaken
        BY <3>1, <4>1 DEF IntTaken, SyscallTaken
      <4>3. ~IenFetched
        BY <3>1, <4>1, <4>2 DEF IenFetched
      <4> QED BY <1>1, <3>1, <4>2, <4>3, NopIsStill DEF Clock, IenDecoded
    <3>3. ~d2e'.bubble /\ d2e'.ireg = NOP /\ e2m'.bubble /\ zArch' /\ ~cut'.ex /\ ~cut'.mem
      BY <1>1, <1>2, <3>1, <3>2
    <3>4. cycle' = 1
      BY <1>1, <2>1
    <3> QED BY <3>2, <3>3, <3>4 DEF Startup, Idle
  <2>2. CASE cycle = 1
    <3>1. Idle(d2e) /\ e2m.bubble /\ zArch /\ ~ien /\ ~cut.ex
      BY <1>1, <2>2 DEF SimInv, Startup
    <3>2. ~IntTaken
      BY <3>1 DEF IntTaken
    <3> QED BY <1>1, <1>2, <2>2, <3>1, <3>2 DEF Startup, Idle
  <2>3. CASE cycle = 2
    <3>1. ~cut.ex
      BY <1>1, <2>3 DEF SimInv, Startup
    <3> QED BY <1>1, <2>3, <3>1 DEF Startup
  <2>4. CASE cycle > 2
    BY <1>1, <2>4 DEF Startup
  <2> QED BY <1>1, <2>1, <2>2, <2>3, <2>4
<1>4. Fetched'
  <2>1. pc' = f2d'.pc + 1 /\ f2d'.ireg = FetchWord(prog, f2d'.pc)
    <3>1. CASE Stalled
      <4>1. cycle >= 1
        BY <1>1, <3>1, FirstClock
      <4> QED BY <1>1, <3>1, <4>1 DEF Clock, SimInv, Fetched
    <3>2. CASE ~Stalled
      BY <1>1, <3>2 DEF Clock
    <3> QED BY <3>1, <3>2
  <2>2. InEX' => d2e'.ireg = FetchWord(prog, d2e'.pc)
    BY <1>1, <1>2 DEF InEX, SimInv, Fetched
  <2>3. InMEM' => e2m'.ireg = FetchWord(prog, e2m'.pc)
    BY <1>1, <1>2 DEF InEX, InMEM, SimInv, Fetched
  <2> QED BY <1>1, <2>1, <2>2, <2>3 DEF Fetched
<1>5. TogglesAtOnce'
  <2> SUFFICES ASSUME Toggles(f2d.ireg)', stallCtr' > 0 PROVE FALSE
    BY DEF TogglesAtOnce
  <2>1. stallCtr \in 0 .. 1 /\ stallCtr' = StallsLeft
    BY <1>1 DEF TypeOK, Clock
  <2>2. LoadUse
    BY <2>1 DEF StallsLeft
  <2>3. Stalled /\ f2d' = f2d
    BY <1>1, <2>2, NothingHeldUp DEF Clock
  <2>4. Toggles(f2d.ireg)
    BY <2>3 DEF Toggles
  <2> QED BY <2>3, <2>4, NothingHeldUp
<1> QED BY <1>3, <1>4, <1>5

(* After the instruction in MEM has retired, the history variable is the   *)
(* Z register.                                                             *)
LEMMA ZeroIsCurrent ==
  ASSUME SimInv, RNext, cycle >= 2 PROVE zArch' = zFlag
<1>1. zArch' = IF e2m.bubble THEN zArch ELSE zFlag
  BY DEF RNext
<1>2. e2m.bubble => zFlag = zArch
  BY DEF SimInv, ZeroFlag
<1> QED BY <1>1, <1>2

LEMMA ZeroFlagStep == SimInv /\ RNext => ZeroFlag'
<1> SUFFICES ASSUME SimInv, RNext, cycle' >= 2
    PROVE  zFlag' = IF ~e2m'.bubble /\ e2m'.ctl.alu \in {"R", "S"}
                    THEN e2m'.alu.value = 0 ELSE zArch'
  BY DEF ZeroFlag
<1>1. cycle \in Nat /\ cycle' = cycle + 1 /\ Clock
  BY DEF SimInv, ControlInv, TypeOK, RNext, Clock
<1>2. e2m'.alu = AluOut(d2e) /\ e2m'.bubble = d2e.bubble /\ e2m'.ctl = d2e.ctl
  BY <1>1, LaterLatchesMove
<1>3. zFlag' = IF d2e.ctl.alu \in {"R", "S"} THEN AluOut(d2e).value = 0 ELSE zFlag
  BY <1>1 DEF Clock
<1>4. d2e.bubble => d2e.ctl.alu = "NOP"
  BY DEF SimInv, ControlInv, BubblesAreInert, NopCtl
<1>5. d2e.ctl.alu \notin {"R", "S"} => zArch' = zFlag
  <2>1. CASE cycle >= 2
    BY <2>1, ZeroIsCurrent
  <2>2. CASE cycle = 1
    <3>1. d2e.ctl = Ctl(NOP)
      BY <1>1, <2>2 DEF SimInv, Startup, Idle, LatchesAreHonest, Honest
    <3>2. NOP \in Instr /\ NOP.op = OP_R
      BY NopType DEF NOP
    <3>3. Ctl(NOP).alu = "R"
      BY <3>2, DecodeArithmetic, FieldsOfCtl DEF Controls
    <3> QED BY <3>1, <3>3
  <2> QED BY <1>1, <2>1, <2>2
<1> QED BY <1>2, <1>3, <1>4, <1>5

-----------------------------------------------------------------------------
(* The invariant is kept: the sequence of addresses. *)

(* A transfer that leaves EX, or an interrupt, is past the first clocks.   *)
LEMMA TransferInEX ==
  ASSUME SimInv, RNext, Kept, d2e.ctl.flow # "none"
  PROVE  /\ InEX /\ ~Stalled /\ ~IntTaken /\ d2e.ctl = Ctl(d2e.ireg) /\ d2e.ireg \in Instr
         /\ OperandsOf(d2e) /\ zArch' = zFlag
<1>1. d2e.ctl # NopCtl
  BY DEF NopCtl
<1>2. ~d2e.bubble /\ d2e.ctl = Ctl(d2e.ireg) /\ d2e.ireg \in Instr
  BY <1>1, D2EFields DEF SimInv, ControlInv, TypeOK, LatchesAreHonest, Honest
<1>3. ~Idle(d2e)
  BY IdleControl
<1>4. cycle >= 2
  BY <1>3 DEF SimInv, ControlInv, TypeOK, Startup
<1> QED
  BY <1>2, <1>4, ZeroIsCurrent, NothingHeldUp DEF InEX, IntTaken, SimInv, OperandsInEX

(* The address a transfer is fetched from is the one ISA names when the    *)
(* transfer has moved to MEM.                                              *)
LEMMA FetchFollows ==
  ASSUME SimInv, RNext, Kept
  PROVE  /\ Taken' => FetchPC = Target' /\ d2e.ctl.flow # "none"
         /\ ~Taken' /\ ~IntTaken => FetchPC = pc
<1> DEFINE i == d2e.ireg
           flow == d2e.ctl.flow
<1>1. Clock /\ excArch' = ExceptionsNext
  BY DEF RNext
<1>2. e2m'.ctl = d2e.ctl /\ e2m'.ireg = i /\ e2m'.pc = d2e.pc
  BY <1>1, LaterLatchesMove
<1>3. flow \in FlowOps
  BY D2EFields DEF SimInv, ControlInv, TypeOK, CtlType
<1>4. CASE flow = "none"
  <2>1. ~Taken'
    BY <1>2, <1>4 DEF Taken
  <2>2. ~SyscallTaken /\ ~BranchTaken
    BY <1>4 DEF SyscallTaken, BranchTaken
  <2> QED BY <1>4, <2>1, <2>2 DEF FetchPC
<1>5. CASE flow # "none"
  <2>1. /\ InEX /\ ~Stalled /\ ~IntTaken /\ d2e.ctl = Ctl(i) /\ i \in Instr
        /\ OperandsOf(d2e) /\ zArch' = zFlag
    BY <1>5, TransferInEX
  <2>2. CASE flow = "syscall"
    <3>1. SyscallTaken
      BY <2>1, <2>2 DEF SyscallTaken
    <3> QED BY <1>2, <2>2, <3>1 DEF Taken, Target, FetchPC
  <2>3. ASSUME flow # "syscall" PROVE ~SyscallTaken
    BY <2>3 DEF SyscallTaken
  <2>4. CASE flow = "j"
    <3>1. FetchPC = d2e.jDest /\ Taken'
      BY <1>2, <2>1, <2>3, <2>4 DEF FetchPC, Taken
    <3>2. d2e.jDest = d2e.pc + 1 + SignExt12(Address(i))
      BY <2>1, <2>4 DEF OperandsOf
    <3> QED BY <1>2, <2>4, <3>1, <3>2 DEF Target
  <2>5. CASE flow = "jr"
    <3>1. FetchPC = d2e.jDest /\ Taken'
      BY <1>2, <2>1, <2>3, <2>5 DEF FetchPC, Taken
    <3>2. ReadsA(i)
      BY <2>1, <2>5, FieldsOfCtl DEF FlowCtl, ReadsA
    <3>3. d2e.jDest = RRead(Regs2, RegA(i))
      BY <2>1, <2>5, <3>2 DEF OperandsOf
    <3>4. RRead(Regs1, RegA(e2m.ireg))' = RRead(Regs2, RegA(i))
      BY <1>1, <1>2, StateMoves
    <3> QED BY <1>2, <2>5, <3>1, <3>3, <3>4 DEF Target
  <2>6. CASE flow = "reti"
    <3>1. FetchPC = d2e.jDest /\ Taken'
      BY <1>2, <2>1, <2>3, <2>6 DEF FetchPC, Taken
    <3>2. d2e.jDest = epc /\ e2m.ctl.exc # "mtepc" /\ m2w.ctl.exc # "mtepc"
      BY <2>6 DEF SimInv, ControlInv, ReturnAddressIsCurrent
    <3>3. ~cut.ex
      BY <2>6 DEF SimInv, Sequence, Quiet
    <3>4. epc = excArch'.epc
      BY <1>1, <3>2, <3>3 DEF SimInv, Saved
    <3> QED BY <1>2, <2>6, <3>1, <3>2, <3>4 DEF Target
  <2>7. CASE flow \in {"bz", "bhleq"}
    <3>1. pc + SignExt12(Address(i)) = d2e.pc + 2 + SignExt12(Address(i))
      <4>1. e2m.ctl.flow = "none" /\ ~cut.ex
        BY <2>1, <2>7 DEF OperandsOf, SimInv, Sequence, Quiet
      <4>2. f2d.pc = d2e.pc + 1
        BY <2>1, <4>1 DEF SimInv, Sequence, Taken
      <4>3. pc = f2d.pc + 1 /\ d2e.pc \in Int /\ SignExt12(Address(i)) \in Int
        BY <2>1, D2EFields, SignExt12Type DEF InEX, SimInv, ControlInv, TypeOK, Fetched
      <4> QED BY <4>2, <4>3
    <3>2. flow = "bhleq" => Hi1' = hi /\ Lo1' = lo
      <4> SUFFICES ASSUME flow = "bhleq" PROVE Hi1' = hi /\ Lo1' = lo
        OBVIOUS
      <4>1. ~WritesHiLo(e2m) /\ ~WritesHiLo(m2w)
        BY <2>1 DEF OperandsOf
      <4> QED BY <1>1, <4>1, StateMoves, HalvesKept DEF WritesHiLo
    <3>3. Taken' <=> BranchTaken
      BY <1>2, <2>1, <2>7, <3>2 DEF Taken, BranchTaken
    <3>4. ~SyscallTaken /\ flow \notin {"reti", "j", "jr"}
      BY <2>3, <2>7
    <3>5. FetchPC = IF BranchTaken THEN pc + SignExt12(Address(i)) ELSE pc
      BY <2>1, <3>4 DEF FetchPC
    <3> QED BY <1>2, <2>7, <3>1, <3>3, <3>5 DEF Target
  <2> QED BY <1>3, <1>5, <2>2, <2>4, <2>5, <2>6, <2>7 DEF FlowOps
<1> QED BY <1>4, <1>5

LEMMA SequenceStep == SimInv /\ RNext /\ Kept => Sequence'
<1> SUFFICES ASSUME SimInv, RNext, Kept PROVE Sequence'
  OBVIOUS
<1>1. /\ Clock /\ TypeOK /\ cycle \in Nat /\ cycle' = cycle + 1
      /\ cut'.ex = IntTaken /\ cut'.mem = cut.ex
  BY DEF SimInv, ControlInv, TypeOK, RNext, Clock
<1>2. /\ d2e'.bubble = (Stalled \/ LoadUse) /\ d2e'.ireg = f2d.ireg /\ d2e'.pc = f2d.pc
      /\ d2e'.ctl = (IF Stalled \/ LoadUse THEN NopCtl ELSE Ctl(f2d.ireg))
      /\ e2m'.bubble = d2e.bubble /\ e2m'.ireg = d2e.ireg /\ e2m'.pc = d2e.pc
      /\ e2m'.ctl = d2e.ctl
  BY <1>1, LatchesMove, LaterLatchesMove
<1>3. d2e'.bubble <=> Stalled
  BY <1>2, NothingHeldUp
<1>4. f2d'.pc = IF Stalled THEN f2d.pc ELSE FetchPC
  BY <1>1 DEF Clock
<1>5. ASSUME Taken' PROVE InEX' /\ f2d'.pc = Target' /\ ~cut'.ex
  <2>1. FetchPC = Target' /\ d2e.ctl.flow # "none"
    BY <1>5, FetchFollows
  <2>2. InEX /\ ~Stalled /\ ~IntTaken
    BY <2>1, TransferInEX
  <2>3. InEX' /\ f2d'.pc = FetchPC
    BY <1>1, <1>3, <1>4, <2>2 DEF InEX
  <2> QED BY <1>1, <2>1, <2>2, <2>3
<1>6. ASSUME ~Taken', InEX', ~cut'.ex PROVE f2d'.pc = d2e'.pc + 1
  <2>1. ~Stalled /\ ~IntTaken /\ cycle >= 1
    BY <1>1, <1>3, <1>6 DEF InEX
  <2>2. FetchPC = pc /\ pc = f2d.pc + 1
    BY <1>6, <2>1, FetchFollows DEF SimInv, Fetched
  <2> QED BY <1>2, <1>4, <2>1, <2>2
<1>7. ASSUME cut'.ex PROVE InEX' /\ Quiet(d2e)' /\ f2d'.pc = EXC_VECTOR /\ ~cut'.mem
  <2>1. IntTaken /\ ~Stalled
    BY <1>1, <1>7 DEF IntTaken
  <2>2. f2d'.pc = EXC_VECTOR
    BY <1>4, <2>1 DEF FetchPC
  <2>3. cycle >= 2
    BY <1>1, <2>1 DEF IntTaken, SimInv, Startup
  <2>4. InEX' /\ d2e'.ctl = Ctl(f2d.ireg)
    BY <1>1, <1>2, <1>3, <2>1, <2>3, NothingHeldUp DEF InEX
  <2>5. Quiet(d2e)'
    BY <1>2, <2>1, <2>4 DEF Quiet, Kept, ExceptionRegsRule, QuietDecodeRule, Toggles
  <2>6. ~cut.ex
    <3>1. cut.ex => ~ien
      BY DEF SimInv, Sequence, InEX, Enabled, IenAfterEX
    <3> QED BY <2>1, <3>1 DEF IntTaken
  <2> QED BY <1>1, <2>2, <2>4, <2>5, <2>6
<1>8. ASSUME cut'.mem
      PROVE  InMEM' /\ Quiet(e2m)' /\ EXC_VECTOR = IF InEX' THEN d2e'.pc ELSE f2d'.pc
  <2>1. InEX /\ Quiet(d2e) /\ f2d.pc = EXC_VECTOR
    BY <1>1, <1>8 DEF SimInv, Sequence
  <2>2. InMEM' /\ Quiet(e2m)'
    BY <1>1, <1>2, <2>1 DEF InEX, InMEM, Quiet, Toggles
  <2>3. ~InEX' => Stalled
    BY <1>1, <1>3, <2>1 DEF InEX
  <2> QED BY <1>2, <1>4, <2>1, <2>2, <2>3
<1> QED BY <1>5, <1>6, <1>7, <1>8 DEF Sequence

-----------------------------------------------------------------------------
(* The invariant is kept: interrupt enable, EPC and ECA. *)

(* The exception registers past the instruction in EX, seen one clock on.  *)
LEMMA ExceptionsAfter ==
  ASSUME SimInv, RNext
  PROVE  /\ ExceptionsNext'.ien = IF d2e.bubble THEN ExceptionsNext.ien
                                ELSE IF cut.ex \/ d2e.ctl.flow = "syscall" THEN FALSE
                                ELSE IF d2e.ctl.flow = "reti" \/ IsM4(d2e.ireg, EI) THEN TRUE
                                ELSE IF IsM4(d2e.ireg, DI) THEN FALSE ELSE ExceptionsNext.ien
         /\ ExceptionsNext'.epc = IF d2e.bubble THEN ExceptionsNext.epc
                                ELSE IF cut.ex THEN (d2e.pc + 1) % WordSize
                                ELSE IF d2e.ctl.flow = "syscall" THEN (d2e.pc + 2) % WordSize
                                ELSE IF d2e.ctl.exc = "mtepc" THEN e2m'.alu.value
                                ELSE ExceptionsNext.epc
         /\ ExceptionsNext'.eca = IF d2e.bubble THEN ExceptionsNext.eca
                                ELSE IF cut.ex THEN 255
                                ELSE IF d2e.ctl.flow = "syscall" THEN 256 + Byte(d2e.ireg)
                                ELSE ExceptionsNext.eca
<1>1. excArch' = ExceptionsNext /\ Clock /\ cut' = [ex |-> IntTaken, mem |-> cut.ex]
  BY DEF RNext
<1>2. /\ e2m'.bubble = d2e.bubble /\ e2m'.ireg = d2e.ireg /\ e2m'.pc = d2e.pc
      /\ e2m'.ctl = d2e.ctl /\ cut'.mem = cut.ex
  BY <1>1, LaterLatchesMove
<1>3. ControlInv' /\ HistoryType' /\ LatchesAreHonest'
  BY <1>1, ClockKeepsControl, HistoryStep, HonestyStep DEF SimInv
<1>4. (ControlInv /\ HistoryType /\ LatchesAreHonest)' =>
        (ExceptionsNext.ien = IenNext /\ ExceptionsNext.epc = EpcNext /\ ExceptionsNext.eca = EcaNext)'
  BY ExceptionsMove, PTL
<1> QED BY <1>1, <1>2, <1>3, <1>4 DEF IenNext, EpcNext, EcaNext


LEMMA EnabledStep == SimInv /\ RNext /\ Kept => Enabled'
<1> SUFFICES ASSUME SimInv, RNext, Kept PROVE Enabled'
  OBVIOUS
<1> DEFINE N  == ExceptionsNext.ien
           Nn == ExceptionsNext'.ien
<1>1. /\ Clock /\ ien' = IenDecoded /\ excArch' = ExceptionsNext
      /\ cut'.ex = IntTaken /\ cut'.mem = cut.ex
  BY DEF RNext, Clock
<1>2. d2e'.bubble = (Stalled \/ LoadUse) /\ d2e'.ireg = f2d.ireg
  BY <1>1, LatchesMove
<1>3. /\ LoadUse => Stalled
      /\ Toggles(f2d.ireg) => ~Stalled
      /\ d2e.ctl.flow # "none" => ~Stalled
  BY NothingHeldUp
<1>4. Nn = IF d2e.bubble THEN N
           ELSE IF cut.ex \/ d2e.ctl.flow = "syscall" THEN FALSE
           ELSE IF d2e.ctl.flow = "reti" \/ IsM4(d2e.ireg, EI) THEN TRUE
           ELSE IF IsM4(d2e.ireg, DI) THEN FALSE ELSE N
  BY ExceptionsAfter
<1>5. ien = IenAfterEX /\ ien \in BOOLEAN /\ (cut.ex => N)
  BY DEF SimInv, ControlInv, TypeOK, Enabled
<1>6. d2e.ctl.flow # "none" => ~d2e.bubble /\ ~cut.ex /\ ~Toggles(d2e.ireg)
  <2> SUFFICES ASSUME d2e.ctl.flow # "none"
      PROVE  ~d2e.bubble /\ ~cut.ex /\ ~Toggles(d2e.ireg)
    OBVIOUS
  <2>1. InEX /\ d2e.ctl = Ctl(d2e.ireg) /\ d2e.ireg \in Instr
    BY TransferInEX
  <2>2. ~cut.ex
    BY DEF SimInv, Sequence, Quiet
  <2> QED BY <2>1, <2>2, TransferWrites DEF InEX
<1>7. ~IsM4(d2e.ireg, EI) \/ ~IsM4(d2e.ireg, DI)
  BY DEF IsM4, EI, DI
<1> HIDE DEF N, Nn
(* Past the instruction in EX, the enable is what the fetch makes of it.   *)
<1>8. Nn = IF d2e.ctl.flow = "syscall" THEN FALSE
           ELSE IF d2e.ctl.flow = "reti" THEN TRUE ELSE ien
  BY <1>4, <1>5, <1>6, <1>7 DEF IenAfterEX, Toggles, N
<1>9. IntTaken => ien /\ d2e.ctl.flow = "none" /\ ~Stalled
  BY DEF IntTaken
<1>10. IenFetched = IF IntTaken THEN FALSE ELSE Nn
  BY <1>3, <1>8, <1>9 DEF IenFetched, SyscallTaken
<1>11. IntTaken => ~Toggles(f2d.ireg)
  BY DEF Kept, QuietDecodeRule, Toggles
<1>12. ien' = IenAfterEX'
  <2>1. ~IsM4(f2d.ireg, EI) \/ ~IsM4(f2d.ireg, DI)
    BY DEF IsM4, EI, DI
  <2>2. (d2e'.bubble <=> Stalled) /\ (cut'.ex <=> IntTaken)
    BY <1>1, <1>2, <1>3
  <2>3. /\ Stalled => IenAfterEX' = Nn
        /\ ~Stalled /\ IntTaken => IenAfterEX' = FALSE
        /\ ~Stalled /\ ~IntTaken /\ IsM4(f2d.ireg, EI) => IenAfterEX' = TRUE
        /\ ~Stalled /\ ~IntTaken /\ ~IsM4(f2d.ireg, EI) /\ IsM4(f2d.ireg, DI)
             => IenAfterEX' = FALSE
        /\ ~Stalled /\ ~IntTaken /\ ~IsM4(f2d.ireg, EI) /\ ~IsM4(f2d.ireg, DI)
             => IenAfterEX' = Nn
    BY <1>2, <2>1, <2>2 DEF IenAfterEX, Nn
  <2>4. CASE Stalled
    BY <1>1, <1>3, <1>9, <1>10, <2>3, <2>4 DEF IenDecoded, Toggles
  <2>5. CASE ~Stalled /\ IntTaken
    BY <1>1, <1>10, <1>11, <2>3, <2>5 DEF IenDecoded, Toggles
  <2>6. CASE ~Stalled /\ ~IntTaken
    BY <1>1, <1>10, <2>3, <2>1, <2>6 DEF IenDecoded
  <2> QED BY <2>4, <2>5, <2>6
<1>13. cut'.ex => Nn
  BY <1>1, <1>8, <1>9
<1>14. cut'.mem => excArch'.ien
  BY <1>1, <1>5 DEF N
<1> QED BY <1>12, <1>13, <1>14 DEF Enabled, Nn

LEMMA SavedStep == SimInv /\ RNext /\ Kept => Saved'
<1> SUFFICES ASSUME SimInv, RNext, Kept PROVE Saved'
  OBVIOUS
<1> DEFINE flow == d2e.ctl.flow
<1>1. /\ Clock /\ excArch' = ExceptionsNext /\ cut'.ex = IntTaken /\ cut'.mem = cut.ex
      /\ epc' = IF m2w.ctl.exc = "mtepc" THEN m2w.alu.value ELSE EpcFetched
      /\ eca' = EcaFetched
  BY DEF RNext, Clock
<1>2. /\ e2m'.ctl = d2e.ctl /\ m2w'.ctl = e2m.ctl /\ m2w'.alu = e2m.alu
      /\ d2e'.pc = f2d.pc
  BY <1>1, LatchesMove, LaterLatchesMove
<1>3. /\ ExceptionsNext.epc = EpcNext
      /\ ExceptionsNext'.epc = IF d2e.bubble THEN ExceptionsNext.epc
                             ELSE IF cut.ex THEN (d2e.pc + 1) % WordSize
                             ELSE IF flow = "syscall" THEN (d2e.pc + 2) % WordSize
                             ELSE IF d2e.ctl.exc = "mtepc" THEN e2m'.alu.value
                             ELSE ExceptionsNext.epc
      /\ ExceptionsNext'.eca = IF d2e.bubble THEN ExceptionsNext.eca
                             ELSE IF cut.ex THEN 255
                             ELSE IF flow = "syscall" THEN 256 + Byte(d2e.ireg)
                             ELSE ExceptionsNext.eca
  BY ExceptionsMove, ExceptionsAfter DEF SimInv
<1>4. /\ flow = "syscall" => SyscallTaken /\ ~IntTaken /\ ~d2e.bubble /\ ~cut.ex
      /\ SyscallTaken => flow = "syscall"
  <2>1. flow = "syscall" => ~Stalled /\ ~IntTaken /\ InEX
    BY TransferInEX
  <2>2. flow = "syscall" => ~cut.ex
    BY DEF SimInv, Sequence, Quiet
  <2> QED BY <2>1, <2>2 DEF SyscallTaken, InEX
<1>5. IntTaken \/ SyscallTaken =>
        d2e.ctl.exc # "mtepc" /\ e2m.ctl.exc # "mtepc" /\ m2w.ctl.exc # "mtepc"
  BY DEF Kept, ExceptionRegsRule
<1>6. cut.ex => /\ ~d2e.bubble /\ epc = (d2e.pc + 1) % WordSize /\ eca = 255
                /\ e2m.ctl.exc # "mtepc" /\ m2w.ctl.exc # "mtepc"
  BY DEF SimInv, Saved, Sequence, InEX
<1>7. ASSUME IntTaken PROVE epc' = (d2e'.pc + 1) % WordSize /\ eca' = 255
  <2>1. cycle >= 1 /\ pc = f2d.pc + 1
    BY <1>7 DEF IntTaken, SimInv, ControlInv, TypeOK, Startup, Fetched
  <2> QED BY <1>1, <1>2, <1>5, <1>7, <2>1 DEF EpcFetched, EcaFetched
<1>8. ~IntTaken => eca' = ExceptionsNext'.eca
  BY <1>1, <1>3, <1>4, <1>6 DEF EcaFetched, SimInv, Saved
<1>9. ASSUME ~IntTaken, d2e.ctl.exc # "mtepc", e2m.ctl.exc # "mtepc"
      PROVE  epc' = ExceptionsNext'.epc
  <2>1. CASE m2w.ctl.exc = "mtepc"
    <3>1. epc' = excArch.epc
      BY <1>1, <2>1 DEF SimInv, Saved
    <3>2. ~cut.ex /\ ~cut.mem /\ e2m.ctl.flow # "syscall" /\ flow # "syscall"
      BY <1>4, <1>5, <1>6, <2>1 DEF SimInv, Saved
    <3>3. EpcNext = excArch.epc
      BY <1>9, <3>2 DEF EpcNext
    <3> QED BY <1>3, <1>9, <3>1, <3>2, <3>3
  <2>2. CASE m2w.ctl.exc # "mtepc"
    BY <1>1, <1>3, <1>4, <1>6, <1>9, <2>2 DEF EpcFetched, SimInv, Saved
  <2> QED BY <2>1, <2>2
<1>10. e2m.ctl.exc = "mtepc" => excArch'.epc = e2m.alu.value
  <2> SUFFICES ASSUME e2m.ctl.exc = "mtepc" PROVE EpcNext = e2m.alu.value
    BY <1>1, <1>3
  <2>1. ~e2m.bubble /\ e2m.ctl = Ctl(e2m.ireg) /\ e2m.ireg \in Instr
    BY E2MFields DEF SimInv, ControlInv, TypeOK, LatchesAreHonest, Honest, NopCtl
  <2>2. e2m.ctl.flow # "syscall"
    BY <2>1, TransferWrites
  <2>3. ~cut.mem
    BY DEF SimInv, Sequence, Quiet
  <2> QED BY <2>1, <2>2, <2>3 DEF EpcNext
<1> HIDE DEF flow
<1>11. e2m'.ctl.flow = "syscall" => m2w'.ctl.exc # "mtepc"
  BY <1>2, <1>4, <1>5 DEF flow
<1> QED BY <1>1, <1>2, <1>5, <1>6, <1>7, <1>8, <1>9, <1>10, <1>11 DEF Saved

-----------------------------------------------------------------------------
(* The invariant. *)

LEMMA SimInit == RInit => SimInv
<1> SUFFICES ASSUME RInit PROVE SimInv
  OBVIOUS
<1>1. /\ cycle = 0 /\ pc = 0 /\ f2d = [ireg |-> NOP, pc |-> 0] /\ stallCtr = 0
      /\ ien = FALSE /\ epc = 0 /\ eca = 0
      /\ zArch = TRUE /\ excArch = [epc |-> 0, eca |-> 0, ien |-> FALSE]
      /\ cut = [ex |-> FALSE, mem |-> FALSE]
  BY DEF RInit, Init
<1>2. /\ d2e.bubble /\ e2m.bubble /\ m2w.bubble /\ d2e.ireg = NOP
      /\ d2e.sel = 0 /\ e2m.sel = 0 /\ m2w.sel = 0
      /\ d2e.ireg = NOP /\ e2m.ireg = NOP /\ m2w.ireg = NOP
      /\ d2e.ctl = NopCtl /\ e2m.ctl = NopCtl /\ m2w.ctl = NopCtl
  BY DEF RInit, Init, EmptyD2E, EmptyE2M, EmptyM2W
<1>3. ControlInv /\ TypeOK
  BY InitControl DEF RInit, ControlInv
<1>4. HistoryType
  <2>1. 0 \in Word
    BY WordBounds
  <2> QED BY <1>1, <2>1 DEF HistoryType
<1>5. LatchesAreHonest
  <2>1. RegA(NOP) = 0
    BY DEF RegA, RegInFunc, IsM1, M4, NOP, OP_R, OP_M1
  <2> QED BY <1>2, <2>1 DEF LatchesAreHonest, Honest
<1>6. Startup /\ Fetched /\ TogglesAtOnce
  BY <1>1, <1>2 DEF Startup, Idle, Fetched, InEX, InMEM, TogglesAtOnce
<1>7. OperandsInEX /\ ResultsInMEM /\ ZeroFlag
  BY <1>1, <1>2 DEF OperandsInEX, ResultsInMEM, ZeroFlag
<1>8. ExceptionsNext = excArch /\ NopCtl.flow = "none" /\ NopCtl.exc = "none"
  BY <1>2 DEF ExceptionsNext, NopCtl
<1>9. Sequence
  BY <1>1, <1>2, <1>8 DEF Sequence, Taken, InEX
<1>10. Enabled /\ Saved
  BY <1>1, <1>2, <1>8 DEF Enabled, IenAfterEX, Saved
<1> QED
  BY <1>3, <1>4, <1>5, <1>6, <1>7, <1>9, <1>10 DEF SimInv

LEMMA SimStep == SimInv /\ RNext /\ Kept => SimInv'
<1> SUFFICES ASSUME SimInv, RNext, Kept PROVE SimInv'
  OBVIOUS
<1>1. Clock /\ excArch' = ExceptionsNext
  BY DEF RNext
<1>2. ControlInv' /\ HistoryType' /\ LatchesAreHonest'
  BY <1>1, ClockKeepsControl, HistoryStep, HonestyStep DEF SimInv
<1>3. OperandsInEX' /\ ResultsInMEM'
  BY <1>1, OperandsStep, ResultsStep
<1> QED
  BY <1>2, <1>3, StartupStep, ZeroFlagStep, SequenceStep, EnabledStep, SavedStep DEF SimInv

LEMMA SimStutter == SimInv /\ UNCHANGED <<vars, history>> => SimInv'
<1> SUFFICES ASSUME SimInv, UNCHANGED <<vars, history>> PROVE SimInv'
  OBVIOUS
<1>1. /\ UNCHANGED <<cycle, prog, pc, regs, hi, lo, sp, zFlag, epc, eca, ien, intPin, dmem>>
      /\ UNCHANGED <<f2d, d2e, e2m, m2w, stallCtr, zArch, excArch, cut>>
  BY DEF vars, arch, latch, history
<1>2. ControlInv' /\ HistoryType'
  BY <1>1 DEF SimInv, ControlInv, TypeOK, BubblesAreInert, ControlIsDecoded,
              StallFollowsLoad, ReturnAddressIsCurrent, HistoryType
<1>3. LatchesAreHonest' /\ Startup' /\ Fetched' /\ TogglesAtOnce'
  BY <1>1 DEF SimInv, LatchesAreHonest, Honest, Startup, Idle, Fetched, InEX, InMEM, TogglesAtOnce
<1>4. Regs1' = Regs1 /\ SP1' = SP1 /\ Hi1' = Hi1 /\ Lo1' = Lo1 /\ Loaded(e2m)' = Loaded(e2m)
  BY <1>1 DEF Regs1, SP1, Hi1, Lo1, WrittenRegs, WrittenSP, WrittenHi, WrittenLo, HalfWritten,
              Loaded
<1>5. Regs2' = Regs2 /\ SP2' = SP2
  BY <1>1, <1>4 DEF Regs2, SP2
<1>6. OperandsInEX' /\ ResultsInMEM' /\ ZeroFlag'
  BY <1>1, <1>4, <1>5 DEF SimInv, OperandsInEX, OperandsOf, ResultsInMEM, ResultsOf, ZeroFlag
<1>7. Taken' = Taken /\ Target' = Target /\ InEX' = InEX /\ InMEM' = InMEM
  BY <1>1, <1>4 DEF Taken, Target, InEX, InMEM
<1>8. Sequence'
  BY <1>1, <1>7 DEF SimInv, Sequence, Quiet, Toggles
<1>9. ExceptionsNext' = ExceptionsNext
  BY <1>1 DEF ExceptionsNext, ExceptionState
<1>10. Enabled' /\ Saved'
  BY <1>1, <1>9 DEF SimInv, Enabled, IenAfterEX, Saved
<1> QED
  BY <1>2, <1>3, <1>6, <1>8, <1>10 DEF SimInv

(* For software that keeps every rule, each latch holds at every moment    *)
(* what the programmer's model would compute at that point of the program. *)
THEOREM LatchesHoldTheProgram ==
  ASSUME Discipline = Rules
  PROVE  RSpec => []SimInv
<1>1. SimInv /\ [RNext]_<<vars, history>> => SimInv'
  BY SimStep, SimStutter, RulesAreKept DEF RNext
<1> QED
  BY SimInit, <1>1, PTL DEF RSpec

-----------------------------------------------------------------------------
(* ISA's instruction set is the pipeline's: both extend ANEM16, and the    *)
(* instance only gives the operators a second name.                        *)

LEMMA SameOpcodes ==
  /\ Abs!OP_R = OP_R /\ Abs!OP_S = OP_S /\ Abs!OP_SW = OP_SW
  /\ Abs!OP_LW = OP_LW /\ Abs!OP_LIU = OP_LIU /\ Abs!OP_LIL = OP_LIL
  /\ Abs!OP_BHLEQ = OP_BHLEQ /\ Abs!OP_STACK = OP_STACK /\ Abs!OP_BZ = OP_BZ
  /\ Abs!OP_BZ_T = OP_BZ_T /\ Abs!OP_BZ_N = OP_BZ_N /\ Abs!OP_ADDI = OP_ADDI
  /\ Abs!OP_JR = OP_JR /\ Abs!OP_JAL = OP_JAL /\ Abs!OP_M1 = OP_M1
  /\ Abs!OP_J = OP_J
BY DEF Abs!OP_R, OP_R, Abs!OP_S, OP_S, Abs!OP_SW, OP_SW, Abs!OP_LW, OP_LW, Abs!OP_LIU, OP_LIU,
       Abs!OP_LIL, OP_LIL, Abs!OP_BHLEQ, OP_BHLEQ, Abs!OP_STACK, OP_STACK, Abs!OP_BZ, OP_BZ,
       Abs!OP_BZ_T, OP_BZ_T, Abs!OP_BZ_N, OP_BZ_N, Abs!OP_ADDI, OP_ADDI, Abs!OP_JR, OP_JR,
       Abs!OP_JAL, OP_JAL, Abs!OP_M1, OP_M1, Abs!OP_J, OP_J

LEMMA SameFunctions ==
  /\ Abs!PUSH = PUSH /\ Abs!POP = POP /\ Abs!SPRD = SPRD /\ Abs!SPWR = SPWR
  /\ Abs!LHL = LHL /\ Abs!LHH = LHH /\ Abs!LLL = LLL /\ Abs!LLH = LLH
  /\ Abs!AIS = AIS /\ Abs!AIH = AIH /\ Abs!AIL = AIL /\ Abs!MFHI = MFHI
  /\ Abs!MFLO = MFLO /\ Abs!MTHI = MTHI /\ Abs!MTLO = MTLO
  /\ Abs!SYSCALL = SYSCALL /\ Abs!M4 = M4 /\ Abs!LPM = LPM /\ Abs!RETI = RETI
  /\ Abs!EI = EI /\ Abs!DI = DI /\ Abs!MFEPC = MFEPC /\ Abs!MFECA = MFECA
  /\ Abs!MTEPC = MTEPC
BY DEF Abs!PUSH, PUSH, Abs!POP, POP, Abs!SPRD, SPRD, Abs!SPWR, SPWR, Abs!LHL, LHL, Abs!LHH, LHH,
       Abs!LLL, LLL, Abs!LLH, LLH, Abs!AIS, AIS, Abs!AIH, AIH, Abs!AIL, AIL, Abs!MFHI, MFHI,
       Abs!MFLO, MFLO, Abs!MTHI, MTHI, Abs!MTLO, MTLO, Abs!SYSCALL, SYSCALL, Abs!M4, M4, Abs!LPM,
       LPM, Abs!RETI, RETI, Abs!EI, EI, Abs!DI, DI, Abs!MFEPC, MFEPC, Abs!MFECA, MFECA, Abs!MTEPC,
       MTEPC

LEMMA SameConstants ==
  /\ Abs!LinkReg = LinkReg /\ Abs!EXC_VECTOR = EXC_VECTOR
  /\ Abs!WordSize = WordSize /\ Abs!Word = Word /\ Abs!Nibble = Nibble
  /\ Abs!Reg = Reg /\ Abs!Instr = Instr /\ Abs!ResetSP = ResetSP
  /\ Abs!DMemSize = DMemSize /\ Abs!IMemSize = IMemSize /\ Abs!NOP = NOP
  /\ Abs!ZeroWord = ZeroWord
BY DEF Abs!LinkReg, LinkReg, Abs!EXC_VECTOR, EXC_VECTOR, Abs!WordSize, WordSize, Abs!Word, Word,
       Abs!Nibble, Nibble, Abs!Reg, Reg, Abs!Instr, Instr, Abs!ResetSP, ResetSP, Abs!DMemSize,
       DMemSize, Abs!IMemSize, IMemSize, Abs!NOP, NOP, Abs!ZeroWord, ZeroWord, Abs!OP_R, OP_R,
       Abs!F_AND, F_AND, Abs!F_OR, F_OR

LEMMA SameFields ==
  /\ \A i : Abs!Byte(i) = Byte(i) /\ Abs!Address(i) = Address(i) /\ Abs!ToWord(i) = ToWord(i)
  /\ \A x : Abs!SignExt8(x) = SignExt8(x) /\ Abs!SignExt12(x) = SignExt12(x)
  /\ \A i, m : Abs!IsM1(i, m) <=> IsM1(i, m)
  /\ \A i, m : Abs!IsM4(i, m) <=> IsM4(i, m)
  /\ \A i, m : Abs!IsStack(i, m) <=> IsStack(i, m)
BY SameOpcodes, SameFunctions
DEF Abs!Byte, Byte, Abs!Address, Address, Abs!ToWord, ToWord, Abs!SignExt8, SignExt8,
    Abs!SignExt12, SignExt12, Abs!IsM1, IsM1, Abs!IsM4, IsM4, Abs!IsStack, IsStack

LEMMA SameStorage ==
  /\ \A p, n : Abs!FetchWord(p, n) = FetchWord(p, n)
  /\ \A m, n : Abs!DRead(m, n) = DRead(m, n)
  /\ \A m, n, v : Abs!DWrite(m, n, v) = DWrite(m, n, v)
  /\ \A rs, r : Abs!RRead(rs, r) = RRead(rs, r)
  /\ \A rs, r, v : Abs!RWrite(rs, r, v) = RWrite(rs, r, v)
  /\ \A p : Abs!IsProgram(p) <=> IsProgram(p)
  /\ \A m : Abs!IsMemory(m) <=> IsMemory(m)
BY SameConstants
DEF Abs!FetchWord, FetchWord, Abs!DRead, DRead, Abs!DWrite, DWrite, Abs!RRead, RRead,
    Abs!RWrite, RWrite, Abs!IsProgram, IsProgram, Abs!IsMemory, IsMemory

LEMMA SameALU ==
  /\ Abs!F_MUL = F_MUL
  /\ \A x, y : Abs!MulHigh(x, y) = MulHigh(x, y)
  /\ \A f, x, y : Abs!AluR(f, x, y) = AluR(f, x, y)
  /\ \A f, x, s : Abs!AluS(f, x, s) = AluS(f, x, s)
<1>1. /\ Abs!F_AND = F_AND /\ Abs!F_OR = F_OR /\ Abs!F_MUL = F_MUL /\ Abs!F_SUB = F_SUB
      /\ Abs!F_SLT = F_SLT /\ Abs!F_SGT = F_SGT /\ Abs!F_NOR = F_NOR /\ Abs!F_XOR = F_XOR
      /\ Abs!F_SAR = F_SAR /\ Abs!F_SHR = F_SHR /\ Abs!F_SHL = F_SHL /\ Abs!F_ROR = F_ROR
      /\ Abs!F_ROL = F_ROL
  BY DEF Abs!F_AND, F_AND, Abs!F_OR, F_OR, Abs!F_MUL, F_MUL, Abs!F_SUB, F_SUB, Abs!F_SLT, F_SLT, Abs!F_SGT, F_SGT, Abs!F_NOR, F_NOR, Abs!F_XOR, F_XOR, Abs!F_SAR, F_SAR, Abs!F_SHR, F_SHR, Abs!F_SHL, F_SHL, Abs!F_ROR, F_ROR, Abs!F_ROL, F_ROL
<1>2. \A n : Abs!Two(n) = Two(n)
  BY DEF Abs!Two, Two, Abs!Pow2, Pow2
<1>3. \A x, n : Abs!Bit(x, n) = Bit(x, n)
  BY <1>2 DEF Abs!Bit, Bit
<1>4. \A x, y : Abs!And16(x, y) = And16(x, y)
  BY <1>2, <1>3 DEF Abs!And16, And16
<1>5. \A x, y : Abs!Or16(x, y) = Or16(x, y)
  BY <1>4 DEF Abs!Or16, Or16
<1>6. \A x, y : Abs!Nor16(x, y) = Nor16(x, y) /\ Abs!Xor16(x, y) = Xor16(x, y)
  BY <1>4, <1>5 DEF Abs!Nor16, Nor16, Abs!Xor16, Xor16
<1>7. \A x, y : Abs!MulLow(x, y) = MulLow(x, y) /\ Abs!MulHigh(x, y) = MulHigh(x, y)
  BY SameConstants DEF Abs!MulLow, MulLow, Abs!MulHigh, MulHigh
<1>8. \A x : Abs!Signed(x) = Signed(x)
  BY SameConstants DEF Abs!Signed, Signed
<1>9. \A f, x, y : Abs!AluR(f, x, y) = AluR(f, x, y)
  BY <1>1, <1>4, <1>5, <1>6, <1>7, <1>8 DEF Abs!AluR, AluR
<1>10. \A f, x, s : Abs!AluS(f, x, s) = AluS(f, x, s)
  BY <1>1, <1>2, <1>8 DEF Abs!AluS, AluS
<1> QED BY <1>1, <1>7, <1>9, <1>10

-----------------------------------------------------------------------------
(* The simulation: addresses. *)

(* The oldest instruction behind the one in MEM. *)
Behind == IF InEX THEN d2e.pc ELSE f2d.pc

(* A clock retires the instruction in MEM, if there is one, and nothing    *)
(* else: the oldest instruction is then the one behind it.                 *)
LEMMA AddressesMove ==
  ASSUME SimInv, RNext, Kept
  PROVE  /\ Current' = Behind
         /\ Following' = IF InEX /\ ~cut.ex THEN f2d.pc ELSE Behind + 1
<1>1. /\ Clock /\ cycle \in Nat /\ cycle' = cycle + 1
      /\ cut'.ex = IntTaken /\ cut'.mem = cut.ex
  BY DEF SimInv, ControlInv, TypeOK, RNext, Clock
<1>2. /\ d2e'.bubble = (Stalled \/ LoadUse) /\ d2e'.pc = f2d.pc
      /\ e2m'.bubble = d2e.bubble /\ e2m'.pc = d2e.pc
  BY <1>1, LatchesMove, LaterLatchesMove
<1>3. (d2e'.bubble <=> Stalled) /\ (e2m'.bubble <=> d2e.bubble)
  BY <1>2, NothingHeldUp
<1>4. /\ InMEM' <=> InEX
      /\ InEX' <=> cycle >= 1 /\ ~Stalled
  BY <1>1, <1>3 DEF InEX, InMEM
<1>5. f2d'.pc = IF Stalled THEN f2d.pc ELSE FetchPC
  BY <1>1 DEF Clock
<1>6. ~InEX => ~Taken'
  BY FetchFollows, TransferInEX
<1>7. cycle < 1 => ~Stalled /\ FetchPC = f2d.pc /\ ~InEX
  <2> SUFFICES ASSUME cycle < 1 PROVE ~Stalled /\ FetchPC = f2d.pc /\ ~InEX
    OBVIOUS
  <2>1. ~Stalled /\ ~InEX /\ ~ien /\ pc = f2d.pc
    BY <1>1, FirstClock DEF InEX, SimInv, Startup
  <2>2. ~IntTaken
    BY <2>1 DEF IntTaken
  <2> QED BY <1>6, <2>1, <2>2, FetchFollows
<1>8. cycle >= 1 => pc = f2d.pc + 1
  BY DEF SimInv, Fetched
<1>9. ~InEX /\ ~IntTaken /\ ~Stalled /\ cycle >= 1 => f2d'.pc = f2d.pc + 1
  BY <1>5, <1>6, <1>8, FetchFollows
<1>10. ~InEX' => f2d'.pc = f2d.pc
  BY <1>1, <1>4, <1>5, <1>7
<1>11. Current' = Behind
  BY <1>2, <1>4, <1>10 DEF Current, Behind
<1>12. CASE InEX /\ ~cut.ex
  <2>1. Following' = IF InEX' THEN d2e'.pc ELSE f2d'.pc
    BY <1>1, <1>2, <1>4, <1>12 DEF Following
  <2> QED BY <1>2, <1>10, <1>11, <1>12, <2>1
<1>13. CASE InEX /\ cut.ex
  <2>1. Following' = Current' + 1
    BY <1>1, <1>2, <1>4, <1>13 DEF Following
  <2> QED BY <1>11, <1>13, <2>1
<1>14. CASE ~InEX /\ InEX' /\ ~IntTaken
  <2>1. Following' = f2d'.pc
    BY <1>1, <1>4, <1>14 DEF Following
  <2> QED BY <1>4, <1>9, <1>11, <1>14, <2>1 DEF Behind
<1>15. CASE ~InEX /\ (~InEX' \/ IntTaken)
  <2>1. Following' = Current' + 1
    BY <1>1, <1>4, <1>15 DEF Following
  <2> QED BY <1>11, <1>15, <2>1
<1> QED BY <1>11, <1>12, <1>13, <1>14, <1>15

(* The control flow of ISA: past a transfer that is taken, past any other  *)
(* instruction, and past one that an interrupt follows.                    *)
LEMMA ControlMoves ==
  ASSUME SimInv, RNext, Kept, InMEM
  PROVE  /\ Taken => Abs!Goto(Target)
         /\ ~Taken /\ ~cut.mem => Abs!Advance
         /\ cut.mem => Abs!Interrupted
<1>1. /\ Current' = Behind
      /\ Following' = IF InEX /\ ~cut.ex THEN f2d.pc ELSE Behind + 1
  BY AddressesMove
<1>2. /\ Current = e2m.pc
      /\ Following = IF ~cut.mem THEN Behind ELSE e2m.pc + 1
  BY DEF Current, Following, Behind
<1>3. Following' = IF Taken THEN Target ELSE Behind + 1
  BY <1>1 DEF SimInv, Sequence, Behind
<1>4. Taken => ~cut.mem
  BY DEF Taken, SimInv, Sequence, Quiet
<1>5. CASE Taken
  BY <1>1, <1>2, <1>3, <1>4, <1>5 DEF Abs!Goto
<1>6. CASE ~Taken /\ ~cut.mem
  BY <1>1, <1>2, <1>3, <1>6 DEF Abs!Advance
<1>7. CASE cut.mem
  <2>1. Behind = EXC_VECTOR /\ excArch.ien
    BY <1>7 DEF SimInv, Sequence, Enabled, Behind
  <2>2. excArch' = [epc |-> (e2m.pc + 1) % WordSize, eca |-> 255, ien |-> FALSE]
    BY <1>7 DEF RNext, ExceptionsNext, InMEM
  <2>3. Following = Current + 1 /\ Current' = EXC_VECTOR /\ Following' = EXC_VECTOR + 1
    BY <1>1, <1>2, <1>3, <1>4, <1>7, <2>1
  <2>4. /\ excArch'.epc = Following % WordSize /\ excArch'.eca = 255 /\ ~excArch'.ien
    BY <1>2, <1>7, <2>2
  <2> QED
    BY <1>4, <1>7, <2>1, <2>3, <2>4, SameConstants DEF Abs!Interrupted, Abs!SetExc
<1> QED BY <1>4, <1>5, <1>6, <1>7

-----------------------------------------------------------------------------
(* The simulation: what the instruction that retires changes, in the terms *)
(* of ISA.                                                                 *)

LEMMA Retired ==
  ASSUME SimInv, RNext, InMEM
  PROVE  /\ Clock /\ TypeOK /\ ~e2m.bubble
         /\ e2m.ireg \in Instr /\ e2m.ctl = Ctl(e2m.ireg) /\ e2m.sel = RegA(e2m.ireg)
         /\ ResultsOf(e2m)
         /\ Current = e2m.pc /\ Abs!i = e2m.ireg
         /\ Abs!Ra = RRead(Regs1, e2m.ireg.a) /\ Abs!Rb = RRead(Regs1, e2m.ireg.b)
<1>1. Clock /\ TypeOK /\ ~e2m.bubble
  BY DEF SimInv, ControlInv, InMEM, RNext
<1>2. e2m.ireg \in Instr /\ e2m.ctl = Ctl(e2m.ireg) /\ e2m.sel = RegA(e2m.ireg)
  BY <1>1, E2MFields DEF SimInv, TypeOK, LatchesAreHonest, Honest
<1>3. ResultsOf(e2m)
  BY <1>1 DEF SimInv, ResultsInMEM
<1>4. Current = e2m.pc
  BY DEF Current
<1>5. Abs!i = e2m.ireg
  BY <1>4, SameStorage DEF SimInv, Fetched, Abs!i
<1> QED
  BY <1>1, <1>2, <1>3, <1>4, <1>5, SameStorage DEF Abs!Ra, Abs!Rb, Regs1

(* The general registers. *)
LEMMA RegistersMove ==
  ASSUME SimInv, RNext, InMEM
  PROVE  /\ RegCtl(e2m.ireg) = "NOP" => Abs!SameRegs
         /\ e2m.ireg.op = OP_JAL => Abs!SetReg(LinkReg, (e2m.pc + 2) % WordSize)
         /\ RegCtl(e2m.ireg) \notin {"NOP", "PC"} =>
              \A v : (e2m.ireg.a # 0 => v = WriteValue(e2m, Loaded(e2m)))
                       => Abs!SetReg(RegA(e2m.ireg), v)
<1> DEFINE i == e2m.ireg
<1>1. i \in Instr /\ e2m.ctl = Ctl(i) /\ e2m.sel = RegA(i) /\ Clock
  BY Retired
<1>2. e2m.ctl.reg = IF WritesReg(i) THEN RegCtl(i) ELSE "NOP"
  BY <1>1, FieldsOfCtl
<1>3. WrittenRegs(m2w)' = IF e2m.ctl.reg = "NOP" THEN Regs1
                          ELSE RWrite(Regs1, Dest(e2m), WriteValue(e2m, Loaded(e2m)))
  BY <1>1, StateMoves DEF Regs1, Regs2
<1> HIDE DEF i
<1>4. RegCtl(i) = "NOP" => Abs!SameRegs
  BY <1>2, <1>3 DEF Abs!SameRegs, Regs1
<1>5. ASSUME i.op = OP_JAL PROVE Abs!SetReg(LinkReg, (e2m.pc + 2) % WordSize)
  <2>1. RegCtl(i) = "PC" /\ WritesReg(i)
    BY <1>1, <1>5, DecodeTransfer DEF Moves, Controls, WritesReg
  <2>2. WriteValue(e2m, Loaded(e2m)) = (e2m.pc + 2) % WordSize /\ Dest(e2m) = LinkReg
    BY <1>2, <2>1 DEF WriteValue, Dest
  <2> QED
    BY <1>2, <1>3, <2>1, <2>2, SameStorage DEF Abs!SetReg, Regs1
<1>6. ASSUME RegCtl(i) \notin {"NOP", "PC"},
             NEW v, i.a # 0 => v = WriteValue(e2m, Loaded(e2m))
      PROVE  Abs!SetReg(RegA(i), v)
  <2>1. i.op # OP_JAL
    BY <1>1, <1>6, DecodeTransfer DEF Moves, Controls
  <2>2. CASE i.a = 0
    <3>1. RegA(i) = 0
      BY <2>2 DEF RegA, RegInFunc, IsM4, IsM1, MFHI, MFLO, MTHI, MTLO, LPM, M4
    <3>2. WrittenRegs(m2w)' = Regs1
      BY <1>2, <1>3, <2>1, <2>2 DEF WritesReg
    <3> QED BY <3>1, <3>2, SameStorage DEF Abs!SetReg, Regs1, RWrite
  <2>3. CASE i.a # 0
    <3>1. Dest(e2m) = RegA(i) /\ e2m.ctl.reg = RegCtl(i)
      BY <1>1, <1>2, <1>6, <2>3 DEF Dest, WritesReg
    <3> QED BY <1>3, <1>6, <2>3, <3>1, SameStorage DEF Abs!SetReg, Regs1
  <2> QED BY <2>2, <2>3
<1> QED BY <1>4, <1>5, <1>6 DEF i

(* HI and LO. *)
LEMMA HalvesMove ==
  ASSUME Clock
  PROVE  /\ Hi1' = CASE e2m.ctl.hi = "mul" -> e2m.alu.hi
                     [] e2m.ctl.hi = "AIS" ->
                          (e2m.hiOut + (e2m.loOut + Byte(e2m.ireg)) \div WordSize) % WordSize
                     [] OTHER -> HalfWritten(e2m.ctl.hi, Hi1, e2m.hiOut, e2m)
         /\ Lo1' = CASE e2m.ctl.lo = "mul" -> e2m.alu.value
                     [] e2m.ctl.lo = "AIS" -> (e2m.loOut + Byte(e2m.ireg)) % WordSize
                     [] OTHER -> HalfWritten(e2m.ctl.lo, Lo1, e2m.loOut, e2m)
<1>1. /\ m2w'.ireg = e2m.ireg /\ m2w'.ctl = e2m.ctl /\ m2w'.alu = e2m.alu
      /\ m2w'.regaOut = e2m.regaOut /\ m2w'.hiOut = e2m.hiOut /\ m2w'.loOut = e2m.loOut
  BY LaterLatchesMove
<1>2. hi' = Hi1 /\ lo' = Lo1
  BY DEF Clock, Hi1, Lo1
<1>3. /\ HalfWritten(m2w.ctl.hi, hi, m2w.hiOut, m2w)' =
           HalfWritten(e2m.ctl.hi, Hi1, e2m.hiOut, e2m)
      /\ HalfWritten(m2w.ctl.lo, lo, m2w.loOut, m2w)' =
           HalfWritten(e2m.ctl.lo, Lo1, e2m.loOut, e2m)
  BY <1>1, <1>2 DEF HalfWritten
<1>4. Hi1' = WrittenHi(m2w)' /\ Lo1' = WrittenLo(m2w)'
  BY DEF Hi1, Lo1
<1> QED BY <1>1, <1>3, <1>4 DEF WrittenHi, WrittenLo

(* Everything else. *)
LEMMA OthersMove ==
  ASSUME SimInv, RNext, Kept, InMEM
  PROVE  /\ HiCtl(e2m.ireg) = "noOp" /\ LoCtl(e2m.ireg) = "noOp" => Abs!SameHiLo
         /\ SpCtl(e2m.ireg) \notin {"push", "pop", "write"} => Abs!SameStack
         /\ SpCtl(e2m.ireg) \in {"push", "pop", "write"} => SP1' = e2m.spNew
         /\ MemCtl(e2m.ireg) # "write" => Abs!SameMem
         /\ MemCtl(e2m.ireg) = "write" => dmem' = DWrite(dmem, MemAddr(e2m), e2m.regaOut)
         /\ AluCtl(e2m.ireg) \notin {"R", "S"} => Abs!SameZ
         /\ AluCtl(e2m.ireg) \in {"R", "S"} => zArch' = (e2m.alu.value = 0)
<1> DEFINE i == e2m.ireg
<1>1. e2m.ctl = Ctl(i) /\ Clock /\ ~e2m.bubble
  BY Retired
<1>2. /\ e2m.ctl.hi = HiCtl(i) /\ e2m.ctl.lo = LoCtl(i) /\ e2m.ctl.sp = SpCtl(i)
      /\ e2m.ctl.mem = MemCtl(i) /\ e2m.ctl.alu = AluCtl(i)
  BY <1>1, FieldsOfCtl
<1>3. HiCtl(i) = "noOp" /\ LoCtl(i) = "noOp" => Abs!SameHiLo
  BY <1>1, <1>2, StateMoves DEF Abs!SameHiLo, Hi1, Lo1
<1>4. SP1' = IF SpCtl(i) \in {"push", "pop", "write"} THEN e2m.spNew ELSE SP1
  BY <1>1, <1>2, StateMoves DEF SP2, WritesSP
<1>5. SpCtl(i) \notin {"push", "pop", "write"} => Abs!SameStack
  BY <1>4 DEF Abs!SameStack, SP1
<1>6. dmem' = IF MemCtl(i) = "write" THEN DWrite(dmem, MemAddr(e2m), e2m.regaOut) ELSE dmem
  BY <1>1, <1>2 DEF Clock, Stored
<1>7. zArch' = zFlag /\ cycle >= 2 /\ zArch \in BOOLEAN /\ zFlag \in BOOLEAN
  BY <1>1 DEF RNext, InMEM, SimInv, HistoryType, ControlInv, TypeOK
<1>8. zFlag = IF AluCtl(i) \in {"R", "S"} THEN e2m.alu.value = 0 ELSE zArch
  BY <1>1, <1>2, <1>7 DEF SimInv, ZeroFlag
<1>9. AluCtl(i) \notin {"R", "S"} => Abs!SameZ
  BY <1>7, <1>8 DEF Abs!SameZ
<1> QED BY <1>3, <1>4, <1>5, <1>6, <1>7, <1>8, <1>9 DEF Abs!SameMem

(* The exception registers, and an interrupt that follows the instruction. *)
LEMMA SequenceContinues ==
  ASSUME SimInv, RNext, Kept, InMEM
  PROVE  /\ /\ ~Taken /\ ~Toggles(e2m.ireg) /\ ExcCtl(e2m.ireg) # "mtepc"
            => Abs!Continue
         /\ FlowCtl(e2m.ireg) \in {"j", "jr", "bz", "bhleq"} => ~cut.mem /\ Abs!SameExc
<1> DEFINE i == e2m.ireg
<1>1. i \in Instr /\ e2m.ctl = Ctl(i) /\ ~e2m.bubble
  BY Retired
<1>2. e2m.ctl.flow = FlowCtl(i) /\ e2m.ctl.exc = ExcCtl(i)
  BY <1>1, FieldsOfCtl
<1>3. /\ excArch'.ien = IenNext /\ excArch'.epc = EpcNext /\ excArch'.eca = EcaNext
  BY ExceptionsMove DEF RNext, SimInv
<1>4. FlowCtl(i) # "none" => ~cut.mem /\ ~Toggles(i) /\ ExcCtl(i) # "mtepc"
  BY <1>1, <1>2, TransferWrites DEF SimInv, Sequence, Quiet
<1>5. /\ ~cut.mem /\ ~Toggles(i) /\ ExcCtl(i) # "mtepc" /\ FlowCtl(i) \notin {"syscall", "reti"}
      => Abs!SameExc
  BY <1>1, <1>2, <1>3 DEF IenNext, EpcNext, EcaNext, Toggles, Abs!SameExc
<1>6. FlowCtl(i) \in {"syscall", "reti"} => Taken
  BY <1>2 DEF Taken
<1>7. ~Taken /\ ~cut.mem => Abs!Advance
  BY ControlMoves
<1>8. cut.mem => Abs!Interrupted
  BY ControlMoves
<1> QED BY <1>4, <1>5, <1>6, <1>7, <1>8 DEF Abs!Continue

-----------------------------------------------------------------------------
(* The simulation: arithmetic, byte loads, memory and stack. *)

LEMMA ArithmeticStep ==
  ASSUME SimInv, RNext, Kept, InMEM,
         e2m.ireg.op \in {OP_R, OP_S, OP_ADDI, OP_LIL, OP_LIU}
  PROVE  Abs!ArithLogic \/ Abs!Shift \/ Abs!AddImmediate \/ Abs!LoadByte
<1> DEFINE i == e2m.ireg
<1>1. /\ i \in Instr /\ e2m.ctl = Ctl(i) /\ ResultsOf(e2m) /\ Clock
      /\ Abs!i = i /\ Abs!Ra = RRead(Regs1, i.a) /\ Abs!Rb = RRead(Regs1, i.b)
  BY Retired
<1>2. /\ MemCtl(i) = "none" /\ SpCtl(i) = "none" /\ ExcCtl(i) = "none" /\ FlowCtl(i) = "none"
      /\ i.op # OP_R => HiCtl(i) = "noOp" /\ LoCtl(i) = "noOp"
      /\ i.op = OP_R => AluCtl(i) = "R" /\ RegCtl(i) = "ALU"
                        /\ HiCtl(i) = (IF i.f = F_MUL THEN "mul" ELSE "noOp")
                        /\ LoCtl(i) = (IF i.f = F_MUL THEN "mul" ELSE "noOp")
      /\ i.op = OP_S => AluCtl(i) = "S" /\ RegCtl(i) = "ALU"
      /\ i.op = OP_ADDI => AluCtl(i) = "R" /\ RegCtl(i) = "ALU"
      /\ i.op = OP_LIL => AluCtl(i) = "NOP" /\ RegCtl(i) = "byteLower"
      /\ i.op = OP_LIU => AluCtl(i) = "NOP" /\ RegCtl(i) = "byteUpper"
  BY <1>1, DecodeArithmetic DEF Simply, Controls
<1>3. RegA(i) = i.a /\ RegB(i) = i.b /\ ~Toggles(i)
  BY DEF RegA, RegB, RegInFunc, Toggles, IsM4, IsM1, OP_R, OP_S, OP_ADDI, OP_LIL, OP_LIU, OP_M1
<1>4. e2m.ctl.reg = (IF WritesReg(i) THEN RegCtl(i) ELSE "NOP") /\ e2m.ctl.flow = "none"
      /\ e2m.ctl.hi = HiCtl(i) /\ e2m.ctl.lo = LoCtl(i)
  BY <1>1, <1>2, FieldsOfCtl
<1>5. Abs!Continue /\ Abs!SameStack /\ Abs!SameMem
  BY <1>2, <1>3, <1>4, OthersMove, SequenceContinues DEF Taken
<1>6. i.a # 0 => e2m.ctl.reg = RegCtl(i)
  BY <1>4 DEF WritesReg
<1> HIDE DEF i
<1>7. CASE i.op = OP_R
  <2> DEFINE v == e2m.alu.value
  <2>1. v = AluR(i.f, Abs!Ra, Abs!Rb) % WordSize
        /\ (i.f = F_MUL => e2m.alu.hi = MulHigh(Abs!Ra, Abs!Rb))
    BY <1>1, <1>3, <1>7 DEF ResultsOf, i
  <2>2. Abs!Result = v
    BY <1>1, <2>1, SameALU, SameConstants DEF Abs!Result
  <2>3. Abs!SetReg(i.a, v)
    BY <1>2, <1>3, <1>6, <1>7, RegistersMove DEF WriteValue, i
  <2>4. zArch' = (v = 0)
    BY <1>2, <1>7, OthersMove DEF i
  <2>5. i.f = F_MUL => Abs!SetHiLo(MulHigh(Abs!Ra, Abs!Rb), v)
    BY <1>1, <1>2, <1>4, <1>7, <2>1, HalvesMove DEF Abs!SetHiLo, Hi1, Lo1, i
  <2>6. i.f # F_MUL => Abs!SameHiLo
    BY <1>2, <1>7, OthersMove DEF i
  <2> HIDE DEF v
  <2> QED
    BY <1>1, <1>5, <1>7, <2>2, <2>3, <2>4, <2>5, <2>6, SameALU, SameOpcodes DEF Abs!ArithLogic
<1>8. CASE i.op = OP_S
  <2> DEFINE v == e2m.alu.value
  <2>1. v = AluS(i.f, Abs!Ra, i.b) % WordSize
    BY <1>1, <1>3, <1>8 DEF ResultsOf, i
  <2>2. Abs!Shifted = v
    BY <1>1, <2>1, SameALU, SameConstants DEF Abs!Shifted
  <2>3. Abs!SetReg(i.a, v)
    BY <1>2, <1>3, <1>6, <1>8, RegistersMove DEF WriteValue, i
  <2>4. zArch' = (v = 0) /\ Abs!SameHiLo
    BY <1>2, <1>8, OthersMove DEF i, OP_R, OP_S
  <2> HIDE DEF v
  <2> QED
    BY <1>1, <1>5, <1>8, <2>2, <2>3, <2>4, SameOpcodes DEF Abs!Shift
<1>9. CASE i.op = OP_ADDI
  <2> DEFINE v == e2m.alu.value
  <2>1. v = (Abs!Ra + SignExt8(Byte(i))) % WordSize
    BY <1>1, <1>3, <1>9 DEF ResultsOf, i
  <2>2. (Abs!Ra + Abs!SignExt8(Abs!Byte(i))) % Abs!WordSize = v
    BY <2>1, SameFields, SameConstants
  <2>3. Abs!SetReg(i.a, v)
    BY <1>2, <1>3, <1>6, <1>9, RegistersMove DEF WriteValue, i
  <2>4. zArch' = (v = 0) /\ Abs!SameHiLo
    BY <1>2, <1>9, OthersMove DEF i, OP_R, OP_ADDI
  <2> HIDE DEF v
  <2> QED
    BY <1>1, <1>5, <1>9, <2>2, <2>3, <2>4, SameOpcodes DEF Abs!AddImmediate
<1>10. CASE i.op \in {OP_LIL, OP_LIU}
  <2>1. Abs!SameHiLo /\ Abs!SameZ
    BY <1>2, <1>10, OthersMove DEF i, OP_R, OP_LIL, OP_LIU
  <2>2. i.a # 0 => e2m.regaOut = Abs!Ra
    BY <1>1, <1>3, <1>10 DEF ResultsOf, i
  <2>3. Abs!SetReg(i.a, IF i.op = OP_LIL THEN (Abs!Ra \div 256) * 256 + Byte(i)
                        ELSE Byte(i) * 256 + (Abs!Ra % 256))
    <3>1. OP_LIL # OP_LIU
      BY DEF OP_LIL, OP_LIU
    <3>2. i.a # 0 => WriteValue(e2m, Loaded(e2m)) =
            IF i.op = OP_LIL THEN (Abs!Ra \div 256) * 256 + Byte(i)
            ELSE Byte(i) * 256 + (Abs!Ra % 256)
      BY <1>2, <1>6, <1>10, <2>2, <3>1 DEF WriteValue, i
    <3>3. RegCtl(i) \notin {"NOP", "PC"}
      BY <1>2, <1>10
    <3> QED BY <1>3, <3>2, <3>3, RegistersMove DEF i
  <2> QED
    BY <1>1, <1>5, <1>10, <2>1, <2>3, SameOpcodes, SameFields DEF Abs!LoadByte
<1> QED BY <1>7, <1>8, <1>9, <1>10 DEF i

LEMMA MemoryStep ==
  ASSUME SimInv, RNext, Kept, InMEM, e2m.ireg.op \in {OP_LW, OP_SW}
  PROVE  Abs!Load \/ Abs!Store
<1> DEFINE i == e2m.ireg
<1>1. /\ i \in Instr /\ e2m.ctl = Ctl(i) /\ ResultsOf(e2m) /\ Clock
      /\ Abs!i = i /\ Abs!Ra = RRead(Regs1, i.a) /\ Abs!Rb = RRead(Regs1, i.b)
  BY Retired
<1>2. /\ SpCtl(i) = "none" /\ ExcCtl(i) = "none" /\ FlowCtl(i) = "none"
      /\ HiCtl(i) = "noOp" /\ LoCtl(i) = "noOp" /\ AluCtl(i) = "OFFSET"
      /\ i.op = OP_LW => RegCtl(i) = "MEM" /\ MemCtl(i) = "read"
      /\ i.op = OP_SW => RegCtl(i) = "NOP" /\ MemCtl(i) = "write"
  BY <1>1, DecodeArithmetic DEF Simply, Controls
<1>3. RegA(i) = i.a /\ RegB(i) = i.b /\ ~Toggles(i)
  BY DEF RegA, RegB, RegInFunc, Toggles, IsM4, IsM1, OP_LW, OP_SW, OP_M1
<1>4. e2m.ctl.reg = (IF WritesReg(i) THEN RegCtl(i) ELSE "NOP") /\ e2m.ctl.flow = "none"
      /\ e2m.ctl.mem = MemCtl(i) /\ e2m.ctl.sp = "none"
  BY <1>1, <1>2, FieldsOfCtl
<1>5. Abs!Continue /\ Abs!SameStack /\ Abs!SameHiLo /\ Abs!SameZ
  BY <1>2, <1>3, <1>4, OthersMove, SequenceContinues DEF Taken
<1>6. MemAddr(e2m) = Abs!WordAt
  BY <1>1, <1>3, <1>4, SameConstants DEF ResultsOf, MemAddr, Abs!WordAt
<1> HIDE DEF i
<1>7. CASE i.op = OP_LW
  <2>1. Loaded(e2m) = DRead(dmem, Abs!WordAt)
    BY <1>2, <1>4, <1>6, <1>7 DEF Loaded
  <2>2. i.a # 0 => WriteValue(e2m, Loaded(e2m)) = DRead(dmem, Abs!WordAt)
    BY <1>2, <1>4, <1>7, <2>1 DEF WriteValue, WritesReg
  <2>3. Abs!SetReg(i.a, DRead(dmem, Abs!WordAt)) /\ Abs!SameMem
    BY <1>2, <1>3, <1>7, <2>2, RegistersMove, OthersMove DEF i
  <2> QED
    BY <1>1, <1>5, <1>7, <2>3, SameOpcodes, SameStorage DEF Abs!Load
<1>8. CASE i.op = OP_SW
  <2>1. e2m.regaOut = Abs!Ra
    BY <1>1, <1>3, <1>8 DEF ResultsOf, i
  <2>2. dmem' = DWrite(dmem, Abs!WordAt, Abs!Ra) /\ Abs!SameRegs
    BY <1>2, <1>6, <1>8, <2>1, OthersMove, RegistersMove DEF i
  <2> QED
    BY <1>1, <1>5, <1>8, <2>2, SameOpcodes, SameStorage DEF Abs!Store
<1> QED BY <1>7, <1>8 DEF i

LEMMA StackStep ==
  ASSUME SimInv, RNext, Kept, InMEM, e2m.ireg.op = OP_STACK
  PROVE  Abs!Push \/ Abs!Pop \/ Abs!ReadSP \/ Abs!WriteSP \/ Abs!NoOperation
<1> DEFINE i == e2m.ireg
<1>1. /\ i \in Instr /\ e2m.ctl = Ctl(i) /\ ResultsOf(e2m) /\ Clock
      /\ Abs!i = i /\ Abs!Ra = RRead(Regs1, i.a)
  BY Retired
<1>2. /\ ExcCtl(i) = "none" /\ FlowCtl(i) = "none" /\ HiCtl(i) = "noOp" /\ LoCtl(i) = "noOp"
      /\ i.f = PUSH => RegCtl(i) = "NOP" /\ AluCtl(i) = "NOP" /\ MemCtl(i) = "write"
                       /\ SpCtl(i) = "push"
      /\ i.f = POP => RegCtl(i) = "MEM" /\ AluCtl(i) = "NOP" /\ MemCtl(i) = "read"
                      /\ SpCtl(i) = "pop"
      /\ i.f = SPRD => RegCtl(i) = "ALU" /\ AluCtl(i) = "R" /\ MemCtl(i) = "none"
                       /\ SpCtl(i) = "read"
      /\ i.f = SPWR => RegCtl(i) = "NOP" /\ AluCtl(i) = "NOP" /\ MemCtl(i) = "none"
                       /\ SpCtl(i) = "write"
      /\ i.f \notin {PUSH, POP, SPRD, SPWR} =>
           RegCtl(i) = "NOP" /\ AluCtl(i) = "NOP" /\ MemCtl(i) = "none" /\ SpCtl(i) = "none"
  BY <1>1, DecodeStack DEF Simply, Controls
<1>3. RegA(i) = i.a /\ ~Toggles(i)
  BY DEF RegA, RegInFunc, Toggles, IsM4, IsM1, OP_STACK, OP_M1
<1>4. e2m.ctl.reg = (IF WritesReg(i) THEN RegCtl(i) ELSE "NOP") /\ e2m.ctl.flow = "none"
      /\ e2m.ctl.mem = MemCtl(i) /\ e2m.ctl.sp = SpCtl(i)
  BY <1>1, <1>2, FieldsOfCtl
<1>5. Abs!Continue /\ Abs!SameHiLo
  BY <1>2, <1>3, <1>4, OthersMove, SequenceContinues DEF Taken
<1>6. \A s : Abs!IsStack(i, s) <=> i.f = s
  BY SameFields DEF IsStack
<1>7. i.op = OP_STACK /\ (\A s : IsStack(i, s) <=> i.f = s)
  BY DEF IsStack
<1> HIDE DEF i
<1>8. CASE i.f = PUSH
  <2>1. e2m.regaOut = Abs!Ra /\ e2m.spNew = (SP1 - 1) % WordSize /\ e2m.spAddr = e2m.spNew
    BY <1>1, <1>3, <1>7, <1>8 DEF ResultsOf, i
  <2>2. MemAddr(e2m) = (SP1 - 1) % WordSize
    BY <1>2, <1>4, <1>8, <2>1 DEF MemAddr
  <2>3. Abs!SameRegs /\ Abs!SameZ /\ SP1' = (SP1 - 1) % WordSize
        /\ dmem' = DWrite(dmem, (SP1 - 1) % WordSize, Abs!Ra)
    BY <1>2, <1>8, <2>1, <2>2, OthersMove, RegistersMove DEF i
  <2> QED
    BY <1>1, <1>5, <1>6, <1>8, <2>3, SameFunctions, SameStorage, SameConstants DEF Abs!Push, SP1
<1>9. CASE i.f = POP
  <2>1. e2m.spNew = (SP1 + 1) % WordSize /\ e2m.spAddr = SP1
    BY <1>1, <1>7, <1>9 DEF ResultsOf, i
  <2>2. Loaded(e2m) = DRead(dmem, SP1)
    BY <1>2, <1>4, <1>9, <2>1 DEF MemAddr, Loaded
  <2>3. i.a # 0 => WriteValue(e2m, Loaded(e2m)) = DRead(dmem, SP1)
    BY <1>2, <1>4, <1>9, <2>2 DEF WriteValue, WritesReg
  <2>4. /\ Abs!SetReg(i.a, DRead(dmem, SP1)) /\ Abs!SameMem /\ Abs!SameZ
        /\ SP1' = (SP1 + 1) % WordSize
    BY <1>2, <1>3, <1>9, <2>1, <2>3, OthersMove, RegistersMove DEF i
  <2> QED
    BY <1>1, <1>5, <1>6, <1>9, <2>4, SameFunctions, SameStorage, SameConstants DEF Abs!Pop, SP1
<1>10. CASE i.f = SPRD
  <2>1. e2m.alu.value = SP1
    BY <1>1, <1>7, <1>10 DEF ResultsOf, i
  <2>2. i.a # 0 => WriteValue(e2m, Loaded(e2m)) = SP1
    BY <1>2, <1>4, <1>10, <2>1 DEF WriteValue, WritesReg
  <2>3. /\ Abs!SetReg(i.a, SP1) /\ Abs!SameMem /\ Abs!SameStack
        /\ zArch' = (SP1 = 0)
    BY <1>2, <1>3, <1>10, <2>1, <2>2, OthersMove, RegistersMove DEF i
  <2> QED
    BY <1>1, <1>5, <1>6, <1>10, <2>3, SameFunctions DEF Abs!ReadSP, SP1
<1>11. CASE i.f = SPWR
  <2>1. e2m.spNew = Abs!Ra
    BY <1>1, <1>3, <1>7, <1>11 DEF ResultsOf, i
  <2>2. Abs!SameRegs /\ Abs!SameMem /\ Abs!SameZ /\ SP1' = Abs!Ra
    BY <1>2, <1>11, <2>1, OthersMove, RegistersMove DEF i
  <2> QED
    BY <1>1, <1>5, <1>6, <1>11, <2>2, SameFunctions DEF Abs!WriteSP, SP1
<1>12. CASE i.f \notin {PUSH, POP, SPRD, SPWR}
  <2>1. Abs!SameRegs /\ Abs!SameMem /\ Abs!SameZ /\ Abs!SameStack
    BY <1>2, <1>12, OthersMove, RegistersMove DEF i
  <2>2. Abs!Undefined
    BY <1>1, <1>7, <1>12, SameOpcodes, SameFunctions DEF Abs!Undefined
  <2> QED
    BY <1>5, <2>1, <2>2 DEF Abs!NoOperation
<1> QED BY <1>8, <1>9, <1>10, <1>11, <1>12

-----------------------------------------------------------------------------
(* The simulation: transfers of control. *)

LEMMA JumpStep ==
  ASSUME SimInv, RNext, Kept, InMEM, e2m.ireg.op \in {OP_J, OP_JAL, OP_JR}
  PROVE  Abs!Jump \/ Abs!JumpRegister
<1> DEFINE i == e2m.ireg
<1>1. /\ i \in Instr /\ e2m.ctl = Ctl(i) /\ ResultsOf(e2m)
      /\ Abs!i = i /\ Abs!Ra = RRead(Regs1, i.a) /\ Current = e2m.pc
  BY Retired
<1>2. /\ HiCtl(i) = "noOp" /\ LoCtl(i) = "noOp" /\ SpCtl(i) = "none" /\ MemCtl(i) = "none"
      /\ AluCtl(i) \in {"REL", "NOP"}
      /\ i.op # OP_JAL => RegCtl(i) = "NOP"
      /\ i.op = OP_JR => FlowCtl(i) = "jr"
      /\ i.op # OP_JR => FlowCtl(i) = "j"
  BY <1>1, DecodeTransfer DEF Moves, Controls, OP_J, OP_JAL, OP_JR
<1>3. RegA(i) = i.a
  BY DEF RegA, RegInFunc, IsM4, IsM1, OP_J, OP_JAL, OP_JR, OP_M1
<1>4. e2m.ctl.flow = FlowCtl(i)
  BY <1>1, FieldsOfCtl
<1>5. Abs!SameHiLo /\ Abs!SameStack /\ Abs!SameMem /\ Abs!SameZ /\ Abs!SameExc
  BY <1>2, OthersMove, SequenceContinues
<1>6. Taken
  BY <1>2, <1>4 DEF Taken
<1>7. Abs!Goto(Target)
  BY <1>6, ControlMoves
<1> HIDE DEF i
<1>8. CASE i.op \in {OP_J, OP_JAL}
  <2>1. i.op # OP_JR
    BY <1>8 DEF OP_J, OP_JAL, OP_JR
  <2>2. Target = e2m.pc + 1 + SignExt12(Address(i))
    BY <1>2, <1>4, <2>1 DEF Target, i
  <2>3. IF i.op = OP_JAL THEN Abs!SetReg(LinkReg, (e2m.pc + 2) % WordSize) ELSE Abs!SameRegs
    BY <1>2, RegistersMove DEF i
  <2> QED
    BY <1>1, <1>5, <1>7, <1>8, <2>2, <2>3, SameOpcodes, SameConstants, SameFields DEF Abs!Jump
<1>9. CASE i.op = OP_JR
  <2>1. Target = Abs!Ra
    BY <1>1, <1>2, <1>3, <1>4, <1>9 DEF Target, i
  <2>2. Abs!SameRegs
    BY <1>2, <1>9, RegistersMove DEF i, OP_JR, OP_JAL
  <2> QED
    BY <1>1, <1>5, <1>7, <1>9, <2>1, <2>2, SameOpcodes DEF Abs!JumpRegister
<1> QED BY <1>8, <1>9 DEF i

LEMMA BranchStep ==
  ASSUME SimInv, RNext, Kept, InMEM, e2m.ireg.op \in {OP_BZ, OP_BZ_T, OP_BZ_N, OP_BHLEQ}
  PROVE  Abs!Branch
<1> DEFINE i == e2m.ireg
<1>1. i \in Instr /\ e2m.ctl = Ctl(i) /\ Abs!i = i /\ Current = e2m.pc
  BY Retired
<1>2. /\ HiCtl(i) = "noOp" /\ LoCtl(i) = "noOp" /\ SpCtl(i) = "none" /\ MemCtl(i) = "none"
      /\ AluCtl(i) = "NOP" /\ RegCtl(i) = "NOP" /\ ExcCtl(i) = "none"
      /\ i.op = OP_BHLEQ => FlowCtl(i) = "bhleq"
      /\ i.op # OP_BHLEQ => FlowCtl(i) = "bz"
  BY <1>1, DecodeTransfer DEF Moves, Controls, OP_BZ, OP_BZ_T, OP_BZ_N, OP_BHLEQ
<1>3. ~Toggles(i)
  BY DEF Toggles, IsM4, IsM1, OP_BZ, OP_BZ_T, OP_BZ_N, OP_BHLEQ, OP_M1
<1>4. e2m.ctl.flow = FlowCtl(i)
  BY <1>1, FieldsOfCtl
<1>5. Abs!SameHiLo /\ Abs!SameStack /\ Abs!SameMem /\ Abs!SameZ /\ Abs!SameExc /\ Abs!SameRegs
  BY <1>2, OthersMove, RegistersMove, SequenceContinues
<1>6. Target = e2m.pc + 2 + SignExt12(Address(i))
  BY <1>2, <1>4 DEF Target
<1>7. /\ Taken => Abs!Goto(Target)
      /\ ~Taken => Abs!Continue
  BY <1>2, <1>3, ControlMoves, SequenceContinues
<1> HIDE DEF i
<1>8. Abs!Holds <=> Taken
  <2>1. zArch \in BOOLEAN /\ OP_BHLEQ # OP_BZ_N
    BY DEF SimInv, HistoryType, OP_BHLEQ, OP_BZ_N
  <2>2. CASE i.op = OP_BHLEQ
    BY <1>1, <1>2, <1>4, <2>1, <2>2, SameOpcodes DEF Abs!Holds, Taken, Hi1, Lo1
  <2>3. CASE i.op # OP_BHLEQ
    BY <1>1, <1>2, <1>4, <2>1, <2>3, SameOpcodes DEF Abs!Holds, Taken, i
  <2> QED BY <2>2, <2>3
<1>9. Abs!i.op \in {Abs!OP_BZ, Abs!OP_BZ_T, Abs!OP_BZ_N, Abs!OP_BHLEQ}
  BY <1>1, SameOpcodes DEF i
<1>10. Current + 2 + Abs!SignExt12(Abs!Address(Abs!i)) = Target
  BY <1>1, <1>6, SameFields
<1> QED
  BY <1>5, <1>7, <1>8, <1>9, <1>10 DEF Abs!Branch

-----------------------------------------------------------------------------
(* The simulation: HI and LO, program memory, exceptions. *)

LEMMA HalvesStep ==
  ASSUME SimInv, RNext, Kept, InMEM, e2m.ireg.op = OP_M1,
         e2m.ireg.a \in {LHL, LHH, LLL, LLH, AIS, AIH, AIL, MTHI, MTLO}
  PROVE  Abs!WriteHiLo
<1> DEFINE i == e2m.ireg
<1>1. /\ i \in Instr /\ e2m.ctl = Ctl(i) /\ ResultsOf(e2m) /\ Clock /\ Abs!i = i
  BY Retired
<1>2. /\ RegCtl(i) = "NOP" /\ AluCtl(i) = "NOP" /\ MemCtl(i) = "none" /\ SpCtl(i) = "none"
      /\ ExcCtl(i) = "none" /\ FlowCtl(i) = "none"
      /\ i.a = LHL  => HiCtl(i) = "lower" /\ LoCtl(i) = "noOp"
      /\ i.a = LHH  => HiCtl(i) = "upper" /\ LoCtl(i) = "noOp"
      /\ i.a = LLL  => HiCtl(i) = "noOp"  /\ LoCtl(i) = "lower"
      /\ i.a = LLH  => HiCtl(i) = "noOp"  /\ LoCtl(i) = "upper"
      /\ i.a = AIS  => HiCtl(i) = "AIS"   /\ LoCtl(i) = "AIS"
      /\ i.a = AIH  => HiCtl(i) = "add"   /\ LoCtl(i) = "noOp"
      /\ i.a = AIL  => HiCtl(i) = "noOp"  /\ LoCtl(i) = "add"
      /\ i.a = MTHI => HiCtl(i) = "reg"   /\ LoCtl(i) = "noOp"
      /\ i.a = MTLO => HiCtl(i) = "noOp"  /\ LoCtl(i) = "reg"
  BY <1>1, DecodeM1 DEF Halves, Controls
<1>3. ~Toggles(i)
  BY DEF Toggles, IsM4, IsM1, LHL, LHH, LLL, LLH, AIS, AIH, AIL, MTHI, MTLO, M4
<1>4. e2m.ctl.hi = HiCtl(i) /\ e2m.ctl.lo = LoCtl(i) /\ e2m.ctl.flow = "none"
  BY <1>1, <1>2, FieldsOfCtl
<1>5. /\ Abs!Continue /\ Abs!SameStack /\ Abs!SameMem /\ Abs!SameZ /\ Abs!SameRegs
  BY <1>2, <1>3, <1>4, OthersMove, RegistersMove, SequenceContinues DEF Taken
<1>6. /\ i.a \in {AIS, AIH, AIL} => e2m.hiOut = Hi1 /\ e2m.loOut = Lo1
      /\ i.a \in {MTHI, MTLO} => e2m.regaOut = RRead(Regs1, i.f)
  <2>1. i.a \in {AIS, AIH, AIL} => ReadsHiLoInID(i)
    BY DEF ReadsHiLoInID
  <2>2. i.a \in {MTHI, MTLO} => RegA(i) = i.f /\ (IsM1(i, MTHI) \/ IsM1(i, MTLO))
    BY DEF RegA, RegInFunc, IsM1
  <2> QED BY <1>1, <2>1, <2>2 DEF ResultsOf
<1> HIDE DEF i
<1>7. /\ Hi1' = CASE HiCtl(i) = "AIS" -> (e2m.hiOut + (e2m.loOut + Byte(i)) \div WordSize) % WordSize
                  [] HiCtl(i) = "lower" -> (Hi1 \div 256) * 256 + Byte(i)
                  [] HiCtl(i) = "upper" -> Byte(i) * 256 + (Hi1 % 256)
                  [] HiCtl(i) = "add" -> (e2m.hiOut + Byte(i)) % WordSize
                  [] HiCtl(i) = "reg" -> e2m.regaOut
                  [] OTHER -> Hi1
      /\ Lo1' = CASE LoCtl(i) = "AIS" -> (e2m.loOut + Byte(i)) % WordSize
                  [] LoCtl(i) = "lower" -> (Lo1 \div 256) * 256 + Byte(i)
                  [] LoCtl(i) = "upper" -> Byte(i) * 256 + (Lo1 % 256)
                  [] LoCtl(i) = "add" -> (e2m.loOut + Byte(i)) % WordSize
                  [] LoCtl(i) = "reg" -> e2m.regaOut
                  [] OTHER -> Lo1
  <2>1. HiCtl(i) # "mul" /\ LoCtl(i) # "mul"
    BY <1>2 DEF i
  <2> QED BY <1>1, <1>4, <2>1, HalvesMove DEF HalfWritten, i
<1>8. /\ Abs!i.op = Abs!OP_M1 /\ Abs!i.a = i.a /\ Abs!i.f = i.f
      /\ Abs!Byte(Abs!i) = Byte(i)
      /\ \A r : Abs!RRead(WrittenRegs(m2w), r) = RRead(Regs1, r)
  BY <1>1, SameOpcodes, SameFields, SameStorage DEF Regs1, i
<1>9. \A h, l : Abs!SetHiLo(h, l) <=> Hi1' = h /\ Lo1' = l
  BY DEF Abs!SetHiLo, Hi1, Lo1
<1>10. \/ i.a = LHL /\ Abs!SetHiLo(Abs!WithLower(Hi1), Lo1)
       \/ i.a = LHH /\ Abs!SetHiLo(Abs!WithUpper(Hi1), Lo1)
       \/ i.a = LLL /\ Abs!SetHiLo(Hi1, Abs!WithLower(Lo1))
       \/ i.a = LLH /\ Abs!SetHiLo(Hi1, Abs!WithUpper(Lo1))
       \/ i.a = AIH /\ Abs!SetHiLo((Hi1 + Byte(i)) % WordSize, Lo1)
       \/ i.a = AIL /\ Abs!SetHiLo(Hi1, (Lo1 + Byte(i)) % WordSize)
       \/ i.a = AIS /\ Abs!SetHiLo((Hi1 + (Lo1 + Byte(i)) \div WordSize) % WordSize,
                                   (Lo1 + Byte(i)) % WordSize)
       \/ i.a = MTHI /\ Abs!SetHiLo(RRead(Regs1, i.f), Lo1)
       \/ i.a = MTLO /\ Abs!SetHiLo(Hi1, RRead(Regs1, i.f))
  <2>1. /\ \A x : Abs!WithLower(x) = (x \div 256) * 256 + Byte(i)
        /\ \A x : Abs!WithUpper(x) = Byte(i) * 256 + (x % 256)
    BY <1>8 DEF Abs!WithLower, Abs!WithUpper
  <2>2. i.a \in {LHL, LHH, LLL, LLH, AIS, AIH, AIL, MTHI, MTLO}
    BY DEF i
  <2>3. CASE i.a \in {LHL, LHH}
    BY <1>2, <1>7, <1>9, <2>1, <2>3 DEF i
  <2>4. CASE i.a \in {LLL, LLH}
    BY <1>2, <1>7, <1>9, <2>1, <2>4 DEF i
  <2>5. CASE i.a = AIS
    BY <1>2, <1>6, <1>7, <1>9, <2>5 DEF i
  <2>6. CASE i.a \in {AIH, AIL}
    BY <1>2, <1>6, <1>7, <1>9, <2>6 DEF i
  <2>7. CASE i.a \in {MTHI, MTLO}
    BY <1>2, <1>6, <1>7, <1>9, <2>7 DEF i
  <2> QED BY <2>2, <2>3, <2>4, <2>5, <2>6, <2>7
<1> QED
  BY <1>5, <1>8, <1>10, SameFunctions, SameConstants DEF Abs!WriteHiLo, Hi1, Lo1, Regs1

LEMMA MoveStep ==
  ASSUME SimInv, RNext, Kept, InMEM, e2m.ireg.op = OP_M1,
         e2m.ireg.a \in {MFHI, MFLO} \/ e2m.ireg.a = LPM \/ e2m.ireg.a > LPM
  PROVE  Abs!ReadHiLo \/ Abs!LoadProgramWord \/ Abs!NoOperation
<1> DEFINE i == e2m.ireg
<1>1. /\ i \in Instr /\ e2m.ctl = Ctl(i) /\ ResultsOf(e2m) /\ Clock
      /\ Abs!i = i /\ Abs!Rb = RRead(Regs1, i.b)
  BY Retired
<1>2. /\ SpCtl(i) = "none" /\ ExcCtl(i) = "none" /\ FlowCtl(i) = "none"
      /\ HiCtl(i) = "noOp" /\ LoCtl(i) = "noOp" /\ AluCtl(i) \in {"NOP", "OFFSET"}
      /\ MemCtl(i) # "write"
      /\ i.a = MFHI => RegCtl(i) = "HI"
      /\ i.a = MFLO => RegCtl(i) = "LO"
      /\ i.a = LPM => RegCtl(i) = "MEM" /\ MemCtl(i) = "lpm"
      /\ i.a > LPM => RegCtl(i) = "NOP"
  BY <1>1, DecodeM1 DEF Simply, Controls
<1>3. /\ i.a \in {MFHI, MFLO, LPM} => RegA(i) = i.f /\ WritesReg(i)
      /\ RegB(i) = i.b /\ ~Toggles(i)
  BY DEF RegA, RegB, RegInFunc, Toggles, WritesReg, IsM4, IsM1, MFHI, MFLO, LPM, M4
<1>4. e2m.ctl.reg = (IF WritesReg(i) THEN RegCtl(i) ELSE "NOP") /\ e2m.ctl.flow = "none"
      /\ e2m.ctl.mem = MemCtl(i) /\ e2m.ctl.sp = "none"
  BY <1>1, <1>2, FieldsOfCtl
<1>5. /\ Abs!Continue /\ Abs!SameStack /\ Abs!SameHiLo /\ Abs!SameMem /\ Abs!SameZ
  BY <1>2, <1>3, <1>4, OthersMove, SequenceContinues DEF Taken
<1>6. i.op = OP_M1
  OBVIOUS
<1> HIDE DEF i
<1>7. CASE i.a \in {MFHI, MFLO}
  <2>1. e2m.hiOut = Hi1 /\ e2m.loOut = Lo1
    BY <1>1, <1>6, <1>7 DEF ResultsOf, ReadsHiLoInID, i
  <2>2. MFHI # MFLO
    BY DEF MFHI, MFLO
  <2>3. WriteValue(e2m, Loaded(e2m)) = IF i.a = MFHI THEN Hi1 ELSE Lo1
    BY <1>2, <1>3, <1>4, <1>7, <2>1, <2>2 DEF WriteValue
  <2>4. Abs!SetReg(i.f, IF i.a = MFHI THEN Hi1 ELSE Lo1)
    BY <1>2, <1>3, <1>7, <2>3, RegistersMove DEF i
  <2> QED
    BY <1>1, <1>5, <1>6, <1>7, <2>4, SameOpcodes, SameFunctions DEF Abs!ReadHiLo, Hi1, Lo1
<1>8. CASE i.a = LPM
  <2>1. e2m.alu.value = Abs!Rb
    BY <1>1, <1>3, <1>6, <1>8 DEF ResultsOf, IsM1, i
  <2>2. WriteValue(e2m, Loaded(e2m)) = ToWord(FetchWord(prog, Abs!Rb \div 2))
    BY <1>2, <1>3, <1>4, <1>8, <2>1 DEF WriteValue, Loaded, MemAddr
  <2>3. Abs!SetReg(i.f, ToWord(FetchWord(prog, Abs!Rb \div 2)))
    BY <1>2, <1>3, <1>8, <2>2, RegistersMove DEF i
  <2>4. Abs!IsM1(Abs!i, Abs!LPM)
    BY <1>1, <1>6, <1>8, SameFields, SameFunctions DEF IsM1
  <2> QED
    BY <1>1, <1>5, <2>3, <2>4, SameFields, SameStorage DEF Abs!LoadProgramWord
<1>9. CASE i.a > LPM
  <2>1. Abs!SameRegs
    BY <1>2, <1>9, RegistersMove DEF i
  <2>2. Abs!Undefined
    BY <1>1, <1>6, <1>9, SameOpcodes, SameFunctions DEF Abs!Undefined
  <2> QED
    BY <1>5, <2>1, <2>2 DEF Abs!NoOperation
<1> QED BY <1>7, <1>8, <1>9 DEF i

LEMMA ExceptionTransferStep ==
  ASSUME SimInv, RNext, Kept, InMEM, IsM1(e2m.ireg, SYSCALL) \/ IsM4(e2m.ireg, RETI)
  PROVE  Abs!SystemCall \/ Abs!ReturnFromException
<1> DEFINE i == e2m.ireg
<1>1. i \in Instr /\ e2m.ctl = Ctl(i) /\ ~e2m.bubble /\ Abs!i = i /\ Current = e2m.pc
  BY Retired
<1>2. /\ HiCtl(i) = "noOp" /\ LoCtl(i) = "noOp" /\ SpCtl(i) = "none" /\ MemCtl(i) = "none"
      /\ AluCtl(i) = "NOP" /\ RegCtl(i) = "NOP" /\ ExcCtl(i) = "none"
      /\ IsM1(i, SYSCALL) => FlowCtl(i) = "syscall"
      /\ IsM4(i, RETI) => FlowCtl(i) = "reti"
  BY <1>1, DecodeM1, DecodeM4 DEF Moves, Controls, IsM1, IsM4
<1>3. e2m.ctl.flow = FlowCtl(i) /\ e2m.ctl.exc = "none"
  BY <1>1, <1>2, FieldsOfCtl
<1>4. Abs!SameHiLo /\ Abs!SameStack /\ Abs!SameMem /\ Abs!SameZ /\ Abs!SameRegs
  BY <1>2, OthersMove, RegistersMove
<1>5. Taken /\ ~cut.mem
  BY <1>2, <1>3 DEF Taken, SimInv, Sequence, Quiet
<1>6. Abs!Goto(Target)
  BY <1>5, ControlMoves
<1>7. /\ excArch'.ien = IenNext /\ excArch'.epc = EpcNext /\ excArch'.eca = EcaNext
  BY ExceptionsMove DEF RNext, SimInv
<1> HIDE DEF i
<1>8. CASE IsM1(i, SYSCALL)
  <2>1. /\ Target = EXC_VECTOR
        /\ excArch'.epc = (e2m.pc + 2) % WordSize /\ excArch'.eca = 256 + Byte(i) /\ ~excArch'.ien
    BY <1>1, <1>2, <1>3, <1>5, <1>7, <1>8 DEF Target, IenNext, EpcNext, EcaNext, i
  <2>2. excArch'.ien = FALSE
    BY <1>1, <1>2, <1>3, <1>5, <1>7, <1>8 DEF IenNext
  <2> QED
    BY <1>1, <1>4, <1>6, <1>8, <2>1, <2>2, SameConstants, SameFields, SameFunctions
    DEF Abs!SystemCall, Abs!SetExc
<1>9. CASE IsM4(i, RETI)
  <2>1. Target = excArch.epc /\ excArch'.epc = excArch.epc /\ excArch'.eca = excArch.eca
    BY <1>1, <1>2, <1>3, <1>5, <1>7, <1>9 DEF Target, EpcNext, EcaNext
  <2>2. excArch'.ien = TRUE
    BY <1>1, <1>2, <1>3, <1>5, <1>7, <1>9 DEF IenNext
  <2> QED
    BY <1>1, <1>4, <1>6, <1>9, <2>1, <2>2, SameFields, SameFunctions
    DEF Abs!ReturnFromException
<1> QED BY <1>8, <1>9 DEF i

LEMMA ExceptionRegistersStep ==
  ASSUME SimInv, RNext, Kept, InMEM, IsM1(e2m.ireg, M4), e2m.ireg.b # RETI
  PROVE  \/ Abs!SetInterruptEnable \/ Abs!ReadException
         \/ Abs!WriteEPC \/ Abs!NoOperation
<1> DEFINE i == e2m.ireg
<1>1. i \in Instr /\ e2m.ctl = Ctl(i) /\ ~e2m.bubble /\ Abs!i = i /\ ResultsOf(e2m)
  BY Retired
<1>2. /\ HiCtl(i) = "noOp" /\ LoCtl(i) = "noOp" /\ SpCtl(i) = "none" /\ MemCtl(i) = "none"
      /\ FlowCtl(i) = "none"
      /\ i.b \in {EI, DI} \/ i.b > MTEPC =>
           RegCtl(i) = "NOP" /\ AluCtl(i) = "NOP" /\ ExcCtl(i) = "none"
      /\ i.b = MFEPC => RegCtl(i) = "ALU" /\ AluCtl(i) = "R" /\ ExcCtl(i) = "mfepc"
      /\ i.b = MFECA => RegCtl(i) = "ALU" /\ AluCtl(i) = "R" /\ ExcCtl(i) = "mfeca"
      /\ i.b = MTEPC => RegCtl(i) = "NOP" /\ AluCtl(i) = "R" /\ ExcCtl(i) = "mtepc"
  BY <1>1, ClassesOfM4, DecodeM4 DEF Simply, Controls
<1>3. /\ e2m.ctl.reg = (IF WritesReg(i) THEN RegCtl(i) ELSE "NOP") /\ WritesReg(i)
      /\ e2m.ctl.flow = "none" /\ e2m.ctl.exc = ExcCtl(i)
  BY <1>1, <1>2, FieldsOfCtl DEF WritesReg, IsM1, M4
<1>4. Abs!SameHiLo /\ Abs!SameStack /\ Abs!SameMem /\ ~Taken
  BY <1>2, <1>3, OthersMove DEF Taken
<1>5. (Toggles(i) <=> i.b \in {EI, DI}) /\ (\A m : IsM4(i, m) <=> i.b = m)
  BY DEF Toggles, IsM4
<1>6. \A m : Abs!IsM4(Abs!i, m) <=> i.b = m
  BY <1>1, <1>5, SameFields
<1>7. /\ excArch'.ien = IenNext /\ excArch'.epc = EpcNext /\ excArch'.eca = EcaNext
  BY ExceptionsMove DEF RNext, SimInv
<1>8. Toggles(i) \/ ExcCtl(i) = "mtepc" => ~cut.mem /\ Abs!Advance
  BY <1>3, <1>4, ControlMoves DEF SimInv, Sequence, Quiet
<1>9. ~Toggles(i) /\ ExcCtl(i) # "mtepc" => Abs!Continue
  BY <1>4, SequenceContinues
<1>10. i.b \in {MFEPC, MFECA, MTEPC} => RegA(i) = i.f
  BY DEF RegA, RegInFunc
<1> HIDE DEF i
<1>11. CASE i.b \in {EI, DI}
  <2>1. Abs!SameRegs /\ Abs!SameZ
    BY <1>2, <1>11, OthersMove, RegistersMove DEF i
  <2>2. excArch'.epc = excArch.epc /\ excArch'.eca = excArch.eca
    BY <1>2, <1>3, <1>5, <1>7, <1>8, <1>11 DEF EpcNext, EcaNext
  <2>3. excArch'.ien = (i.b = EI)
    <3>1. CASE i.b = EI
      BY <1>1, <1>2, <1>3, <1>5, <1>7, <1>8, <1>11, <3>1 DEF IenNext, i
    <3>2. CASE i.b # EI
      BY <1>1, <1>2, <1>3, <1>5, <1>7, <1>8, <1>11, <3>2 DEF IenNext, i
    <3> QED BY <3>1, <3>2
  <2>4. excArch'.ien = Abs!IsM4(Abs!i, Abs!EI)
    <3>1. CASE i.b = EI
      BY <1>1, <2>3, <3>1, SameOpcodes, SameFunctions DEF Abs!IsM4, Abs!IsM1, IsM1, i
    <3>2. CASE i.b # EI
      BY <1>1, <2>3, <3>2, SameFunctions DEF Abs!IsM4
    <3> QED BY <3>1, <3>2
  <2>5. Abs!IsM4(Abs!i, Abs!EI) \/ Abs!IsM4(Abs!i, Abs!DI)
    BY <1>6, <1>11, SameFunctions
  <2> QED
    BY <1>4, <1>5, <1>8, <1>11, <2>1, <2>2, <2>4, <2>5 DEF Abs!SetInterruptEnable
<1>12. CASE i.b \in {MFEPC, MFECA}
  <2> DEFINE v == IF i.b = MFEPC THEN excArch.epc ELSE excArch.eca
  <2>1. MFEPC # MFECA /\ MFEPC \notin {EI, DI} /\ MFECA \notin {EI, DI}
    BY DEF MFEPC, MFECA, EI, DI
  <2>2. e2m.alu.value = v
    BY <1>1, <1>5, <1>12, <2>1 DEF ResultsOf, i
  <2>3. RegCtl(i) = "ALU" /\ AluCtl(i) = "R" /\ ExcCtl(i) # "mtepc"
    BY <1>2, <1>12
  <2>4. Abs!SetReg(i.f, v) /\ zArch' = (v = 0)
    BY <1>3, <1>10, <1>12, <2>2, <2>3, RegistersMove, OthersMove DEF WriteValue, i
  <2>5. Abs!Continue
    BY <1>5, <1>9, <1>12, <2>1, <2>3
  <2>6. (IF Abs!IsM4(Abs!i, Abs!MFEPC) THEN excArch.epc ELSE excArch.eca) = v
    BY <1>6, SameFunctions
  <2> HIDE DEF v
  <2> QED
    BY <1>1, <1>4, <1>6, <1>12, <2>4, <2>5, <2>6, SameFunctions DEF Abs!ReadException
<1>13. CASE i.b = MTEPC
  <2>1. MTEPC \notin {EI, DI}
    BY DEF MTEPC, EI, DI
  <2>2. e2m.alu.value = RRead(Regs1, i.f)
    BY <1>1, <1>5, <1>10, <1>13 DEF ResultsOf, i
  <2>3. zArch' = (RRead(Regs1, i.f) = 0) /\ Abs!SameRegs
    BY <1>2, <1>13, <2>2, OthersMove, RegistersMove DEF i
  <2>4. ~cut.mem /\ Abs!Advance
    BY <1>2, <1>8, <1>13
  <2>5. excArch'.epc = RRead(Regs1, i.f) /\ excArch'.eca = excArch.eca
    BY <1>1, <1>2, <1>3, <1>7, <1>13, <2>2, <2>4 DEF EpcNext, EcaNext
  <2>6. excArch'.ien = excArch.ien
    BY <1>1, <1>2, <1>3, <1>5, <1>7, <1>13, <2>1, <2>4 DEF IenNext, i
  <2> QED
    BY <1>1, <1>4, <1>6, <1>13, <2>3, <2>4, <2>5, <2>6, SameFunctions, SameStorage
    DEF Abs!WriteEPC, Regs1
<1>14. CASE i.b > MTEPC
  <2>1. i.b \notin {EI, DI}
    BY <1>14 DEF MTEPC, EI, DI
  <2>2. Abs!SameRegs /\ Abs!SameZ /\ Abs!Continue
    BY <1>2, <1>5, <1>9, <1>14, <2>1, OthersMove, RegistersMove DEF i
  <2>3. Abs!Undefined
    BY <1>1, <1>14, SameFields, SameFunctions DEF Abs!Undefined, i
  <2> QED
    BY <1>4, <2>2, <2>3 DEF Abs!NoOperation
<1> QED
  BY <1>1, <1>11, <1>12, <1>13, <1>14, ClassesOfM4 DEF i

-----------------------------------------------------------------------------
(* The theorem. *)

(* A clock that retires an instruction is a step of ISA ...                *)
LEMMA RetiringStep ==
  ASSUME SimInv, RNext, Kept, InMEM PROVE Abs!Next
<1> DEFINE i == e2m.ireg
<1>1. i \in Instr /\ Clock
  BY Retired
<1>2. SUFFICES Abs!Execute
  BY <1>1 DEF Abs!Next, Clock
<1>3. CASE i.op \in {OP_R, OP_S, OP_ADDI, OP_LIL, OP_LIU}
  BY <1>3, ArithmeticStep DEF Abs!Execute
<1>4. CASE i.op \in {OP_LW, OP_SW}
  BY <1>4, MemoryStep DEF Abs!Execute
<1>5. CASE i.op = OP_STACK
  BY <1>5, StackStep DEF Abs!Execute
<1>6. CASE i.op \in {OP_J, OP_JAL, OP_JR}
  BY <1>6, JumpStep DEF Abs!Execute
<1>7. CASE i.op \in {OP_BHLEQ, OP_BZ, OP_BZ_T, OP_BZ_N}
  BY <1>7, BranchStep DEF Abs!Execute
<1>8. CASE i.op = OP_M1 /\ i.a \in {LHL, LHH, LLL, LLH, AIS, AIH, AIL, MTHI, MTLO}
  BY <1>8, HalvesStep DEF Abs!Execute
<1>9. CASE i.op = OP_M1 /\ (i.a \in {MFHI, MFLO} \/ i.a = LPM \/ i.a > LPM)
  BY <1>9, MoveStep DEF Abs!Execute
<1>10. CASE IsM1(i, SYSCALL) \/ IsM4(i, RETI)
  BY <1>10, ExceptionTransferStep DEF Abs!Execute
<1>11. CASE IsM1(i, M4) /\ i.b # RETI
  BY <1>11, ExceptionRegistersStep DEF Abs!Execute
<1> HIDE DEF i
<1>12. i.op = OP_M1 => Abs!Execute
  BY <1>1, <1>8, <1>9, <1>10, <1>11, ClassesOfM1 DEF IsM1, IsM4
<1> QED
  BY <1>1, <1>3, <1>4, <1>5, <1>6, <1>7, <1>12, Classes

LEMMA NothingOrNothing == AluR(F_OR, 0, 0) % WordSize = 0
<1>1. ASSUME NEW n \in 0 .. 15 PROVE Bit(0, n) = 0
  <2>1. Two(n) \in Int /\ Two(n) > 0
    BY TwoType
  <2>2. 0 \div Two(n) = 0
    BY <2>1
  <2> QED BY <2>2 DEF Bit
<1>2. ASSUME NEW n \in 0 .. 15 PROVE Bit(0, n) * Bit(0, n) * Two(n) = 0
  BY <1>1, TwoType
<1>3. And16(0, 0) = 0
  BY <1>2 DEF And16
<1>4. AluR(F_OR, 0, 0) = 0
  BY <1>3 DEF AluR, Or16, F_OR, F_SUB, F_AND, F_NOR, F_XOR, F_SLT, F_SGT, F_MUL
<1> QED BY <1>4 DEF WordSize

(* ... and any other clock leaves what ISA sees as it was. *)
LEMMA WaitingStep ==
  ASSUME SimInv, RNext, Kept, ~InMEM PROVE UNCHANGED Abs!vars
<1>1. Clock /\ cycle \in Nat /\ zArch \in BOOLEAN
  BY DEF RNext, SimInv, ControlInv, TypeOK, HistoryType
<1>2. e2m.bubble \/ (~e2m.bubble /\ cycle = 2 /\ e2m.ireg = NOP /\ zArch /\ ~cut.mem)
  BY <1>1 DEF InMEM, SimInv, Startup, Idle
<1>3. /\ e2m.ctl.flow = "none" /\ e2m.ctl.reg = "NOP" /\ e2m.ctl.sp = "none"
      /\ e2m.ctl.hi = "noOp" /\ e2m.ctl.lo = "noOp" /\ e2m.ctl.mem = "none"
      /\ e2m.ctl.exc = "none" /\ (e2m.bubble \/ ~Toggles(e2m.ireg))
  BY <1>2, IdleControl DEF Idle
<1>4. Current' = Current /\ Following' = Following
  BY AddressesMove DEF Behind, Current, Following
<1>5. /\ WrittenRegs(m2w)' = WrittenRegs(m2w) /\ WrittenSP(m2w)' = WrittenSP(m2w)
      /\ WrittenHi(m2w)' = WrittenHi(m2w) /\ WrittenLo(m2w)' = WrittenLo(m2w)
  BY <1>1, <1>3, StateMoves DEF Regs1, Regs2, SP1, SP2, Hi1, Lo1, WritesSP
<1>6. dmem' = dmem /\ prog' = prog
  BY <1>1, <1>3 DEF Clock, Stored
<1>7. /\ excArch'.ien = excArch.ien /\ excArch'.epc = excArch.epc /\ excArch'.eca = excArch.eca
  <2>1. /\ excArch'.ien = IenNext /\ excArch'.epc = EpcNext /\ excArch'.eca = EcaNext
    BY ExceptionsMove DEF RNext, SimInv
  <2> QED BY <1>2, <1>3, <2>1 DEF IenNext, EpcNext, EcaNext, Toggles
<1>8. zArch' = zArch
  <2>1. CASE e2m.bubble
    BY <2>1 DEF RNext
  <2>2. CASE ~e2m.bubble /\ cycle = 2 /\ e2m.ireg = NOP /\ zArch
    <3>1. NOP \in Instr /\ NOP.op = OP_R /\ NOP.f = F_OR /\ RegA(NOP) = 0 /\ RegB(NOP) = 0
      BY NopType DEF NOP, RegA, RegB, RegInFunc, IsM4, IsM1, OP_R, OP_M1
    <3>2. e2m.alu.value = AluR(F_OR, 0, 0) % WordSize
      BY <2>2, <3>1 DEF SimInv, ResultsInMEM, ResultsOf, RRead
    <3>3. e2m.ctl.alu = "R"
      BY <2>2, <3>1, DecodeArithmetic, FieldsOfCtl DEF Controls, SimInv, LatchesAreHonest, Honest
    <3>4. zFlag = (e2m.alu.value = 0)
      BY <2>2, <3>3 DEF SimInv, ZeroFlag
    <3>5. zFlag = TRUE
      BY <3>2, <3>4, NothingOrNothing
    <3> QED BY <1>1, <2>2, <3>5 DEF RNext
  <2> QED BY <1>2, <2>1, <2>2
<1> QED BY <1>4, <1>5, <1>6, <1>7, <1>8 DEF Abs!vars

LEMMA SimulationStart == RInit => Abs!Init
<1> SUFFICES ASSUME RInit PROVE Abs!Init
  OBVIOUS
<1>1. /\ Init /\ zArch = TRUE /\ cycle = 0 /\ f2d.pc = 0
      /\ excArch.epc = 0 /\ excArch.eca = 0 /\ excArch.ien = FALSE
      /\ regs = [r \in Reg |-> 0] /\ hi = 0 /\ lo = 0 /\ sp = ResetSP
  BY DEF RInit, Init
<1>2. Abs!IsProgram(prog) /\ Abs!IsMemory(dmem)
  BY <1>1, PipelineAssumption, SameStorage DEF Init
<1>3. Current = 0 /\ Following = 1
  BY <1>1 DEF Current, Following, InEX, InMEM
<1>4. m2w.ctl = NopCtl
  BY <1>1 DEF Init, EmptyM2W
<1>5. WrittenRegs(m2w) = regs /\ WrittenSP(m2w) = sp /\ WrittenHi(m2w) = hi /\ WrittenLo(m2w) = lo
  BY <1>4 DEF WrittenRegs, WrittenSP, WritesSP, WrittenHi, WrittenLo, HalfWritten, NopCtl
<1> QED BY <1>1, <1>2, <1>3, <1>5, SameConstants DEF Abs!Init

(* The pipeline implements the programmer's model: for software that keeps *)
(* every scheduling rule, each clock executes exactly the next instruction *)
(* of the program, with the registers, the memory and the exception state  *)
(* ISA gives it, or nothing; an interrupt falls between two instructions.  *)
THEOREM PipelineImplementsISA ==
  ASSUME Discipline = Rules
  PROVE  RSpec => ImplementsISA
<1>1. SimInv /\ [RNext]_<<vars, history>> => [Abs!Next]_(Abs!vars)
  <2> SUFFICES ASSUME SimInv, [RNext]_<<vars, history>> PROVE Abs!Next \/ UNCHANGED Abs!vars
    OBVIOUS
  <2>1. CASE RNext /\ InMEM
    BY <2>1, RulesAreKept, RetiringStep DEF RNext
  <2>2. CASE RNext /\ ~InMEM
    BY <2>2, RulesAreKept, WaitingStep DEF RNext
  <2>3. CASE UNCHANGED <<vars, history>>
    <3>1. /\ UNCHANGED <<cycle, prog, regs, hi, lo, sp, dmem, f2d, d2e, e2m, m2w>>
          /\ UNCHANGED <<zArch, excArch, cut>>
      BY <2>3 DEF vars, arch, latch, history
    <3> QED
      BY <3>1 DEF Abs!vars, Current, Following, InEX, InMEM, WrittenRegs, WrittenSP, WrittenHi,
                  WrittenLo, HalfWritten
  <2> QED BY <2>1, <2>2, <2>3
<1> QED
  BY SimulationStart, LatchesHoldTheProgram, <1>1, PTL DEF RSpec, ImplementsISA, Abs!Spec
=============================================================================
