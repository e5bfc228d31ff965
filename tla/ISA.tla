-------------------------------- MODULE ISA ---------------------------------
(***************************************************************************)
(* What the core promises its software: the programmer's model of ANEM16.  *)
(* One step executes one instruction completely.  A control transfer takes *)
(* effect after the instruction that follows it (the delay slot), which is *)
(* what the pair pc, npc expresses.  An interrupt comes between two        *)
(* instructions, never before a delay slot.  The pipeline, its latches,    *)
(* stalls and forwarding are not visible here.                             *)
(***************************************************************************)
EXTENDS ANEM16

VARIABLES
  prog,        (* instruction memory                                       *)
  pc, npc,     (* the instruction to execute now, and the one after it     *)
  regs, hi, lo, sp, zFlag, dmem,
  epc, eca, ien   (* where an exception returns to, its cause, and whether *)
                  (* interrupts are enabled                                *)

vars == <<prog, pc, npc, regs, hi, lo, sp, zFlag, dmem, epc, eca, ien>>

i  == FetchWord(prog, pc)
Ra == RRead(regs, i.a)
Rb == RRead(regs, i.b)

SetReg(r, v) == regs' = RWrite(regs, r, v)
SetHiLo(h, l) == hi' = h /\ lo' = l

SameExc == UNCHANGED <<epc, eca, ien>>

SetExc(address, cause) == epc' = address /\ eca' = cause /\ ien' = FALSE

(* An interrupt that follows the instruction: what would have been         *)
(* executed next is where the handler returns to.                          *)
Interrupted ==
  /\ ien /\ npc = pc + 1
  /\ SetExc(npc % WordSize, 255)
  /\ pc' = EXC_VECTOR /\ npc' = EXC_VECTOR + 1

(* Control: fall through to npc, or arrive at dest after it.  *)
Advance    == pc' = npc /\ npc' = npc + 1
Goto(dest) == pc' = npc /\ npc' = dest
Continue   == (Advance /\ SameExc) \/ Interrupted

SameHiLo  == UNCHANGED <<hi, lo>>
SameStack == UNCHANGED sp
SameMem   == UNCHANGED dmem
SameZ     == UNCHANGED zFlag
SameRegs  == UNCHANGED regs

-----------------------------------------------------------------------------
(* R-type; the product also goes to HI and LO. *)
Result  == AluR(i.f, Ra, Rb) % WordSize
Shifted == AluS(i.f, Ra, i.b) % WordSize

ArithLogic ==
  /\ i.op = OP_R
  /\ SetReg(i.a, Result)
  /\ IF i.f = F_MUL THEN SetHiLo(MulHigh(Ra, Rb), Result) ELSE SameHiLo
  /\ zFlag' = (Result = 0)
  /\ Continue /\ SameStack /\ SameMem

Shift ==
  /\ i.op = OP_S
  /\ SetReg(i.a, Shifted)
  /\ zFlag' = (Shifted = 0)
  /\ Continue /\ SameHiLo /\ SameStack /\ SameMem

AddImmediate ==
  /\ i.op = OP_ADDI
  /\ SetReg(i.a, (Ra + SignExt8(Byte(i))) % WordSize)
  /\ zFlag' = ((Ra + SignExt8(Byte(i))) % WordSize = 0)
  /\ Continue /\ SameHiLo /\ SameStack /\ SameMem

LoadByte ==
  /\ i.op \in {OP_LIL, OP_LIU}
  /\ SetReg(i.a, IF i.op = OP_LIL THEN (Ra \div 256) * 256 + Byte(i)
                 ELSE Byte(i) * 256 + (Ra % 256))
  /\ Continue /\ SameHiLo /\ SameStack /\ SameMem /\ SameZ

-----------------------------------------------------------------------------
(* Memory and stack.  A load addressed to register 0 reads and drops. *)
WordAt == (Rb + i.f) % WordSize

Load ==
  /\ i.op = OP_LW
  /\ SetReg(i.a, DRead(dmem, WordAt))
  /\ Continue /\ SameHiLo /\ SameStack /\ SameMem /\ SameZ

Store ==
  /\ i.op = OP_SW
  /\ dmem' = DWrite(dmem, WordAt, Ra)
  /\ Continue /\ SameHiLo /\ SameStack /\ SameRegs /\ SameZ

Push ==
  /\ IsStack(i, PUSH)
  /\ sp' = (sp - 1) % WordSize
  /\ dmem' = DWrite(dmem, (sp - 1) % WordSize, Ra)
  /\ Continue /\ SameHiLo /\ SameRegs /\ SameZ

Pop ==
  /\ IsStack(i, POP)
  /\ sp' = (sp + 1) % WordSize
  /\ SetReg(i.a, DRead(dmem, sp))
  /\ Continue /\ SameHiLo /\ SameMem /\ SameZ

(* Reading SP goes through the ALU and so sets the Z register. *)
ReadSP ==
  /\ IsStack(i, SPRD)
  /\ SetReg(i.a, sp)
  /\ zFlag' = (sp = 0)
  /\ Continue /\ SameHiLo /\ SameStack /\ SameMem

WriteSP ==
  /\ IsStack(i, SPWR)
  /\ sp' = Ra
  /\ Continue /\ SameHiLo /\ SameRegs /\ SameMem /\ SameZ

-----------------------------------------------------------------------------
(* Control transfers. *)
Jump ==
  /\ i.op \in {OP_J, OP_JAL}
  /\ Goto(pc + 1 + SignExt12(Address(i)))
  /\ IF i.op = OP_JAL THEN SetReg(LinkReg, (pc + 2) % WordSize) ELSE SameRegs
  /\ SameHiLo /\ SameStack /\ SameMem /\ SameZ /\ SameExc

JumpRegister ==
  /\ i.op = OP_JR
  /\ Goto(Ra)
  /\ SameHiLo /\ SameStack /\ SameRegs /\ SameMem /\ SameZ /\ SameExc

Holds == CASE i.op = OP_BHLEQ -> hi = lo
           [] i.op = OP_BZ_N  -> ~zFlag
           [] OTHER           -> zFlag

Branch ==
  /\ i.op \in {OP_BZ, OP_BZ_T, OP_BZ_N, OP_BHLEQ}
  /\ IF Holds THEN Goto(pc + 2 + SignExt12(Address(i))) /\ SameExc ELSE Continue
  /\ SameHiLo /\ SameStack /\ SameRegs /\ SameMem /\ SameZ

-----------------------------------------------------------------------------
(* HI, LO and program memory. *)
WithLower(x) == (x \div 256) * 256 + Byte(i)
WithUpper(x) == Byte(i) * 256 + (x % 256)

WriteHiLo ==
  /\ i.op = OP_M1
  /\ \/ i.a = LHL /\ SetHiLo(WithLower(hi), lo)
     \/ i.a = LHH /\ SetHiLo(WithUpper(hi), lo)
     \/ i.a = LLL /\ SetHiLo(hi, WithLower(lo))
     \/ i.a = LLH /\ SetHiLo(hi, WithUpper(lo))
     \/ i.a = AIH /\ SetHiLo((hi + Byte(i)) % WordSize, lo)
     \/ i.a = AIL /\ SetHiLo(hi, (lo + Byte(i)) % WordSize)
     \/ i.a = AIS /\ SetHiLo((hi + (lo + Byte(i)) \div WordSize) % WordSize,
                             (lo + Byte(i)) % WordSize)
     \/ i.a = MTHI /\ SetHiLo(RRead(regs, i.f), lo)
     \/ i.a = MTLO /\ SetHiLo(hi, RRead(regs, i.f))
  /\ Continue /\ SameStack /\ SameRegs /\ SameMem /\ SameZ

ReadHiLo ==
  /\ i.op = OP_M1 /\ i.a \in {MFHI, MFLO}
  /\ SetReg(i.f, IF i.a = MFHI THEN hi ELSE lo)
  /\ Continue /\ SameHiLo /\ SameStack /\ SameMem /\ SameZ

LoadProgramWord ==
  /\ IsM1(i, LPM)
  /\ SetReg(i.f, ToWord(FetchWord(prog, Rb \div 2)))
  /\ Continue /\ SameHiLo /\ SameStack /\ SameMem /\ SameZ

-----------------------------------------------------------------------------
(* Exceptions.  A system call and RETI have delay slots like other         *)
(* transfers; no interrupt comes right after an EI, a DI or an MTEPC.      *)
SystemCall ==
  /\ IsM1(i, SYSCALL)
  /\ SetExc((pc + 2) % WordSize, 256 + Byte(i))
  /\ Goto(EXC_VECTOR)
  /\ SameHiLo /\ SameStack /\ SameRegs /\ SameMem /\ SameZ

ReturnFromException ==
  /\ IsM4(i, RETI)
  /\ Goto(epc)
  /\ ien' = TRUE /\ UNCHANGED <<epc, eca>>
  /\ SameHiLo /\ SameStack /\ SameRegs /\ SameMem /\ SameZ

SetInterruptEnable ==
  /\ IsM4(i, EI) \/ IsM4(i, DI)
  /\ ien' = IsM4(i, EI) /\ UNCHANGED <<epc, eca>>
  /\ Advance /\ SameHiLo /\ SameStack /\ SameRegs /\ SameMem /\ SameZ

(* Moves to and from EPC and ECA go through the ALU and so set Z.          *)
ReadException ==
  /\ IsM4(i, MFEPC) \/ IsM4(i, MFECA)
  /\ LET v == IF IsM4(i, MFEPC) THEN epc ELSE eca
     IN  SetReg(i.f, v) /\ zFlag' = (v = 0)
  /\ Continue /\ SameHiLo /\ SameStack /\ SameMem

WriteEPC ==
  /\ IsM4(i, MTEPC)
  /\ epc' = RRead(regs, i.f) /\ UNCHANGED <<eca, ien>>
  /\ zFlag' = (RRead(regs, i.f) = 0)
  /\ Advance /\ SameHiLo /\ SameStack /\ SameRegs /\ SameMem

(* Encodings that the decoder knows nothing of do nothing.                 *)
Undefined ==
  \/ i.op = OP_STACK /\ i.f \notin {PUSH, POP, SPRD, SPWR}
  \/ i.op = OP_M1 /\ i.a > LPM
  \/ IsM1(i, M4) /\ i.b > MTEPC

NoOperation ==
  /\ Undefined
  /\ Continue /\ SameHiLo /\ SameStack /\ SameRegs /\ SameMem /\ SameZ

-----------------------------------------------------------------------------
(* The Z register starts set: the dummy NOP a reset puts into the pipeline *)
(* has gone through the ALU before the first instruction is executed.      *)
Init ==
  /\ IsProgram(prog) /\ IsMemory(dmem)
  /\ pc = 0 /\ npc = 1
  /\ regs = [r \in Reg |-> 0] /\ hi = 0 /\ lo = 0 /\ sp = ResetSP
  /\ zFlag = TRUE
  /\ epc = 0 /\ eca = 0 /\ ien = FALSE

Execute ==
  \/ ArithLogic \/ Shift \/ AddImmediate \/ LoadByte
  \/ Load \/ Store \/ Push \/ Pop \/ ReadSP \/ WriteSP
  \/ Jump \/ JumpRegister \/ Branch
  \/ WriteHiLo \/ ReadHiLo \/ LoadProgramWord
  \/ SystemCall \/ ReturnFromException \/ SetInterruptEnable
  \/ ReadException \/ WriteEPC \/ NoOperation

Next == Execute /\ UNCHANGED prog

Spec == Init /\ [][Next]_vars
=============================================================================
