--------------------------- MODULE PipelineProofs ---------------------------
(***************************************************************************)
(* Proofs about the pipeline for every program, every data memory and      *)
(* every behaviour of the interrupt pin; and, at the end, about a core     *)
(* that is reset while it runs: the types of the pipeline, and that        *)
(* nothing that was in flight leaves a result behind.                      *)
(***************************************************************************)
EXTENDS PipelineReset, TLAPS

-----------------------------------------------------------------------------
(* Words.  Past these lemmas the width of a word is never expanded.        *)

LEMMA WordBounds ==
  \A x : x \in Word <=> x \in Int /\ 0 =< x /\ x =< 65535
<1>1. WordSize - 1 = 65535
  BY SMTT(30) DEF WordSize
<1>2. \A x : x \in 0 .. WordSize - 1 <=> x \in Int /\ 0 =< x /\ x =< WordSize - 1
  BY SMTT(30)
<1> QED
  BY <1>1, <1>2, SMTT(30) DEF Word

LEMMA CutToWord == \A x \in Int : x % WordSize \in Word
BY SMTT(30) DEF Word, WordSize

LEMMA LowerByteMerge ==
  ASSUME NEW x \in Word, NEW k \in Int, 0 =< k, k =< 255
  PROVE  (x \div 256) * 256 + k \in Word
BY WordBounds, SMT

LEMMA UpperByteMerge ==
  ASSUME NEW x \in Word, NEW k \in Int, 0 =< k, k =< 255
  PROVE  k * 256 + (x % 256) \in Word
BY WordBounds, SMT

-----------------------------------------------------------------------------
(* Fields of an instruction. *)

LEMMA NibbleBounds ==
  \A x : x \in Nibble <=> x \in Int /\ 0 =< x /\ x =< 15
BY SMT DEF Nibble

LEMMA InstrFields ==
  ASSUME NEW i \in Instr
  PROVE  i.op \in Nibble /\ i.a \in Nibble /\ i.b \in Nibble /\ i.f \in Nibble
BY SMT DEF Instr

LEMMA ByteRange ==
  ASSUME NEW i \in Instr
  PROVE  Byte(i) \in Int /\ 0 =< Byte(i) /\ Byte(i) =< 255
BY InstrFields, NibbleBounds, SMT DEF Byte

LEMMA AddressRange ==
  ASSUME NEW i \in Instr
  PROVE  Address(i) \in Int /\ 0 =< Address(i) /\ Address(i) =< 4095
BY InstrFields, NibbleBounds, ByteRange, SMT DEF Address

LEMMA ToWordType ==
  ASSUME NEW i \in Instr PROVE ToWord(i) \in Word
BY InstrFields, NibbleBounds, AddressRange, WordBounds, SMT DEF ToWord

LEMMA RegAType ==
  ASSUME NEW i \in Instr PROVE RegA(i) \in Reg /\ RegB(i) \in Reg
BY InstrFields, SMT DEF RegA, RegB, Reg, Nibble

LEMMA SignExt12Type ==
  ASSUME NEW i \in Instr PROVE SignExt12(Address(i)) \in Int
BY AddressRange, SMT DEF SignExt12

LEMMA SignExt8Type ==
  ASSUME NEW i \in Instr PROVE SignExt8(Byte(i)) \in Word
BY ByteRange, WordBounds, SMT DEF SignExt8

LEMMA NopType == NOP \in Instr /\ ZeroWord \in Instr
BY SMT DEF ZeroWord, NOP, Instr, Nibble, OP_R, F_AND, F_OR

LEMMA FetchWordType ==
  ASSUME NEW p, IsProgram(p), NEW addr \in Int
  PROVE  FetchWord(p, addr) \in Instr
BY NopType, SMT DEF IsProgram, FetchWord

-----------------------------------------------------------------------------
(* Memory and register bank. *)

LEMMA DReadType ==
  ASSUME NEW mem, IsMemory(mem), NEW addr \in Word
  PROVE  DRead(mem, addr) \in Word
BY WordBounds, SMT DEF IsMemory, DRead

LEMMA DWriteType ==
  ASSUME NEW mem, IsMemory(mem), NEW addr \in Word, NEW v \in Word
  PROVE  IsMemory(DWrite(mem, addr, v))
BY SMT DEF IsMemory, DWrite

LEMMA RReadType ==
  ASSUME NEW rs \in [Reg -> Word], NEW r \in Reg
  PROVE  RRead(rs, r) \in Word
BY WordBounds, SMT DEF RRead

LEMMA RWriteType ==
  ASSUME NEW rs \in [Reg -> Word], NEW r \in Reg, NEW v \in Word
  PROVE  RWrite(rs, r, v) \in [Reg -> Word]
BY SMT DEF RWrite

-----------------------------------------------------------------------------
(* The ALU: every function yields an integer, which Operate cuts. *)

LEMMA TwoType ==
  ASSUME NEW n \in Int, 0 =< n, n =< 16
  PROVE  Two(n) \in Int /\ Two(n) > 0
BY SMT DEF Two, Pow2

LEMMA BitType ==
  ASSUME NEW x \in Word, NEW n \in Int, 0 =< n, n =< 15
  PROVE  Bit(x, n) \in Int
BY TwoType, WordBounds, SMT DEF Bit

LEMMA BitwiseType ==
  ASSUME NEW x \in Word, NEW y \in Word
  PROVE  /\ And16(x, y) \in Int /\ Or16(x, y) \in Int
         /\ Nor16(x, y) \in Int /\ Xor16(x, y) \in Int
<1>1. ASSUME NEW n \in Int, 0 =< n, n =< 15
      PROVE  Bit(x, n) * Bit(y, n) * Two(n) \in Int
  BY <1>1, BitType, TwoType, SMT
<1>2. And16(x, y) \in Int
  BY <1>1, SMT DEF And16
<1> QED
  BY <1>2, WordBounds, SMT DEF Or16, Nor16, Xor16

LEMMA SignedType ==
  ASSUME NEW x \in Word PROVE Signed(x) \in Int
BY WordBounds, SMT DEF Signed, WordSize

LEMMA MulType ==
  ASSUME NEW x \in Word, NEW y \in Word
  PROVE  MulLow(x, y) \in Int /\ MulHigh(x, y) \in Word
<1>1. x \in Int /\ y \div 256 \in Int /\ y % 256 \in Int
  BY WordBounds, SMT
<1>2. x * (y \div 256) \in Int /\ x * (y % 256) \in Int
  BY <1>1, SMT
<1>3. (x * (y \div 256) + (x * (y % 256)) \div 256) \div 256 \in Int
  BY <1>2, SMT
<1>4. ((x * (y \div 256)) % 256) * 256 + x * (y % 256) \in Int
  BY <1>2, SMT
<1> QED
  BY <1>3, <1>4, CutToWord, WordBounds, SMT DEF MulLow, MulHigh

LEMMA AluRType ==
  ASSUME NEW f, NEW x \in Word, NEW y \in Word
  PROVE  AluR(f, x, y) \in Int
BY BitwiseType, MulType, WordBounds, SMT DEF AluR

LEMMA AluSType ==
  ASSUME NEW f, NEW x \in Word, NEW s \in Nibble
  PROVE  AluS(f, x, s) \in Int
<1>1. s \in Int /\ 0 =< s /\ s =< 15 /\ 16 - s \in Int /\ 0 =< 16 - s /\ 16 - s =< 16
  BY NibbleBounds, SMT
<1>2. Two(s) \in Int /\ Two(s) > 0 /\ Two(16 - s) \in Int /\ Two(16 - s) > 0
  BY <1>1, TwoType, SMT
<1>3. x \in Int /\ Signed(x) \in Int
  BY WordBounds, SignedType, SMT
<1> QED
  BY <1>2, <1>3, SMT DEF AluS

LEMMA OperateType ==
  ASSUME NEW c, NEW f, NEW s \in Nibble, NEW x \in Word, NEW y \in Word
  PROVE  Operate(c, f, s, x, y) \in AluType
<1>1. AluValue(c, f, s, x, y) \in Int
  BY AluRType, AluSType, WordBounds, SMT DEF AluValue
<1>2. MulHigh(x, y) \in Word /\ 0 \in Word
  BY MulType, WordBounds, SMT
<1> QED
  BY <1>1, <1>2, CutToWord, SMT DEF Operate, AluType

-----------------------------------------------------------------------------
(* The decoder. *)

LEMMA NopCtlType == NopCtl \in CtlType
BY SMT DEF NopCtl, CtlType, RegOps, AluOps, MemOps, SpOps, HiLoOps, ExcOps, FlowOps

LEMMA CtlIsTyped ==
  ASSUME NEW i PROVE Ctl(i) \in CtlType
<1>1. RegCtl(i) \in RegOps /\ "NOP" \in RegOps
  BY SMT DEF RegCtl, RegOps
<1>2. AluCtl(i) \in AluOps
  BY SMT DEF AluCtl, AluOps
<1>3. MemCtl(i) \in MemOps
  BY SMT DEF MemCtl, MemOps
<1>4. SpCtl(i) \in SpOps
  BY SMT DEF SpCtl, SpOps
<1>5. HiCtl(i) \in HiLoOps
  BY SMT DEF HiCtl, HiLoOps
<1>6. LoCtl(i) \in HiLoOps
  BY SMT DEF LoCtl, HiLoOps
<1>7. ExcCtl(i) \in ExcOps
  BY SMT DEF ExcCtl, ExcOps
<1>8. FlowCtl(i) \in FlowOps
  BY SMT DEF FlowCtl, FlowOps
<1> QED
  BY <1>1, <1>2, <1>3, <1>4, <1>5, <1>6, <1>7, <1>8, SMT DEF Ctl, CtlType

-----------------------------------------------------------------------------
(* What the stages compute from well-typed latches. *)

LEMMA F2DFields ==
  ASSUME f2d \in F2DType PROVE f2d.ireg \in Instr /\ f2d.pc \in Int
BY SMT DEF F2DType

LEMMA D2EFields ==
  ASSUME d2e \in D2EType
  PROVE  /\ d2e.pc \in Int /\ d2e.ireg \in Instr /\ d2e.bubble \in BOOLEAN
         /\ d2e.ctl \in CtlType /\ d2e.sel \in Reg /\ d2e.regaOut \in Word
         /\ d2e.opA \in Word /\ d2e.opB \in Word /\ d2e.hiOut \in Word
         /\ d2e.loOut \in Word /\ d2e.spVal \in Word /\ d2e.jDest \in Int
BY SMT DEF D2EType

LEMMA E2MFields ==
  ASSUME e2m \in E2MType
  PROVE  /\ e2m.pc \in Int /\ e2m.ireg \in Instr /\ e2m.bubble \in BOOLEAN
         /\ e2m.ctl \in CtlType /\ e2m.sel \in Reg /\ e2m.regaOut \in Word
         /\ e2m.alu \in AluType /\ e2m.alu.value \in Word
         /\ e2m.hiOut \in Word /\ e2m.loOut \in Word
         /\ e2m.spNew \in Word /\ e2m.spAddr \in Word
BY SMT DEF E2MType, AluType

LEMMA M2WFields ==
  ASSUME m2w \in M2WType
  PROVE  /\ m2w.pc \in Int /\ m2w.ireg \in Instr /\ m2w.bubble \in BOOLEAN
         /\ m2w.ctl \in CtlType /\ m2w.sel \in Reg /\ m2w.regaOut \in Word
         /\ m2w.alu.value \in Word /\ m2w.alu.hi \in Word /\ m2w.memOut \in Word
         /\ m2w.hiOut \in Word /\ m2w.loOut \in Word /\ m2w.spNew \in Word
BY SMT DEF M2WType, AluType

LEMMA WriteValueType ==
  ASSUME NEW l, l.ireg \in Instr, l.pc \in Int, l.regaOut \in Word, l.alu.value \in Word,
         l.hiOut \in Word, l.loOut \in Word, NEW v \in Word
  PROVE  WriteValue(l, v) \in Word
<1>1. Byte(l.ireg) \in Int /\ 0 =< Byte(l.ireg) /\ Byte(l.ireg) =< 255
  BY ByteRange, SMT
<1>2. /\ (l.regaOut \div 256) * 256 + Byte(l.ireg) \in Word
      /\ Byte(l.ireg) * 256 + (l.regaOut % 256) \in Word
  BY <1>1, LowerByteMerge, UpperByteMerge, SMT
<1>3. (l.pc + 2) % WordSize \in Word /\ 65535 \in Word
  BY CutToWord, WordBounds, SMT
<1> QED
  BY <1>2, <1>3, SMT DEF WriteValue

LEMMA ForwardedType ==
  ASSUME TypeOK, NEW r \in Reg PROVE Forwarded(r) \in Word
<1>1. FwdValFromEX \in Word
  <2>1. 65535 \in Word
    BY WordBounds, SMT
  <2> QED
    BY <2>1, E2MFields, WriteValueType, SMT DEF TypeOK, FwdValFromEX
<1>2. FwdValFromMEM \in Word
  BY M2WFields, WriteValueType, SMT DEF TypeOK, FwdValFromMEM
<1>3. RRead(regs, r) \in Word
  BY RReadType DEF TypeOK
<1> QED
  BY <1>1, <1>2, <1>3 DEF Forwarded

LEMMA SPAdderType ==
  ASSUME d2e \in D2EType PROVE SPAdder(d2e) \in Word
BY D2EFields, CutToWord, WordBounds, SMT DEF SPAdder

LEMMA ForwardedSPType ==
  ASSUME TypeOK PROVE ForwardedSP \in Word
BY SPAdderType, E2MFields, M2WFields, SMT DEF TypeOK, ForwardedSP

LEMMA FetchPCType ==
  ASSUME TypeOK PROVE FetchPC \in Int
BY D2EFields, SignExt12Type, SMT DEF TypeOK, FetchPC, EXC_VECTOR

LEMMA FetchedType ==
  ASSUME TypeOK
  PROVE  EpcFetched \in Word /\ EcaFetched \in Word /\ IenFetched \in BOOLEAN
<1>1. EpcFetched \in Word
  BY D2EFields, CutToWord, SMT DEF TypeOK, EpcFetched
<1>2. EcaFetched \in Word
  BY D2EFields, ByteRange, WordBounds, SMT DEF TypeOK, EcaFetched
<1>3. IenFetched \in BOOLEAN
  BY Zenon DEF TypeOK, IenFetched
<1> QED
  BY <1>1, <1>2, <1>3

LEMMA DecodedType ==
  ASSUME TypeOK, NEW b \in BOOLEAN PROVE Decoded(b) \in D2EType
<1> DEFINE i == f2d.ireg
<1>1. i \in Instr /\ f2d.pc \in Int
  BY F2DFields DEF TypeOK
<1>2. RegA(i) \in Reg /\ RegB(i) \in Reg
  BY <1>1, RegAType
<1>3. RRead(regs, RegA(i)) \in Word
  BY <1>2, RReadType DEF TypeOK
<1>4. Forwarded(RegA(i)) \in Word /\ Forwarded(RegB(i)) \in Word
  BY <1>2, ForwardedType
<1>5. JumpDest(i, Ctl(i)) \in Int
  <2>1. SignExt12(Address(i)) \in Int
    BY <1>1, SignExt12Type
  <2>2. EpcFetched \in Int /\ m2w.alu.value \in Int /\ Forwarded(RegA(i)) \in Int
    BY <1>4, FetchedType, M2WFields, WordBounds, SMT DEF TypeOK
  <2> QED
    BY <1>1, <2>1, <2>2, SMT DEF JumpDest
<1>6. (IF b THEN NopCtl ELSE Ctl(i)) \in CtlType
  BY NopCtlType, CtlIsTyped
<1>7. (IF Ctl(i).sp = "none" THEN 0 ELSE ForwardedSP) \in Word
  BY ForwardedSPType, WordBounds, SMT
<1> QED
  BY <1>1, <1>2, <1>3, <1>4, <1>5, <1>6, <1>7, SMT DEF Decoded, HandedCtl, D2EType, TypeOK

LEMMA AluOutType ==
  ASSUME TypeOK PROVE AluOut(d2e) \in AluType
<1>1. d2e.ireg \in Instr /\ d2e.ireg.b \in Nibble /\ d2e.ireg.f \in Word
  BY D2EFields, InstrFields, NibbleBounds, WordBounds, SMT DEF TypeOK
<1>2. OperandA(d2e) \in Word
  BY <1>1, D2EFields, FetchedType, WordBounds, SMT DEF TypeOK, OperandA
<1>3. OperandB(d2e) \in Word
  BY <1>1, D2EFields, SignExt8Type, WordBounds, SMT DEF TypeOK, OperandB
<1> QED
  BY <1>1, <1>2, <1>3, OperateType DEF AluOut

LEMMA ExecutedType ==
  ASSUME TypeOK PROVE Executed(d2e) \in E2MType
BY AluOutType, SPAdderType, D2EFields, SMT DEF TypeOK, Executed, E2MType

LEMMA AccessedType ==
  ASSUME TypeOK PROVE Accessed(e2m) \in M2WType
<1>1. MemAddr(e2m) \in Word
  BY E2MFields, SMT DEF TypeOK, MemAddr
<1>2. Loaded(e2m) \in Word
  <2>1. DRead(dmem, MemAddr(e2m)) \in Word
    BY <1>1, DReadType DEF TypeOK
  <2>2. MemAddr(e2m) \div 2 \in Int
    BY <1>1, WordBounds, SMT
  <2>3. ToWord(FetchWord(prog, MemAddr(e2m) \div 2)) \in Word
    BY <2>2, FetchWordType, ToWordType DEF TypeOK
  <2> QED
    BY <2>1, <2>3, WordBounds, SMT DEF Loaded
<1> QED
  BY <1>2, E2MFields, SMT DEF TypeOK, Accessed, M2WType

LEMMA StoredType ==
  ASSUME TypeOK PROVE IsMemory(Stored(e2m))
<1>1. MemAddr(e2m) \in Word /\ e2m.regaOut \in Word
  BY E2MFields, SMT DEF TypeOK, MemAddr
<1>2. IsMemory(dmem)
  BY DEF TypeOK
<1>3. IsMemory(DWrite(dmem, MemAddr(e2m), e2m.regaOut))
  BY <1>1, <1>2, DWriteType
<1> QED
  BY <1>2, <1>3, Zenon DEF Stored

LEMMA WrittenType ==
  ASSUME TypeOK
  PROVE  /\ WrittenRegs(m2w) \in [Reg -> Word] /\ WrittenSP(m2w) \in Word
         /\ WrittenHi(m2w) \in Word /\ WrittenLo(m2w) \in Word
<1>1. WriteValue(m2w, m2w.memOut) \in Word
  BY M2WFields, WriteValueType, SMT DEF TypeOK
<1>2. Dest(m2w) \in Reg
  BY M2WFields, SMT DEF TypeOK, Dest, LinkReg, Reg
<1>3. WrittenRegs(m2w) \in [Reg -> Word]
  BY <1>1, <1>2, RWriteType DEF TypeOK, WrittenRegs
<1>4. WrittenSP(m2w) \in Word
  BY M2WFields, SMT DEF TypeOK, WrittenSP
<1>5. Byte(m2w.ireg) \in Int /\ 0 =< Byte(m2w.ireg) /\ Byte(m2w.ireg) =< 255
  BY ByteRange, M2WFields, SMT DEF TypeOK
<1>6. ASSUME NEW op, NEW live \in Word, NEW half \in Word
      PROVE  HalfWritten(op, live, half, m2w) \in Word
  <2>1. /\ (live \div 256) * 256 + Byte(m2w.ireg) \in Word
        /\ Byte(m2w.ireg) * 256 + (live % 256) \in Word
    BY <1>5, LowerByteMerge, UpperByteMerge, SMT
  <2>2. (half + Byte(m2w.ireg)) % WordSize \in Word
    BY <1>5, CutToWord, WordBounds, SMT
  <2> QED
    BY <2>1, <2>2, M2WFields, SMT DEF TypeOK, HalfWritten
<1>7. hi \in Word /\ lo \in Word /\ m2w \in M2WType
  BY DEF TypeOK
<1>8. WrittenHi(m2w) \in Word
  <2>1. (m2w.hiOut + (m2w.loOut + Byte(m2w.ireg)) \div WordSize) % WordSize \in Word
    <3>1. m2w.hiOut + (m2w.loOut + Byte(m2w.ireg)) \div WordSize \in Int
      BY <1>5, <1>7, M2WFields, WordBounds, SMT DEF WordSize
    <3> QED
      BY <3>1, CutToWord
  <2> QED
    BY <1>6, <1>7, <2>1, M2WFields, SMT DEF WrittenHi
<1>9. WrittenLo(m2w) \in Word
  <2>1. (m2w.loOut + Byte(m2w.ireg)) % WordSize \in Word
    BY <1>5, <1>7, M2WFields, CutToWord, WordBounds, SMT
  <2> QED
    BY <1>6, <1>7, <2>1, M2WFields, SMT DEF WrittenLo
<1> QED
  BY <1>3, <1>4, <1>8, <1>9

-----------------------------------------------------------------------------
(* Type correctness. *)

LEMMA InitType == Init => TypeOK
<1> SUFFICES ASSUME Init PROVE TypeOK
  OBVIOUS
<1>1. /\ cycle \in 0 .. MaxCycles /\ IsProgram(prog) /\ IsMemory(dmem)
      /\ pc \in Int /\ stallCtr \in 0 .. 1
  BY PipelineAssumption, SMT DEF Init
<1>2. 0 \in Word /\ 65487 \in Word /\ 0 \in Reg
  BY WordBounds, SMT DEF Reg
<1>8. regs \in [Reg -> Word]
  BY <1>2, SMT DEF Init
<1>3. /\ hi \in Word /\ lo \in Word /\ sp \in Word /\ epc \in Word /\ eca \in Word
  BY <1>2, SMT DEF Init, ResetSP
<1>9. zFlag \in BOOLEAN /\ ien \in BOOLEAN /\ intPin \in BOOLEAN
  BY Zenon DEF Init
<1>4. f2d \in F2DType
  BY NopType, SMT DEF Init, F2DType
<1>5. d2e \in D2EType
  BY <1>2, NopType, NopCtlType, SMT DEF Init, D2EType, EmptyD2E
<1>6. e2m \in E2MType
  BY <1>2, NopType, NopCtlType, SMT DEF Init, E2MType, EmptyE2M, AluType
<1>7. m2w \in M2WType
  BY <1>2, NopType, NopCtlType, SMT DEF Init, M2WType, EmptyM2W, AluType
<1> QED
  BY <1>1, <1>3, <1>4, <1>5, <1>6, <1>7, <1>8, <1>9 DEF TypeOK

LEMMA ClockType == TypeOK /\ Clock => TypeOK'
<1> SUFFICES ASSUME TypeOK, Clock PROVE TypeOK'
  OBVIOUS
<1>1. cycle' \in 0 .. MaxCycles
  BY PipelineAssumption, SMT DEF TypeOK, Clock
<1>13. stallCtr' \in 0 .. 1
  <2>1. stallCtr \in 0 .. 1
    BY DEF TypeOK
  <2>2. stallCtr' = IF LoadUse THEN 1 ELSE IF stallCtr > 0 THEN stallCtr - 1 ELSE 0
    BY DEF Clock, StallsLeft
  <2> QED
    BY <2>1, <2>2, SMT
<1>14. IsProgram(prog')
  BY DEF TypeOK, Clock
<1>2. pc' \in Int
  BY FetchPCType, SMT DEF TypeOK, Clock
<1>3. f2d' \in F2DType
  <2>1. FetchWord(prog, FetchPC) \in Instr
    BY FetchPCType, FetchWordType DEF TypeOK
  <2> QED
    BY <2>1, FetchPCType, SMT DEF TypeOK, Clock, F2DType
<1>4. d2e' \in D2EType
  BY DecodedType, Zenon DEF Clock
<1>5. e2m' \in E2MType
  BY ExecutedType DEF Clock
<1>6. m2w' \in M2WType
  BY AccessedType DEF Clock
<1>7. IsMemory(dmem')
  BY StoredType DEF Clock
<1>8. regs' \in [Reg -> Word] /\ hi' \in Word /\ lo' \in Word /\ sp' \in Word
  BY WrittenType DEF Clock
<1>9. epc' \in Word /\ eca' \in Word
  BY FetchedType, M2WFields, SMT DEF TypeOK, Clock
<1>10. zFlag' \in BOOLEAN
  BY Zenon DEF TypeOK, Clock
<1>11. ien' \in BOOLEAN
  BY FetchedType, Zenon DEF Clock, IenDecoded
<1>12. intPin' \in BOOLEAN
  BY PipelineAssumption DEF Clock
<1> QED
  BY <1>1, <1>2, <1>3, <1>4, <1>5, <1>6, <1>7, <1>8, <1>9, <1>10, <1>11, <1>12,
     <1>13, <1>14 DEF TypeOK

(* Every value the program keeps in a register, a memory cell or a latch   *)
(* fits the type the C++ code gives it, whatever program is running.       *)
THEOREM TypeCorrect == Spec => []TypeOK
<1>1. TypeOK /\ UNCHANGED vars => TypeOK'
  BY SMT DEF TypeOK, vars, arch, latch
<1>2. TypeOK /\ [Next]_vars => TypeOK'
  BY <1>1, ClockType DEF Next
<1> QED
  BY InitType, <1>2, PTL DEF Spec

-----------------------------------------------------------------------------
(* The inductive invariant of the control path. *)

(* The control word in EX is that of the instruction in EX, or no control. *)
ControlIsDecoded == d2e.ctl \in {NopCtl, Ctl(d2e.ireg)}

(* Load stalls are counted down in the clock after a load left MEM. *)
StallFollowsLoad == stallCtr > 0 => m2w.ctl.reg = "MEM"

ControlInv ==
  /\ TypeOK
  /\ BubblesAreInert
  /\ ControlIsDecoded
  /\ StallFollowsLoad
  /\ ReturnAddressIsCurrent

LEMMA InitControl == Init => ControlInv
<1> SUFFICES ASSUME Init PROVE ControlInv
  OBVIOUS
<1>1. TypeOK
  BY InitType
<1>2. d2e.ctl = NopCtl /\ e2m.ctl = NopCtl /\ m2w.ctl = NopCtl /\ stallCtr = 0
  BY SMT DEF Init, EmptyD2E, EmptyE2M, EmptyM2W
<1>3. NopCtl.flow = "none"
  BY SMT DEF NopCtl
<1> QED
  BY <1>1, <1>2, <1>3, SMT
  DEF ControlInv, BubblesAreInert, ControlIsDecoded, StallFollowsLoad, ReturnAddressIsCurrent

(* What one clock does to the control words and the bubbles. *)
LEMMA ClockMovesControl ==
  ASSUME Clock
  PROVE  /\ d2e'.bubble = (Stalled \/ LoadUse)
         /\ d2e'.ctl = (IF Stalled \/ LoadUse THEN NopCtl ELSE Ctl(f2d.ireg))
         /\ d2e'.ireg = f2d.ireg
         /\ d2e'.jDest = JumpDest(f2d.ireg, Ctl(f2d.ireg))
         /\ e2m'.ctl = d2e.ctl /\ e2m'.bubble = d2e.bubble
         /\ m2w'.ctl = e2m.ctl /\ m2w'.bubble = e2m.bubble
<1>1. d2e' = Decoded(Stalled \/ LoadUse) /\ e2m' = Executed(d2e) /\ m2w' = Accessed(e2m)
  BY DEF Clock
<1>2. ASSUME NEW b
      PROVE  /\ Decoded(b).bubble = b
             /\ Decoded(b).ctl = (IF b THEN NopCtl ELSE Ctl(f2d.ireg))
             /\ Decoded(b).ireg = f2d.ireg
             /\ Decoded(b).jDest = JumpDest(f2d.ireg, Ctl(f2d.ireg))
  BY Zenon DEF Decoded, HandedCtl
<1>3. Executed(d2e).ctl = d2e.ctl /\ Executed(d2e).bubble = d2e.bubble
  BY Zenon DEF Executed
<1>4. Accessed(e2m).ctl = e2m.ctl /\ Accessed(e2m).bubble = e2m.bubble
  BY Zenon DEF Accessed
<1> QED
  BY <1>1, <1>2, <1>3, <1>4, Zenon

(* Only RETI has the control flow of RETI. *)
LEMMA RetiFlow ==
  ASSUME NEW i PROVE Ctl(i).flow = "reti" => IsM4(i, RETI)
BY SMT DEF Ctl, FlowCtl

(* A transfer neither touches EPC nor writes a register, except JAL. *)
LEMMA TransferControl ==
  ASSUME NEW i, Ctl(i).flow \in {"j", "jr", "reti", "syscall"}
  PROVE  Ctl(i).exc = "none" /\ Ctl(i).reg \in {"NOP", "PC"}
<1>1. \/ i.op \in {OP_J, OP_JAL, OP_JR}
      \/ IsM1(i, SYSCALL)
      \/ IsM4(i, RETI)
  BY SMT DEF Ctl, FlowCtl
<1>2. Ctl(i).exc = "none"
  BY <1>1, SMT DEF Ctl, ExcCtl, IsM4, IsM1, OP_J, OP_JAL, OP_JR, OP_M1, M4, SYSCALL,
                   RETI, MFEPC, MFECA, MTEPC
<1>3. Ctl(i).reg \in {"NOP", "PC"}
  BY <1>1, SMT DEF Ctl, RegCtl, IsM4, IsM1, IsStack, OP_J, OP_JAL, OP_JR, OP_M1, M4, SYSCALL,
                   RETI, MFEPC, MFECA, LPM, MFHI, MFLO, OP_R, OP_S, OP_ADDI, OP_LW, OP_LIU,
                   OP_LIL, OP_STACK
<1> QED
  BY <1>2, <1>3

LEMMA ClockKeepsControl == ControlInv /\ Clock => ControlInv'
<1> SUFFICES ASSUME ControlInv, Clock PROVE ControlInv'
  OBVIOUS
<1>1. TypeOK /\ TypeOK'
  BY ClockType DEF ControlInv
<1>2. /\ d2e'.bubble = (Stalled \/ LoadUse)
      /\ d2e'.ctl = (IF Stalled \/ LoadUse THEN NopCtl ELSE Ctl(f2d.ireg))
      /\ d2e'.ireg = f2d.ireg
      /\ d2e'.jDest = JumpDest(f2d.ireg, Ctl(f2d.ireg))
      /\ e2m'.ctl = d2e.ctl /\ e2m'.bubble = d2e.bubble
      /\ m2w'.ctl = e2m.ctl /\ m2w'.bubble = e2m.bubble
  BY ClockMovesControl
<1>3. stallCtr' > 0 => LoadUse
  <2>1. stallCtr \in 0 .. 1
    BY <1>1 DEF TypeOK
  <2>2. stallCtr' = IF LoadUse THEN 1 ELSE IF stallCtr > 0 THEN stallCtr - 1 ELSE 0
    BY DEF Clock, StallsLeft
  <2> QED
    BY <2>1, <2>2, SMT
<1>4. BubblesAreInert'
  <2>1. /\ d2e'.bubble => d2e'.ctl = NopCtl
        /\ e2m'.bubble => e2m'.ctl = NopCtl
        /\ m2w'.bubble => m2w'.ctl = NopCtl
        /\ stallCtr' > 0 => d2e'.bubble
    BY <1>2, <1>3, Zenon DEF ControlInv, BubblesAreInert
  <2> QED
    BY <2>1 DEF BubblesAreInert
<1>5. ControlIsDecoded'
  BY <1>2, Zenon DEF ControlIsDecoded
<1>6. StallFollowsLoad'
  BY <1>2, <1>3, Zenon DEF StallFollowsLoad, LoadUse
<1>7. ReturnAddressIsCurrent'
  <2> SUFFICES ASSUME d2e'.ctl.flow = "reti"
      PROVE  d2e'.jDest = epc' /\ e2m'.ctl.exc # "mtepc" /\ m2w'.ctl.exc # "mtepc"
    BY DEF ReturnAddressIsCurrent
  <2>1. ~Stalled /\ d2e'.ctl = Ctl(f2d.ireg)
    <3>1. NopCtl.flow # "reti"
      BY SMT DEF NopCtl
    <3> QED
      BY <1>2, <3>1, Zenon
  <2>2. Ctl(f2d.ireg).flow = "reti" /\ IsM4(f2d.ireg, RETI)
    BY <2>1, RetiFlow, Zenon
  <2>3. d2e.ctl.exc # "mtepc" /\ e2m.ctl.exc # "mtepc"
    BY <2>1, <2>2, Zenon DEF Stalled, EpcHazard
  <2>4. d2e'.jDest = IF m2w.ctl.exc = "mtepc" THEN m2w.alu.value ELSE EpcFetched
    BY <1>2, <2>2, SMT DEF JumpDest
  <2>5. epc' = IF m2w.ctl.exc = "mtepc" THEN m2w.alu.value ELSE EpcFetched
    BY DEF Clock
  <2> QED
    BY <1>2, <2>3, <2>4, <2>5, Zenon
<1> QED
  BY <1>1, <1>4, <1>5, <1>6, <1>7 DEF ControlInv

LEMMA ControlInvariant == Spec => []ControlInv
<1>1. ControlInv /\ UNCHANGED vars => ControlInv'
  <2> SUFFICES ASSUME ControlInv, UNCHANGED vars PROVE ControlInv'
    OBVIOUS
  <2>1. /\ d2e' = d2e /\ e2m' = e2m /\ m2w' = m2w /\ stallCtr' = stallCtr /\ epc' = epc
    BY DEF vars, arch, latch
  <2>2. TypeOK'
    BY SMT DEF ControlInv, TypeOK, vars, arch, latch
  <2> QED
    BY <2>1, <2>2 DEF ControlInv, BubblesAreInert, ControlIsDecoded, StallFollowsLoad,
                      ReturnAddressIsCurrent
<1>2. ControlInv /\ [Next]_vars => ControlInv'
  BY <1>1, ClockKeepsControl DEF Next
<1> QED
  BY InitControl, <1>2, PTL DEF Spec

-----------------------------------------------------------------------------
(* The safety properties, each from the inductive invariant. *)

(* A bubble changes nothing in any stage (SIM-BUG-6). *)
THEOREM BubblesInert == Spec => []BubblesAreInert
<1>1. ControlInv => BubblesAreInert
  BY DEF ControlInv
<1> QED
  BY ControlInvariant, <1>1, PTL

(* RETI in EX jumps to the EPC that is architecturally current. *)
THEOREM ReturnCurrent == Spec => []ReturnAddressIsCurrent
<1>1. ControlInv => ReturnAddressIsCurrent
  BY DEF ControlInv
<1> QED
  BY ControlInvariant, <1>1, PTL

(* An empty pipeline behind the decoder leaves no reason to stall, so no   *)
(* program can hold up the fetch for more than three clocks in a row.      *)
THEOREM StallsShort == Spec => []StallsAreShort
<1>1. ASSUME ControlInv, d2e.bubble, e2m.bubble, m2w.bubble
      PROVE  ~Stalled /\ ~LoadUse
  <2>1. d2e.ctl = NopCtl /\ e2m.ctl = NopCtl /\ m2w.ctl = NopCtl
    BY <1>1 DEF ControlInv, BubblesAreInert
  <2>2. NopCtl.reg = "NOP" /\ NopCtl.exc = "none"
    BY SMT DEF NopCtl
  <2>3. ~(stallCtr > 0)
    <3>1. stallCtr > 0 => m2w.ctl.reg = "MEM"
      BY <1>1 DEF ControlInv, StallFollowsLoad
    <3>2. "NOP" # "MEM"
      BY SMT
    <3> QED
      BY <2>1, <2>2, <3>1, <3>2, Zenon
  <2>4. ~ZeroGapHazard /\ ~EpcHazard /\ ~LoadUse
    BY <1>1, <2>1, <2>2, SMT DEF ZeroGapHazard, EpcHazard, LoadUse, FwdFromEX
  <2> QED
    BY <2>3, <2>4 DEF Stalled
<1>2. ControlInv => StallsAreShort
  BY <1>1 DEF StallsAreShort
<1> QED
  BY ControlInvariant, <1>2, PTL

-----------------------------------------------------------------------------
(* The action properties. *)

(* A fetched instruction is lost only behind a load it seems to depend on. *)
THEOREM InstructionsReachEX == Spec => FetchedIsDecoded
<1>1. ASSUME Clock PROVE DecodeStep
  <2> SUFFICES ASSUME f2d' # f2d, d2e'.bubble
      PROVE  e2m.ctl.reg = "MEM" /\ e2m.sel \in {RegA(f2d.ireg), RegB(f2d.ireg)} \ {0}
    BY DEF DecodeStep
  <2>1. ~Stalled
    BY <1>1 DEF Clock
  <2>2. LoadUse
    BY <1>1, <2>1, ClockMovesControl, Zenon
  <2> QED
    BY <2>2, SMT DEF LoadUse, FwdFromEX
<1>2. [Next]_vars => [DecodeStep]_vars
  BY <1>1 DEF Next
<1> QED
  BY <1>2, PTL DEF Spec, FetchedIsDecoded

(* A transfer in EX takes effect, except in the two cases it names.        *)
THEOREM TransfersTakeEffect == Spec => TransfersRedirect
<1>1. ASSUME ControlInv, Clock PROVE RedirectStep
  <2> SUFFICES ASSUME d2e.ctl.flow \in {"j", "jr", "reti", "syscall"},
                      pc' # (IF d2e.ctl.flow = "syscall" THEN EXC_VECTOR ELSE d2e.jDest) + 1
      PROVE  \/ d2e.ctl.reg = "PC" /\ LinkReg \in Sources(f2d.ireg)
             \/ e2m.ctl.exc = "mtepc" /\ (IsM4(f2d.ireg, RETI) \/ IsM4(f2d.ireg, MFEPC))
    BY DEF RedirectStep
  <2>1. d2e.ctl = Ctl(d2e.ireg) /\ ~d2e.bubble /\ ~(stallCtr > 0)
    <3>1. d2e.ctl # NopCtl
      BY SMT DEF NopCtl
    <3> QED
      BY <1>1, <3>1 DEF ControlInv, ControlIsDecoded, BubblesAreInert
  <2>2. d2e.ctl.exc = "none" /\ d2e.ctl.reg \in {"NOP", "PC"}
    BY <2>1, TransferControl, SMT
  <2>3. Stalled
    <3> SUFFICES ASSUME ~Stalled PROVE FALSE
      OBVIOUS
    <3>1. pc' = FetchPC + 1 /\ ~IntTaken
      BY <1>1, SMT DEF Clock, IntTaken
    <3>2. FetchPC = IF d2e.ctl.flow = "syscall" THEN EXC_VECTOR ELSE d2e.jDest
      <4>1. CASE d2e.ctl.flow = "syscall"
        <5>1. IntTaken \/ SyscallTaken
          BY <4>1 DEF SyscallTaken
        <5> QED
          BY <4>1, <5>1, SMT DEF FetchPC
      <4>2. CASE d2e.ctl.flow \in {"j", "jr", "reti"}
        <5>1. ~SyscallTaken /\ d2e.ctl.flow # "syscall"
          BY <4>2, SMT DEF SyscallTaken
        <5>2. ~(IntTaken \/ SyscallTaken)
          BY <3>1, <5>1
        <5>3. FetchPC = d2e.jDest
          BY <4>2, <5>2, SMT DEF FetchPC
        <5> QED
          BY <5>1, <5>3
      <4> QED
        BY <4>1, <4>2
    <3> QED
      BY <3>1, <3>2
  <2>4. CASE ZeroGapHazard
    <3>1. d2e.ctl.reg = "PC"
      BY <2>2, <2>4, SMT DEF ZeroGapHazard
    <3> QED
      BY <2>4, <3>1 DEF ZeroGapHazard, Dest
  <2>5. CASE EpcHazard
    BY <2>2, <2>5, SMT DEF EpcHazard
  <2> QED
    BY <2>1, <2>3, <2>4, <2>5 DEF Stalled
<1>2. ControlInv /\ [Next]_vars => [RedirectStep]_vars
  BY <1>1 DEF Next
<1> QED
  BY <1>2, ControlInvariant, PTL DEF Spec, TransfersRedirect

-----------------------------------------------------------------------------
(* Type correctness across resets. *)

LEMMA QuietedType ==
  ASSUME TypeOK
  PROVE  QuietedD2E \in D2EType /\ Quieted(e2m) \in E2MType /\ Quieted(m2w) \in M2WType
<1>1. d2e \in D2EType /\ e2m \in E2MType /\ m2w \in M2WType
  BY DEF TypeOK
<1>3. Quieted(e2m) \in E2MType
  BY <1>1 DEF Quieted, E2MType, CtlType, RegOps, SpOps, ExcOps
<1>4. Quieted(m2w) \in M2WType
  BY <1>1 DEF Quieted, M2WType, CtlType, RegOps, SpOps, ExcOps
<1>5. Quieted(d2e) \in D2EType
  BY <1>1 DEF Quieted, D2EType, CtlType, RegOps, SpOps, ExcOps
<1>6. QuietedD2E \in D2EType
  BY <1>5 DEF QuietedD2E, D2EType, CtlType, AluOps, FlowOps
<1> QED BY <1>3, <1>4, <1>6

LEMMA ResetType == TypeOK /\ Reset => TypeOK'
<1> SUFFICES ASSUME TypeOK, Reset PROVE TypeOK'
  OBVIOUS
<1>1. cycle' \in 0 .. MaxCycles /\ pc' \in Int /\ stallCtr' \in 0 .. 1
  BY PipelineAssumption DEF Reset
<1>2. 0 \in Word /\ 65487 \in Word
  BY WordBounds
<1>3. IsProgram(prog')
  BY DEF TypeOK, Reset
<1>4. IsMemory(dmem')
  BY DEF TypeOK, Reset, IsMemory
<1>5. regs' \in [Reg -> Word]
  BY <1>2 DEF Reset
<1>6. hi' \in Word /\ lo' \in Word /\ sp' \in Word /\ epc' \in Word /\ eca' \in Word
  BY <1>2 DEF TypeOK, Reset, ResetSP
<1>7. zFlag' \in BOOLEAN /\ ien' \in BOOLEAN /\ intPin' \in BOOLEAN
  BY DEF Reset
<1>8. f2d' \in F2DType
  BY NopType DEF Reset, F2DType
<1>9. d2e' \in D2EType /\ e2m' \in E2MType /\ m2w' \in M2WType
  BY QuietedType DEF Reset
<1> QED
  BY <1>1, <1>3, <1>4, <1>5, <1>6, <1>7, <1>8, <1>9 DEF TypeOK

LEMMA SessionType == TypeOK /\ [SNext]_<<vars, resets>> => TypeOK'
<1>1. TypeOK /\ UNCHANGED vars => TypeOK'
  BY SMT DEF TypeOK, vars, arch, latch
<1> QED BY <1>1, ClockType, ResetType DEF SNext

(* The registers and latches keep their widths whatever a reset meets. *)
THEOREM ResetTypeCorrect == SSpec => []TypeOK
<1>1. SInit => TypeOK
  BY InitType DEF SInit
<1> QED BY <1>1, SessionType, PTL DEF SSpec

-----------------------------------------------------------------------------
(* No stale results.  A latch is still when its control writes nothing     *)
(* back; in the clocks after a reset the stages fill up behind the dummy   *)
(* instruction in fetch_to_decode.                                         *)

Still(l) == l.ctl.reg = "NOP" /\ l.ctl.sp = "none" /\ l.ctl.exc = "none"

FreshStart ==
  /\ cycle < 4 => Still(m2w)
  /\ cycle < 3 => Still(e2m)
  /\ cycle < 2 => Still(d2e) /\ d2e.ctl.flow \notin {"syscall", "reti"} /\ ~ien
  /\ cycle < 1 => d2e.ctl.alu = "NOP" /\ f2d.ireg = NOP

RInv == TypeOK /\ FreshStart

LEMMA NopIsStill ==
  /\ NopCtl.reg = "NOP" /\ NopCtl.sp = "none" /\ NopCtl.exc = "none" /\ NopCtl.flow = "none"
  /\ NopCtl.alu = "NOP"
  /\ Ctl(NOP).reg = "NOP" /\ Ctl(NOP).sp = "none" /\ Ctl(NOP).exc = "none"
  /\ Ctl(NOP).flow = "none"
  /\ ~IsM4(NOP, EI) /\ ~IsM4(NOP, DI)
<1> USE DEF NOP, IsM4, IsM1, IsStack, OP_R, OP_S, OP_M1, OP_STACK, OP_JAL, OP_J, OP_JR, OP_BZ,
            OP_BZ_T, OP_BZ_N, OP_BHLEQ
<1>1. /\ NopCtl.reg = "NOP" /\ NopCtl.sp = "none" /\ NopCtl.exc = "none"
      /\ NopCtl.flow = "none" /\ NopCtl.alu = "NOP"
  BY DEF NopCtl
<1>2. ~WritesReg(NOP)
  BY DEF WritesReg
<1>3. SpCtl(NOP) = "none" /\ ExcCtl(NOP) = "none" /\ FlowCtl(NOP) = "none"
  BY DEF SpCtl, ExcCtl, FlowCtl
<1>4. /\ Ctl(NOP).reg = "NOP" /\ Ctl(NOP).sp = "none" /\ Ctl(NOP).exc = "none"
      /\ Ctl(NOP).flow = "none"
  BY <1>2, <1>3 DEF Ctl
<1> QED BY <1>1, <1>4

LEMMA FreshInit == SInit => RInv
<1> SUFFICES ASSUME SInit PROVE RInv
  OBVIOUS
<1>1. d2e.ctl = NopCtl /\ e2m.ctl = NopCtl /\ m2w.ctl = NopCtl /\ ~ien /\ f2d.ireg = NOP
  BY DEF SInit, Init, EmptyD2E, EmptyE2M, EmptyM2W
<1>2. TypeOK
  BY InitType DEF SInit
<1> QED BY <1>1, <1>2, NopIsStill DEF RInv, FreshStart, Still

LEMMA FreshReset == RInv /\ Reset => RInv'
<1> SUFFICES ASSUME RInv, Reset PROVE RInv'
  OBVIOUS
<1>1. d2e \in D2EType /\ e2m \in E2MType /\ m2w \in M2WType
  BY DEF RInv, TypeOK
<1>2. Still(Quieted(m2w)) /\ Still(Quieted(e2m))
  BY <1>1 DEF Still, Quieted, E2MType, M2WType, CtlType
<1>3. Quieted(d2e) \in D2EType /\ Still(Quieted(d2e))
  BY <1>1 DEF Still, Quieted, D2EType, CtlType, RegOps, SpOps, ExcOps
<1>4. /\ Still(QuietedD2E) /\ QuietedD2E.ctl.flow \notin {"syscall", "reti"}
      /\ QuietedD2E.ctl.alu = "NOP"
  BY <1>3 DEF Still, QuietedD2E, D2EType, CtlType
<1>5. TypeOK'
  BY ResetType DEF RInv
<1>6. Still(m2w') /\ Still(e2m') /\ Still(d2e') /\ d2e'.ctl.flow \notin {"syscall", "reti"}
  BY <1>2, <1>4 DEF Reset
<1>7. d2e'.ctl.alu = "NOP" /\ f2d'.ireg = NOP /\ ~ien'
  BY <1>4 DEF Reset
<1> QED BY <1>5, <1>6, <1>7 DEF RInv, FreshStart, Still

(* In the first two clocks nothing is taken and interrupts stay disabled. *)
LEMMA QuietFetch ==
  ASSUME FreshStart, cycle < 2
  PROVE  /\ EpcFetched = epc /\ EcaFetched = eca /\ ~IenFetched
<1>1. ~IntTaken /\ ~SyscallTaken /\ ~ien /\ d2e.ctl.flow # "reti"
  BY DEF FreshStart, IntTaken, SyscallTaken
<1> QED BY <1>1 DEF EpcFetched, EcaFetched, IenFetched

LEMMA FreshClock == RInv /\ Clock => RInv'
<1> SUFFICES ASSUME RInv, Clock PROVE RInv'
  OBVIOUS
<1>1. TypeOK' /\ cycle \in Int /\ cycle' = cycle + 1 /\ 0 =< cycle
  BY ClockType DEF RInv, TypeOK, Clock
<1>2. /\ d2e'.ctl = (IF Stalled \/ LoadUse THEN NopCtl ELSE Ctl(f2d.ireg))
      /\ e2m'.ctl = d2e.ctl /\ m2w'.ctl = e2m.ctl
  BY ClockMovesControl
<1>3. cycle' < 4 => Still(m2w')
  BY <1>1, <1>2 DEF RInv, FreshStart, Still
<1>4. cycle' < 3 => Still(e2m')
  BY <1>1, <1>2 DEF RInv, FreshStart, Still
<1>5. cycle' < 2 => Still(d2e') /\ d2e'.ctl.flow \notin {"syscall", "reti"} /\ ~ien'
  <2> SUFFICES ASSUME cycle' < 2
               PROVE  Still(d2e') /\ d2e'.ctl.flow \notin {"syscall", "reti"} /\ ~ien'
    OBVIOUS
  <2>1. cycle < 1 /\ cycle < 2
    BY <1>1
  <2>2. f2d.ireg = NOP
    BY <2>1 DEF RInv, FreshStart
  <2>3. d2e'.ctl = NopCtl \/ d2e'.ctl = Ctl(NOP)
    BY <1>2, <2>2
  <2>4. ~IenFetched
    BY <2>1, QuietFetch DEF RInv
  <2>5. ~ien'
    BY <2>2, <2>4, NopIsStill DEF Clock, IenDecoded
  <2> QED BY <2>3, <2>5, NopIsStill DEF Still
<1>6. ~(cycle' < 1)
  BY <1>1
<1> QED BY <1>1, <1>3, <1>4, <1>5, <1>6 DEF RInv, FreshStart

LEMMA FreshStep == RInv /\ [SNext]_<<vars, resets>> => RInv'
<1>1. RInv /\ UNCHANGED vars => RInv'
  <2> SUFFICES ASSUME RInv, UNCHANGED vars PROVE RInv'
    OBVIOUS
  <2>1. TypeOK'
    BY SMT DEF RInv, TypeOK, vars, arch, latch
  <2>2. FreshStart'
    BY DEF RInv, FreshStart, Still, vars, arch, latch
  <2> QED BY <2>1, <2>2 DEF RInv
<1> QED BY <1>1, FreshClock, FreshReset DEF SNext

LEMMA NothingStale == RInv /\ Clock => StaleResultStep
<1> SUFFICES ASSUME RInv, Clock PROVE StaleResultStep
  OBVIOUS
<1>1. cycle < 4 => UNCHANGED <<regs, sp>>
  BY DEF RInv, FreshStart, Still, Clock, WrittenRegs, WrittenSP, WritesSP
<1>2. cycle < 2 => UNCHANGED <<epc, eca>>
  <2>1. cycle < 2 => m2w.ctl.exc = "none"
    BY DEF RInv, TypeOK, FreshStart, Still
  <2> QED BY <2>1, QuietFetch DEF RInv, Clock
<1>3. cycle < 1 => UNCHANGED <<zFlag, ien>>
  <2> SUFFICES ASSUME cycle < 1 PROVE UNCHANGED <<zFlag, ien>>
    OBVIOUS
  <2>1. cycle < 2
    BY DEF RInv, TypeOK
  <2>2. d2e.ctl.alu = "NOP" /\ f2d.ireg = NOP /\ ~ien /\ ~IenFetched
    BY <2>1, QuietFetch DEF RInv, FreshStart
  <2>3. ~ien'
    BY <2>2, NopIsStill DEF Clock, IenDecoded
  <2>4. ien \in BOOLEAN /\ ien' \in BOOLEAN
    BY ClockType DEF RInv, TypeOK
  <2>5. zFlag' = zFlag
    BY <2>2 DEF Clock
  <2> QED BY <2>2, <2>3, <2>4, <2>5
<1> QED BY <1>1, <1>2, <1>3 DEF StaleResultStep

(* No instruction that was in flight when the core was reset leaves a      *)
(* result in a register, in SP, EPC or the flags.                          *)
THEOREM ResetForgets == SSpec => NoStaleResults
<1>1. ASSUME RInv, [SNext]_<<vars, resets>> PROVE [StaleResultStep]_<<vars, resets>>
  <2>1. CASE Clock
    BY <1>1, <2>1, NothingStale
  <2>2. CASE Reset
    <3>1. cycle \in Int /\ 0 =< cycle /\ cycle' = 0
      BY <1>1, <2>2 DEF RInv, TypeOK, Reset
    <3> QED BY <3>1 DEF StaleResultStep, Clock
  <2> QED BY <1>1, <2>1, <2>2 DEF SNext
<1> QED BY <1>1, FreshInit, FreshStep, PTL DEF SSpec, NoStaleResults
=============================================================================
