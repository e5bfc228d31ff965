------------------------------ MODULE Pipeline ------------------------------
(***************************************************************************)
(* The five-stage pipeline of the ANEM16 core (cpu.cpp): one action is one *)
(* call of ANEMCPU::clockCycle, which runs the stages in the order fetch,  *)
(* decode, execute, memory, writeback against the latches that the         *)
(* previous clock left behind.                                             *)
(*                                                                         *)
(* The program, its initial data memory and its entry point are chosen in  *)
(* Init; the level of the external interrupt pin is chosen by the          *)
(* environment (the peripherals' clock, or a debugger) after every clock.  *)
(***************************************************************************)
EXTENDS ANEM16

CONSTANTS
  Programs,   (* the programs: functions from addresses to instructions    *)
  DataMems,   (* the data sections a program file may bring along          *)
  PinLevels,  (* the levels the interrupt pin may take                     *)
  MaxCycles   (* bound: clocks a run may take (option -m of the simulator) *)

ASSUME PipelineAssumption ==
  /\ \A p \in Programs : IsProgram(p)
  /\ \A d \in DataMems : IsMemory(d)
  /\ PinLevels \subseteq BOOLEAN
  /\ MaxCycles \in Nat

VARIABLES
  cycle,      (* clocks since reset (counters)                             *)
  prog,       (* imem                                                      *)
  pc,         (* address of the next fetch                                 *)
  regs,       (* register bank                                             *)
  hi, lo, sp, (* reghi, reglo, regsp                                       *)
  zFlag,      (* z_flag, the Z register the branches read                  *)
  epc, eca, ien, intPin,
  dmem,       (* data memory; a cell that is not in the domain holds 0     *)
  f2d, d2e, e2m, m2w,   (* the pipeline latches                            *)
  stallCtr    (* stallCounter; p_stall_if itself is recomputed from it at  *)
              (* the start of every clock and is the operator Stalled here *)

arch  == <<regs, hi, lo, sp, zFlag, epc, eca, ien, dmem>>
latch == <<f2d, d2e, e2m, m2w, stallCtr>>
vars  == <<cycle, prog, pc, arch, intPin, latch>>

-----------------------------------------------------------------------------
(***************************************************************************)
(* Control word of an instruction, as p_decode derives it from the opcode, *)
(* one field at a time.  mem joins mem_enable, mem_write and lpm_flag; flow *)
(* says which of the fetch-redirecting flags is set.                       *)
(***************************************************************************)
NopCtl == [reg |-> "NOP",  alu |-> "NOP",  mem |-> "none", sp   |-> "none",
           hi  |-> "noOp", lo  |-> "noOp", exc |-> "none", flow |-> "none"]

RegCtl(i) ==
  CASE i.op = OP_JAL                    -> "PC"
    [] i.op \in {OP_R, OP_S, OP_ADDI}   -> "ALU"
    [] i.op = OP_LW                     -> "MEM"
    [] i.op = OP_LIU                    -> "byteUpper"
    [] i.op = OP_LIL                    -> "byteLower"
    [] IsStack(i, POP) \/ IsM1(i, LPM)  -> "MEM"
    [] IsStack(i, SPRD) \/ IsM4(i, MFEPC) \/ IsM4(i, MFECA) -> "ALU"
    [] IsM1(i, MFHI)                    -> "HI"
    [] IsM1(i, MFLO)                    -> "LO"
    [] OTHER                            -> "NOP"

AluCtl(i) ==
  CASE i.op \in {OP_R, OP_ADDI} \/ IsStack(i, SPRD)
         \/ IsM4(i, MFEPC) \/ IsM4(i, MFECA) \/ IsM4(i, MTEPC) -> "R"
    [] i.op = OP_S                                 -> "S"
    [] i.op \in {OP_LW, OP_SW} \/ IsM1(i, LPM)     -> "OFFSET"
    [] i.op = OP_J                                 -> "REL"
    [] OTHER                                       -> "NOP"

MemCtl(i) ==
  CASE i.op = OP_SW \/ IsStack(i, PUSH) -> "write"
    [] i.op = OP_LW \/ IsStack(i, POP)  -> "read"
    [] IsM1(i, LPM)                     -> "lpm"
    [] OTHER                            -> "none"

SpCtl(i) ==
  CASE IsStack(i, PUSH) -> "push"
    [] IsStack(i, POP)  -> "pop"
    [] IsStack(i, SPRD) -> "read"
    [] IsStack(i, SPWR) -> "write"
    [] OTHER            -> "none"

HiCtl(i) ==
  CASE i.op = OP_R /\ i.f = F_MUL -> "mul"
    [] IsM1(i, LHL)  -> "lower"
    [] IsM1(i, LHH)  -> "upper"
    [] IsM1(i, AIS)  -> "AIS"
    [] IsM1(i, AIH)  -> "add"
    [] IsM1(i, MTHI) -> "reg"
    [] OTHER         -> "noOp"

LoCtl(i) ==
  CASE i.op = OP_R /\ i.f = F_MUL -> "mul"
    [] IsM1(i, LLL)  -> "lower"
    [] IsM1(i, LLH)  -> "upper"
    [] IsM1(i, AIS)  -> "AIS"
    [] IsM1(i, AIL)  -> "add"
    [] IsM1(i, MTLO) -> "reg"
    [] OTHER         -> "noOp"

ExcCtl(i) ==
  CASE IsM4(i, MFEPC) -> "mfepc"
    [] IsM4(i, MFECA) -> "mfeca"
    [] IsM4(i, MTEPC) -> "mtepc"
    [] OTHER          -> "none"

FlowCtl(i) ==
  CASE i.op \in {OP_J, OP_JAL}              -> "j"
    [] i.op = OP_JR                         -> "jr"
    [] i.op \in {OP_BZ, OP_BZ_T, OP_BZ_N}   -> "bz"
    [] i.op = OP_BHLEQ                      -> "bhleq"
    [] IsM1(i, SYSCALL)                     -> "syscall"
    [] IsM4(i, RETI)                        -> "reti"
    [] OTHER                                -> "none"

(* Nibble a = 0 suppresses the register write, except that of JAL. *)
WritesReg(i) == i.a # 0 \/ i.op = OP_JAL

Ctl(i) == [reg  |-> IF WritesReg(i) THEN RegCtl(i) ELSE "NOP",
           alu  |-> AluCtl(i), mem |-> MemCtl(i), sp  |-> SpCtl(i), hi |-> HiCtl(i),
           lo   |-> LoCtl(i),  exc |-> ExcCtl(i), flow |-> FlowCtl(i)]

(* The function nibble the ALU is given. *)
AluFunc(i, c) == IF i.op = OP_ADDI \/ c.exc # "none" THEN F_ADD ELSE i.f

-----------------------------------------------------------------------------
(* Values that an instruction further down the pipeline will write back.   *)

(* Register value an instruction's latch l yields when it writes back: the *)
(* value p_writeback stores.                                               *)
WriteValue(l, memOut) ==
  CASE l.ctl.reg = "ALU"       -> l.alu.value
    [] l.ctl.reg = "MEM"       -> memOut
    [] l.ctl.reg = "byteLower" -> (l.regaOut \div 256) * 256 + Byte(l.ireg)
    [] l.ctl.reg = "byteUpper" -> Byte(l.ireg) * 256 + (l.regaOut % 256)
    [] l.ctl.reg = "PC"        -> (l.pc + 2) % WordSize
    [] l.ctl.reg = "HI"        -> l.hiOut
    [] l.ctl.reg = "LO"        -> l.loOut
    [] OTHER                   -> 65535

(* getFwdValFromEX, getFwdValFromMEM; a load cannot be forwarded from EX.  *)
FwdValFromEX  == WriteValue(e2m, 65535)
FwdValFromMEM == WriteValue(m2w, m2w.memOut)

FwdFromEX(r)  == r # 0 /\ e2m.ctl.reg # "NOP" /\ r = e2m.sel
FwdFromMEM(r) == r # 0 /\ m2w.ctl.reg # "NOP" /\ r = m2w.sel

OldestForwarded(r) == IF FwdFromMEM(r) THEN FwdValFromMEM    \* mutant: wrong priority
                      ELSE IF FwdFromEX(r) THEN FwdValFromEX ELSE RRead(regs, r)

Forwarded(r) == IF FwdFromEX(r) THEN FwdValFromEX
                ELSE IF FwdFromMEM(r) THEN FwdValFromMEM ELSE RRead(regs, r)

(* getForwardedSP: the youngest in-flight writer of SP, else the register. *)
WritesSP(c) == c.sp \in {"push", "pop", "write"}

SPAdder(l) == CASE l.ctl.sp = "push"  -> (l.spVal - 1) % WordSize
                [] l.ctl.sp = "pop"   -> (l.spVal + 1) % WordSize
                [] l.ctl.sp = "write" -> l.opA
                [] OTHER              -> l.spVal

ForwardedSP == IF WritesSP(d2e.ctl) THEN SPAdder(d2e)
               ELSE IF WritesSP(e2m.ctl) THEN e2m.spNew
               ELSE IF WritesSP(m2w.ctl) THEN m2w.spNew ELSE sp

-----------------------------------------------------------------------------
(* Stalls. *)

(* The general registers an instruction reads, as the stall unit sees it.  *)
ReadsA(i) ==
  \/ i.op \in {OP_R, OP_S, OP_LIL, OP_LIU, OP_SW, OP_JR, OP_ADDI}
  \/ i.op = OP_STACK /\ i.f \in {PUSH, SPWR}
  \/ IsM1(i, MTHI) \/ IsM1(i, MTLO) \/ IsM4(i, MTEPC)

ReadsB(i) == i.op \in {OP_R, OP_LW, OP_SW} \/ IsM1(i, LPM)

Sources(i) == { r \in Reg \ {0} : (ReadsA(i) /\ r = RegA(i)) \/ (ReadsB(i) /\ r = RegB(i)) }

(* The register an instruction in latch l will write. *)
Dest(l) == IF l.ctl.reg = "PC" THEN LinkReg ELSE l.sel

(* detectZeroGapHazard: the producer is about to enter EX. *)
ZeroGapHazard ==
  ~d2e.bubble /\ d2e.ctl.reg # "NOP" /\ Dest(d2e) \in Sources(f2d.ireg)

(* RETI and MFEPC wait for an MTEPC that is about to enter EX or MEM. *)
ShortEpcHazard ==                    \* mutant: waits for an MTEPC in EX only
  /\ IsM4(f2d.ireg, RETI) \/ IsM4(f2d.ireg, MFEPC)
  /\ d2e.ctl.exc = "mtepc"

EpcHazard ==
  /\ IsM4(f2d.ireg, RETI) \/ IsM4(f2d.ireg, MFEPC)
  /\ d2e.ctl.exc = "mtepc" \/ e2m.ctl.exc = "mtepc"

(* p_stall_if as p_fetch sees it. *)
Stalled == stallCtr > 0 \/ ZeroGapHazard \/ EpcHazard

(* getFwdValFromEX meets a load: p_decode asks for stalls, after the fetch. *)
AnyLoadUse == e2m.ctl.reg = "MEM"     \* mutant: whatever the register

LoadUse ==
  e2m.ctl.reg = "MEM" /\ (FwdFromEX(RegA(f2d.ireg)) \/ FwdFromEX(RegB(f2d.ireg)))

(* insertStalls, and the count-down in manageStalls. *)
StuckStalls == IF LoadUse THEN 1 ELSE stallCtr     \* mutant: never counted down

StallsLeft == IF LoadUse THEN 1 ELSE IF stallCtr > 0 THEN stallCtr - 1 ELSE 0

-----------------------------------------------------------------------------
(* Fetch. *)

HastyIntTaken == intPin /\ ien /\ ~Stalled   \* mutant: no quiet-cycle gating

IntTaken == intPin /\ ien /\ d2e.ctl.flow = "none" /\ ~Stalled

SyscallTaken == d2e.ctl.flow = "syscall" /\ ~Stalled

BranchTaken ==
  CASE d2e.ctl.flow = "bz"    -> IF d2e.ireg.op = OP_BZ_N THEN ~zFlag ELSE zFlag
    [] d2e.ctl.flow = "bhleq" -> hi = lo
    [] OTHER                  -> FALSE

FetchPC ==
  IF IntTaken \/ SyscallTaken THEN EXC_VECTOR
  ELSE IF d2e.ctl.flow \in {"reti", "j", "jr"} THEN d2e.jDest
  ELSE IF BranchTaken THEN pc + SignExt12(Address(d2e.ireg))
  ELSE pc

(* Exception registers once p_fetch has run; decode and execute read these. *)
EpcFetched == IF IntTaken THEN pc % WordSize
              ELSE IF SyscallTaken THEN (d2e.pc + 2) % WordSize ELSE epc
EcaFetched == IF IntTaken THEN 255
              ELSE IF SyscallTaken THEN 256 + Byte(d2e.ireg) ELSE eca
IenFetched == IF IntTaken \/ SyscallTaken THEN FALSE
              ELSE IF d2e.ctl.flow = "reti" /\ ~Stalled THEN TRUE ELSE ien

-----------------------------------------------------------------------------
(* Decode.  EI and DI act here, even when the slot is then bubbled. *)

IenDecoded == CASE IsM4(f2d.ireg, EI) -> TRUE
                [] IsM4(f2d.ireg, DI) -> FALSE
                [] OTHER              -> IenFetched

JumpDest(i, c) ==
  CASE c.flow = "jr"   -> Forwarded(RegA(i))
    [] c.flow = "j"    -> f2d.pc + 1 + SignExt12(Address(i))
    [] c.flow = "reti" -> IF m2w.ctl.exc = "mtepc" THEN m2w.alu.value ELSE EpcFetched
    [] OTHER           -> 0

(* A bubble while IF is stalled (SIM-BUG-6). *)
LeakyCtl(bubble, c)  == c             \* mutant: the bubble keeps its controls

HandedCtl(bubble, c) == IF bubble THEN NopCtl ELSE c

(* What the stage hands on. *)
Decoded(bubble) ==
  LET i == f2d.ireg
      c == Ctl(i)
  IN  [pc      |-> f2d.pc, ireg |-> i, bubble |-> bubble,
       ctl     |-> HandedCtl(bubble, c),
       sel     |-> RegA(i),
       regaOut |-> RRead(regs, RegA(i)),
       opA     |-> Forwarded(RegA(i)),
       opB     |-> Forwarded(RegB(i)),
       hiOut   |-> hi, loOut |-> lo,
       spVal   |-> IF c.sp = "none" THEN 0 ELSE ForwardedSP,
       jDest   |-> JumpDest(i, c)]

-----------------------------------------------------------------------------
(* Execute. *)

OperandA(d) ==
  CASE d.ctl.sp  = "read"  -> d.spVal
    [] d.ctl.exc = "mfepc" -> EpcFetched
    [] d.ctl.exc = "mfeca" -> EcaFetched
    [] IsM1(d.ireg, LPM)   -> 0
    [] d.ctl.mem \in {"read", "write"} /\ d.ctl.sp = "none" -> d.ireg.f
    [] OTHER               -> d.opA

OperandB(d) ==
  CASE d.ctl.sp = "read" \/ d.ctl.exc # "none" -> 0
    [] d.ireg.op = OP_ADDI -> SignExt8(Byte(d.ireg))
    [] OTHER               -> d.opB

AluOut(d) == Operate(d.ctl.alu, AluFunc(d.ireg, d.ctl), d.ireg.b, OperandA(d), OperandB(d))

(* Store data and the base of a byte load travel in regaOut, forwarded. *)
CarriesOpA(c) == c.mem = "write" \/ c.reg \in {"byteLower", "byteUpper"}

Executed(d) ==
  [pc     |-> d.pc, ireg |-> d.ireg, bubble |-> d.bubble, ctl |-> d.ctl, sel |-> d.sel,
   regaOut |-> IF CarriesOpA(d.ctl) THEN d.opA ELSE d.regaOut,
   alu    |-> AluOut(d),
   hiOut  |-> d.hiOut, loOut |-> d.loOut,
   spNew  |-> SPAdder(d),
   spAddr |-> IF d.ctl.sp = "push" THEN SPAdder(d) ELSE d.spVal]

-----------------------------------------------------------------------------
(* Memory. *)

MemAddr(e) == IF e.ctl.sp \in {"push", "pop"} THEN e.spAddr ELSE e.alu.value

Stored(e) == IF e.ctl.mem = "write"
             THEN DWrite(dmem, MemAddr(e), e.regaOut) ELSE dmem

Loaded(e) ==
  CASE e.ctl.mem = "lpm"  -> ToWord(FetchWord(prog, MemAddr(e) \div 2))
    [] e.ctl.mem = "read" -> DRead(dmem, MemAddr(e))
    [] OTHER              -> 0

Accessed(e) ==
  [pc    |-> e.pc, ireg |-> e.ireg, bubble |-> e.bubble, ctl |-> e.ctl, sel |-> e.sel,
   regaOut |-> e.regaOut, alu |-> e.alu, memOut |-> Loaded(e),
   hiOut |-> e.hiOut, loOut |-> e.loOut, spNew |-> e.spNew]

-----------------------------------------------------------------------------
(* Writeback.  Byte loads of HI and LO work on the live register. *)

WrittenRegs(m) == IF m.ctl.reg = "NOP" THEN regs
                  ELSE RWrite(regs, Dest(m), WriteValue(m, m.memOut))

WrittenSP(m) == IF WritesSP(m.ctl) THEN m.spNew ELSE sp

HalfWritten(op, live, half, m) ==
  CASE op = "lower" -> (live \div 256) * 256 + Byte(m.ireg)
    [] op = "upper" -> Byte(m.ireg) * 256 + (live % 256)
    [] op = "add"   -> (half + Byte(m.ireg)) % WordSize
    [] op = "reg"   -> m.regaOut
    [] OTHER        -> live

WrittenHi(m) ==
  CASE m.ctl.hi = "mul" -> m.alu.hi
    [] m.ctl.hi = "AIS" -> (m.hiOut + (m.loOut + Byte(m.ireg)) \div WordSize) % WordSize
    [] OTHER            -> HalfWritten(m.ctl.hi, hi, m.hiOut, m)

WrittenLo(m) ==
  CASE m.ctl.lo = "mul" -> m.alu.value
    [] m.ctl.lo = "AIS" -> (m.loOut + Byte(m.ireg)) % WordSize
    [] OTHER            -> HalfWritten(m.ctl.lo, lo, m.loOut, m)

-----------------------------------------------------------------------------
(* Reset by loadProgram, then the program, its data and its entry point 0. *)
EmptyD2E == [pc |-> 0, ireg |-> NOP, bubble |-> TRUE, ctl |-> NopCtl, sel |-> 0,
             regaOut |-> 0, opA |-> 0, opB |-> 0, hiOut |-> 0, loOut |-> 0,
             spVal |-> 0, jDest |-> 0]
EmptyE2M == [pc |-> 0, ireg |-> NOP, bubble |-> TRUE, ctl |-> NopCtl, sel |-> 0,
             regaOut |-> 0, alu |-> [value |-> 0, hi |-> 0], hiOut |-> 0, loOut |-> 0,
             spNew |-> 0, spAddr |-> 0]
EmptyM2W == [pc |-> 0, ireg |-> NOP, bubble |-> TRUE, ctl |-> NopCtl, sel |-> 0,
             regaOut |-> 0, alu |-> [value |-> 0, hi |-> 0], memOut |-> 0,
             hiOut |-> 0, loOut |-> 0, spNew |-> 0]

Init ==
  /\ cycle = 0
  /\ prog \in Programs /\ dmem \in DataMems
  /\ pc = 0 /\ f2d = [ireg |-> NOP, pc |-> 0]
  /\ regs = [r \in Reg |-> 0] /\ hi = 0 /\ lo = 0 /\ sp = ResetSP
  /\ zFlag = FALSE /\ epc = 0 /\ eca = 0 /\ ien = FALSE /\ intPin = FALSE
  /\ d2e = EmptyD2E /\ e2m = EmptyE2M /\ m2w = EmptyM2W
  /\ stallCtr = 0

(* ANEMCPU::clockCycle, then the environment sets the interrupt pin. *)
Clock ==
  /\ cycle < MaxCycles /\ cycle' = cycle + 1
  /\ pc'  = IF Stalled THEN pc ELSE FetchPC + 1
  /\ f2d' = IF Stalled THEN f2d
            ELSE [ireg |-> FetchWord(prog, FetchPC), pc |-> FetchPC]
  /\ d2e' = Decoded(Stalled \/ LoadUse)
  /\ e2m' = Executed(d2e)
  /\ m2w' = Accessed(e2m)
  /\ dmem' = Stored(e2m)
  /\ zFlag' = IF d2e.ctl.alu \in {"R", "S"} THEN AluOut(d2e).value = 0 ELSE zFlag
  /\ regs' = WrittenRegs(m2w) /\ sp' = WrittenSP(m2w)
  /\ hi' = WrittenHi(m2w) /\ lo' = WrittenLo(m2w)
  /\ epc' = IF m2w.ctl.exc = "mtepc" THEN m2w.alu.value ELSE EpcFetched
  /\ eca' = EcaFetched
  /\ ien' = IenDecoded
  /\ stallCtr' = StallsLeft
  /\ intPin' \in PinLevels
  /\ UNCHANGED prog

(* The free-running simulator: main.cpp clocks the core until it stops it. *)
Next == Clock
Spec == Init /\ [][Next]_vars

-----------------------------------------------------------------------------
(* Properties. *)

RegOps  == {"NOP", "ALU", "MEM", "byteLower", "byteUpper", "PC", "HI", "LO"}
AluOps  == {"NOP", "R", "S", "REL", "OFFSET"}
SpOps   == {"none", "push", "pop", "read", "write"}
HiLoOps == {"noOp", "lower", "upper", "add", "AIS", "reg", "mul"}
ExcOps  == {"none", "mfepc", "mfeca", "mtepc"}
FlowOps == {"none", "j", "jr", "bz", "bhleq", "syscall", "reti"}

MemOps  == {"none", "read", "write", "lpm"}

CtlType == [reg : RegOps, alu : AluOps, mem : MemOps, sp : SpOps,
            hi : HiLoOps, lo : HiLoOps, exc : ExcOps, flow : FlowOps]

AluType == [value : Word, hi : Word]

F2DType == [ireg : Instr, pc : Int]
D2EType == [pc : Int, ireg : Instr, bubble : BOOLEAN, ctl : CtlType, sel : Reg,
            regaOut : Word, opA : Word, opB : Word, hiOut : Word, loOut : Word,
            spVal : Word, jDest : Int]
E2MType == [pc : Int, ireg : Instr, bubble : BOOLEAN, ctl : CtlType, sel : Reg,
            regaOut : Word, alu : AluType, hiOut : Word, loOut : Word,
            spNew : Word, spAddr : Word]
M2WType == [pc : Int, ireg : Instr, bubble : BOOLEAN, ctl : CtlType, sel : Reg,
            regaOut : Word, alu : AluType, memOut : Word, hiOut : Word, loOut : Word,
            spNew : Word]

(* The registers and the latches hold values of the widths the C++ types   *)
(* give them: every sum, product and merged byte is cut to 16 bits.        *)
TypeOK ==
  /\ cycle \in 0 .. MaxCycles
  /\ IsProgram(prog) /\ IsMemory(dmem)
  /\ pc \in Int
  /\ regs \in [Reg -> Word] /\ hi \in Word /\ lo \in Word /\ sp \in Word
  /\ zFlag \in BOOLEAN /\ epc \in Word /\ eca \in Word
  /\ ien \in BOOLEAN /\ intPin \in BOOLEAN
  /\ f2d \in F2DType /\ d2e \in D2EType /\ e2m \in E2MType /\ m2w \in M2WType
  /\ stallCtr \in 0 .. 1

(* A bubble (SIM-BUG-6) has no effect in any later stage, and while load   *)
(* stalls are being counted down the instruction in EX is a bubble: no     *)
(* branch can be waiting there for the fetch that the stall suppresses.    *)
BubblesAreInert ==
  /\ d2e.bubble => d2e.ctl = NopCtl
  /\ e2m.bubble => e2m.ctl = NopCtl
  /\ m2w.bubble => m2w.ctl = NopCtl
  /\ stallCtr > 0 => d2e.bubble

(* RETI jumps to the EPC that the instructions before it left, also when   *)
(* an MTEPC among them had not been written back when RETI was decoded,    *)
(* and also when an interrupt replaced EPC in that very clock.             *)
ReturnAddressIsCurrent ==
  d2e.ctl.flow = "reti" =>
    d2e.jDest = epc /\ e2m.ctl.exc # "mtepc" /\ m2w.ctl.exc # "mtepc"

(* No stall goes on for ever: the zero-gap, load and EPC stalls may follow *)
(* one another, but three bubbles in a row leave nothing to wait for.      *)
StallsAreShort ==
  d2e.bubble /\ e2m.bubble /\ m2w.bubble => ~Stalled /\ ~LoadUse

(* An instruction that has been fetched is replaced in fetch_to_decode     *)
(* without being handed to EX only when it names the destination of a load *)
(* that is two instructions ahead of it or closer.                         *)
DecodeStep ==
  f2d' # f2d /\ d2e'.bubble =>
    e2m.ctl.reg = "MEM" /\ e2m.sel \in {RegA(f2d.ireg), RegB(f2d.ireg)} \ {0}

FetchedIsDecoded == [][DecodeStep]_vars

(* A control transfer in EX redirects the fetch in that clock; the only    *)
(* transfers that are dropped are a JAL whose delay slot reads R15, and    *)
(* one whose delay slot waits for an MTEPC just before the transfer.       *)
RedirectStep ==
  /\ d2e.ctl.flow \in {"j", "jr", "reti", "syscall"}
  /\ pc' # (IF d2e.ctl.flow = "syscall" THEN EXC_VECTOR ELSE d2e.jDest) + 1
  => \/ d2e.ctl.reg = "PC" /\ LinkReg \in Sources(f2d.ireg)
     \/ e2m.ctl.exc = "mtepc" /\ (IsM4(f2d.ireg, RETI) \/ IsM4(f2d.ireg, MFEPC))

TransfersRedirect == [][RedirectStep]_vars
=============================================================================
