------------------------------- MODULE ANEM16 -------------------------------
(***************************************************************************)
(* The ANEM16 instruction set as the simulator decodes it (instrset.h),    *)
(* the ALU (alu.cpp) and the register bank (regbnk.cpp).  Everything here  *)
(* is a pure operator; the modules that keep state are Pipeline and ISA.   *)
(*                                                                         *)
(* An instruction word is the record of its four nibbles [op, a, b, f]     *)
(* (bits 15:12, 11:8, 7:4 and 3:0), so every field the code extracts from  *)
(* the word, aliases included, is an expression on the record.             *)
(***************************************************************************)
EXTENDS Integers

WordSize == 65536
Word     == 0 .. WordSize - 1
Nibble   == 0 .. 15
Reg      == 0 .. 15
LinkReg  == 15

Instr == [op : Nibble, a : Nibble, b : Nibble, f : Nibble]

(* Opcodes. *)
OP_R     == 0
OP_S     == 1
OP_SW    == 2
OP_LW    == 3
OP_LIU   == 4
OP_LIL   == 5
OP_BHLEQ == 6
OP_STACK == 7
OP_BZ    == 8
OP_BZ_T  == 9
OP_BZ_N  == 10
OP_ADDI  == 11
OP_JR    == 12
OP_JAL   == 13
OP_M1    == 14
OP_J     == 15

(* Sub-functions: stack (nibble f), M1 (nibble a), M4 (nibble b). *)
PUSH     == 0
POP      == 1
SPRD     == 2
SPWR     == 3
LHL      == 0
LHH      == 1
LLL      == 2
LLH      == 3
AIS      == 4
AIH      == 5
AIL      == 6
MFHI     == 7
MFLO     == 8
MTHI     == 9
MTLO     == 10
SYSCALL  == 11
M4       == 12
LPM      == 13
RETI     == 0
EI       == 1
DI       == 2
MFEPC    == 3
MFECA    == 4
MTEPC    == 5

(* R-type and S-type functions (nibble f). *)
F_AND    == 0
F_OR     == 1
F_ADD    == 2
F_MUL    == 3
F_SUB    == 6
F_SLT    == 7
F_SGT    == 8
F_NOR    == 12
F_XOR    == 15
F_SAR    == 0
F_SHR    == 1
F_SHL    == 2
F_ROR    == 4
F_ROL    == 8

(* The first instruction of the exception handler. *)
EXC_VECTOR == 2

(* Fields of the instruction word. *)
Byte(i)    == 16 * i.b + i.f
Address(i) == 256 * i.a + Byte(i)
ToWord(i)  == 4096 * i.op + Address(i)

SignExt8(x)  == IF x >= 128 THEN x + 65280 ELSE x
SignExt12(x) == IF x >= 2048 THEN x - 4096 ELSE x
Signed(x)    == IF x >= 32768 THEN x - WordSize ELSE x

NOP      == [op |-> OP_R, a |-> 0, b |-> 0, f |-> F_OR]   \* ANEM_INSTRUCTION_NOP
ZeroWord == [op |-> OP_R, a |-> 0, b |-> 0, f |-> F_AND]  \* a cleared memory word

(* Classes of instructions. *)
IsM1(i, m) == i.op = OP_M1 /\ i.a = m
IsM4(i, m) == IsM1(i, M4) /\ i.b = m
IsStack(i, s) == i.op = OP_STACK /\ i.f = s

(* The M1 instructions whose register is in bits 3:0. *)
RegInFunc(i) ==
  \/ i.op = OP_M1 /\ i.a \in {MFHI, MFLO, MTHI, MTLO, LPM}
  \/ IsM1(i, M4) /\ i.b \in {MFEPC, MFECA, MTEPC}

RegA(i) == IF RegInFunc(i) THEN i.f ELSE i.a
RegB(i) == i.b

(***************************************************************************)
(* Memory of instructions: a program is a function from the addresses it   *)
(* was loaded at; other words are zero.  A fetch above the array returns   *)
(* the dummy NOP; an address that wrapped below zero (addr_t is unsigned)  *)
(* is kept negative here and lies above the array too.                     *)
(***************************************************************************)
IMemSize == 131072

IsProgram(p) == DOMAIN p \subseteq Nat /\ \A n \in DOMAIN p : p[n] \in Instr

FetchWord(prog, addr) ==
  IF addr \in DOMAIN prog THEN prog[addr]
  ELSE IF addr \in 0 .. IMemSize THEN ZeroWord ELSE NOP

(***************************************************************************)
(* Data memory: a function from the cells that were written to words; any  *)
(* other cell holds 0.  Peripherals live above the array.  None is         *)
(* attached here: reads there give 0xFFFF, writes have no effect.  The     *)
(* bound test lets address DMemSize through, one past the end of the array;*)
(* that cell behaves as one more word, except that a reset does not clear  *)
(* it, and its first content is whatever follows the array.                *)
(***************************************************************************)
DMemSize == 65487
ResetSP  == 65487

IsMemory(m) == DOMAIN m \subseteq Word /\ \A n \in DOMAIN m : m[n] \in Word

DRead(mem, addr) ==
  IF addr > DMemSize THEN 65535
  ELSE IF addr \in DOMAIN mem THEN mem[addr] ELSE 0

DWrite(mem, addr, v) ==
  IF addr > DMemSize THEN mem
  ELSE [n \in DOMAIN mem \cup {addr} |-> IF n = addr THEN v ELSE mem[n]]

(* Register bank: register 0 reads as zero and is never written. *)
RRead(regs, r)     == IF r = 0 THEN 0 ELSE regs[r]
RWrite(regs, r, v) == IF r = 0 THEN regs ELSE [regs EXCEPT ![r] = v]

-----------------------------------------------------------------------------
(* ALU. *)

Pow2 == <<1, 2, 4, 8, 16, 32, 64, 128, 256, 512, 1024, 2048, 4096, 8192,
          16384, 32768, 65536>>
Two(n) == Pow2[n + 1]

Bit(x, n) == (x \div Two(n)) % 2

(* The bits that x and y share; the other bitwise operations follow.       *)
And16(x, y) ==
  LET B(n) == Bit(x, n) * Bit(y, n) * Two(n)
  IN    B(0) + B(1) + B(2)  + B(3)  + B(4)  + B(5)  + B(6)  + B(7)
      + B(8) + B(9) + B(10) + B(11) + B(12) + B(13) + B(14) + B(15)

Or16(x, y)  == x + y - And16(x, y)
Nor16(x, y) == 65535 - Or16(x, y)
Xor16(x, y) == Or16(x, y) - And16(x, y)

(* Halves of the 32-bit product, from two 24-bit partial products. *)
MulLow(x, y)  ==
  (((x * (y \div 256)) % 256) * 256 + x * (y % 256)) % WordSize
MulHigh(x, y) ==
  ((x * (y \div 256) + (x * (y % 256)) \div 256) \div 256) % WordSize

AluR(f, x, y) ==
  CASE f = F_SUB -> x - y
    [] f = F_AND -> And16(x, y)
    [] f = F_OR  -> Or16(x, y)
    [] f = F_NOR -> Nor16(x, y)
    [] f = F_XOR -> Xor16(x, y)
    [] f = F_SLT -> IF Signed(x) < Signed(y) THEN 1 ELSE 0
    [] f = F_SGT -> IF Signed(x) > Signed(y) THEN 1 ELSE 0
    [] f = F_MUL -> MulLow(x, y)
    [] OTHER     -> x + y                     \* F_ADD, and the decoder's default

AluS(f, x, s) ==
  CASE f = F_SHR -> x \div Two(s)
    [] f = F_SHL -> x * Two(s)
    [] f = F_SAR -> Signed(x) \div Two(s)
    [] f = F_ROR -> (x % Two(s)) * Two(16 - s) + (x \div Two(s))
    [] f = F_ROL -> (x % Two(16 - s)) * Two(s) + (x \div Two(16 - s))
    [] OTHER     -> 65535

(***************************************************************************)
(* ANEMAlu::operate.  ctl is the operation class, f the function nibble,   *)
(* s the shift amount.  The output is a data_t: whatever the function      *)
(* computes is cut to 16 bits.  hi is only meaningful after a              *)
(* multiplication.                                                         *)
(***************************************************************************)
AluValue(ctl, f, s, x, y) ==
  CASE ctl = "R"      -> AluR(f, x, y)
    [] ctl = "S"      -> AluS(f, x, s)
    [] ctl = "OFFSET" -> x + y
    [] OTHER          -> 65535

UncutOperate(ctl, f, s, x, y) ==      \* mutant: the result is kept in an int
  [value |-> AluValue(ctl, f, s, x, y),
   hi    |-> IF ctl = "R" /\ f = F_MUL THEN MulHigh(x, y) ELSE 0]

Operate(ctl, f, s, x, y) ==
  [value |-> AluValue(ctl, f, s, x, y) % WordSize,
   hi    |-> IF ctl = "R" /\ f = F_MUL THEN MulHigh(x, y) ELSE 0]
=============================================================================
