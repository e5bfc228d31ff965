----------------------------- MODULE MCMachine ------------------------------
(***************************************************************************)
(* Sessions of three kinds, which share their rules and differ in what is  *)
(* bounded: short programs that leave every kind of control in the latches *)
(* or stall in every way, reset at any clock; pairs of instructions under  *)
(* an arbitrary interrupt pin, reset, saved and restored; and object files *)
(* that run until their transfers and loads have come.                     *)
(***************************************************************************)
EXTENDS Machine

W(op, a, b, f) == [op |-> op, a |-> a, b |-> b, f |-> f]

(* The three formats of text. *)
Plain(w)    == [kind |-> "plain", word |-> w]
Bin(n, w)   == [kind |-> "bin", addr |-> n, word |-> w]
Hex(n, bs)  == [kind |-> "hex", type |-> 0, addr |-> n, bytes |-> bs]
HexEnd      == [kind |-> "hex", type |-> 1]
Blank       == [kind |-> "other"]

TextFile(ls) == [format |-> "text", lines |-> ls]
Plainly(s)   == TextFile([n \in DOMAIN s |-> Plain(s[n])])

(* One instruction for each kind of control in the latches. *)
ResetFamily ==
  { W(OP_R, 1, 1, F_ADD), W(OP_ADDI, 1, 0, 3), W(OP_LIL, 1, 0, 4), W(OP_LW, 1, 0, 0),
    W(OP_SW, 1, 0, 1), W(OP_STACK, 1, 0, PUSH), W(OP_STACK, 2, 0, POP),
    W(OP_M1, LHL, 0, 1), W(OP_M1, MFHI, 0, 1), W(OP_M1, M4, MTEPC, 1),
    W(OP_M1, M4, RETI, 0), W(OP_M1, SYSCALL, 1, 1), W(OP_BZ_T, 0, 0, 1),
    W(OP_JAL, 0, 0, 1), W(OP_BHLEQ, 0, 0, 2) }

ResetFiles == { Plainly(s) : s \in [1 .. 3 -> ResetFamily] }

(* Stalls of every kind, on a result, on a load and on EPC, and transfers. *)
StallFamily ==
  { W(OP_R, 1, 1, F_ADD), W(OP_ADDI, 2, 0, 3), W(OP_LW, 1, 2, 0), W(OP_J, 0, 0, 1),
    W(OP_STACK, 1, 0, POP), W(OP_M1, M4, MTEPC, 1), W(OP_M1, M4, RETI, 0) }

StallFiles == { Plainly(s) : s \in [1 .. 4 -> StallFamily] }

(* Pairs of instructions that leave different things in the latches; some  *)
(* of them behind an EI, for an arbitrary interrupt pin.                   *)
SavedFamily ==
  { W(OP_R, 1, 1, F_ADD), W(OP_ADDI, 1, 0, 3), W(OP_SW, 1, 0, 3), W(OP_STACK, 1, 0, PUSH),
    W(OP_M1, LPM, 0, 1), W(OP_M1, SYSCALL, 1, 1), W(OP_BZ_T, 0, 0, 1), W(OP_JAL, 0, 0, 1),
    W(OP_M1, M4, MTEPC, 1) }

EnableInts == W(OP_M1, M4, EI, 0)

InterruptedFiles ==
  { Plainly(<<EnableInts, x, y>>) : x \in SavedFamily,
                                    y \in { W(OP_SW, 1, 0, 3), W(OP_BZ_T, 0, 0, 1) } }

SavedFiles == InterruptedFiles \cup { Plainly(<<x, y>>) : x \in SavedFamily, y \in SavedFamily }

(* Lines in every format, and files whose lines do not match. *)
Jump  == W(OP_J, 0, 0, 1)
Lines == { Plain(NOP), Plain(Jump), Bin(0, Jump), Bin(2, NOP), Blank,
           Hex(0, <<18, 52>>), Hex(1, <<86>>), HexEnd }

MixedFiles == { TextFile(ls) : ls \in [1 .. 3 -> Lines] }

(* Objects with a program that jumps to the code that builds the address   *)
(* of a variable, loads it and branches; two data sections of every kind   *)
(* and size.                                                               *)
(* J at 1, its delay slot; LIU and LIL at 4 and 5, SHR, LW; a branch at 9  *)
(* that is taken: BZ after a NOP, which sets Z, or BHLEQ with HI = LO = 0. *)
Text(op) ==
  [n \in 0 .. 12 |->
     CASE n = 1  -> W(OP_J, 0, 0, 0)
       [] n = 3  -> W(OP_ADDI, 3, 0, 1)
       [] n = 4  -> W(OP_LIU, 1, 0, 0)
       [] n = 5  -> W(OP_LIL, 1, 0, 0)
       [] n = 6  -> W(OP_S, 1, 1, F_SHR)
       [] n = 7  -> W(OP_LW, 2, 1, 0)
       [] n = 9  -> W(op, 0, 0, 0)
       [] n = 11 -> W(OP_J, 15, 15, 15)
       [] OTHER  -> NOP]

(* Section s of so many bytes, all different.                              *)
Section(s, kind, size) ==
  [kind |-> kind, bytes |-> [k \in 1 .. size |-> IF kind = "bss" THEN 0 ELSE 16 * s + k]]

Symbol(section, value) == [section |-> section, value |-> value]

Rela(at, type, sym, addend) == [at |-> at, type |-> type, sym |-> sym, addend |-> addend]

Object(op, base, sections, ahead, back, section, addend, entry) ==
  [format |-> "elf", base |-> base, text |-> Text(op), sections |-> sections,
   symbols |-> [n \in {"var", "ahead", "back", "_start"} |->
                  CASE n = "var"   -> Symbol(section, 0)
                    [] n = "ahead" -> Symbol(0, 2 * ahead)
                    [] n = "back"  -> Symbol(0, 2 * back)
                    [] OTHER       -> Symbol(0, 2 * (base + entry))],
   relas |-> << Rela(1, "jump", "ahead", 0), Rela(4, "hi8", "var", addend),
                Rela(5, "lo8", "var", addend), Rela(9, "branch", "back", 0) >>]

Kinds == {"data", "bss"}

SectionPairs ==
  { << Section(1, p[1], m), Section(2, p[2], n) >> :
      p \in Kinds \X Kinds, m \in {0, 3, 4}, n \in {0, 3, 4} }

Objects ==
  { Object(op, b, ss, ah, bk, s, ad, e) :
      op \in {OP_BZ_T, OP_BHLEQ}, b \in {0, 64}, ss \in SectionPairs,
      ah \in {3, 4}, bk \in {3, 4, 11}, s \in {1, 2}, ad \in {0, 2}, e \in {0, 1} }

(* The same with a branch in the delay slot of the jump, which counts from *)
(* where the jump goes.                                                    *)
Delayed(o) ==
  [o EXCEPT !.text[2] = W(OP_BZ_T, 0, 0, 0),
            !.relas = Append(@, Rela(2, "branch", "back", 0))]

DelayedObjects ==
  { Delayed(Object(OP_BZ_T, b, << Section(1, "data", 4), Section(2, "data", 4) >>,
                   4, bk, 1, 0, e)) : b \in {0, 64}, bk \in {3, 4}, e \in {0, 1} }

AllFiles == ResetFiles \cup StallFiles \cup SavedFiles \cup MixedFiles \cup Objects
              \cup DelayedObjects

NoProgram == { <<>> }
NoData    == { <<>> }

(* What is bounded in each kind of session. *)
Bounds ==
  /\ file \notin InterruptedFiles => ~intPin
  /\ IF file \in SavedFiles
     THEN cycle =< 6 /\ (mode = "before" => resets = 0)
     ELSE /\ mode = "before"
          /\ file.format = "text" => cycle =< 8
          /\ file.format = "elf" => resets = 0

MCNext == MachineNext /\ Bounds'

MCSpec == MachineInit /\ [][MCNext]_mvars

=============================================================================
