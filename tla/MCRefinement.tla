---------------------------- MODULE MCRefinement ----------------------------
(***************************************************************************)
(* Programs for the refinement checks: a prologue that puts distinct values *)
(* into two registers, then every combination of a few instructions drawn  *)
(* from one of three families, each over few registers so that they        *)
(* interfere; and programs with a handler, under an arbitrary interrupt    *)
(* pin.                                                                    *)
(***************************************************************************)
EXTENDS PipelineRefinement, TLC

CONSTANT Kinds      (* of programs *)

W(op, a, b, f) == [op |-> op, a |-> a, b |-> b, f |-> f]

(* Programs are loaded at 0; words that are not mentioned are zero, which *)
(* is an AND of register 0 and serves as a NOP.                            *)
Prologue == (0 :> W(OP_LIL, 1, 0, 4)) @@ (1 :> W(OP_LIL, 2, 0, 5))

(* Arithmetic, shifts, byte loads and every control transfer. *)
ControlFamily ==
  { NOP,
    W(OP_R, 1, 2, F_ADD), W(OP_R, 1, 1, F_SUB),
    W(OP_S, 2, 1, F_SHL), W(OP_ADDI, 1, 15, 15), W(OP_LIU, 2, 0, 1),
    W(OP_J, 0, 0, 2), W(OP_JAL, 0, 0, 1), W(OP_JAL, 15, 15, 13),
    W(OP_JR, 2, 0, 0), W(OP_BZ_T, 0, 0, 1), W(OP_BZ_N, 15, 15, 13),
    W(OP_R, 1, 15, F_OR) }

(* Loads, stores and the stack. *)
MemoryFamily ==
  { NOP,
    W(OP_LW, 1, 2, 1), W(OP_LW, 2, 1, 2), W(OP_SW, 1, 2, 1), W(OP_SW, 2, 1, 0),
    W(OP_STACK, 1, 0, PUSH), W(OP_STACK, 2, 0, POP), W(OP_STACK, 2, 0, SPRD),
    W(OP_STACK, 1, 0, SPWR), W(OP_M1, LPM, 1, 2), W(OP_R, 1, 2, F_ADD) }

(* HI and LO, used with zero to three NOPs between the instructions. *)
HiLoFamily ==
  { W(OP_R, 1, 2, F_MUL), W(OP_M1, MFHI, 0, 1), W(OP_M1, MFLO, 0, 2),
    W(OP_M1, MTHI, 0, 1), W(OP_M1, MTLO, 0, 2), W(OP_M1, LHL, 15, 1), W(OP_M1, LLH, 15, 15),
    W(OP_M1, AIS, 15, 15), W(OP_M1, AIH, 0, 3), W(OP_BHLEQ, 0, 0, 1) }

(* Exceptions: in a handler, and in the program it interrupts; there also  *)
(* an encoding that is no instruction.                                     *)
HandlerFamily ==
  { NOP, W(OP_ADDI, 1, 0, 3), W(OP_M1, SYSCALL, 1, 1), W(OP_M1, M4, EI, 0),
    W(OP_M1, M4, MFEPC, 1), W(OP_M1, M4, MTEPC, 1) }

InterruptedFamily ==
  { NOP, W(OP_J, 0, 0, 1), W(OP_BZ_T, 0, 0, 1), W(OP_STACK, 1, 0, PUSH),
    W(OP_M1, SYSCALL, 1, 1), W(OP_M1, M4, RETI, 0), W(OP_M1, M4, DI, 0),
    W(OP_M1, M4, MFECA, 2), W(OP_M1, M4, MTEPC, 1), W(OP_M1, LPM + 1, 1, 1) }

(* The last word of a program is one that tells what the others left. *)
Telling ==
  { w \in ControlFamily \cup MemoryFamily \cup HiLoFamily :
      \/ w.op \in {OP_R, OP_SW, OP_JR, OP_BZ_T, OP_BHLEQ}
      \/ w.op = OP_STACK /\ w.b = PUSH
      \/ w.op = OP_M1 /\ w.a \in {MFHI, MFLO, LLH} }

(* What a program is made of: words one after the other; words with gaps   *)
(* between them; a handler and what it interrupts.                         *)
Straight(family) ==
  [kind : {"straight"}, a : family \ {NOP}, b : family, c : family, d : family \cap Telling]

Spaced(family) ==
  [kind : {"spaced"}, a : family, b : family, c : family \cap Telling,
   m : 0 .. 3, n : 0 .. 3]

Handling ==
  [kind : {"handling"}, a : HandlerFamily, b : HandlerFamily,
   c : InterruptedFamily, d : {w \in InterruptedFamily : w.a # M4}]

Program(r) ==
  CASE r.kind = "straight" ->
         Prologue @@ (2 :> r.a) @@ (3 :> r.b) @@ (4 :> r.c) @@ (5 :> r.d)
    [] r.kind = "spaced" ->
         Prologue @@ (2 :> r.a) @@ (r.m + 3 :> r.b) @@ (r.m + r.n + 4 :> r.c)
    [] OTHER ->   (* a jump over the handler, with EI in its slot *)
         [n \in 0 .. 9 |-> CASE n = 0 -> W(OP_J, 0, 0, 6)
                             [] n = 1 -> W(OP_M1, M4, EI, 0)
                             [] n = 2 -> r.a
                             [] n = 3 -> r.b
                             [] n = 4 -> W(OP_M1, M4, RETI, 0)
                             [] n = 7 -> r.c
                             [] n = 8 -> r.d
                             [] n = 9 -> W(OP_R, 2, 2, F_ADD)
                             [] OTHER -> NOP]

Of(kind, recipes) == IF kind \in Kinds THEN recipes ELSE {}

MCPrograms ==
  { Program(r) : r \in Of("control", Straight(ControlFamily))
                       \cup Of("memory", Straight(MemoryFamily))
                       \cup Of("hilo", Spaced(HiLoFamily)) \cup Of("handler", Handling) }

LastWord == CHOOSE n \in DOMAIN prog : \A k \in DOMAIN prog : k =< n

(* A program is followed until its last word has left the pipeline.  The   *)
(* pin moves only for the programs that have a handler, and while it can   *)
(* have an effect: a core with interrupts disabled does not look at it.    *)
MCNext ==
  /\ RNext
  /\ cycle' =< LastWord + 8
  /\ intPin' => ien' /\ prog[0] # Prologue[0]

MCSpec == RInit /\ [][MCNext]_<<vars, history>>

SomeData == { (5 :> 9) @@ (6 :> 65535) }
=============================================================================
