----------------------------- MODULE MCPipeline -----------------------------
(***************************************************************************)
(* Arbitrary short programs, scheduled or not, under an arbitrary level of *)
(* the interrupt pin.  A program starts at 0 and has its exception vector  *)
(* at 2, so the same instructions serve as main line and as handler.       *)
(***************************************************************************)
EXTENDS Pipeline, Sequences

W(op, a, b, f) == [op |-> op, a |-> a, b |-> b, f |-> f]
AsProgram(s)   == [n \in 0 .. Len(s) - 1 |-> s[n + 1]]

ExceptionFamily ==
  { W(OP_M1, M4, EI, 0), W(OP_M1, M4, DI, 0), W(OP_M1, M4, RETI, 0),
    W(OP_M1, M4, MFEPC, 1), W(OP_M1, M4, MFECA, 1), W(OP_M1, M4, MTEPC, 1),
    W(OP_M1, SYSCALL, 1, 1), W(OP_ADDI, 1, 15, 15), W(OP_LW, 1, 0, 0),
    W(OP_JAL, 0, 0, 1), W(OP_JR, 15, 0, 0) }

ExceptionPrograms == { AsProgram(s) : s \in [1 .. 4 -> ExceptionFamily] }

SomeData == { [n \in {0} |-> 3] }
=============================================================================
