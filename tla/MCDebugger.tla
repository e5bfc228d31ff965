----------------------------- MODULE MCDebugger -----------------------------
(***************************************************************************)
(* Debugging sessions on short programs that end in a jump to itself.      *)
(***************************************************************************)
EXTENDS Debugger, Sequences

W(op, a, b, f) == [op |-> op, a |-> a, b |-> b, f |-> f]
AsProgram(s)   == [n \in 0 .. Len(s) - 1 |-> s[n + 1]]

JSelf == W(OP_J, 15, 15, 15)

(* A store, a load and a dependent instruction, so that accesses and       *)
(* stalls coincide.                                                        *)
Stalling == << W(OP_SW, 0, 0, 2), W(OP_LW, 1, 0, 3), W(OP_R, 2, 2, F_ADD),
               W(OP_ADDI, 2, 0, 1), W(OP_ADDI, 2, 0, 1), JSelf >>

(* A jump over two instructions to a store. *)
Jumping == << W(OP_J, 0, 0, 2), NOP, NOP, W(OP_SW, 0, 0, 3), JSelf >>

(* Eight stores that each stall for the instruction before them. *)
Plodding == [n \in 1 .. 16 |-> IF n % 2 = 1 THEN W(OP_ADDI, 2, 0, 1) ELSE W(OP_SW, 2, 0, 2)]
            \o << JSelf >>

(* A jump to itself that has come to be its own delay slot. *)
Circling == << W(OP_J, 0, 0, 0), JSelf, NOP, JSelf >>

DebuggedPrograms == { AsProgram(s) : s \in {Stalling, Jumping, Plodding, Circling} }

NoData == { [n \in {} |-> 0] }
=============================================================================
