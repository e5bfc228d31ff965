-------------------------------- MODULE Mac --------------------------------
(***************************************************************************)
(* The multiply-accumulate unit (periph/mac.cpp): writing operand B starts *)
(* a multiplication, its product is accumulated, and flags in CONFIG say   *)
(* that the result registers are new.  Operands and results are symbols:   *)
(* what is followed is which step hands what to the next one.              *)
(*                                                                         *)
(* The operation registers of the two arithmetic blocks have no            *)
(* initialiser and `reset` leaves them alone: at power-on they hold        *)
(* anything.  Nothing in a session resets the unit afterwards.             *)
(***************************************************************************)
EXTENDS Integers

CONSTANT Operands         (* what programs write to A and B *)

ASSUME MacAssumption == 0 \in Operands

Flags   == {"INT", "MOK", "OVR", "COUT", "Z"}
MultOps == {"multU", "multS", "multNOP"}
AccOps  == {"accU", "accS", "accNOP"}
Nothing == [op |-> "none"]

VARIABLES
  config,     (* config_reg: the fields OPMULT and OPACC, IE and the flags *)
  su_sl,      (* the result registers                                      *)
  a_reg, b_reg,
  state,      (* macWAIT, macMULT or macACC                                *)
  mult,       (* MAC_MULT: operation, operands, output and ready           *)
  acc         (* MAC_ACC: operation, input, ready, and its flags           *)

mvars == <<config, su_sl, a_reg, b_reg, state, mult, acc>>

(* Power-on and mac.reset(): CONFIG gets its default, 0101 in the fields.  *)
MacInit ==
  /\ config = [opmult |-> 1, opacc |-> 1, ie |-> FALSE, flags |-> {}]
  /\ su_sl = Nothing /\ a_reg = 0 /\ b_reg = 0 /\ state = "macWAIT"
  /\ \E m \in MultOps, n \in AccOps :
       /\ mult = [op |-> m, a |-> 0, b |-> 0, out |-> Nothing, ready |-> FALSE]
       /\ acc = [op |-> n, in |-> Nothing, ready |-> FALSE, flags |-> {}]

-----------------------------------------------------------------------------
(* Accesses by the program. *)

(* Reading CONFIG clears the flags; the result registers are just read.    *)
ReadConfig ==
  /\ config' = [config EXCEPT !.flags = {}]
  /\ UNCHANGED <<su_sl, a_reg, b_reg, state, mult, acc>>

(* MAC_CONFIG_W_MASK lets one bit of each field through, and IE; the flags *)
(* are overwritten with zeros.                                             *)
WriteConfig ==
  /\ \E m, n \in {0, 2}, e \in BOOLEAN :
       config' = [opmult |-> m, opacc |-> n, ie |-> e, flags |-> {}]
  /\ UNCHANGED <<su_sl, a_reg, b_reg, state, mult, acc>>

WriteA ==
  /\ \E v \in Operands : a_reg' = v
  /\ UNCHANGED <<config, su_sl, b_reg, state, mult, acc>>

(* The cases compare the masked field with 1 and 3 where it stands, at     *)
(* bits 13:12 (and 15:14 for the accumulator), without shifting it down.   *)
Select(field, bit) == field * bit

MultOp == CASE Select(config.opmult, 4096) = 1 -> "multU"
            [] Select(config.opmult, 4096) = 3 -> "multS"
            [] OTHER -> "multNOP"

AccOp == CASE Select(config.opacc, 16384) = 1 -> "accU"
           [] Select(config.opacc, 16384) = 3 -> "accS"
           [] OTHER -> "accNOP"

WriteB ==
  /\ \E v \in Operands :
       /\ b_reg' = v
       /\ mult' = IF MultOp = "multNOP"
                  THEN [mult EXCEPT !.op = "multNOP", !.a = 0, !.b = 0]
                  ELSE [mult EXCEPT !.op = MultOp, !.a = a_reg, !.b = v]
  /\ state' = "macMULT"
  /\ UNCHANGED <<config, su_sl, a_reg, acc>>

-----------------------------------------------------------------------------
(* clockCycle: both blocks first, then the state machine on their outputs. *)
Product(m) == [op |-> m.op, a |-> m.a, b |-> m.b]

MultClocked ==
  IF mult.op = "multNOP" THEN [mult EXCEPT !.ready = FALSE]
  ELSE [mult EXCEPT !.out = Product(mult), !.ready = TRUE]

(* data_out stays 0: the sum is only looked at for the flags.  Its carry   *)
(* mask is not that of a carry: any sum but 0 and 2^28 sets COUT.          *)
AccClocked ==
  CASE acc.op = "accU" -> { [acc EXCEPT !.flags = c \cup {"Z"}, !.ready = TRUE] :
                              c \in IF acc.in = Nothing THEN {{}} ELSE {{}, {"COUT"}} }
    [] acc.op = "accS" -> { [acc EXCEPT !.flags = @ \ {"COUT"}, !.ready = TRUE] }
    [] OTHER           -> { [acc EXCEPT !.ready = FALSE] }

(* The accumulation has ended: flags, interrupt flag and result. *)
Accumulated(c) ==
  IF c.ready
  THEN /\ state' = "macWAIT"
       /\ config' = [config EXCEPT !.flags = @ \cup c.flags \cup {"MOK"} \cup
                                             (IF config.ie THEN {"INT"} ELSE {})]
       /\ su_sl' = [op |-> "zero"]
  ELSE UNCHANGED <<state, config, su_sl>>

Multiplying(m, c) ==
  IF m.ready
  THEN /\ state' = "macACC"
       /\ acc' = IF AccOp = "accNOP" THEN [c EXCEPT !.op = "accNOP", !.in = Nothing]
                 ELSE [c EXCEPT !.op = AccOp, !.in = m.out]
       /\ mult' = [m EXCEPT !.op = "multNOP", !.a = 0, !.b = 0]
  ELSE state' = state /\ acc' = c /\ mult' = m

StaleMacClock ==                       \* mutant: the blocks are clocked last
  /\ \E c \in AccClocked :
       CASE state = "macMULT" -> Multiplying([MultClocked EXCEPT !.ready = mult.ready], c)
                                   /\ UNCHANGED <<config, su_sl>>
         [] state = "macACC"  -> Accumulated(acc) /\ acc' = c /\ mult' = MultClocked
         [] OTHER -> acc' = c /\ mult' = MultClocked /\ UNCHANGED <<state, config, su_sl>>
  /\ UNCHANGED <<a_reg, b_reg>>

MacClock ==
  /\ \E c \in AccClocked :
       CASE state = "macMULT" -> Multiplying(MultClocked, c) /\ UNCHANGED <<config, su_sl>>
         [] state = "macACC"  -> Accumulated(c) /\ acc' = c /\ mult' = MultClocked
         [] OTHER -> acc' = c /\ mult' = MultClocked /\ UNCHANGED <<state, config, su_sl>>
  /\ UNCHANGED <<a_reg, b_reg>>

MacAccess == ReadConfig \/ WriteConfig \/ WriteA \/ WriteB

MacNext == MacAccess \/ MacClock
MacSpec == MacInit /\ [][MacNext]_mvars

(* main.cpp clocks the unit after every clock of the core. *)
FairMacSpec == MacSpec /\ WF_mvars(MacClock)

-----------------------------------------------------------------------------
(* Properties. *)

(* As the code stands the unit never answers: no flag, no interrupt, no    *)
(* result, in any configuration; and whatever the operation registers held *)
(* at power-on, the block it makes ready is stopped before the state       *)
(* machine looks at it.                                                    *)
NeverAnswers == config.flags = {} /\ su_sl = Nothing

(* mac.cpp, write: "multiplication init"; README, Memory: "Memory-mapped   *)
(* multiply-accumulate unit".  A multiplication that was started ends.     *)
MultiplicationEnds == state = "macMULT" ~> state = "macWAIT"
=============================================================================
