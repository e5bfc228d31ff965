------------------------------- MODULE MCBoard ------------------------------
(***************************************************************************)
(* The board with small widths: a counter of three values, a prescaler     *)
(* counter of four values whose largest setting, as in the code, is the    *)
(* number of those values, and frames of two bits.                         *)
(*                                                                         *)
(* The devices meet in the clock and at the pin only, so a behaviour       *)
(* drives either the peripherals, around a unit that is idle, or the unit, *)
(* from any power-on contents, around peripherals that nobody accesses.    *)
(***************************************************************************)
EXTENDS Board

Prescalers == [p \in 0 .. 3 |-> p + 1]

Ctrl(p, r, o) == [en |-> TRUE, psc |-> p, ar |-> r, oie |-> o, cie |-> ~o]

(* Auto-reload with the overflow interrupt, one shot with that of the      *)
(* compare match.                                                          *)
Ctrls     == { Ctrl(0, FALSE, FALSE), Ctrl(1, TRUE, TRUE) }
SlowCtrls == Ctrls \cup { Ctrl(3, TRUE, TRUE) }

Controls == { {"TXEN"}, {"TXEN", "TXIE", "RXIE"} }

VARIABLE driven

MCInit ==
  /\ BoardInit
  /\ driven \in {"peripherals", "mac"}
  /\ driven = "peripherals" => mult.op = "multNOP" /\ acc.op = "accNOP"

MCNext ==
  /\ UNCHANGED driven
  /\ \/ BoardClock
     \/ driven = "peripherals" /\ (BoardForce \/ BoardReset)
     \/ driven = "peripherals" /\ Access /\ UNCHANGED mvars
     \/ driven = "mac" /\ MacAccess /\ UNCHANGED pvars

MCSpec == MCInit /\ [][MCNext]_<<bvars, driven>>
=============================================================================
