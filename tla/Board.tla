-------------------------------- MODULE Board -------------------------------
(***************************************************************************)
(* The board main.cpp puts around the core: the peripherals and the        *)
(* multiply-accumulate unit on one bus, clocked together after every clock *)
(* of the core, with one interrupt pin among them.  A debugger resets the  *)
(* GPIO ports, the timer and the UART; the unit keeps what it holds.       *)
(***************************************************************************)
EXTENDS Peripherals, Mac

bvars == <<pvars, mvars>>

(* clockPeripherals.  The unit is in the pin's OR with a member, interrupt, *)
(* that nothing sets: not with its INT flag.                               *)
BoardClock == MacClock /\ PeripheralClock

(* A load or a store reaches one of the devices. *)
BoardAccess ==
  \/ Access /\ UNCHANGED mvars
  \/ MacAccess /\ UNCHANGED pvars

BoardReset == ResetPeripherals /\ UNCHANGED mvars

BoardForce == ForceInterrupt /\ UNCHANGED mvars

BoardInit == PInit /\ MacInit
BoardNext == BoardClock \/ BoardAccess \/ BoardForce \/ BoardReset
BoardSpec == BoardInit /\ [][BoardNext]_bvars
=============================================================================
