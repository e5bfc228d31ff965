---------------------------- MODULE Peripherals -----------------------------
(***************************************************************************)
(* The peripherals on the bus and their common interrupt line: main.cpp    *)
(* clocks them after every clock of the core and sets the core's interrupt *)
(* pin from their outputs.  Programs and debuggers access them between two *)
(* clocks; debuggers also force the pin and reset the peripherals.         *)
(*                                                                         *)
(* The GPIO ports have registers and no behaviour of their own and are     *)
(* left out; the MAC unit (module Mac) never raises its interrupt.         *)
(***************************************************************************)
EXTENDS Timer, Uart

VARIABLE intPin

pvars == <<tvars, uvars, intPin>>

TimerOnly == tint'                   \* mutant: a source forgotten

AnyInterrupt == tint' \/ uint'

PeripheralClock ==
  /\ TimerClock /\ UartClock
  /\ intPin' = AnyInterrupt

Access ==
  /\ \/ TimerAccess /\ UNCHANGED uvars
     \/ UartAccess /\ UNCHANGED tvars
  /\ UNCHANGED intPin

(* assertInterrupt, deassertInterrupt. *)
ForceInterrupt == intPin' \in BOOLEAN /\ UNCHANGED <<tvars, uvars>>

(* DebugEngine::reset; the core's own reset lowers the pin. *)
ResetPeripherals == TimerCleared /\ UartCleared /\ intPin' = FALSE

PInit == TimerInit /\ UartInit /\ intPin = FALSE
PNext == PeripheralClock \/ Access \/ ForceInterrupt \/ ResetPeripherals
PSpec == PInit /\ [][PNext]_pvars

-----------------------------------------------------------------------------
(* Properties. *)

(* The pin tells the truth after every clock, whatever drivers and         *)
(* debuggers did before it: it is high only when an enabled flag is up, so *)
(* a handler that has cleared the flags is not entered again, and it is    *)
(* high when one has been up since before the clock, so none is missed.    *)
PinStep ==
  PeripheralClock => /\ intPin' => TimerPending \/ UartPending(ustatus')
                     /\ TimerPending \/ UartPending(ustatus) => intPin'

PinFollowsFlags == [][PinStep]_pvars

(* debug.cpp, help: "int            Assert external interrupt" and "noint  *)
(* Deassert external interrupt".  A pin that neither peripheral has raised *)
(* was asserted by a debugger; it stays high until somebody deasserts it.  *)
AssertedStep ==
  PeripheralClock /\ intPin /\ ~tint /\ ~uint => intPin'

AssertedStays == [][AssertedStep]_pvars
=============================================================================
