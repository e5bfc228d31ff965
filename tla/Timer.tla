------------------------------- MODULE Timer --------------------------------
(***************************************************************************)
(* The timer peripheral (periph/timer.cpp): a counter behind a prescaler,  *)
(* with overflow, compare match and auto-reload.  The widths and the four  *)
(* prescaler settings are parameters; CTRL is a record of its fields and   *)
(* STATUS the set of the flags that are up.                                *)
(***************************************************************************)
EXTENDS Integers

CONSTANTS
  CountMod,       (* 2^16: COUNT, COMPARE and the reload value wrap here   *)
  PscMod,         (* 2^8: psc_counter wraps here                           *)
  Prescaler,      (* getPrescalerTop: 1, 4, 16 and 256 for PSC = 0 .. 3    *)
  CtrlValues,     (* what drivers write to CTRL                            *)
  CountValues,    (* ... to COUNT                                          *)
  CompareValues   (* ... and to COMPARE                                    *)

Count == 0 .. CountMod - 1

TimerCtrl == [en : BOOLEAN, psc : 0 .. 3, ar : BOOLEAN, oie : BOOLEAN, cie : BOOLEAN]
TimerFlag == {"OVF", "CMF"}

ASSUME TimerAssumption ==
  /\ CountMod \in Nat \ {0} /\ PscMod \in Nat \ {0}
  /\ Prescaler \in [0 .. 3 -> Nat \ {0}]
  /\ CtrlValues \subseteq TimerCtrl
  /\ CountValues \subseteq Count /\ CompareValues \subseteq Count

VARIABLES
  count, tctrl, tstatus, compare, reload, psc, tint,
  base,   (* history: COUNT and psc_counter when the driver or an overflow *)
          (* last set them                                                 *)
  age     (* history: clocks the timer has been enabled since then         *)

tvars == <<count, tctrl, tstatus, compare, reload, psc, tint, base, age>>

NoCtrl == [en |-> FALSE, psc |-> 0, ar |-> FALSE, oie |-> FALSE, cie |-> FALSE]

TimerCleared ==
  /\ count' = 0 /\ tctrl' = NoCtrl /\ tstatus' = {} /\ compare' = 0 /\ reload' = 0
  /\ psc' = 0 /\ tint' = FALSE
  /\ base' = [count |-> 0, psc |-> 0] /\ age' = 0

-----------------------------------------------------------------------------
(* Writes.  Reads have no effect. *)

Rebased(c) == base' = [count |-> c, psc |-> psc] /\ age' = 0

WriteCount ==
  /\ \E v \in CountValues : count' = v /\ reload' = v /\ Rebased(v)
  /\ UNCHANGED <<tctrl, tstatus, compare, psc, tint>>

WriteTimerCtrl ==
  /\ \E c \in CtrlValues : tctrl' = c
  /\ Rebased(count)
  /\ UNCHANGED <<count, tstatus, compare, reload, psc, tint>>

(* STATUS: write 1 to clear. *)
WriteTimerStatus ==
  /\ \E ones \in SUBSET TimerFlag : tstatus' = tstatus \ ones
  /\ UNCHANGED <<count, tctrl, compare, reload, psc, tint, base, age>>

WriteCompare ==
  /\ \E v \in CompareValues : compare' = v
  /\ UNCHANGED <<count, tctrl, tstatus, reload, psc, tint, base, age>>

TimerAccess == WriteCount \/ WriteTimerCtrl \/ WriteTimerStatus \/ WriteCompare

-----------------------------------------------------------------------------
(* The clock. *)

TimerPending == ("OVF" \in tstatus /\ tctrl.oie) \/ ("CMF" \in tstatus /\ tctrl.cie)

Top == Prescaler[tctrl.psc]

NextPsc == (psc + 1) % PscMod

LateTicks == NextPsc > Top         \* mutant: one clock late

Ticks == NextPsc >= Top

Matched == IF (count + 1) % CountMod = compare THEN {"CMF"} ELSE {}

LastCount == count = CountMod - 1

(* COUNT at its last value: OVF, and reload or stop. *)
Overflow ==
  /\ tstatus' = tstatus \cup Matched \cup {"OVF"}
  /\ psc' = 0
  /\ count' = IF tctrl.ar THEN reload ELSE count
  /\ tctrl' = [tctrl EXCEPT !.en = tctrl.ar]
  /\ base' = [count |-> count', psc |-> 0] /\ age' = 0

Advance ==
  /\ tstatus' = tstatus \cup Matched
  /\ psc' = 0 /\ count' = count + 1
  /\ age' = age + 1
  /\ UNCHANGED <<tctrl, base>>

Prescale ==
  /\ psc' = NextPsc
  /\ age' = age + 1
  /\ UNCHANGED <<count, tctrl, tstatus, base>>

Idle == UNCHANGED <<count, tctrl, tstatus, psc, base, age>>

(* The interrupt output is taken from the flags as they were before. *)
TimerClock ==
  /\ tint' = TimerPending
  /\ \/ ~tctrl.en /\ Idle
     \/ tctrl.en /\ ~Ticks /\ Prescale
     \/ tctrl.en /\ Ticks /\ LastCount /\ Overflow
     \/ tctrl.en /\ Ticks /\ ~LastCount /\ Advance
  /\ UNCHANGED <<compare, reload>>

-----------------------------------------------------------------------------
TimerInit ==
  /\ count = 0 /\ tctrl = NoCtrl /\ tstatus = {} /\ compare = 0 /\ reload = 0
  /\ psc = 0 /\ tint = FALSE
  /\ base = [count |-> 0, psc |-> 0] /\ age = 0

TimerNext == TimerClock \/ TimerAccess \/ TimerCleared
TimerSpec == TimerInit /\ [][TimerNext]_tvars

-----------------------------------------------------------------------------
(* Properties. *)

(* The timer's registers hold values of their widths. *)
TimerTypeOK ==
  /\ count \in Count /\ compare \in Count /\ reload \in Count /\ psc \in 0 .. PscMod - 1
  /\ tctrl \in TimerCtrl /\ tstatus \subseteq TimerFlag /\ tint \in BOOLEAN
  /\ base \in [count : Count, psc : 0 .. PscMod - 1] /\ age \in Nat

(* The counter's rate: since COUNT was last set, by a driver or a reload,  *)
(* it has advanced by one for every Prescaler[PSC] clocks it was enabled   *)
(* (timer.h: "PSC[2:1] (00=/1, 01=/4, 10=/16, 11=/256)").  Left open is a  *)
(* prescaler that was lowered below what psc_counter had reached.          *)
TimerRate ==
  base.psc < Top => base.psc + age = (count - base.count) * Top + psc /\ psc < Top
=============================================================================
