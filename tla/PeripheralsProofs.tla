------------------------- MODULE PeripheralsProofs --------------------------
(***************************************************************************)
(* Proofs about the timer and the UART, for every width of their           *)
(* registers: what the runs check with counters of a few values holds for  *)
(* the 16-bit counters of the code; about the board they share with the    *)
(* multiply-accumulate unit; and about the bus they are mapped on, for     *)
(* every size of the array, every set of peripherals and every sequence of *)
(* calls of attachPeripheral.                                              *)
(***************************************************************************)
EXTENDS Bus, Board, TLAPS

(* Drivers only select prescalers that psc_counter can reach: in the code, *)
(* PSC = 0, 1 or 2.                                                        *)
ReachablePrescalers ==
  /\ Prescaler[0] < PscMod
  /\ \A c \in CtrlValues : Prescaler[c.psc] < PscMod

(* The timer is only ever set to such a prescaler. *)
SetReachable == Top < PscMod

TimerInv == TimerTypeOK /\ SetReachable /\ TimerRate

-----------------------------------------------------------------------------
(* Every step of the peripherals is a step of the timer and of the UART.   *)
LEMMA Projection ==
  [PNext]_pvars => [TimerNext]_tvars /\ [UartNext]_uvars
BY DEF PNext, pvars, PeripheralClock, Access, ForceInterrupt, ResetPeripherals,
       TimerNext, UartNext, tvars, uvars

(* The clocks that the counter's advance stands for. *)
Gained == (count - base.count) * Top

(* A multiple starts at nothing. *)
LEMMA NoMultiple ==
  ASSUME NEW n \in Int, NEW t \in Int
  PROVE  (n - n) * t = 0
<1>1. n - n = 0 /\ 0 * t = 0
  OBVIOUS
<1> QED BY <1>1

(* A multiple grows by one period a count. *)
LEMMA OneMore ==
  ASSUME NEW n \in Int, NEW m \in Int, NEW t \in Int
  PROVE  (n + 1 - m) * t = (n - m) * t + t
<1>1. n + 1 - m = (n - m) + 1 /\ n - m \in Int
  OBVIOUS
<1>2. \A x \in Int : (x + 1) * t = x * t + t
  OBVIOUS
<1> QED BY <1>1, <1>2

(* The multiple that follows another. *)
LEMMA NextMultiple ==
  ASSUME NEW n \in Int, NEW t \in Int
  PROVE  (n + 1) * t = n * t + t
OBVIOUS

(* A sum that stays below the modulus does not wrap. *)
LEMMA NoWrap ==
  ASSUME NEW a \in Nat, NEW b \in Nat, a < b
  PROVE  a % b = a
OBVIOUS

(* The values of power-up and of a reset are of their types. *)
LEMMA ClearedTypes ==
  /\ 0 \in Count /\ 0 \in 0 .. PscMod - 1 /\ NoCtrl \in TimerCtrl
  /\ [count |-> 0, psc |-> 0] \in [count : Count, psc : 0 .. PscMod - 1]
<1>1. 0 \in Count /\ 0 \in 0 .. PscMod - 1
  BY TimerAssumption DEF Count
<1>2. NoCtrl \in TimerCtrl
  <2>1. 0 \in 0 .. 3
    OBVIOUS
  <2> QED BY <2>1 DEF NoCtrl, TimerCtrl
<1> QED BY <1>1, <1>2

(* The timer starts with its types. *)
LEMMA TimerStarts == TimerInit => TimerTypeOK
<1> SUFFICES ASSUME TimerInit PROVE TimerTypeOK
  OBVIOUS
<1>1. /\ count = 0 /\ compare = 0 /\ reload = 0 /\ psc = 0 /\ age = 0 /\ tint = FALSE
      /\ tctrl = NoCtrl /\ tstatus = {} /\ base = [count |-> 0, psc |-> 0]
  BY DEF TimerInit
<1>2. base \in [count : Count, psc : 0 .. PscMod - 1]
  BY <1>1, ClearedTypes
<1> QED BY <1>1, <1>2, ClearedTypes DEF TimerTypeOK

(* The clock leaves the prescaler's setting alone. *)
LEMMA SettingKept ==
  TimerTypeOK /\ TimerClock => tctrl'.psc = tctrl.psc
BY DEF TimerTypeOK, TimerClock, Idle, Prescale, Overflow, Advance, TimerCtrl

(* The timer's registers keep their types in every step. *)
LEMMA TimerTypeStep ==
  TimerTypeOK /\ [TimerNext]_tvars => TimerTypeOK'
<1> SUFFICES ASSUME TimerTypeOK, [TimerNext]_tvars PROVE TimerTypeOK'
  OBVIOUS
<1> USE TimerAssumption
<1>1. CASE TimerClock
  <2>1. psc' \in 0 .. PscMod - 1 /\ age' \in Nat
    BY <1>1 DEF TimerTypeOK, TimerClock, Idle, Prescale, Overflow, Advance, NextPsc, Count
  <2>2. count' \in Count
    BY <1>1 DEF TimerTypeOK, TimerClock, Idle, Prescale, Overflow, Advance, LastCount, Count
  <2>3. base' \in [count : Count, psc : 0 .. PscMod - 1]
    BY <1>1, <2>2 DEF TimerTypeOK, TimerClock, Idle, Prescale, Overflow, Advance, Count
  <2>4. tctrl' \in TimerCtrl
    BY <1>1 DEF TimerTypeOK, TimerClock, Idle, Prescale, Overflow, Advance, TimerCtrl
  <2>5. tstatus' \subseteq TimerFlag
    BY <1>1 DEF TimerTypeOK, TimerClock, Idle, Prescale, Overflow, Advance, TimerFlag, Matched
  <2>6. tint' \in BOOLEAN /\ compare' \in Count /\ reload' \in Count
    BY <1>1 DEF TimerTypeOK, TimerClock, TimerPending
  <2> QED BY <2>1, <2>2, <2>3, <2>4, <2>5, <2>6 DEF TimerTypeOK
<1>2. CASE WriteCount
  BY <1>2 DEF TimerTypeOK, WriteCount, Rebased, Count
<1>3. CASE WriteTimerCtrl
  BY <1>3 DEF TimerTypeOK, WriteTimerCtrl, Rebased
<1>4. CASE WriteTimerStatus
  BY <1>4 DEF TimerTypeOK, WriteTimerStatus
<1>5. CASE WriteCompare
  BY <1>5 DEF TimerTypeOK, WriteCompare
<1>6. CASE TimerCleared
  BY <1>6, ClearedTypes DEF TimerTypeOK, TimerCleared
<1>7. CASE UNCHANGED tvars
  BY <1>7 DEF TimerTypeOK, tvars
<1> QED BY <1>1, <1>2, <1>3, <1>4, <1>5, <1>6, <1>7 DEF TimerNext, TimerAccess

(* The timer's registers hold values of their widths in every run.         *)
THEOREM TimerTypeCorrect == PSpec => []TimerTypeOK
<1>1. PInit => TimerTypeOK
  BY TimerStarts DEF PInit
<1>2. TimerTypeOK /\ [PNext]_pvars => TimerTypeOK'
  BY Projection, TimerTypeStep
<1> QED BY <1>1, <1>2, PTL DEF PSpec

-----------------------------------------------------------------------------
(* No step sets a prescaler that psc_counter cannot reach. *)
LEMMA ReachableStep ==
  ASSUME ReachablePrescalers, TimerTypeOK, SetReachable, [TimerNext]_tvars
  PROVE  SetReachable'
<1>1. CASE TimerClock
  BY <1>1, SettingKept DEF SetReachable, Top
<1>2. CASE WriteTimerCtrl
  BY <1>2 DEF WriteTimerCtrl, ReachablePrescalers, SetReachable, Top
<1>3. CASE TimerCleared
  BY <1>3 DEF TimerCleared, NoCtrl, ReachablePrescalers, SetReachable, Top
<1>4. CASE WriteCount \/ WriteTimerStatus \/ WriteCompare \/ UNCHANGED tvars
  BY <1>4 DEF WriteCount, WriteTimerStatus, WriteCompare, tvars, SetReachable, Top
<1> QED BY <1>1, <1>2, <1>3, <1>4 DEF TimerNext, TimerAccess

(* A clock keeps the counter's rate. *)
LEMMA RateClock ==
  ASSUME TimerTypeOK, TimerTypeOK', SetReachable, TimerRate, TimerClock
  PROVE  TimerRate'
<1>0. /\ Top \in Nat \ {0} /\ Top' = Top
      /\ count \in Int /\ psc \in 0 .. PscMod - 1 /\ age \in Nat
      /\ base.count \in Int /\ base.psc \in Int /\ Gained \in Int
  BY TimerAssumption, SettingKept DEF TimerTypeOK, TimerCtrl, Top, Count, Gained
<1>1. base.psc < Top => base.psc + age = Gained + psc /\ psc < Top
  BY DEF TimerRate, Gained
<1> SUFFICES base'.psc < Top => base'.psc + age' = Gained' + psc' /\ psc' < Top
  BY <1>0 DEF TimerRate, Gained
<1>2. base.psc < Top => NextPsc = psc + 1
  <2>1. psc \in Nat /\ PscMod \in Nat /\ Top < PscMod
    BY <1>0, TimerAssumption DEF SetReachable
  <2>2. psc + 1 < PscMod => (psc + 1) % PscMod = psc + 1
    BY <2>1, NoWrap
  <2> QED BY <1>0, <1>1, <2>1, <2>2 DEF NextPsc
<1>3. CASE Idle
  <2>1. Gained' = Gained
    BY <1>0, <1>3 DEF Gained, Idle
  <2> QED BY <1>0, <1>1, <1>3, <2>1 DEF Idle
<1>4. CASE Prescale /\ ~Ticks
  <2>1. Gained' = Gained
    BY <1>0, <1>4 DEF Gained, Prescale
  <2> QED BY <1>0, <1>1, <1>2, <1>4, <2>1 DEF Prescale, Ticks
<1>5. CASE Advance /\ Ticks
  <2>1. Gained' = (count + 1 - base.count) * Top
    BY <1>0, <1>5 DEF Gained, Advance
  <2>2. Gained' = Gained + Top
    BY <1>0, <2>1, OneMore DEF Gained
  <2> QED BY <1>0, <1>1, <1>2, <1>5, <2>2 DEF Advance, Ticks
<1>6. CASE Overflow
  <2>1. base' = [count |-> count', psc |-> 0] /\ age' = 0 /\ psc' = 0 /\ count' \in Int
    BY <1>6 DEF Overflow, TimerTypeOK, Count
  <2>2. Gained' = (count' - count') * Top
    BY <1>0, <2>1 DEF Gained
  <2>3. Top \in Int
    BY <1>0
  <2>4. Gained' = 0
    BY <2>1, <2>2, <2>3, NoMultiple
  <2> QED BY <1>0, <2>1, <2>4
<1> QED BY <1>3, <1>4, <1>5, <1>6 DEF TimerClock

(* So does every other step: what sets COUNT or CTRL also sets the base.   *)
LEMMA RateStep ==
  ASSUME TimerTypeOK, TimerTypeOK', SetReachable, TimerRate, [TimerNext]_tvars
  PROVE  TimerRate'
<1>0. /\ Top' \in Int /\ Top' > 0 /\ count' \in Int /\ psc' \in Nat
  BY TimerAssumption DEF TimerTypeOK, TimerCtrl, Top, Count
<1>1. CASE TimerClock
  BY <1>1, RateClock
<1>2. CASE WriteCount \/ WriteTimerCtrl \/ TimerCleared
  <2>1. base' = [count |-> count', psc |-> psc'] /\ age' = 0
    BY <1>2 DEF WriteCount, WriteTimerCtrl, TimerCleared, Rebased
  <2>2. (count' - count') * Top' = 0
    BY <1>0, NoMultiple
  <2> QED BY <1>0, <2>1, <2>2 DEF TimerRate
<1>3. CASE WriteTimerStatus \/ WriteCompare \/ UNCHANGED tvars
  <2>1. UNCHANGED <<count, tctrl, psc, base, age>>
    BY <1>3 DEF WriteTimerStatus, WriteCompare, tvars
  <2> QED BY <2>1 DEF TimerRate, Top
<1> QED BY <1>1, <1>2, <1>3 DEF TimerNext, TimerAccess

(* With prescalers that psc_counter can reach, the counter advances once   *)
(* every Prescaler[PSC] clocks, for every width of the counter, for every  *)
(* such prescaler and whatever is written to the timer.                    *)
THEOREM RateKept ==
  ASSUME ReachablePrescalers
  PROVE  PSpec => []TimerRate
<1>1. PInit => TimerInv
  <2> SUFFICES ASSUME PInit PROVE TimerInv
    OBVIOUS
  <2>1. TimerTypeOK
    BY TimerStarts DEF PInit
  <2>2. SetReachable
    BY DEF PInit, TimerInit, SetReachable, Top, NoCtrl, ReachablePrescalers
  <2>3. /\ Top \in Int /\ Top > 0 /\ 0 \in Int
    BY TimerAssumption, <2>1 DEF Top, TimerTypeOK, TimerCtrl
  <2>4. TimerRate
    <3>1. count = 0 /\ psc = 0 /\ base.count = 0 /\ base.psc = 0 /\ age = 0
      BY DEF PInit, TimerInit
    <3>2. (0 - 0) * Top = 0
      BY <2>3, NoMultiple
    <3> QED BY <2>3, <3>1, <3>2 DEF TimerRate
  <2> QED BY <2>1, <2>2, <2>4 DEF TimerInv
<1>2. TimerInv /\ [PNext]_pvars => TimerInv'
  <2> SUFFICES ASSUME TimerInv, [PNext]_pvars PROVE TimerInv'
    OBVIOUS
  <2>1. TimerTypeOK /\ SetReachable /\ TimerRate /\ [TimerNext]_tvars
    BY Projection DEF TimerInv
  <2>2. TimerTypeOK' /\ SetReachable'
    BY <2>1, TimerTypeStep, ReachableStep
  <2>3. TimerRate'
    BY <2>1, <2>2, RateStep
  <2> QED BY <2>2, <2>3 DEF TimerInv
<1>3. TimerInv => TimerRate
  BY DEF TimerInv
<1> QED BY <1>1, <1>2, <1>3, PTL DEF PSpec

-----------------------------------------------------------------------------
(* The UART. *)

(* STATUS stays true: the transmitter's flag changes with its state, the   *)
(* receiver's with its buffer, and only the error flags can be cleared.    *)
LEMMA StatusStep ==
  StatusIsTrue /\ [UartNext]_uvars => StatusIsTrue'
<1> SUFFICES ASSUME StatusIsTrue, [UartNext]_uvars PROVE StatusIsTrue'
  OBVIOUS
<1> USE DEF StatusIsTrue
<1>1. CASE UartClock
  BY <1>1 DEF UartClock, TransmitTick, TransmitBit, TransmitEnds, TransmitIdle
<1>2. CASE WriteData
  BY <1>2 DEF WriteData, Accepts
<1>3. CASE ReadData
  BY <1>3 DEF ReadData
<1>4. CASE WriteUartStatus
  BY <1>4 DEF WriteUartStatus, Cleared
<1>5. CASE Inject
  BY <1>5 DEF Inject
<1>6. CASE UartCleared
  BY <1>6 DEF UartCleared
<1>7. CASE WriteUartCtrl \/ WriteBaud \/ UNCHANGED uvars
  BY <1>7 DEF WriteUartCtrl, WriteBaud, uvars
<1> QED BY <1>1, <1>2, <1>3, <1>4, <1>5, <1>6, <1>7 DEF UartNext, UartAccess

(* STATUS tells drivers the truth in every run, whatever they write to it. *)
THEOREM StatusTrue == PSpec => []StatusIsTrue
<1>1. PInit => StatusIsTrue
  BY DEF PInit, UartInit, StatusIsTrue
<1>2. StatusIsTrue /\ [PNext]_pvars => StatusIsTrue'
  BY Projection, StatusStep
<1> QED BY <1>1, <1>2, PTL DEF PSpec

(* Every step of the UART is a step of the line. *)
LEMMA LineStep ==
  StatusIsTrue /\ [UartNext]_uvars => [Line!LineNext]_(Line!lvars)
<1> SUFFICES ASSUME StatusIsTrue, [UartNext]_uvars PROVE [Line!LineNext]_(Line!lvars)
  OBVIOUS
<1> DEFINE pending == IF tx = "IDLE" THEN {} ELSE {shift}
<1> USE DEF StatusIsTrue
<1>1. CASE UartClock /\ ~TransmitEnds
  <2>1. UNCHANGED pending /\ sent' = {} /\ UNCHANGED ustatus
    BY <1>1 DEF UartClock, TransmitTick, TransmitBit, TransmitIdle
  <2> QED BY <2>1 DEF Line!LineNext, Line!Quiet
<1>2. CASE UartClock /\ TransmitEnds
  BY <1>2 DEF UartClock, TransmitEnds, Line!LineNext, Line!Deliver
<1>3. CASE WriteData /\ sent' = {}
  <2>1. pending = {} /\ "TXRDY" \in ustatus /\ "TXRDY" \notin ustatus' /\ tx' = "START"
    BY <1>3 DEF WriteData, Accepts
  <2>2. PICK b \in Bytes : shift' = b
    BY <1>3 DEF WriteData
  <2>3. pending' = {b}
    BY <2>1, <2>2
  <2> QED BY <1>3, <2>1, <2>3 DEF Line!LineNext, Line!Accept
<1>4. CASE UartAccess /\ ~WriteData
  <2>1. sent' = {} /\ UNCHANGED <<tx, shift>>
    BY <1>4 DEF UartAccess, ReadData, WriteUartCtrl, WriteUartStatus, WriteBaud, Inject
  <2>2. "TXRDY" \in ustatus' <=> "TXRDY" \in ustatus
    BY <1>4 DEF UartAccess, ReadData, WriteUartCtrl, WriteUartStatus, WriteBaud, Inject, Cleared
  <2> QED BY <2>1, <2>2 DEF Line!LineNext, Line!Quiet
<1>5. CASE UartCleared
  BY <1>5 DEF UartCleared, Line!LineNext, Line!Drop
<1>6. CASE UNCHANGED uvars
  BY <1>6 DEF uvars, Line!lvars
<1> QED BY <1>1, <1>2, <1>3, <1>4, <1>5, <1>6 DEF UartNext, UartAccess

(* The transmitter implements the line: what a driver's write handed over  *)
(* comes out once and before the next, for all periods and frame lengths.  *)
THEOREM LineImplemented == PSpec => ImplementsLine
<1>1. PInit => Line!LineInit
  BY DEF PInit, UartInit, Line!LineInit
<1>2. StatusIsTrue /\ [PNext]_pvars => [Line!LineNext]_(Line!lvars)
  BY Projection, LineStep
<1> QED BY <1>1, <1>2, StatusTrue, PTL DEF PSpec, ImplementsLine, Line!LineSpec

-----------------------------------------------------------------------------
(* The transmitter's counters. *)

(* A frame that is timed is one that is being sent, and the counters of    *)
(* its bits and of its clocks are below their ends.                        *)
FrameInv ==
  /\ tx = "DATA" => bits < DataBits
  /\ frame # NoFrame => tx # "IDLE" /\ ticks < Period

(* The bit period is a value of its width. *)
LEMMA Periods ==
  ASSUME baud \in Nat
  PROVE  BitPeriod \in 0 .. TickMod - 1 /\ Period \in Nat /\ Period > 0
<1>1. Oversampling * (baud + 1) \in Nat
  BY UartAssumption
<1>2. \A a \in Nat : a % TickMod \in 0 .. TickMod - 1
  BY UartAssumption
<1>3. BitPeriod \in 0 .. TickMod - 1
  BY <1>1, <1>2 DEF BitPeriod
<1> QED BY <1>3, UartAssumption DEF Period

(* The UART's registers keep their types, and the counters their bounds.   *)
LEMMA UartTypeStep ==
  UartTypeOK /\ FrameInv /\ [UartNext]_uvars => UartTypeOK' /\ FrameInv'
<1> SUFFICES ASSUME UartTypeOK, FrameInv, [UartNext]_uvars PROVE UartTypeOK' /\ FrameInv'
  OBVIOUS
<1>0. /\ BitPeriod \in 0 .. TickMod - 1 /\ Period \in Nat /\ Period > 0
      /\ BitPeriod > 0 => Period = BitPeriod
  BY Periods, UartAssumption DEF UartTypeOK, Period
<1> USE UartAssumption DEF UartTypeOK, FrameInv, NoFrame, UartCtrlBit, UartFlag
<1>1. CASE UartClock
  <2>1. baud' = baud /\ Period' = Period
    BY <1>1 DEF UartClock, Period, BitPeriod
  <2>2. /\ frame' \in Nat \cup {NoFrame} /\ uint' \in BOOLEAN
        /\ UNCHANGED <<uctrl, baud, shift, unread, lost>>
    BY <1>1 DEF UartClock, UartPending
  <2>3. CASE TransmitTick
    <3>1. ticks' = ticks + 1 /\ ticks + 1 < BitPeriod /\ UNCHANGED <<tx, bits, ustatus>> /\ sent' = {}
      BY <1>0, <2>3 DEF TransmitTick, BitEnds
    <3> QED BY <1>0, <1>1, <2>1, <2>2, <3>1 DEF UartClock
  <2>4. CASE TransmitBit
    <3>1. ticks' = 0 /\ sent' = {} /\ UNCHANGED ustatus /\ tx' \in {"DATA", "STOP"}
      BY <2>4 DEF TransmitBit
    <3>2. bits' \in 0 .. DataBits /\ (tx' = "DATA" => bits' < DataBits)
      BY <2>4 DEF TransmitBit, LastBit
    <3> QED BY <1>0, <1>1, <2>1, <2>2, <3>1, <3>2 DEF UartClock
  <2>5. CASE TransmitEnds
    BY <1>1, <2>2, <2>5 DEF UartClock, TransmitEnds
  <2>6. CASE TransmitIdle
    BY <1>1, <2>2, <2>6 DEF UartClock, TransmitIdle
  <2> QED BY <1>1, <2>3, <2>4, <2>5, <2>6 DEF UartClock
<1>2. CASE WriteData /\ sent' = {}
  <2>1. Period' = Period
    BY <1>2 DEF WriteData, Period, BitPeriod
  <2> QED BY <1>0, <1>2, <2>1 DEF WriteData
<1>3. CASE WriteBaud /\ sent' = {}
  BY <1>3 DEF WriteBaud
<1>4. CASE UartCleared
  <2>1. uctrl' \subseteq UartCtrlBit /\ ustatus' \subseteq UartFlag /\ sent' \subseteq Bytes
    BY <1>4 DEF UartCleared
  <2>2. baud' \in BaudValues /\ shift' \in Bytes /\ bits' \in 0 .. DataBits
    BY <1>4 DEF UartCleared
  <2>3. ticks' \in 0 .. TickMod - 1 /\ frame' = NoFrame /\ tx' = "IDLE"
    BY <1>4 DEF UartCleared
  <2>4. uint' \in BOOLEAN /\ unread' \in BOOLEAN /\ lost' \in BOOLEAN
    BY <1>4 DEF UartCleared
  <2> QED BY <2>1, <2>2, <2>3, <2>4
<1>5. CASE ReadData /\ sent' = {}
  BY <1>5 DEF ReadData, Period, BitPeriod
<1>6. CASE WriteUartCtrl /\ sent' = {}
  BY <1>6 DEF WriteUartCtrl, Period, BitPeriod
<1>7. CASE WriteUartStatus /\ sent' = {}
  BY <1>7 DEF WriteUartStatus, Cleared, Period, BitPeriod
<1>8. CASE Inject /\ sent' = {}
  BY <1>8 DEF Inject, Period, BitPeriod
<1>9. CASE UNCHANGED uvars
  BY <1>9 DEF uvars, Period, BitPeriod
<1> QED BY <1>1, <1>2, <1>3, <1>4, <1>5, <1>6, <1>7, <1>8, <1>9 DEF UartNext, UartAccess

(* The UART starts with its types, and with nothing to send. *)
LEMMA UartStarts == UartInit => UartTypeOK /\ FrameInv /\ FrameTiming
<1> SUFFICES ASSUME UartInit PROVE UartTypeOK /\ FrameInv /\ FrameTiming
  OBVIOUS
<1>1. frame = NoFrame /\ tx = "IDLE" /\ ticks = 0 /\ bits = 0
  BY DEF UartInit
<1>2. uctrl \subseteq UartCtrlBit /\ ustatus \subseteq UartFlag /\ sent \subseteq Bytes
  BY DEF UartInit, UartFlag
<1>3. baud \in BaudValues /\ shift \in Bytes /\ bits \in 0 .. DataBits /\ ticks \in 0 .. TickMod - 1
  BY UartAssumption DEF UartInit
<1>4. uint \in BOOLEAN /\ unread \in BOOLEAN /\ lost \in BOOLEAN
  BY DEF UartInit
<1> QED BY <1>1, <1>2, <1>3, <1>4 DEF UartTypeOK, FrameInv, FrameTiming

(* The UART's registers hold values of their types in every run. *)
THEOREM UartTypeCorrect == PSpec => []UartTypeOK
<1>1. PInit => UartTypeOK /\ FrameInv
  BY UartStarts DEF PInit
<1>2. UartTypeOK /\ FrameInv /\ [PNext]_pvars => UartTypeOK' /\ FrameInv'
  BY Projection, UartTypeStep
<1> QED BY <1>1, <1>2, PTL DEF PSpec

(* What has been sent of a frame, in clocks. *)
Elapsed == BitsSent * Period

(* A clock moves the frame on by one: within a bit, or to the next bit.    *)
LEMMA FrameClock ==
  ASSUME UartTypeOK, FrameInv, FrameTiming, UartClock
  PROVE  FrameTiming'
<1> SUFFICES ASSUME frame' # NoFrame PROVE frame' = Elapsed' + ticks'
  BY DEF FrameTiming, Elapsed
<1>1. /\ frame # NoFrame /\ tx' # "IDLE" /\ frame' = frame + 1 /\ frame \in Nat
      /\ frame = Elapsed + ticks
  BY DEF UartClock, FrameTiming, Elapsed, UartTypeOK
<1>2. /\ Period \in Nat /\ Period > 0 /\ BitPeriod \in Nat /\ Period' = Period
      /\ BitPeriod > 0 => Period = BitPeriod
      /\ BitPeriod = 0 => Period = 1
  BY Periods, UartAssumption DEF UartClock, UartTypeOK, Period, BitPeriod
<1>3. /\ bits \in Nat /\ BitsSent \in Nat /\ ticks \in Nat /\ ticks < Period
      /\ DataBits \in Nat
  BY <1>1, UartAssumption DEF UartTypeOK, BitsSent, FrameInv
<1>4. Elapsed \in Nat
  BY <1>2, <1>3 DEF Elapsed
<1>5. CASE TransmitTick
  <2>1. Elapsed' = Elapsed
    BY <1>2, <1>5 DEF TransmitTick, Elapsed, BitsSent
  <2> QED BY <1>1, <1>3, <1>4, <1>5, <2>1 DEF TransmitTick
<1>6. CASE TransmitBit
  <2>1. ticks + 1 = Period
    BY <1>2, <1>3, <1>6 DEF TransmitBit, BitEnds
  <2>2. BitsSent' = BitsSent + 1
    BY <1>3, <1>6 DEF TransmitBit, BitsSent, LastBit, FrameInv
  <2>3. Elapsed' = (BitsSent + 1) * Period
    BY <1>2, <2>2 DEF Elapsed
  <2>4. Elapsed' = Elapsed + Period
    BY <1>2, <1>3, <2>3, NextMultiple DEF Elapsed
  <2> QED BY <1>1, <1>2, <1>3, <1>4, <1>6, <2>1, <2>4 DEF TransmitBit
<1>7. CASE TransmitEnds \/ TransmitIdle
  BY <1>1, <1>7 DEF TransmitEnds, TransmitIdle, FrameInv
<1> QED BY <1>5, <1>6, <1>7 DEF UartClock

(* Nothing else moves a frame that is timed. *)
LEMMA FrameStep ==
  ASSUME UartTypeOK, UartTypeOK', FrameInv, FrameTiming, [UartNext]_uvars
  PROVE  FrameTiming'
<1>1. CASE UartClock
  BY <1>1, FrameClock
<1>2. CASE WriteData
  <2>1. Period' \in Int /\ BitsSent' \in Int /\ BitsSent' = 0 /\ ticks' = 0 /\ frame' = 0
    BY <1>2, Periods, UartAssumption DEF WriteData, BitsSent, Period, BitPeriod, UartTypeOK
  <2>2. \A a \in Int, t \in Int : a = 0 => a * t = 0
    OBVIOUS
  <2>3. Elapsed' = 0
    BY <2>1, <2>2, Zenon DEF Elapsed
  <2>4. frame' = Elapsed' + ticks'
    BY <2>1, <2>3
  <2> QED BY <2>4 DEF FrameTiming, Elapsed
<1>3. CASE WriteBaud \/ UartCleared
  BY <1>3 DEF WriteBaud, UartCleared, FrameTiming
<1>4. CASE ReadData \/ WriteUartCtrl \/ WriteUartStatus \/ Inject \/ UNCHANGED uvars
  <2>1. UNCHANGED <<baud, tx, bits, ticks, frame>>
    BY <1>4 DEF ReadData, WriteUartCtrl, WriteUartStatus, Inject, uvars
  <2> QED BY <2>1 DEF FrameTiming, BitsSent, Period, BitPeriod
<1> QED BY <1>1, <1>2, <1>3, <1>4 DEF UartNext, UartAccess

(* Frames last as long as BAUD says, for every period and every number of  *)
(* data bits, however the UART is used while a byte is being sent.         *)
THEOREM FramesTimed == PSpec => []FrameTiming
<1>1. PInit => UartTypeOK /\ FrameInv /\ FrameTiming
  BY UartStarts DEF PInit
<1>2. UartTypeOK /\ FrameInv /\ FrameTiming /\ [PNext]_pvars
      => (UartTypeOK /\ FrameInv /\ FrameTiming)'
  BY Projection, UartTypeStep, FrameStep
<1> QED BY <1>1, <1>2, PTL DEF PSpec

-----------------------------------------------------------------------------
(* The pin is never late and never lies after a clock: the UART only       *)
(* raises flags in a clock, and the timer answers for the flags it had.    *)
THEOREM PinTrue == PSpec => PinFollowsFlags
<1>1. PinStep
  <2> SUFFICES ASSUME PeripheralClock
               PROVE  /\ intPin' => TimerPending \/ UartPending(ustatus')
                      /\ TimerPending \/ UartPending(ustatus) => intPin'
    BY DEF PinStep
  <2>1. (intPin' <=> tint' \/ uint') /\ (tint' <=> TimerPending)
    BY DEF PeripheralClock, AnyInterrupt, TimerClock
  <2>2. uint' <=> UartPending(ustatus')
    BY DEF PeripheralClock, UartClock
  <2>3. ustatus \subseteq ustatus'
    BY DEF PeripheralClock, UartClock, TransmitTick, TransmitBit, TransmitEnds, TransmitIdle
  <2> QED BY <2>1, <2>2, <2>3 DEF UartPending
<1> QED BY <1>1, PTL DEF PinFollowsFlags
-----------------------------------------------------------------------------
(* The board. *)

(* Beside the unit the peripherals behave as they do alone, so the board   *)
(* has all the properties proved above.                                    *)
THEOREM BoardHasPeripherals == BoardSpec => PSpec
<1>1. BoardInit => PInit
  BY DEF BoardInit
<1>2. [BoardNext]_bvars => [PNext]_pvars
  BY DEF BoardNext, bvars, BoardClock, BoardAccess, BoardForce, BoardReset, PNext
<1> QED BY <1>1, <1>2, PTL DEF BoardSpec, PSpec

(* No step of the peripherals is one of the unit. *)
LEMMA UnitStep == [BoardNext]_bvars => [MacNext]_mvars
BY DEF BoardNext, bvars, BoardClock, BoardAccess, BoardForce, BoardReset, MacNext

MultType   == [op : MultOps, a : Operands, b : Operands,
               out : {Nothing} \cup [op : MultOps, a : Operands, b : Operands],
               ready : BOOLEAN]
ConfigType == [opmult : 0 .. 2, opacc : 0 .. 2, ie : BOOLEAN, flags : SUBSET Flags]

(* What keeps the unit from answering: a multiplication in progress is one *)
(* of a block that has been stopped, so its end is never seen.             *)
StoppedInv ==
  /\ mult \in MultType /\ config \in ConfigType /\ a_reg \in Operands
  /\ state \in {"macWAIT", "macMULT"}
  /\ state = "macMULT" => mult.op = "multNOP"
  /\ NeverAnswers

(* No field of CONFIG is ever 1 or 3 where it stands. *)
LEMMA NoOperationSelected ==
  ASSUME config \in ConfigType
  PROVE  MultOp = "multNOP"
<1>1. config.opmult \in 0 .. 2
  BY DEF ConfigType
<1>2. Select(config.opmult, 4096) # 1 /\ Select(config.opmult, 4096) # 3
  BY <1>1 DEF Select
<1> QED BY <1>2 DEF MultOp

(* A stopped block is not ready after its clock. *)
LEMMA StoppedBlock ==
  ASSUME mult \in MultType
  PROVE  /\ MultClocked \in MultType
         /\ MultClocked.op = mult.op
         /\ mult.op = "multNOP" => ~MultClocked.ready
<1>1. CASE mult.op = "multNOP"
  BY <1>1 DEF MultType, MultClocked
<1>2. CASE mult.op # "multNOP"
  <2>1. Product(mult) \in [op : MultOps, a : Operands, b : Operands]
    BY DEF MultType, Product
  <2> QED BY <1>2, <2>1 DEF MultType, MultClocked
<1> QED BY <1>1, <1>2

LEMMA UnitStarts == MacInit => StoppedInv
<1> SUFFICES ASSUME MacInit PROVE StoppedInv
  OBVIOUS
<1>1. mult \in MultType
  BY MacAssumption DEF MacInit, MultType
<1>2. config \in ConfigType
  BY DEF MacInit, ConfigType, Flags
<1> QED BY <1>1, <1>2, MacAssumption DEF MacInit, StoppedInv, NeverAnswers

LEMMA UnitClock == StoppedInv /\ MacClock => StoppedInv'
<1> SUFFICES ASSUME StoppedInv, MacClock PROVE StoppedInv'
  OBVIOUS
<1>1. /\ MultClocked \in MultType /\ MultClocked.op = mult.op
      /\ mult.op = "multNOP" => ~MultClocked.ready
  BY StoppedBlock DEF StoppedInv
<1>2. mult' = MultClocked /\ UNCHANGED <<config, su_sl, state, a_reg>>
  <2>1. CASE state = "macMULT"
    BY <1>1, <2>1 DEF StoppedInv, MacClock, Multiplying
  <2>2. CASE state = "macWAIT"
    BY <2>2 DEF MacClock
  <2> QED BY <2>1, <2>2 DEF StoppedInv
<1> QED BY <1>1, <1>2 DEF StoppedInv, NeverAnswers

LEMMA UnitKept == StoppedInv /\ [MacNext]_mvars => StoppedInv'
<1> SUFFICES ASSUME StoppedInv, [MacNext]_mvars PROVE StoppedInv'
  OBVIOUS
<1>1. CASE ReadConfig
  <2>1. config' \in ConfigType /\ config'.flags = {}
    BY <1>1 DEF ReadConfig, StoppedInv, ConfigType
  <2> QED BY <1>1, <2>1 DEF ReadConfig, StoppedInv, NeverAnswers
<1>2. CASE WriteConfig
  <2>1. config' \in ConfigType /\ config'.flags = {}
    BY <1>2 DEF WriteConfig, ConfigType
  <2> QED BY <1>2, <2>1 DEF WriteConfig, StoppedInv, NeverAnswers
<1>3. CASE WriteA
  BY <1>3 DEF WriteA, StoppedInv, NeverAnswers
<1>4. CASE WriteB
  <2>1. mult' = [mult EXCEPT !.op = "multNOP", !.a = 0, !.b = 0] /\ state' = "macMULT"
    BY <1>4, NoOperationSelected DEF WriteB, StoppedInv
  <2>2. mult' \in MultType /\ mult'.op = "multNOP"
    BY <2>1, MacAssumption DEF StoppedInv, MultType, MultOps
  <2> QED BY <1>4, <2>1, <2>2 DEF WriteB, StoppedInv, NeverAnswers
<1>5. CASE MacClock
  BY <1>5, UnitClock
<1>6. CASE UNCHANGED mvars
  BY <1>6 DEF mvars, StoppedInv, NeverAnswers
<1> QED BY <1>1, <1>2, <1>3, <1>4, <1>5, <1>6 DEF MacNext, MacAccess

(* Whatever a program writes to its registers, and whatever the operation  *)
(* registers held at power-on, the unit gives no result, sets no flag and  *)
(* asks for no interrupt.                                                  *)
THEOREM UnitIsSilent == BoardSpec => []NeverAnswers
<1>1. BoardInit => StoppedInv
  BY UnitStarts DEF BoardInit
<1>2. StoppedInv /\ [BoardNext]_bvars => StoppedInv'
  BY UnitStep, UnitKept
<1>3. StoppedInv => NeverAnswers
  BY DEF StoppedInv
<1> QED BY <1>1, <1>2, <1>3, PTL DEF BoardSpec

-----------------------------------------------------------------------------
(* The bus. *)

(* The map and the peripherals' own base addresses. *)
MapType ==
  /\ vmem \in [DOMAIN vmem -> Peripherals] /\ DOMAIN vmem \subseteq Nat
  /\ home \in [Peripherals -> Nat]

MInv == MapType /\ MappedWholly

LEMMA SpanNat ==
  ASSUME NEW p \in Peripherals, NEW a \in Nat
  PROVE  Span(p, a) \subseteq Nat /\ a \in Span(p, a)
BY BusAssumption DEF Span

(* What attachPeripheral adds to the map. *)
LEMMA AttachStep ==
  ASSUME MInv, NEW p \in Peripherals, NEW a \in Nat, Attach(p, a)
  PROVE  MInv'
<1> USE DEF MInv
<1>1. CASE ~(a > Size /\ Free(p, a))
  <2>1. UNCHANGED <<vmem, home>>
    BY <1>1 DEF Attach
  <2> QED BY <2>1 DEF MapType, MappedWholly, Attached
<1>2. CASE a > Size /\ Free(p, a)
  <2> DEFINE S == Span(p, a)
  <2>1. /\ vmem' = [b \in DOMAIN vmem \cup S |-> IF b \in S THEN p ELSE vmem[b]]
        /\ home' = [home EXCEPT ![p] = a]
        /\ S \cap DOMAIN vmem = {}
        /\ \A b \in DOMAIN vmem : vmem[b] # p
    BY <1>2 DEF Attach, Free, Attached
  <2>2. MapType'
    BY <2>1, SpanNat DEF MapType
  <2>3. ASSUME NEW q \in Peripherals, Attached(q)'
        PROVE  ({ b \in DOMAIN vmem : vmem[b] = q } = Span(q, home[q]))' /\ (home[q] > Size)'
    <3>1. CASE q = p
      <4>1. home'[q] = a
        BY <2>1, <3>1 DEF MapType
      <4>2. { b \in DOMAIN vmem' : vmem'[b] = q } = S
        BY <2>1, <3>1
      <4> QED BY <1>2, <3>1, <4>1, <4>2 DEF Span
    <3>2. CASE q # p
      <4>1. home'[q] = home[q]
        BY <2>1, <3>2 DEF MapType
      <4>2. { b \in DOMAIN vmem' : vmem'[b] = q } = { b \in DOMAIN vmem : vmem[b] = q }
        BY <2>1, <3>2
      <4>3. Attached(q)
        BY <2>1, <2>3, <3>2 DEF Attached
      <4> QED BY <4>1, <4>2, <4>3 DEF MappedWholly, Span
    <3> QED BY <3>1, <3>2
  <2> QED BY <2>2, <2>3 DEF MappedWholly
<1> QED BY <1>1, <1>2

LEMMA MapStep ==
  ASSUME MInv, [Next]_vars
  PROVE  MInv'
<1>1. CASE \E at \in Attachments : Attach(at[2], at[1])
  <2>1. PICK at \in Attachments : Attach(at[2], at[1])
    BY <1>1
  <2> QED BY <2>1, AttachStep, BusAssumption
<1>2. CASE UNCHANGED <<vmem, home>>
  BY <1>2 DEF MInv, MapType, MappedWholly, Attached
<1> QED
  BY <1>1, <1>2 DEF Next, Read, Write, ClearLog, ClearMem, vars

(* A call of attachPeripheral maps a peripheral wholly or not at all, and  *)
(* takes no address from the array or from another peripheral.             *)
THEOREM AttachedWholly == Spec => []MappedWholly
<1>1. Init => MInv
  BY BusAssumption DEF Init, MInv, MapType, MappedWholly, Attached
<1>2. MInv => MappedWholly
  BY DEF MInv
<1> QED BY <1>1, <1>2, MapStep, PTL DEF Spec

-----------------------------------------------------------------------------
(* The log: an entry may say anything of a word that is not the array's.   *)
Entry == [address : Nat, value : Nat, write : BOOLEAN]

LogType ==
  /\ log \in Seq(Entry) /\ since \in 0 .. Len(log)
  /\ beyond \in Nat
  /\ \A a \in DOMAIN array : array[a] \in Nat

(* The end of the log says what the array holds. *)
EndIsTrue ==
  \A a \in Nat : a < Size => Said(log, since, past, a, Len(log) + 1, Word(array, a))

LInv == LogType /\ LogIsTrue /\ EndIsTrue

LEMMA Appended ==
  ASSUME NEW l \in Seq(Entry), NEW e \in Entry
  PROVE  /\ Append(l, e) \in Seq(Entry) /\ Len(l) \in Nat /\ Len(Append(l, e)) = Len(l) + 1
         /\ Append(l, e)[Len(l) + 1] = e
         /\ \A n \in 1 .. Len(l) : Append(l, e)[n] = l[n]
OBVIOUS

(* Another entry changes nothing of what the log said before it. *)
LEMMA SaidBefore ==
  ASSUME NEW l \in Seq(Entry), NEW e \in Entry, NEW s \in 0 .. Len(l), NEW m, NEW a,
         NEW n \in 1 .. Len(l) + 1, NEW v, Said(l, s, m, a, n, v)
  PROVE  Said(Append(l, e), s, m, a, n, v)
<1> DEFINE l1 == Append(l, e)
<1>1. Len(l) \in Nat /\ \A k \in 1 .. Len(l) : l1[k] = l[k]
  BY Appended
<1> HIDE DEF l1
<1>2. \A k \in s + 1 .. n - 1 : l1[k] = l[k]
  BY <1>1
<1>3. CASE \E k \in s + 1 .. n - 1 :
             /\ Wrote(l, k, a) /\ l[k].value = v
             /\ \A j \in k + 1 .. n - 1 : ~Wrote(l, j, a)
  <2>1. PICK k \in s + 1 .. n - 1 :
               /\ Wrote(l, k, a) /\ l[k].value = v
               /\ \A j \in k + 1 .. n - 1 : ~Wrote(l, j, a)
    BY <1>3
  <2>2. \A j \in k + 1 .. n - 1 : j \in s + 1 .. n - 1
    OBVIOUS
  <2>3. /\ Wrote(l1, k, a) /\ l1[k].value = v
        /\ \A j \in k + 1 .. n - 1 : ~Wrote(l1, j, a)
    BY <1>2, <2>1, <2>2 DEF Wrote
  <2> QED BY <2>3 DEF Said, l1
<1>4. CASE /\ v = Word(m, a)
           /\ \A j \in s + 1 .. n - 1 : ~Wrote(l, j, a)
  BY <1>2, <1>4 DEF Said, Wrote, l1
<1> QED BY <1>3, <1>4 DEF Said

(* A write is what the log says last of its word. *)
LEMMA SaidByWrite ==
  ASSUME NEW l \in Seq(Entry), NEW e \in Entry, NEW s \in 0 .. Len(l), NEW m, e.write
  PROVE  Said(Append(l, e), s, m, e.address, Len(l) + 2, e.value)
<1> DEFINE k == Len(l) + 1
<1> DEFINE l1 == Append(l, e)
<1>1. Len(l) \in Nat /\ l1[k] = e
  BY Appended
<1>2. k \in s + 1 .. (Len(l) + 2) - 1 /\ (k + 1 .. (Len(l) + 2) - 1) = {}
  BY <1>1
<1>3. Wrote(l1, k, e.address) /\ l1[k].value = e.value
  BY <1>1 DEF Wrote
<1> HIDE DEF k, l1
<1>4. Said(l1, s, m, e.address, Len(l) + 2, e.value)
  BY <1>2, <1>3 DEF Said
<1> QED BY <1>4 DEF l1

(* Any other entry leaves what it says of the word. *)
LEMMA SaidStill ==
  ASSUME NEW l \in Seq(Entry), NEW e \in Entry, NEW s \in 0 .. Len(l), NEW m, NEW a, NEW v,
         ~(e.write /\ e.address = a), Said(l, s, m, a, Len(l) + 1, v)
  PROVE  Said(Append(l, e), s, m, a, Len(l) + 2, v)
<1> DEFINE last == Len(l) + 1
<1> DEFINE l1 == Append(l, e)
<1>1. Len(l) \in Nat /\ last \in Nat /\ l1[last] = e /\ (Len(l) + 2) - 1 = last
  BY Appended
<1>2. ~Wrote(l1, last, a)
  BY <1>1 DEF Wrote
<1>3. last \in 1 .. Len(l) + 1
  BY <1>1
<1>4. Said(l1, s, m, a, last, v)
  BY <1>3, SaidBefore
<1>5. \A k \in Nat : \A j \in k + 1 .. last : j = last \/ j \in k + 1 .. last - 1
  BY <1>1
<1>6. s + 1 .. last - 1 \subseteq s + 1 .. last /\ s + 1 .. last - 1 \subseteq Nat /\ s \in Nat
  BY <1>1
<1> HIDE DEF last, l1
<1>7. CASE \E k \in s + 1 .. last - 1 :
             /\ Wrote(l1, k, a) /\ l1[k].value = v
             /\ \A j \in k + 1 .. last - 1 : ~Wrote(l1, j, a)
  <2>1. PICK k \in s + 1 .. last - 1 :
               /\ Wrote(l1, k, a) /\ l1[k].value = v
               /\ \A j \in k + 1 .. last - 1 : ~Wrote(l1, j, a)
    BY <1>7
  <2>2. k \in s + 1 .. last /\ k \in Nat
    BY <1>6
  <2>3. \A j \in k + 1 .. last : ~Wrote(l1, j, a)
    BY <1>2, <1>5, <2>1, <2>2
  <2>4. \E i \in s + 1 .. (Len(l) + 2) - 1 :
          /\ Wrote(l1, i, a) /\ l1[i].value = v
          /\ \A j \in i + 1 .. (Len(l) + 2) - 1 : ~Wrote(l1, j, a)
    BY <1>1, <2>1, <2>2, <2>3
  <2> QED BY <2>4 DEF Said, l1
<1>8. CASE /\ v = Word(m, a)
           /\ \A j \in s + 1 .. last - 1 : ~Wrote(l1, j, a)
  <2>1. \A j \in s + 1 .. (Len(l) + 2) - 1 : ~Wrote(l1, j, a)
    BY <1>1, <1>2, <1>5, <1>6, <1>8
  <2> QED BY <1>8, <2>1 DEF Said, l1
<1> QED BY <1>4, <1>7, <1>8 DEF Said

(* An access that is logged truly, with the array kept in step. *)
LEMMA LoggedStep ==
  ASSUME LInv, NEW e \in Entry, log' = Append(log, e), UNCHANGED history,
         LogType',
         e.address < Size /\ ~e.write => e.value = Word(array, e.address),
         \A a \in Nat : a < Size =>
           Word(array', a) = IF e.write /\ e.address = a THEN e.value ELSE Word(array, a)
  PROVE  LInv'
<1>1. /\ log \in Seq(Entry) /\ since \in 0 .. Len(log) /\ since' = since /\ past' = past
      /\ Size \in Nat
  BY BusAssumption DEF LInv, LogType, history
<1>2. /\ Len(log) \in Nat /\ Len(log') = Len(log) + 1 /\ log'[Len(log) + 1] = e
      /\ \A n \in 1 .. Len(log) : log'[n] = log[n]
  BY <1>1, Appended
<1>3. EndIsTrue'
  <2> SUFFICES ASSUME NEW a \in Nat, a < Size
               PROVE  Said(log', since, past, a, Len(log) + 2, Word(array', a))
    BY <1>1, <1>2 DEF EndIsTrue
  <2>1. CASE e.write /\ e.address = a
    BY <1>1, <2>1, SaidByWrite
  <2>2. CASE ~(e.write /\ e.address = a)
    <3>1. Said(log, since, past, a, Len(log) + 1, Word(array, a))
      BY DEF LInv, EndIsTrue
    <3>2. Word(array', a) = Word(array, a)
      BY <2>2
    <3> QED BY <1>1, <2>2, <3>1, <3>2, SaidStill
  <2> QED BY <2>1, <2>2
<1>4. LogIsTrue'
  <2> SUFFICES ASSUME NEW n \in since + 1 .. Len(log) + 1,
                      log'[n].address < Size, ~log'[n].write
               PROVE  Said(log', since, past, log'[n].address, n, log'[n].value)
    BY <1>1, <1>2 DEF LogIsTrue
  <2>1. n \in 1 .. Len(log) + 1
    BY <1>1, <1>2
  <2>2. CASE n \in since + 1 .. Len(log)
    <3>1. log'[n] = log[n]
      BY <1>1, <1>2, <2>2
    <3>2. Said(log, since, past, log[n].address, n, log[n].value)
      BY <2>2, <3>1 DEF LInv, LogIsTrue
    <3> QED BY <1>1, <2>1, <3>1, <3>2, SaidBefore
  <2>3. CASE n = Len(log) + 1
    <3>1. log'[n] = e /\ e.address \in Nat
      BY <1>2, <2>3 DEF Entry
    <3>2. Said(log, since, past, e.address, n, e.value)
      BY <2>3, <3>1 DEF LInv, EndIsTrue
    <3> QED BY <1>1, <2>1, <3>1, <3>2, SaidBefore
  <2> QED BY <1>1, <1>2, <2>2, <2>3
<1> QED BY <1>3, <1>4 DEF LInv

LEMMA ReadStep ==
  ASSUME LInv, NEW a \in Addresses, Read(a)
  PROVE  LInv'
<1>1. PICK v \in Readable(a) : log' = Append(log, [address |-> a, value |-> v, write |-> FALSE])
  BY DEF Read, Logged
<1> DEFINE e == [address |-> a, value |-> v, write |-> FALSE]
<1>2. UNCHANGED history /\ array' = array /\ beyond' = beyond
  BY DEF Read
<1>3. a \in Nat /\ Size \in Nat /\ Values \subseteq Nat
  BY BusAssumption
<1>4. v \in Nat
  BY <1>3 DEF Readable, NoAnswer, Word, LInv, LogType
<1>5. e \in Entry
  BY <1>3, <1>4 DEF Entry
<1>6. a < Size => v = Word(array, a)
  BY <1>3 DEF Readable, InArray
<1>7. LogType'
  BY <1>1, <1>2, <1>5, Appended DEF LInv, LogType, history
<1>8. \A b \in Nat : Word(array', b) = Word(array, b)
  BY <1>2 DEF Word
<1> QED BY <1>1, <1>2, <1>5, <1>6, <1>7, <1>8, LoggedStep

LEMMA WriteStep ==
  ASSUME LInv, NEW a \in Addresses, NEW v \in Values, Write(a, v)
  PROVE  LInv'
<1> DEFINE e == [address |-> a, value |-> v, write |-> TRUE]
<1>1. log' = Append(log, e) /\ UNCHANGED history
  BY DEF Write, Logged
<1>2. a \in Nat /\ v \in Nat /\ Size \in Nat
  BY BusAssumption
<1>3. e \in Entry
  BY <1>2 DEF Entry
<1>4. (\A b \in DOMAIN array' : array'[b] \in Nat) /\ beyond' \in Nat
  BY <1>2 DEF Write, LInv, LogType
<1>5. LogType'
  BY <1>1, <1>3, <1>4, Appended DEF LInv, LogType, history
<1>6. \A b \in Nat : b < Size => Word(array', b) = IF a = b THEN v ELSE Word(array, b)
  BY <1>2 DEF Write, Word, InArray
<1> QED BY <1>1, <1>3, <1>5, <1>6, LoggedStep

(* Where nothing has been logged since, the log says what the array held. *)
LEMMA FreshLog == LogType /\ since = Len(log) /\ past = array => LogIsTrue /\ EndIsTrue
<1> SUFFICES ASSUME LogType, since = Len(log), past = array PROVE LogIsTrue /\ EndIsTrue
  OBVIOUS
<1>1. Len(log) \in Nat /\ (since + 1 .. Len(log)) = {} /\ (since + 1 .. (Len(log) + 1) - 1) = {}
  BY DEF LogType
<1> QED BY <1>1 DEF LogIsTrue, EndIsTrue, Said

LEMMA LogStep ==
  ASSUME LInv, [Next]_vars
  PROVE  LInv'
<1>1. CASE \E a \in Addresses : Read(a)
  BY <1>1, ReadStep
<1>2. CASE \E a \in Addresses, v \in Values : Write(a, v)
  BY <1>2, WriteStep
<1>3. CASE ClearLog
  <2>1. (LogType /\ since = Len(log) /\ past = array)'
    BY <1>3 DEF ClearLog, LInv, LogType
  <2>2. (LogIsTrue /\ EndIsTrue)'
    BY <2>1, FreshLog, PTL
  <2> QED BY <2>1, <2>2 DEF LInv
<1>4. CASE ClearMem
  <2>1. (LogType /\ since = Len(log) /\ past = array)'
    BY <1>4 DEF ClearMem, LInv, LogType
  <2>2. (LogIsTrue /\ EndIsTrue)'
    BY <2>1, FreshLog, PTL
  <2> QED BY <2>1, <2>2 DEF LInv
<1>5. CASE UNCHANGED <<array, beyond, log, history>>
  BY <1>5 DEF LInv, LogType, LogIsTrue, EndIsTrue, history
<1> QED
  BY <1>1, <1>2, <1>3, <1>4, <1>5 DEF Next, Attach, vars

(* What the log says of the words of the array is true: a read in it has   *)
(* the value that the last write before it in the log left there.          *)
THEOREM LogTellsTheStory == Spec => []LogIsTrue
<1>1. Init => LInv
  <2> SUFFICES ASSUME Init PROVE LInv
    OBVIOUS
  <2>1. LogType /\ since = Len(log) /\ past = array
    BY BusAssumption DEF Init, LogType
  <2> QED BY <2>1, FreshLog DEF LInv
<1>2. LInv => LogIsTrue
  BY DEF LInv
<1> QED BY <1>1, <1>2, LogStep, PTL DEF Spec
=============================================================================
