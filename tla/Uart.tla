-------------------------------- MODULE Uart --------------------------------
(***************************************************************************)
(* The UART peripheral (periph/uart.cpp): a bit-serial transmitter and a   *)
(* one-byte receive buffer that bytes are injected into.  CTRL and STATUS  *)
(* are sets of the bits that are up, of a received byte only its presence  *)
(* is kept, and widths and lengths are parameters.                         *)
(***************************************************************************)
EXTENDS Integers

CONSTANTS
  Bytes,          (* what is sent                                          *)
  BaudValues,     (* what drivers write to BAUD                            *)
  UartCtrls,      (* ... and to CTRL                                       *)
  Oversampling,   (* 16: clocks per bit at BAUD = 0                        *)
  TickMod,        (* 2^16: the bit period and tx_tick_count wrap here      *)
  DataBits        (* 8                                                     *)

UartCtrlBit == {"TXEN", "RXEN", "TXIE", "RXIE"}
UartFlag    == {"TXRDY", "RXDA", "FE", "OE"}

ASSUME UartAssumption ==
  /\ 0 \in Bytes /\ BaudValues \subseteq Nat /\ 0 \in BaudValues
  /\ UartCtrls \subseteq SUBSET UartCtrlBit
  /\ Oversampling \in Nat \ {0} /\ TickMod \in Nat \ {0} /\ DataBits \in Nat \ {0}

VARIABLES
  uctrl, ustatus, baud, tx, shift, bits, ticks, uint,
  sent,     (* the byte given to txCallback in the last step, as a set     *)
  frame,    (* history: clocks since the byte in the transmitter was       *)
            (* accepted, or NoFrame when BAUD has been written since       *)
  unread,   (* history: the buffer holds a byte nobody has read          *)
  lost      (* history: a byte was overwritten unread since OE was cleared *)

uvars == <<uctrl, ustatus, baud, tx, shift, bits, ticks, uint, sent, frame, unread, lost>>

NoFrame == -1

UartCleared ==
  /\ uctrl' = {} /\ ustatus' = {"TXRDY"} /\ baud' = 0
  /\ tx' = "IDLE" /\ shift' = 0 /\ bits' = 0 /\ ticks' = 0
  /\ uint' = FALSE
  /\ frame' = NoFrame /\ unread' = FALSE /\ lost' = FALSE
  /\ sent' = {}

-----------------------------------------------------------------------------
(* Accesses. *)

Unguarded == "TXEN" \in uctrl                       \* mutant: TXRDY not looked at

Accepts == "TXEN" \in uctrl /\ "TXRDY" \in ustatus

(* DATA: the transmitter takes the byte, or the write is dropped. *)
WriteData ==
  /\ Accepts
  /\ \E b \in Bytes : shift' = b
  /\ ustatus' = ustatus \ {"TXRDY"}
  /\ tx' = "START" /\ ticks' = 0 /\ bits' = 0 /\ frame' = 0
  /\ UNCHANGED <<uctrl, baud, uint, unread, lost>>

ReadData ==
  /\ ustatus' = ustatus \ {"RXDA"} /\ unread' = FALSE
  /\ UNCHANGED <<uctrl, baud, tx, shift, bits, ticks, uint, frame, lost>>

WriteUartCtrl ==
  /\ \E c \in UartCtrls : uctrl' = c
  /\ UNCHANGED <<ustatus, baud, tx, shift, bits, ticks, uint, frame, unread, lost>>

(* STATUS: write 1 to clear, of the error flags only. *)
AnyCleared(ones) == ones                            \* mutant: the mask forgotten

Cleared(ones) == ones \cap {"FE", "OE"}

WriteUartStatus ==
  /\ \E ones \in SUBSET UartFlag :
       /\ ustatus' = ustatus \ Cleared(ones)
       /\ lost' = (lost /\ "OE" \notin ones)
  /\ UNCHANGED <<uctrl, baud, tx, shift, bits, ticks, uint, frame, unread>>

WriteBaud ==
  /\ \E v \in BaudValues : baud' = v
  /\ frame' = NoFrame
  /\ UNCHANGED <<uctrl, ustatus, tx, shift, bits, ticks, uint, unread, lost>>

(* injectRxByte: the buffer is overwritten whatever it holds, RXEN or not. *)
Inject ==
  /\ ustatus' = ustatus \cup {"RXDA"}
                \cup (IF "RXDA" \in ustatus THEN {"OE"} ELSE {})
  /\ unread' = TRUE /\ lost' = (lost \/ unread)
  /\ UNCHANGED <<uctrl, baud, tx, shift, bits, ticks, uint, frame>>

UartAccess ==
  /\ WriteData \/ ReadData \/ WriteUartCtrl \/ WriteUartStatus \/ WriteBaud \/ Inject
  /\ sent' = {}

-----------------------------------------------------------------------------
(* The clock. *)

BitPeriod == (Oversampling * (baud + 1)) % TickMod

LateBitEnds == ticks >= BitPeriod             \* mutant: one clock too many

BitEnds == ticks + 1 >= BitPeriod

LastBit == bits + 1 >= DataBits

TransmitTick ==
  /\ tx # "IDLE" /\ ~BitEnds
  /\ ticks' = ticks + 1
  /\ sent' = {} /\ UNCHANGED <<tx, bits, ustatus>>

TransmitBit ==
  /\ tx \in {"START", "DATA"} /\ BitEnds
  /\ ticks' = 0
  /\ IF tx = "START" THEN tx' = "DATA" /\ bits' = 0
     ELSE bits' = bits + 1 /\ tx' = IF LastBit THEN "STOP" ELSE "DATA"
  /\ sent' = {} /\ UNCHANGED ustatus

TransmitEnds ==
  /\ tx = "STOP" /\ BitEnds
  /\ ticks' = 0 /\ tx' = "IDLE"
  /\ ustatus' = ustatus \cup {"TXRDY"}
  /\ sent' = {shift}
  /\ UNCHANGED bits

TransmitIdle == tx = "IDLE" /\ sent' = {} /\ UNCHANGED <<ticks, tx, bits, ustatus>>

UartPending(status) == ("TXRDY" \in status /\ "TXIE" \in uctrl)
                       \/ ("RXDA" \in status /\ "RXIE" \in uctrl)

UartClock ==
  /\ TransmitTick \/ TransmitBit \/ TransmitEnds \/ TransmitIdle
  /\ uint' = UartPending(ustatus')
  /\ frame' = IF frame = NoFrame \/ tx' = "IDLE" THEN NoFrame ELSE frame + 1
  /\ UNCHANGED <<uctrl, baud, shift, unread, lost>>

-----------------------------------------------------------------------------
UartInit ==
  /\ uctrl = {} /\ ustatus = {"TXRDY"} /\ baud = 0
  /\ tx = "IDLE" /\ shift = 0 /\ bits = 0 /\ ticks = 0
  /\ uint = FALSE
  /\ sent = {}
  /\ frame = NoFrame /\ unread = FALSE /\ lost = FALSE

UartNext == UartClock \/ UartAccess \/ UartCleared
UartSpec == UartInit /\ [][UartNext]_uvars

-----------------------------------------------------------------------------
(* Properties. *)

(* The UART's registers hold values of their types, and the counters of    *)
(* the transmitter stay within a frame.                                    *)
UartTypeOK ==
  /\ uctrl \subseteq UartCtrlBit /\ ustatus \subseteq UartFlag /\ baud \in BaudValues
  /\ tx \in {"IDLE", "START", "DATA", "STOP"}
  /\ shift \in Bytes /\ bits \in 0 .. DataBits /\ ticks \in 0 .. TickMod - 1
  /\ uint \in BOOLEAN /\ sent \subseteq Bytes
  /\ frame \in Nat \cup {NoFrame} /\ unread \in BOOLEAN /\ lost \in BOOLEAN

(* What a driver that polls STATUS relies on: TXRDY is up exactly when the *)
(* transmitter is idle, RXDA exactly when the buffer holds a byte nobody   *)
(* has read, and OE whenever such a byte was overwritten, whatever the     *)
(* driver wrote to STATUS.                                                 *)
StatusIsTrue ==
  /\ "TXRDY" \in ustatus <=> tx = "IDLE"
  /\ "RXDA" \in ustatus <=> unread
  /\ lost => "OE" \in ustatus

(* A frame is a start bit, DataBits bits and a stop bit of one bit period  *)
(* each (a period that wraps to 0 counts as one clock), however the rest   *)
(* of the UART is used meanwhile.                                          *)
Period == IF BitPeriod = 0 THEN 1 ELSE BitPeriod

BitsSent == CASE tx = "START" -> 0
              [] tx = "DATA"  -> bits + 1
              [] tx = "STOP"  -> DataBits + 1
              [] tx = "IDLE"  -> 0

FrameTiming == frame # NoFrame => frame = BitsSent * Period + ticks

(* The transmitter as a line: see SerialLine. *)
Line == INSTANCE SerialLine WITH pending <- IF tx = "IDLE" THEN {} ELSE {shift},
                                 busy <- "TXRDY" \notin ustatus, out <- sent

ImplementsLine == Line!LineSpec
=============================================================================
