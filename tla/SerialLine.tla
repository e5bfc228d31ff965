----------------------------- MODULE SerialLine -----------------------------
(***************************************************************************)
(* What a transmitter promises: the byte it has accepted is the next one   *)
(* that comes out, once, and until then it accepts no other; a reset may   *)
(* drop it.                                                                *)
(***************************************************************************)
CONSTANT Bytes

VARIABLES
  pending,   (* the accepted byte that has not come out, as a set          *)
  busy,      (* what the driver is told                                    *)
  out        (* the byte that came out in the last step, as a set          *)

lvars == <<pending, busy, out>>

LineInit == pending = {} /\ busy = FALSE /\ out = {}

Accept ==
  /\ pending = {} /\ ~busy
  /\ \E b \in Bytes : pending' = {b}
  /\ busy' = TRUE /\ out' = {}

Deliver ==
  /\ pending # {} /\ out' = pending
  /\ pending' = {} /\ busy' = FALSE

Drop  == pending' = {} /\ busy' = FALSE /\ out' = {}
Quiet == out' = {} /\ UNCHANGED <<pending, busy>>

LineNext == Accept \/ Deliver \/ Drop \/ Quiet
LineSpec == LineInit /\ [][LineNext]_lvars
=============================================================================
