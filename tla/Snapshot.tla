------------------------------ MODULE Snapshot ------------------------------
(***************************************************************************)
(* Snapshots (snapshot.cpp): `save` writes the core to a JSON file, `load` *)
(* writes the file back into whatever the core has become.  The file names *)
(* its fields one by one, and so does the restore; a member that is in     *)
(* neither list keeps the value it has when the file is loaded.            *)
(*                                                                         *)
(* Here a session saves once, goes on for some clocks, perhaps resets, and *)
(* loads the file.  The run that followed the save is kept in `record`,    *)
(* and the clocks after the load are given the same levels of the          *)
(* interrupt pin: the core should then do again what it did.               *)
(***************************************************************************)
EXTENDS Statistics

CONSTANT MaxDetour      (* bound: clocks between a reset and the load *)

ASSUME SnapshotAssumption == MaxDetour \in Nat

VARIABLES
  mode,     (* what the session is doing: see Modes                        *)
  snap,     (* the snapshot on disk                                        *)
  record,   (* the core after each clock since the save, by clock number   *)
  lost      (* has the core used something the file does not hold          *)

session == <<mode, snap, record, lost>>

Modes == {"before", "saved", "away", "replaying"}

Counts == [mix |-> mix, stalls |-> stalls, bubbles |-> bubbles,
           fwdAlu |-> fwdAlu, fwdMem |-> fwdMem, retired |-> retired]

(* The members of ANEMCPU and of the four latches, after clock `cycle`.    *)
Core == [pc |-> pc, regs |-> regs, hi |-> hi, lo |-> lo, sp |-> sp, zFlag |-> zFlag,
         epc |-> epc, eca |-> eca, ien |-> ien, intPin |-> intPin, dmem |-> dmem,
         f2d |-> f2d, d2e |-> d2e, e2m |-> e2m, m2w |-> m2w, stallCtr |-> stallCtr,
         counts |-> Counts]

(* The latches into EX and MEM are written without lpm_flag: what is left  *)
(* of the controls of an LPM are those of a data read.                     *)
Filed(l) == [l EXCEPT !.ctl.mem = IF @ = "lpm" THEN "read" ELSE @]

(* Neither the Z register nor the interrupt pin is written; nor are cells  *)
(* that hold 0, and the memory is listed up to the size of its array only. *)
Listed(mem) == { n \in DOMAIN mem \ {DMemSize} : mem[n] # 0 }

Snap ==
  [cycle |-> cycle, pc |-> pc, regs |-> [r \in Reg |-> RRead(regs, r)],
   hi |-> hi, lo |-> lo, sp |-> sp, epc |-> epc, eca |-> eca, ien |-> ien,
   dmem |-> [n \in Listed(dmem) |-> dmem[n]],
   f2d |-> f2d, d2e |-> Filed(d2e), e2m |-> Filed(e2m), m2w |-> m2w,
   stallCtr |-> stallCtr, counts |-> Counts]

NoSnap == [cycle |-> 0]

(* snapshot::save. *)
Save ==
  /\ mode = "before" /\ mode' = "saved"
  /\ snap' = Snap
  /\ record' = [n \in {cycle} |-> Core]
  /\ UNCHANGED <<vars, resets, counters, lost>>

(* The memory is cleared before the cells of the file are written; the     *)
(* cell one past the array is not reached by either.                       *)
MixedMemory ==                         \* mutant: written over what is there
  [n \in DOMAIN snap.dmem \cup DOMAIN dmem |->
     IF n \in DOMAIN snap.dmem THEN snap.dmem[n] ELSE dmem[n]]

RestoredMemory ==
  [n \in DOMAIN snap.dmem \cup (DOMAIN dmem \cap {DMemSize}) |->
     IF n \in DOMAIN snap.dmem THEN snap.dmem[n] ELSE dmem[n]]

LpmInFlight(c) == c.d2e.ctl.mem = "lpm" \/ c.e2m.ctl.mem = "lpm"

(* snapshot::restore. *)
Restore ==
  /\ mode \in {"saved", "away"} /\ mode' = "replaying"
  /\ cycle' = snap.cycle /\ pc' = snap.pc
  /\ regs' = [r \in Reg |-> IF r = 0 THEN regs[0] ELSE snap.regs[r]]
  /\ hi' = snap.hi /\ lo' = snap.lo /\ sp' = snap.sp
  /\ epc' = snap.epc /\ eca' = snap.eca /\ ien' = snap.ien
  /\ f2d' = snap.f2d /\ d2e' = snap.d2e /\ e2m' = snap.e2m /\ m2w' = snap.m2w
  /\ stallCtr' = snap.stallCtr
  /\ dmem' = RestoredMemory
  /\ mix' = snap.counts.mix /\ stalls' = snap.counts.stalls /\ bubbles' = snap.counts.bubbles
  /\ fwdAlu' = snap.counts.fwdAlu /\ fwdMem' = snap.counts.fwdMem
  /\ retired' = snap.counts.retired
  /\ lost' = \/ LpmInFlight(record[snap.cycle])
             \/ intPin # record[snap.cycle].intPin
             \/ DMemSize \in DOMAIN dmem
  /\ UNCHANGED <<prog, zFlag, intPin, resets, snap, record>>

(* The run after the save, and the one after the load with the same pin.   *)
Record ==
  /\ mode # "replaying" /\ (mode = "away" => cycle < MaxDetour)
  /\ CountedClock
  /\ record' = IF mode = "saved"
               THEN [n \in DOMAIN record \cup {cycle'} |->
                       IF n = cycle' THEN Core' ELSE record[n]]
               ELSE record
  /\ UNCHANGED <<mode, snap, lost>>

Replay ==
  /\ mode = "replaying" /\ cycle + 1 \in DOMAIN record
  /\ CountedClock /\ intPin' = record[cycle'].intPin
  /\ lost' = (lost \/ (d2e.ctl.flow = "bz" /\ zFlag # record[cycle].zFlag))
  /\ UNCHANGED <<mode, snap, record>>

(* A reset, before the save or after it. *)
Detour ==
  /\ mode \in {"before", "saved", "away"} /\ CountedReset
  /\ mode' = IF mode = "before" THEN "before" ELSE "away"
  /\ UNCHANGED <<snap, record, lost>>

SnapInit == CInit /\ mode = "before" /\ snap = NoSnap /\ record = <<>> /\ lost = FALSE

SnapNext == Save \/ Restore \/ Record \/ Replay \/ Detour

-----------------------------------------------------------------------------
(* Properties. *)

SameMemory(a, b) == \A n \in DOMAIN a \cup DOMAIN b : DRead(a, n) = DRead(b, n)

(* The two cores agree in all that the file holds, the memory included.    *)
Agree(c, d) ==
  /\ [c EXCEPT !.zFlag = FALSE, !.dmem = <<>>] = [d EXCEPT !.zFlag = FALSE, !.dmem = <<>>]
  /\ SameMemory(c.dmem, d.dmem)

(* Whatever the session did between save and load, the restored core       *)
(* repeats the run clock by clock, in the latches as well as in the        *)
(* registers, until it uses a piece of state that is not in the file: a    *)
(* BZ that tests the Z register before an ALU instruction has set it, an   *)
(* LPM that was in flight, the level of the pin, the cell past the array.  *)
ReplayFollows ==
  mode = "replaying" /\ ~lost => Agree(Core, record[cycle])

(* The same without the excuse, for the registers and the memory.  README, *)
(* Snapshots: "Snapshots include all registers, pipeline registers, data   *)
(* memory (sparse, non-zero only), counters, and internal state."          *)
ReplayRepeats ==
  mode = "replaying" =>
    LET c == record[cycle]
    IN  /\ <<pc, regs, hi, lo, sp>> = <<c.pc, c.regs, c.hi, c.lo, c.sp>>
        /\ SameMemory(dmem, c.dmem)
=============================================================================
