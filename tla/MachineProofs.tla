--------------------------- MODULE MachineProofs ----------------------------
(***************************************************************************)
(* Proofs about a session with the machine, for every program file and any *)
(* number of clocks, resets, saves and loads: the counters account for the *)
(* time, a snapshot that is loaded runs on as the core did that it was     *)
(* taken of, relocated transfers reach their symbols, programs find their  *)
(* variables, and every value keeps its width.                             *)
(***************************************************************************)
EXTENDS Machine, PipelineProofs, WellFoundedInduction

-----------------------------------------------------------------------------
(* Counting. *)

(* The counters account for c clocks, with these latches. *)
Accounts(c, bub, ret, d, e, w) ==
  c = bub + ret + Count(~d.bubble) + Count(~e.bubble) + Count(~w.bubble)

(* Latches have the members that a reset and a save change. *)
IsLatch(l) == "bubble" \in DOMAIN l /\ "ctl" \in DOMAIN l

Latches(d, e, w) == IsLatch(d) /\ IsLatch(e) /\ IsLatch(w)

(* The file of a saved core accounts for its clocks as the core did. *)
SnapInv ==
  mode \in {"saved", "away"} =>
    /\ snap.cycle \in Nat /\ snap.counts.bubbles \in Nat /\ snap.counts.retired \in Nat
    /\ Latches(snap.d2e, snap.e2m, snap.m2w)
    /\ Accounts(snap.cycle, snap.counts.bubbles, snap.counts.retired,
                snap.d2e, snap.e2m, snap.m2w)

TimeInv ==
  /\ cycle \in Nat /\ bubbles \in Nat /\ retired \in Nat
  /\ Latches(d2e, e2m, m2w)
  /\ Accounts(cycle, bubbles, retired, d2e, e2m, m2w)
  /\ mode \in Modes
  /\ SnapInv

LEMMA CountType == \A b : Count(b) \in {0, 1}
BY DEF Count

(* What the file keeps of a latch. *)
LEMMA FiledLatch ==
  ASSUME NEW l, IsLatch(l)
  PROVE  IsLatch(Filed(l)) /\ Filed(l).bubble = l.bubble
BY DEF IsLatch, Filed

(* What a reset leaves of a latch. *)
LEMMA QuietedLatch ==
  ASSUME NEW l, IsLatch(l)
  PROVE  IsLatch(Quieted(l)) /\ Quieted(l).bubble = TRUE
BY DEF IsLatch, Quieted

(* The latches that a clock fills are records with all members. *)
LEMMA ClockedLatches ==
  ASSUME Clock
  PROVE  Latches(d2e', e2m', m2w')
<1>1. d2e' = Decoded(Stalled \/ LoadUse) /\ e2m' = Executed(d2e) /\ m2w' = Accessed(e2m)
  BY DEF Clock
<1>2. \A b : IsLatch(Decoded(b))
  BY Zenon DEF IsLatch, Decoded
<1>3. IsLatch(Executed(d2e))
  BY Zenon DEF IsLatch, Executed
<1>4. IsLatch(Accessed(e2m))
  BY Zenon DEF IsLatch, Accessed
<1> QED BY <1>1, <1>2, <1>3, <1>4 DEF Latches

(* A clock is spent on a bubble, which is counted, or on an instruction    *)
(* that enters EX; the one that leaves writeback is counted as retired.    *)
LEMMA ClockAccounts ==
  ASSUME CountedClock, cycle \in Nat, bubbles \in Nat, retired \in Nat,
         Accounts(cycle, bubbles, retired, d2e, e2m, m2w)
  PROVE  /\ cycle' \in Nat /\ bubbles' \in Nat /\ retired' \in Nat
         /\ Latches(d2e', e2m', m2w')
         /\ Accounts(cycle', bubbles', retired', d2e', e2m', m2w')
<1>1. Clock /\ cycle' = cycle + 1
  BY DEF CountedClock, Clock
<1>2. /\ d2e'.bubble = (Stalled \/ LoadUse)
      /\ e2m'.bubble = d2e.bubble /\ m2w'.bubble = e2m.bubble
  BY <1>1, ClockMovesControl
<1>3. /\ bubbles' = bubbles + Count(Stalled \/ LoadUse)
      /\ retired' = retired + Count(~m2w.bubble)
  BY DEF CountedClock
<1>4. Count(Stalled \/ LoadUse) + Count(~(Stalled \/ LoadUse)) = 1
  BY DEF Count
<1>5. /\ Count(~d2e'.bubble) = Count(~(Stalled \/ LoadUse))
      /\ Count(~e2m'.bubble) = Count(~d2e.bubble) /\ Count(~m2w'.bubble) = Count(~e2m.bubble)
  BY <1>2, Zenon
<1>6. Count(Stalled \/ LoadUse) \in {0, 1} /\ Count(~(Stalled \/ LoadUse)) \in {0, 1}
  BY CountType
<1>7. Count(~d2e.bubble) \in {0, 1} /\ Count(~e2m.bubble) \in {0, 1} /\ Count(~m2w.bubble) \in {0, 1}
  BY CountType
<1>8. cycle' = bubbles' + retired' + Count(~d2e'.bubble) + Count(~e2m'.bubble) + Count(~m2w'.bubble)
  BY <1>1, <1>3, <1>4, <1>5, <1>6, <1>7 DEF Accounts
<1>9. cycle' \in Nat /\ bubbles' \in Nat /\ retired' \in Nat
  BY <1>1, <1>3, <1>6, <1>7
<1> QED BY <1>1, <1>8, <1>9, ClockedLatches DEF Accounts

(* A reset empties the pipeline and the counters together. *)
LEMMA ResetAccounts ==
  ASSUME CountedReset, Latches(d2e, e2m, m2w)
  PROVE  /\ cycle' \in Nat /\ bubbles' \in Nat /\ retired' \in Nat
         /\ Latches(d2e', e2m', m2w')
         /\ Accounts(cycle', bubbles', retired', d2e', e2m', m2w')
<1>1. /\ cycle' = 0 /\ bubbles' = 0 /\ retired' = 0
      /\ d2e' = QuietedD2E /\ e2m' = Quieted(e2m) /\ m2w' = Quieted(m2w)
  BY DEF CountedReset, Reset
<1>2. /\ IsLatch(Quieted(d2e)) /\ IsLatch(Quieted(e2m)) /\ IsLatch(Quieted(m2w))
      /\ Quieted(d2e).bubble = TRUE /\ Quieted(e2m).bubble = TRUE /\ Quieted(m2w).bubble = TRUE
  BY QuietedLatch DEF Latches
<1>3. IsLatch(QuietedD2E) /\ QuietedD2E.bubble = TRUE
  BY <1>2 DEF QuietedD2E, IsLatch
<1>4. d2e'.bubble = TRUE /\ e2m'.bubble = TRUE /\ m2w'.bubble = TRUE
  BY <1>1, <1>2, <1>3
<1> QED BY <1>1, <1>2, <1>3, <1>4 DEF Latches, Accounts, Count
-----------------------------------------------------------------------------
(* The session. *)

(* A file that nobody writes still accounts for the clocks of the save.    *)
LEMMA FileKept ==
  ASSUME SnapInv, UNCHANGED snap, mode' \in {"saved", "away"} => mode \in {"saved", "away"}
  PROVE  SnapInv'
BY DEF SnapInv, Latches, IsLatch, Accounts

LEMMA TimeStarts == MachineInit => TimeInv
<1> SUFFICES ASSUME MachineInit PROVE TimeInv
  OBVIOUS
<1>1. /\ cycle = 0 /\ bubbles = 0 /\ retired = 0 /\ mode = "before"
      /\ d2e = EmptyD2E /\ e2m = EmptyE2M /\ m2w = EmptyM2W
  BY DEF MachineInit, SnapInit, CInit, SInit, Init
<1>2. IsLatch(EmptyD2E) /\ IsLatch(EmptyE2M) /\ IsLatch(EmptyM2W)
  BY Zenon DEF IsLatch, EmptyD2E, EmptyE2M, EmptyM2W
<1>3. EmptyD2E.bubble = TRUE /\ EmptyE2M.bubble = TRUE /\ EmptyM2W.bubble = TRUE
  BY Zenon DEF EmptyD2E, EmptyE2M, EmptyM2W
<1>4. Accounts(cycle, bubbles, retired, d2e, e2m, m2w)
  BY <1>1, <1>3 DEF Accounts, Count
<1> QED BY <1>1, <1>2, <1>4 DEF TimeInv, Latches, SnapInv, Modes

LEMMA SaveKeeps == TimeInv /\ Save => TimeInv'
<1> SUFFICES ASSUME TimeInv, Save PROVE TimeInv'
  OBVIOUS
<1>1. /\ mode' = "saved" /\ snap' = Snap
      /\ UNCHANGED <<cycle, bubbles, retired, d2e, e2m, m2w>>
  BY DEF Save, vars, latch, counters
<1>2. /\ snap'.cycle = cycle /\ snap'.counts.bubbles = bubbles
      /\ snap'.counts.retired = retired
      /\ snap'.d2e = Filed(d2e) /\ snap'.e2m = Filed(e2m) /\ snap'.m2w = m2w
  BY <1>1, Zenon DEF Snap, Counts
<1>3. /\ IsLatch(Filed(d2e)) /\ Filed(d2e).bubble = d2e.bubble
      /\ IsLatch(Filed(e2m)) /\ Filed(e2m).bubble = e2m.bubble
  BY FiledLatch DEF TimeInv, Latches
<1>4. SnapInv'
  BY <1>2, <1>3 DEF TimeInv, SnapInv, Latches, Accounts
<1> QED BY <1>1, <1>4 DEF TimeInv, Modes, Latches, IsLatch, Accounts

(* The counters come back from the file with the latches they belong to.   *)
LEMMA RestoreKeeps == TimeInv /\ Restore => TimeInv'
<1> SUFFICES ASSUME TimeInv, Restore PROVE TimeInv'
  OBVIOUS
<1>1. /\ cycle' = snap.cycle /\ bubbles' = snap.counts.bubbles
      /\ retired' = snap.counts.retired
      /\ d2e' = snap.d2e /\ e2m' = snap.e2m /\ m2w' = snap.m2w
      /\ mode \in {"saved", "away"} /\ mode' = "replaying"
  BY DEF Restore
<1>2. SnapInv'
  BY <1>1 DEF SnapInv
<1> QED BY <1>1, <1>2 DEF TimeInv, SnapInv, Modes, Latches, IsLatch, Accounts

LEMMA SessionKeeps == TimeInv /\ SnapNext => TimeInv'
<1> SUFFICES ASSUME TimeInv, SnapNext PROVE TimeInv'
  OBVIOUS
<1>1. CASE Record \/ Replay
  <2>1. CountedClock /\ UNCHANGED <<mode, snap>>
    BY <1>1 DEF Record, Replay
  <2>2. SnapInv'
    BY <2>1, FileKept DEF TimeInv
  <2>3. mode' \in Modes
    BY <2>1 DEF TimeInv
  <2> QED BY <2>1, <2>2, <2>3, ClockAccounts DEF TimeInv
<1>2. CASE Detour
  <2>1. /\ CountedReset /\ UNCHANGED snap /\ mode' \in Modes
        /\ mode' \in {"saved", "away"} => mode \in {"saved", "away"}
    BY <1>2 DEF Detour, Modes
  <2>2. SnapInv'
    BY <2>1, FileKept DEF TimeInv
  <2> QED BY <2>1, <2>2, ResetAccounts DEF TimeInv
<1> QED BY <1>1, <1>2, SaveKeeps, RestoreKeeps DEF SnapNext

LEMMA MachineKeeps == TimeInv /\ [MachineNext]_mvars => TimeInv'
<1> SUFFICES ASSUME TimeInv, [MachineNext]_mvars PROVE TimeInv'
  OBVIOUS
<1>1. CASE Load \/ UNCHANGED mvars
  <2>1. UNCHANGED <<cycle, bubbles, retired, d2e, e2m, m2w, mode, snap>>
    BY <1>1 DEF Load, LoadElf, LoadText, mvars, vars, latch, counters, session
  <2>2. SnapInv'
    BY <2>1, FileKept DEF TimeInv
  <2> QED BY <2>1, <2>2 DEF TimeInv, Latches, IsLatch, Accounts
<1>2. CASE Proceed
  BY <1>2, SessionKeeps DEF Proceed
<1> QED BY <1>1, <1>2 DEF MachineNext

(* Every clock since the last reset is in exactly one of the counters or   *)
(* in a latch, for every program file, also when the core was reset in     *)
(* mid-flight and when a snapshot replaced its counters and latches.       *)
THEOREM ClocksAccountedFor == MachineSpec => []TimeIsAccountedFor
<1>1. TimeInv => TimeIsAccountedFor
  <2>1. \A x, y, p, q, r \in Nat : x + y + p + q + r = x + y + (p + q + r)
    OBVIOUS
  <2>2. \A b : Count(b) \in Nat
    BY DEF Count
  <2> QED BY <2>1, <2>2 DEF TimeInv, Accounts, TimeIsAccountedFor, InFlight
<1> QED BY <1>1, TimeStarts, MachineKeeps, PTL DEF MachineSpec
-----------------------------------------------------------------------------
(* Two cores side by side: the core as it is, and a recorded one, c.       *)
Twin(p, c) == INSTANCE Statistics WITH
  cycle <- 0, prog <- p, pc <- c.pc, regs <- c.regs, hi <- c.hi, lo <- c.lo, sp <- c.sp,
  zFlag <- c.zFlag, epc <- c.epc, eca <- c.eca, ien <- c.ien, intPin <- c.intPin,
  dmem <- c.dmem, f2d <- c.f2d, d2e <- c.d2e, e2m <- c.e2m, m2w <- c.m2w,
  stallCtr <- c.stallCtr, resets <- 0,
  mix <- c.counts.mix, stalls <- c.counts.stalls, bubbles <- c.counts.bubbles,
  fwdAlu <- c.counts.fwdAlu, fwdMem <- c.counts.fwdMem, retired <- c.counts.retired

(* What the two must have in common for the same to happen next.           *)
Matches(c) ==
  /\ c.pc = pc /\ c.regs = regs /\ c.hi = hi /\ c.lo = lo /\ c.sp = sp
  /\ c.epc = epc /\ c.eca = eca /\ c.ien = ien /\ c.intPin = intPin
  /\ c.f2d = f2d /\ c.d2e = d2e /\ c.e2m = e2m /\ c.m2w = m2w /\ c.stallCtr = stallCtr
  /\ c.counts = Counts
  /\ SameMemory(c.dmem, dmem)

(* Cells outside both domains are the same anyway. *)
LEMMA SameEverywhere ==
  ASSUME NEW a, NEW b
  PROVE  SameMemory(a, b) <=> \A n : DRead(a, n) = DRead(b, n)
BY DEF SameMemory, DRead

(* The twin has the instruction set of the core: its operators, from the   *)
(* fields of an instruction to the ALU and the memories, are the same.     *)
LEMMA SameFields ==
  ASSUME NEW p, NEW c
  PROVE  \A i : /\ Twin(p, c)!Byte(i) = Byte(i) /\ Twin(p, c)!Address(i) = Address(i)
                /\ Twin(p, c)!ToWord(i) = ToWord(i)
BY DEF Twin!Byte, Byte, Twin!Address, Address, Twin!ToWord, ToWord

LEMMA SameClasses ==
  ASSUME NEW p, NEW c
  PROVE  \A i, m : /\ Twin(p, c)!IsM1(i, m) <=> IsM1(i, m)
                   /\ Twin(p, c)!IsM4(i, m) <=> IsM4(i, m)
                   /\ Twin(p, c)!IsStack(i, m) <=> IsStack(i, m)
BY DEF Twin!IsM1, Twin!IsM4, Twin!IsStack, IsM1, IsM4, IsStack, Twin!OP_M1, OP_M1,
       Twin!OP_STACK, OP_STACK, Twin!M4, M4

LEMMA SameRegisters ==
  ASSUME NEW p, NEW c
  PROVE  \A i : /\ Twin(p, c)!RegA(i) = RegA(i) /\ Twin(p, c)!RegB(i) = RegB(i)
BY SameClasses
DEF Twin!RegA, Twin!RegB, Twin!RegInFunc, RegA, RegB, RegInFunc, Twin!OP_M1, OP_M1,
    Twin!M4, M4, Twin!MFHI, Twin!MFLO, Twin!MTHI, Twin!MTLO, Twin!LPM, Twin!MFEPC,
    Twin!MFECA, Twin!MTEPC, MFHI, MFLO, MTHI, MTLO, LPM, MFEPC, MFECA, MTEPC

LEMMA SameCtl == ASSUME NEW p, NEW c, NEW i PROVE Twin(p, c)!Ctl(i) = Ctl(i)
BY SameClasses
DEF Twin!Ctl, Ctl, Twin!RegCtl, RegCtl, Twin!AluCtl, AluCtl, Twin!MemCtl, MemCtl,
    Twin!SpCtl, SpCtl, Twin!HiCtl, HiCtl, Twin!LoCtl, LoCtl, Twin!ExcCtl, ExcCtl,
    Twin!FlowCtl, FlowCtl, Twin!WritesReg, WritesReg, Twin!OP_R, Twin!OP_S, Twin!OP_SW,
    Twin!OP_LW, Twin!OP_LIU, Twin!OP_LIL, Twin!OP_BHLEQ, Twin!OP_BZ, Twin!OP_BZ_T,
    Twin!OP_BZ_N, Twin!OP_ADDI, Twin!OP_JR, Twin!OP_JAL, Twin!OP_J, Twin!F_MUL,
    Twin!PUSH, Twin!POP, Twin!SPRD, Twin!SPWR, Twin!LHL, Twin!LHH, Twin!LLL, Twin!LLH,
    Twin!AIS, Twin!AIH, Twin!AIL, Twin!MFHI, Twin!MFLO, Twin!MTHI, Twin!MTLO,
    Twin!SYSCALL, Twin!LPM, Twin!RETI, Twin!MFEPC, Twin!MFECA, Twin!MTEPC, OP_R, OP_S,
    OP_SW, OP_LW, OP_LIU, OP_LIL, OP_BHLEQ, OP_BZ, OP_BZ_T, OP_BZ_N, OP_ADDI, OP_JR,
    OP_JAL, OP_J, F_MUL, PUSH, POP, SPRD, SPWR, LHL, LHH, LLL, LLH, AIS, AIH, AIL, MFHI,
    MFLO, MTHI, MTLO, SYSCALL, LPM, RETI, MFEPC, MFECA, MTEPC

LEMMA SameAnd == ASSUME NEW p, NEW c PROVE \A x, y : Twin(p, c)!And16(x, y) = And16(x, y)
BY DEF Twin!And16, And16, Twin!Bit, Bit, Twin!Two, Two, Twin!Pow2, Pow2

LEMMA SameAlu ==
  ASSUME NEW p, NEW c, NEW ctl, NEW f, NEW s, NEW x, NEW y
  PROVE  Twin(p, c)!Operate(ctl, f, s, x, y) = Operate(ctl, f, s, x, y)
<1>1. Twin(p, c)!AluR(f, x, y) = AluR(f, x, y)
  BY SameAnd
  DEF Twin!AluR, AluR, Twin!Or16, Or16, Twin!Nor16, Nor16, Twin!Xor16, Xor16,
      Twin!Signed, Signed, Twin!MulLow, MulLow, Twin!WordSize, WordSize, Twin!F_SUB,
      Twin!F_AND, Twin!F_OR, Twin!F_NOR, Twin!F_XOR, Twin!F_SLT, Twin!F_SGT,
      Twin!F_MUL, F_SUB, F_AND, F_OR, F_NOR, F_XOR, F_SLT, F_SGT, F_MUL
<1>2. Twin(p, c)!AluS(f, x, s) = AluS(f, x, s)
  BY DEF Twin!AluS, AluS, Twin!Two, Two, Twin!Pow2, Pow2, Twin!Signed, Signed,
      Twin!WordSize, WordSize, Twin!F_SAR, Twin!F_SHR, Twin!F_SHL, Twin!F_ROR,
      Twin!F_ROL, F_SAR, F_SHR, F_SHL, F_ROR, F_ROL
<1>3. Twin(p, c)!AluValue(ctl, f, s, x, y) = AluValue(ctl, f, s, x, y)
  BY <1>1, <1>2 DEF Twin!AluValue, AluValue
<1>4. Twin(p, c)!MulHigh(x, y) = MulHigh(x, y)
  BY DEF Twin!MulHigh, MulHigh, Twin!WordSize, WordSize
<1> QED BY <1>3, <1>4
DEF Twin!Operate, Operate, Twin!WordSize, WordSize, Twin!F_MUL, F_MUL

LEMMA SameMemories ==
  ASSUME NEW p, NEW c
  PROVE  /\ \A n : Twin(p, c)!FetchWord(p, n) = FetchWord(p, n)
         /\ \A m, n : Twin(p, c)!DRead(m, n) = DRead(m, n)
         /\ \A m, n, v : Twin(p, c)!DWrite(m, n, v) = DWrite(m, n, v)
         /\ \A m, n : Twin(p, c)!RRead(m, n) = RRead(m, n)
         /\ \A m, n, v : Twin(p, c)!RWrite(m, n, v) = RWrite(m, n, v)
BY DEF Twin!FetchWord, FetchWord, Twin!IMemSize, IMemSize, Twin!ZeroWord, ZeroWord,
    Twin!NOP, NOP, Twin!OP_R, OP_R, Twin!F_AND, F_AND, Twin!F_OR, F_OR, Twin!DRead,
    DRead, Twin!DWrite, DWrite, Twin!DMemSize, DMemSize, Twin!RRead, RRead, Twin!RWrite,
    RWrite

(* A recorded core that matches computes what the core computes, stage by  *)
(* stage; only the test of a BZ needs the Z register as well.              *)
LEMMA SameForwards ==
  ASSUME NEW c, Matches(c)
  PROVE  /\ \A l, m : Twin(prog, c)!WriteValue(l, m) = WriteValue(l, m)
         /\ \A r : /\ Twin(prog, c)!FwdFromEX(r) <=> FwdFromEX(r)
                   /\ Twin(prog, c)!FwdFromMEM(r) <=> FwdFromMEM(r)
                   /\ Twin(prog, c)!Forwarded(r) = Forwarded(r)
<1>1. \A l, m : Twin(prog, c)!WriteValue(l, m) = WriteValue(l, m)
  BY SameFields DEF Twin!WriteValue, WriteValue, Twin!WordSize, WordSize
<1>2. \A r : /\ Twin(prog, c)!FwdFromEX(r) <=> FwdFromEX(r)
             /\ Twin(prog, c)!FwdFromMEM(r) <=> FwdFromMEM(r)
  BY DEF Matches, Twin!FwdFromEX, FwdFromEX, Twin!FwdFromMEM, FwdFromMEM
<1>3. /\ Twin(prog, c)!FwdValFromEX = FwdValFromEX
      /\ Twin(prog, c)!FwdValFromMEM = FwdValFromMEM
  BY <1>1
  DEF Matches, Twin!FwdValFromEX, FwdValFromEX, Twin!FwdValFromMEM, FwdValFromMEM
<1>4. \A r : Twin(prog, c)!RRead(c.regs, r) = RRead(regs, r)
  BY SameMemories DEF Matches
<1>5. \A r : Twin(prog, c)!Forwarded(r) = Forwarded(r)
  BY <1>2, <1>3, <1>4 DEF Twin!Forwarded, Forwarded
<1> QED BY <1>1, <1>2, <1>5

LEMMA SameStack ==
  ASSUME NEW c, Matches(c)
  PROVE  /\ Twin(prog, c)!ForwardedSP = ForwardedSP
         /\ \A l : Twin(prog, c)!SPAdder(l) = SPAdder(l)
         /\ \A k : Twin(prog, c)!WritesSP(k) <=> WritesSP(k)
<1>1. \A l : Twin(prog, c)!SPAdder(l) = SPAdder(l)
  BY DEF Twin!SPAdder, SPAdder, Twin!WordSize, WordSize
<1>2. \A k : Twin(prog, c)!WritesSP(k) <=> WritesSP(k)
  BY DEF Twin!WritesSP, WritesSP
<1> QED BY <1>1, <1>2 DEF Matches, Twin!ForwardedSP, ForwardedSP

LEMMA SameStalls ==
  ASSUME NEW c, Matches(c)
  PROVE  /\ Twin(prog, c)!Stalled <=> Stalled
         /\ Twin(prog, c)!LoadUse <=> LoadUse
         /\ Twin(prog, c)!StallsLeft = StallsLeft
<1>1. \A i : Twin(prog, c)!Sources(i) = Sources(i)
  BY SameClasses, SameRegisters
  DEF Twin!Sources, Sources, Twin!ReadsA, ReadsA, Twin!ReadsB, ReadsB, Twin!Reg, Reg,
      Twin!OP_R, OP_R, Twin!OP_S, OP_S, Twin!OP_LIL, OP_LIL, Twin!OP_LIU, OP_LIU,
      Twin!OP_SW, OP_SW, Twin!OP_JR, OP_JR, Twin!OP_ADDI, OP_ADDI, Twin!OP_LW, OP_LW,
      Twin!OP_STACK, OP_STACK, Twin!PUSH, PUSH, Twin!SPWR, SPWR, Twin!MTHI, MTHI,
      Twin!MTLO, MTLO, Twin!MTEPC, MTEPC, Twin!LPM, LPM
<1>2. Twin(prog, c)!ZeroGapHazard <=> ZeroGapHazard
  BY <1>1
  DEF Matches, Twin!ZeroGapHazard, ZeroGapHazard, Twin!Dest, Dest, Twin!LinkReg,
      LinkReg
<1>3. Twin(prog, c)!EpcHazard <=> EpcHazard
  BY SameClasses
  DEF Matches, Twin!EpcHazard, EpcHazard, Twin!RETI, RETI, Twin!MFEPC, MFEPC
<1>4. Twin(prog, c)!LoadUse <=> LoadUse
  BY SameForwards, SameRegisters DEF Matches, Twin!LoadUse, LoadUse
<1>5. Twin(prog, c)!Stalled <=> Stalled
  BY <1>2, <1>3 DEF Matches, Twin!Stalled, Stalled
<1>6. Twin(prog, c)!StallsLeft = StallsLeft
  BY <1>4 DEF Matches, Twin!StallsLeft, StallsLeft
<1> QED BY <1>4, <1>5, <1>6

LEMMA SameExceptions ==
  ASSUME NEW c, Matches(c)
  PROVE  /\ Twin(prog, c)!IntTaken <=> IntTaken
         /\ Twin(prog, c)!SyscallTaken <=> SyscallTaken
         /\ Twin(prog, c)!EpcFetched = EpcFetched
         /\ Twin(prog, c)!EcaFetched = EcaFetched
         /\ Twin(prog, c)!IenDecoded = IenDecoded
<1>1. /\ Twin(prog, c)!IntTaken <=> IntTaken
      /\ Twin(prog, c)!SyscallTaken <=> SyscallTaken
  BY SameStalls DEF Matches, Twin!IntTaken, IntTaken, Twin!SyscallTaken, SyscallTaken
<1>2. Twin(prog, c)!EpcFetched = EpcFetched /\ Twin(prog, c)!EcaFetched = EcaFetched
  BY <1>1, SameFields
  DEF Matches, Twin!EpcFetched, EpcFetched, Twin!EcaFetched, EcaFetched,
      Twin!WordSize, WordSize
<1>3. Twin(prog, c)!IenFetched = IenFetched
  BY <1>1, SameStalls DEF Matches, Twin!IenFetched, IenFetched
<1>4. Twin(prog, c)!IenDecoded = IenDecoded
  <2>1. /\ Twin(prog, c)!IsM4(c.f2d.ireg, Twin(prog, c)!EI) <=> IsM4(f2d.ireg, EI)
        /\ Twin(prog, c)!IsM4(c.f2d.ireg, Twin(prog, c)!DI) <=> IsM4(f2d.ireg, DI)
    BY SameClasses DEF Matches, Twin!EI, EI, Twin!DI, DI
  <2>2. CASE IsM4(f2d.ireg, EI)
    <3>1. ~IsM4(f2d.ireg, DI)
      BY <2>2 DEF IsM4, EI, DI
    <3> QED BY <2>1, <2>2, <3>1 DEF Twin!IenDecoded, IenDecoded
  <2>3. CASE IsM4(f2d.ireg, DI) /\ ~IsM4(f2d.ireg, EI)
    BY <2>1, <2>3 DEF Twin!IenDecoded, IenDecoded
  <2>4. CASE ~IsM4(f2d.ireg, EI) /\ ~IsM4(f2d.ireg, DI)
    BY <1>3, <2>1, <2>4 DEF Twin!IenDecoded, IenDecoded
  <2> QED BY <2>2, <2>3, <2>4
<1> QED BY <1>1, <1>2, <1>4

LEMMA SameFetch ==
  ASSUME NEW c, Matches(c), d2e.ctl.flow = "bz" => c.zFlag = zFlag
  PROVE  Twin(prog, c)!FetchPC = FetchPC
<1>1. Twin(prog, c)!BranchTaken <=> BranchTaken
  BY DEF Matches, Twin!BranchTaken, BranchTaken, Twin!OP_BZ_N, OP_BZ_N
<1> QED BY <1>1, SameExceptions, SameFields
DEF Matches, Twin!FetchPC, FetchPC, Twin!EXC_VECTOR, EXC_VECTOR, Twin!SignExt12,
    SignExt12

LEMMA SameDecode ==
  ASSUME NEW c, Matches(c), NEW b
  PROVE  Twin(prog, c)!Decoded(b) = Decoded(b)
<1>1. \A i, k : Twin(prog, c)!JumpDest(i, k) = JumpDest(i, k)
  BY SameForwards, SameRegisters, SameExceptions, SameFields
  DEF Matches, Twin!JumpDest, JumpDest, Twin!SignExt12, SignExt12
<1>2. \A k : Twin(prog, c)!HandedCtl(b, k) = HandedCtl(b, k)
  BY DEF Twin!HandedCtl, HandedCtl, Twin!NopCtl, NopCtl
<1>3. \A r : Twin(prog, c)!RRead(c.regs, r) = RRead(regs, r)
  BY SameMemories DEF Matches
<1> QED BY <1>1, <1>2, <1>3, SameForwards, SameRegisters, SameCtl, SameStack
        DEF Matches, Twin!Decoded, Decoded

LEMMA SameExecute ==
  ASSUME NEW c, Matches(c)
  PROVE  Twin(prog, c)!Executed(d2e) = Executed(d2e)
<1>1. Twin(prog, c)!OperandA(d2e) = OperandA(d2e)
  BY SameExceptions, SameClasses DEF Twin!OperandA, OperandA, Twin!LPM, LPM
<1>2. Twin(prog, c)!OperandB(d2e) = OperandB(d2e)
  BY SameFields
  DEF Twin!OperandB, OperandB, Twin!OP_ADDI, OP_ADDI, Twin!SignExt8, SignExt8
<1>3. Twin(prog, c)!AluFunc(d2e.ireg, d2e.ctl) = AluFunc(d2e.ireg, d2e.ctl)
  BY DEF Twin!AluFunc, AluFunc, Twin!OP_ADDI, OP_ADDI, Twin!F_ADD, F_ADD
<1>4. Twin(prog, c)!AluOut(d2e) = AluOut(d2e)
  BY <1>1, <1>2, <1>3, SameAlu DEF Twin!AluOut, AluOut
<1>5. Twin(prog, c)!CarriesOpA(d2e.ctl) <=> CarriesOpA(d2e.ctl)
  BY DEF Twin!CarriesOpA, CarriesOpA
<1> QED BY <1>4, <1>5, SameStack DEF Twin!Executed, Executed

LEMMA SameAccess ==
  ASSUME NEW c, Matches(c)
  PROVE  /\ Twin(prog, c)!Accessed(e2m) = Accessed(e2m)
         /\ SameMemory(Twin(prog, c)!Stored(e2m), Stored(e2m))
         /\ c.dmem = dmem => Twin(prog, c)!Stored(e2m) = Stored(e2m)
<1>1. Twin(prog, c)!MemAddr(e2m) = MemAddr(e2m)
  BY DEF Twin!MemAddr, MemAddr
<1>2. \A n : Twin(prog, c)!DRead(c.dmem, n) = DRead(dmem, n)
  BY SameMemories, SameEverywhere DEF Matches
<1>3. Twin(prog, c)!Loaded(e2m) = Loaded(e2m)
  BY <1>1, <1>2, SameMemories, SameFields DEF Twin!Loaded, Loaded
<1>4. \A a, v : SameMemory(DWrite(c.dmem, a, v), DWrite(dmem, a, v))
  BY DEF Matches, SameMemory, DRead, DWrite
<1>5. Twin(prog, c)!Stored(e2m) = IF e2m.ctl.mem = "write"
                               THEN DWrite(c.dmem, MemAddr(e2m), e2m.regaOut) ELSE c.dmem
  BY <1>1, SameMemories DEF Twin!Stored
<1> QED BY <1>3, <1>4, <1>5 DEF Twin!Accessed, Accessed, Stored, Matches

LEMMA SameWriteback ==
  ASSUME NEW c, Matches(c)
  PROVE  /\ Twin(prog, c)!WrittenRegs(m2w) = WrittenRegs(m2w)
         /\ Twin(prog, c)!WrittenSP(m2w) = WrittenSP(m2w)
         /\ Twin(prog, c)!WrittenHi(m2w) = WrittenHi(m2w)
         /\ Twin(prog, c)!WrittenLo(m2w) = WrittenLo(m2w)
<1>1. Twin(prog, c)!WrittenRegs(m2w) = WrittenRegs(m2w)
  BY SameMemories, SameForwards
  DEF Matches, Twin!WrittenRegs, WrittenRegs, Twin!Dest, Dest, Twin!LinkReg, LinkReg
<1>2. Twin(prog, c)!WrittenSP(m2w) = WrittenSP(m2w)
  BY SameStack DEF Matches, Twin!WrittenSP, WrittenSP
<1>3. \A op, live, half :
        Twin(prog, c)!HalfWritten(op, live, half, m2w) = HalfWritten(op, live, half, m2w)
  BY SameFields DEF Twin!HalfWritten, HalfWritten, Twin!WordSize, WordSize
<1>4. Twin(prog, c)!WrittenHi(m2w) = WrittenHi(m2w)
  BY <1>3, SameFields DEF Matches, Twin!WrittenHi, WrittenHi, Twin!WordSize, WordSize
<1>5. Twin(prog, c)!WrittenLo(m2w) = WrittenLo(m2w)
  BY <1>3, SameFields DEF Matches, Twin!WrittenLo, WrittenLo, Twin!WordSize, WordSize
<1> QED BY <1>1, <1>2, <1>4, <1>5

LEMMA SameCounting ==
  ASSUME NEW c, Matches(c)
  PROVE  /\ Twin(prog, c)!StallsCounted = StallsCounted
         /\ Twin(prog, c)!AluForwards = AluForwards
         /\ Twin(prog, c)!MemForwards = MemForwards
BY SameStalls, SameForwards, SameRegisters
DEF Matches, Twin!StallsCounted, StallsCounted, Twin!AluForwards, AluForwards,
    Twin!MemForwards, MemForwards, Twin!Count, Count
-----------------------------------------------------------------------------
(* d is what a clock makes of the recorded core c, but for the Z register  *)
(* and the pin.                                                            *)
Follows(p, c, d) ==
  /\ d.pc  = IF Twin(p, c)!Stalled THEN c.pc ELSE Twin(p, c)!FetchPC + 1
  /\ d.f2d = IF Twin(p, c)!Stalled THEN c.f2d
             ELSE [ireg |-> FetchWord(p, Twin(p, c)!FetchPC), pc |-> Twin(p, c)!FetchPC]
  /\ d.d2e = Twin(p, c)!Decoded(Twin(p, c)!Stalled \/ Twin(p, c)!LoadUse)
  /\ d.e2m = Twin(p, c)!Executed(c.d2e)
  /\ d.m2w = Twin(p, c)!Accessed(c.e2m)
  /\ d.dmem = Twin(p, c)!Stored(c.e2m)
  /\ d.regs = Twin(p, c)!WrittenRegs(c.m2w) /\ d.sp = Twin(p, c)!WrittenSP(c.m2w)
  /\ d.hi = Twin(p, c)!WrittenHi(c.m2w) /\ d.lo = Twin(p, c)!WrittenLo(c.m2w)
  /\ d.epc = IF c.m2w.ctl.exc = "mtepc" THEN c.m2w.alu.value ELSE Twin(p, c)!EpcFetched
  /\ d.eca = Twin(p, c)!EcaFetched /\ d.ien = Twin(p, c)!IenDecoded
  /\ d.stallCtr = Twin(p, c)!StallsLeft
  /\ d.counts = [mix |-> [c.counts.mix EXCEPT ![c.f2d.ireg.op] = @ + 1],
                 stalls  |-> c.counts.stalls + Twin(p, c)!StallsCounted,
                 bubbles |-> c.counts.bubbles
                               + Count(Twin(p, c)!Stalled \/ Twin(p, c)!LoadUse),
                 fwdAlu  |-> c.counts.fwdAlu + Twin(p, c)!AluForwards,
                 fwdMem  |-> c.counts.fwdMem + Twin(p, c)!MemForwards,
                 retired |-> c.counts.retired + Count(~c.m2w.bubble)]

SameTest(c) == d2e.ctl.flow = "bz" => c.zFlag = zFlag

(* What the clock in progress makes of the core, said of a recorded one    *)
(* that matches it.                                                        *)
LEMMA OneClock ==
  ASSUME NEW c, NEW d, Matches(c), SameTest(c), CountedClock
  PROVE  Follows(prog, c, d) <=>
           /\ d.pc = pc' /\ d.regs = regs' /\ d.hi = hi' /\ d.lo = lo' /\ d.sp = sp'
           /\ d.epc = epc' /\ d.eca = eca' /\ d.ien = ien'
           /\ d.f2d = f2d' /\ d.d2e = d2e' /\ d.e2m = e2m' /\ d.m2w = m2w'
           /\ d.stallCtr = stallCtr' /\ d.counts = Counts'
           /\ d.dmem = Twin(prog, c)!Stored(c.e2m)
<1>1. /\ pc' = IF Stalled THEN pc ELSE FetchPC + 1
      /\ f2d' = IF Stalled THEN f2d ELSE [ireg |-> FetchWord(prog, FetchPC), pc |-> FetchPC]
      /\ d2e' = Decoded(Stalled \/ LoadUse) /\ e2m' = Executed(d2e) /\ m2w' = Accessed(e2m)
      /\ regs' = WrittenRegs(m2w) /\ sp' = WrittenSP(m2w)
      /\ hi' = WrittenHi(m2w) /\ lo' = WrittenLo(m2w)
      /\ epc' = IF m2w.ctl.exc = "mtepc" THEN m2w.alu.value ELSE EpcFetched
      /\ eca' = EcaFetched /\ ien' = IenDecoded /\ stallCtr' = StallsLeft
  BY DEF CountedClock, Clock
<1>2. Counts' = [mix |-> [mix EXCEPT ![f2d.ireg.op] = @ + 1],
                 stalls  |-> stalls + StallsCounted,
                 bubbles |-> bubbles + Count(Stalled \/ LoadUse),
                 fwdAlu  |-> fwdAlu + AluForwards,
                 fwdMem  |-> fwdMem + MemForwards,
                 retired |-> retired + Count(~m2w.bubble)]
  BY DEF CountedClock, Counts
<1>3. /\ Twin(prog, c)!FetchPC = FetchPC
      /\ Twin(prog, c)!Stalled <=> Stalled
      /\ Twin(prog, c)!LoadUse <=> LoadUse
      /\ Twin(prog, c)!StallsLeft = StallsLeft
  BY SameFetch, SameStalls DEF SameTest
<1>4. \A b \in BOOLEAN : Twin(prog, c)!Decoded(b) = Decoded(b)
  BY SameDecode
<1>5. /\ c.pc = pc /\ c.f2d = f2d /\ c.d2e = d2e /\ c.e2m = e2m /\ c.m2w = m2w
      /\ c.counts.mix = mix /\ c.counts.stalls = stalls /\ c.counts.bubbles = bubbles
      /\ c.counts.fwdAlu = fwdAlu /\ c.counts.fwdMem = fwdMem
      /\ c.counts.retired = retired
  BY DEF Matches, Counts
<1>6. /\ Twin(prog, c)!Decoded(Twin(prog, c)!Stalled \/ Twin(prog, c)!LoadUse)
           = Decoded(Stalled \/ LoadUse)
      /\ Count(Twin(prog, c)!Stalled \/ Twin(prog, c)!LoadUse) = Count(Stalled \/ LoadUse)
  BY <1>3, <1>4 DEF Count
<1>7. /\ Twin(prog, c)!Executed(c.d2e) = Executed(d2e)
      /\ Twin(prog, c)!Accessed(c.e2m) = Accessed(e2m)
  BY <1>5, SameExecute, SameAccess
<1>8. /\ Twin(prog, c)!WrittenRegs(c.m2w) = WrittenRegs(m2w)
      /\ Twin(prog, c)!WrittenSP(c.m2w) = WrittenSP(m2w)
      /\ Twin(prog, c)!WrittenHi(c.m2w) = WrittenHi(m2w)
      /\ Twin(prog, c)!WrittenLo(c.m2w) = WrittenLo(m2w)
  BY <1>5, SameWriteback
<1> QED
  BY <1>1, <1>2, <1>3, <1>5, <1>6, <1>7, <1>8, SameExceptions, SameCounting DEF Follows

(* A clock of the core is recorded as one. *)
LEMMA CoreMatches == Matches(Core) /\ SameTest(Core) /\ Core.dmem = dmem
BY DEF Core, Matches, SameTest, SameMemory

LEMMA ClockIsRecorded ==
  ASSUME CountedClock
  PROVE  Follows(prog, Core, Core')
<1>1. Core.e2m = e2m
  BY DEF Core
<1>2. dmem' = Twin(prog, Core)!Stored(Core.e2m)
  BY <1>1, CoreMatches, SameAccess DEF CountedClock, Clock
<1>3. /\ Core'.pc = pc' /\ Core'.regs = regs' /\ Core'.hi = hi' /\ Core'.lo = lo'
      /\ Core'.sp = sp' /\ Core'.epc = epc' /\ Core'.eca = eca' /\ Core'.ien = ien'
      /\ Core'.f2d = f2d' /\ Core'.d2e = d2e' /\ Core'.e2m = e2m' /\ Core'.m2w = m2w'
      /\ Core'.stallCtr = stallCtr' /\ Core'.counts = Counts' /\ Core'.dmem = dmem'
  BY DEF Core
<1> HIDE DEF Core
<1> QED BY <1>2, <1>3, CoreMatches, OneClock

(* A core that matches a recorded one and is clocked with the same pin     *)
(* matches what was recorded next.                                         *)
LEMMA ClockRepeats ==
  ASSUME NEW c, NEW d, Matches(c), SameTest(c), CountedClock,
         Follows(prog, c, d), d.intPin = intPin'
  PROVE  Matches(d)'
<1>1. SameMemory(d.dmem, dmem')
  <2>1. c.e2m = e2m /\ dmem' = Stored(e2m)
    BY DEF Matches, CountedClock, Clock
  <2>2. d.dmem = Twin(prog, c)!Stored(e2m)
    BY <2>1, OneClock
  <2> QED BY <2>1, <2>2, SameAccess
<1> QED BY <1>1, OneClock DEF Matches, SameMemory
-----------------------------------------------------------------------------
(* The invariant. *)

IsCore(d) ==
  d = [pc |-> d.pc, regs |-> d.regs, hi |-> d.hi, lo |-> d.lo, sp |-> d.sp,
       zFlag |-> d.zFlag, epc |-> d.epc, eca |-> d.eca, ien |-> d.ien,
       intPin |-> d.intPin, dmem |-> d.dmem, f2d |-> d.f2d, d2e |-> d.d2e,
       e2m |-> d.e2m, m2w |-> d.m2w, stallCtr |-> d.stallCtr, counts |-> d.counts]

(* A bank of registers, with the 0 that is never written.                  *)
IsBank(b) == b = [r \in Reg |-> b[r]] /\ b[0] = 0

(* A record with member m; a latch with all its members, whose controls    *)
(* are a record too.                                                       *)
IsRecord(k, m) == m \in DOMAIN k /\ [k EXCEPT ![m] = k[m]] = k

IsWhole(l) == IsRecord(l, "ctl") /\ IsRecord(l.ctl, "mem")

IsCounts(k) ==
  k = [mix |-> k.mix, stalls |-> k.stalls, bubbles |-> k.bubbles,
       fwdAlu |-> k.fwdAlu, fwdMem |-> k.fwdMem, retired |-> k.retired]

(* The run after the save, clock by clock.                                 *)
RunRecorded ==
  /\ \A n \in DOMAIN record : IsCore(record[n])
  /\ \A n \in DOMAIN record : n + 1 \in DOMAIN record => Follows(prog, record[n], record[n + 1])

RunGoesOn ==
  /\ cycle \in DOMAIN record /\ record[cycle] = Core
  /\ \A n \in DOMAIN record : n \in 0 .. cycle

(* What is on file is what the core was.                                   *)
Keeps(s, b) ==
  /\ s.pc = b.pc /\ s.hi = b.hi /\ s.lo = b.lo /\ s.sp = b.sp
  /\ s.epc = b.epc /\ s.eca = b.eca /\ s.ien = b.ien
  /\ s.f2d = b.f2d /\ s.m2w = b.m2w /\ s.stallCtr = b.stallCtr
  /\ s.counts = b.counts /\ IsCounts(b.counts)
  /\ s.d2e = Filed(b.d2e) /\ IsWhole(b.d2e) /\ s.e2m = Filed(b.e2m) /\ IsWhole(b.e2m)
  /\ s.regs = [r \in Reg |-> RRead(b.regs, r)] /\ IsBank(b.regs)
  /\ s.dmem = [n \in Listed(b.dmem) |-> b.dmem[n]]

(* The cell past the array is there to stay. *)
OnFile ==
  /\ snap.cycle \in DOMAIN record /\ Keeps(snap, record[snap.cycle])
  /\ DMemSize \in DOMAIN record[snap.cycle].dmem => DMemSize \in DOMAIN dmem

SessionInv ==
  /\ mode \in Modes /\ (phase # "loaded" => mode = "before")
  /\ mode # "replaying" => cycle \in Nat /\ IsBank(regs)
  /\ mode = "before" => IsWhole(d2e) /\ IsWhole(e2m)
  /\ mode # "before" => RunRecorded
  /\ mode = "saved" => RunGoesOn
  /\ mode \in {"saved", "away"} => OnFile
  /\ mode = "replaying" /\ ~lost => cycle \in DOMAIN record /\ Matches(record[cycle])

-----------------------------------------------------------------------------
(* What a clock, a reset and a save do to the parts of a core.             *)

(* Register 0 keeps its 0 and the latches their members.                   *)
LEMMA BankWritten ==
  ASSUME NEW b, IsBank(b), NEW r, NEW v
  PROVE  IsBank(RWrite(b, r, v))
BY DEF IsBank, RWrite, Reg

LEMMA BankClocked ==
  ASSUME IsBank(regs), Clock
  PROVE  IsBank(regs')
BY BankWritten DEF Clock, WrittenRegs

LEMMA BankReset == Reset => IsBank(regs')
BY DEF Reset, IsBank, Reg

LEMMA CoreIsCore == IsCore(Core)
BY DEF IsCore, Core

(* A latch with no LPM in it is filed as it is.                            *)
LEMMA FiledAsItIs ==
  ASSUME NEW l, IsWhole(l), l.ctl.mem # "lpm"
  PROVE  Filed(l) = l
BY DEF IsWhole, IsRecord, Filed

LEMMA WholeDecoded == ASSUME NEW b PROVE IsWhole(Decoded(b))
<1>1. IsRecord(Ctl(f2d.ireg), "mem")
  BY DEF IsRecord, Ctl
<1>2. IsRecord(NopCtl, "mem")
  BY DEF IsRecord, NopCtl
<1>3. Decoded(b).ctl = HandedCtl(b, Ctl(f2d.ireg))
  BY DEF Decoded
<1>4. IsRecord(Decoded(b), "ctl")
  BY DEF IsRecord, Decoded
<1> QED BY <1>1, <1>2, <1>3, <1>4 DEF IsWhole, HandedCtl

LEMMA WholeExecuted == ASSUME NEW d, IsWhole(d) PROVE IsWhole(Executed(d))
<1>1. Executed(d).ctl = d.ctl
  BY DEF Executed
<1>2. IsRecord(Executed(d), "ctl")
  BY DEF IsRecord, Executed
<1> QED BY <1>1, <1>2 DEF IsWhole

LEMMA RecordChanged ==
  ASSUME NEW k, NEW m, NEW n, NEW v, IsRecord(k, m)
  PROVE  IsRecord([k EXCEPT ![n] = v], m)
BY DEF IsRecord

(* A reset changes members and takes none away.                            *)
LEMMA WholeChanged ==
  ASSUME NEW l, IsWhole(l), NEW m, NEW v, m # "ctl"
  PROVE  /\ IsWhole([l EXCEPT ![m] = v])
         /\ IsWhole([l EXCEPT !.ctl[m] = v])
<1>1. IsWhole([l EXCEPT ![m] = v])
  BY RecordChanged DEF IsWhole, IsRecord
<1>2. IsWhole([l EXCEPT !.ctl[m] = v])
  <2>1. IsRecord([l EXCEPT !.ctl[m] = v], "ctl")
    BY DEF IsWhole, IsRecord
  <2>2. [l EXCEPT !.ctl[m] = v].ctl = [l.ctl EXCEPT ![m] = v]
    BY DEF IsWhole, IsRecord
  <2> QED BY <2>1, <2>2, RecordChanged DEF IsWhole
<1> QED BY <1>1, <1>2

LEMMA WholeQuieted == ASSUME NEW l, IsWhole(l) PROVE IsWhole(Quieted(l))
<1> DEFINE l1 == [l EXCEPT !.bubble = TRUE]
           l2 == [l1 EXCEPT !.ctl.reg = "NOP"]
           l3 == [l2 EXCEPT !.ctl.sp = "none"]
           l4 == [l3 EXCEPT !.ctl.exc = "none"]
<1>1. IsWhole(l1)
  BY WholeChanged
<1>2. IsWhole(l2)
  <2> HIDE DEF l1
  <2> QED BY <1>1, WholeChanged
<1>3. IsWhole(l3)
  <2> HIDE DEF l2
  <2> QED BY <1>2, WholeChanged
<1>4. IsWhole(l4)
  <2> HIDE DEF l3
  <2> QED BY <1>3, WholeChanged
<1>5. Quieted(l) = l4
  BY DEF Quieted
<1> QED BY <1>4, <1>5

LEMMA WholeQuietedD2E == IsWhole(d2e) => IsWhole(QuietedD2E)
<1> SUFFICES ASSUME IsWhole(d2e) PROVE IsWhole(QuietedD2E)
  OBVIOUS
<1> DEFINE q == Quieted(d2e)
           q1 == [q EXCEPT !.ctl.alu = "NOP"]
           v == IF q1.ctl.flow \in {"syscall", "reti"} THEN "none" ELSE q1.ctl.flow
           q2 == [q1 EXCEPT !.ctl.flow = v]
<1>1. IsWhole(q)
  BY WholeQuieted
<1>2. IsWhole(q1)
  <2> HIDE DEF q
  <2> QED BY <1>1, WholeChanged
<1>3. IsWhole(q2)
  <2> HIDE DEF q1, v
  <2> QED BY <1>2, WholeChanged
<1>4. QuietedD2E = q2
  <2> HIDE DEF q
  <2> QED BY DEF QuietedD2E, q
<1> QED BY <1>3, <1>4

(* The cell past the array survives clocks and resets.                     *)
LEMMA LastCellStays ==
  ASSUME DMemSize \in DOMAIN dmem, Clock \/ Reset
  PROVE  DMemSize \in DOMAIN dmem'
<1>1. CASE Clock
  BY <1>1 DEF Clock, Stored, DWrite
<1>2. CASE Reset
  BY <1>2 DEF Reset
<1> QED BY <1>1, <1>2

(* The cells of the file bring the memory back, if nothing is in the cell  *)
(* past the array.                                                         *)
LEMMA CellsRestored ==
  ASSUME NEW b, snap.dmem = [n \in Listed(b) |-> b[n]],
         DMemSize \notin DOMAIN b, DMemSize \notin DOMAIN dmem
  PROVE  SameMemory(b, RestoredMemory)
<1>1. DOMAIN snap.dmem = Listed(b)
  OBVIOUS
<1>2. RestoredMemory = [n \in Listed(b) |-> b[n]]
  BY <1>1 DEF RestoredMemory
<1>3. \A n \in DOMAIN b : n \notin Listed(b) => b[n] = 0
  BY DEF Listed
<1>4. Listed(b) \subseteq DOMAIN b
  BY DEF Listed
<1> QED BY <1>2, <1>3, <1>4 DEF SameMemory, DRead

(* What was saved is restored: the bank, the latches and the memory.       *)
LEMMA RestoredMatches ==
  ASSUME Restore, NEW b, b = record[snap.cycle], Keeps(snap, b),
         DMemSize \in DOMAIN b.dmem => DMemSize \in DOMAIN dmem, IsBank(regs), ~lost'
  PROVE  Matches(b)'
<1>1. ~LpmInFlight(b) /\ intPin = b.intPin /\ DMemSize \notin DOMAIN dmem
  BY DEF Restore
<1>2. snap.d2e = b.d2e /\ snap.e2m = b.e2m
  BY <1>1, FiledAsItIs DEF LpmInFlight, Keeps
<1>3. regs' = b.regs
  <2>1. regs' = [r \in Reg |-> IF r = 0 THEN regs[0] ELSE snap.regs[r]]
    BY DEF Restore
  <2>2. \A r \in Reg : (IF r = 0 THEN regs[0] ELSE snap.regs[r]) = b.regs[r]
    BY DEF Keeps, IsBank, RRead
  <2> QED BY <2>1, <2>2 DEF Keeps, IsBank
<1>4. SameMemory(b.dmem, dmem')
  BY <1>1, CellsRestored DEF Restore, Keeps
<1>5. Counts' = snap.counts
  <2>1. Counts' = [mix |-> snap.counts.mix, stalls |-> snap.counts.stalls,
                   bubbles |-> snap.counts.bubbles, fwdAlu |-> snap.counts.fwdAlu,
                   fwdMem |-> snap.counts.fwdMem, retired |-> snap.counts.retired]
    BY DEF Restore, Counts
  <2> QED BY <2>1 DEF Keeps, IsCounts
<1> QED BY <1>1, <1>2, <1>3, <1>4, <1>5 DEF Restore, Keeps, Matches

-----------------------------------------------------------------------------
(* The session, one lemma for each of its actions.                         *)

LEMMA SessionStarts == MachineInit => SessionInv
<1> SUFFICES ASSUME MachineInit PROVE SessionInv
  OBVIOUS
<1>1. /\ mode = "before" /\ phase = "start" /\ cycle = 0
      /\ d2e = EmptyD2E /\ e2m = EmptyE2M /\ regs = [r \in Reg |-> 0]
  BY DEF MachineInit, SnapInit, CInit, SInit, Init
<1>2. IsBank(regs)
  BY <1>1 DEF IsBank, Reg
<1>3. IsRecord(NopCtl, "mem")
  BY DEF IsRecord, NopCtl
<1>4. EmptyD2E.ctl = NopCtl /\ IsRecord(EmptyD2E, "ctl")
  BY DEF IsRecord, EmptyD2E
<1>5. EmptyE2M.ctl = NopCtl /\ IsRecord(EmptyE2M, "ctl")
  BY DEF IsRecord, EmptyE2M
<1>6. IsWhole(d2e) /\ IsWhole(e2m)
  BY <1>1, <1>3, <1>4, <1>5 DEF IsWhole
<1> QED BY <1>1, <1>2, <1>6 DEF SessionInv, Modes

(* What is on file stays so while only the core moves.                     *)
LEMMA FileStays ==
  ASSUME OnFile, UNCHANGED snap, snap.cycle \in DOMAIN record',
         record'[snap.cycle] = record[snap.cycle], Clock \/ Reset
  PROVE  OnFile'
BY LastCellStays DEF OnFile

LEMMA SaveKeepsSession ==
  ASSUME SessionInv, Save, phase = "loaded", UNCHANGED phase
  PROVE  SessionInv'
<1>1. /\ mode = "before" /\ mode' = "saved" /\ snap' = Snap
      /\ record' = [n \in {cycle} |-> Core]
      /\ UNCHANGED <<vars, counters>>
  BY DEF Save
<1>2. /\ Core' = Core /\ UNCHANGED <<cycle, regs, dmem>>
  BY <1>1 DEF vars, arch, latch, counters, Core, Counts
<1>3. cycle \in Nat /\ IsBank(regs) /\ IsWhole(d2e) /\ IsWhole(e2m)
  BY <1>1 DEF SessionInv
<1>4. cycle + 1 # cycle /\ cycle \in 0 .. cycle
  BY <1>3
<1>5. RunRecorded'
  BY <1>1, <1>4, CoreIsCore DEF RunRecorded
<1>6. RunGoesOn'
  BY <1>1, <1>2, <1>4 DEF RunGoesOn
<1>7. Keeps(Snap, Core)
  BY <1>3 DEF Keeps, Snap, Core, Counts, IsCounts
<1>8. Snap.cycle = cycle /\ Core.dmem = dmem
  BY DEF Snap, Core
<1>9. OnFile'
  BY <1>1, <1>2, <1>7, <1>8 DEF OnFile
<1> QED BY <1>1, <1>2, <1>3, <1>5, <1>6, <1>9 DEF SessionInv, Modes

LEMMA RestoreKeepsSession ==
  ASSUME SessionInv, Restore, phase = "loaded", UNCHANGED phase
  PROVE  SessionInv'
<1>1. /\ mode \in {"saved", "away"} /\ mode' = "replaying"
      /\ cycle' = snap.cycle /\ UNCHANGED <<prog, record>>
  BY DEF Restore
<1>2. RunRecorded /\ OnFile /\ IsBank(regs)
  BY <1>1 DEF SessionInv
<1>3. RunRecorded'
  BY <1>1, <1>2 DEF RunRecorded
<1>4. ~lost' => cycle' \in DOMAIN record' /\ Matches(record[cycle])'
  <2>1. SUFFICES ASSUME ~lost' PROVE cycle' \in DOMAIN record' /\ Matches(record[cycle])'
    OBVIOUS
  <2>2. PICK b : b = record[snap.cycle]
    OBVIOUS
  <2>3. Matches(b)'
    BY <1>2, <2>1, <2>2, RestoredMatches DEF OnFile
  <2>4. record'[cycle'] = b
    BY <1>1, <2>2
  <2> QED BY <1>1, <1>2, <2>3, <2>4 DEF OnFile, Matches
<1> QED BY <1>1, <1>3, <1>4 DEF SessionInv, Modes

LEMMA RecordKeepsSession ==
  ASSUME SessionInv, Record, phase = "loaded", UNCHANGED phase
  PROVE  SessionInv'
<1>1. /\ mode # "replaying" /\ CountedClock /\ Clock /\ cycle' = cycle + 1
      /\ UNCHANGED <<prog, mode, snap, lost>>
  BY DEF Record, CountedClock, Clock
<1>2. cycle \in Nat /\ cycle' \in Nat /\ IsBank(regs) /\ IsBank(regs')
  BY <1>1, BankClocked DEF SessionInv
<1>3. mode = "before" => IsWhole(d2e') /\ IsWhole(e2m')
  <2>1. d2e' = Decoded(Stalled \/ LoadUse) /\ e2m' = Executed(d2e)
    BY <1>1 DEF Clock
  <2> QED BY <2>1, WholeDecoded, WholeExecuted DEF SessionInv
<1>4. CASE mode = "saved"
  <2>1. record' = [n \in DOMAIN record \cup {cycle'} |-> IF n = cycle' THEN Core' ELSE record[n]]
    BY <1>4 DEF Record
  <2>2. RunRecorded /\ RunGoesOn /\ OnFile
    BY <1>4 DEF SessionInv
  <2>3. /\ \A n \in DOMAIN record : n \in 0 .. cycle /\ n # cycle'
        /\ record[cycle] = Core /\ cycle \in DOMAIN record
    BY <1>1, <1>2, <2>2 DEF RunGoesOn
  <2>4. /\ DOMAIN record' = DOMAIN record \cup {cycle'} /\ record'[cycle'] = Core'
        /\ \A n \in DOMAIN record : record'[n] = record[n]
    BY <2>1, <2>3
  <2>5. Follows(prog, Core, Core')
    BY <1>1, ClockIsRecorded
  <2>6. IsCore(Core')
    BY CoreIsCore DEF IsCore, Core
  <2>7. \A n \in DOMAIN record' : IsCore(record'[n])
    BY <2>2, <2>4, <2>6 DEF RunRecorded
  <2>8. ASSUME NEW n \in DOMAIN record', n + 1 \in DOMAIN record', NEW c, c = record'[n]
        PROVE  Follows(prog, c, record'[n + 1])
    <3>1. n \in Nat /\ n # n + 1
      BY <1>2, <2>3, <2>4, <2>8
    <3>2. n # cycle'
      BY <1>1, <1>2, <2>3, <2>4, <2>8
    <3>3. CASE n + 1 = cycle'
      <4>1. n = cycle
        BY <1>1, <1>2, <3>1, <3>3
      <4> QED BY <2>3, <2>4, <2>5, <2>8, <3>3, <4>1
    <3>4. CASE n + 1 # cycle'
      BY <2>2, <2>4, <2>8, <3>2, <3>4 DEF RunRecorded
    <3> QED BY <3>3, <3>4
  <2>9. RunRecorded'
    BY <1>1, <2>7, <2>8 DEF RunRecorded
  <2>10. RunGoesOn'
    BY <1>1, <1>2, <2>3, <2>4 DEF RunGoesOn
  <2>11. OnFile'
    BY <1>1, <2>2, <2>4, FileStays DEF OnFile
  <2> QED BY <1>1, <1>2, <1>4, <2>9, <2>10, <2>11 DEF SessionInv
<1>5. CASE mode # "saved"
  <2>1. record' = record
    BY <1>5 DEF Record
  <2>2. mode = "away" => OnFile'
    BY <1>1, <2>1, FileStays DEF SessionInv, OnFile
  <2>3. mode # "before" => RunRecorded'
    BY <1>1, <2>1 DEF SessionInv, RunRecorded
  <2> QED BY <1>1, <1>2, <1>3, <1>5, <2>2, <2>3 DEF SessionInv, Modes
<1> QED BY <1>4, <1>5

LEMMA ReplayKeepsSession ==
  ASSUME SessionInv, Replay, phase = "loaded", UNCHANGED phase
  PROVE  SessionInv'
<1>1. /\ mode = "replaying" /\ cycle + 1 \in DOMAIN record /\ CountedClock /\ cycle' = cycle + 1
      /\ intPin' = record[cycle'].intPin
      /\ lost' = (lost \/ (d2e.ctl.flow = "bz" /\ zFlag # record[cycle].zFlag))
      /\ UNCHANGED <<prog, mode, snap, record>>
  BY DEF Replay, CountedClock, Clock
<1>2. RunRecorded
  BY <1>1 DEF SessionInv
<1>3. RunRecorded'
  BY <1>1, <1>2 DEF RunRecorded
<1>4. ASSUME ~lost' PROVE Matches(record[cycle])'
  <2>1. cycle \in DOMAIN record /\ Matches(record[cycle]) /\ SameTest(record[cycle])
    BY <1>1, <1>4 DEF SessionInv, SameTest
  <2>2. PICK c, d : c = record[cycle] /\ d = record[cycle + 1]
    OBVIOUS
  <2>3. Follows(prog, c, d)
    BY <1>1, <1>2, <2>1, <2>2 DEF RunRecorded
  <2>4. Matches(c) /\ SameTest(c) /\ d.intPin = intPin'
    BY <1>1, <2>1, <2>2
  <2>5. Matches(d)'
    BY <1>1, <2>3, <2>4, ClockRepeats
  <2>6. record'[cycle'] = d
    BY <1>1, <2>2
  <2> QED BY <2>5, <2>6 DEF Matches
<1> QED BY <1>1, <1>3, <1>4 DEF SessionInv, Modes

LEMMA DetourKeepsSession ==
  ASSUME SessionInv, Detour, phase = "loaded", UNCHANGED phase
  PROVE  SessionInv'
<1>1. /\ mode \in {"before", "saved", "away"} /\ Reset
      /\ mode' = IF mode = "before" THEN "before" ELSE "away"
      /\ cycle' = 0 /\ UNCHANGED <<prog, snap, record, lost>>
  BY DEF Detour, CountedReset, Reset
<1>2. mode = "before" => IsWhole(d2e') /\ IsWhole(e2m')
  BY <1>1, WholeQuieted, WholeQuietedD2E DEF SessionInv, Reset
<1>3. mode # "before" => RunRecorded' /\ OnFile'
  BY <1>1, FileStays DEF SessionInv, RunRecorded, OnFile
<1> QED BY <1>1, <1>2, <1>3, BankReset DEF SessionInv, Modes

LEMMA SessionKept == SessionInv /\ [MachineNext]_mvars => SessionInv'
<1> SUFFICES ASSUME SessionInv, [MachineNext]_mvars PROVE SessionInv'
  OBVIOUS
<1>1. CASE Load
  <2>1. /\ phase = "start" /\ mode' = mode
        /\ UNCHANGED <<cycle, regs, d2e, e2m>>
    BY <1>1 DEF Load, LoadElf, LoadText, session, arch, latch
  <2> QED BY <2>1 DEF SessionInv, Modes, IsBank, IsWhole, IsRecord
<1>2. CASE UNCHANGED mvars
  <2>1. UNCHANGED <<cycle, prog, mode, snap, record, lost, phase, regs, dmem, d2e, e2m>>
    BY <1>2 DEF mvars, vars, arch, latch, session
  <2>2. Core' = Core /\ \A c : Matches(c)' <=> Matches(c)
    BY <1>2 DEF mvars, vars, arch, latch, counters, Core, Counts, Matches
  <2>3. (RunRecorded => RunRecorded') /\ (RunGoesOn => RunGoesOn') /\ (OnFile => OnFile')
    BY <2>1, <2>2 DEF RunRecorded, RunGoesOn, OnFile
  <2>4. Matches(record[cycle]) => Matches(record[cycle])'
    BY <1>2 DEF mvars, vars, arch, latch, session, counters, Counts, Matches
  <2> QED BY <2>1, <2>3, <2>4 DEF SessionInv, IsBank, IsWhole, IsRecord
<1>3. CASE Proceed
  <2>1. phase = "loaded" /\ UNCHANGED phase /\ SnapNext
    BY <1>3 DEF Proceed
  <2> QED BY <2>1, SaveKeepsSession, RestoreKeepsSession, RecordKeepsSession,
             ReplayKeepsSession, DetourKeepsSession DEF SnapNext
<1> QED BY <1>1, <1>2, <1>3 DEF MachineNext

CoreFields == {"pc", "regs", "hi", "lo", "sp", "zFlag", "epc", "eca", "ien", "intPin", "dmem",
               "f2d", "d2e", "e2m", "m2w", "stallCtr", "counts"}

(* Two cores that match agree. *)
LEMMA MatchingAgree ==
  ASSUME NEW d, IsCore(d), Matches(d)
  PROVE  Agree(Core, d)
<1>1. SameMemory(Core.dmem, d.dmem)
  BY DEF Core, Matches, SameMemory
<1> DEFINE x == [Core EXCEPT !.zFlag = FALSE, !.dmem = <<>>]
           y == [d EXCEPT !.zFlag = FALSE, !.dmem = <<>>]
<1>2. Core = [f \in DOMAIN Core |-> Core[f]] /\ DOMAIN Core = CoreFields
  BY DEF Core, CoreFields
<1>3. d = [f \in DOMAIN d |-> d[f]] /\ DOMAIN d = CoreFields
  BY DEF IsCore, CoreFields
<1>4. x = [f \in CoreFields |-> IF f = "dmem" THEN <<>> ELSE IF f = "zFlag" THEN FALSE ELSE Core[f]]
  BY <1>2 DEF CoreFields
<1>5. y = [f \in CoreFields |-> IF f = "dmem" THEN <<>> ELSE IF f = "zFlag" THEN FALSE ELSE d[f]]
  BY <1>3 DEF CoreFields
<1>6. \A f \in CoreFields \ {"dmem", "zFlag"} : Core[f] = d[f]
  BY DEF CoreFields, Core, Matches
<1>7. x = y
  BY <1>4, <1>5, <1>6
<1> QED BY <1>1, <1>7 DEF Agree

(* After a snapshot is loaded the core does again, clock by clock, what it *)
(* did after the save, until it uses a piece of state that is not in the   *)
(* file: for every program file and any number of clocks and resets before *)
(* and after the save.                                                     *)
THEOREM RunsAgain == MachineSpec => []ReplayFollows
<1>1. SessionInv => ReplayFollows
  BY MatchingAgree DEF SessionInv, RunRecorded, ReplayFollows
<1> QED BY <1>1, SessionStarts, SessionKept, PTL DEF MachineSpec

-----------------------------------------------------------------------------
(* Induction over the numbers, as a fact about sets: from the library's    *)
(* theorem that < is well founded.                                         *)
LEMMA LessIsWellFounded == IsWellFoundedOn({s \in Nat \X Nat : s[1] < s[2]}, Nat)
<1>1. OpToRel(<, Nat) = {s \in Nat \X Nat : s[1] < s[2]}
  BY DEF OpToRel
<1> QED BY <1>1, NatLessThanWellFounded, Zenon

LEMMA LeastNumber ==
  ASSUME NEW T \in SUBSET Nat, T # {}
  PROVE  \E x \in T : \A y \in T : x =< y
<1> DEFINE R == {s \in Nat \X Nat : s[1] < s[2]}
<1>1. IsWellFoundedOn(R, Nat)
  BY LessIsWellFounded
<1> HIDE DEF R
<1>2. PICK x \in T : \A y \in T : ~ (<<y, x>> \in R)
  BY <1>1, WFMin, Zenon
<1>3. \A y \in T : ~ (y < x)
  BY <1>2 DEF R
<1> QED BY <1>3

LEMMA InductiveSet ==
  ASSUME NEW S, 0 \in S, \A n \in Nat : n \in S => n + 1 \in S
  PROVE  Nat \subseteq S
<1> SUFFICES ASSUME Nat \ S # {} PROVE FALSE
  OBVIOUS
<1>1. PICK x \in Nat \ S : \A y \in Nat \ S : x =< y
  BY LeastNumber
<1>2. x # 0 /\ x - 1 \in Nat /\ x - 1 \in S
  BY <1>1
<1> QED BY <1>2

LEMMA MaxIsMax ==
  ASSUME NEW n \in Nat, NEW s \in SUBSET (1 .. n), s # {}
  PROVE  Max(s) \in s /\ \A y \in s : y =< Max(s)
<1> DEFINE T == { n - x : x \in s }
<1>0. \A x \in s : x \in 1 .. n /\ n - x \in Nat
  OBVIOUS
<1>1. T \in SUBSET Nat /\ T # {}
  <2>1. PICK e : e \in s
    OBVIOUS
  <2>2. n - e \in T
    BY <2>1
  <2>3. \A u \in T : \E x \in s : u = n - x
    OBVIOUS
  <2> HIDE DEF T
  <2>4. \A u \in T : u \in Nat
    BY <1>0, <2>3
  <2> QED BY <2>2, <2>4
<1>2. PICK t \in T : \A u \in T : t =< u
  BY <1>1, LeastNumber
<1>3. PICK x \in s : t = n - x
  OBVIOUS
<1>4. \A y \in s : n - y \in T
  OBVIOUS
<1>5. \A y \in s : x >= y
  <2> HIDE DEF T
  <2>1. \A y \in s : n - x =< n - y
    BY <1>2, <1>3, <1>4
  <2>2. \A y \in s : y \in Int
    OBVIOUS
  <2> QED BY <2>1, <2>2
<1>6. \E z \in s : \A y \in s : z >= y
  BY <1>5
<1> HIDE DEF T
<1>7. Max(s) \in s /\ \A y \in s : Max(s) >= y
  BY <1>6, Zenon DEF Max
<1> QED BY <1>7

(* The loader's folds: the text with one relocation after the other done   *)
(* (k is "text"), the lines of a file of text read ("lines") and the words *)
(* of the sections counted ("data").  The fold of the library is a function g on sets of indices, of which each turn   *)
(* takes the largest one away; c[n] is the result of the first n elements. *)
First(k, f) ==
  CASE k = "text"  -> f.text
    [] k = "lines" -> [prog |-> <<>>, line |-> 0, status |-> "reading"]
    [] OTHER       -> 0

Apply(k, f, v, x) ==
  CASE k = "text"  -> Relocate(f, v, x)
    [] k = "lines" -> ReadLine(f.lines[1].kind, v, x)
    [] OTHER       -> v + Words(x)

Turn(k, f, q, g, s) ==
  IF s = {} THEN First(k, f) ELSE Apply(k, f, g[s \ {Max(s)}], q[Max(s)])

IsFold(k, f, q, S, g) == g = [s \in SUBSET S |-> Turn(k, f, q, g, s)]

FoldOf(k, f, q) == (CHOOSE g : IsFold(k, f, q, DOMAIN q, g))[DOMAIN q]

LEMMA TextIsFold ==
  ASSUME NEW f
  PROVE  RelocatedText(f) = FoldOf("text", f, f.relas)
BY DEF RelocatedText, FoldLeft, MapThenFoldSet, IsFold, Turn, First, Apply, FoldOf

LEMMA BaseIsFold ==
  ASSUME NEW f, NEW s
  PROVE  Base(f, s) = DataBase + FoldOf("data", f, SubSeq(f.sections, 1, s - 1))
BY DEF Base, FoldLeft, MapThenFoldSet, IsFold, Turn, First, Apply, FoldOf

LEMMA LinesAreFold ==
  ASSUME NEW f
  PROVE  ReadLines(f) = FoldOf("lines", f, f.lines)
BY DEF ReadLines, FoldLeft, MapThenFoldSet, IsFold, Turn, First, Apply, FoldOf

LEMMA FoldExtends ==
  ASSUME NEW k, NEW f, NEW q, NEW n \in Nat, NEW g, IsFold(k, f, q, 1 .. n, g)
  PROVE  \E h : IsFold(k, f, q, 1 .. n + 1, h)
<1> DEFINE h == [s \in SUBSET (1 .. n + 1) |->
                   IF n + 1 \in s THEN Apply(k, f, g[s \ {n + 1}], q[n + 1]) ELSE g[s]]
<1>1. \A s \in SUBSET (1 .. n) : g[s] = Turn(k, f, q, g, s)
  BY DEF IsFold
<1>2. \A s \in SUBSET (1 .. n) : h[s] = g[s]
  OBVIOUS
<1>3. ASSUME NEW s \in SUBSET (1 .. n + 1) PROVE h[s] = Turn(k, f, q, h, s)
  <2>1. CASE n + 1 \in s
    <3>1. Max(s) \in s /\ \A y \in s : y =< Max(s)
      <4>1. n + 1 \in Nat /\ s # {}
        BY <2>1
      <4> QED BY <4>1, MaxIsMax
    <3>2. Max(s) = n + 1
      <4>1. Max(s) \in 1 .. n + 1 /\ n + 1 =< Max(s)
        BY <3>1, <2>1
      <4> QED BY <4>1
    <3>3. s \ {n + 1} \in SUBSET (1 .. n)
      <4>1. \A y \in 1 .. n + 1 : y # n + 1 => y \in 1 .. n
        OBVIOUS
      <4> QED BY <4>1
    <3>4. h[s] = Apply(k, f, g[s \ {n + 1}], q[n + 1])
      BY <2>1
    <3>5. h[s \ {n + 1}] = g[s \ {n + 1}]
      BY <3>3, <1>2, Zenon
    <3>6. s # {}
      BY <2>1
    <3> HIDE DEF h
    <3> QED BY <3>2, <3>4, <3>5, <3>6, Zenon DEF Turn
  <2>2. CASE n + 1 \notin s /\ s # {}
    <3>1. s \in SUBSET (1 .. n)
      BY <2>2
    <3>3. s \ {Max(s)} \in SUBSET (1 .. n)
      BY <3>1
    <3>4. h[s] = Turn(k, f, q, g, s)
      BY <1>1, <1>2, <3>1, Zenon
    <3>5. h[s \ {Max(s)}] = g[s \ {Max(s)}]
      BY <3>3, <1>2, Zenon
    <3> HIDE DEF h
    <3> QED BY <2>2, <3>4, <3>5, Zenon DEF Turn
  <2>3. CASE s = {}
    <3>1. h[s] = Turn(k, f, q, g, s)
      BY <1>1, <1>2, <2>3
    <3> QED BY <3>1, <2>3 DEF Turn
  <2> QED BY <2>1, <2>2, <2>3
<1>4. h = [s \in SUBSET (1 .. n + 1) |-> h[s]]
  OBVIOUS
<1> HIDE DEF h
<1>5. IsFold(k, f, q, 1 .. n + 1, h)
  BY <1>3, <1>4 DEF IsFold
<1> QED BY <1>5

LEMMA FoldExists ==
  ASSUME NEW k, NEW f, NEW q, NEW n \in Nat
  PROVE  \E g : IsFold(k, f, q, 1 .. n, g)
<1> DEFINE S == { m \in Nat : \E g : IsFold(k, f, q, 1 .. m, g) }
<1>1. 0 \in S
  <2> DEFINE g == [s \in SUBSET {} |-> First(k, f)]
  <2>1. g = [s \in SUBSET {} |-> Turn(k, f, q, g, s)]
    BY DEF Turn
  <2>2. 1 .. 0 = {}
    OBVIOUS
  <2> HIDE DEF g
  <2>3. IsFold(k, f, q, 1 .. 0, g)
    BY <2>1, <2>2 DEF IsFold
  <2> QED BY <2>3
<1>2. \A m \in Nat : m \in S => m + 1 \in S
  BY FoldExtends
<1> HIDE DEF S
<1>3. n \in S
  BY <1>1, <1>2, InductiveSet
<1> QED BY <1>3 DEF S

(* The results of a fold, one element after the other. *)
IsRun(k, f, q, c) ==
  /\ c[0] = First(k, f)
  /\ \A n \in Nat : n + 1 \in DOMAIN q => c[n + 1] = Apply(k, f, c[n], q[n + 1])

LEMMA FoldRuns ==
  ASSUME NEW k, NEW f, NEW q, NEW m \in Nat, DOMAIN q = 1 .. m
  PROVE  \E c : IsRun(k, f, q, c) /\ FoldOf(k, f, q) = c[m]
<1> DEFINE g == CHOOSE h : IsFold(k, f, q, 1 .. m, h)
           c == [n \in 0 .. m |-> g[1 .. n]]
<1>1. IsFold(k, f, q, 1 .. m, g)
  BY FoldExists, Zenon
<1>2. FoldOf(k, f, q) = g[1 .. m]
  BY DEF FoldOf
<1> HIDE DEF g
<1>3. \A s \in SUBSET (1 .. m) : g[s] = Turn(k, f, q, g, s)
  BY <1>1 DEF IsFold
<1>4. c[0] = First(k, f)
  <2>1. 1 .. 0 = {} /\ c[0] = g[1 .. 0]
    OBVIOUS
  <2>2. {} \in SUBSET (1 .. m)
    OBVIOUS
  <2>3. Turn(k, f, q, g, {}) = First(k, f)
    BY DEF Turn
  <2> HIDE DEF c
  <2> QED BY <2>1, <2>2, <2>3, <1>3, Zenon
<1>5. ASSUME NEW n \in Nat, n + 1 \in DOMAIN q
      PROVE  c[n + 1] = Apply(k, f, c[n], q[n + 1])
  <2>1. n + 1 \in 1 .. m /\ n \in 0 .. m
    BY <1>5
  <2>2. c[n + 1] = g[1 .. n + 1] /\ c[n] = g[1 .. n]
    BY <2>1
  <2> DEFINE s == 1 .. n + 1
  <2>3. s \in SUBSET (1 .. m) /\ s # {} /\ n + 1 \in s
    BY <2>1
  <2>4. Max(s) \in s /\ \A y \in s : y =< Max(s)
    BY <2>3, MaxIsMax
  <2>5. Max(s) = n + 1
    <3>1. Max(s) \in 1 .. n + 1 /\ n + 1 =< Max(s)
      BY <2>3, <2>4
    <3> QED BY <3>1
  <2>6. s \ {n + 1} = 1 .. n
    OBVIOUS
  <2>7. g[s] = Turn(k, f, q, g, s)
    BY <2>3, <1>3
  <2> HIDE DEF s, c
  <2>8. g[s] = Apply(k, f, g[1 .. n], q[n + 1])
    BY <2>3, <2>5, <2>6, <2>7, Zenon DEF Turn
  <2> QED BY <2>2, <2>8, Zenon DEF s
<1>6. FoldOf(k, f, q) = c[m]
  BY <1>2
<1> HIDE DEF c
<1> QED BY <1>4, <1>5, <1>6, Zenon DEF IsRun

(* The field of a transfer: twelve bits in three nibbles, and the sign.    *)
LEMMA Nibbles ==
  ASSUME NEW x \in Int, 0 =< x, x < 4096
  PROVE  /\ (x \div 256) % 16 \in Nibble /\ (x \div 16) % 16 \in Nibble /\ x % 16 \in Nibble
         /\ 256 * ((x \div 256) % 16) + (16 * ((x \div 16) % 16) + (x % 16)) = x
<1>1. x = 16 * (x \div 16) + (x % 16) /\ x % 16 \in Nibble /\ x \div 16 \in Int
  BY DEF Nibble
<1>2. x \div 16 = 16 * ((x \div 16) \div 16) + ((x \div 16) % 16) /\ (x \div 16) % 16 \in Nibble
  BY DEF Nibble
<1>3. (x \div 16) \div 16 = x \div 256 /\ x \div 256 \in Int
  OBVIOUS
<1>4. (x \div 256) % 16 = x \div 256 /\ (x \div 256) % 16 \in Nibble
  BY DEF Nibble
<1> QED BY <1>1, <1>2, <1>3, <1>4

LEMMA OffsetKept ==
  ASSUME NEW x \in Int, -2048 =< x, x =< 2047
  PROVE  /\ x % 4096 \in Int /\ 0 =< x % 4096 /\ x % 4096 < 4096
         /\ SignExt12(x % 4096) = x
<1>1. CASE x >= 0
  <2>1. x % 4096 = x
    BY <1>1
  <2> QED BY <1>1, <2>1 DEF SignExt12
<1>2. CASE x < 0
  <2>1. x % 4096 = x + 4096
    BY <1>2
  <2> QED BY <1>2, <2>1 DEF SignExt12
<1> QED BY <1>1, <1>2

LEMMA FieldReplaced ==
  ASSUME NEW i \in Instr, NEW n \in Nibble
  PROVE  [i EXCEPT !.a = n] \in Instr /\ [i EXCEPT !.b = n] \in Instr /\ [i EXCEPT !.f = n] \in Instr
BY DEF Instr

LEMMA AddressPatched ==
  ASSUME NEW i \in Instr, NEW x \in Int, 0 =< x, x < 4096
  PROVE  WithAddress(i, x) \in Instr /\ Address(WithAddress(i, x)) = x
<1> DEFINE u == (x \div 256) % 16
           v == (x \div 16) % 16
           w == x % 16
           i1 == [i EXCEPT !.a = u]
           i2 == [i1 EXCEPT !.b = v]
           i3 == [i2 EXCEPT !.f = w]
<1>1. u \in Nibble /\ v \in Nibble /\ w \in Nibble /\ 256 * u + (16 * v + w) = x
  BY Nibbles
<1> HIDE DEF u, v, w
<1>2. WithAddress(i, x) = i3
  BY DEF WithAddress, Instr, u, v, w
<1>3. i1 \in Instr
  BY <1>1 DEF Instr
<1> HIDE DEF i1
<1>4. i2 \in Instr
  BY <1>1, <1>3 DEF Instr
<1> HIDE DEF i2
<1>5. i3 \in Instr
  BY <1>1, <1>4 DEF Instr
<1>6. i3.a = u /\ i3.b = v /\ i3.f = w
  BY DEF i1, i2, Instr
<1> HIDE DEF i3
<1>7. Address(i3) = x
  BY <1>1, <1>6 DEF Address, Byte
<1> QED BY <1>2, <1>5, <1>7

(* A word is changed by its own relocation alone, whatever comes before    *)
(* and after it.                                                           *)
LEMMA OthersLeaveWord ==
  ASSUME NEW f, NEW t, NEW r, NEW n \in DOMAIN t
  PROVE  /\ DOMAIN Relocate(f, t, r) = DOMAIN t
         /\ r.at # n => Relocate(f, t, r)[n] = t[n]
         /\ r.at = n /\ r.sym \in DOMAIN f.symbols => Relocate(f, t, r)[n] = Patched(f, r, t[n])
BY DEF Relocate

LEMMA WordPatched ==
  ASSUME NEW f, f.relas \in Seq(Relocations), NEW k \in DOMAIN f.relas, Alone(f, k)
  PROVE  LET r == f.relas[k]
         IN  /\ r.at \in DOMAIN RelocatedText(f)
             /\ RelocatedText(f)[r.at] = Patched(f, r, f.text[r.at])
<1> DEFINE r == f.relas[k]
           m == Len(f.relas)
<1>1. m \in Nat /\ DOMAIN f.relas = 1 .. m /\ k \in 1 .. m
  OBVIOUS
<1>2. /\ r.at \in DOMAIN f.text /\ r.sym \in DOMAIN f.symbols
      /\ \A j \in 1 .. m : j # k => f.relas[j].at # r.at
  BY <1>1 DEF Alone
<1> HIDE DEF m
<1>3. PICK c : IsRun("text", f, f.relas, c) /\ FoldOf("text", f, f.relas) = c[m]
  BY <1>1, FoldRuns
<1> DEFINE S == { n \in Nat : n =< m =>
                    /\ DOMAIN c[n] = DOMAIN f.text
                    /\ n < k => c[n][r.at] = f.text[r.at]
                    /\ n >= k => c[n][r.at] = Patched(f, r, f.text[r.at]) }
<1>4. 0 \in S
  <2>1. c[0] = f.text
    BY <1>3 DEF IsRun, First
  <2> QED BY <1>1, <2>1
<1>5. ASSUME NEW n \in Nat, n \in S PROVE n + 1 \in S
  <2> SUFFICES ASSUME n + 1 =< m
               PROVE  /\ DOMAIN c[n + 1] = DOMAIN f.text
                      /\ n + 1 < k => c[n + 1][r.at] = f.text[r.at]
                      /\ n + 1 >= k => c[n + 1][r.at] = Patched(f, r, f.text[r.at])
    OBVIOUS
  <2>1. /\ DOMAIN c[n] = DOMAIN f.text
        /\ n < k => c[n][r.at] = f.text[r.at]
        /\ n >= k => c[n][r.at] = Patched(f, r, f.text[r.at])
    BY <1>1, <1>5
  <2>2. n + 1 \in 1 .. m
    BY <1>1
  <2>3. c[n + 1] = Relocate(f, c[n], f.relas[n + 1])
    BY <1>1, <1>3, <2>2 DEF IsRun, Apply
  <2> HIDE DEF r
  <2>4. CASE n + 1 = k
    <3>1. f.relas[n + 1] = r /\ n < k
      BY <1>1, <2>4 DEF r
    <3> DEFINE t == c[n]
    <3>2. DOMAIN t = DOMAIN f.text /\ t[r.at] = f.text[r.at] /\ r.at \in DOMAIN t
      BY <1>2, <2>1, <3>1
    <3>4. c[n + 1] = Relocate(f, t, r)
      BY <2>3, <3>1
    <3> HIDE DEF t
    <3>2a. /\ DOMAIN Relocate(f, t, r) = DOMAIN t
           /\ Relocate(f, t, r)[r.at] = Patched(f, r, t[r.at])
      BY <1>2, <3>2, OthersLeaveWord
    <3>2b. /\ DOMAIN c[n + 1] = DOMAIN f.text
           /\ c[n + 1][r.at] = Patched(f, r, f.text[r.at])
      BY <3>2, <3>4, <3>2a
    <3>3. ~(n + 1 < k)
      BY <1>1, <2>4
    <3> QED BY <3>2b, <3>3
  <2>5. CASE n + 1 # k
    <3>1. f.relas[n + 1].at # r.at
      BY <1>2, <2>2, <2>5
    <3>2. (n + 1 < k <=> n < k) /\ (n + 1 >= k <=> n >= k)
      BY <1>1, <2>5
    <3> QED BY <1>2, <2>1, <2>3, <3>1, <3>2, OthersLeaveWord
  <2> QED BY <2>4, <2>5
<1> HIDE DEF S, r
<1>6. m \in S
  BY <1>1, <1>4, <1>5, InductiveSet
<1>7. DOMAIN c[m] = DOMAIN f.text /\ c[m][r.at] = Patched(f, r, f.text[r.at])
  BY <1>1, <1>6 DEF S
<1>8. RelocatedText(f) = c[m]
  BY <1>3, TextIsFold
<1> QED BY <1>2, <1>7, <1>8 DEF r

(* What is fetched from the place of a relocation is the instruction of    *)
(* .text, patched.                                                         *)
LEMMA PatchFetched ==
  ASSUME NEW f, IsObject(f), NEW k \in DOMAIN f.relas, Alone(f, k), NEW r, r = f.relas[k]
  PROVE  /\ r \in Relocations /\ r.sym \in DOMAIN f.symbols /\ f.text[r.at] \in Instr
         /\ FetchWord(LoadedText(f), r.at + f.base) = Patched(f, r, f.text[r.at])
<1>1. /\ f.relas \in Seq(Relocations) /\ f.base \in Nat /\ IsProgram(f.text)
      /\ r.at \in DOMAIN f.text /\ r.at + f.base < IMemSize /\ r.sym \in DOMAIN f.symbols
  BY DEF IsObject, Alone
<1>2. r \in Relocations
  BY <1>1
<1>3. r.at \in Nat /\ f.text[r.at] \in Instr
  BY <1>1, <1>2 DEF IsProgram, Relocations
<1>4. r.at \in DOMAIN RelocatedText(f) /\ RelocatedText(f)[r.at] = Patched(f, r, f.text[r.at])
  BY <1>1, WordPatched
<1> DEFINE n == r.at + f.base
<1>5. n \in { w + f.base : w \in DOMAIN RelocatedText(f) }
  BY <1>4
<1>6. n \in 0 .. IMemSize - 1
  <2>1. n \in Nat /\ n < IMemSize /\ IMemSize \in Int
    BY <1>1, <1>3 DEF IMemSize
  <2> QED BY <2>1
<1>7. n - f.base = r.at
  BY <1>1, <1>3
<1> HIDE DEF n
<1>8. n \in DOMAIN LoadedText(f) /\ LoadedText(f)[n] = RelocatedText(f)[r.at]
  BY <1>5, <1>6, <1>7 DEF LoadedText
<1>9. FetchWord(LoadedText(f), n) = Patched(f, r, f.text[r.at])
  BY <1>4, <1>8 DEF FetchWord
<1> QED BY <1>1, <1>2, <1>3, <1>9 DEF n

(* The instruction at the place of a transfer's relocation has the offset  *)
(* that the relocation asked for.                                          *)
LEMMA TransferPatched ==
  ASSUME NEW f \in Files, f.format = "elf", NEW k \in DOMAIN f.relas, Feasible(f, k),
         f.relas[k].type \in {"jump", "branch"}
  PROVE  LET r == f.relas[k]
             i == FetchWord(LoadedText(f), r.at + f.base)
         IN  SignExt12(Address(i)) = Offset(f, r)
<1> DEFINE r == f.relas[k]
<1>1. IsObject(f) /\ Alone(f, k) /\ \A s \in DOMAIN f.symbols : f.symbols[s].value \in Nat
  BY LoaderAssumption DEF IsObject, Feasible
<1>2. /\ r \in Relocations /\ r.sym \in DOMAIN f.symbols /\ f.text[r.at] \in Instr
      /\ FetchWord(LoadedText(f), r.at + f.base) = Patched(f, r, f.text[r.at])
  BY <1>1, PatchFetched
<1>3. -2048 =< Offset(f, r) /\ Offset(f, r) =< 2047
  BY DEF Feasible
<1>4. Offset(f, r) \in Int
  <2>1. f.symbols[r.sym].value \in Int
    BY <1>1, <1>2
  <2>2. r.at \in Nat /\ r.addend \in Int
    <3> HIDE DEF r
    <3> QED BY <1>2 DEF Relocations
  <2> QED BY <2>1, <2>2 DEF Offset
<1> DEFINE o == Offset(f, r)
           e == o % 4096
<1>5. e \in Int /\ 0 =< e /\ e < 4096 /\ SignExt12(e) = o
  BY <1>3, <1>4, OffsetKept
<1>6. Patched(f, r, f.text[r.at]) = WithAddress(f.text[r.at], e)
  BY DEF Patched
<1> HIDE DEF e, o, r
<1>7. Address(WithAddress(f.text[r.at], e)) = e
  BY <1>2, <1>5, AddressPatched
<1> QED BY <1>2, <1>5, <1>6, <1>7 DEF r, o

-----------------------------------------------------------------------------
(* Transfers, from the file to the fetch.  The latch behind the fetch      *)
(* holds what is in memory at its address, or nothing yet; the one before  *)
(* EX a transfer as it is in memory, with the target of its jump.          *)
NoFetch == [ireg |-> NOP, pc |-> 0]

Fetched(p, f) == f = NoFetch \/ (f.ireg = FetchWord(prog, f.pc) /\ p = f.pc + 1)

Carried(d) ==
  /\ IsWhole(d)
  /\ d.ctl.flow \in {"j", "bz", "bhleq"} => d.ireg = FetchWord(prog, d.pc)
  /\ d.ctl.flow = "j" => d.jDest = d.pc + 1 + SignExt12(Address(d.ireg))

(* The same is true of the core on file, while it may still be loaded.     *)
FetchInv ==
  /\ file \in Files
  /\ phase # "loaded" => mode = "before" /\ f2d = NoFetch /\ d2e.ctl.flow = "none"
  /\ IsElf => prog = LoadedText(file)
  /\ Fetched(pc, f2d) /\ Carried(d2e)
  /\ mode \in {"saved", "away"} => Fetched(snap.pc, snap.f2d) /\ Carried(snap.d2e)

LEMMA FetchStarts == MachineInit => FetchInv
<1> SUFFICES ASSUME MachineInit PROVE FetchInv
  OBVIOUS
<1>1. /\ mode = "before" /\ phase = "start" /\ file \in Files
      /\ f2d = NoFetch /\ d2e = EmptyD2E
  BY DEF MachineInit, SnapInit, CInit, SInit, Init, NoFetch
<1>2. d2e.ctl = NopCtl /\ IsRecord(d2e, "ctl") /\ IsRecord(NopCtl, "mem") /\ NopCtl.flow = "none"
  BY <1>1 DEF IsRecord, EmptyD2E, NopCtl
<1>3. IsWhole(d2e) /\ d2e.ctl.flow = "none"
  BY <1>2 DEF IsWhole
<1> QED BY <1>1, <1>3 DEF FetchInv, Fetched, Carried, IsElf

(* What is fetched comes from memory, and so does what is decoded.         *)
LEMMA ClockFetches ==
  ASSUME Clock, Fetched(pc, f2d), Carried(d2e)
  PROVE  Fetched(pc, f2d)' /\ Carried(d2e)'
<1>1. prog' = prog /\ d2e' = Decoded(Stalled \/ LoadUse)
  BY DEF Clock
<1>2. Fetched(pc, f2d)'
  <2>1. CASE Stalled
    <3>1. pc' = pc /\ f2d' = f2d
      BY <2>1 DEF Clock
    <3> QED BY <1>1, <3>1 DEF Fetched
  <2>2. CASE ~Stalled
    <3>1. pc' = FetchPC + 1 /\ f2d' = [ireg |-> FetchWord(prog, FetchPC), pc |-> FetchPC]
      BY <2>2 DEF Clock
    <3> HIDE DEF FetchPC
    <3>2. f2d'.ireg = FetchWord(prog, FetchPC) /\ f2d'.pc = FetchPC
      BY <3>1
    <3> QED BY <1>1, <3>1, <3>2 DEF Fetched
  <2> QED BY <2>1, <2>2
<1>3. ASSUME NEW b, NEW d, d = Decoded(b)
      PROVE  /\ d.ctl.flow \in {"j", "bz", "bhleq"} => d.ireg = FetchWord(prog, d.pc)
             /\ d.ctl.flow = "j" => d.jDest = d.pc + 1 + SignExt12(Address(d.ireg))
  <2> SUFFICES ASSUME d.ctl.flow \in {"j", "bz", "bhleq"}
               PROVE  /\ d.ireg = FetchWord(prog, d.pc)
                      /\ d.ctl.flow = "j" => d.jDest = d.pc + 1 + SignExt12(Address(d.ireg))
    OBVIOUS
  <2>1. /\ d.ctl = HandedCtl(b, Ctl(f2d.ireg)) /\ d.ireg = f2d.ireg /\ d.pc = f2d.pc
        /\ d.jDest = JumpDest(f2d.ireg, Ctl(f2d.ireg))
    BY <1>3, Zenon DEF Decoded
  <2>2. d.ctl = Ctl(f2d.ireg)
    BY <2>1 DEF HandedCtl, NopCtl
  <2>3. Ctl(f2d.ireg).flow = FlowCtl(f2d.ireg)
    BY DEF Ctl
  <2>4. f2d # NoFetch
    <3>1. FlowCtl(NOP) = "none"
      BY DEF FlowCtl, NOP, IsM1, IsM4, OP_R, OP_J, OP_JAL, OP_JR, OP_BZ, OP_BZ_T, OP_BZ_N,
             OP_BHLEQ, OP_M1
    <3> QED BY <2>2, <2>3, <3>1 DEF NoFetch
  <2>5. d.ireg = FetchWord(prog, d.pc)
    BY <2>1, <2>4 DEF Fetched
  <2>6. ASSUME d.ctl.flow = "j" PROVE d.jDest = d.pc + 1 + SignExt12(Address(d.ireg))
    BY <2>1, <2>2, <2>6 DEF JumpDest
  <2> QED BY <2>5, <2>6
<1>4. Carried(d2e)'
  <2> DEFINE b == Stalled \/ LoadUse
  <2>1. d2e' = Decoded(b)
    BY <1>1
  <2> HIDE DEF b
  <2>2. IsWhole(Decoded(b))
    BY WholeDecoded
  <2> QED BY <1>1, <1>3, <2>1, <2>2 DEF Carried
<1> QED BY <1>2, <1>4

(* Nothing but control m is changed.                                       *)
Changed(l, q, m) ==
  /\ q.pc = l.pc /\ q.ireg = l.ireg /\ q.jDest = l.jDest
  /\ m # "flow" => q.ctl.flow = l.ctl.flow

LEMMA MemberChanged ==
  ASSUME NEW l, IsWhole(l), NEW m, NEW v
  PROVE  Changed(l, [l EXCEPT !.ctl[m] = v], m)
<1>1. [l EXCEPT !.ctl[m] = v].ctl = [l.ctl EXCEPT ![m] = v]
  BY DEF IsWhole, IsRecord
<1>2. m # "flow" => [l.ctl EXCEPT ![m] = v].flow = l.ctl.flow
  BY DEF IsWhole, IsRecord
<1>3. /\ [l EXCEPT !.ctl[m] = v].pc = l.pc /\ [l EXCEPT !.ctl[m] = v].ireg = l.ireg
      /\ [l EXCEPT !.ctl[m] = v].jDest = l.jDest
  BY DEF IsWhole, IsRecord
<1> QED BY <1>1, <1>2, <1>3 DEF Changed

LEMMA FlowChanged ==
  ASSUME NEW l, IsWhole(l), NEW v
  PROVE  [l EXCEPT !.ctl.flow = v].ctl.flow \in {v, l.ctl.flow}
<1>1. [l EXCEPT !.ctl.flow = v].ctl = [l.ctl EXCEPT !.flow = v]
  BY DEF IsWhole, IsRecord
<1> DEFINE c == l.ctl
<1>2. [c EXCEPT !.flow = v].flow \in {v, c.flow}
  <2> HIDE DEF c
  <2>1. CASE "flow" \in DOMAIN c
    BY <2>1
  <2>2. CASE "flow" \notin DOMAIN c
    <3>1. [c EXCEPT !.flow = v] = [n \in DOMAIN c |-> c[n]]
      BY <2>2
    <3> QED BY <2>2, <3>1
  <2> QED BY <2>1, <2>2
<1> QED BY <1>1, <1>2

(* A reset leaves a jump or a branch in front of EX, with its target.      *)
LEMMA QuietedCarries ==
  ASSUME IsWhole(d2e)
  PROVE  /\ QuietedD2E.pc = d2e.pc /\ QuietedD2E.ireg = d2e.ireg /\ QuietedD2E.jDest = d2e.jDest
         /\ QuietedD2E.ctl.flow \in {"j", "bz", "bhleq"} => QuietedD2E.ctl.flow = d2e.ctl.flow
<1> DEFINE l1 == [d2e EXCEPT !.bubble = TRUE]
           l2 == [l1 EXCEPT !.ctl.reg = "NOP"]
           l3 == [l2 EXCEPT !.ctl.sp = "none"]
           l4 == [l3 EXCEPT !.ctl.exc = "none"]
           l5 == [l4 EXCEPT !.ctl.alu = "NOP"]
           v == IF l5.ctl.flow \in {"syscall", "reti"} THEN "none" ELSE l5.ctl.flow
           l6 == [l5 EXCEPT !.ctl.flow = v]
<1>1. IsWhole(l1) /\ Changed(d2e, l1, "reg")
  <2>1. IsWhole(l1)
    BY WholeChanged
  <2> QED BY <2>1 DEF Changed, IsWhole, IsRecord
<1>2. IsWhole(l2) /\ Changed(l1, l2, "reg")
  <2> HIDE DEF l1
  <2> QED BY <1>1, WholeChanged, MemberChanged
<1>3. IsWhole(l3) /\ Changed(l2, l3, "sp")
  <2> HIDE DEF l2
  <2> QED BY <1>2, WholeChanged, MemberChanged
<1>4. IsWhole(l4) /\ Changed(l3, l4, "exc")
  <2> HIDE DEF l3
  <2> QED BY <1>3, WholeChanged, MemberChanged
<1>5. IsWhole(l5) /\ Changed(l4, l5, "alu")
  <2> HIDE DEF l4
  <2> QED BY <1>4, WholeChanged, MemberChanged
<1>6. Changed(l5, l6, "flow") /\ l6.ctl.flow \in {v, l5.ctl.flow}
  <2> HIDE DEF l5, v
  <2> QED BY <1>5, MemberChanged, FlowChanged
<1>7. Quieted(d2e) = l4
  BY DEF Quieted
<1>8. QuietedD2E = l6
  <2> HIDE DEF l4
  <2> QED BY <1>7 DEF QuietedD2E
<1>9. l6.ctl.flow \in {"j", "bz", "bhleq"} => l6.ctl.flow = l5.ctl.flow
  <2> HIDE DEF l5, l6
  <2> QED BY <1>6
<1> HIDE DEF l1, l2, l3, l4, l5, l6
<1> QED BY <1>1, <1>2, <1>3, <1>4, <1>5, <1>6, <1>8, <1>9 DEF Changed

LEMMA ResetFetches ==
  ASSUME Reset, Carried(d2e)
  PROVE  Fetched(pc, f2d)' /\ Carried(d2e)'
<1>1. prog' = prog /\ f2d' = NoFetch /\ d2e' = QuietedD2E
  BY DEF Reset, NoFetch
<1>2. IsWhole(QuietedD2E)
  BY WholeQuietedD2E DEF Carried
<1> QED BY <1>1, <1>2, QuietedCarries DEF Fetched, Carried

LEMMA FiledCarries ==
  ASSUME Carried(d2e), IsWhole(Filed(d2e))
  PROVE  Carried(Filed(d2e))
<1> DEFINE v == IF d2e.ctl.mem = "lpm" THEN "read" ELSE d2e.ctl.mem
           q == [d2e EXCEPT !.ctl.mem = v]
<1>1. IsWhole(d2e)
  BY DEF Carried
<1> HIDE DEF v
<1>2. Changed(d2e, q, "mem")
  BY <1>1, MemberChanged
<1>3. Filed(d2e) = q
  BY DEF Filed, v
<1> HIDE DEF q
<1> QED BY <1>2, <1>3 DEF Carried, Changed

LEMMA FetchKept == FetchInv /\ [MachineNext]_mvars => FetchInv'
<1> SUFFICES ASSUME FetchInv, [MachineNext]_mvars PROVE FetchInv'
  OBVIOUS
<1>1. ASSUME Load PROVE FetchInv'
  <2>1. /\ phase = "start" /\ mode' = mode /\ mode = "before"
        /\ f2d' = f2d /\ d2e' = d2e /\ file' = file
    BY <1>1 DEF Load, LoadElf, LoadText, session, arch, latch, FetchInv
  <2>2. IsElf' => prog' = LoadedText(file')
    BY <1>1, <2>1 DEF Load, LoadElf, LoadText, IsElf
  <2>3. phase' # "loaded" => phase' = "aborted"
    BY <1>1 DEF Load, LoadElf, LoadText
  <2>4. f2d = NoFetch /\ d2e.ctl.flow = "none" /\ Carried(d2e)
    BY <2>1 DEF FetchInv
  <2> QED BY <2>1, <2>2, <2>4 DEF FetchInv, Fetched, Carried, NoFetch, IsWhole, IsRecord
<1>2. ASSUME UNCHANGED mvars PROVE FetchInv'
  <2>1. UNCHANGED <<prog, pc, f2d, d2e, mode, snap, file, phase>>
    BY <1>2 DEF mvars, vars, arch, latch, session
  <2> QED BY <2>1 DEF FetchInv, Fetched, Carried, IsElf, IsWhole, IsRecord, NoFetch
<1>3. ASSUME phase = "loaded", SnapNext, UNCHANGED <<file, phase>> PROVE FetchInv'
  <2>1. Fetched(pc, f2d) /\ Carried(d2e) /\ file' \in Files /\ phase' = "loaded"
    BY <1>3 DEF FetchInv
  <2>2. prog' = prog
    BY <1>3 DEF SnapNext, Save, Restore, Record, Replay, Detour, CountedClock, CountedReset,
                Clock, Reset, vars
  <2>3. IsElf' => prog' = LoadedText(file')
    BY <1>3, <2>2 DEF FetchInv, IsElf
  <2>5. CASE Save
    <3>1. UNCHANGED <<pc, f2d, d2e>> /\ mode' = "saved" /\ snap' = Snap
      BY <2>5 DEF Save, vars, latch
    <3>2. Snap.pc = pc /\ Snap.f2d = f2d /\ Snap.d2e = Filed(d2e)
      BY Zenon DEF Snap
    <3>3. IsWhole(Filed(d2e))
      BY <2>1 DEF Filed, Carried, IsWhole, IsRecord
    <3>4. Carried(Filed(d2e))
      BY <2>1, <3>3, FiledCarries
    <3>5. Fetched(pc, f2d)' /\ Carried(d2e)'
      BY <2>1, <2>2, <3>1 DEF Fetched, Carried, NoFetch, IsWhole, IsRecord
    <3>6. Fetched(snap.pc, snap.f2d)'
      BY <2>1, <2>2, <3>1, <3>2 DEF Fetched, NoFetch
    <3>7. Carried(snap.d2e)'
      BY <2>2, <3>1, <3>2, <3>4 DEF Carried, IsWhole, IsRecord
    <3> QED BY <2>1, <2>3, <3>5, <3>6, <3>7 DEF FetchInv
  <2>6. CASE Restore
    <3>1. mode \in {"saved", "away"} /\ mode' = "replaying"
          /\ pc' = snap.pc /\ f2d' = snap.f2d /\ d2e' = snap.d2e
      BY <2>6 DEF Restore
    <3>2. Fetched(snap.pc, snap.f2d) /\ Carried(snap.d2e)
      BY <3>1 DEF FetchInv
    <3>3. Fetched(pc, f2d)' /\ Carried(d2e)'
      BY <2>2, <3>1, <3>2 DEF Fetched, Carried, NoFetch, IsWhole, IsRecord
    <3> QED BY <2>1, <2>3, <3>1, <3>3 DEF FetchInv
  <2>7. CASE Record \/ Replay \/ Detour
    <3>1. Clock \/ Reset
      BY <2>7 DEF Record, Replay, Detour, CountedClock, CountedReset
    <3>2. Fetched(pc, f2d)' /\ Carried(d2e)'
      BY <2>1, <3>1, ClockFetches, ResetFetches
    <3>3. snap' = snap /\ (mode' \in {"saved", "away"} => mode \in {"saved", "away"})
      BY <2>7 DEF Record, Replay, Detour
    <3>4. mode' \in {"saved", "away"} => Fetched(snap.pc, snap.f2d)' /\ Carried(snap.d2e)'
      BY <2>2, <3>3 DEF FetchInv, Fetched, Carried, NoFetch, IsWhole, IsRecord
    <3> QED BY <2>1, <2>3, <3>2, <3>4 DEF FetchInv
  <2> QED BY <1>3, <2>5, <2>6, <2>7 DEF SnapNext
<1> QED BY <1>1, <1>2, <1>3 DEF MachineNext, Proceed

(* The offset of a relocation, in words.                                   *)
LEMMA OffsetSplit ==
  ASSUME NEW f, NEW r, NEW v \in Int, v = f.symbols[r.sym].value, NEW a \in Int, a = r.addend,
         NEW n \in Int, n = r.at
  PROVE  /\ r.type = "jump" => Offset(f, r) = ((v + a) \div 2) - n - 1
         /\ r.type = "branch" => Offset(f, r) = ((v + a) \div 2) - n - 2
<1> DEFINE t == v + a
<1>1. t \in Int /\ f.symbols[r.sym].value + r.addend = t
  OBVIOUS
<1> HIDE DEF t
<1>2. (t - (2 * n)) \div 2 = (t \div 2) - n
  BY <1>1
<1>3. Offset(f, r) = ((t - (2 * n)) \div 2) - (IF r.type = "branch" THEN 2 ELSE 1)
  BY <1>1 DEF Offset
<1> QED BY <1>1, <1>2, <1>3 DEF t

LEMMA FetchArrives == FetchInv => TransfersArrive
<1> SUFFICES ASSUME FetchInv, IsElf, NEW k \in DOMAIN file.relas, Feasible(file, k),
                    NEW r, r = file.relas[k],
                    d2e.pc = r.at + file.base,
                    \/ r.type = "jump" /\ d2e.ctl.flow = "j"
                    \/ r.type = "branch" /\ BranchTaken /\ f2d.pc = d2e.pc + 1
             PROVE  FetchPC = (file.symbols[r.sym].value + r.addend) \div 2 + file.base
  BY Zenon DEF TransfersArrive
<1> DEFINE t == file.symbols[r.sym].value + r.addend
           o == SignExt12(Address(d2e.ireg))
<1>1. file \in Files /\ file.format = "elf" /\ prog = LoadedText(file)
  BY DEF FetchInv, IsElf
<1>2. /\ file.relas \in Seq(Relocations) /\ file.base \in Nat
      /\ r.sym \in DOMAIN file.symbols /\ file.symbols[r.sym].value \in Nat
  BY <1>1, LoaderAssumption DEF Feasible, Alone, IsObject
<1>3. r.at \in Nat /\ r.addend \in Int /\ t \in Int
  <2>1. r \in Relocations
    BY <1>2
  <2>2. r.at \in Nat /\ r.addend \in Int
    BY <2>1 DEF Relocations
  <2> QED BY <1>2, <2>2
<1>4. d2e.ctl.flow \in {"j", "bz", "bhleq"} /\ (r.type = "branch" => d2e.ctl.flow # "j")
  BY DEF BranchTaken
<1>5. d2e.ireg = FetchWord(prog, d2e.pc)
  BY <1>4 DEF FetchInv, Carried
<1>6. r.type \in {"jump", "branch"}
  OBVIOUS
<1>7. o = Offset(file, r)
  BY <1>1, <1>5, <1>6, TransferPatched
<1>8. ~IntTaken /\ ~SyscallTaken /\ d2e.ctl.flow \notin {"reti", "jr"}
  BY <1>4 DEF IntTaken, SyscallTaken
<1> HIDE DEF o
<1> DEFINE v == file.symbols[r.sym].value
           u == t \div 2
<1>9. /\ u \in Int /\ r.at \in Int /\ file.base \in Int
      /\ r.type = "jump" => o = u - r.at - 1
      /\ r.type = "branch" => o = u - r.at - 2
  <2>1. v \in Int /\ r.addend \in Int /\ r.at \in Int /\ t \in Int /\ file.base \in Int
    BY <1>2, <1>3
  <2>2. /\ r.type = "jump" => Offset(file, r) = u - r.at - 1
        /\ r.type = "branch" => Offset(file, r) = u - r.at - 2
    BY <2>1, OffsetSplit
  <2>3. u \in Int
    <3> HIDE DEF t
    <3> QED BY <2>1
  <2> HIDE DEF u
  <2> QED BY <1>7, <2>1, <2>2, <2>3
<1>10. CASE r.type = "jump"
  <2>1. d2e.ctl.flow = "j"
    BY <1>10
  <2>2. FetchPC = d2e.jDest
    BY <1>8, <2>1 DEF FetchPC
  <2>3. d2e.jDest = d2e.pc + 1 + o
    BY <2>1 DEF FetchInv, Carried, o
  <2> HIDE DEF u, t
  <2>4. FetchPC = u + file.base
    BY <1>9, <1>10, <2>2, <2>3
  <2> QED BY <2>4 DEF u, t
<1>11. CASE r.type = "branch"
  <2>1. d2e.ctl.flow # "j" /\ BranchTaken /\ f2d.pc = d2e.pc + 1
    BY <1>4, <1>11
  <2>2. FetchPC = pc + o
    BY <1>8, <2>1 DEF FetchPC, o
  <2>3. f2d # NoFetch
    BY <1>2, <1>3, <2>1 DEF NoFetch
  <2>4. pc = d2e.pc + 1 + 1
    BY <2>1, <2>3 DEF FetchInv, Fetched
  <2> HIDE DEF u, t
  <2>5. FetchPC = u + file.base
    BY <1>9, <1>11, <2>2, <2>4
  <2> QED BY <2>5 DEF u, t
<1> QED BY <1>6, <1>10, <1>11

(* When a relocated transfer redirects the fetch, the word its symbol      *)
(* names is fetched: for every object file, whatever its sections and      *)
(* relocations, at any time in a session with resets and snapshots.  The   *)
(* exceptions are those that TransfersArrive names.                        *)
THEOREM TransfersReachTheirSymbols == MachineSpec => []TransfersArrive
BY FetchStarts, FetchKept, FetchArrives, PTL DEF MachineSpec

-----------------------------------------------------------------------------
(* Data and types, from the file to the memories: where the sections are,  *)
(* the words they hold, and the widths of everything a file brings.        *)

(* What a run of the loader's folds has counted and patched keeps its type. *)
LEMMA PrefixOf ==
  ASSUME NEW S, NEW q \in Seq(S), NEW n \in 0 .. Len(q)
  PROVE  /\ DOMAIN SubSeq(q, 1, n) = 1 .. n
         /\ \A i \in 1 .. n : SubSeq(q, 1, n)[i] = q[i]
OBVIOUS

LEMMA WordsCounted ==
  ASSUME NEW x \in Sections
  PROVE  /\ Words(x) \in Nat
         /\ \A w \in 0 .. Words(x) - 1 : 2 * w + 1 \in DOMAIN x.bytes /\ 2 * w + 2 \in DOMAIN x.bytes
         /\ \A o \in Nat : o + 2 =< Len(x.bytes) => o \div 2 \in 0 .. Words(x) - 1
<1>1. x.bytes \in Seq(0 .. 255)
  BY DEF Sections
<1>2. Len(x.bytes) \in Nat /\ DOMAIN x.bytes = 1 .. Len(x.bytes)
  BY <1>1
<1> DEFINE n == Len(x.bytes)
<1>3. n \in Nat /\ DOMAIN x.bytes = 1 .. n /\ Words(x) = n \div 2
  BY <1>2 DEF Words
<1> HIDE DEF n
<1>4. n \div 2 \in Nat /\ 2 * (n \div 2) =< n
  BY <1>3
<1>5. \A w \in 0 .. (n \div 2) - 1 : 2 * w + 1 \in 1 .. n /\ 2 * w + 2 \in 1 .. n
  BY <1>3, <1>4
<1>6. \A o \in Nat : o + 2 =< n => o \div 2 \in 0 .. (n \div 2) - 1
  BY <1>3
<1> QED BY <1>3, <1>4, <1>5, <1>6 DEF n

LEMMA WordTyped ==
  ASSUME NEW x \in Sections, NEW w \in 0 .. Words(x) - 1
  PROVE  WordOf(x, w) \in Word
<1>1. x.bytes \in Seq(0 .. 255)
  BY DEF Sections
<1>2. 2 * w + 1 \in DOMAIN x.bytes /\ 2 * w + 2 \in DOMAIN x.bytes
  BY WordsCounted
<1>3. x.bytes[2 * w + 1] \in 0 .. 255 /\ x.bytes[2 * w + 2] \in 0 .. 255
  BY <1>1, <1>2
<1>4. ASSUME NEW a \in 0 .. 255, NEW b \in 0 .. 255 PROVE a + 256 * b \in Word
  BY WordBounds
<1> QED BY <1>3, <1>4 DEF WordOf

(* Where a section begins: the next one begins where it ends.              *)
LEMMA BasesFollow ==
  ASSUME NEW f, f.sections \in Seq(Sections)
  PROVE  \E c : /\ c[0] = 0
                /\ \A n \in Nat : n + 1 \in DOMAIN f.sections =>
                     c[n + 1] = c[n] + Words(f.sections[n + 1])
                /\ \A n \in 0 .. Len(f.sections) :
                     c[n] \in Nat /\ Base(f, n + 1) = DataBase + c[n]
<1> DEFINE q == f.sections
           m == Len(q)
<1>1. m \in Nat /\ DOMAIN q = 1 .. m
  OBVIOUS
<1>2. PICK c : IsRun("data", f, q, c)
  BY <1>1, FoldRuns
<1>3. c[0] = 0
  BY <1>2 DEF IsRun, First
<1>4. \A n \in Nat : n + 1 \in DOMAIN q => c[n + 1] = c[n] + Words(q[n + 1])
  BY <1>2 DEF IsRun, Apply
<1>5. \A n \in 1 .. m : q[n] \in Sections
  BY <1>1
<1> HIDE DEF q, m
<1>6. \A n \in 0 .. m : c[n] \in Nat
  <2> DEFINE S == { n \in Nat : n =< m => c[n] \in Nat }
  <2>1. 0 \in S
    BY <1>3
  <2>2. ASSUME NEW n \in Nat, n \in S PROVE n + 1 \in S
    <3> SUFFICES ASSUME n + 1 =< m PROVE c[n + 1] \in Nat
      OBVIOUS
    <3>1. c[n] \in Nat /\ n + 1 \in DOMAIN q /\ n + 1 \in 1 .. m
      BY <1>1, <2>2
    <3>2. Words(q[n + 1]) \in Nat
      BY <1>5, <3>1, WordsCounted
    <3> QED BY <1>4, <3>1, <3>2
  <2> HIDE DEF S
  <2>3. Nat \subseteq S
    BY <2>1, <2>2, InductiveSet
  <2> QED BY <1>1, <2>3 DEF S
<1>7. ASSUME NEW n \in 0 .. m PROVE Base(f, n + 1) = DataBase + c[n]
  <2> DEFINE p == SubSeq(q, 1, n)
  <2>1. DOMAIN p = 1 .. n /\ \A i \in 1 .. n : p[i] = q[i]
    BY PrefixOf DEF q, m
  <2> HIDE DEF p
  <2>2. PICK d : IsRun("data", f, p, d) /\ FoldOf("data", f, p) = d[n]
    BY <2>1, FoldRuns
  <2> DEFINE S == { i \in Nat : i =< n => d[i] = c[i] }
  <2>3. 0 \in S
    BY <1>3, <2>2 DEF IsRun, First
  <2>4. ASSUME NEW i \in Nat, i \in S PROVE i + 1 \in S
    <3> SUFFICES ASSUME i + 1 =< n PROVE d[i + 1] = c[i + 1]
      OBVIOUS
    <3>1. d[i] = c[i] /\ i + 1 \in 1 .. n /\ i + 1 \in DOMAIN p /\ i + 1 \in DOMAIN q
      BY <1>1, <2>1, <2>4
    <3>2. d[i + 1] = d[i] + Words(p[i + 1])
      BY <2>2, <3>1 DEF IsRun, Apply
    <3> QED BY <1>4, <2>1, <3>1, <3>2
  <2> HIDE DEF S
  <2>5. Nat \subseteq S
    BY <2>3, <2>4, InductiveSet
  <2>6. d[n] = c[n]
    BY <2>5 DEF S
  <2>7. n + 1 - 1 = n
    OBVIOUS
  <2>8. Base(f, n + 1) = DataBase + FoldOf("data", f, p)
    BY <2>7, BaseIsFold DEF p, q
  <2> QED BY <2>2, <2>6, <2>8
<1> QED BY <1>3, <1>4, <1>6, <1>7 DEF q, m

LEMMA SectionsApart ==
  ASSUME NEW f, f.sections \in Seq(Sections)
  PROVE  /\ \A s \in DOMAIN f.sections : Base(f, s) \in Nat /\ DataBase =< Base(f, s)
         /\ \A s \in DOMAIN f.sections, t \in DOMAIN f.sections :
              s < t => Base(f, s) + Words(f.sections[s]) =< Base(f, t)
<1> DEFINE q == f.sections
           m == Len(q)
<1>1. m \in Nat /\ DOMAIN q = 1 .. m
  OBVIOUS
<1>2. \A n \in 1 .. m : Words(q[n]) \in Nat
  BY <1>1, WordsCounted
<1>3. PICK c : /\ c[0] = 0
               /\ \A n \in Nat : n + 1 \in DOMAIN q => c[n + 1] = c[n] + Words(q[n + 1])
               /\ \A n \in 0 .. m : c[n] \in Nat /\ Base(f, n + 1) = DataBase + c[n]
  BY BasesFollow
<1> HIDE DEF q, m
<1>4. ASSUME NEW s \in 1 .. m
      PROVE  /\ s - 1 \in 0 .. m /\ Base(f, s) = DataBase + c[s - 1] /\ c[s - 1] \in Nat
             /\ c[s] = c[s - 1] + Words(q[s]) /\ c[s] \in Nat
  <2> DEFINE n == s - 1
  <2>1. n \in Nat /\ n \in 0 .. m /\ n + 1 = s /\ s \in 0 .. m
    BY <1>1
  <2> HIDE DEF n
  <2> QED BY <1>1, <1>3, <2>1 DEF n
<1>5. DataBase \in Nat
  BY DEF DataBase
<1>6. ASSUME NEW s \in 1 .. m, NEW t \in 1 .. m, s < t
      PROVE  c[s] =< c[t - 1]
  <2> DEFINE S == { n \in Nat : s + n =< m => c[s] =< c[s + n] }
  <2>1. 0 \in S
    BY <1>4
  <2>2. ASSUME NEW n \in Nat, n \in S PROVE n + 1 \in S
    <3> SUFFICES ASSUME s + (n + 1) =< m PROVE c[s] =< c[s + (n + 1)]
      OBVIOUS
    <3> DEFINE u == s + (n + 1)
    <3>1. u \in 1 .. m /\ u - 1 = s + n /\ s + n \in 1 .. m
      BY <1>1
    <3>2. c[s] =< c[s + n]
      BY <1>1, <2>2, <3>1
    <3> HIDE DEF u
    <3>3. c[u] = c[s + n] + Words(q[u]) /\ c[s + n] \in Nat /\ c[u] \in Nat /\ c[s] \in Nat
      BY <1>4, <3>1
    <3>4. c[s] =< c[u]
      BY <1>2, <3>1, <3>2, <3>3
    <3> QED BY <3>4 DEF u
  <2> HIDE DEF S
  <2>3. Nat \subseteq S
    BY <2>1, <2>2, InductiveSet
  <2>4. t - 1 - s \in Nat /\ s + (t - 1 - s) = t - 1 /\ t - 1 =< m
    BY <1>1, <1>6
  <2> QED BY <2>3, <2>4 DEF S
<1>7. \A s \in 1 .. m : Base(f, s) \in Nat /\ DataBase =< Base(f, s)
  BY <1>4, <1>5
<1>8. ASSUME NEW s \in 1 .. m, NEW t \in 1 .. m, s < t
      PROVE  Base(f, s) + Words(q[s]) =< Base(f, t)
  <2>1. Base(f, s) = DataBase + c[s - 1] /\ c[s - 1] \in Nat /\ c[s] = c[s - 1] + Words(q[s])
    BY <1>4
  <2>2. Base(f, t) = DataBase + c[t - 1] /\ c[t - 1] \in Nat
    BY <1>4
  <2>3. c[s] =< c[t - 1] /\ Words(q[s]) \in Nat
    BY <1>2, <1>6, <1>8
  <2> QED BY <1>5, <2>1, <2>2, <2>3
<1>9. \A s \in DOMAIN q, t \in DOMAIN q : s < t => Base(f, s) + Words(q[s]) =< Base(f, t)
  BY <1>1, <1>8, Zenon
<1>10. \A s \in DOMAIN q : Base(f, s) \in Nat /\ DataBase =< Base(f, s)
  BY <1>1, <1>7, Zenon
<1> QED BY <1>9, <1>10, Zenon DEF q

(* A word of a section that fits is where the loader says it is: no other  *)
(* section's word is there, and a .bss has no content but zeros.           *)
LEMMA WordsLoaded ==
  ASSUME NEW f, IsObject(f), NEW s \in Placed(f), NEW w \in 0 .. Words(f.sections[s]) - 1,
         Base(f, s) + Words(f.sections[s]) =< DMemSize
  PROVE  DRead(LoadedData(f), Base(f, s) + w) = WordOf(f.sections[s], w)
<1> DEFINE x == f.sections[s]
           a == Base(f, s) + w
           all == LoadedCells(f)
           cells == { c \in all : Base(f, c[1]) + c[2] < DMemSize }
<1>1. /\ f.sections \in Seq(Sections) /\ s \in DOMAIN f.sections /\ x \in Sections
      /\ Words(x) \in Nat /\ Base(f, s) \in Nat
  <2>1. f.sections \in Seq(Sections) /\ s \in DOMAIN f.sections
    BY DEF IsObject, Placed
  <2>2. x \in Sections
    BY <2>1
  <2> QED BY <2>1, <2>2, WordsCounted, SectionsApart
<1>2. a \in Nat /\ a < DMemSize
  BY <1>1 DEF DMemSize
<1>3. ASSUME NEW c \in all
      PROVE  \E t \in Placed(f) : /\ f.sections[t].kind = "data"
               /\ \E v \in 0 .. Words(f.sections[t]) - 1 : c = <<t, v>>
  BY DEF LoadedCells
<1>4. ASSUME NEW t \in Placed(f), NEW v \in 0 .. Words(f.sections[t]) - 1,
             Base(f, t) + v = a
      PROVE  t = s /\ v = w
  <2>1. t \in DOMAIN f.sections /\ f.sections[t] \in Sections
    BY <1>1 DEF Placed
  <2>2. Words(f.sections[t]) \in Nat /\ Base(f, t) \in Nat
    BY <1>1, <2>1, WordsCounted, SectionsApart
  <2>3. /\ s < t => Base(f, s) + Words(x) =< Base(f, t)
        /\ t < s => Base(f, t) + Words(f.sections[t]) =< Base(f, s)
    BY <1>1, <2>1, SectionsApart
  <2>4. t \in Int /\ s \in Int
    BY <1>1, <2>1
  <2>5. ~(s < t) /\ ~(t < s)
    BY <1>1, <1>4, <2>2, <2>3
  <2>6. t = s
    BY <2>4, <2>5
  <2> QED BY <1>1, <1>4, <2>6
<1>5. \A c \in cells : Base(f, c[1]) + c[2] = a => c = <<s, w>> /\ x.kind = "data"
  BY <1>3, <1>4
<1>6. DOMAIN LoadedData(f) = { Base(f, c[1]) + c[2] : c \in cells }
  BY DEF LoadedData
<1>7. CASE x.kind = "data"
  <2> DEFINE d == <<s, w>>
  <2>1. d \in all
    BY <1>7 DEF LoadedCells
  <2>2. d \in cells
    BY <1>2, <2>1
  <2>3. a \in DOMAIN LoadedData(f)
    BY <1>6, <2>2
  <2> DEFINE e == CHOOSE c \in cells : Base(f, c[1]) + c[2] = a
  <2>4. e \in cells /\ Base(f, e[1]) + e[2] = a
    BY <2>2
  <2>5. e = d
    <3> HIDE DEF e, cells
    <3> QED BY <1>5, <2>4
  <2>6. LoadedData(f)[a] = WordOf(f.sections[e[1]], e[2])
    BY <1>6, <2>3 DEF LoadedData
  <2>7. LoadedData(f)[a] = WordOf(x, w)
    <3> HIDE DEF e
    <3> QED BY <2>5, <2>6
  <2> HIDE DEF a, x
  <2>8. ~(a > DMemSize)
    BY <1>2 DEF DMemSize
  <2>9. DRead(LoadedData(f), a) = WordOf(x, w)
    BY <2>3, <2>7, <2>8 DEF DRead
  <2> QED BY <2>9 DEF a, x
<1>8. CASE x.kind = "bss"
  <2>1. a \notin DOMAIN LoadedData(f)
    <3> HIDE DEF cells, x, a
    <3> QED BY <1>5, <1>6, <1>8
  <2>2. DRead(LoadedData(f), a) = 0
    <3> HIDE DEF a
    <3> QED BY <1>2, <2>1 DEF DRead, DMemSize
  <2>3. 2 * w + 1 \in DOMAIN x.bytes /\ 2 * w + 2 \in DOMAIN x.bytes
    BY <1>1, WordsCounted
  <2>4. x.bytes[2 * w + 1] = 0 /\ x.bytes[2 * w + 2] = 0
    BY <1>1, <1>8, <2>3 DEF IsObject
  <2>5. WordOf(x, w) = 0
    BY <2>4 DEF WordOf
  <2> QED BY <2>2, <2>5
<1>9. x.kind \in {"data", "bss"}
  BY <1>1 DEF Sections
<1> QED BY <1>7, <1>8, <1>9

(* What the loader leaves in the memories.                                 *)
LEMMA DataTyped ==
  ASSUME NEW f, IsObject(f)
  PROVE  IsMemory(LoadedData(f))
<1> DEFINE all == LoadedCells(f)
           cells == { c \in all : Base(f, c[1]) + c[2] < DMemSize }
<1>1. f.sections \in Seq(Sections)
  BY DEF IsObject
<1>2. ASSUME NEW c \in cells
      PROVE  Base(f, c[1]) + c[2] \in Word /\ WordOf(f.sections[c[1]], c[2]) \in Word
  <2>1. PICK s \in Placed(f) : \E w \in 0 .. Words(f.sections[s]) - 1 : c = <<s, w>>
    BY DEF LoadedCells
  <2>2. PICK w \in 0 .. Words(f.sections[s]) - 1 : c = <<s, w>>
    BY <2>1
  <2>3. s \in DOMAIN f.sections /\ f.sections[s] \in Sections
    BY <1>1 DEF Placed
  <2>4. WordOf(f.sections[s], w) \in Word
    BY <2>2, <2>3, WordTyped
  <2>5. Base(f, s) \in Nat /\ w \in Nat /\ Base(f, s) + w < DMemSize
    BY <1>1, <2>2, <2>3, SectionsApart
  <2>6. Base(f, s) + w \in Word
    BY <2>5, WordBounds DEF DMemSize
  <2> QED BY <2>2, <2>4, <2>6
<1> DEFINE at(c) == Base(f, c[1]) + c[2]
           cell(a) == CHOOSE c \in cells : at(c) = a
           value(a) == WordOf(f.sections[cell(a)[1]], cell(a)[2])
<1>3. LoadedData(f) = [a \in { at(c) : c \in cells } |-> value(a)]
  BY DEF LoadedData
<1> HIDE DEF cells
<1>4. ASSUME NEW a \in { at(c) : c \in cells } PROVE a \in Word /\ value(a) \in Word
  <2>1. PICK c \in cells : a = at(c)
    OBVIOUS
  <2>2. cell(a) \in cells /\ at(cell(a)) = a
    BY <2>1
  <2> HIDE DEF cell
  <2> QED BY <1>2, <2>1, <2>2
<1> HIDE DEF value, at
<1> QED BY <1>3, <1>4 DEF IsMemory

LEMMA BytePatched ==
  ASSUME NEW i \in Instr, NEW x \in Int
  PROVE  /\ WithByte(i, x) \in Instr /\ Byte(WithByte(i, x)) = x % 256
         /\ WithByte(i, x).op = i.op /\ WithByte(i, x).a = i.a
<1> DEFINE v == (x \div 16) % 16
           w == x % 16
           i1 == [i EXCEPT !.b = v]
           i2 == [i1 EXCEPT !.f = w]
<1>1. v \in Nibble /\ w \in Nibble /\ 16 * v + w = x % 256
  <2>1. v \in Nibble /\ w \in Nibble
    BY DEF Nibble
  <2>2. 16 * v + w = x % 256
    OBVIOUS
  <2> QED BY <2>1, <2>2
<1> HIDE DEF v, w
<1>2. WithByte(i, x) = i2
  BY DEF WithByte, Instr, v, w
<1>3. i1 \in Instr /\ i1.op = i.op /\ i1.a = i.a
  BY <1>1 DEF Instr
<1> HIDE DEF i1
<1>4. i2 \in Instr /\ i2.op = i1.op /\ i2.a = i1.a
  BY <1>1, <1>3 DEF Instr
<1>5. i2.b = v /\ i2.f = w
  <2>1. i1.b = v
    BY DEF i1, Instr
  <2> QED BY <1>3, <2>1 DEF Instr
<1> HIDE DEF i2
<1>6. Byte(i2) = x % 256
  BY <1>1, <1>5 DEF Byte
<1> QED BY <1>2, <1>3, <1>4, <1>6

LEMMA ResolveTyped ==
  ASSUME NEW f, IsObject(f), NEW r \in Relocations, r.sym \in DOMAIN f.symbols
  PROVE  Resolve(f, r) \in Int /\ Offset(f, r) \in Int
<1> DEFINE t == f.symbols[r.sym]
<1>1. t.value \in Nat /\ r.addend \in Int /\ r.at \in Nat
  BY DEF IsObject, Relocations
<1>2. t.section \in Placed(f) => Base(f, t.section) \in Nat
  BY SectionsApart DEF IsObject, Placed
<1>3. Resolve(f, r) \in Int
  <2> HIDE DEF t
  <2> QED BY <1>1, <1>2 DEF Resolve, t
<1>4. Offset(f, r) \in Int
  BY <1>1 DEF Offset
<1> QED BY <1>3, <1>4

LEMMA PatchTyped ==
  ASSUME NEW f, IsObject(f), NEW r \in Relocations, r.sym \in DOMAIN f.symbols,
         NEW i \in Instr
  PROVE  Patched(f, r, i) \in Instr
<1>1. Resolve(f, r) \in Int /\ Offset(f, r) \in Int
  BY ResolveTyped
<1>2. ASSUME NEW x \in Int PROVE WithAddress(i, x % 4096) \in Instr
  <2>1. x % 4096 \in Int /\ 0 =< x % 4096 /\ x % 4096 < 4096
    OBVIOUS
  <2> QED BY <2>1, AddressPatched
<1>3. Resolve(f, r) \div 256 \in Int
  BY <1>1
<1> QED BY <1>1, <1>2, <1>3, BytePatched DEF Patched

LEMMA TextTyped ==
  ASSUME NEW f, IsObject(f)
  PROVE  IsProgram(RelocatedText(f)) /\ IsProgram(LoadedText(f))
<1> DEFINE q == f.relas
           m == Len(q)
<1>1. /\ m \in Nat /\ DOMAIN q = 1 .. m /\ \A n \in 1 .. m : q[n] \in Relocations
      /\ IsProgram(f.text) /\ f.base \in Nat
  BY DEF IsObject
<1> HIDE DEF q, m
<1>2. PICK c : IsRun("text", f, q, c) /\ FoldOf("text", f, q) = c[m]
  BY <1>1, FoldRuns
<1> DEFINE S == { n \in Nat : n =< m => IsProgram(c[n]) }
<1>3. 0 \in S
  BY <1>1, <1>2 DEF IsRun, First
<1>4. ASSUME NEW n \in Nat, n \in S PROVE n + 1 \in S
  <2> SUFFICES ASSUME n + 1 =< m PROVE IsProgram(c[n + 1])
    OBVIOUS
  <2> DEFINE t == c[n]
             r == q[n + 1]
  <2>1. n + 1 \in 1 .. m /\ n =< m
    BY <1>1
  <2>2. IsProgram(t) /\ r \in Relocations /\ c[n + 1] = Relocate(f, t, r)
    BY <1>1, <1>2, <1>4, <2>1 DEF IsRun, Apply
  <2> HIDE DEF t, r
  <2>3. ASSUME r.sym \in DOMAIN f.symbols, NEW i \in Instr PROVE Patched(f, r, i) \in Instr
    BY <2>2, <2>3, PatchTyped
  <2> QED BY <2>2, <2>3 DEF Relocate, IsProgram
<1> HIDE DEF S
<1>5. Nat \subseteq S
  BY <1>3, <1>4, InductiveSet
<1>6. IsProgram(RelocatedText(f))
  BY <1>1, <1>2, <1>5, TextIsFold DEF S, q
<1>7. IsProgram(LoadedText(f))
  <2> DEFINE t == RelocatedText(f)
             D == { w + f.base : w \in DOMAIN t } \cap 0 .. IMemSize - 1
  <2>1. LoadedText(f) = [n \in D |-> t[n - f.base]]
    BY DEF LoadedText
  <2>2. ASSUME NEW n \in D PROVE n \in Nat /\ t[n - f.base] \in Instr
    <3>1. PICK w \in DOMAIN t : n = w + f.base
      OBVIOUS
    <3> HIDE DEF t
    <3>2. w \in Nat /\ t[w] \in Instr
      BY <1>6 DEF IsProgram, t
    <3>3. n - f.base = w /\ n \in Nat
      BY <1>1, <3>1, <3>2
    <3> QED BY <3>2, <3>3
  <2> HIDE DEF t, D
  <2> QED BY <2>1, <2>2 DEF IsProgram
<1> QED BY <1>6, <1>7

LEMMA InstrTyped == \A x \in 0 .. 255 : InstrOf(x) \in Instr
<1> SUFFICES ASSUME NEW x \in 0 .. 255 PROVE InstrOf(x) \in Instr
  OBVIOUS
<1>1. x \div 4096 \in Nibble /\ (x \div 256) % 16 \in Nibble
  BY DEF Nibble
<1>2. (x \div 16) % 16 \in Nibble /\ x % 16 \in Nibble
  BY DEF Nibble
<1> QED BY <1>1, <1>2 DEF InstrOf, Instr

LEMMA SeqElements ==
  ASSUME NEW S, NEW e \in Seq(S)
  PROVE  Len(e) \in Nat /\ DOMAIN e = 1 .. Len(e) /\ \A n \in DOMAIN e : e[n] \in S
OBVIOUS

IsReading(st) ==
  /\ IsProgram(st.prog) /\ st.line \in Nat
  /\ st = [prog |-> st.prog, line |-> st.line, status |-> st.status]

LEMMA LineTyped ==
  ASSUME NEW l, IsLine(l), NEW st, IsReading(st), NEW k
  PROVE  IsReading(ReadLine(k, st, l))
<1> DEFINE taken(words) == [st EXCEPT !.prog = Overwritten(@, words), !.line = @ + 1]
           hex == k = "hex" /\ l.kind = "hex"
<1>1. ASSUME NEW words, IsProgram(words) PROVE IsReading(taken(words))
  <2> DEFINE p == Overwritten(st.prog, words)
  <2>1. IsProgram(p)
    <3>1. DOMAIN words \subseteq Nat /\ \A n \in DOMAIN words : words[n] \in Instr
      BY <1>1 DEF IsProgram
    <3>2. DOMAIN st.prog \subseteq Nat /\ \A n \in DOMAIN st.prog : st.prog[n] \in Instr
      BY DEF IsReading, IsProgram
    <3>3. DOMAIN p = DOMAIN words \cup DOMAIN st.prog
      BY DEF Overwritten
    <3>4. \A n \in DOMAIN p : p[n] = IF n \in DOMAIN words THEN words[n] ELSE st.prog[n]
      BY DEF Overwritten
    <3> HIDE DEF p
    <3> QED BY <3>1, <3>2, <3>3, <3>4 DEF IsProgram
  <2>2. taken(words) = [prog |-> p, line |-> st.line + 1, status |-> st.status]
    <3> DEFINE h == st.prog
               i == st.line
               u == st.status
    <3>1. st = [prog |-> h, line |-> i, status |-> u]
      BY DEF IsReading
    <3> HIDE DEF h, i, u
    <3> DEFINE j == i + 1
               s1 == [st EXCEPT !.prog = p]
               s2 == [s1 EXCEPT !.line = j]
    <3> HIDE DEF p, j
    <3>2. s1 = [prog |-> p, line |-> i, status |-> u]
      BY <3>1
    <3>3. s2 = [prog |-> p, line |-> j, status |-> u]
      <4> HIDE DEF s1
      <4> QED BY <3>2
    <3>4. [st EXCEPT !.prog = p, !.line = j] = s2
      BY Zenon
    <3>5. [st EXCEPT !.prog = p, !.line = i + 1] = [prog |-> p, line |-> i + 1, status |-> u]
      <4> HIDE DEF s2
      <4> QED BY <3>3, <3>4 DEF j
    <3>6. taken(words) = [st EXCEPT !.prog = p, !.line = i + 1]
      BY DEF h, i, p
    <3> QED BY <3>5, <3>6 DEF i, u
  <2>3. st.line + 1 \in Nat
    BY DEF IsReading
  <2> HIDE DEF p, taken
  <2> DEFINE i == st.line + 1
             u == st.status
             t == [prog |-> p, line |-> i, status |-> u]
  <2>4. t.prog = p /\ t.line = i /\ t.status = u
    OBVIOUS
  <2> HIDE DEF i, u
  <2>5. IsReading(t)
    BY <2>1, <2>3, <2>4 DEF IsReading, i
  <2> QED BY <2>2, <2>5 DEF i, u
<1>2. ASSUME NEW v PROVE IsReading([st EXCEPT !.status = v])
  <2>1. [st EXCEPT !.status = v] = [prog |-> st.prog, line |-> st.line, status |-> v]
    BY DEF IsReading
  <2> QED BY <2>1 DEF IsReading
<1>3. IsProgram(<<>>)
  BY DEF IsProgram
<1>4. ASSUME NEW n \in Nat, NEW w \in Instr PROVE IsProgram([i \in {n} |-> w])
  BY DEF IsProgram
<1>5. ASSUME l.kind = "hex", l.type # 1 PROVE IsProgram(HexWords(l))
  <2> DEFINE b == l.bytes
             a == l.addr
             D == a .. a + Len(b) \div 2 - 1
  <2>1. a \in Nat /\ b \in Seq(0 .. 255)
    BY <1>5 DEF IsLine
  <2>2. Len(b) \in Nat /\ \A n \in 1 .. Len(b) : b[n] \in 0 .. 255
    <3> HIDE DEF b
    <3>1. Len(b) \in Nat /\ DOMAIN b = 1 .. Len(b) /\ \A n \in DOMAIN b : b[n] \in 0 .. 255
      BY <2>1, SeqElements
    <3> QED BY <3>1
  <2>3. HexWords(l) = [n \in D |-> InstrOf(b[n - a + 1])]
    BY DEF HexWords
  <2>4. ASSUME NEW n \in D PROVE n \in Nat /\ InstrOf(b[n - a + 1]) \in Instr
    <3> HIDE DEF a, b
    <3>1. n \in Nat /\ n - a + 1 \in 1 .. Len(b)
      <4> DEFINE m == Len(b)
      <4>1. n \in a .. a + m \div 2 - 1 /\ m \in Nat
        BY <2>2
      <4> HIDE DEF m
      <4>2. m \div 2 =< m
        BY <4>1
      <4>3. n \in Nat /\ n - a + 1 \in 1 .. m
        BY <2>1, <4>1, <4>2
      <4> QED BY <4>3 DEF m
    <3> QED BY <2>2, <3>1, InstrTyped
  <2> HIDE DEF D, a, b
  <2> QED BY <2>3, <2>4 DEF IsProgram
<1>6. st.line \in Nat
  BY DEF IsReading
<1>7. /\ l.kind = "bin" => IsReading(taken([n \in {l.addr} |-> l.word]))
      /\ l.kind = "plain" => IsReading(taken([n \in {st.line} |-> l.word]))
      /\ l.kind = "hex" /\ l.type # 1 => IsReading(taken(HexWords(l)))
      /\ IsReading(taken(<<>>))
  <2>1. l.kind = "bin" => IsProgram([n \in {l.addr} |-> l.word])
    BY <1>4 DEF IsLine
  <2>2. l.kind = "plain" => IsProgram([n \in {st.line} |-> l.word])
    BY <1>4, <1>6 DEF IsLine
  <2> HIDE DEF taken
  <2> QED BY <1>1, <1>3, <1>5, <2>1, <2>2
<1>8. ReadLine(k, st, l) =
        IF st.status # "reading" THEN st
        ELSE CASE k \in {"hex", "bin"} /\ l.kind # k -> [st EXCEPT !.status = "aborted"]
               [] hex /\ l.type = 1 -> [st EXCEPT !.status = "ended"]
               [] hex /\ l.type # 1 /\ Len(l.bytes) % 2 = 1 -> [st EXCEPT !.status = "aborted"]
               [] hex /\ l.type # 1 /\ Len(l.bytes) % 2 = 0 -> taken(HexWords(l))
               [] k = "bin" /\ l.kind = "bin" -> taken([n \in {l.addr} |-> l.word])
               [] k = "plain" /\ l.kind = "plain" -> taken([n \in {st.line} |-> l.word])
               [] OTHER -> taken(<<>>)
  BY Zenon DEF ReadLine
<1>9. \/ ReadLine(k, st, l) = st
      \/ ReadLine(k, st, l) = [st EXCEPT !.status = "aborted"]
      \/ ReadLine(k, st, l) = [st EXCEPT !.status = "ended"]
      \/ ReadLine(k, st, l) = taken(<<>>)
      \/ l.kind = "hex" /\ l.type # 1 /\ ReadLine(k, st, l) = taken(HexWords(l))
      \/ l.kind = "bin" /\ ReadLine(k, st, l) = taken([n \in {l.addr} |-> l.word])
      \/ l.kind = "plain" /\ ReadLine(k, st, l) = taken([n \in {st.line} |-> l.word])
  <2> HIDE DEF taken
  <2> QED BY <1>8
<1> HIDE DEF taken, hex
<1> QED BY <1>2, <1>7, <1>9

LEMMA LinesTyped ==
  ASSUME NEW f, IsText(f)
  PROVE  IsProgram(ReadLines(f).prog)
<1> DEFINE q == f.lines
           m == Len(q)
<1>1. m \in Nat /\ DOMAIN q = 1 .. m /\ \A n \in DOMAIN q : IsLine(q[n])
  BY DEF IsText
<1> HIDE DEF m
<1>2. PICK c : IsRun("lines", f, q, c) /\ FoldOf("lines", f, q) = c[m]
  BY <1>1, FoldRuns
<1> DEFINE S == { n \in Nat : n =< m => IsReading(c[n]) }
<1>3. 0 \in S
  <2>1. c[0] = [prog |-> <<>>, line |-> 0, status |-> "reading"]
    BY <1>2 DEF IsRun, First
  <2>2. IsReading(c[0])
    BY <2>1 DEF IsReading, IsProgram
  <2> QED BY <2>2
<1>4. ASSUME NEW n \in Nat, n \in S PROVE n + 1 \in S
  <2> SUFFICES ASSUME n + 1 =< m PROVE IsReading(c[n + 1])
    OBVIOUS
  <2>1. n + 1 \in 1 .. m /\ n =< m
    BY <1>1
  <2>2. IsReading(c[n]) /\ IsLine(q[n + 1])
    BY <1>1, <1>4, <2>1
  <2>3. c[n + 1] = ReadLine(q[1].kind, c[n], q[n + 1])
    BY <1>1, <1>2, <2>1 DEF IsRun, Apply
  <2> HIDE DEF q, S
  <2> QED BY <2>2, <2>3, LineTyped
<1> HIDE DEF S
<1>5. Nat \subseteq S
  BY <1>3, <1>4, InductiveSet
<1>6. IsReading(c[m])
  BY <1>1, <1>5 DEF S
<1> QED BY <1>2, <1>6, LinesAreFold DEF q, IsReading

-----------------------------------------------------------------------------
(* Type correctness of the whole machine: what a file brings fits the      *)
(* memories, and so does what a snapshot brings back.                      *)
SnapTyped ==
  /\ snap.cycle \in 0 .. MaxCycles /\ snap.pc \in Int
  /\ snap.regs \in [Reg -> Word] /\ snap.hi \in Word /\ snap.lo \in Word /\ snap.sp \in Word
  /\ snap.epc \in Word /\ snap.eca \in Word /\ snap.ien \in BOOLEAN
  /\ IsMemory(snap.dmem)
  /\ snap.f2d \in F2DType /\ snap.d2e \in D2EType /\ snap.e2m \in E2MType
  /\ snap.m2w \in M2WType /\ snap.stallCtr \in 0 .. 1

TypeInv ==
  /\ TypeOK /\ file \in Files
  /\ mode \in {"saved", "away"} => SnapTyped

LEMMA TypeStarts == MachineInit => TypeInv
BY InitType DEF MachineInit, SnapInit, CInit, SInit, TypeInv

LEMMA LoadTyped == TypeInv /\ Load => TypeInv'
<1> SUFFICES ASSUME TypeInv, Load PROVE TypeInv'
  OBVIOUS
<1>1. /\ UNCHANGED <<cycle, regs, hi, lo, sp, zFlag, epc, eca, ien, intPin, latch>>
      /\ UNCHANGED <<file, mode, snap>> /\ file \in Files
  BY DEF Load, LoadElf, LoadText, session, arch, TypeInv
<1>2. IsProgram(prog') /\ IsMemory(dmem') /\ pc' \in Int
  <2>1. CASE LoadElf
    <3>1. prog' = LoadedText(file) /\ dmem' = LoadedData(file) /\ pc' = Entry(file)
      BY <2>1 DEF LoadElf
    <3>2. IsObject(file)
      BY <1>1, <2>1, LoaderAssumption DEF LoadElf
    <3>3. Entry(file) \in Int
      <4>1. \A s \in DOMAIN file.symbols : file.symbols[s].value \in Nat
        BY <3>2 DEF IsObject
      <4>2. \A v \in Nat : v \div 2 \in Int
        OBVIOUS
      <4> QED BY <4>1, <4>2 DEF Entry
    <3> QED BY <3>1, <3>2, <3>3, TextTyped, DataTyped
  <2>2. CASE LoadText
    <3>1. prog' = ReadLines(file).prog /\ dmem' = dmem /\ pc' = pc
      BY <2>2 DEF LoadText, arch
    <3>2. IsText(file)
      BY <1>1, <2>2, LoaderAssumption DEF LoadText
    <3> QED BY <3>1, <3>2, LinesTyped DEF TypeInv, TypeOK
  <2> QED BY <2>1, <2>2 DEF Load
<1>3. TypeOK'
  BY <1>1, <1>2 DEF TypeInv, TypeOK, latch
<1> QED BY <1>1, <1>3 DEF TypeInv, SnapTyped

LEMMA FiledType ==
  ASSUME TypeOK PROVE Filed(d2e) \in D2EType /\ Filed(e2m) \in E2MType
<1>1. d2e \in D2EType /\ e2m \in E2MType
  BY DEF TypeOK
<1>2. Filed(e2m) \in E2MType
  BY <1>1 DEF Filed, E2MType, CtlType, MemOps
<1>3. Filed(d2e) \in D2EType
  BY <1>1 DEF Filed, D2EType, CtlType, MemOps
<1> QED BY <1>2, <1>3

LEMMA RestoredType == TypeOK /\ SnapTyped /\ Restore => TypeOK'
<1> SUFFICES ASSUME TypeOK, SnapTyped, Restore PROVE TypeOK'
  OBVIOUS
<1>1. /\ cycle' \in 0 .. MaxCycles /\ pc' \in Int /\ stallCtr' \in 0 .. 1
      /\ hi' \in Word /\ lo' \in Word /\ sp' \in Word /\ epc' \in Word /\ eca' \in Word
      /\ f2d' \in F2DType /\ d2e' \in D2EType /\ e2m' \in E2MType /\ m2w' \in M2WType
  BY DEF Restore, SnapTyped
<1>2. IsProgram(prog')
  BY DEF Restore, TypeOK
<1>3. ien' \in BOOLEAN /\ zFlag' \in BOOLEAN /\ intPin' \in BOOLEAN
  BY Zenon DEF Restore, TypeOK, SnapTyped
<1>4. regs' \in [Reg -> Word]
  BY DEF Restore, TypeOK, SnapTyped, Reg
<1>5. IsMemory(dmem')
  BY DEF Restore, TypeOK, SnapTyped, IsMemory, RestoredMemory
<1> QED BY <1>1, <1>2, <1>3, <1>4, <1>5 DEF TypeOK

LEMMA SavedType == TypeOK /\ Save => SnapTyped'
<1> SUFFICES ASSUME TypeOK, Save PROVE SnapTyped'
  OBVIOUS
<1>1. snap' = Snap
  BY DEF Save
<1>2. /\ snap'.cycle = cycle /\ snap'.pc = pc /\ snap'.stallCtr = stallCtr
      /\ snap'.hi = hi /\ snap'.lo = lo /\ snap'.sp = sp
      /\ snap'.epc = epc /\ snap'.eca = eca /\ snap'.ien = ien
      /\ snap'.f2d = f2d /\ snap'.d2e = Filed(d2e) /\ snap'.e2m = Filed(e2m) /\ snap'.m2w = m2w
      /\ snap'.regs = [r \in Reg |-> RRead(regs, r)]
      /\ snap'.dmem = [n \in Listed(dmem) |-> dmem[n]]
  BY <1>1, Zenon DEF Snap
<1>3. snap'.regs \in [Reg -> Word]
  BY <1>2, RReadType DEF TypeOK
<1>4. IsMemory(snap'.dmem)
  BY <1>2 DEF TypeOK, IsMemory, Listed
<1>5. snap'.ien \in BOOLEAN
  BY <1>2 DEF TypeOK
<1> QED BY <1>2, <1>3, <1>4, <1>5, FiledType DEF TypeOK, SnapTyped

LEMMA TypeKept == TypeInv /\ [MachineNext]_mvars => TypeInv'
<1> SUFFICES ASSUME TypeInv, [MachineNext]_mvars PROVE TypeInv'
  OBVIOUS
<1>1. ASSUME UNCHANGED mvars PROVE TypeInv'
  <2>1. UNCHANGED <<vars, mode, snap, file>>
    BY <1>1 DEF mvars, session
  <2> QED BY <2>1 DEF TypeInv, TypeOK, SnapTyped, vars, arch, latch
<1>2. ASSUME SnapNext, file' = file PROVE TypeInv'
  <2>1. CASE Save
    <3>1. TypeOK'
      BY <2>1 DEF Save, TypeInv, TypeOK, vars, arch, latch
    <3> QED BY <1>2, <2>1, <3>1, SavedType DEF TypeInv
  <2>2. CASE Restore
    BY <1>2, <2>2, RestoredType DEF Restore, TypeInv
  <2>3. CASE Record \/ Replay \/ Detour
    <3>1. Clock \/ Reset
      BY <2>3 DEF Record, Replay, Detour, CountedClock, CountedReset
    <3>2. snap' = snap /\ (mode' \in {"saved", "away"} => mode \in {"saved", "away"})
      BY <2>3 DEF Record, Replay, Detour
    <3> QED BY <1>2, <3>1, <3>2, ClockType, ResetType DEF TypeInv, SnapTyped
  <2> QED BY <1>2, <2>1, <2>2, <2>3 DEF SnapNext
<1> QED BY <1>1, <1>2, LoadTyped DEF MachineNext, Proceed

(* The widths hold in a whole session, for every program file: whatever a  *)
(* file brings into the memories, and a snapshot back into the core.       *)
THEOREM MachineTypeCorrect == MachineSpec => []TypeOK
<1>1. TypeInv => TypeOK
  BY DEF TypeInv
<1> QED BY <1>1, TypeStarts, TypeKept, PTL DEF MachineSpec

-----------------------------------------------------------------------------
(* Variables, from the file to the register.  Every latch holds an         *)
(* instruction of the program; the controls of a load, of a LIU and of a   *)
(* store are those of their instruction; the word a LIU builds is forward- *)
(* ed to the instruction behind it; and a program that stores nothing has  *)
(* its data as they were loaded, in the memory and in the file.            *)
FromText(l) == l.ireg \in {NOP, FetchWord(prog, l.pc)}

Controlled(l) ==
  /\ FromText(l)
  /\ l.ctl.mem = "write" => MemCtl(l.ireg) = "write"
  /\ ~l.bubble /\ l.ireg.op = OP_LW => l.ctl.mem = "read" /\ l.ctl.sp = "none"
  /\ ~l.bubble /\ l.ireg.op = OP_LIU /\ l.sel # 0 => l.ctl.reg = "byteUpper"

UpperForwarded(d, m) ==
  ~m.bubble /\ m.ireg.op = OP_LIU /\ d.sel = m.sel /\ m.sel # 0 => d.opA \div 256 = Byte(m.ireg)

StoresNothing == \A n \in DOMAIN prog : MemCtl(prog[n]) # "write"

InitialData(mem) == \A a \in 0 .. DMemSize - 1 : DRead(mem, a) = DRead(LoadedData(file), a)

WordLoaded(m) ==
  ~m.bubble /\ m.ireg.op = OP_LW /\ m.alu.value < DMemSize =>
    m.memOut = DRead(LoadedData(file), m.alu.value)

DataKept(m, mem) ==
  IsElf /\ resets = 0 /\ StoresNothing => InitialData(mem) /\ WordLoaded(m)

LatchesRead(f, d, e, m) ==
  FromText(f) /\ Controlled(d) /\ Controlled(e) /\ FromText(m) /\ UpperForwarded(d, m)

ReadInv ==
  /\ FetchInv /\ TypeInv /\ resets \in Nat
  /\ phase # "loaded" => d2e.ireg = NOP /\ e2m.ireg = NOP /\ m2w.ireg = NOP
  /\ LatchesRead(f2d, d2e, e2m, m2w) /\ DataKept(m2w, dmem)
  /\ mode \in {"saved", "away"} =>
       LatchesRead(snap.f2d, snap.d2e, snap.e2m, snap.m2w) /\ DataKept(snap.m2w, snap.dmem)

LEMMA NopControls ==
  /\ NOP.op = OP_R /\ MemCtl(NOP) = "none" /\ MemCtl(ZeroWord) = "none"
BY DEF NOP, ZeroWord, MemCtl, IsStack, IsM1, OP_R, OP_SW, OP_STACK, OP_LW, OP_M1

LEMMA ControlsOf ==
  ASSUME NEW i
  PROVE  /\ i.op = OP_LW => MemCtl(i) = "read" /\ SpCtl(i) = "none"
         /\ i.op = OP_LIU => RegA(i) = i.a /\ RegCtl(i) = "byteUpper"
<1>1. i.op = OP_LW => MemCtl(i) = "read" /\ SpCtl(i) = "none"
  BY DEF MemCtl, SpCtl, IsStack, IsM1, OP_LW, OP_SW, OP_STACK, OP_M1
<1>2. i.op = OP_LIU => RegA(i) = i.a /\ RegCtl(i) = "byteUpper"
  BY DEF RegA, RegInFunc, RegCtl, IsM1, IsM4, IsStack, OP_LIU, OP_M1, OP_STACK, OP_LW, OP_JAL,
         OP_R, OP_S, OP_ADDI, OP_LIL
<1> QED BY <1>1, <1>2

LEMMA DecodedControls ==
  ASSUME NEW b \in BOOLEAN, NEW d, d = Decoded(b), FromText(f2d)
  PROVE  Controlled(d)
<1> DEFINE i == f2d.ireg
<1>1. /\ d.ctl = HandedCtl(b, Ctl(i)) /\ d.ireg = i /\ d.pc = f2d.pc
      /\ d.bubble = b /\ d.sel = RegA(i)
  BY Zenon DEF Decoded
<1>2. FromText(d)
  BY <1>1 DEF FromText
<1> HIDE DEF i
<1>3. CASE b
  BY <1>1, <1>2, <1>3 DEF Controlled, HandedCtl, NopCtl
<1>4. CASE ~b
  <2>1. d.ctl = Ctl(i)
    BY <1>1, <1>4 DEF HandedCtl
  <2>2. /\ d.ctl.mem = MemCtl(i) /\ d.ctl.sp = SpCtl(i)
        /\ d.ctl.reg = IF WritesReg(i) THEN RegCtl(i) ELSE "NOP"
    BY <2>1 DEF Ctl
  <2> QED BY <1>1, <1>2, <2>2, ControlsOf DEF Controlled, WritesReg
<1> QED BY <1>3, <1>4

LEMMA ClockReads ==
  ASSUME TypeOK, Clock, LatchesRead(f2d, d2e, e2m, m2w)
  PROVE  LatchesRead(f2d, d2e, e2m, m2w)'
<1>1. prog' = prog /\ d2e' = Decoded(Stalled \/ LoadUse) /\ e2m' = Executed(d2e)
      /\ m2w' = Accessed(e2m)
  BY DEF Clock
<1>2. FromText(f2d) /\ Controlled(d2e) /\ Controlled(e2m)
  BY DEF LatchesRead
<1>3. FromText(f2d)'
  <2>1. CASE Stalled
    BY <1>1, <1>2, <2>1 DEF Clock, FromText
  <2>2. CASE ~Stalled
    <3>1. f2d' = [ireg |-> FetchWord(prog, FetchPC), pc |-> FetchPC]
      BY <2>2 DEF Clock
    <3> HIDE DEF FetchPC
    <3>2. f2d'.ireg = FetchWord(prog, FetchPC) /\ f2d'.pc = FetchPC
      BY <3>1
    <3> QED BY <1>1, <3>2 DEF FromText
  <2> QED BY <2>1, <2>2
<1>4. Controlled(d2e)'
  <2> DEFINE b == Stalled \/ LoadUse
  <2>1. b \in BOOLEAN /\ d2e' = Decoded(b)
    BY <1>1
  <2> HIDE DEF b
  <2>2. Controlled(d2e')
    BY <1>2, <2>1, DecodedControls
  <2> QED BY <1>1, <2>2 DEF Controlled, FromText
<1>5. /\ e2m'.ireg = d2e.ireg /\ e2m'.pc = d2e.pc /\ e2m'.bubble = d2e.bubble
      /\ e2m'.ctl = d2e.ctl /\ e2m'.sel = d2e.sel
  BY <1>1, Zenon DEF Executed
<1>6. /\ m2w'.ireg = e2m.ireg /\ m2w'.pc = e2m.pc /\ m2w'.bubble = e2m.bubble
      /\ m2w'.sel = e2m.sel
  BY <1>1, Zenon DEF Accessed
<1>7. Controlled(e2m)'
  BY <1>1, <1>2, <1>5 DEF Controlled, FromText
<1>8. FromText(m2w)'
  BY <1>1, <1>2, <1>6 DEF Controlled, FromText
<1>9. UpperForwarded(d2e, m2w)'
  <2> DEFINE r == RegA(f2d.ireg)
  <2> SUFFICES ASSUME ~e2m.bubble, e2m.ireg.op = OP_LIU, r = e2m.sel, e2m.sel # 0
               PROVE  d2e'.opA \div 256 = Byte(e2m.ireg)
    <3>1. d2e'.sel = r
      BY <1>1, Zenon DEF Decoded
    <3> HIDE DEF r
    <3> QED BY <1>6, <3>1 DEF UpperForwarded
  <2>1. e2m.ctl.reg = "byteUpper"
    BY <1>2 DEF Controlled
  <2>2. d2e'.opA = Forwarded(r)
    BY <1>1, Zenon DEF Decoded
  <2> HIDE DEF r
  <2>3. Forwarded(r) = WriteValue(e2m, 65535)
    BY <2>1 DEF Forwarded, FwdFromEX, FwdValFromEX
  <2>4. WriteValue(e2m, 65535) = Byte(e2m.ireg) * 256 + (e2m.regaOut % 256)
    BY <2>1 DEF WriteValue
  <2>5. Byte(e2m.ireg) \in 0 .. 255 /\ e2m.regaOut \in Word
    BY E2MFields, ByteRange DEF TypeOK
  <2>6. \A x \in 0 .. 255, y \in Word : (x * 256 + (y % 256)) \div 256 = x
    BY WordBounds
  <2> QED BY <2>2, <2>3, <2>4, <2>5, <2>6
<1> QED BY <1>3, <1>4, <1>7, <1>8, <1>9 DEF LatchesRead

(* A program that stores nothing leaves the data as they were loaded.      *)
LEMMA CellBounds ==
  /\ \A v \in Word : v < DMemSize => v \in 0 .. DMemSize - 1
  /\ \A a \in 0 .. DMemSize - 1 : a \in Int /\ a # DMemSize /\ ~(a > DMemSize)
<1>1. \A a \in 0 .. DMemSize - 1 : a \in Int /\ a # DMemSize /\ ~(a > DMemSize)
  BY DEF DMemSize
<1>2. \A v \in Nat : v < DMemSize => v \in 0 .. DMemSize - 1
  <2>1. \A m \in Nat, v \in Nat : v < m => v \in 0 .. m - 1
    OBVIOUS
  <2>2. DMemSize \in Nat
    BY DEF DMemSize
  <2> QED BY <2>1, <2>2
<1>3. Word \subseteq Nat
  BY WordBounds
<1> QED BY <1>1, <1>2, <1>3

LEMMA FetchedStoresNothing ==
  ASSUME StoresNothing, NEW n PROVE MemCtl(FetchWord(prog, n)) # "write"
BY NopControls DEF StoresNothing, FetchWord

LEMMA ClockKeepsData ==
  ASSUME TypeOK, Clock, Controlled(e2m), DataKept(m2w, dmem), UNCHANGED <<file, phase, resets>>
  PROVE  DataKept(m2w, dmem)'
<1> SUFFICES ASSUME IsElf, resets = 0, StoresNothing, InitialData(dmem)
             PROVE  InitialData(dmem)' /\ WordLoaded(m2w)'
  BY DEF DataKept, IsElf, StoresNothing, Clock
<1>1. e2m.ctl.mem # "write"
  BY FetchedStoresNothing, NopControls DEF Controlled, FromText
<1>2. InitialData(dmem)'
  BY <1>1 DEF Clock, Stored, InitialData
<1>3. WordLoaded(m2w)'
  <2>1. /\ m2w'.ireg = e2m.ireg /\ m2w'.bubble = e2m.bubble /\ m2w'.alu = e2m.alu
        /\ m2w'.memOut = Loaded(e2m)
    BY Zenon DEF Clock, Accessed
  <2> SUFFICES ASSUME ~e2m.bubble, e2m.ireg.op = OP_LW, e2m.alu.value < DMemSize
               PROVE  Loaded(e2m) = DRead(LoadedData(file), e2m.alu.value)
    BY <2>1 DEF WordLoaded
  <2>2. e2m.ctl.mem = "read" /\ e2m.ctl.sp = "none"
    BY DEF Controlled
  <2>3. Loaded(e2m) = DRead(dmem, e2m.alu.value)
    BY <2>2 DEF Loaded, MemAddr
  <2>4. e2m.alu.value \in 0 .. DMemSize - 1
    BY E2MFields, CellBounds DEF TypeOK
  <2> QED BY <2>3, <2>4 DEF InitialData
<1> QED BY <1>2, <1>3

LEMMA QuietedReads ==
  ASSUME TypeOK
  PROVE  /\ QuietedD2E.ireg = d2e.ireg /\ QuietedD2E.pc = d2e.pc /\ QuietedD2E.bubble = TRUE
         /\ QuietedD2E.ctl.mem = d2e.ctl.mem
         /\ Quieted(e2m).ireg = e2m.ireg /\ Quieted(e2m).pc = e2m.pc /\ Quieted(e2m).bubble = TRUE
         /\ Quieted(e2m).ctl.mem = e2m.ctl.mem
         /\ Quieted(m2w).ireg = m2w.ireg /\ Quieted(m2w).pc = m2w.pc /\ Quieted(m2w).bubble = TRUE
<1>1. d2e \in D2EType /\ e2m \in E2MType /\ m2w \in M2WType
  BY DEF TypeOK
<1>2. /\ Quieted(e2m).ireg = e2m.ireg /\ Quieted(e2m).pc = e2m.pc /\ Quieted(e2m).bubble = TRUE
      /\ Quieted(e2m).ctl.mem = e2m.ctl.mem
  BY <1>1 DEF Quieted, E2MType, CtlType
<1>3. Quieted(m2w).ireg = m2w.ireg /\ Quieted(m2w).pc = m2w.pc /\ Quieted(m2w).bubble = TRUE
  BY <1>1 DEF Quieted, M2WType, CtlType
<1>4. /\ Quieted(d2e).ireg = d2e.ireg /\ Quieted(d2e).pc = d2e.pc /\ Quieted(d2e).bubble = TRUE
      /\ Quieted(d2e).ctl.mem = d2e.ctl.mem
  BY <1>1 DEF Quieted, D2EType, CtlType
<1>5. Quieted(d2e) \in D2EType
  BY <1>1 DEF Quieted, D2EType, CtlType, RegOps, SpOps, ExcOps
<1>6. /\ QuietedD2E.ireg = d2e.ireg /\ QuietedD2E.pc = d2e.pc /\ QuietedD2E.bubble = TRUE
      /\ QuietedD2E.ctl.mem = d2e.ctl.mem
  <2> DEFINE q == Quieted(d2e)
  <2>1. q \in D2EType
    BY <1>5
  <2>2. q.ireg = d2e.ireg /\ q.pc = d2e.pc /\ q.bubble = TRUE /\ q.ctl.mem = d2e.ctl.mem
    BY <1>4
  <2> HIDE DEF q
  <2>3. QuietedD2E = [q EXCEPT !.ctl.alu = "NOP",
                               !.ctl.flow = IF @ \in {"syscall", "reti"} THEN "none" ELSE @]
    BY Zenon DEF QuietedD2E, q
  <2> QED BY <2>1, <2>2, <2>3 DEF D2EType, CtlType
<1> QED BY <1>2, <1>3, <1>6

LEMMA ResetReads ==
  ASSUME TypeOK, Reset, Controlled(d2e), Controlled(e2m), FromText(m2w)
  PROVE  LatchesRead(f2d, d2e, e2m, m2w)'
<1>1. /\ prog' = prog /\ f2d' = [ireg |-> NOP, pc |-> 0]
      /\ d2e' = QuietedD2E /\ e2m' = Quieted(e2m) /\ m2w' = Quieted(m2w)
  BY DEF Reset
<1>2. FromText(f2d)'
  BY <1>1 DEF FromText
<1>3. Controlled(d2e)' /\ Controlled(e2m)' /\ FromText(m2w)'
  BY <1>1, QuietedReads DEF Controlled, FromText
<1>4. UpperForwarded(d2e, m2w)'
  BY <1>1, QuietedReads DEF UpperForwarded
<1> QED BY <1>2, <1>3, <1>4 DEF LatchesRead

(* The file has the latches of the core but for the controls of an LPM,    *)
(* and every word of the memory that is not 0.                             *)
LEMMA FiledReads ==
  ASSUME TypeOK, LatchesRead(f2d, d2e, e2m, m2w)
  PROVE  LatchesRead(f2d, Filed(d2e), Filed(e2m), m2w)
<1>1. d2e \in D2EType /\ e2m \in E2MType
  BY DEF TypeOK
<1>2. /\ Filed(e2m).ireg = e2m.ireg /\ Filed(e2m).pc = e2m.pc /\ Filed(e2m).sel = e2m.sel
      /\ Filed(e2m).bubble = e2m.bubble /\ Filed(e2m).ctl.sp = e2m.ctl.sp
      /\ Filed(e2m).ctl.reg = e2m.ctl.reg
      /\ Filed(e2m).ctl.mem = IF e2m.ctl.mem = "lpm" THEN "read" ELSE e2m.ctl.mem
  BY <1>1 DEF Filed, E2MType, CtlType
<1>3. /\ Filed(d2e).ireg = d2e.ireg /\ Filed(d2e).pc = d2e.pc /\ Filed(d2e).sel = d2e.sel
      /\ Filed(d2e).bubble = d2e.bubble /\ Filed(d2e).ctl.sp = d2e.ctl.sp
      /\ Filed(d2e).ctl.reg = d2e.ctl.reg /\ Filed(d2e).opA = d2e.opA
      /\ Filed(d2e).ctl.mem = IF d2e.ctl.mem = "lpm" THEN "read" ELSE d2e.ctl.mem
  BY <1>1 DEF Filed, D2EType, CtlType
<1>4. Controlled(Filed(e2m))
  BY <1>2 DEF LatchesRead, Controlled, FromText
<1>5. Controlled(Filed(d2e)) /\ UpperForwarded(Filed(d2e), m2w)
  BY <1>3 DEF LatchesRead, Controlled, FromText, UpperForwarded
<1> QED BY <1>4, <1>5 DEF LatchesRead

LEMMA ListedReads ==
  ASSUME NEW mem, NEW a \in 0 .. DMemSize - 1
  PROVE  DRead([n \in Listed(mem) |-> mem[n]], a) = DRead(mem, a)
<1> DEFINE q == [n \in Listed(mem) |-> mem[n]]
<1>1. a # DMemSize /\ ~(a > DMemSize)
  BY CellBounds
<1>2. a \in DOMAIN q <=> a \in DOMAIN mem /\ mem[a] # 0
  BY <1>1 DEF Listed
<1>3. a \in DOMAIN q => q[a] = mem[a]
  OBVIOUS
<1> HIDE DEF q
<1>4. DRead(q, a) = DRead(mem, a)
  BY <1>1, <1>2, <1>3 DEF DRead
<1> QED BY <1>4 DEF q

LEMMA RestoredReads ==
  ASSUME NEW a \in 0 .. DMemSize - 1
  PROVE  DRead(RestoredMemory, a) = DRead(snap.dmem, a)
<1>1. a # DMemSize /\ ~(a > DMemSize)
  BY CellBounds
<1>2. a \in DOMAIN RestoredMemory <=> a \in DOMAIN snap.dmem
  BY <1>1 DEF RestoredMemory
<1>3. a \in DOMAIN snap.dmem => RestoredMemory[a] = snap.dmem[a]
  BY DEF RestoredMemory
<1> DEFINE q == RestoredMemory
<1> HIDE DEF q
<1>4. DRead(q, a) = DRead(snap.dmem, a)
  BY <1>1, <1>2, <1>3 DEF DRead, q
<1> QED BY <1>4 DEF q

LEMMA ReadStarts == MachineInit => ReadInv
<1> SUFFICES ASSUME MachineInit PROVE ReadInv
  OBVIOUS
<1>1. /\ mode = "before" /\ phase = "start" /\ resets = 0
      /\ f2d = NoFetch /\ d2e = EmptyD2E /\ e2m = EmptyE2M /\ m2w = EmptyM2W
  BY DEF MachineInit, SnapInit, CInit, SInit, Init, NoFetch
<1>2. /\ f2d.ireg = NOP
      /\ d2e.ireg = NOP /\ d2e.bubble = TRUE /\ d2e.ctl.mem = "none"
      /\ e2m.ireg = NOP /\ e2m.bubble = TRUE /\ e2m.ctl.mem = "none"
      /\ m2w.ireg = NOP /\ m2w.bubble = TRUE
  BY <1>1 DEF NoFetch, EmptyD2E, EmptyE2M, EmptyM2W, NopCtl
<1>3. LatchesRead(f2d, d2e, e2m, m2w) /\ DataKept(m2w, dmem)
  BY <1>1, <1>2 DEF LatchesRead, Controlled, FromText, UpperForwarded, DataKept, IsElf
<1> QED BY <1>1, <1>2, <1>3, FetchStarts, TypeStarts DEF ReadInv

LEMMA LoadReads == ReadInv /\ Load => ReadInv'
<1> SUFFICES ASSUME ReadInv, Load PROVE ReadInv'
  OBVIOUS
<1>1. /\ phase = "start" /\ mode' = mode /\ mode = "before" /\ file' = file /\ resets' = resets
      /\ f2d' = f2d /\ d2e' = d2e /\ e2m' = e2m /\ m2w' = m2w
  BY DEF Load, LoadElf, LoadText, session, arch, latch, ReadInv, FetchInv
<1>2. f2d.ireg = NOP /\ d2e.ireg = NOP /\ e2m.ireg = NOP /\ m2w.ireg = NOP
  BY <1>1 DEF ReadInv, FetchInv, NoFetch
<1>3. FetchInv' /\ TypeInv'
  BY FetchKept, TypeKept DEF MachineNext, ReadInv
<1>4. LatchesRead(f2d, d2e, e2m, m2w)'
  BY <1>1, <1>2 DEF ReadInv, LatchesRead, Controlled, FromText, UpperForwarded
<1>5. DataKept(m2w, dmem)'
  <2>1. IsElf' => dmem' = LoadedData(file')
    BY <1>1 DEF Load, LoadElf, LoadText, IsElf
  <2>2. m2w'.ireg.op # OP_LW
    BY <1>1, <1>2, NopControls DEF OP_LW, OP_R
  <2> QED BY <2>1, <2>2 DEF DataKept, InitialData, WordLoaded
<1> QED BY <1>1, <1>2, <1>3, <1>4, <1>5 DEF ReadInv

LEMMA SessionReads ==
  ASSUME ReadInv, phase = "loaded", SnapNext, UNCHANGED <<file, phase>>,
         FetchInv', TypeInv'
  PROVE  ReadInv'
<1>1. /\ TypeOK /\ resets \in Nat /\ prog' = prog /\ phase' = "loaded"
      /\ LatchesRead(f2d, d2e, e2m, m2w) /\ DataKept(m2w, dmem)
  <2>1. prog' = prog
    BY DEF SnapNext, Save, Restore, Record, Replay, Detour, CountedClock, CountedReset,
           Clock, Reset, vars
  <2> QED BY <2>1 DEF ReadInv, TypeInv
<1>2. CASE Save
  <2>1. UNCHANGED <<f2d, d2e, e2m, m2w, dmem, resets>> /\ snap' = Snap
    BY <1>2 DEF Save, vars, arch, latch
  <2>2. /\ snap'.f2d = f2d /\ snap'.d2e = Filed(d2e) /\ snap'.e2m = Filed(e2m) /\ snap'.m2w = m2w
        /\ snap'.dmem = [n \in Listed(dmem) |-> dmem[n]]
    BY <2>1, Zenon DEF Snap
  <2>3. LatchesRead(f2d, d2e, e2m, m2w)' /\ DataKept(m2w, dmem)'
    BY <1>1, <2>1 DEF LatchesRead, Controlled, FromText, UpperForwarded, DataKept, InitialData,
                      WordLoaded, IsElf, StoresNothing
  <2>4. LatchesRead(snap.f2d, snap.d2e, snap.e2m, snap.m2w)'
    <3>1. LatchesRead(f2d, Filed(d2e), Filed(e2m), m2w)
      BY <1>1, FiledReads
    <3> QED BY <1>1, <2>2, <3>1 DEF LatchesRead, Controlled, FromText, UpperForwarded
  <2>5. DataKept(snap.m2w, snap.dmem)'
    BY <1>1, <2>1, <2>2, ListedReads
       DEF DataKept, InitialData, WordLoaded, IsElf, StoresNothing
  <2> QED BY <1>1, <2>1, <2>3, <2>4, <2>5 DEF ReadInv
<1>3. CASE Restore
  <2>1. /\ mode \in {"saved", "away"} /\ mode' = "replaying" /\ resets' = resets
        /\ f2d' = snap.f2d /\ d2e' = snap.d2e /\ e2m' = snap.e2m /\ m2w' = snap.m2w
        /\ dmem' = RestoredMemory
    BY <1>3 DEF Restore
  <2>2. LatchesRead(snap.f2d, snap.d2e, snap.e2m, snap.m2w) /\ DataKept(snap.m2w, snap.dmem)
    BY <2>1 DEF ReadInv
  <2>3. LatchesRead(f2d, d2e, e2m, m2w)'
    BY <1>1, <2>1, <2>2 DEF LatchesRead, Controlled, FromText, UpperForwarded
  <2>4. DataKept(m2w, dmem)'
    BY <1>1, <2>1, <2>2, RestoredReads
       DEF DataKept, InitialData, WordLoaded, IsElf, StoresNothing
  <2> QED BY <1>1, <2>1, <2>3, <2>4 DEF ReadInv
<1>4. CASE Record \/ Replay \/ Detour
  <2>1. \/ Clock /\ resets' = resets
        \/ Reset
    BY <1>4 DEF Record, Replay, Detour, CountedClock, CountedReset
  <2>2. /\ snap' = snap /\ (mode' \in {"saved", "away"} => mode \in {"saved", "away"})
    BY <1>4 DEF Record, Replay, Detour
  <2>3. LatchesRead(f2d, d2e, e2m, m2w)'
    BY <1>1, <2>1, ClockReads, ResetReads DEF LatchesRead
  <2>4. resets' \in Nat /\ (resets' = 0 => resets = 0) /\ (Reset => resets' # 0)
    BY <1>1, <2>1 DEF Reset
  <2>5. DataKept(m2w, dmem)'
    <3>1. CASE Clock /\ resets' = resets
      <4>1. Controlled(e2m)
        BY <1>1 DEF LatchesRead
      <4> QED BY <1>1, <3>1, <4>1, ClockKeepsData
    <3>2. CASE Reset
      BY <2>4, <3>2 DEF DataKept
    <3> QED BY <2>1, <3>1, <3>2
  <2>6. mode' \in {"saved", "away"} =>
          /\ LatchesRead(snap.f2d, snap.d2e, snap.e2m, snap.m2w)'
          /\ DataKept(snap.m2w, snap.dmem)'
    <3>1. mode' \in {"saved", "away"} =>
            LatchesRead(snap.f2d, snap.d2e, snap.e2m, snap.m2w) /\ DataKept(snap.m2w, snap.dmem)
      BY <2>2 DEF ReadInv
    <3> QED BY <1>1, <2>2, <2>4, <3>1
            DEF LatchesRead, Controlled, FromText, UpperForwarded, DataKept, InitialData,
                WordLoaded, IsElf, StoresNothing
  <2> QED BY <1>1, <2>3, <2>4, <2>5, <2>6 DEF ReadInv
<1> QED BY <1>2, <1>3, <1>4 DEF SnapNext

LEMMA ReadKept == ReadInv /\ [MachineNext]_mvars => ReadInv'
<1> SUFFICES ASSUME ReadInv, [MachineNext]_mvars PROVE ReadInv'
  OBVIOUS
<1>1. FetchInv' /\ TypeInv'
  BY FetchKept, TypeKept DEF ReadInv
<1>2. ASSUME UNCHANGED mvars PROVE ReadInv'
  <2>1. UNCHANGED <<prog, dmem, f2d, d2e, e2m, m2w, resets, mode, snap, file, phase>>
    BY <1>2 DEF mvars, vars, arch, latch, session
  <2> QED BY <1>1, <2>1 DEF ReadInv, LatchesRead, Controlled, FromText, UpperForwarded, DataKept,
                            InitialData, WordLoaded, IsElf, StoresNothing
<1>3. ASSUME Proceed PROVE ReadInv'
  BY <1>1, <1>3, SessionReads DEF Proceed
<1> QED BY <1>2, <1>3, LoadReads DEF MachineNext

(* The byte that a relocation puts into its instruction is the one that    *)
(* is fetched.                                                             *)
LEMMA ByteLoaded ==
  ASSUME NEW f, IsObject(f), NEW k \in DOMAIN f.relas, Alone(f, k), NEW r, r = f.relas[k],
         r.type \in {"hi8", "lo8"}
  PROVE  /\ Resolve(f, r) \in Int
         /\ Byte(FetchWord(LoadedText(f), r.at + f.base)) =
              (IF r.type = "hi8" THEN Resolve(f, r) \div 256 ELSE Resolve(f, r)) % 256
<1> DEFINE x == Resolve(f, r)
           i == f.text[r.at]
<1>1. /\ r \in Relocations /\ r.sym \in DOMAIN f.symbols /\ i \in Instr
      /\ FetchWord(LoadedText(f), r.at + f.base) = Patched(f, r, i)
  BY PatchFetched
<1>2. x \in Int /\ x \div 256 \in Int
  BY <1>1, ResolveTyped
<1>3. Patched(f, r, i) = WithByte(i, IF r.type = "hi8" THEN x \div 256 ELSE x)
  BY DEF Patched
<1> HIDE DEF x, i
<1>4. Byte(Patched(f, r, i)) = (IF r.type = "hi8" THEN x \div 256 ELSE x) % 256
  BY <1>1, <1>2, <1>3, BytePatched
<1> QED BY <1>1, <1>2, <1>4 DEF x

LEMMA BytesJoined ==
  ASSUME NEW y \in Int
  PROVE  ((y \div 256) % 256) * 256 + (y % 256) = y % 65536
<1> DEFINE q == y \div 256
           r == y % 256
           p == q \div 256
           s == q % 256
<1>1. q \in Int /\ r \in Int /\ y = 256 * q + r /\ 0 =< r /\ r < 256
  OBVIOUS
<1> HIDE DEF q, r
<1>2. p \in Int /\ s \in Int /\ q = 256 * p + s /\ 0 =< s /\ s < 256
  BY <1>1
<1> HIDE DEF p, s
<1>3. y = 65536 * p + (256 * s + r)
  BY <1>1, <1>2
<1> DEFINE z == 256 * s + r
<1>4. z \in Int /\ 0 =< z /\ z < 65536
  BY <1>1, <1>2
<1> HIDE DEF z
<1>5. y % 65536 = z
  BY <1>2, <1>3, <1>4 DEF z
<1> QED BY <1>1, <1>2, <1>5 DEF z, s, q, r

LEMMA AddressRead == ReadInv => AddressIsBuilt
<1> SUFFICES ASSUME ReadInv, IsElf, NEW j \in DOMAIN file.relas, NEW k \in DOMAIN file.relas,
                    NEW upper, upper = file.relas[j], NEW lower, lower = file.relas[k],
                    Alone(file, j), Alone(file, k), upper.type = "hi8", lower.type = "lo8",
                    upper.sym = lower.sym, upper.addend = lower.addend,
                    Holds(m2w, upper, OP_LIU), Holds(d2e, lower, OP_LIL),
                    d2e.sel = m2w.sel, d2e.sel # 0
             PROVE  (d2e.opA \div 256) * 256 + Byte(d2e.ireg) = Resolve(file, lower) % WordSize
  BY Zenon DEF AddressIsBuilt
<1>1. file \in Files /\ IsObject(file) /\ prog = LoadedText(file)
  BY LoaderAssumption DEF ReadInv, FetchInv, IsElf
<1>2. LatchesRead(f2d, d2e, e2m, m2w)
  BY DEF ReadInv
<1>3. m2w.ireg = FetchWord(prog, upper.at + file.base)
  BY <1>2, NopControls DEF LatchesRead, FromText, Holds, OP_LIU, OP_R
<1>4. d2e.ireg = FetchWord(prog, lower.at + file.base)
  BY <1>2, NopControls DEF LatchesRead, Controlled, FromText, Holds, OP_LIL, OP_R
<1>5. d2e.opA \div 256 = Byte(m2w.ireg)
  BY <1>2 DEF LatchesRead, UpperForwarded, Holds
<1> DEFINE x == Resolve(file, lower)
<1>6. Resolve(file, upper) = x
  BY DEF Resolve
<1>7. x \in Int /\ Byte(d2e.ireg) = x % 256
  BY <1>1, <1>4, ByteLoaded
<1>8. Byte(m2w.ireg) = (x \div 256) % 256
  BY <1>1, <1>3, <1>6, ByteLoaded
<1> HIDE DEF x
<1>9. (d2e.opA \div 256) * 256 + Byte(d2e.ireg) = x % 65536
  BY <1>5, <1>7, <1>8, BytesJoined
<1> QED BY <1>9 DEF x, WordSize

LEMMA VariableTyped ==
  ASSUME NEW f, IsObject(f), NEW k \in DOMAIN f.relas, NEW r, r = f.relas[k],
         r.sym \in DOMAIN f.symbols, NEW t, t = f.symbols[r.sym],
         t.section \in Placed(f)
  PROVE  /\ t.value \in Nat /\ r.addend \in Int /\ Base(f, t.section) \in Nat
         /\ f.sections[t.section] \in Sections
         /\ Resolve(f, r) = 2 * Base(f, t.section) + t.value + r.addend
<1>1. /\ f.relas \in Seq(Relocations) /\ f.sections \in Seq(Sections) /\ t.value \in Nat
  BY DEF IsObject
<1>2. t.section \in DOMAIN f.sections
  BY DEF Placed
<1>3. r \in Relocations
  BY <1>1
<1>4. f.sections[t.section] \in Sections /\ Base(f, t.section) \in Nat
  BY <1>1, <1>2, SectionsApart
<1>5. r.addend \in Int
  BY <1>3 DEF Relocations
<1>6. Resolve(f, r) = 2 * Base(f, t.section) + t.value + r.addend
  BY DEF Resolve
<1> QED BY <1>1, <1>4, <1>5, <1>6

LEMMA WordRead == ReadInv /\ resets = 0 => WordIsRead
<1> SUFFICES ASSUME ReadInv, resets = 0, IsElf PROVE WordIsRead
  BY DEF WordIsRead
<1>1. IsObject(file)
  BY LoaderAssumption DEF ReadInv, FetchInv, IsElf
<1>2. ASSUME StoresNothing, ~m2w.bubble, m2w.ireg.op = OP_LW, m2w.alu.value < DMemSize
      PROVE  m2w.memOut = DRead(LoadedData(file), m2w.alu.value)
  BY <1>2 DEF ReadInv, DataKept, WordLoaded
<1>3. ASSUME NEW k \in DOMAIN file.relas, NEW r, r = file.relas[k],
             r.sym \in DOMAIN file.symbols, NEW t, t = file.symbols[r.sym],
             t.section \in Placed(file)
      PROVE  LET s == file.sections[t.section]
                 o == t.value + r.addend
             IN  Base(file, t.section) + Words(s) =< DMemSize /\ 0 =< o /\ o + 2 =< Len(s.bytes) =>
                   /\ Resolve(file, r) \div 2 < DMemSize
                   /\ DRead(LoadedData(file), Resolve(file, r) \div 2) = WordOf(s, o \div 2)
  <2> DEFINE s == file.sections[t.section]
             b == Base(file, t.section)
             n == Words(s)
             v == t.value
             a == r.addend
             x == Resolve(file, r)
             w == (v + a) \div 2
  <2>1. v \in Nat /\ a \in Int /\ b \in Nat /\ s \in Sections /\ x = 2 * b + v + a
    BY <1>1, <1>3, VariableTyped
  <2>2. n \in Nat /\ (v + a \in Nat /\ v + a + 2 =< Len(s.bytes) => w \in 0 .. n - 1)
    <3> DEFINE o == v + a
    <3> HIDE DEF v, a, n
    <3>1. n \in Nat /\ \A i \in Nat : i + 2 =< Len(s.bytes) => i \div 2 \in 0 .. n - 1
      BY <2>1, WordsCounted DEF n
    <3> HIDE DEF o, s
    <3>2. o \in Nat /\ o + 2 =< Len(s.bytes) => o \div 2 \in 0 .. n - 1
      BY <3>1
    <3> QED BY <3>1, <3>2 DEF o
  <2>3. w \in 0 .. n - 1 /\ b + n =< DMemSize => DRead(LoadedData(file), b + w) = WordOf(s, w)
    BY <1>1, <1>3, WordsLoaded
  <2> HIDE DEF s, b, n, v, a, x
  <2>4. 0 =< v + a => v + a \in Nat
    BY <2>1
  <2>5. ASSUME w \in 0 .. n - 1, 0 =< v + a, b + n =< DMemSize
        PROVE  x \div 2 = b + w /\ b + w < DMemSize
    <3> DEFINE o == v + a
    <3>1. o \in Nat /\ x = 2 * b + o /\ w = o \div 2
      BY <2>1, <2>5
    <3> HIDE DEF o, w
    <3>2. x \div 2 = b + w
      BY <2>1, <3>1
    <3>3. \A m \in Nat : b + n =< m => b + w < m
      BY <2>1, <2>2, <2>5
    <3>4. DMemSize \in Nat
      BY DEF DMemSize
    <3> QED BY <2>5, <3>2, <3>3, <3>4
  <2> HIDE DEF w
  <2>6. b + n =< DMemSize /\ 0 =< v + a /\ v + a + 2 =< Len(s.bytes) =>
          x \div 2 < DMemSize /\ DRead(LoadedData(file), x \div 2) = WordOf(s, w)
    BY <2>2, <2>3, <2>4, <2>5
  <2> QED BY <2>6 DEF s, b, n, v, a, x, w
<1> SUFFICES ASSUME NEW k \in DOMAIN file.relas
             PROVE  LET r == file.relas[k]
                        t == file.symbols[r.sym]
                        s == file.sections[t.section]
                        o == t.value + r.addend
                    IN  /\ r.sym \in DOMAIN file.symbols /\ t.section \in Placed(file)
                        /\ Base(file, t.section) + Words(s) =< DMemSize
                        /\ 0 =< o /\ o + 2 =< Len(s.bytes)
                        /\ \A n \in DOMAIN prog : MemCtl(prog[n]) # "write"
                        /\ ~m2w.bubble /\ m2w.ireg.op = OP_LW
                        /\ m2w.alu.value = Resolve(file, r) \div 2
                        => m2w.memOut = WordOf(s, o \div 2)
  BY Zenon DEF WordIsRead
<1> DEFINE r == file.relas[k]
           t == file.symbols[r.sym]
           s == file.sections[t.section]
           o == t.value + r.addend
           x == Resolve(file, r)
<1>4. r.sym \in DOMAIN file.symbols /\ t.section \in Placed(file) =>
        (Base(file, t.section) + Words(s) =< DMemSize /\ 0 =< o /\ o + 2 =< Len(s.bytes) =>
           x \div 2 < DMemSize /\ DRead(LoadedData(file), x \div 2) = WordOf(s, o \div 2))
  BY <1>3
<1> HIDE DEF r, t, s, o, x
<1>5. r.sym \in DOMAIN file.symbols /\ t.section \in Placed(file)
      /\ Base(file, t.section) + Words(s) =< DMemSize /\ 0 =< o /\ o + 2 =< Len(s.bytes)
      /\ StoresNothing /\ ~m2w.bubble /\ m2w.ireg.op = OP_LW /\ m2w.alu.value = x \div 2
      => m2w.memOut = WordOf(s, o \div 2)
  BY <1>2, <1>4
<1> QED BY <1>5, Zenon DEF r, t, s, o, x, StoresNothing

(* For every object file: a LIU and a LIL behind it build the address of   *)
(* their symbol, at any time in a session with resets and snapshots; and   *)
(* in a program that stores nothing a load from there brings the word the  *)
(* file has, until the core is reset.                                      *)
THEOREM VariablesAreRead == MachineSpec => []VariableIsRead
<1>1. ReadInv => VariableIsRead
  BY AddressRead, WordRead DEF VariableIsRead
<1> QED BY <1>1, ReadStarts, ReadKept, PTL DEF MachineSpec
=============================================================================
