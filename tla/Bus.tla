-------------------------------- MODULE Bus --------------------------------
(***************************************************************************)
(* The data side of the memory system (mem.cpp): an array of Size words    *)
(* and the peripherals that attachPeripheral has mapped above it.  read    *)
(* and write send every address to one of the two and write down what      *)
(* they did; a debug session reads and clears that log (debug_engine.cpp). *)
(*                                                                         *)
(* The bound test is `address > size`, so address Size is served by the    *)
(* array too.  That word is not the array's: `beyond` is whatever the heap *)
(* holds there.  It is not modelled that somebody else may own it.         *)
(***************************************************************************)
EXTENDS Integers, FiniteSets, Sequences

CONSTANTS
  Size,         (* words of the array                                      *)
  Peripherals,
  Length,       (* addresses each peripheral takes                         *)
  Attachments,  (* the calls of attachPeripheral: <<address, peripheral>>  *)
  Addresses,    (* the addresses that are accessed                         *)
  Values,       (* the contents of a word                                  *)
  MaxLog        (* bound: accesses between two calls of clearAccessLog     *)

ASSUME BusAssumption ==
  /\ Size \in Nat \ {0}
  /\ Length \in [Peripherals -> Nat \ {0}]
  /\ Attachments \subseteq Nat \X Peripherals
  /\ Addresses \subseteq Nat
  /\ Values \subseteq Nat /\ 0 \in Values
  /\ MaxLog \in Nat

VARIABLES
  array,      (* dmem: a cell that is not in the domain holds 0            *)
  beyond,     (* the word one past the array                               *)
  vmem,       (* the peripheral behind each mapped address                 *)
  home,       (* baseAddress of each peripheral                            *)
  log,        (* accessLog                                                 *)
  past,       (* history: the array when it or the log was last cleared    *)
  since       (* history: accesses in the log at that time                 *)

history == <<past, since>>
vars == <<array, beyond, vmem, home, log, history>>

Span(p, a) == a .. a + Length[p] - 1

Init ==
  /\ array = [a \in {} |-> 0] /\ beyond \in Values
  /\ vmem = [a \in {} |-> 0] /\ home = [p \in Peripherals |-> 0]
  /\ log = <<>> /\ past = array /\ since = 0

-----------------------------------------------------------------------------
(* attachPeripheral.  main.cpp attaches each peripheral once; a call that  *)
(* meets the array or an address that is taken changes nothing.            *)
ShortFree(p, a) ==                     \* mutant: the last address is not tried
  (Span(p, a) \ {a + Length[p] - 1}) \cap DOMAIN vmem = {}

Free(p, a) == Span(p, a) \cap DOMAIN vmem = {}

Attached(p) == \E a \in DOMAIN vmem : vmem[a] = p

Attach(p, a) ==
  /\ ~Attached(p)
  /\ IF a > Size /\ Free(p, a)
     THEN /\ vmem' = [b \in DOMAIN vmem \cup Span(p, a) |->
                        IF b \in Span(p, a) THEN p ELSE vmem[b]]
          /\ home' = [home EXCEPT ![p] = a]
     ELSE UNCHANGED <<vmem, home>>
  /\ UNCHANGED <<array, beyond, log, history>>

-----------------------------------------------------------------------------
InArray(a) == a =< Size

Word(m, a) == IF a \in DOMAIN m THEN m[a] ELSE 0

Logged(a, v, w) == log' = Append(log, [address |-> a, value |-> v, write |-> w])

(* What may be read at an address: a peripheral answers as it likes (its   *)
(* own module says how), 0xFFFF comes from an address nobody answers.      *)
NoAnswer == 65535

Readable(a) ==
  IF ~InArray(a) THEN IF a \in DOMAIN vmem THEN Values ELSE {NoAnswer}
  ELSE IF a = Size THEN {beyond} ELSE {Word(array, a)}

Read(a) ==
  /\ Len(log) < MaxLog
  /\ \E v \in Readable(a) : Logged(a, v, FALSE)
  /\ UNCHANGED <<array, beyond, vmem, home, history>>

LostWrite(a, v) ==                     \* mutant: the early return of a peripheral's write
  /\ Len(log) < MaxLog                 \* is taken for the words of the array as well
  /\ Logged(a, v, TRUE)
  /\ UNCHANGED <<array, beyond, vmem, home, history>>

Write(a, v) ==
  /\ Len(log) < MaxLog
  /\ Logged(a, v, TRUE)
  /\ IF InArray(a) /\ a # Size
     THEN array' = [b \in DOMAIN array \cup {a} |-> IF b = a THEN v ELSE array[b]]
     ELSE UNCHANGED array
  /\ beyond' = IF a = Size THEN v ELSE beyond
  /\ UNCHANGED <<vmem, home, history>>

(* clearAccessLog, before each clock. *)
ClearLog ==
  /\ log' = <<>>
  /\ past' = array /\ since' = 0
  /\ UNCHANGED <<array, beyond, vmem, home>>

(* ANEMCPU::reset clears the array, and not the log. *)
ClearMem ==
  /\ array' = [a \in {} |-> 0]
  /\ past' = array' /\ since' = Len(log)
  /\ UNCHANGED <<beyond, vmem, home, log>>

Next ==
  \/ \E at \in Attachments : Attach(at[2], at[1])
  \/ \E a \in Addresses : Read(a) \/ \E v \in Values : Write(a, v)
  \/ ClearLog \/ ClearMem

Spec == Init /\ [][Next]_vars

-----------------------------------------------------------------------------
(* Properties. *)

(* A peripheral is mapped at all of its addresses or at none, from its     *)
(* base address on, above the array: a call of attachPeripheral that fails *)
(* leaves nothing of the peripheral behind and takes nothing from another. *)
MappedWholly ==
  \A p \in Peripherals :
    Attached(p) =>
      /\ { a \in DOMAIN vmem : vmem[a] = p } = Span(p, home[p])
      /\ home[p] > Size

(* The log tells the whole story: a word of the array reads as what the    *)
(* log last says was written there, or as what it was when the array or    *)
(* the log was cleared.  The watchpoints believe in it.                    *)
Wrote(l, k, a) == l[k].write /\ l[k].address = a

(* Between its entries s and n the log l last said of the word at a that   *)
(* it is v; m is what the array held at s.                                 *)
Said(l, s, m, a, n, v) ==
  \/ \E k \in s + 1 .. n - 1 :
       /\ Wrote(l, k, a) /\ l[k].value = v
       /\ \A j \in k + 1 .. n - 1 : ~Wrote(l, j, a)
  \/ /\ v = Word(m, a)
     /\ \A j \in s + 1 .. n - 1 : ~Wrote(l, j, a)

LogIsTrue ==
  \A n \in since + 1 .. Len(log) :
    log[n].address < Size /\ ~log[n].write
      => Said(log, since, past, log[n].address, n, log[n].value)

(* cpu.cpp, ANEMCPU: "64K (including virtual memory)": an access that no   *)
(* peripheral may serve goes to a word of the array.                       *)
ArrayHoldsTheRest ==
  \A n \in 1 .. Len(log) : InArray(log[n].address) => log[n].address < Size
=============================================================================
