------------------------------- MODULE Loader -------------------------------
(***************************************************************************)
(* The program loader (mem.cpp) in front of the core it loads.  An ELF     *)
(* object brings .text, data sections and relocations: the sections are    *)
(* placed one behind the other in the data memory and .text is patched so  *)
(* that it finds them.  Any other file is read as lines of text, in the    *)
(* format the first line has.                                              *)
(*                                                                         *)
(* An object is described by what the loader takes from it, with .text in  *)
(* words: the symbols' values and the sections' sizes are in bytes, as in  *)
(* the file.  Section 0 of a symbol is .text.  A line of text is described *)
(* by the format it matches and by the fields of that format.  The program *)
(* then runs in the pipeline, which decides whether the patches were right.*)
(***************************************************************************)
EXTENDS Pipeline, Sequences, SequencesExt

CONSTANT Files       (* the program files *)

DataBase == 8192     \* DATA_BASE: word address of the first data section

Relocations == [at : Nat, type : STRING, sym : STRING, addend : Int]

Sections == [kind : {"data", "bss"}, bytes : Seq(0 .. 255)]

(* What a well-formed file may hold: in an object the patched fields are   *)
(* those of instructions, code is at even addresses and .bss is all 0.     *)
IsObject(f) ==
  /\ IsProgram(f.text) /\ f.base \in Nat
  /\ f.relas \in Seq(Relocations) /\ f.sections \in Seq(Sections)
  /\ \A s \in DOMAIN f.sections : f.sections[s].kind = "bss" =>
       \A b \in DOMAIN f.sections[s].bytes : f.sections[s].bytes[b] = 0
  /\ \A s \in DOMAIN f.symbols : f.symbols[s].value \in Nat
  /\ \A k \in DOMAIN f.relas :
       f.relas[k].type \in {"jump", "branch"} =>
         (f.symbols[f.relas[k].sym].value + f.relas[k].addend) % 2 = 0

IsLine(l) ==
  /\ l.kind = "plain" => l.word \in Instr
  /\ l.kind = "bin" => l.addr \in Nat /\ l.word \in Instr
  /\ l.kind = "hex" /\ l.type # 1 => l.addr \in Nat /\ l.bytes \in Seq(0 .. 255)

IsText(f) ==
  /\ Len(f.lines) \in Nat /\ DOMAIN f.lines = 1 .. Len(f.lines)
  /\ \A k \in DOMAIN f.lines : IsLine(f.lines[k])

ASSUME LoaderAssumption ==
  \A f \in Files : (f.format = "elf" => IsObject(f)) /\ (f.format = "text" => IsText(f))

VARIABLES
  file,      (* the file on the command line                               *)
  phase      (* "start", "loaded", "aborted"                               *)

Words(s) == Len(s.bytes) \div 2      \* numWords: an odd byte is not counted

(* Sections without content are passed over, and have no base.             *)
Placed(f) == { s \in DOMAIN f.sections : Len(f.sections[s].bytes) > 0 }

(* nextDataAddr when the section's turn comes; .bss takes room too.        *)
BssForgotten(f, s) ==                   \* mutant: .bss takes no room
  DataBase + FoldLeft(LAMBDA n, t : IF t.kind = "bss" THEN n ELSE n + Words(t),
                      0, SubSeq(f.sections, 1, s - 1))

Base(f, s) ==
  DataBase + FoldLeft(LAMBDA n, t : n + Words(t), 0, SubSeq(f.sections, 1, s - 1))

(* Only the content of .rodata and .data is written: the memory has been   *)
(* cleared.  writeDirect drops what is beyond the array.                   *)
LoadedCells(f) ==
  UNION { { <<s, w>> : w \in 0 .. Words(f.sections[s]) - 1 } :
            s \in { t \in Placed(f) : f.sections[t].kind = "data" } }

WordOf(s, w) == s.bytes[2 * w + 1] + 256 * s.bytes[2 * w + 2]

LoadedData(f) ==
  LET cells == { c \in LoadedCells(f) : Base(f, c[1]) + c[2] < DMemSize }
  IN  [a \in { Base(f, c[1]) + c[2] : c \in cells } |->
         LET c == CHOOSE d \in cells : Base(f, d[1]) + d[2] = a
         IN  WordOf(f.sections[c[1]], c[2])]

-----------------------------------------------------------------------------
(* Relocation of .text, one RELA entry after the other. *)

(* resolveSymAddr: a byte address.                                         *)
Resolve(f, r) ==
  LET s == f.symbols[r.sym]
  IN  (IF s.section \in Placed(f) THEN 2 * Base(f, s.section) ELSE 0) + s.value + r.addend

(* A jump counts from the next word, a branch from the one after that.     *)
EqualOffset(f, r) ==                    \* mutant: branches count as jumps do
  (f.symbols[r.sym].value + r.addend - 2 * r.at) \div 2 - 1

Offset(f, r) ==
  (f.symbols[r.sym].value + r.addend - 2 * r.at) \div 2
    - (IF r.type = "branch" THEN 2 ELSE 1)

WithAddress(i, x) ==
  [i EXCEPT !.a = (x \div 256) % 16, !.b = (x \div 16) % 16, !.f = x % 16]

WithByte(i, x) == [i EXCEPT !.b = (x \div 16) % 16, !.f = x % 16]

Patched(f, r, i) ==
  CASE r.type \in {"jump", "branch"} -> WithAddress(i, Offset(f, r) % 4096)
    [] r.type = "hi8" -> WithByte(i, Resolve(f, r) \div 256)
    [] r.type = "lo8" -> WithByte(i, Resolve(f, r))
    [] OTHER          -> i

Relocate(f, text, r) ==
  IF r.at \in DOMAIN text /\ r.sym \in DOMAIN f.symbols
  THEN [text EXCEPT ![r.at] = Patched(f, r, @)]
  ELSE text

RelocatedText(f) == FoldLeft(LAMBDA t, r : Relocate(f, t, r), f.text, f.relas)

(* What is beyond the array is dropped.                                    *)
LoadedText(f) ==
  LET text == RelocatedText(f)
  IN  [n \in { w + f.base : w \in DOMAIN text } \cap 0 .. IMemSize - 1 |-> text[n - f.base]]

(* loadProgram sets the PC only when the file has an entry other than 0.   *)
Entry(f) ==
  IF "_start" \in DOMAIN f.symbols THEN f.symbols["_start"].value \div 2 ELSE 0

LoadElf ==
  /\ phase = "start" /\ file.format = "elf"
  /\ phase' = "loaded"
  /\ prog' = LoadedText(file) /\ dmem' = LoadedData(file) /\ pc' = Entry(file)
  /\ UNCHANGED <<cycle, regs, hi, lo, sp, zFlag, epc, eca, ien, intPin, latch, file>>

-----------------------------------------------------------------------------
(* Lines of text: Intel HEX, address and word, or a word alone. *)

InstrOf(x) ==
  [op |-> x \div 4096, a |-> (x \div 256) % 16, b |-> (x \div 16) % 16, f |-> x % 16]

(* A HEX record of n bytes gives n/2 instructions, each made of one byte;  *)
(* with an odd n the count steps over 0 and the digits run out.            *)
HexWords(l) ==
  [n \in l.addr .. l.addr + Len(l.bytes) \div 2 - 1 |-> InstrOf(l.bytes[n - l.addr + 1])]

(* A word is written over what an earlier line left at its address.        *)
Overwritten(prog0, words) ==
  [n \in DOMAIN words \cup DOMAIN prog0 |->
     IF n \in DOMAIN words THEN words[n] ELSE prog0[n]]

(* A line that is not in the format of the first gives empty matches: the  *)
(* conversion of one throws and nothing catches it, except among plain     *)
(* words, where the line is skipped and counted.                           *)
ReadLine(format, st, l) ==
  LET taken(words) == [st EXCEPT !.prog = Overwritten(@, words), !.line = @ + 1]
      hex == format = "hex" /\ l.kind = "hex"
  IN  IF st.status # "reading" THEN st
      ELSE CASE format \in {"hex", "bin"} /\ l.kind # format -> [st EXCEPT !.status = "aborted"]
             [] hex /\ l.type = 1 -> [st EXCEPT !.status = "ended"]
             [] hex /\ l.type # 1 /\ Len(l.bytes) % 2 = 1 -> [st EXCEPT !.status = "aborted"]
             [] hex /\ l.type # 1 /\ Len(l.bytes) % 2 = 0 -> taken(HexWords(l))
             [] format = "bin" /\ l.kind = "bin" -> taken([n \in {l.addr} |-> l.word])
             [] format = "plain" /\ l.kind = "plain" -> taken([n \in {st.line} |-> l.word])
             [] OTHER -> taken(<<>>)

ReadLines(f) ==
  FoldLeft(LAMBDA st, l : ReadLine(f.lines[1].kind, st, l),
           [prog |-> <<>>, line |-> 0, status |-> "reading"], f.lines)

LoadText ==
  /\ phase = "start" /\ file.format = "text"
  /\ phase' = IF ReadLines(file).status = "aborted" THEN "aborted" ELSE "loaded"
  /\ prog' = ReadLines(file).prog
  /\ UNCHANGED <<cycle, pc, arch, intPin, latch, file>>

-----------------------------------------------------------------------------
(* Properties. *)

IsElf == phase = "loaded" /\ file.format = "elf"

(* A relocation can do its work: it patches a word that is loaded, alone,  *)
(* and the twelve bits of a transfer hold its offset.                      *)
Alone(f, k) ==
  LET r == f.relas[k]
  IN  /\ r.at \in DOMAIN f.text /\ r.at + f.base < IMemSize
      /\ r.sym \in DOMAIN f.symbols
      /\ \A j \in DOMAIN f.relas \ {k} : f.relas[j].at # r.at

Feasible(f, k) ==
  /\ Alone(f, k)
  /\ -2048 =< Offset(f, f.relas[k]) /\ Offset(f, f.relas[k]) =< 2047

(* The loader's arithmetic on offsets and the pipeline's on addresses, its *)
(* delay slot and its two ways to count, fit together: when a relocated    *)
(* transfer redirects the fetch, it fetches the word its symbol names,     *)
(* forwards and backwards and wherever .text was loaded.  A branch counts  *)
(* from where the fetch has got to, so this is promised only where the     *)
(* word behind it in the pipeline is the one behind it in memory: not to a *)
(* branch that is in a delay slot itself or met an interrupt at decode.    *)
TransfersArrive ==
  IsElf => \A k \in DOMAIN file.relas : Feasible(file, k) =>
    LET r == file.relas[k]
    IN  /\ d2e.pc = r.at + file.base
        /\ \/ r.type = "jump" /\ d2e.ctl.flow = "j"
           \/ r.type = "branch" /\ BranchTaken /\ f2d.pc = d2e.pc + 1
        => FetchPC = (file.symbols[r.sym].value + r.addend) \div 2 + file.base

(* The instruction that r patched is in latch l.                           *)
Holds(l, r, op) == ~l.bubble /\ l.pc = r.at + file.base /\ l.ireg.op = op

(* A LIU and a LIL of the two bytes of a symbol put its address together,  *)
(* though the second needs what the first has yet to write.                *)
AddressIsBuilt ==
  IsElf => \A j \in DOMAIN file.relas, k \in DOMAIN file.relas :
    LET upper == file.relas[j]
        lower == file.relas[k]
    IN  /\ Alone(file, j) /\ Alone(file, k)
        /\ upper.type = "hi8" /\ lower.type = "lo8"
        /\ upper.sym = lower.sym /\ upper.addend = lower.addend
        /\ Holds(m2w, upper, OP_LIU) /\ Holds(d2e, lower, OP_LIL)
        /\ d2e.sel = m2w.sel /\ d2e.sel # 0
        => (d2e.opA \div 256) * 256 + Byte(d2e.ireg) = Resolve(file, lower) % WordSize

(* A load from the word of a symbol brings what the file has there, in     *)
(* .data as in .bss, behind sections of any kind and size.  It is the      *)
(* initial content, and so promised to programs that store nothing.        *)
WordIsRead ==
  IsElf => \A k \in DOMAIN file.relas :
    LET r == file.relas[k]
        t == file.symbols[r.sym]
        s == file.sections[t.section]
        o == t.value + r.addend
    IN  /\ r.sym \in DOMAIN file.symbols /\ t.section \in Placed(file)
        /\ Base(file, t.section) + Words(s) =< DMemSize
        /\ 0 =< o /\ o + 2 =< Len(s.bytes)
        /\ \A n \in DOMAIN prog : MemCtl(prog[n]) # "write"
        /\ ~m2w.bubble /\ m2w.ireg.op = OP_LW /\ m2w.alu.value = Resolve(file, r) \div 2
        => m2w.memOut = WordOf(s, o \div 2)

(* mem.h:88: "if provided, data sections (.rodata/.data) are loaded into   *)
(* it": every byte of a section is where the symbols' addresses say.       *)
DataIsLoaded ==
  IsElf /\ cycle = 0 => \A s \in Placed(file) :
    \A b \in DOMAIN file.sections[s].bytes :
      LET word == DRead(dmem, Base(file, s) + (b - 1) \div 2)
      IN  file.sections[s].bytes[b] = IF b % 2 = 1 THEN word % 256 ELSE word \div 256

IsHex == file.format = "text" /\ \A k \in DOMAIN file.lines : file.lines[k].kind = "hex"

(* README, Program file formats: "Standard Intel HEX format".  In such a   *)
(* file a word is two bytes of a record, in one order or the other, at an  *)
(* address in bytes or in words.                                           *)
HexIsLoaded ==
  phase = "loaded" /\ IsHex =>
    \E unit \in 1 .. 2, low \in 1 .. 2 : \A k \in DOMAIN file.lines :
      LET l == file.lines[k]
      IN  l.type = 0 => \A w \in 0 .. Len(l.bytes) \div 2 - 1 :
            FetchWord(prog, l.addr \div unit + w)
              = InstrOf(l.bytes[2 * w + low] + 256 * l.bytes[2 * w + 3 - low])
=============================================================================
