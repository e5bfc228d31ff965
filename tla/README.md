# A verification project for anem16sim

anem16sim is a cycle-accurate simulator of the ANEM16, a 16-bit processor with
a five-stage pipeline, branch delay slots, software-visible hazards, and
memory-mapped peripherals.  It is driven by a command line, a REPL debugger, a
JSON-RPC debug server over ZeroMQ, a web server and a GDB stub.  This directory
holds TLA+ modules of its core, the TLC configurations that check them on small
instances, and theorems about them whose proofs TLAPS checks for every value of
the constants.

Paths such as `cpu.cpp:118` refer to the repository.

## 1. Inventory

| Component | State | Operations | What is hard about it | What makes it correct |
|---|---|---|---|---|
| CPU pipeline (`cpu.cpp`, `cpu.h`) | PC, registers, HI/LO, SP, Z, EPC/ECA/IEN, four latches, stall counter | `clockCycle` (fetch, decode, execute, mem, writeback), `reset`, `loadProgram`, `programEnd` | stages of several instructions overlap; three kinds of stall; forwarding; an interrupt in any clock | software that keeps the scheduling rules sees the programmer's model; bubbles do nothing; stalls end; RETI returns where it should |
| ALU, register bank, memories (`alu.cpp`, `regbnk.cpp`, `mem.cpp`) | registers, data and instruction memory | `operate`, `r_read`, `r_write`, `read`, `write`, `fetch` | cutting results to 16 bits; bounds | values keep their widths |
| Debug engine (`debug_engine.cpp`) | breakpoints, watchpoints, access log, halted flag | `step`, `runBatch`, add and remove points, `setPC`, `reset`, memory and register writes, snapshots | loops that other methods interleave with; detection of a program's end by its PCs | execution stops where it was asked to, and ends when the program has |
| Debug server (`debug_server.cpp`) | two atomic flags, notification queue, worker thread | one handler per JSON-RPC method, `simLoop` | two threads, a queue, a join, requests at any moment | handlers that need a standing machine get one; runs are reported; requests are answered |
| Web server (`web_server.cpp`, `web/index.html`) | the same flags, a send queue per browser, the flag of external changes, the page's buffer and its transfers | WebSocket and HTTP callbacks, `dispatch`, `simLoop`, `checkLiveReload` | browsers, worker and GDB stub around one engine; pages that refresh themselves on messages; a buffer replaced under its readers | as above; a page that shows something old learns of it; no page is a mixture of two versions |
| GDB stub (`gdb_stub.cpp`) | a socket, the packet in progress, the acknowledgement mode | packets: step, continue, breakpoints, registers, memory | acknowledgements, packets and replies damaged on their way, Ctrl-C during and after a continue, a second session, another client | replies match commands; a command is answered unless its packet or reply is lost for good |
| REPL (`debug.cpp`) | none of its own | one command per engine method | nothing | - |
| Timer (`periph/timer.cpp`) | COUNT, CTRL, STATUS, COMPARE, reload, prescaler | register writes, `clockCycle`, `reset` | boundaries of two counters of different width | it counts at the rate that was set |
| UART (`periph/uart.cpp`) | CTRL, STATUS, BAUD, transmitter state, receive buffer | register accesses, `clockCycle`, `injectRxByte`, `reset` | accesses while a byte is on its way; flags that drivers clear | an accepted byte comes out once; STATUS is true; frames last as long as BAUD says |
| MAC (`periph/mac.cpp`) | CONFIG, operands and results, the state machine, two arithmetic blocks | register accesses, `clockCycle` | uninitialised operation registers; a configuration that is never recognised | it ends, with the product (it does not: section 6) |
| GPIO (`periph/gpio.cpp`) | port registers | register accesses | nothing | - |
| Interrupt line (`main.cpp`) | the CPU's pin | `clockPeripherals` after each clock | order of the flags, the pin and the clock | no interrupt is lost or raised twice |
| Data bus (`mem.cpp`) | what is mapped where, the access log | `read`, `write`, `attachPeripheral`, `clearAccessLog` | attachments that collide; early returns before the log | a peripheral is mapped wholly or not at all; the log tells what happened |
| Program loader (`mem.cpp`) | - | `loadProgram`, `loadELF` | sections in words with symbols in bytes; relocations patched into instructions | a loaded program finds its variables and its targets |
| Snapshots (`snapshot.cpp`) | a JSON file | save, restore | parts of the state are left out; a restore meets another run's leftovers | a restored machine goes on as the saved one |
| Statistics (`stats/`) | counters | increments all over a clock, `reset`, to and from JSON | one clock passes several counting places | the counters account for the time |
| Trace, disassembler, JSON-RPC | files | reports, formatting, parsing | no behaviour | - |

How they interact: a client calls the engine, one method at a time under its
mutex; the engine clocks the core, and after each clock calls
`clockPeripherals`, which clocks the peripherals and sets the interrupt pin; the
core's loads and stores reach the peripherals through the data memory; after the
clock the engine compares the PC and the access log with the clients' points.
The servers add a worker thread that calls `runBatch` in a loop and queues
notifications for the main thread.

`PROJECT.json` lists every component with its status, and every hazard with the
line where it bites and the properties that would notice.

## 2. Modules

| Module | What it is |
|---|---|
| `ANEM16` | instruction words, ALU, register bank and memories, as operators |
| `Pipeline` | the core: one action, `Clock`, is one call of `clockCycle` |
| `ISA` | abstract: one instruction per step, no pipeline |
| `PipelineRefinement` | the mapping from `Pipeline` to `ISA`, and the scheduling rules |
| `PipelineReset` | extends `Pipeline` by `ANEMCPU::reset` between any two clocks |
| `Statistics`, `Snapshot` | extend that by the counters, and by saving and restoring |
| `Loader` | extends `Pipeline` by the loading of object and text files |
| `Machine` | composes `Snapshot` and `Loader`: a session from the program file on |
| `Debugger` | extends `PipelineReset` by the debug engine and `programEnd` |
| `Bus` | the data side of the memory: array, peripherals, access log |
| `DebugServer`, `Session` | the debug server's two threads and a client; abstract: what it promises about a run |
| `WebServer` | the web server's two threads, browsers and the GDB stub |
| `LiveReload` | the page: its buffer, its transfers, and the reload of open pages |
| `GdbStub` | the stub and GDB over a socket |
| `Timer`, `Uart`, `Mac` | the peripherals with behaviour of their own |
| `SerialLine` | abstract: what a transmitter promises |
| `Peripherals`, `Board` | compose `Timer` and `Uart` with the interrupt pin, and those with `Mac` |
| `MC*` | programs, files and values for TLC |
| `PipelineProofs`, `RefinementProofs` | theorems and proofs about `Pipeline` and `PipelineReset`, and that `Pipeline` implements `ISA` |
| `WebServerProofs`, `PeripheralsProofs` | about `WebServer` and `LiveReload`; about `Peripherals`, `Board` and `Bus` |
| `MachineProofs`, `DebuggerProofs`, `DebugServerProofs`, `GdbStubProofs` | about the module each is named after |

### The core

`Pipeline.Clock` computes every latch and register from those of the clock
before, in the order in which `clockCycle` runs its stages: what `p_fetch`
takes from EX, what `p_decode` forwards, what `manageStalls` asks for.  A
latch carries a record `ctl` of the control signals that the instruction's
decoding set (`Ctl`, from the switch in `p_decode`); `NopCtl` is a bubble.
`p_stall_if` is recomputed at the start of every clock and is the operator
`Stalled`.  The order matters in one place the code comments on: the load stall
is decided in `p_decode`, after `p_fetch` has already replaced the latch
(`LoadUse` appears in `d2e'` and not in `f2d'`).

`addr_t` has 32 bits and `data_t` 16: addresses are integers, data are cut by
`% WordSize`.  `DMemSize`, the cell one past the end that the bound test of
`mem.cpp:58` lets through, is one more memory word; what an access there really
touches is undefined.  The interrupt pin takes any level of `PinLevels` after
each clock.  Forwarding is always on, as `main.cpp` constructs the core.
The trace hooks are left out.

### The programmer's model

`ISA` executes one instruction per step; a transfer takes effect after its
delay slot (`pc`, `npc`); an encoding that the decoder does not know is a
`NoOperation`.  `PipelineRefinement` maps the pipeline to it: the abstract PC is
the oldest instruction in flight (`Current`, `Following`), the abstract registers are
what writeback is about to leave.  The Z register is written in EX, before the
instruction in MEM is done, and EPC, ECA and the interrupt enable in fetch, decode or
writeback: they have history variables (`zArch`, `excArch`).  An interrupt follows an
instruction: `ISA` may take one after any that is no transfer and no EI, DI or
MTEPC, and returns to what would have been next.  The pipeline takes it in the fetch,
and `cut` marks the instruction it follows until that is executed.

The core does not resolve every hazard: software must keep six rules, each an
operator of `PipelineRefinement` and each in force when `Discipline` names it
(no use of a load's result in the two instructions after it; no use of R15
after JAL until the link is written; distance between writers and readers of
HI/LO; distance before MTHI/MTLO; no conditional branch in a delay slot; no MFEPC,
MFECA or MTEPC where an interrupt or a SYSCALL can meet it, which a handler keeps by
leaving interrupts off).  A seventh, `quietDecode`, is not in the hands of software: the
core takes an interrupt while a transfer, an EI or a DI is being decoded, and then it
is no longer between two instructions (section 6).  `RNext` stops a program that breaks a
rule, so the refinement says nothing of what follows.  Each rule is needed: without it
the refinement is violated.

### A session with the machine

`Statistics.CountedClock` is a clock with the increments of `clockCycle`,
`p_fetch` and `p_decode`, each under the condition under which the code counts.
`retired` is a history variable.  `Snapshot` saves what `save` writes field by field
and restores what `restore` reads; whatever is in neither list keeps the value it
has when the file is loaded.  The session may have run on or been reset in
between; `record` holds the run after the save, and the clocks after the load get
the same levels of the pin.  `Loader` describes an object by what `loadELF` takes
from it (sections, symbols, relocations) and a line of text by the format it
matches; the loaded program runs in the pipeline, which decides whether the
relocations were right.  `Machine` is all of that in one session.

### The debugger

`step` and `runBatch` hold the engine's mutex for their whole loop; one action
of `Debugger` is one turn, and `loop` says which loop is in progress.  Between
two batches any other command may come.  `debugMode` is set when a GDB stub is
constructed (`gdb_stub.cpp:587`), before any thread runs, so it is constant in a
session; `main.cpp` then also lifts the limit of cycles.  `ProgramEnd` is the
detection of a program's end: eight sightings of one of the last two PCs, then
four clocks of draining.

### The data bus

`Bus` is `attachPeripheral` with its check of every address before the first is
mapped, and the two access functions with their early returns.  `beyond` is the word
behind the array that the bound test lets through.

### The debug server

A step of `DebugServer` is one access to shared state: a flag, the queue under
its mutex, the engine under its.  Requests are classed by what the dispatch does
with them (`AnyTime`, `StoppedOnly`, `continue`, `pause`).  The machine is its
cycle counter, kept modulo `CycleMod`.

### The web server

A step of `WebServer` is one access to shared state by one of three threads: the
main thread in a callback of libwebsockets, the worker, the stub under the
engine's mutex.  A page's refresh is one request, `inspect`, in place of its nine.
`upToDate` holds the pages that have been sent the machine as it stands;
`overtaken` those whose refresh, or whose news from the stub, fell between the
worker's report and the clearing of `simRunning` (section 6).

`LiveReload` separates `stat` and the read of the file, because the editor may come
between them, and the chunks of a transfer, because the buffer may be replaced
between them.

### The GDB stub

Both ends of the socket are modelled: GDB as the remote serial protocol has it,
external to this repository, and the stub's loop.  A packet, an acknowledgement, a refusal
or a Ctrl-C is one item.  A command may arrive damaged in either mode: the stub asks for it
again, or in no-ack mode drops it without a word.  A reply may, too: GDB refuses it with
'-', which `readPacket` passes over, as nothing is kept that could be sent again; in no-ack
mode GDB does not look at checksums.  `lost` remembers what nobody will send again.  The
replies to monitor commands are console output ("O..."), after which GDB waits for
more.  GDB's timeouts are not modelled: a GDB that gives up leaves.  A byte is written in
the two steps of `handleWriteMemory`, and `OtherWrite` is the web server's thread
between them.

### The peripherals

Counters have their widths as parameters (`CountMod`, `PscMod`, `TickMod`), CTRL
and STATUS are sets of bits or records of fields.  Accesses by programs and by
debuggers are the same actions, between two clocks.  `frame`, `base`, `age`,
`unread` and `lost` are history variables, used only by properties.  `baud_div`
takes the values of `BaudValues`; the bit period is cut as `getBitPeriod` cuts
it.  FE is never raised by the code.  Of the multiply-accumulate unit operands and
results are symbols; its operation registers hold anything at power-on.
`Board.BoardClock` is `clockPeripherals`: the unit's share in the pin's OR is a
member that nothing sets.  A reset by a debugger does not reach the unit.

## 3. Runs

| Run | Module | What it asks |
|---|---|---|
| `pipeline` | `MCPipeline` | the control logic, under every program of four instructions of an 11-instruction family, each with the pin at any level in each clock |
| `refinement` | `MCRefinement` | does the pipeline execute scheduled programs as `ISA` does? |
| `machine` | `MCMachine` | does a session of loading, running, resetting, saving and restoring keep its word? |
| `debugger` | `MCDebugger` | sessions of four commands on four programs |
| `server` | `DebugServer` | both threads and a client of five requests |
| `web` | `WebServer` | two browsers, the worker and the stub: do pages follow the machine? |
| `web_gdb` | `WebServer` | a browser with more requests and a busier stub: exclusion, and pauses |
| `live_reload` | `MCLiveReload` | an editor, the server and two browsers |
| `gdb` | `GdbStub` | two sessions of GDB, damaged packets and replies, Ctrl-C at any time, a second client |
| `bus` | `MCBus` | the board's attachments and some that collide, and the addresses at their borders |
| `board` | `MCBoard` | timer, UART, MAC and pin under every order of clocks, accesses and resets |
| `load_use` | `MCRefinement` | what a comment and the README say and the code does not do: section 6 |

### Properties

*pipeline.*  `TypeOK`: every result is cut to its width.  `BubblesAreInert`: a
bubble has no control left, and while a load stall counts down EX holds a bubble,
so no transfer is waiting for the fetch that the stall suppresses.
`ReturnAddressIsCurrent`: RETI in EX jumps to the EPC of the moment, whatever
MTEPC or interrupt came in between.  `StallsAreShort`: three bubbles in a row
leave nothing to wait for.  `FetchedIsDecoded`: only the known load case drops
a fetched instruction.  `TransfersRedirect`: only two known cases drop a transfer.

*refinement.*  `ImplementsISA`, over four families of programs: arithmetic,
byte loads and all control transfers; loads, stores, stack and LPM; HI, LO,
multiplication and BHLEQ with zero to three NOPs between them; and programs with a
handler that SYSCALL and the interrupt pin, at any level in each clock, can enter.
Every instruction is executed once, in order and with the result `ISA` gives it, and
a handler returns to where the program was left.  One word of the last family is no
instruction.

*machine.*  `NoStaleResults`: after a reset nothing that was in flight writes a
general register, SP, EPC or Z.  `TimeIsAccountedFor`: every clock since the last reset
is a counted bubble or an instruction that is written back or on its way, whatever
the reset found in the pipeline.  `ReplayFollows`: after a load the core repeats the run
it had after the save, for as long as it uses nothing that the file leaves out.
`TransfersArrive`: relocated jumps and branches reach their symbols, forwards and
backwards, at either load address; it excepts a branch that stands in a delay slot or meets
an interrupt at decode, which counts from where the fetch has got to.  `VariableIsRead`: a
relocated LIU and the LIL behind it build the address of their symbol, and until a reset a
load from there brings the word the file has, in a program that stores nothing, behind
sections of any kind and size.

*server.*  `StoppedOnlyAlone`: handlers that use parts of the engine that no
mutex protects run when the worker is past its last access.
`AssuredStandsStill`: a client that was told the machine stands finds it standing.
`ImplementsSession`: nothing runs after its stop was reported, no run ends
without a report.  `RequestsAnswered`, `StopsAreHeard`: liveness.

*debugger.*  `BreakpointsHaltSequence`: an instruction at a breakpoint is not
fetched in sequence, except where a batch begins on it.  `WatchedAccessStops`:
an access to a watched address stops the engine whatever points came and went
before; the one gap is a stalled clock in the middle of a step.
`StepsMove`: a step moves the PC, unless the program fetches the same transfer or EI
over and over.  `HaltedStands`: a halted machine is not clocked
before a reset.  `DrainedWhenHalted`: when the end was detected, everything in
flight belongs to the final loop.  `ContinueEnds`: programs that end do end a
continue.

*web.*  `UpdatesOnTheWay`: a page that does not show a standing machine has a
message, a push or a request on its way, unless its refresh fell into the worker's last
steps.  `PagesFollow`: once the machine stands its pages come to show it.
*web_gdb.*  `StoppedOnlyAlone`, as for the debug server; `PauseAnswered`: a pause is
answered though the worker it joins may wait for the stub.

*live_reload.*  `PagesAreWhole`: a page that was loaded is all of one version, unless the
buffer was replaced during its transfer.  `EditsArrive`: the last edit is served
in the end.  `StalePagesReload`: a page that was connected when the buffer was replaced
does not stay what it was.

*gdb.*  `RepliesInStep`: the reply GDB takes belongs to the command it sent last,
across sessions, retransmissions and modes.  `CommandsAnswered`: a command is answered, in
either mode and whatever mode the session before had, and sent again if it was damaged while
acknowledgements are on; Ctrl-C ends a run, and helps where the packet or the reply of a
`continue` was lost.  Excepted, each for the reason named, are commands of which a reply was
refused or a packet was damaged in no-ack mode, and monitor commands: these GDB waits for
in vain (section 6).

*bus.*  `MappedWholly`: a peripheral has all of its addresses or none, and no two share one.
`LogIsTrue`: the access log, which watchpoints believe, says what happened.

*board.*  `TimerRate`: since COUNT was last set, it advanced once per
`Prescaler[PSC]` clocks.  `StatusIsTrue`: TXRDY, RXDA and OE say what they
should, whatever was written to STATUS.  `FrameTiming`: start, data and stop
bits last one period each.  `ImplementsLine`: an accepted byte is the next that
comes out, once.  `PinFollowsFlags`: the pin is high only with an enabled flag
up, and is high when one was up before the clock.  `NeverAnswers`: the MAC unit as
written raises no flag and delivers no result, whatever it held at power-on: a block that
is ready then is stopped before the state machine looks.

For every property `PROJECT.json` names a change to the model, of the kind a
programming error would make, under which TLC finds the property violated.

### Bounds

- `MaxCycles` 11 for programs of four instructions: five clocks take an
  instruction through the pipeline, loops over the exception vector at address 2
  come round twice.  18 for the refinement, whose programs have up to eleven words, NOPs
  included; a program is followed for eight clocks after its last word.  300 for
  the debugger, more than a session of four commands takes to reach `MaxTotal`
  (60) or the detected end: the steps of `Circling`, in which a jump to itself comes to be
  its own delay slot, end after sixteen clocks each.
- Families of instructions over two registers, so that consecutive instructions
  interfere; four in a row fill decode, EX, MEM and WB.  In the refinement the last of
  them is one that makes visible what the others left.  Words the family leaves
  out are covered by the proofs, which are about every program.
- `MaxRequests` 5: two runs of the machine, with a pause and a request in each.
  `CycleMod` 2 is enough to tell whether the machine moved.
- `MaxCommands` 4 and two addresses: a point set, a run into it, a change of the
  points, another run.  `BatchSize` 16 lets a batch end before, in and after the
  detection of the end.  `Plodding` has stalls in every second instruction, the case
  that could be mistaken for a program's end.
- `machine`: three families share one specification and differ in `Bounds`.  Text
  programs of three and four instructions, eight clocks and one reset: every
  combination of controls is in the latches at a reset.  Pairs of instructions, six
  clocks, a save at any of them, with `MaxDetour` 1 clock between a reset and the load:
  one clock leaves something of another run in every latch.  Objects run until
  they stop changing; section sizes 0, 3 and 4 are the empty, the odd and the even
  case, in `.data` and `.bss`.  The delayed ones have a branch in the delay slot of a
  relocated jump.
- `web`: two browsers, so that one may miss what the other causes; one request, two
  connections and one change by the stub.  `web_gdb`: one browser, two requests, two
  changes.  Each of the two is the largest that a few minutes allow; the invariants
  are theorems for any number.
- `gdb`: `MaxSessions` 2, the least with a mode to inherit; `MaxCommands` 4;
  `MaxDamage` 1, of the commands and the replies together.
- `live_reload`: `MaxEdits` 2 with files of two, one and three chunks, so that the
  buffer shrinks and grows under a transfer.
- `bus`: the code's own size and addresses; `MaxLog` 2, so that a log is not its last
  entry only.
- `board`: `CountMod` 3, `PscMod` 4, prescalers 1 to 4, `TickMod` 4, frames of two bits:
  all boundaries occur, the wrapped bit period (`BaudValues` contains 1) too.
  The proofs hold for all widths.  The devices meet only in the clock and at the pin:
  a behaviour accesses either the MAC or the others.

`CHECK_DEADLOCK FALSE` stands in the configurations of systems that stop: programs at
`MaxCycles`, programs that break a scheduling rule, clients with no requests
left, files that are edited no more.  The board and the web server never stop, and
deadlock is checked there.

### Fairness

`DebugServer.FairSpec`: weak fairness of the two threads and of the client's
receiving, no more: the operating system runs threads that can run, and
`std::mutex` promises no order.  `RequestsAnswered` therefore states its own
assumption, that the mutex is granted in the end to a waiting main thread;
without it a worker that releases and retakes the mutex may starve it.
`Debugger.DSpec`: weak fairness of the loops in
progress and of a client that continues; nothing obliges a client to send a
command.

`WebServer.FairSpec`: weak fairness of the main thread, of the worker and of the stub's
steps under the mutex; strong fairness of receiving from and writing to each browser,
since `lws_service` comes round to every socket that stays ready between other
callbacks.  Users, connections and the stub's commands have none.
`LiveReload.FairReloadSpec`: weak fairness of the server's steps, of the end of a browser's
transfer and of a page's obedience to `reload`.  `GdbStub.FairSpec`: weak
fairness of the stub and of GDB's reading; none of its user.  There an access to the engine
is one step, so this fairness includes that the stub gets the engine's mutex in the end:
a web client's worker that releases and retakes it all the time is assumed not to starve
the stub, which `std::mutex` does not promise.

## 4. What is proved

No theorem assumes anything but the named assumptions on the constants; bounds
are arbitrary.

*PipelineProofs*, for every set of programs:
`TypeCorrect` (`[]TypeOK`) rests on a lemma per operator of the ALU, decoder and
stages, of which `ClockType` is made.  `ControlInv`, the inductive invariant of
the control logic, adds to `TypeOK` and the properties what the latches must agree
on: a RETI that could jump to an old EPC would have stalled at decode while the
MTEPC was in EX, MEM or writeback, and an interrupt that replaces EPC is only
taken when no transfer is in EX.  From it follow `BubblesInert`,
`ReturnCurrent` and `TransfersTakeEffect`; `StallsShort` and
`InstructionsReachEX` as well, from the definition of the three stalls.

The same module, for any number of resets: `ResetTypeCorrect`, and `ResetForgets`
(`NoStaleResults`).  A reset leaves controls behind in the latches; the invariant
(`FreshStart`) says that the stage the first fetch has not reached yet writes nothing
back, clock by clock until the pipeline is full.

*RefinementProofs*, for every set of programs, any data memory and any behaviour of
the pin: `PipelineImplementsISA`, under the assumption that software keeps its
six rules and no interrupt meets a transfer, EI or DI at decode (`Discipline = Rules`;
section 6 shows what happens without one).  The invariant,
`SimInv`, was checked by TLC in the place of the property before it was proved
(`LatchesHoldTheProgram`).  Its parts say what the latches hold in terms of the
programmer's model:
- a latch has the controls of its instruction or is a bubble (`LatchesAreHonest`), and
  the instruction is the one the memory has at the latch's address (`Fetched`);
- the operands in EX are those of the state *after* the instruction in MEM
  (`OperandsInEX`): that is where forwarding has to give the youngest value, and where
  the rules on loads, links and HI/LO are used;
- the results in MEM are those that `ISA` computes from the state that writeback leaves
  (`ResultsInMEM`, `ZeroFlag`);
- the instruction behind a delay slot is the one the transfer names, the one behind an
  interrupt the first of the handler (`Sequence`);
- EPC, ECA and the interrupt enable, which the core writes in three stages, are what
  their history says plus what is in flight (`Enabled`, `Saved`).

That a clock keeps it is one lemma per part, over the classes of what may have
happened: a stall, a fetch in sequence, a taken transfer, an interrupt, and the four
first clocks.  The step simulation then has two cases: no instruction in MEM, where the
mapping does not change, and one in MEM, which takes the action of `ISA` for its
opcode, with or without an interrupt after it.  The mapping of PC and the following
address is one lemma for all of them.

*MachineProofs*, for every set of programs and any order of clocks, resets, saves and
loads of a snapshot: `ClocksAccountedFor` (`TimeIsAccountedFor`).  Its invariant also
says that the snapshot on file accounts for its own time, with the latches it was taken
with, since a load puts those back with the counters.

`RunsAgain` (`ReplayFollows`) has two cores side by side: `Twin(p, c)` is an instance of
`Statistics` on a recorded core `c`, and a lemma per stage says that a core which matches
a recorded one computes what that computes.  The invariant, `SessionInv`, says that the
record is a run clock by clock (`RunRecorded`), that the file keeps what the core was
(`Keeps`; register 0 is 0 and the latches have all their members, which is why writing
the members back one by one restores them), and that while nothing that the file leaves
out has been used the core matches the record at its clock.  TLC checked `SessionInv` on
the saved programs of `machine` first.

`TransfersReachTheirSymbols` (`TransfersArrive`) and `VariablesAreRead` (`VariableIsRead`)
are about every object file the loader takes, whatever its sections, symbols and
relocations, and about whole sessions, since a snapshot brings back latches of the loaded
program.  What the loader leaves in memory is computed by folds over sections, bytes and
relocations.  The proofs follow such a fold as a function of the number of its turns, by
induction in the form that a set which contains 0 and with every number the next contains
`Nat` (`InductiveSet`, from the library's well-foundedness): a word is patched by its own
relocation and by no other (`PatchFetched`), a byte of a placed section is in the memory
where its base says, whatever was loaded before and behind it (`SectionsApart`,
`ByteLoaded`, `BytePatched`).  The invariant `FetchInv` says that the latch behind the
fetch holds memory's word and that a transfer before EX carries its own target; `ReadInv`,
that every latch holds an instruction of the program with the controls that loads, stores
and LIU need, that LIL is forwarded the byte LIU has yet to write, and that in a program
without stores the data stay what they were, in memory and on file.  TLC checked
`ReadInv` on the run `machine` before it was proved.  The one thing asked of a relocation
is that it can do its work: it patches a loaded word that no other patches, and the offset
of a transfer has twelve bits.

`MachineTypeCorrect` (`TypeOK`) holds for the same sessions: whatever a file brings into
the memories and a snapshot back into the core.

*DebuggerProofs*, for every program, batch size and number of commands:
`EngineInvariant` relates the loop in progress, what the batch has left, the access
log and the reported reason.  From it follow `EngineTypeCorrect`,
`BreakpointsStop`, `WatchpointsStop` and `HaltedStaysHalted`.  The middle one needs
that the log is on whenever there is a watchpoint, whichever points came and went.

`StepsMoveOn` (`StepsMove`) counts the clocks of a step that has not moved.  Its invariant,
`StepInv`, says how often the fetch has come back to the same word (`Around`) and how many
bubbles followed the last time: a word that is no transfer and no EI comes back three
times at most, since by the third the latches hold nothing else that could redirect the
fetch, and between two returns there are at most three bubbles.  Three returns with their
stalls are fewer than the sixteen clocks of `MAX_STALL_CYCLES`; and a word that comes back
for ever does so without a stall (`Settled`), which is the exception `Refetched`.

*DebugServerProofs*, for any number of requests: `ServerInvariant` relates the
positions of the two threads to the flags (`ServingInv`, `RunningInv`), the
notifications to the runs (`ReportInv`), and what the client was told to the
worker's position (`AssuredInv`).  None of the properties is inductive alone: that
the machine stands when a handler runs needs that `simRunning` is cleared only in
the worker's last step and set only when there is no live worker that would
clear it.  From it follow `ServerTypeCorrect`, `HandlersAlone`,
`ToldStandsStill`, and `SessionImplemented`, the step simulation of `Session`.

*WebServerProofs*, for any number of browsers, requests and changes by the stub:
`WebInvariant` has, besides exclusion, one part for each way a remedy can be on its way
to a page: a change is in the flag, in the hands of the main thread, in a queue, in
the page's own request, or the worker has yet to report.  From it follow
`WebTypeCorrect`, `WebHandlersAlone` and `PagesRemembered` (`UpdatesOnTheWay`).  For any
number of browsers and edits and files of any length, `PagesStayWhole` (`PagesAreWhole`):
a transfer whose buffer was not replaced has sent the first chunks of what it promised,
as many as its position says.

*GdbStubProofs*, for any number of sessions: `StubInvariant` and
`StubTypeCorrect`; `BytesSurvive`: a byte written through the stub leaves the other
byte of its word alone, under the assumption that no other thread has access
(`~Shared`); with one it does not hold (section 6).  `RepliesStayInStep`
(`RepliesInStep`) needs no such assumption.  Its invariant, `InStep`, is about both
channels and both ends:
the command sent last is in at most one place, as a packet on its way, in the hands of
the stub, or as a reply or a request to send it again, and nowhere when GDB is free to
send the next; whatever was damaged, refused or sent again, and in any mode.

*PeripheralsProofs*, for every width: `TimerTypeCorrect`, `UartTypeCorrect`;
`StatusTrue`, which is inductive; `LineImplemented`, the step simulation of
`SerialLine` under it; `FramesTimed`, from the invariant that a timed frame's bit
and tick counters are below their ends (`FrameInv`), where each bit adds one period;
`RateKept`, under the assumption `ReachablePrescalers` that drivers
select no prescaler beyond what `psc_counter` can reach (the code's fourth setting is
beyond it: section 6);
`PinTrue`.  `BoardHasPeripherals` carries all of them over to the board with the MAC, and
`UnitIsSilent` (`NeverAnswers`) says of that unit that from any content of its
registers it never delivers.

The same module, of the data bus: `AttachedWholly` and `LogTellsTheStory`, for every
size, every set of peripherals and every order of calls, each an invariant that is
inductive with the shape of the log.

Type invariants are proved and not model-checked again, but for the core's.

Only model-checked:
- all liveness, since TLAPS has no proof rules for fairness here (`RequestsAnswered`,
  `StopsAreHeard`, `ContinueEnds`, `PagesFollow`, `PauseAnswered`, `CommandsAnswered`,
  `EditsArrive`, `StalePagesReload`);
- `DrainedWhenHalted`, which is not true of every program: in a loop of two instructions
  that is entered by its second the eight sightings may be over before what came before
  it is, and a loop of two instructions that does end may be taken for the program's end.
  The property is checked on programs that have neither.

No module uses a RECURSIVE operator.

## 5. Not modelled, and why

- The disassembler, the trace writer, JSON-RPC and the options of `main.cpp`: parsing and
  formatting, of no state that the rest reads back.
- GPIO has plain registers: a property of it would restate an assignment.
- Malformed object files, the DWARF and symbol tables: they feed the disassembler and
  error messages.
- `loadSnapshot` in the sessions of `Debugger`.  It clears `halted`, as a reset does, and
  brings the core back, with the counters of the end's detection, to where it was saved;
  `Machine` has it, without the engine's loops around it.
- The contents of replies and of trace notifications, the instruction history and the
  heat map: they do not change what happens next.
- Data races inside one clock: `setTraceCallback` at the end of the worker against a
  step of the stub, and the peripherals' accessors, some of which take no mutex.  Their
  outcome is undefined, and the models end at the calls of the engine.
- In a GDB session a batch ends at once at a breakpoint at the PC, so a web client that
  continues from there does not get away; nothing promises that it does.
- The file system's clock: every edit is given a time of its own.

## 6. Where the code and what is said of it differ

Run `load_use` ends with a counterexample: `README.md:317` and `cpu.cpp:1217` say a
load-use hazard costs one stall cycle.  With the load two instructions ahead the user
of the load is replaced by a bubble and its successor decoded: it is never executed.

### Seen while modelling

Each definition below states the quoted claim and is violated; it is not part of a run.  To
see the counterexample, put the definition in place of the properties of the named
configuration.

| Definition | Configuration | What is said, and what the code does |
|---|---|---|
| `ImplementsISA` with `"link"` out of `Discipline` | `Refinement.cfg` | `cpu.cpp:1222` says JAL forwards its return address as R15.  The comparison (`cpu.cpp:711`) uses a nibble of the offset as the register number. |
| `ImplementsISA` with `"quietDecode"` out of `Discipline` | `Refinement.cfg` | `cpu.cpp:243` says an interrupt saves the address of the instruction that will be executed again, and `cpu.cpp:237` that it is taken in a quiet cycle.  The gate looks at EX only.  With a taken transfer in decode the handler's first word becomes its delay slot and the rest of the handler is not reached; with a DI in decode the DI is undone (RETI enables interrupts again), with an EI the handler runs with interrupts on. |
| `PipelineReset!ResetStartsAtZero` | `Machine.cfg` | `README.md:78` says a reset sets PC = 0.  With a jump in EX the first fetch is at its target: `reset` leaves the jump flags of the latch. |
| `Statistics!StallCyclesAreCycles` | `Machine.cfg` | `stats.cpp:73` reports "Stall cycles".  A stall is counted where the hazard is found (`cpu.cpp:133`) and again in the fetch (`cpu.cpp:232`). |
| `Snapshot!ReplayRepeats` | `Machine.cfg` | `README.md:113` says snapshots include all registers and the internal state.  The Z register, the `lpm` flags of two latches and the pin are not in the file: a BZ after a load may go the other way. |
| `Loader!DataIsLoaded` | `Machine.cfg` | `mem.h:88` says data sections are loaded.  The last byte of a section of odd size is not (`mem.cpp:867`), and the next section starts on its word. |
| `Loader!HexIsLoaded` | `Machine.cfg` | `README.md:42` says standard Intel HEX.  Two bytes of a record give one instruction made of one byte (`mem.cpp:1222`). |
| `Debugger!BreakpointsHalt` | `MCDebugger.cfg` | `README.md:92` says breakpoints halt when the PC reaches the address.  `checkBreakpoints` compares the PC between clocks; the clock that takes a jump fetches the target and leaves the PC one beyond. |
| `DebugServer!InspectAfterStop` | `DebugServer.cfg` | `README.md:262` shows a client that inspects after `stopped`.  The notification is queued before `simRunning` is cleared: the request may be refused with error -2. |
| `WebServer!SimLoopUpdatesPages` | `WebServer.cfg` | `web_server.cpp:212` says the sim loop handles its own updates, and `:313` that external changes are pushed.  A refresh on `stopped` can be refused while `simRunning` is not yet cleared (`:947`), a change of the stub in that window is dropped, and nothing follows. |
| `LiveReload!ChangesAreRead` | `LiveReload.cfg` | `web_server.cpp:354` says a changed file is read again.  At the start the content is read before its time (`:252`, `:255`): an edit in between is never served. |
| `GdbStub!RunEndsWithDebugger` | `GdbStub.cfg` | `gdb_stub.cpp:642` says packets are processed until the disconnect.  During a run a `recv` that returns 0 is not looked at: the program runs on. |
| `GdbStub!ExitsAfterDisconnect` | `GdbStub.cfg` | `main.cpp:309` says the stub's thread ends on the next disconnect.  It goes back to `accept`, and the join waits for ever. |
| `GdbStub!RetransmitComes` | `GdbStub.cfg` | `gdb_stub.cpp:154`, at a bad checksum: "wait for retransmit".  In no-ack mode no '-' is sent (`:146`), so nobody retransmits: the command is dropped and GDB waits. |
| `GdbStub!RefusedComesAgain` | `GdbStub.cfg` | `gdb_stub.h:3` calls it a stub of the remote serial protocol, in which a refused packet is sent again.  `readPacket` passes over GDB's '-' (`gdb_stub.cpp:125`), and `sendReply` keeps no copy. |
| `GdbStub!MonitorEnds` | `GdbStub.cfg` | The same, of `qRcmd`, whose console output is followed by an "OK".  `handleMonitor` returns the output alone (`gdb_stub.cpp:400`-`:497`): GDB prints it and goes on waiting. |
| `GdbStub!WriteKeepsByte` | `GdbStub.cfg` | `gdb_stub.cpp:293` says the other byte is preserved.  Read and write take the mutex separately: a write of the web client between them is undone. |
| `Bus!ArrayHoldsTheRest` | `Bus.cfg` | `cpu.cpp:26` gives the array 65487 words.  The bound tests (`mem.cpp:58`, `:92`) let address 65487 through. |
| `MCBus!MacWhereDocumented` | `Bus.cfg` | `README.md:330` puts the MAC at 0xFFD0.  It is attached at 0xFFD4 (`mac.h:13`); 0xFFD0 is the GPIO's. |
| `Peripherals!AssertedStays` | `Board.cfg` | `debug.cpp:504` has commands to assert and deassert the interrupt.  `clockPeripherals` sets the pin anew after every clock: an assertion lasts one. |
| `TimerRate` with `CtrlValues <- SlowCtrls` | `Board.cfg` | `timer.h:8` gives /256 for PSC = 3.  The 8-bit `psc_counter` never reaches 256, and the timer does not count. |
| `Mac!MultiplicationEnds` under `FairMacSpec` | module `Mac` | `mac.cpp:69`: "multiplication init".  The switches compare a masked, unshifted field with 1 and 3 (`mac.cpp:72`): the multiplier gets no operation and the state stays `macMULT`. |

Seen while reading: HI and LO, and stores in flight, survive a reset; a pause that
races a breakpoint is reported twice; `README.md:76` says `s N` steps N clocks, while a
step lasts until the PC changes; the comment at `debug_engine.h:132` says checks for
the end are skipped with GDB attached, while they are only started afresh by each
command; "Instructions decoded" counts a bubble's NOP and a stalled instruction in
every clock; without acknowledgements a Ctrl-C that crosses the stop reply is answered
with a second one, which GDB takes for the answer to its next command
(`RepliesInStep` excepts the rest of such a session); interrupts, breakpoints and GPIO
inputs that one client sets are not notified to the others.

## 7. Plan

Built in this order: `ANEM16`, `Pipeline`; `ISA` and the refinement; `PipelineProofs`;
`PipelineReset`; `DebugServer`, `Session`; `Debugger`; the peripherals; `WebServer`,
`GdbStub`, `Bus`, `LiveReload`; `Statistics`, `Snapshot`, `Loader` and `Machine`;
`Mac` and `Board`; exceptions and interrupts in `ISA`; each with its proofs, those of the
refinement, of `ReplayFollows`, of `StepsMove` and of the loader last.  Left: two cores
on the same programs with the pin moved by one clock, to say by how much an interrupt may
be late.
