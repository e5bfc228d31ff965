------------------------------ MODULE GdbStub -------------------------------
(***************************************************************************)
(* The GDB stub (gdb_stub.cpp) and the debugger at the other end of its    *)
(* socket, over several sessions.  The debugger keeps to the remote serial *)
(* protocol: one command at a time, acknowledged until no-ack mode is on,  *)
(* and Ctrl-C while the machine runs.                                      *)
(*                                                                         *)
(* Abstracted: a packet, an acknowledgement or a Ctrl-C is one item of a   *)
(* channel; the commands that read or write the machine in one access to   *)
(* the engine are one, "read"; of the memory, one word with its two bytes. *)
(* The debugger has no timeouts: one that gives up leaves.                 *)
(***************************************************************************)
EXTENDS Naturals, Sequences

CONSTANTS
  MaxSessions, MaxCommands, MaxDamage,   (* bounds: sessions, commands and *)
                                         (* packets with a bad checksum    *)
  Shared         (* is there another thread with access to the engine?     *)

ASSUME StubAssumption == /\ MaxSessions \in Nat /\ MaxCommands \in Nat /\ MaxDamage \in Nat
                         /\ Shared \in BOOLEAN

Commands == {"read", "write", "step", "continue", "monitor", "QStartNoAckMode", "detach", "kill"}

VARIABLES
  conn,                     (* "none", "open" or "closed" by the debugger  *)
  toStub, toClient,         (* the two directions of the socket            *)
  clientAt, command, clientNoAck, interrupted,            (* the debugger  *)
  stubAt, pkt, noAckMode,                                 (* the stub      *)
  mem, word,                (* the word in memory, the stub's copy of it   *)
  sent, sessions, damage,   (* counted against the bounds                  *)
  told,                     (* history: recv has returned 0                *)
  crossed,                  (* history: in this session a Ctrl-C came when *)
                            (* the run had ended                           *)
  lost                      (* history: what was damaged on its way since  *)
                            (* the last command or Ctrl-C, and will not be *)
                            (* sent again                                  *)

socket == <<conn, toStub, toClient>>
client == <<clientAt, command, clientNoAck, interrupted>>
stub   == <<pkt, noAckMode>>
memory == <<mem, word>>
counts == <<sent, sessions, damage>>
vars   == <<socket, client, stubAt, stub, memory, counts, told, crossed, lost>>

Byte   == {0, 1}
Memory == [low : Byte, high : Byte]

Packet(c, good) == [is |-> "packet", cmd |-> c, good |-> good]
Item(kind)      == [is |-> kind, cmd |-> "read", good |-> TRUE]
Reply(c)        == [is |-> "reply", cmd |-> c, good |-> TRUE]

Init ==
  /\ conn = "none" /\ toStub = <<>> /\ toClient = <<>>
  /\ clientAt = "away" /\ command = "read" /\ clientNoAck = FALSE /\ interrupted = FALSE
  /\ stubAt = "accept" /\ pkt = "read" /\ noAckMode = FALSE
  /\ mem \in Memory /\ word = mem
  /\ sent = 0 /\ sessions = 0 /\ damage = 0 /\ told = FALSE
  /\ crossed = FALSE /\ lost = "nothing"

-----------------------------------------------------------------------------
(* The debugger. *)

Connect ==
  /\ clientAt = "away" /\ conn = "none" /\ sessions < MaxSessions
  /\ conn' = "open" /\ toStub' = <<>> /\ toClient' = <<>>
  /\ clientAt' = "free" /\ clientNoAck' = FALSE /\ interrupted' = FALSE
  /\ sessions' = sessions + 1 /\ crossed' = FALSE /\ lost' = "nothing"
  /\ UNCHANGED <<command, stubAt, stub, memory, sent, damage, told>>

Transmit(c, good) ==
  /\ toStub' = Append(toStub, Packet(c, good))
  /\ damage' = IF good THEN damage ELSE damage + 1
  /\ good \/ damage < MaxDamage

Command(c, good) ==
  /\ clientAt = "free" /\ conn = "open" /\ sent < MaxCommands
  /\ sent' = sent + 1 /\ command' = c /\ interrupted' = FALSE
  /\ clientAt' = IF clientNoAck THEN "wantReply" ELSE "wantAck"
  /\ lost' = "nothing"
  /\ Transmit(c, good)
  /\ UNCHANGED <<conn, toClient, clientNoAck, stubAt, stub, memory, sessions, told, crossed>>

Interrupt ==
  /\ clientAt = "wantReply" /\ command = "continue" /\ ~interrupted /\ conn = "open"
  /\ interrupted' = TRUE /\ lost' = "nothing"
  /\ toStub' = Append(toStub, Item("interrupt"))
  /\ UNCHANGED <<conn, toClient, clientAt, command, clientNoAck, stubAt, stub, memory, counts,
                 told, crossed>>

Takes(kind) == toClient # <<>> /\ Head(toClient).is = kind /\ toClient' = Tail(toClient)

TakeAck ==
  /\ clientAt = "wantAck" /\ Takes("ack")
  /\ clientAt' = "wantReply"
  /\ UNCHANGED <<conn, toStub, command, clientNoAck, interrupted, stubAt, stub, memory, counts,
                 told, crossed, lost>>

TakeNack(good) ==
  /\ clientAt = "wantAck" /\ Takes("nack")
  /\ Transmit(command, good)
  /\ UNCHANGED <<conn, client, stubAt, stub, memory, sent, sessions, told, crossed, lost>>

Acknowledges(kind) ==
  toStub' = IF clientNoAck \/ conn # "open" THEN toStub ELSE Append(toStub, Item(kind))

(* The reply to a monitor command is text for the console ("O...").  GDB   *)
(* prints it where it may stand, and goes on waiting for the end.          *)
ConsoleOutput == Head(toClient).cmd = "monitor" /\ command \in {"monitor", "continue"}

TakeReply ==
  /\ clientAt = "wantReply" /\ Takes("reply") /\ ~ConsoleOutput
  /\ clientAt' = "free"
  /\ clientNoAck' = (clientNoAck \/ command = "QStartNoAckMode")
  /\ Acknowledges("ack")
  /\ UNCHANGED <<conn, command, interrupted, stubAt, stub, memory, counts, told, crossed, lost>>

TakeOutput ==
  /\ clientAt = "wantReply" /\ Takes("reply") /\ ConsoleOutput
  /\ Acknowledges("ack")
  /\ UNCHANGED <<conn, client, stubAt, stub, memory, counts, told, crossed, lost>>

(* A reply that arrives damaged is refused.  Without acknowledgements GDB  *)
(* does not look at checksums.                                             *)
RefuseReply ==
  /\ clientAt = "wantReply" /\ ~clientNoAck /\ Takes("reply")
  /\ damage < MaxDamage /\ damage' = damage + 1
  /\ Acknowledges("nack")
  /\ lost' = "reply"
  /\ UNCHANGED <<conn, client, stubAt, stub, memory, sent, sessions, told, crossed>>

(* Instead of an acknowledgement, a packet is ignored, and where none is   *)
(* expected, an acknowledgement is.                                        *)
Skip ==
  /\ \/ clientAt = "wantAck" /\ Takes("reply")
     \/ clientAt # "wantAck" /\ (Takes("ack") \/ Takes("nack"))
  /\ UNCHANGED <<conn, toStub, client, stubAt, stub, memory, counts, told, crossed, lost>>

(* The debugger quits, or its host goes away; or it finds the socket shut. *)
Leave ==
  /\ clientAt # "away"
  /\ conn = "open" \/ toClient = <<>>
  /\ clientAt' = "away"
  /\ conn' = IF conn = "open" THEN "closed" ELSE conn
  /\ UNCHANGED <<toStub, toClient, command, clientNoAck, interrupted, stubAt, stub, memory,
                 counts, told, crossed, lost>>

-----------------------------------------------------------------------------
(* The stub: run, readPacket and the handlers. *)

Goes(from, to) == stubAt = from /\ stubAt' = to /\ UNCHANGED <<client, counts>>

Receives(kind) == toStub # <<>> /\ Head(toStub).is = kind /\ toStub' = Tail(toStub)

Sends(item) == toClient' = Append(toClient, item)

KeptAckMode == noAckMode             \* mutant: a new debugger inherits the mode

AckModeAtAccept == FALSE

Accept ==
  /\ conn # "none" /\ Goes("accept", "read")
  /\ noAckMode' = AckModeAtAccept
  /\ UNCHANGED <<socket, pkt, memory, told, crossed, lost>>

(* accept returns an error: run prints it and returns. *)
AcceptFails ==
  /\ Goes("accept", "ended")
  /\ UNCHANGED <<socket, stub, memory, told, crossed, lost>>

(* readPacket: acknowledgements and refusals between packets are ignored;  *)
(* there is no copy of the reply that could be sent again.                 *)
ReadAck ==
  /\ Goes("read", "read")
  /\ Receives("ack") \/ Receives("nack")
  /\ UNCHANGED <<conn, toClient, stub, memory, told, crossed, lost>>

(* A Ctrl-C outside of a run makes a stop reply of its own. *)
ReadInterrupt ==
  /\ Goes("read", "read") /\ Receives("interrupt")
  /\ Sends(Reply("continue"))
  /\ crossed' = TRUE
  /\ UNCHANGED <<conn, stub, memory, told, lost>>

Acked(item) == IF noAckMode THEN UNCHANGED toClient ELSE Sends(Item(item))

ReadPacket ==
  /\ Goes("read", "handle") /\ Receives("packet") /\ Head(toStub).good
  /\ pkt' = Head(toStub).cmd
  /\ Acked("ack")
  /\ UNCHANGED <<conn, noAckMode, memory, told, crossed, lost>>

(* A bad checksum: sent again on a '-', which no-ack mode leaves out.      *)
BadPacket ==
  /\ Goes("read", "read") /\ Receives("packet") /\ ~Head(toStub).good
  /\ Acked("nack")
  /\ lost' = IF noAckMode THEN "packet" ELSE lost
  /\ UNCHANGED <<conn, stub, memory, told, crossed>>

ReadEnd ==
  /\ Goes("read", "close") /\ toStub = <<>> /\ conn = "closed"
  /\ UNCHANGED <<socket, stub, memory, told, crossed, lost>>

(* handleCommand. *)
Answer(from, to) == Goes(from, to) /\ Sends(Reply(pkt)) /\ UNCHANGED <<conn, toStub, pkt>>

Handle ==
  /\ \/ pkt \in {"read", "step", "monitor"} /\ Answer("handle", "read") /\ UNCHANGED <<noAckMode, word>>
     \/ /\ pkt = "QStartNoAckMode" /\ Answer("handle", "read")
        /\ noAckMode' = TRUE /\ UNCHANGED word
     \/ pkt = "continue" /\ Goes("handle", "batch") /\ UNCHANGED <<socket, stub, word>>
     \/ /\ pkt = "write" /\ Goes("handle", "merge")     \* engine.getMemory
        /\ word' = mem /\ UNCHANGED <<socket, stub>>
     \/ pkt = "detach" /\ Answer("handle", "close") /\ UNCHANGED <<noAckMode, word>>
     \/ pkt = "kill" /\ Goes("handle", "close") /\ UNCHANGED <<socket, stub, word>>
  /\ UNCHANGED <<mem, told, crossed, lost>>

(* The byte at the even address is the low half of the word. *)
Merged(w, b) == [w EXCEPT !.low = b]

(* engine.writeMemory. *)
Merge ==
  /\ \E b \in Byte : mem' = Merged(word, b)
  /\ Answer("merge", "read") /\ UNCHANGED <<noAckMode, word, told, crossed, lost>>

(* handleContinue: a batch, then a look at the socket.  The program may    *)
(* write to the word.                                                      *)
Batch ==
  /\ \/ Goes("batch", "poll") /\ UNCHANGED <<socket, pkt>>
     \/ Answer("batch", "read")
  /\ mem' \in Memory
  /\ UNCHANGED <<noAckMode, word, told, crossed, lost>>

RestlessPollInterrupt ==             \* mutant: answers and runs on
  /\ Goes("poll", "batch") /\ Receives("interrupt")
  /\ Sends(Reply("continue"))
  /\ UNCHANGED <<conn, stub, memory, told, crossed, lost>>

PollInterrupt ==
  /\ Goes("poll", "read") /\ Receives("interrupt")
  /\ Sends(Reply("continue"))
  /\ UNCHANGED <<conn, stub, memory, told, crossed, lost>>

(* One byte is taken from the socket and dropped.  Without its first byte  *)
(* the rest of a packet is ignored as well, here or in readPacket.         *)
PollOther ==
  /\ Goes("poll", "batch")
  /\ Receives("ack") \/ Receives("nack") \/ Receives("packet")
  /\ UNCHANGED <<conn, toClient, stub, memory, told, crossed, lost>>

(* Nothing to read; recv says which it is, nothing yet or nothing ever.    *)
PollNothing ==
  /\ Goes("poll", "batch") /\ toStub = <<>>
  /\ told' = (told \/ conn = "closed")
  /\ UNCHANGED <<socket, stub, memory, crossed, lost>>

Close ==
  /\ Goes("close", "accept")
  /\ conn' = "none" /\ toStub' = <<>> /\ told' = FALSE
  /\ UNCHANGED <<toClient, stub, memory, crossed, lost>>

Stub == \/ Accept \/ ReadAck \/ ReadInterrupt \/ ReadPacket \/ BadPacket \/ ReadEnd \/ Handle
        \/ Merge \/ Batch \/ PollInterrupt \/ PollOther \/ PollNothing \/ Close

(* The web server writes to the same memory. *)
OtherWrite ==
  /\ Shared /\ mem' \in Memory
  /\ UNCHANGED <<socket, client, stubAt, stub, word, counts, told, crossed, lost>>

-----------------------------------------------------------------------------
Takings == \/ TakeAck \/ (\E good \in BOOLEAN : TakeNack(good)) \/ TakeReply
           \/ TakeOutput \/ RefuseReply \/ Skip

Next == \/ Connect \/ (\E c \in Commands, good \in BOOLEAN : Command(c, good)) \/ Interrupt
        \/ Takings \/ Leave \/ Stub \/ AcceptFails \/ OtherWrite

Spec == Init /\ [][Next]_vars

(* The stub's thread keeps running, with the engine's mutex when it needs  *)
(* it, and the debugger reads its socket.                                  *)
FairSpec == Spec /\ WF_vars(Stub) /\ WF_vars(Takings)
-----------------------------------------------------------------------------
(* Properties. *)

Items(kinds) == [is : kinds, cmd : Commands, good : BOOLEAN]

(* The debugger and the stub are at one of their steps, and the socket     *)
(* carries what the two can write to it.                                   *)
TypeOK ==
  /\ conn \in {"none", "open", "closed"}
  /\ toStub \in Seq(Items({"packet", "ack", "nack", "interrupt"}))
  /\ toClient \in Seq(Items({"ack", "nack", "reply"}))
  /\ clientAt \in {"away", "free", "wantAck", "wantReply"} /\ command \in Commands
  /\ clientNoAck \in BOOLEAN /\ interrupted \in BOOLEAN
  /\ stubAt \in {"accept", "read", "handle", "merge", "batch", "poll", "close", "ended"}
  /\ pkt \in Commands /\ noAckMode \in BOOLEAN
  /\ mem \in Memory /\ word \in Memory
  /\ sent \in 0 .. MaxCommands /\ sessions \in 0 .. MaxSessions /\ damage \in 0 .. MaxDamage
  /\ told \in BOOLEAN /\ crossed \in BOOLEAN /\ lost \in {"nothing", "packet", "reply"}

(* The reply a debugger takes belongs to the command it sent last, however *)
(* sessions, retransmissions and modes follow one another; a Ctrl-C that   *)
(* crossed the end of its run is answered too, and puts replies out of     *)
(* step until the end of the session.                                      *)
RepliesInStep ==
  clientAt = "wantReply" /\ toClient # <<>> /\ Head(toClient).is = "reply" /\ ~crossed
    => Head(toClient).cmd = command

Served == clientAt \in {"free", "away"} \/ conn # "open" \/ stubAt = "ended"

Waits(commands) == clientAt \in {"wantAck", "wantReply"} /\ command \in commands

(* A command is answered, in either mode and after any session: nobody     *)
(* waits for an acknowledgement that the other does not send, and a packet *)
(* that was damaged while acknowledgements are on is sent again.  What is  *)
(* lost for good is a reply that was refused and a packet that was damaged *)
(* in no-ack mode; a monitor command has no end that GDB would see.  And   *)
(* Ctrl-C ends a run that does not end by itself, the debugger hears of    *)
(* it, and it helps where the packet or the reply was lost.                *)
CommandsAnswered ==
  /\ Waits(Commands \ {"continue", "monitor"}) ~> (Served \/ crossed \/ lost # "nothing")
  /\ (interrupted /\ clientAt = "wantReply") ~> (Served \/ lost = "reply")

(* gdb_stub.cpp:154, of a bad checksum: "wait for retransmit".  Without    *)
(* acknowledgements nobody asks for one.                                   *)
RetransmitComes == (lost = "packet") ~> (Served \/ crossed)

(* gdb_stub.h:3: the stub speaks the "GDB Remote Serial Protocol", in      *)
(* which a refused packet is sent again; a reply is not.                   *)
RefusedComesAgain == (lost = "reply") ~> (Served \/ crossed)

(* The same, of qRcmd: its output is followed by an "OK".  Here it is not. *)
MonitorEnds ==
  (clientAt = "wantReply" /\ command = "monitor") ~> (Served \/ crossed \/ lost # "nothing")

(* gdb_stub.cpp:293: "Read-modify-write: preserve the other byte".  A      *)
(* write of a byte leaves the other byte of its word as it is, unless      *)
(* another thread has the mutex between the read and the write.            *)
MergeStep == stubAt = "merge" /\ stubAt' # "merge" => mem'.high = mem.high
WriteKeepsByte == [][MergeStep]_vars

(* gdb_stub.cpp:642, of the loop in run: "Process packets until            *)
(* disconnect".  During a run a disconnect is read and not looked at.      *)
RunEndsWithDebugger == told => stubAt # "batch"

(* main.cpp:309: "GDB thread will exit on next client disconnect"; it goes *)
(* back to accept.                                                         *)
ExitsAfterDisconnect == (stubAt = "close") ~> (stubAt = "ended")
=============================================================================
