--------------------------- MODULE GdbStubProofs ----------------------------
(***************************************************************************)
(* Proofs about the GDB stub, for any number of sessions, commands and     *)
(* damaged packets.                                                        *)
(***************************************************************************)
EXTENDS GdbStub, TLAPS

(* The parts of the type invariant. *)
SocketType ==
  /\ conn \in {"none", "open", "closed"}
  /\ toStub \in Seq(Items({"packet", "ack", "nack", "interrupt"}))
  /\ toClient \in Seq(Items({"ack", "nack", "reply"}))

ClientType ==
  /\ clientAt \in {"away", "free", "wantAck", "wantReply"} /\ command \in Commands
  /\ clientNoAck \in BOOLEAN /\ interrupted \in BOOLEAN

StubType ==
  /\ stubAt \in {"accept", "read", "handle", "merge", "batch", "poll", "close", "ended"}
  /\ pkt \in Commands /\ noAckMode \in BOOLEAN

MemoryType == mem \in Memory /\ word \in Memory

CountType ==
  /\ sent \in 0 .. MaxCommands /\ sessions \in 0 .. MaxSessions /\ damage \in 0 .. MaxDamage
  /\ told \in BOOLEAN /\ crossed \in BOOLEAN /\ lost \in {"nothing", "packet", "reply"}

LEMMA TypeParts ==
  TypeOK <=> SocketType /\ ClientType /\ StubType /\ MemoryType /\ CountType
BY DEF TypeOK, SocketType, ClientType, StubType, MemoryType, CountType

(* While a word is being merged nobody else has written to it. *)
Undisturbed == ~Shared /\ stubAt = "merge" => word = mem

IInv == TypeOK /\ Undisturbed

ToStubItems   == Items({"packet", "ack", "nack", "interrupt"})
ToClientItems == Items({"ack", "nack", "reply"})

-----------------------------------------------------------------------------
(* The items that are put into a channel belong there, and what is left of *)
(* a channel when its head is taken is a channel.                          *)
LEMMA SentItems ==
  /\ \A c \in Commands, g \in BOOLEAN : Packet(c, g) \in ToStubItems
  /\ Item("interrupt") \in ToStubItems
  /\ Item("ack") \in ToStubItems /\ Item("nack") \in ToStubItems
  /\ Item("ack") \in ToClientItems /\ Item("nack") \in ToClientItems
  /\ \A c \in Commands : Reply(c) \in ToClientItems
BY DEF Packet, Item, Reply, ToStubItems, ToClientItems, Items, Commands

LEMMA Channels ==
  ASSUME NEW S, NEW s \in Seq(S)
  PROVE  /\ \A e \in S : Append(s, e) \in Seq(S)
         /\ s # <<>> => Head(s) \in S /\ Tail(s) \in Seq(S)
         /\ <<>> \in Seq(S)
OBVIOUS

LEMMA InitType == Init => IInv
<1> SUFFICES ASSUME Init PROVE IInv
  OBVIOUS
<1>1. SocketType
  BY Channels DEF Init, SocketType
<1>2. ClientType /\ StubType
  BY DEF Init, ClientType, StubType, Commands
<1>5. MemoryType
  BY DEF Init, MemoryType
<1>3. CountType
  <2>1. /\ sent = 0 /\ sessions = 0 /\ damage = 0 /\ told = FALSE /\ crossed = FALSE
        /\ lost = "nothing"
    BY DEF Init
  <2>2. \A n \in Nat : 0 \in 0 .. n
    OBVIOUS
  <2> QED BY <2>1, <2>2, StubAssumption DEF CountType
<1>4. Undisturbed
  BY DEF Init, Undisturbed
<1> QED BY <1>1, <1>2, <1>3, <1>4, <1>5, TypeParts DEF IInv

(* The memory: only the batches of a run, the merge and another thread     *)
(* write to it, and the copy is taken where the merge begins.              *)
LEMMA MergedType ==
  ASSUME NEW w \in Memory, NEW b \in Byte
  PROVE  Merged(w, b) \in Memory /\ Merged(w, b).high = w.high
BY DEF Merged, Memory

LEMMA MemoryStep ==
  ASSUME IInv, [Next]_vars
  PROVE  MemoryType' /\ Undisturbed'
<1> USE DEF IInv
<1>1. MemoryType
  BY TypeParts
<1>2. CASE Merge
  <2>1. PICK b \in Byte : mem' = Merged(word, b)
    BY <1>2 DEF Merge
  <2>2. stubAt' = "read" /\ word' = word
    BY <1>2 DEF Merge, Answer, Goes
  <2> QED BY <1>1, <2>1, <2>2, MergedType DEF MemoryType, Undisturbed
<1>3. CASE Handle
  <2>1. mem' = mem /\ (word' = word \/ word' = mem)
    BY <1>3 DEF Handle
  <2>2. stubAt' = "merge" => word' = mem
    BY <1>3 DEF Handle, Answer, Goes
  <2> QED BY <1>1, <2>1, <2>2 DEF MemoryType, Undisturbed
<1>4. CASE Batch
  <2>1. mem' \in Memory /\ word' = word /\ stubAt' # "merge"
    BY <1>4 DEF Batch, Answer, Goes
  <2> QED BY <1>1, <2>1 DEF MemoryType, Undisturbed
<1>5. CASE OtherWrite
  <2>1. Shared /\ mem' \in Memory /\ word' = word
    BY <1>5 DEF OtherWrite
  <2> QED BY <1>1, <2>1 DEF MemoryType, Undisturbed
<1>6. ASSUME ~Merge, ~Handle, ~Batch, ~OtherWrite
      PROVE  memory' = memory /\ (stubAt' = stubAt \/ stubAt' # "merge")
  <2>1. CASE Accept \/ AcceptFails \/ ReadAck \/ ReadInterrupt \/ ReadPacket \/ BadPacket
    BY <2>1 DEF Accept, AcceptFails, ReadAck, ReadInterrupt, ReadPacket, BadPacket, Goes
  <2>2. CASE ReadEnd \/ PollInterrupt \/ PollOther \/ PollNothing \/ Close
    BY <2>2 DEF ReadEnd, PollInterrupt, PollOther, PollNothing, Close, Goes
  <2>3. CASE Connect \/ (\E c \in Commands, g \in BOOLEAN : Command(c, g)) \/ Interrupt
    BY <2>3 DEF Connect, Command, Interrupt
  <2>4. CASE Takings \/ Leave
    BY <2>4 DEF Takings, TakeAck, TakeNack, TakeReply, TakeOutput, RefuseReply, Skip, Leave
  <2>5. CASE UNCHANGED vars
    BY <2>5 DEF vars
  <2> QED BY <1>6, <2>1, <2>2, <2>3, <2>4, <2>5 DEF Next, Stub
<1> QED
  BY <1>1, <1>2, <1>3, <1>4, <1>5, <1>6 DEF memory, MemoryType, Undisturbed

(* The debugger and the stub stay at their steps. *)
LEMMA ClientStep ==
  ASSUME IInv, [Next]_vars
  PROVE  ClientType'
<1>1. ClientType
  BY TypeParts DEF IInv
<1>2. CASE Connect \/ Interrupt \/ Leave
  BY <1>1, <1>2 DEF Connect, Interrupt, Leave, ClientType
<1>3. CASE \E c \in Commands, g \in BOOLEAN : Command(c, g)
  BY <1>1, <1>3 DEF Command, ClientType
<1>4. CASE TakeAck \/ TakeReply \/ TakeOutput \/ RefuseReply
  BY <1>1, <1>4 DEF TakeAck, TakeReply, TakeOutput, RefuseReply, client, ClientType
<1>5. CASE (\E g \in BOOLEAN : TakeNack(g)) \/ Skip
  BY <1>1, <1>5 DEF TakeNack, Skip, client, ClientType
<1>6. CASE AcceptFails \/ OtherWrite \/ UNCHANGED vars
  BY <1>1, <1>6 DEF AcceptFails, OtherWrite, Goes, vars, client, ClientType
<1>7. CASE Accept \/ ReadAck \/ ReadInterrupt \/ ReadPacket \/ BadPacket \/ ReadEnd
  BY <1>1, <1>7 DEF Accept, ReadAck, ReadInterrupt, ReadPacket, BadPacket, ReadEnd, Goes,
                    client, ClientType
<1>8. CASE Handle \/ Merge \/ Batch
  BY <1>1, <1>8 DEF Handle, Merge, Batch, Answer, Goes, client, ClientType
<1>9. CASE PollInterrupt \/ PollOther \/ PollNothing \/ Close
  BY <1>1, <1>9 DEF PollInterrupt, PollOther, PollNothing, Close, Goes, client, ClientType
<1> QED
  BY <1>2, <1>3, <1>4, <1>5, <1>6, <1>7, <1>8, <1>9 DEF Next, Takings, Stub

LEMMA StubStep ==
  ASSUME IInv, [Next]_vars
  PROVE  StubType'
<1>1. StubType /\ SocketType
  BY TypeParts DEF IInv
<1>2. CASE Connect \/ Interrupt \/ Leave
  BY <1>1, <1>2 DEF Connect, Interrupt, Leave, stub, StubType
<1>3. CASE \E c \in Commands, g \in BOOLEAN : Command(c, g)
  BY <1>1, <1>3 DEF Command, stub, StubType
<1>4. CASE Takings
  BY <1>1, <1>4 DEF Takings, TakeAck, TakeNack, TakeReply, TakeOutput, RefuseReply, Skip, stub,
                    StubType
<1>5. CASE AcceptFails \/ OtherWrite \/ UNCHANGED vars
  BY <1>1, <1>5 DEF AcceptFails, OtherWrite, Goes, vars, stub, StubType
<1>6. CASE Accept \/ ReadAck \/ ReadInterrupt \/ BadPacket \/ ReadEnd
  BY <1>1, <1>6 DEF Accept, AckModeAtAccept, ReadAck, ReadInterrupt, BadPacket, ReadEnd, Goes,
                    stub, StubType
<1>7. CASE ReadPacket
  <2>1. toStub # <<>> /\ pkt' = Head(toStub).cmd
    BY <1>7 DEF ReadPacket, Receives
  <2>2. Head(toStub) \in ToStubItems
    BY <1>1, <2>1, Channels DEF SocketType, ToStubItems
  <2>3. pkt' \in Commands
    BY <2>1, <2>2 DEF ToStubItems, Items
  <2> QED BY <1>1, <1>7, <2>3 DEF ReadPacket, Goes, StubType
<1>8. CASE Handle \/ Merge \/ Batch
  BY <1>1, <1>8 DEF Handle, Merge, Batch, Answer, Goes, stub, StubType
<1>9. CASE PollInterrupt \/ PollOther \/ PollNothing \/ Close
  BY <1>1, <1>9 DEF PollInterrupt, PollOther, PollNothing, Close, Goes, stub, StubType
<1> QED
  BY <1>2, <1>3, <1>4, <1>5, <1>6, <1>7, <1>8, <1>9 DEF Next, Stub

(* What is written to the socket, and what is left of it. *)
LEMMA SocketStep ==
  ASSUME IInv, [Next]_vars
  PROVE  SocketType'
<1> DEFINE Up == Seq(ToStubItems)
           Down == Seq(ToClientItems)
<1>1. SocketType /\ ClientType /\ StubType
  BY TypeParts DEF IInv
<1>2. toStub \in Up /\ toClient \in Down
  BY <1>1 DEF SocketType, ToStubItems, ToClientItems
<1>3. /\ \A c \in Commands, g \in BOOLEAN : Append(toStub, Packet(c, g)) \in Up
      /\ Append(toStub, Item("interrupt")) \in Up /\ Append(toStub, Item("ack")) \in Up
      /\ Append(toStub, Item("nack")) \in Up
      /\ Append(toClient, Item("ack")) \in Down /\ Append(toClient, Item("nack")) \in Down
      /\ Append(toClient, Reply("continue")) \in Down /\ Append(toClient, Reply(pkt)) \in Down
      /\ <<>> \in Up /\ <<>> \in Down
  <2>1. "continue" \in Commands /\ pkt \in Commands
    BY <1>1 DEF Commands, StubType
  <2> QED BY <1>2, <2>1, SentItems, Channels
<1>4. /\ toStub # <<>> => Tail(toStub) \in Up
      /\ toClient # <<>> => Tail(toClient) \in Down
  BY <1>2, Channels
<1> HIDE DEF Up, Down
<1>5. SUFFICES toStub' \in Up /\ toClient' \in Down /\ conn' \in {"none", "open", "closed"}
  BY DEF SocketType, Up, Down, ToStubItems, ToClientItems
<1>6. conn \in {"none", "open", "closed"}
  BY <1>1 DEF SocketType
<1>7. CASE Connect \/ Interrupt \/ Leave
  BY <1>2, <1>3, <1>6, <1>7 DEF Connect, Interrupt, Leave
<1>8. CASE \E c \in Commands, g \in BOOLEAN : Command(c, g)
  BY <1>2, <1>3, <1>6, <1>8 DEF Command, Transmit
<1>9. CASE Takings
  <2>1. command \in Commands
    BY <1>1 DEF ClientType
  <2> QED BY <1>2, <1>3, <1>4, <1>6, <1>9, <2>1
          DEF Takings, TakeAck, TakeNack, TakeReply, TakeOutput, RefuseReply, Acknowledges, Skip,
              Takes, Transmit
<1>10. CASE AcceptFails \/ OtherWrite \/ UNCHANGED vars
  BY <1>2, <1>6, <1>10 DEF AcceptFails, OtherWrite, vars, socket
<1>11. CASE Accept \/ ReadAck \/ ReadInterrupt \/ ReadPacket \/ BadPacket \/ ReadEnd
  BY <1>2, <1>3, <1>4, <1>6, <1>11
     DEF Accept, ReadAck, ReadInterrupt, ReadPacket, BadPacket, ReadEnd, Receives, Sends, Acked,
         socket
<1>12. CASE Handle \/ Merge \/ Batch
  BY <1>2, <1>3, <1>6, <1>12 DEF Handle, Merge, Batch, Answer, Sends, socket
<1>13. CASE PollInterrupt \/ PollOther \/ PollNothing \/ Close
  BY <1>2, <1>3, <1>4, <1>6, <1>13
     DEF PollInterrupt, PollOther, PollNothing, Close, Receives, Sends, socket
<1> QED
  BY <1>7, <1>8, <1>9, <1>10, <1>11, <1>12, <1>13 DEF Next, Stub

(* The counts stay within their bounds. *)
LEMMA CountStep ==
  ASSUME IInv, [Next]_vars
  PROVE  CountType'
<1> USE StubAssumption
<1>1. CountType
  BY TypeParts DEF IInv
<1>2. CASE Connect
  <2>1. /\ sessions < MaxSessions /\ sessions' = sessions + 1
        /\ sent' = sent /\ damage' = damage /\ told' = told /\ crossed' = FALSE
        /\ lost' = "nothing"
    BY <1>2 DEF Connect
  <2>2. \A m \in Nat : \A n \in 0 .. m : n < m => n + 1 \in 0 .. m
    OBVIOUS
  <2>3. sessions' \in 0 .. MaxSessions
    BY <1>1, <2>1, <2>2 DEF CountType
  <2> QED BY <1>1, <2>1, <2>3, Zenon DEF CountType
<1>10. CASE Interrupt \/ Leave
  BY <1>1, <1>10 DEF Interrupt, Leave, counts, CountType
<1>3. CASE \E c \in Commands, g \in BOOLEAN : Command(c, g)
  <2>1. PICK c \in Commands, g \in BOOLEAN : Command(c, g)
    BY <1>3
  <2>2. /\ sent < MaxCommands /\ sent' = sent + 1
        /\ sessions' = sessions /\ told' = told /\ crossed' = crossed
        /\ lost' = "nothing"
    BY <2>1 DEF Command
  <2>3. damage' = damage \/ (damage < MaxDamage /\ damage' = damage + 1)
    BY <2>1 DEF Command, Transmit
  <2> QED BY <1>1, <2>2, <2>3 DEF CountType
<1>4. CASE TakeAck \/ TakeReply \/ TakeOutput \/ Skip
  BY <1>1, <1>4 DEF TakeAck, TakeReply, TakeOutput, Skip, counts, CountType
<1>11. CASE RefuseReply
  BY <1>1, <1>11 DEF RefuseReply, CountType
<1>5. CASE \E g \in BOOLEAN : TakeNack(g)
  BY <1>1, <1>5 DEF TakeNack, Transmit, CountType
<1>6. CASE AcceptFails \/ OtherWrite \/ UNCHANGED vars
  BY <1>1, <1>6 DEF AcceptFails, OtherWrite, Goes, vars, counts, CountType
<1>7. CASE Accept \/ ReadAck \/ ReadInterrupt \/ ReadPacket \/ BadPacket \/ ReadEnd
  BY <1>1, <1>7 DEF Accept, ReadAck, ReadInterrupt, ReadPacket, BadPacket, ReadEnd, Goes,
                    counts, CountType
<1>8. CASE Handle \/ Merge \/ Batch
  BY <1>1, <1>8 DEF Handle, Merge, Batch, Answer, Goes, counts, CountType
<1>9. CASE PollInterrupt \/ PollOther \/ PollNothing \/ Close
  BY <1>1, <1>9 DEF PollInterrupt, PollOther, PollNothing, Close, Goes, counts, CountType
<1> QED
  BY <1>2, <1>3, <1>4, <1>5, <1>6, <1>7, <1>8, <1>9, <1>10, <1>11
     DEF Next, Takings, Stub

-----------------------------------------------------------------------------
THEOREM StubInvariant == Spec => []IInv
<1>1. IInv /\ [Next]_vars => IInv'
  <2> SUFFICES ASSUME IInv, [Next]_vars PROVE IInv'
    OBVIOUS
  <2>1. (SocketType /\ ClientType /\ StubType /\ MemoryType /\ CountType)'
    BY SocketStep, ClientStep, StubStep, MemoryStep, CountStep
  <2>2. TypeOK'
    BY <2>1, TypeParts DEF TypeOK, SocketType, ClientType, StubType, MemoryType, CountType
  <2> QED BY <2>2, MemoryStep DEF IInv
<1> QED BY InitType, <1>1, PTL DEF Spec

(* The socket carries nothing but what the two sides say, and the stub is  *)
(* at one of its steps.                                                    *)
THEOREM StubTypeCorrect == Spec => []TypeOK
<1>1. IInv => TypeOK
  BY DEF IInv
<1> QED BY <1>1, StubInvariant, PTL

(* Where no other thread has access to the engine, a debugger's write of a *)
(* byte leaves the other byte of the word as it was, across any number of  *)
(* sessions: the copy that is merged is the word itself.                   *)
THEOREM BytesSurvive ==
  ASSUME ~Shared
  PROVE  Spec => WriteKeepsByte
<1>1. IInv /\ [Next]_vars => [MergeStep]_vars
  <2> SUFFICES ASSUME IInv, Next, stubAt = "merge", stubAt' # "merge"
               PROVE  mem'.high = mem.high
    BY DEF MergeStep, vars
  <2>1. Merge
    BY DEF Next, Connect, Command, Interrupt, Takings, TakeAck, TakeNack, TakeReply,
           TakeOutput, RefuseReply, Skip, Leave, AcceptFails, OtherWrite, Stub, Accept,
           ReadAck, ReadInterrupt, ReadPacket, BadPacket, ReadEnd, Handle, Answer, Batch,
           PollInterrupt, PollOther, PollNothing, Close, Goes
  <2>2. word = mem /\ mem \in Memory
    BY DEF IInv, Undisturbed, TypeOK
  <2> QED BY <2>1, <2>2, MergedType DEF Merge
<1> QED BY <1>1, StubInvariant, PTL DEF Spec, WriteKeepsByte
-----------------------------------------------------------------------------
(* RepliesInStep.  What carries it: in a session without a crossed Ctrl-C  *)
(* the command that was sent last is in at most one place, as a packet on  *)
(* its way, in the hands of the stub, or as a reply or a request to send   *)
(* it again, and nowhere when the debugger is free to send the next.       *)

Has(s, K)    == \E i \in 1 .. Len(s) : s[i].is \in K
Single(s, K) == \A i, j \in 1 .. Len(s) : s[i].is \in K /\ s[j].is \in K => i = j
AllOf(s, K, c) == \A i \in 1 .. Len(s) : s[i].is \in K => s[i].cmd = c

Asked   == {"packet"}
Answers == {"reply", "nack"}
Busy    == stubAt \in {"handle", "merge", "batch", "poll"}

OnePlace ==
  /\ Single(toStub, Asked) /\ Single(toClient, Answers)
  /\ ~(Has(toStub, Asked) /\ Busy)
  /\ ~(Has(toStub, Asked) /\ Has(toClient, Answers))
  /\ ~(Busy /\ Has(toClient, Answers))
  /\ clientAt = "free" => ~Has(toStub, Asked) /\ ~Busy /\ ~Has(toClient, Answers)

LastCommand ==
  /\ AllOf(toStub, Asked, command) /\ AllOf(toClient, {"reply"}, command)
  /\ Busy => pkt = command

Running == /\ stubAt \in {"batch", "poll"} => pkt = "continue"
           /\ conn = "none" => stubAt \in {"accept", "ended"}

InStep == Running /\ (~crossed /\ clientAt # "away" => OnePlace /\ LastCommand)

(* What an item more and an item less do to a channel. *)
LEMMA Added ==
  ASSUME NEW S, NEW s \in Seq(S), NEW e, NEW K, NEW c
  PROVE  /\ Has(Append(s, e), K) <=> Has(s, K) \/ e.is \in K
         /\ Single(s, K) /\ (e.is \in K => ~Has(s, K)) => Single(Append(s, e), K)
         /\ AllOf(s, K, c) /\ (e.is \in K => e.cmd = c) => AllOf(Append(s, e), K, c)
<1> DEFINE t == Append(s, e)
<1>1. /\ Len(s) \in Nat /\ Len(t) = Len(s) + 1 /\ t[Len(s) + 1] = e
      /\ \A i \in 1 .. Len(s) : t[i] = s[i]
  OBVIOUS
<1>2. \A i \in 1 .. Len(t) : i \in 1 .. Len(s) \/ i = Len(s) + 1
  BY <1>1
<1>3. 1 .. Len(s) \subseteq 1 .. Len(t) /\ Len(s) + 1 \in 1 .. Len(t)
  BY <1>1
<1> HIDE DEF t
<1>4. Has(t, K) <=> Has(s, K) \/ e.is \in K
  BY <1>1, <1>2, <1>3 DEF Has
<1>5. Single(s, K) /\ (e.is \in K => ~Has(s, K)) => Single(t, K)
  BY <1>1, <1>2 DEF Has, Single
<1>6. AllOf(s, K, c) /\ (e.is \in K => e.cmd = c) => AllOf(t, K, c)
  BY <1>1, <1>2 DEF AllOf
<1> QED BY <1>4, <1>5, <1>6 DEF t

LEMMA Taken ==
  ASSUME NEW S, NEW s \in Seq(S), s # <<>>, NEW K, NEW c
  PROVE  /\ Head(s).is \in K => Has(s, K)
         /\ Has(Tail(s), K) => Has(s, K)
         /\ Single(s, K) => Single(Tail(s), K)
         /\ Single(s, K) /\ Head(s).is \in K => ~Has(Tail(s), K)
         /\ AllOf(s, K, c) => AllOf(Tail(s), K, c)
         /\ AllOf(s, K, c) /\ Head(s).is \in K => Head(s).cmd = c
<1> DEFINE t == Tail(s)
<1>1. /\ Len(s) \in Nat \ {0} /\ Len(t) = Len(s) - 1 /\ Head(s) = s[1]
      /\ \A i \in 1 .. Len(t) : t[i] = s[i + 1]
  OBVIOUS
<1>2. 1 \in 1 .. Len(s) /\ \A i \in 1 .. Len(t) : i + 1 \in 1 .. Len(s) /\ i + 1 # 1 /\ i \in Nat
  BY <1>1
<1> HIDE DEF t
<1>3. /\ Head(s).is \in K => Has(s, K)
      /\ Has(t, K) => Has(s, K)
  BY <1>1, <1>2 DEF Has
<1>4. Single(s, K) => Single(t, K)
  <2>1. SUFFICES ASSUME Single(s, K), NEW i \in 1 .. Len(t), NEW j \in 1 .. Len(t),
                        t[i].is \in K, t[j].is \in K
                 PROVE  i = j
    BY DEF Single
  <2>2. i + 1 = j + 1
    BY <1>1, <1>2, <2>1 DEF Single
  <2> QED BY <1>2, <2>2
<1>5. Single(s, K) /\ Head(s).is \in K => ~Has(t, K)
  BY <1>1, <1>2 DEF Single, Has
<1>6. /\ AllOf(s, K, c) => AllOf(t, K, c)
      /\ AllOf(s, K, c) /\ Head(s).is \in K => Head(s).cmd = c
  BY <1>1, <1>2 DEF AllOf
<1> QED BY <1>3, <1>4, <1>5, <1>6 DEF t

LEMMA NothingIn ==
  ASSUME NEW K, NEW c
  PROVE  ~Has(<<>>, K) /\ Single(<<>>, K) /\ AllOf(<<>>, K, c)
<1>1. 1 .. Len(<<>>) = {}
  OBVIOUS
<1> QED BY <1>1 DEF Has, Single, AllOf

LEMMA AllFew ==
  ASSUME NEW s, NEW K, NEW c
  PROVE  ~Has(s, K) => AllOf(s, K, c) /\ Single(s, K)
BY DEF Has, AllOf, Single

LEMMA HasReply ==
  ASSUME NEW s
  PROVE  Has(s, {"reply"}) => Has(s, Answers)
BY DEF Has, Answers

LEMMA InStepInit == Init => InStep
BY DEF Init, InStep, Running

LEMMA RunningStep ==
  ASSUME IInv, Running, [Next]_vars
  PROVE  Running'
<1>1. CASE Accept \/ AcceptFails \/ ReadAck \/ ReadInterrupt \/ ReadPacket \/ BadPacket \/ ReadEnd
  BY <1>1 DEF Accept, AcceptFails, ReadAck, ReadInterrupt, ReadPacket, BadPacket, ReadEnd, Goes,
              socket, Running
<1>2. CASE Handle \/ Merge \/ Batch
  BY <1>2 DEF Handle, Merge, Batch, Answer, Goes, socket, stub, Running
<1>3. CASE PollInterrupt \/ PollOther \/ PollNothing \/ Close
  BY <1>3 DEF PollInterrupt, PollOther, PollNothing, Close, Goes, socket, stub, Running
<1>4. CASE Connect \/ Interrupt \/ Leave \/ OtherWrite \/ UNCHANGED vars
  BY <1>4 DEF Connect, Interrupt, Leave, OtherWrite, vars, socket, stub, Running
<1>5. CASE Takings \/ \E c \in Commands, g \in BOOLEAN : Command(c, g)
  BY <1>5 DEF Takings, TakeAck, TakeNack, TakeReply, TakeOutput, RefuseReply, Skip, Command,
              stub, Running
<1> QED
  BY <1>1, <1>2, <1>3, <1>4, <1>5 DEF Next, Stub

(* What the two ends do to the command on its way. *)
LEMMA PlacesStep ==
  ASSUME IInv, InStep, [Next]_vars, ~crossed', clientAt' # "away"
  PROVE  (OnePlace /\ LastCommand)'
<1> DEFINE Reps == {"reply"}
<1>1. /\ toStub \in Seq(ToStubItems) /\ toClient \in Seq(ToClientItems)
      /\ clientAt \in {"away", "free", "wantAck", "wantReply"}
  BY DEF IInv, TypeOK, ToStubItems, ToClientItems
<1>2. CASE Connect
  BY <1>2, NothingIn DEF Connect, InStep, Running, OnePlace, LastCommand, Busy
<1>3. SUFFICES ASSUME ~Connect, ~crossed, clientAt # "away", OnePlace, LastCommand, Running
               PROVE  (OnePlace /\ LastCommand)'
  <2>1. ~Connect => ~crossed /\ clientAt # "away"
    BY DEF Next, vars, client, Command, Interrupt, Takings, TakeAck, TakeNack, TakeReply,
           TakeOutput, RefuseReply, Skip, Leave, AcceptFails, OtherWrite, Stub, Accept,
           ReadAck, ReadInterrupt, ReadPacket, BadPacket, ReadEnd, Handle, Merge, Answer,
           Batch, PollInterrupt, PollOther, PollNothing, Close, Goes
  <2> QED BY <1>2, <2>1 DEF InStep
<1>4. ASSUME NEW e
      PROVE  /\ Has(Append(toStub, e), Asked) <=> Has(toStub, Asked) \/ e.is \in Asked
             /\ ~(e.is \in Asked /\ Has(toStub, Asked)) => Single(Append(toStub, e), Asked)
             /\ (e.is \in Asked => e.cmd = command) => AllOf(Append(toStub, e), Asked, command)
             /\ Has(Append(toClient, e), Answers) <=> Has(toClient, Answers) \/ e.is \in Answers
             /\ ~(e.is \in Answers /\ Has(toClient, Answers)) =>
                  Single(Append(toClient, e), Answers)
             /\ (e.is \in Reps => e.cmd = command) => AllOf(Append(toClient, e), Reps, command)
  BY <1>1, <1>3, Added DEF OnePlace, LastCommand
<1>5. toStub # <<>> =>
        /\ Head(toStub).is \in Asked => Has(toStub, Asked) /\ ~Has(Tail(toStub), Asked)
        /\ Has(Tail(toStub), Asked) => Has(toStub, Asked)
        /\ Single(Tail(toStub), Asked) /\ AllOf(Tail(toStub), Asked, command)
        /\ Head(toStub).is \in Asked => Head(toStub).cmd = command
  BY <1>1, <1>3, Taken DEF OnePlace, LastCommand
<1>6. toClient # <<>> =>
        /\ Head(toClient).is \in Answers => Has(toClient, Answers) /\ ~Has(Tail(toClient), Answers)
        /\ Has(Tail(toClient), Answers) => Has(toClient, Answers)
        /\ Single(Tail(toClient), Answers) /\ AllOf(Tail(toClient), Reps, command)
  <2>1. toClient # <<>> => AllOf(Tail(toClient), Reps, command)
    BY <1>1, <1>3, Taken DEF LastCommand
  <2> QED BY <1>1, <1>3, <2>1, Taken DEF OnePlace
<1>7. /\ \A c, g : Packet(c, g).is \in Asked /\ Packet(c, g).cmd = c
      /\ \A k : Item(k).is = k
      /\ \A c : Reply(c).is \in Answers /\ Reply(c).cmd = c
      /\ "packet" \in Asked /\ "ack" \notin Asked /\ "interrupt" \notin Asked
      /\ "reply" \in Answers /\ "nack" \in Answers /\ "ack" \notin Answers
      /\ "ack" \notin Reps /\ "nack" \notin Reps
  BY DEF Packet, Item, Reply, Asked, Answers
<1> HIDE DEF Reps
<1>9. CASE UNCHANGED vars \/ Interrupt \/ Leave \/ OtherWrite
  BY <1>3, <1>4, <1>7, <1>9 DEF vars, socket, client, stub, Interrupt, Leave, OtherWrite,
                                OnePlace, LastCommand, Busy
<1>10. CASE \E c \in Commands, g \in BOOLEAN : Command(c, g)
  <2>1. PICK c \in Commands, g \in BOOLEAN :
             /\ clientAt = "free" /\ clientAt' # "free" /\ command' = c
             /\ toStub' = Append(toStub, Packet(c, g))
             /\ UNCHANGED <<toClient, stubAt, pkt>>
    BY <1>10 DEF Command, Transmit, stub
  <2>2. ~Has(toStub, Asked) /\ ~Busy /\ ~Has(toClient, Answers)
    BY <1>3, <2>1 DEF OnePlace
  <2>3. AllOf(toStub', Asked, command')
    BY <1>1, <1>7, <2>1, <2>2, AllFew, Added
  <2>4. AllOf(toClient', {"reply"}, command')
    BY <2>1, <2>2, AllFew, HasReply
  <2>5. Single(toStub', Asked)
    BY <1>4, <2>1, <2>2
  <2>6. Single(toClient', Answers) /\ ~Has(toClient', Answers) /\ ~Busy'
    BY <1>3, <2>1, <2>2 DEF OnePlace, Busy
  <2> QED BY <2>1, <2>3, <2>4, <2>5, <2>6 DEF OnePlace, LastCommand
<1>11. CASE Takings
  <2>1. CASE TakeAck
    BY <1>3, <1>6, <2>1 DEF TakeAck, Takes, stub, OnePlace, LastCommand, Busy, Reps
  <2>2. CASE \E g \in BOOLEAN : TakeNack(g)
    BY <1>3, <1>4, <1>6, <1>7, <2>2 DEF TakeNack, Takes, Transmit, client, stub,
                                           OnePlace, LastCommand, Busy, Reps
  <2>3. CASE TakeReply \/ TakeOutput \/ RefuseReply
    <3>1. /\ toClient # <<>> /\ Head(toClient).is \in Answers /\ toClient' = Tail(toClient)
          /\ \/ toStub' = toStub
             \/ toStub' = Append(toStub, Item("ack")) \/ toStub' = Append(toStub, Item("nack"))
          /\ UNCHANGED <<command, stubAt, pkt>>
      BY <1>7, <2>3 DEF TakeReply, TakeOutput, RefuseReply, Acknowledges, Takes, client, stub
    <3>2. Has(toClient, Answers) /\ ~Has(toClient', Answers) /\ ~Busy /\ ~Has(toStub, Asked)
      BY <1>3, <1>6, <3>1 DEF OnePlace
    <3>3. /\ ~Has(toStub', Asked) /\ Single(toStub', Asked)
          /\ AllOf(toStub', Asked, command)
      <4>1. Item("ack").is \notin Asked /\ Item("nack").is \notin Asked
        BY <1>7 DEF Asked
      <4> QED BY <1>3, <1>4, <3>1, <3>2, <4>1 DEF OnePlace, LastCommand
    <3>4. Single(toClient', Answers) /\ AllOf(toClient', Reps, command)
      BY <1>6, <3>1
    <3> QED BY <3>1, <3>2, <3>3, <3>4 DEF OnePlace, LastCommand, Busy, Reps
  <2>4. CASE Skip
    BY <1>3, <1>6, <2>4 DEF Skip, Takes, client, stub,
                                           OnePlace, LastCommand, Busy, Reps
  <2> QED BY <1>11, <2>1, <2>2, <2>3, <2>4 DEF Takings
<1>12. CASE Accept \/ AcceptFails \/ ReadEnd \/ PollNothing
  BY <1>3, <1>12 DEF Accept, AcceptFails, ReadEnd, PollNothing, Goes, socket, client, stub,
                     OnePlace, LastCommand, Busy
<1>13. CASE ReadAck \/ PollOther
  BY <1>3, <1>5, <1>13 DEF ReadAck, PollOther, Receives, Goes, socket, client, stub,
                     OnePlace, LastCommand, Busy, Asked
<1>14. CASE ReadInterrupt
  BY <1>3, <1>14 DEF ReadInterrupt
<1>15. CASE ReadPacket
  BY <1>3, <1>4, <1>5, <1>7, <1>15 DEF ReadPacket, Receives, Acked, Sends, Goes, client,
                     OnePlace, LastCommand, Busy, Reps
<1>16. CASE BadPacket
  <2>1. /\ toStub # <<>> /\ Head(toStub).is \in Asked /\ toStub' = Tail(toStub)
        /\ toClient' = toClient \/ toClient' = Append(toClient, Item("nack"))
        /\ UNCHANGED <<clientAt, command, pkt>> /\ ~Busy'
    BY <1>16, <1>7 DEF BadPacket, Receives, Acked, Sends, Goes, client, stub, Busy
  <2>2. /\ Has(toStub, Asked) /\ ~Has(toClient, Answers) /\ clientAt # "free"
        /\ ~Has(toStub', Asked) /\ Single(toStub', Asked) /\ AllOf(toStub', Asked, command)
    BY <1>3, <1>5, <2>1 DEF OnePlace
  <2>3. Single(toClient', Answers) /\ AllOf(toClient', Reps, command)
    <3>1. Item("nack").is = "nack" /\ "nack" \notin Reps
      BY <1>7
    <3>2. /\ Single(Append(toClient, Item("nack")), Answers)
          /\ AllOf(Append(toClient, Item("nack")), Reps, command)
      BY <1>4, <2>2, <3>1
    <3> QED BY <1>3, <2>1, <3>2 DEF OnePlace, LastCommand, Reps
  <2> QED BY <2>1, <2>2, <2>3 DEF OnePlace, LastCommand, Reps
<1>17. CASE Handle \/ Merge \/ Batch
  BY <1>3, <1>4, <1>7, <1>17 DEF Handle, Merge, Batch, Answer, Sends, Goes, socket, client, stub,
                     OnePlace, LastCommand, Running, Busy, Reps
<1>18. CASE PollInterrupt
  BY <1>3, <1>4, <1>5, <1>7, <1>18 DEF PollInterrupt, Receives, Sends, Goes, client, stub,
                     OnePlace, LastCommand, Running, Busy, Reps
<1>19. CASE Close
  BY <1>3, <1>19, NothingIn DEF Close, Goes, client, stub, OnePlace, LastCommand, Busy
<1> QED
  BY <1>3, <1>9, <1>10, <1>11, <1>12, <1>13, <1>14, <1>15, <1>16, <1>17, <1>18, <1>19
     DEF Next, Stub

(* In a session without a crossed Ctrl-C the reply a debugger takes is the *)
(* answer to the command it sent last, through any number of sessions,     *)
(* commands, damaged packets and retransmissions.                          *)
THEOREM RepliesStayInStep == Spec => []RepliesInStep
<1>1. IInv /\ InStep /\ [Next]_vars => InStep'
  <2> SUFFICES ASSUME IInv, InStep, [Next]_vars PROVE InStep'
    OBVIOUS
  <2>1. Running'
    BY RunningStep DEF InStep
  <2>2. (~crossed /\ clientAt # "away")' => (OnePlace /\ LastCommand)'
    BY PlacesStep
  <2> QED BY <2>1, <2>2 DEF InStep
<1>2. IInv /\ InStep => RepliesInStep
  <2> SUFFICES ASSUME IInv, InStep, clientAt = "wantReply", toClient # <<>>,
                      Head(toClient).is = "reply", ~crossed
               PROVE  Head(toClient).cmd = command
    BY DEF RepliesInStep
  <2>1. toClient \in Seq(ToClientItems) /\ AllOf(toClient, {"reply"}, command)
    BY DEF IInv, TypeOK, ToClientItems, InStep, LastCommand
  <2> QED BY <2>1, Taken
<1> QED BY InStepInit, <1>1, <1>2, StubInvariant, PTL DEF Spec
=============================================================================
