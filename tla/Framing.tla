------------------------------- MODULE Framing -------------------------------
(***************************************************************************)
(* Messages on the Unix socket of the API (src/common/api/UnixAPISocket.cpp*)
(* with its users, UnixAPIServer.cpp and P2PSession.cpp): each is a number *)
(* of bytes, in network order, and then as many bytes.  The kernel takes   *)
(* and gives bytes in pieces of any size, and has room for some only.      *)
(*                                                                         *)
(* The threads of the program send requests with asyncSend() and wait for  *)
(* the reply; the daemon replies with send(), which blocks; both read with *)
(* asyncReceive().  A socket has room for a request of every thread.       *)
(* Byte and MESSAGE_SIZE_LENGTH are smaller than in the code.              *)
(***************************************************************************)
EXTENDS Numerals, FiniteSets, Functions

CONSTANTS
  Message, Request,
  Serialized,           \* the bytes of every message
  Byte,                 \* byte values, 0 to some number
  MESSAGE_SIZE_LENGTH,  \* bytes of the size
  Capacity,             \* bytes a socket has room for
  Callers,              \* threads of the program that call the library at a time
  Null, Unparsed        \* Unparsed stands for any message of bytes that are none

Base == Cardinality(Byte)

ASSUME FramingAssumption ==
  /\ Base \in Nat \ {0, 1} /\ Byte = 0..Base - 1 /\ MESSAGE_SIZE_LENGTH \in Nat \ {0}
  /\ Request \subseteq Message /\ DOMAIN Serialized = Message /\ IsInjective(Serialized)
  /\ \A m \in Message : Serialized[m] \in Seq(Byte) /\ Len(Serialized[m]) < Power(Base, MESSAGE_SIZE_LENGTH)
  /\ Callers \in Nat \ {0} /\ Capacity \in Nat
  /\ \A m \in Request : Callers * (MESSAGE_SIZE_LENGTH + Len(Serialized[m])) <= Capacity
  /\ Null \notin Nat \cup Message \cup {Unparsed}

Direction == {"request", "reply"}
Receiver(d) == IF d = "request" THEN "daemon" ELSE "program"
Sender(d) == IF d = "request" THEN "program" ELSE "daemon"

VARIABLES
  unsent,   \* bytes of a write under way that the kernel has not taken
  wire,     \* bytes in the kernel
  buffer,   \* bytes the read under way has got
  size,     \* how many bytes of contents are being read, or Null for a size
  inbox,    \* the message being handled, or Null
  waiting,  \* how many threads of the program wait for a reply
  open      \* the ends that are open

streamVars == <<unsent, wire, open>>
readVars == <<buffer, size>>
framingVars == <<streamVars, readVars, inbox, waiting>>

FramingTypeOK ==
  /\ unsent \in [Direction -> Seq(Byte)]
  /\ wire \in [Direction -> Seq(Byte)] /\ \A d \in Direction : Len(wire[d]) <= Capacity
  /\ buffer \in [Direction -> Seq(Byte)] /\ size \in [Direction -> Nat \cup {Null}]
  /\ inbox \in [Direction -> Message \cup {Null, Unparsed}]
  /\ waiting \in 0..Callers /\ open \subseteq {"program", "daemon"}

None == [d \in Direction |-> <<>>]

FramingInit ==
  /\ unsent = None /\ wire = None /\ open = {"program", "daemon"}
  /\ buffer = None /\ size = [d \in Direction |-> Null]
  /\ inbox = [d \in Direction |-> Null] /\ waiting = 0

-----------------------------------------------------------------------------
(***************************************************************************)
(* Frames.                                                                 *)
(***************************************************************************)

\* Mutant: the bytes of the size in the order of the machine.
htonl_not(n) == [i \in 1..MESSAGE_SIZE_LENGTH |-> (n \div Power(Base, i - 1)) % Base]

\* A number as bytes in network order, and back.
htonl(n) == Numeral(n, Base, MESSAGE_SIZE_LENGTH)

ntohl(bytes) == Value(bytes, Base)

generateSendString(m) == htonl(Len(Serialized[m])) \o Serialized[m]

ParseFromArray(bytes) ==
  IF \E m \in Message : Serialized[m] = bytes THEN CHOOSE m \in Message : Serialized[m] = bytes ELSE Unparsed

-----------------------------------------------------------------------------
(***************************************************************************)
(* Writing.                                                                *)
(***************************************************************************)

Room(d) == Capacity - Len(wire[d])
Smaller(m, n) == IF m < n THEN m ELSE n

\* Mutant: the call returns before its reply is there.
AwaitReply_not == UNCHANGED waiting

\* clientExchange() returns when its reply is there.
AwaitReply == waiting < Callers /\ waiting' = waiting + 1

\* asyncSend(): what the kernel takes at once is written from send_string; the
\* rest is written when the string is gone, and may be anything.
asyncSend(m) ==
  LET frame == generateSendString(m)
      n == Smaller(Room("request"), Len(frame))
  IN /\ "program" \in open /\ AwaitReply
     /\ IF "daemon" \in open
        THEN /\ wire' = [wire EXCEPT !["request"] = @ \o SubSeq(frame, 1, n)]
             /\ \E rest \in [1..Len(frame) - n -> Byte] : unsent' = [unsent EXCEPT !["request"] = rest]
        ELSE UNCHANGED <<wire, unsent>>
     /\ UNCHANGED <<open, readVars, inbox>>

\* The kernel takes some of the bytes of a write.
write_some(d) ==
  /\ unsent[d] # <<>> /\ Sender(d) \in open /\ Receiver(d) \in open
  /\ \E n \in 1..Smaller(Room(d), Len(unsent[d])) :
       /\ wire' = [wire EXCEPT ![d] = @ \o SubSeq(unsent[d], 1, n)]
       /\ unsent' = [unsent EXCEPT ![d] = SubSeq(@, n + 1, Len(@))]
  /\ UNCHANGED <<open, readVars, inbox, waiting>>

\* send() begins to write a frame.
send(m) == unsent' = [unsent EXCEPT !["reply"] = generateSendString(m)]

\* The daemon handles a request, which it may answer.
process ==
  /\ inbox["request"] # Null
  /\ inbox' = [inbox EXCEPT !["request"] = Null]
  /\ \/ UNCHANGED unsent
     \/ \E m \in Message : send(m)
  /\ UNCHANGED <<wire, open, readVars, waiting>>

\* P2PSession::handleReceive(), and clientExchange() goes on.
handleReply ==
  /\ inbox["reply"] # Null
  /\ inbox' = [inbox EXCEPT !["reply"] = Null] /\ waiting' = waiting - 1
  /\ UNCHANGED <<streamVars, readVars>>

-----------------------------------------------------------------------------
(***************************************************************************)
(* Reading.                                                                *)
(***************************************************************************)

Need(d) == IF size[d] = Null THEN MESSAGE_SIZE_LENGTH ELSE size[d]

\* The daemon has one thread, which does not read while it writes.
Reads(d) == Receiver(d) \in open /\ inbox[d] = Null /\ (d = "request" => unsent["reply"] = <<>>)

\* Mutant: a read may end before all its bytes are there.
ReadEnds_some(d) == Need(d) = 0 \/ buffer[d] # <<>>

\* async_read() ends when all its bytes are there.
ReadEnds(d) == Len(buffer[d]) = Need(d)

\* The kernel gives some of the bytes of a read.
read_some(d) ==
  /\ Reads(d) /\ ~ReadEnds(d)
  /\ \E n \in 1..Smaller(Need(d) - Len(buffer[d]), Len(wire[d])) :
       /\ buffer' = [buffer EXCEPT ![d] = @ \o SubSeq(wire[d], 1, n)]
       /\ wire' = [wire EXCEPT ![d] = SubSeq(@, n + 1, Len(@))]
  /\ UNCHANGED <<unsent, open, size, inbox, waiting>>

handleReceiveSize(d) ==
  /\ Reads(d) /\ size[d] = Null /\ ReadEnds(d)
  /\ size' = [size EXCEPT ![d] = ntohl(buffer[d])]
  /\ buffer' = [buffer EXCEPT ![d] = <<>>]
  /\ UNCHANGED <<streamVars, inbox, waiting>>

handleReceive(d) ==
  /\ Reads(d) /\ size[d] # Null /\ ReadEnds(d)
  /\ inbox' = [inbox EXCEPT ![d] = ParseFromArray(buffer[d])]
  /\ size' = [size EXCEPT ![d] = Null]
  /\ buffer' = [buffer EXCEPT ![d] = <<>>]
  /\ UNCHANGED <<streamVars, waiting>>

-----------------------------------------------------------------------------
(***************************************************************************)
(* The ends.                                                               *)
(***************************************************************************)

\* The destructor of UnixAPISocket, or the end of the process.
CloseEnd(e) ==
  /\ e \in open /\ open' = open \ {e}
  /\ waiting' = IF e = "program" THEN 0 ELSE waiting
  /\ unsent' = [d \in Direction |-> IF Sender(d) = e THEN <<>> ELSE unsent[d]]
  /\ wire' = [d \in Direction |-> IF Receiver(d) = e THEN <<>> ELSE wire[d]]
  /\ buffer' = [d \in Direction |-> IF Receiver(d) = e THEN <<>> ELSE buffer[d]]
  /\ size' = [d \in Direction |-> IF Receiver(d) = e THEN Null ELSE size[d]]
  /\ inbox' = [d \in Direction |-> IF Receiver(d) = e THEN Null ELSE inbox[d]]

\* A read meets the end of the stream: the daemon drops the session, the program
\* begins to read again.
readError(d) ==
  /\ Reads(d) /\ ~ReadEnds(d) /\ wire[d] = <<>> /\ Sender(d) \notin open
  /\ \/ d = "request" /\ CloseEnd("daemon")
     \/ /\ d = "reply"
        /\ buffer' = [buffer EXCEPT ![d] = <<>>] /\ size' = [size EXCEPT ![d] = Null]
        /\ UNCHANGED <<streamVars, inbox, waiting>>

\* A write to an end that is closed: UnixAPISession::send() drops the session.
writeError ==
  /\ "program" \notin open /\ unsent["reply"] # <<>>
  /\ CloseEnd("daemon")

FramingNext ==
  \/ \E m \in Request : asyncSend(m)
  \/ process \/ handleReply \/ writeError
  \/ \E d \in Direction :
       write_some(d) \/ read_some(d) \/ handleReceiveSize(d) \/ handleReceive(d) \/ readError(d)
  \/ \E e \in {"program", "daemon"} : CloseEnd(e)

\* The kernel moves bytes, and the io_services run the handlers.
FramingSpec ==
  /\ FramingInit /\ [][FramingNext]_framingVars
  /\ WF_framingVars(process) /\ WF_framingVars(handleReply)
  /\ \A d \in Direction :
       /\ WF_framingVars(write_some(d)) /\ WF_framingVars(read_some(d))
       /\ WF_framingVars(handleReceiveSize(d)) /\ WF_framingVars(handleReceive(d))

-----------------------------------------------------------------------------
(***************************************************************************)
(* Properties.                                                             *)
(***************************************************************************)

\* All the bytes of a direction that its receiver has not made a message of.
Pending(d) ==
  IF Receiver(d) \in open
  THEN (IF size[d] = Null THEN <<>> ELSE htonl(size[d])) \o buffer[d] \o wire[d] \o unsent[d]
  ELSE <<>>

\* The frame that bytes begin with: the last of its bytes, and if all are there.
FrameEnd(bytes) == MESSAGE_SIZE_LENGTH + ntohl(SubSeq(bytes, 1, MESSAGE_SIZE_LENGTH))
Complete(bytes) == Len(bytes) >= MESSAGE_SIZE_LENGTH /\ Len(bytes) >= FrameEnd(bytes)
After(bytes) == SubSeq(bytes, FrameEnd(bytes) + 1, Len(bytes))

\* The messages of the complete frames a sequence of bytes begins with.
Frames[bytes \in Seq(Byte)] ==
  IF Complete(bytes)
  THEN <<ParseFromArray(SubSeq(bytes, MESSAGE_SIZE_LENGTH + 1, FrameEnd(bytes)))>> \o Frames[After(bytes)]
  ELSE <<>>

\* The frames implement a queue of messages in each direction, however the kernel
\* cuts them: that is what the models of sessions take a socket for.
C == INSTANCE Channel WITH queue <- [d \in Direction |-> Frames[Pending(d)]]
ChannelSpec == C!ChannelSpec

\* A request is always taken by the kernel as a whole, so that nothing is written from
\* the string that asyncSend() leaves behind (UnixAPISocket.cpp:97): a thread sends it
\* after the reply to the one before, when the daemon has read that.
RequestTakenWhole == unsent["request"] = <<>>

\* A message on its way is received, unless an end is closed.
Received ==
  \A d \in Direction : Pending(d) # <<>> /\ open = {"program", "daemon"} ~> inbox[d] # Null \/ open # {"program", "daemon"}
=============================================================================
