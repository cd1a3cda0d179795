---------------------------- MODULE SimpleQueue ----------------------------
(***************************************************************************)
(* The lock-free queue between the emulation thread and the display thread *)
(* (SimpleQueue.cpp): a ring of bytes in which each message is a length    *)
(* header followed by its payload.  One writer thread and one reader       *)
(* thread share nothing but the ring and the atomic counter                *)
(* theNumberOfBytesQueued: the writer alone moves theWritePos, the reader  *)
(* alone theReadPos.                                                       *)
(*                                                                         *)
(* A step is an access to shared memory: a load or an add of the counter,  *)
(* or one copyDataIntoQueue / readDataFromQueue of the ring.  A thread     *)
(* that is about to copy is inside that copy as far as NoDataRace is       *)
(* concerned, so the bytes of one copy may be taken in one step.           *)
(***************************************************************************)
EXTENDS Integers, Sequences

CONSTANTS Byte,         \* payload byte values
          Messages,     \* the messages the writer may send: sequences of bytes
          BufSizes,     \* bufSize arguments the reader may use
          HeaderSize,   \* sizeof(int32_t)
          QueueSize,    \* theQueueSize, a power of 2 after the constructor
          WriteOps,     \* the write functions the writer's code calls
          ReadOps       \* the read functions the reader's code calls

ASSUME HeaderAssumption == HeaderSize \in Nat \ {0}
ASSUME QueueSizeAssumption == QueueSize \in Nat /\ QueueSize >= HeaderSize
ASSUME MessagesAssumption == Messages \subseteq Seq(Byte)
ASSUME BufSizesAssumption == BufSizes \subseteq Nat
ASSUME OpsAssumption ==
  /\ WriteOps \subseteq {"writeMessage", "tryWriteMessage"}
  /\ ReadOps \subseteq {"readMessage", "tryReadMessage",
                        "readNextMessageSize", "tryReadNextMessageSize"}

VARIABLES theMessageBuffer, theWritePos, theReadPos, theNumberOfBytesQueued,
          writer,      \* the writer's place in its call and the call's arguments
          reader,      \* the same for the reader, with its local variables
          outcome,     \* what the call that returned last, of either thread, returned
          published    \* history: messages published and not yet released

queueVars == <<theMessageBuffer, theWritePos, theReadPos, theNumberOfBytesQueued>>
vars == <<queueVars, writer, reader, outcome, published>>

----------------------------------------------------------------------------
(* The ring.                                                               *)

Cells == 0 .. QueueSize - 1

\* The bytes of a length header, and the zeroes calloc leaves in the ring.
LengthByte(n, i) == <<"length", n, i>>
Zero == LengthByte(0, 0)
HeaderBytes(n) == [i \in 1 .. HeaderSize |-> LengthByte(n, i)]
Lengths == {0} \union {Len(m) : m \in Messages}
CellValue == Byte \union {Zero} \union {LengthByte(n, i) : n \in Lengths, i \in 1 .. HeaderSize}

\* What an int32_t copied out of the ring may hold: the length that was stored, or
\* any length at all when the bytes are not those of one header.
LengthIn(bytes) == {n \in Lengths : (\E k \in Lengths : bytes = HeaderBytes(k)) => bytes = HeaderBytes(n)}

\* pos & theQueueSizeMask, for the positions that occur: pos < 2 * QueueSize.
Masked(pos) == IF pos >= QueueSize THEN pos - QueueSize ELSE pos

\* Mutant: the tail of a message that wraps is written where the head of it went.
CopyDataIntoQueueNoWrap(bytes) ==
  /\ theMessageBuffer' = [c \in Cells |->
        IF c >= theWritePos /\ c < theWritePos + Len(bytes)
        THEN bytes[c - theWritePos + 1] ELSE theMessageBuffer[c]]
  /\ theWritePos' = Masked(theWritePos + Len(bytes))

CopyDataIntoQueue(bytes) ==
  LET numBytes == Len(bytes)
      part1Size == QueueSize - theWritePos
      part2Size == numBytes - part1Size
  IN IF theWritePos + numBytes <= QueueSize
     THEN /\ theMessageBuffer' = [c \in Cells |->
               IF c >= theWritePos /\ c < theWritePos + numBytes
               THEN bytes[c - theWritePos + 1] ELSE theMessageBuffer[c]]
          /\ theWritePos' = Masked(theWritePos + numBytes)
     ELSE /\ theMessageBuffer' = [c \in Cells |->
               IF c >= theWritePos THEN bytes[c - theWritePos + 1]
               ELSE IF c < part2Size THEN bytes[part1Size + c + 1] ELSE theMessageBuffer[c]]
          /\ theWritePos' = part2Size

\* The bytes readDataFromQueue(numBytes, ...) copies out, in one part or two.
DataInQueue(numBytes) ==
  LET firstRead == QueueSize - theReadPos
  IN [i \in 1 .. numBytes |->
        IF i <= firstRead THEN theMessageBuffer[theReadPos + i - 1]
                          ELSE theMessageBuffer[i - firstRead - 1]]

----------------------------------------------------------------------------
(* The writer: writeMessage and tryWriteMessage.                           *)

WriterIdle == [pc |-> "idle", op |-> "writeMessage", data |-> <<>>]
WriteOutcome(ok, data) == [call |-> "write", ok |-> ok, numBytes |-> Len(data), data |-> data]

\* A message that could never fit is refused without looking at the queue.
CallWrite(op, m) ==
  /\ writer.pc = "idle"
  /\ IF Len(m) > QueueSize - HeaderSize
     THEN /\ outcome' = WriteOutcome(FALSE, m)
          /\ UNCHANGED writer
     ELSE /\ writer' = [pc |-> "load", op |-> op, data |-> m]
          /\ UNCHANGED outcome
  /\ UNCHANGED <<queueVars, reader, published>>

\* Mutant: the room check forgets that the length header takes room too.
HasRoomNoHeader == theNumberOfBytesQueued + Len(writer.data) <= QueueSize

HasRoom == theNumberOfBytesQueued + HeaderSize + Len(writer.data) <= QueueSize

\* The load that finds room ends the wait of writeMessage; the others of its loop
\* change nothing.
FindRoom ==
  /\ writer.pc = "load"
  /\ HasRoom
  /\ writer' = [writer EXCEPT !.pc = "header"]
  /\ UNCHANGED <<queueVars, reader, outcome, published>>

FindNoRoom ==
  /\ writer.pc = "load"
  /\ writer.op = "tryWriteMessage"
  /\ ~HasRoom
  /\ writer' = WriterIdle
  /\ outcome' = WriteOutcome(FALSE, writer.data)
  /\ UNCHANGED <<queueVars, reader, published>>

WriteHeader ==
  /\ writer.pc = "header"
  /\ CopyDataIntoQueue(HeaderBytes(Len(writer.data)))
  /\ writer' = [writer EXCEPT !.pc = "data"]
  /\ UNCHANGED <<theReadPos, theNumberOfBytesQueued, reader, outcome, published>>

WriteData ==
  /\ writer.pc = "data"
  /\ CopyDataIntoQueue(writer.data)
  /\ writer' = [writer EXCEPT !.pc = "publish"]
  /\ UNCHANGED <<theReadPos, theNumberOfBytesQueued, reader, outcome, published>>

\* SDL_AtomicAdd: from here on the reader may see the message.
Publish ==
  /\ writer.pc = "publish"
  /\ theNumberOfBytesQueued' = theNumberOfBytesQueued + HeaderSize + Len(writer.data)
  /\ writer' = WriterIdle
  /\ outcome' = WriteOutcome(TRUE, writer.data)
  /\ published' = Append(published, writer.data)
  /\ UNCHANGED <<theMessageBuffer, theWritePos, theReadPos, reader>>

WriterStep == FindRoom \/ FindNoRoom \/ WriteHeader \/ WriteData \/ Publish

----------------------------------------------------------------------------
(* The reader: readMessage, tryReadMessage, readNextMessageSize and        *)
(* tryReadNextMessageSize.                                                 *)

ReadsMessage(op) == op \in {"readMessage", "tryReadMessage"}
ReaderIdle == [pc |-> "idle", op |-> "readMessage", bufSize |-> 0,
               numBytesInQ |-> 0, numBytes |-> 0, data |-> <<>>]
ReadOutcome(ok, numBytes, data) ==
  [call |-> "read", ok |-> ok, numBytes |-> numBytes, data |-> data]
Returns(ok, numBytes, data) == /\ reader' = ReaderIdle
                               /\ outcome' = ReadOutcome(ok, numBytes, data)

CallRead(op, bufSize) ==
  /\ reader.pc = "idle"
  /\ reader' = [ReaderIdle EXCEPT !.pc = "load", !.op = op,
                                 !.bufSize = IF ReadsMessage(op) THEN bufSize ELSE 0]
  /\ UNCHANGED <<queueVars, writer, outcome, published>>

\* The load that finds a header's worth of bytes; the blocking functions spin until
\* then.
FindMessage ==
  /\ reader.pc = "load"
  /\ theNumberOfBytesQueued >= HeaderSize
  /\ reader' = [reader EXCEPT !.pc = "peek", !.numBytesInQ = theNumberOfBytesQueued]
  /\ UNCHANGED <<queueVars, writer, outcome, published>>

FindNothing ==
  /\ reader.pc = "load"
  /\ reader.op \in {"tryReadMessage", "tryReadNextMessageSize"}
  /\ theNumberOfBytesQueued < HeaderSize
  /\ Returns(TRUE, 0, <<>>)
  /\ UNCHANGED <<queueVars, writer, published>>

\* The length is copied out without moving theReadPos: readNextMessageSize ends here.
PeekSize ==
  /\ reader.pc = "peek"
  /\ ~ReadsMessage(reader.op)
  /\ \E n \in LengthIn(DataInQueue(HeaderSize)) : Returns(TRUE, n, <<>>)
  /\ UNCHANGED <<queueVars, writer, published>>

\* Mutant: the length is consumed before the caller's buffer is known to be big enough.
ReadHeaderConsuming ==
  /\ reader.pc = "peek"
  /\ ReadsMessage(reader.op)
  /\ \E n \in LengthIn(DataInQueue(HeaderSize)) :
       /\ theReadPos' = Masked(theReadPos + HeaderSize)
       /\ IF n > reader.bufSize \/ n + HeaderSize > reader.numBytesInQ
          THEN Returns(FALSE, n, <<>>)
          ELSE /\ reader' = [reader EXCEPT !.pc = "copy", !.numBytes = n]
               /\ UNCHANGED outcome
  /\ UNCHANGED <<theMessageBuffer, theWritePos, theNumberOfBytesQueued, writer, published>>

\* Mutant: a buffer of exactly the message's size is taken to be too small.
ReadHeaderStrict ==
  /\ reader.pc = "peek"
  /\ ReadsMessage(reader.op)
  /\ \E n \in LengthIn(DataInQueue(HeaderSize)) :
       IF n >= reader.bufSize \/ n + HeaderSize > reader.numBytesInQ
       THEN /\ Returns(FALSE, n, <<>>)
            /\ UNCHANGED theReadPos
       ELSE /\ theReadPos' = Masked(theReadPos + HeaderSize)
            /\ reader' = [reader EXCEPT !.pc = "copy", !.numBytes = n]
            /\ UNCHANGED outcome
  /\ UNCHANGED <<theMessageBuffer, theWritePos, theNumberOfBytesQueued, writer, published>>

\* readMessage copies the length out and, when the buffer is big enough and the
\* payload is all there, consumes it.
ReadHeader ==
  /\ reader.pc = "peek"
  /\ ReadsMessage(reader.op)
  /\ \E n \in LengthIn(DataInQueue(HeaderSize)) :
       IF ~(n <= reader.bufSize /\ n + HeaderSize <= reader.numBytesInQ)
       THEN /\ Returns(FALSE, IF n <= reader.bufSize /\ reader.op = "tryReadMessage"
                              THEN -1 ELSE n, <<>>)
            /\ UNCHANGED theReadPos
       ELSE /\ theReadPos' = Masked(theReadPos + HeaderSize)
            /\ reader' = [reader EXCEPT !.pc = "copy", !.numBytes = n]
            /\ UNCHANGED outcome
  /\ UNCHANGED <<theMessageBuffer, theWritePos, theNumberOfBytesQueued, writer, published>>

ReadData ==
  /\ reader.pc = "copy"
  /\ reader' = [reader EXCEPT !.pc = "release", !.data = DataInQueue(reader.numBytes)]
  /\ theReadPos' = Masked(theReadPos + reader.numBytes)
  /\ UNCHANGED <<theMessageBuffer, theWritePos, theNumberOfBytesQueued, writer, outcome, published>>

\* Mutant: only the payload's bytes are given back, the header's stay counted.
ReleaseDataOnly ==
  /\ reader.pc = "release"
  /\ theNumberOfBytesQueued' = theNumberOfBytesQueued - reader.numBytes
  /\ Returns(TRUE, reader.numBytes, reader.data)
  /\ published' = SubSeq(published, 2, Len(published))
  /\ UNCHANGED <<theMessageBuffer, theWritePos, theReadPos, writer>>

\* SDL_AtomicAdd of minus the frame: from here on the writer may reuse the bytes.
Release ==
  /\ reader.pc = "release"
  /\ theNumberOfBytesQueued' = theNumberOfBytesQueued - (HeaderSize + reader.numBytes)
  /\ Returns(TRUE, reader.numBytes, reader.data)
  /\ published' = SubSeq(published, 2, Len(published))
  /\ UNCHANGED <<theMessageBuffer, theWritePos, theReadPos, writer>>

ReaderStep == FindMessage \/ FindNothing \/ PeekSize \/ ReadHeader \/ ReadData \/ Release

----------------------------------------------------------------------------
Init ==
  /\ theMessageBuffer = [c \in Cells |-> Zero]
  /\ theWritePos = 0
  /\ theReadPos = 0
  /\ theNumberOfBytesQueued = 0
  /\ writer = WriterIdle
  /\ reader = ReaderIdle
  /\ outcome = ReadOutcome(TRUE, 0, <<>>)
  /\ published = <<>>

Next == \/ \E op \in WriteOps, m \in Messages : CallWrite(op, m)
        \/ WriterStep
        \/ \E op \in ReadOps, bufSize \in BufSizes : CallRead(op, bufSize)
        \/ ReaderStep

Spec == Init /\ [][Next]_vars

\* Each thread keeps running, and the reader's code comes back to the queue for ever
\* (the display loop and the input device poll it); the writer may stop writing.
FairSpec ==
  /\ Spec
  /\ WF_vars(WriterStep)
  /\ WF_vars(ReaderStep)
  /\ WF_vars(\E op \in ReadOps, bufSize \in BufSizes : CallRead(op, bufSize))

----------------------------------------------------------------------------
(* Properties.                                                             *)

WriterPcs == {"idle", "load", "header", "data", "publish"}
ReaderPcs == {"idle", "load", "peek", "copy", "release"}

\* Types: both positions stay inside the ring, the counter between 0 and its size.
TypeOK ==
  /\ theMessageBuffer \in [Cells -> CellValue]
  /\ theWritePos \in Cells
  /\ theReadPos \in Cells
  /\ theNumberOfBytesQueued \in 0 .. QueueSize
  /\ writer \in [pc : WriterPcs, op : WriteOps \union {"writeMessage"},
                 data : Messages \union {<<>>}]
  /\ writer.pc # "idle" => writer.data \in Messages
  /\ reader \in [pc : ReaderPcs, op : ReadOps \union {"readMessage"}, bufSize : Nat,
                 numBytesInQ : Nat, numBytes : Nat, data : Seq(CellValue)]
  /\ outcome \in [call : {"write", "read"}, ok : BOOLEAN, numBytes : Int,
                  data : Seq(CellValue)]
  /\ published \in Seq(Messages)

\* The cells a copy of n bytes from position pos touches.
Region(pos, n) == {Masked(pos + i) : i \in 0 .. n - 1}

WriterRegion == IF writer.pc = "header" THEN Region(theWritePos, HeaderSize)
                ELSE IF writer.pc = "data" THEN Region(theWritePos, Len(writer.data))
                ELSE {}
ReaderRegion == IF reader.pc = "peek" THEN Region(theReadPos, HeaderSize)
                ELSE IF reader.pc = "copy" THEN Region(theReadPos, reader.numBytes)
                ELSE {}

\* The two threads take no lock: the writer's memcpy and the reader's memcpy, when both
\* are under way, never touch the same byte of theMessageBuffer.
NoDataRace == WriterRegion \intersect ReaderRegion = {}

\* Where the oldest byte still counted by theNumberOfBytesQueued is: the reader has
\* moved theReadPos past what it has copied but not yet released.
Taken == IF reader.pc = "copy" THEN HeaderSize
         ELSE IF reader.pc = "release" THEN HeaderSize + reader.numBytes
         ELSE 0
StepBack(pos, n) == IF pos >= n THEN pos - n ELSE pos - n + QueueSize
Oldest == StepBack(theReadPos, Taken)

\* Bytes the writer has copied into the ring and not yet counted.
InFlight == IF writer.pc = "data" THEN HeaderSize
            ELSE IF writer.pc = "publish" THEN HeaderSize + Len(writer.data)
            ELSE 0

\* What each thread knows of the counter stays true while the other one moves it: the
\* room the writer found is still there when it copies, the bytes the reader counted
\* are still there when it takes them; and the two private positions and the shared
\* counter always describe one and the same stretch of the ring.
RoomReserved == writer.pc \in {"header", "data", "publish"} => HasRoom
SnapshotHolds == reader.pc \in {"peek", "copy", "release"} =>
                    /\ HeaderSize <= reader.numBytesInQ
                    /\ reader.numBytesInQ <= theNumberOfBytesQueued
                    /\ Taken <= reader.numBytesInQ
                    /\ reader.pc = "copy" => HeaderSize + reader.numBytes <= reader.numBytesInQ
PositionsAgree == theWritePos = Masked(Oldest + theNumberOfBytesQueued + InFlight)
Accounting == RoomReserved /\ SnapshotHolds /\ PositionsAgree

FrameBytes(m) == HeaderBytes(Len(m)) \o m
PublishedBytes[n \in 0 .. Len(published)] ==
  IF n = 0 THEN <<>> ELSE PublishedBytes[n - 1] \o FrameBytes(published[n])

\* The counted bytes are exactly the frames of the unread messages, whole and in
\* order, whatever the writer is in the middle of: nothing unread is overwritten and
\* no half-written message is counted.
FramesIntact ==
  LET stream == PublishedBytes[Len(published)]
  IN /\ theNumberOfBytesQueued = Len(stream)
     /\ \A i \in 1 .. Len(stream) : theMessageBuffer[Masked(Oldest + i - 1)] = stream[i]

\* SimpleQueue implements the channel: messages arrive once, whole, in order; a write
\* is refused only when it does not fit, a read finds nothing only in an empty queue,
\* and a read that fails leaves the message for a retry.
Channel == INSTANCE MessageChannel WITH chan <- published, Capacity <- QueueSize
ImplementsChannel == Channel!Spec

\* writeMessage waits for room in a loop: with a reader that keeps reading, every call
\* returns.
WriteReturns == writer.pc = "load" ~> writer.pc = "idle"

\* With such a reader every message that was published is handed over.
EveryMessageIsRead ==
  \A m \in Messages : (published # <<>> /\ published[1] = m) ~> outcome = ReadOutcome(TRUE, Len(m), m)
=============================================================================
