------------------------- MODULE SimpleQueueProofs -------------------------
(***************************************************************************)
(* Proofs about SimpleQueue for every ring size, header size and set of    *)
(* messages: types, the byte accounting, the absence of a data race, that  *)
(* the counted bytes are always whole frames in order, and that the queue  *)
(* implements the abstract channel.                                        *)
(***************************************************************************)
EXTENDS SimpleQueue, TLAPS, SequenceTheorems, SharedLemmas

USE HeaderAssumption, QueueSizeAssumption DEF Cells

\* A masked position is a cell, for the sums of positions that occur.
LEMMA MaskedInCells ==
  ASSUME NEW pos \in Nat, pos < 2 * QueueSize
  PROVE  Masked(pos) \in Cells
BY DEF Masked

\* A header is a sequence of HeaderSize cell values.
LEMMA HeaderBytesType ==
  ASSUME NEW n \in Lengths
  PROVE  /\ HeaderBytes(n) \in Seq(CellValue)
         /\ Len(HeaderBytes(n)) = HeaderSize
<1>1. \A i \in 1 .. HeaderSize : LengthByte(n, i) \in CellValue
  BY DEF CellValue
<1>2. QED
  BY <1>1 DEF HeaderBytes

\* The payload of a message is a sequence of cell values, and has a legal length.
LEMMA MessageType ==
  ASSUME NEW m \in Messages \union {<<>>}
  PROVE  /\ m \in Seq(CellValue)
         /\ Len(m) \in Lengths
         /\ Len(m) \in Nat
<1>1. m \in Seq(Byte)
  <2>1. CASE m \in Messages
    BY <2>1, MessagesAssumption
  <2>2. CASE m = <<>>
    BY <2>2
  <2>3. QED
    BY <2>1, <2>2
<1>2. Byte \subseteq CellValue
  BY DEF CellValue
<1>3. m \in Seq(CellValue)
  BY <1>1, <1>2
<1>4. Len(m) \in Lengths
  BY DEF Lengths
<1>5. QED
  BY <1>3, <1>4

\* Whichever way the copy goes, whole or in two parts, it leaves a ring of cell values
\* and moves theWritePos by as many cells as it copied.
LEMMA CopyLemma ==
  ASSUME NEW bytes \in Seq(CellValue), Len(bytes) <= QueueSize,
         theMessageBuffer \in [Cells -> CellValue], theWritePos \in Cells,
         CopyDataIntoQueue(bytes)
  PROVE  /\ theMessageBuffer' \in [Cells -> CellValue]
         /\ theWritePos' = Masked(theWritePos + Len(bytes))
         /\ theWritePos' \in Cells
<1>1. Len(bytes) \in Nat /\ \A i \in 1 .. Len(bytes) : bytes[i] \in CellValue
  OBVIOUS
<1>2. /\ QueueSize \in Nat
      /\ theWritePos \in 0 .. QueueSize - 1
  OBVIOUS
<1>3. CASE theWritePos + Len(bytes) <= QueueSize
  <2>1. theWritePos' = Masked(theWritePos + Len(bytes))
    BY <1>3 DEF CopyDataIntoQueue
  <2>2. theWritePos' \in Cells
    BY <1>1, <1>2, <1>3, <2>1, MaskedInCells
  <2>3. theMessageBuffer' = [c \in Cells |->
           IF c >= theWritePos /\ c < theWritePos + Len(bytes)
           THEN bytes[c - theWritePos + 1] ELSE theMessageBuffer[c]]
    BY <1>3 DEF CopyDataIntoQueue
  <2>4. \A c \in Cells : c >= theWritePos /\ c < theWritePos + Len(bytes) =>
           bytes[c - theWritePos + 1] \in CellValue
    BY <1>1, <1>2
  <2>5. QED
    BY <2>1, <2>2, <2>3, <2>4
<1>4. CASE ~(theWritePos + Len(bytes) <= QueueSize)
  <2> DEFINE part1Size == QueueSize - theWritePos
             part2Size == Len(bytes) - part1Size
  <2>1. theWritePos' = part2Size
    BY <1>4 DEF CopyDataIntoQueue
  <2>2. part2Size = Masked(theWritePos + Len(bytes)) /\ part2Size \in Cells
    BY <1>1, <1>2, <1>4 DEF Masked
  <2>3. theMessageBuffer' = [c \in Cells |->
           IF c >= theWritePos THEN bytes[c - theWritePos + 1]
           ELSE IF c < part2Size THEN bytes[part1Size + c + 1] ELSE theMessageBuffer[c]]
    BY <1>4 DEF CopyDataIntoQueue
  <2>4. \A c \in Cells : /\ c >= theWritePos => bytes[c - theWritePos + 1] \in CellValue
                         /\ c < part2Size => bytes[part1Size + c + 1] \in CellValue
    BY <1>1, <1>2, <1>4
  <2>5. QED
    BY <2>1, <2>2, <2>3, <2>4
<1>5. QED
  BY <1>3, <1>4

\* What is copied out of the ring is a sequence of cell values.
LEMMA DataInQueueType ==
  ASSUME NEW n \in Nat, n <= QueueSize,
         theMessageBuffer \in [Cells -> CellValue], theReadPos \in Cells
  PROVE  DataInQueue(n) \in Seq(CellValue)
<1>1. \A i \in 1 .. n : DataInQueue(n)[i] \in CellValue
  BY DEF DataInQueue
<1>2. QED
  BY <1>1 DEF DataInQueue

\* Lengths of messages are naturals.
LEMMA LengthsAreNat == Lengths \subseteq Nat
BY MessageType DEF Lengths

----------------------------------------------------------------------------
(* The inductive invariant: the types and the byte accounting hold together, *)
(* since the counter stays within the ring only because the writer's room is *)
(* reserved and the reader takes no more than was counted.                   *)

IInv == TypeOK /\ Accounting

\* The arithmetic facts of the invariant, which every step below starts from.
LEMMA IInvFacts ==
  ASSUME IInv
  PROVE  /\ QueueSize \in Nat /\ HeaderSize \in Nat \ {0} /\ QueueSize >= HeaderSize
         /\ theWritePos \in 0 .. QueueSize - 1
         /\ theReadPos \in 0 .. QueueSize - 1
         /\ theNumberOfBytesQueued \in 0 .. QueueSize
         /\ Len(writer.data) \in Nat
         /\ Len(writer.data) \in Lengths
         /\ writer.data \in Seq(CellValue)
         /\ reader.numBytes \in Nat /\ reader.numBytesInQ \in Nat
BY MessageType DEF IInv, TypeOK

\* Advancing in two strides is advancing once.
LEMMA MaskedSum ==
  ASSUME NEW a \in Cells, NEW b \in Nat, NEW c \in Nat, b + c <= QueueSize
  PROVE  Masked(Masked(a + b) + c) = Masked(a + b + c)
BY DEF Masked

\* Advancing n cells and stepping back n more leads to the same cell.
LEMMA StepBackAdvances ==
  ASSUME NEW pos \in Cells, NEW k \in Nat, NEW n \in Nat, k + n <= QueueSize
  PROVE  StepBack(Masked(pos + n), k + n) = StepBack(pos, k)
BY DEF StepBack, Masked

\* The oldest counted byte is in the ring, and the reader is Taken cells past it.
LEMMA OldestFacts ==
  ASSUME IInv
  PROVE  /\ Oldest \in Cells
         /\ Taken \in 0 .. QueueSize
         /\ InFlight \in Nat
         /\ theReadPos = Masked(Oldest + Taken)
<1>1. Taken \in 0 .. QueueSize
  BY IInvFacts DEF IInv, TypeOK, Accounting, SnapshotHolds, Taken, ReaderPcs
<1>2. InFlight \in Nat
  BY IInvFacts DEF InFlight
<1>3. QED
  BY SMTT(30), <1>1, <1>2, IInvFacts DEF Oldest, StepBack, Masked

\* A step that moves no position and no byte count, between places of the writer at
\* which nothing is reserved, keeps the accounting.
LEMMA Unmoved ==
  ASSUME IInv, UNCHANGED queueVars, UNCHANGED reader,
         writer.pc \in {"idle", "load"}, writer'.pc \in {"idle", "load"}
  PROVE  Accounting'
BY DEF IInv, queueVars, Accounting, RoomReserved, SnapshotHolds, PositionsAgree, Oldest,
       StepBack, Taken, InFlight, Masked

\* The same for the reader, between places at which it has taken nothing.
LEMMA ReaderRests ==
  ASSUME IInv, UNCHANGED queueVars, UNCHANGED writer,
         reader.pc \in {"idle", "load", "peek"}, reader'.pc \in {"idle", "load"}
  PROVE  Accounting'
BY DEF IInv, queueVars, Accounting, RoomReserved, SnapshotHolds, PositionsAgree, Oldest,
       StepBack, Taken, InFlight, Masked, HasRoom

\* Everything is at rest in an empty ring at first.
LEMMA InitIInv == Init => IInv
<1> SUFFICES ASSUME Init PROVE IInv
  OBVIOUS
<1>1. Zero \in CellValue
  BY DEF CellValue
<1>2. TypeOK
  BY <1>1 DEF Init, TypeOK, WriterIdle, ReaderIdle, ReadOutcome, WriterPcs, ReaderPcs
<1>3. Accounting
  BY DEF Init, Accounting, RoomReserved, SnapshotHolds, PositionsAgree, WriterIdle,
         ReaderIdle, Oldest, StepBack, Taken, InFlight, Masked
<1>4. QED
  BY <1>2, <1>3 DEF IInv

\* A call of the writer starts, or refuses a message that can never fit.
LEMMA CallWritePreserves ==
  ASSUME IInv, NEW op \in WriteOps, NEW m \in Messages, CallWrite(op, m)
  PROVE  IInv'
<1>1. m \in Messages \union {<<>>} /\ m \in Seq(CellValue) /\ Len(m) \in Nat
  BY MessageType
<1>2. UNCHANGED <<queueVars, reader, published>> /\ writer.pc = "idle"
  BY DEF CallWrite
<1>3. CASE Len(m) > QueueSize - HeaderSize
  <2>1. outcome' \in [call : {"write", "read"}, ok : BOOLEAN, numBytes : Int, data : Seq(CellValue)]
    <3>1. outcome' = [call |-> "write", ok |-> FALSE, numBytes |-> Len(m), data |-> m]
      BY <1>3 DEF CallWrite, WriteOutcome
    <3>2. Len(m) \in Int
      BY <1>1
    <3>3. QED
      BY <1>1, <3>1, <3>2
  <2>2. UNCHANGED writer
    BY <1>3 DEF CallWrite
  <2>3. TypeOK'
    BY <1>2, <2>1, <2>2 DEF IInv, TypeOK, queueVars
  <2>4. QED
    BY <1>2, <2>2, <2>3, Unmoved DEF IInv
<1>4. CASE ~(Len(m) > QueueSize - HeaderSize)
  <2>1. /\ writer'.pc = "load"
        /\ writer' \in [pc : WriterPcs, op : WriteOps \union {"writeMessage"},
                       data : Messages \union {<<>>}]
        /\ writer'.data \in Messages
    BY <1>1, <1>4 DEF CallWrite, WriterPcs
  <2>2. UNCHANGED outcome
    BY <1>4 DEF CallWrite
  <2>3. TypeOK'
    BY <1>2, <2>1, <2>2 DEF IInv, TypeOK, queueVars
  <2>4. QED
    BY <1>2, <2>1, <2>3, Unmoved DEF IInv
<1>5. QED
  BY <1>3, <1>4

\* The writer learns that there is room: it is reserved from here on, since only the
\* writer adds to the counter.
LEMMA FindRoomPreserves ==
  ASSUME IInv, FindRoom
  PROVE  IInv'
<1>1. TypeOK'
  BY DEF IInv, TypeOK, FindRoom, queueVars, WriterPcs
<1>2. writer.pc = "load" /\ writer'.pc = "header" /\ writer'.data = writer.data
  BY DEF IInv, TypeOK, FindRoom
<1>3. UNCHANGED <<theWritePos, theReadPos, theNumberOfBytesQueued, reader>>
  BY DEF FindRoom, queueVars
<1>4. Accounting'
  BY <1>2, <1>3 DEF IInv, FindRoom, Accounting, RoomReserved, SnapshotHolds,
         PositionsAgree, Oldest, StepBack, Taken, InFlight, Masked, HasRoom
<1>5. QED
  BY <1>1, <1>4 DEF IInv

\* tryWriteMessage gives up.
LEMMA FindNoRoomPreserves ==
  ASSUME IInv, FindNoRoom
  PROVE  IInv'
<1>1. /\ writer'.pc = "idle"
      /\ writer' \in [pc : WriterPcs, op : WriteOps \union {"writeMessage"},
                     data : Messages \union {<<>>}]
  BY DEF FindNoRoom, WriterIdle, WriterPcs
<1>2. outcome' \in [call : {"write", "read"}, ok : BOOLEAN, numBytes : Int, data : Seq(CellValue)]
  BY IInvFacts DEF FindNoRoom, WriteOutcome
<1>3. UNCHANGED <<queueVars, reader, published>>
  BY DEF FindNoRoom
<1>4. TypeOK'
  BY <1>1, <1>2, <1>3 DEF IInv, TypeOK, queueVars
<1>5. writer.pc = "load"
  BY DEF FindNoRoom
<1>6. Accounting'
  BY <1>1, <1>3, <1>5, Unmoved
<1>7. QED
  BY <1>4, <1>6 DEF IInv

\* The header goes in where the counted bytes end.
LEMMA WriteHeaderPreserves ==
  ASSUME IInv, WriteHeader
  PROVE  IInv'
<1> DEFINE n == Len(writer.data)
<1>1. HeaderBytes(n) \in Seq(CellValue) /\ Len(HeaderBytes(n)) = HeaderSize
  BY IInvFacts, HeaderBytesType
<1>2. /\ theMessageBuffer' \in [Cells -> CellValue]
      /\ theWritePos' = Masked(theWritePos + HeaderSize)
      /\ theWritePos' \in Cells
  BY <1>1, CopyLemma DEF IInv, TypeOK, WriteHeader
<1>3. TypeOK'
  BY <1>2 DEF IInv, TypeOK, WriteHeader, WriterPcs
<1>4. writer.pc = "header" /\ writer'.pc = "data" /\ writer'.data = writer.data
  BY DEF IInv, TypeOK, WriteHeader
<1>5. UNCHANGED <<theReadPos, theNumberOfBytesQueued, reader>>
  BY DEF WriteHeader
<1>6. Accounting'
  <2>1. RoomReserved' /\ SnapshotHolds'
    BY <1>4, <1>5 DEF IInv, Accounting, RoomReserved, SnapshotHolds, HasRoom, Taken
  <2>2. PositionsAgree'
    <3>1. InFlight = 0 /\ InFlight' = HeaderSize /\ Oldest' = Oldest
      BY <1>4, <1>5 DEF InFlight, Oldest, StepBack, Taken
    <3>2. theNumberOfBytesQueued + HeaderSize <= QueueSize
      BY <1>4, IInvFacts DEF IInv, Accounting, RoomReserved, HasRoom
    <3>3. theWritePos' = Masked(Masked(Oldest + theNumberOfBytesQueued) + HeaderSize)
      BY <1>2, <3>1, IInvFacts, OldestFacts DEF IInv, Accounting, PositionsAgree
    <3>4. theWritePos' = Masked(Oldest + theNumberOfBytesQueued + HeaderSize)
      BY <3>2, <3>3, IInvFacts, OldestFacts, MaskedSum
    <3>5. QED
      BY <1>5, <3>1, <3>4 DEF PositionsAgree
  <2>3. QED
    BY <2>1, <2>2 DEF Accounting
<1>7. QED
  BY <1>3, <1>6 DEF IInv

\* The payload goes in behind its header.
LEMMA WriteDataPreserves ==
  ASSUME IInv, WriteData
  PROVE  IInv'
<1> DEFINE n == Len(writer.data)
<1>1. writer.pc = "data" /\ writer'.pc = "publish" /\ writer'.data = writer.data
  BY DEF IInv, TypeOK, WriteData
<1>2. theNumberOfBytesQueued + HeaderSize + n <= QueueSize
  BY <1>1 DEF IInv, Accounting, RoomReserved, HasRoom
<1>3. /\ theMessageBuffer' \in [Cells -> CellValue]
      /\ theWritePos' = Masked(theWritePos + n)
      /\ theWritePos' \in Cells
  <2>1. n <= QueueSize
    BY <1>2, IInvFacts
  <2>2. QED
    BY <2>1, IInvFacts, CopyLemma DEF IInv, TypeOK, WriteData
<1>4. UNCHANGED <<theReadPos, theNumberOfBytesQueued, reader>>
  BY DEF WriteData
<1>5. TypeOK'
  BY <1>3 DEF IInv, TypeOK, WriteData, WriterPcs
<1>6. RoomReserved' /\ SnapshotHolds'
  BY <1>1, <1>4 DEF IInv, Accounting, RoomReserved, SnapshotHolds, HasRoom, Taken
<1>7. PositionsAgree'
  <2>1. InFlight = HeaderSize /\ InFlight' = HeaderSize + n /\ Oldest' = Oldest
    BY <1>1, <1>4 DEF InFlight, Oldest, StepBack, Taken
  <2>2. theWritePos' = Masked(Masked(Oldest + (theNumberOfBytesQueued + HeaderSize)) + n)
    <3>1. Oldest \in Nat /\ theNumberOfBytesQueued \in Nat
      BY IInvFacts, OldestFacts
    <3>2. Oldest + theNumberOfBytesQueued + HeaderSize = Oldest + (theNumberOfBytesQueued + HeaderSize)
      BY <3>1
    <3>3. theWritePos = Masked(Oldest + (theNumberOfBytesQueued + HeaderSize))
      BY <2>1, <3>2 DEF IInv, Accounting, PositionsAgree
    <3>4. QED
      BY <1>3, <3>3
  <2>3. theWritePos' = Masked(Oldest + (theNumberOfBytesQueued + HeaderSize) + n)
    <3> DEFINE b == theNumberOfBytesQueued + HeaderSize
    <3>1. b \in Nat /\ n \in Nat /\ Oldest \in Cells
      BY IInvFacts, OldestFacts
    <3>2. b + n <= QueueSize
      BY <1>2
    <3> HIDE DEF b, n
    <3>3. Masked(Masked(Oldest + b) + n) = Masked(Oldest + b + n)
      BY <3>1, <3>2, MaskedSum
    <3>4. QED
      BY <2>2, <3>3 DEF b
  <2>4. QED
    BY <1>4, <2>1, <2>3, IInvFacts, OldestFacts DEF PositionsAgree
<1>8. QED
  BY <1>5, <1>6, <1>7 DEF IInv, Accounting

\* Counting the message turns the bytes in flight into queued ones.
LEMMA PublishPreserves ==
  ASSUME IInv, Publish
  PROVE  IInv'
<1> DEFINE n == Len(writer.data)
<1>1. /\ writer.pc = "publish"
      /\ writer'.pc = "idle"
      /\ writer' \in [pc : WriterPcs, op : WriteOps \union {"writeMessage"},
                      data : Messages \union {<<>>}]
  BY DEF Publish, WriterIdle, WriterPcs
<1>2. theNumberOfBytesQueued + HeaderSize + n <= QueueSize
  BY <1>1 DEF IInv, Accounting, RoomReserved, HasRoom
<1>3. /\ UNCHANGED <<theMessageBuffer, theWritePos, theReadPos, reader>>
      /\ theNumberOfBytesQueued' = theNumberOfBytesQueued + HeaderSize + n
  BY DEF Publish
<1>4. theNumberOfBytesQueued' \in 0 .. QueueSize
  BY <1>2, <1>3, IInvFacts
<1>5. outcome' \in [call : {"write", "read"}, ok : BOOLEAN, numBytes : Int, data : Seq(CellValue)]
  BY IInvFacts DEF Publish, WriteOutcome
<1>6. published' \in Seq(Messages)
  <2>1. writer.data \in Messages
    BY <1>1 DEF IInv, TypeOK
  <2>2. QED
    BY <2>1 DEF IInv, TypeOK, Publish
<1>7. TypeOK'
  BY <1>1, <1>3, <1>4, <1>5, <1>6 DEF IInv, TypeOK
<1>8. RoomReserved' /\ SnapshotHolds'
  BY <1>1, <1>3, IInvFacts DEF IInv, Accounting, RoomReserved, SnapshotHolds, Taken
<1>9. PositionsAgree'
  <2>1. InFlight = HeaderSize + n /\ InFlight' = 0 /\ Oldest' = Oldest
    BY <1>1, <1>3 DEF InFlight, Oldest, StepBack, Taken
  <2>2. QED
    BY SMTT(30), <1>3, <2>1, IInvFacts, OldestFacts DEF IInv, Accounting, PositionsAgree
<1>10. QED
  BY <1>7, <1>8, <1>9 DEF IInv, Accounting

\* A call of the reader starts.
LEMMA CallReadPreserves ==
  ASSUME IInv, NEW op \in ReadOps, NEW bufSize \in BufSizes, CallRead(op, bufSize)
  PROVE  IInv'
<1>1. /\ reader.pc = "idle"
      /\ reader'.pc = "load"
      /\ reader' \in [pc : ReaderPcs, op : ReadOps \union {"readMessage"}, bufSize : Nat,
                      numBytesInQ : Nat, numBytes : Nat, data : Seq(CellValue)]
  <2> DEFINE size == IF ReadsMessage(op) THEN bufSize ELSE 0
  <2>1. size \in Nat
    BY BufSizesAssumption
  <2>2. reader.pc = "idle"
    BY DEF CallRead
  <2>3. reader' = [pc |-> "load", op |-> op, bufSize |-> size,
                   numBytesInQ |-> 0, numBytes |-> 0, data |-> <<>>]
    BY DEF CallRead, ReaderIdle
  <2> HIDE DEF size
  <2>4. QED
    BY <2>1, <2>2, <2>3 DEF ReaderPcs
<1>2. UNCHANGED <<queueVars, writer, outcome, published>>
  BY DEF CallRead
<1>3. TypeOK'
  BY <1>1, <1>2 DEF IInv, TypeOK, queueVars
<1>4. QED
  BY <1>1, <1>2, <1>3, ReaderRests DEF IInv

\* The reader takes its snapshot of the counter.
LEMMA FindMessagePreserves ==
  ASSUME IInv, FindMessage
  PROVE  IInv'
<1>1. /\ reader.pc = "load" /\ reader'.pc = "peek"
      /\ reader'.numBytesInQ = theNumberOfBytesQueued
      /\ HeaderSize <= theNumberOfBytesQueued
  BY DEF IInv, TypeOK, FindMessage
<1>2. UNCHANGED <<queueVars, writer, outcome, published>>
  BY DEF FindMessage
<1>3. TypeOK'
  <2>1. reader' \in [pc : ReaderPcs, op : ReadOps \union {"readMessage"}, bufSize : Nat,
                     numBytesInQ : Nat, numBytes : Nat, data : Seq(CellValue)]
    <3>1. theNumberOfBytesQueued \in Nat
      BY IInvFacts
    <3>2. QED
      BY <3>1 DEF IInv, TypeOK, FindMessage, ReaderPcs
  <2>2. QED
    BY <1>2, <2>1 DEF IInv, TypeOK, queueVars
<1>4. Taken = 0 /\ Taken' = 0
  BY <1>1 DEF Taken
<1>5. RoomReserved' /\ SnapshotHolds'
  BY <1>1, <1>2, <1>4, IInvFacts DEF IInv, Accounting, RoomReserved, SnapshotHolds,
     HasRoom, queueVars
<1>6. PositionsAgree'
  BY <1>2, <1>4 DEF IInv, Accounting, PositionsAgree, Oldest, StepBack, InFlight, queueVars
<1>7. QED
  BY <1>3, <1>5, <1>6 DEF IInv, Accounting

\* The reader returns without having taken anything.
LEMMA ReturnsPreserves ==
  ASSUME IInv, UNCHANGED queueVars, UNCHANGED <<writer, published>>,
         NEW ok \in BOOLEAN, NEW n \in Int, Returns(ok, n, <<>>),
         reader.pc \in {"idle", "load", "peek"}
  PROVE  IInv'
<1>1. /\ reader'.pc = "idle"
      /\ reader' \in [pc : ReaderPcs, op : ReadOps \union {"readMessage"}, bufSize : Nat,
                      numBytesInQ : Nat, numBytes : Nat, data : Seq(CellValue)]
  BY DEF Returns, ReaderIdle, ReaderPcs
<1>2. outcome' \in [call : {"write", "read"}, ok : BOOLEAN, numBytes : Int, data : Seq(CellValue)]
  BY DEF Returns, ReadOutcome
<1>3. TypeOK'
  BY <1>1, <1>2 DEF IInv, TypeOK, queueVars
<1>4. QED
  BY <1>1, <1>3, ReaderRests DEF IInv

\* Whatever length the header holds, the reader only advances over bytes it has seen
\* counted.
LEMMA ReadHeaderPreserves ==
  ASSUME IInv, ReadHeader
  PROVE  IInv'
<1>1. UNCHANGED <<theMessageBuffer, theWritePos, theNumberOfBytesQueued, writer, published>>
  BY DEF ReadHeader
<1>2. reader.pc = "peek"
  BY DEF ReadHeader
<1>3. PICK n \in LengthIn(DataInQueue(HeaderSize)) :
        IF ~(n <= reader.bufSize /\ n + HeaderSize <= reader.numBytesInQ)
        THEN /\ Returns(FALSE, IF n <= reader.bufSize /\ reader.op = "tryReadMessage"
                               THEN -1 ELSE n, <<>>)
             /\ UNCHANGED theReadPos
        ELSE /\ theReadPos' = Masked(theReadPos + HeaderSize)
             /\ reader' = [reader EXCEPT !.pc = "copy", !.numBytes = n]
             /\ UNCHANGED outcome
  BY DEF ReadHeader
<1>4. n \in Nat
  BY LengthsAreNat DEF LengthIn
<1>5. CASE ~(n <= reader.bufSize /\ n + HeaderSize <= reader.numBytesInQ)
  <2> DEFINE k == IF n <= reader.bufSize /\ reader.op = "tryReadMessage" THEN -1 ELSE n
  <2>1. UNCHANGED queueVars
    BY <1>1, <1>3, <1>5 DEF queueVars
  <2>2. Returns(FALSE, k, <<>>)
    BY <1>3, <1>5
  <2>3. k \in Int
    BY <1>4
  <2> HIDE DEF k
  <2>4. QED
    BY <1>1, <1>2, <2>1, <2>2, <2>3, ReturnsPreserves
<1>6. CASE n <= reader.bufSize /\ n + HeaderSize <= reader.numBytesInQ
  <2>1. theReadPos' \in Cells
    <3>1. theReadPos' = Masked(theReadPos + HeaderSize)
      BY <1>3, <1>6
    <3>2. QED
      BY <3>1, IInvFacts, MaskedInCells
  <2>2. reader' \in [pc : ReaderPcs, op : ReadOps \union {"readMessage"}, bufSize : Nat,
                     numBytesInQ : Nat, numBytes : Nat, data : Seq(CellValue)]
    BY <1>3, <1>4, <1>6 DEF IInv, TypeOK, ReaderPcs
  <2>3. TypeOK'
    BY <1>1, <1>3, <1>6, <2>1, <2>2 DEF IInv, TypeOK
  <2>4. reader'.pc = "copy" /\ reader'.numBytes = n /\ reader'.numBytesInQ = reader.numBytesInQ
    BY <1>3, <1>6 DEF IInv, TypeOK
  <2>5. Taken = 0 /\ Taken' = HeaderSize
    BY <1>2, <2>4 DEF Taken
  <2>6. RoomReserved' /\ SnapshotHolds'
    BY <1>1, <1>2, <1>4, <1>6, <2>4, <2>5, IInvFacts
       DEF IInv, Accounting, RoomReserved, SnapshotHolds, HasRoom
  <2>7. Oldest' = Oldest /\ InFlight' = InFlight
    <3>1. theReadPos' = Masked(theReadPos + HeaderSize)
      BY <1>3, <1>6
    <3>2. StepBack(Masked(theReadPos + HeaderSize), 0 + HeaderSize) = StepBack(theReadPos, 0)
      BY IInvFacts, StepBackAdvances
    <3>3. Oldest' = Oldest
      BY <2>5, <3>1, <3>2 DEF Oldest
    <3>4. QED
      BY <1>1, <3>3 DEF InFlight
  <2>8. QED
    BY <1>1, <2>3, <2>6, <2>7 DEF IInv, Accounting, PositionsAgree
<1>7. QED
  BY <1>3, <1>5, <1>6

\* Copying the payload out moves theReadPos to the end of the frame.
LEMMA ReadDataPreserves ==
  ASSUME IInv, ReadData
  PROVE  IInv'
<1> DEFINE n == reader.numBytes
<1>1. UNCHANGED <<theMessageBuffer, theWritePos, theNumberOfBytesQueued, writer, outcome, published>>
  BY DEF ReadData
<1>2. reader.pc = "copy"
  BY DEF ReadData
<1>3. HeaderSize + n <= reader.numBytesInQ /\ reader.numBytesInQ <= theNumberOfBytesQueued
  BY <1>2 DEF IInv, Accounting, SnapshotHolds
<1>4. n <= QueueSize
  BY <1>3, IInvFacts
<1>5. DataInQueue(n) \in Seq(CellValue)
  BY <1>4, IInvFacts, DataInQueueType DEF IInv, TypeOK
<1>6. theReadPos' = Masked(theReadPos + n) /\ theReadPos' \in Cells
  BY <1>4, IInvFacts, MaskedInCells DEF ReadData
<1>7. reader' \in [pc : ReaderPcs, op : ReadOps \union {"readMessage"}, bufSize : Nat,
                   numBytesInQ : Nat, numBytes : Nat, data : Seq(CellValue)]
  BY <1>5 DEF IInv, TypeOK, ReadData, ReaderPcs
<1>8. TypeOK'
  BY <1>1, <1>6, <1>7 DEF IInv, TypeOK
<1>9. reader'.pc = "release" /\ reader'.numBytes = n /\ reader'.numBytesInQ = reader.numBytesInQ
  BY DEF IInv, TypeOK, ReadData
<1>10. Taken = HeaderSize /\ Taken' = HeaderSize + n
  BY <1>2, <1>9 DEF Taken
<1>11. RoomReserved' /\ SnapshotHolds'
  BY <1>1, <1>2, <1>3, <1>9, <1>10, IInvFacts
     DEF IInv, Accounting, RoomReserved, SnapshotHolds, HasRoom
<1>12. Oldest' = Oldest /\ InFlight' = InFlight
  <2>1. HeaderSize + n <= QueueSize
    BY <1>3, IInvFacts
  <2>2. InFlight' = InFlight
    BY <1>1 DEF InFlight
  <2>3. StepBack(Masked(theReadPos + n), HeaderSize + n) = StepBack(theReadPos, HeaderSize)
    BY <2>1, IInvFacts, StepBackAdvances
  <2>4. QED
    BY <1>6, <1>10, <2>2, <2>3 DEF Oldest
<1>13. QED
  BY <1>1, <1>8, <1>11, <1>12 DEF IInv, Accounting, PositionsAgree

\* Releasing the frame moves the oldest byte past it and counts that much less.
LEMMA ReleasePreserves ==
  ASSUME IInv, Release
  PROVE  IInv'
<1> DEFINE n == reader.numBytes
<1>1. UNCHANGED <<theMessageBuffer, theWritePos, theReadPos, writer>>
  BY DEF Release
<1>2. /\ reader.pc = "release" /\ reader'.pc = "idle"
      /\ reader' \in [pc : ReaderPcs, op : ReadOps \union {"readMessage"}, bufSize : Nat,
                      numBytesInQ : Nat, numBytes : Nat, data : Seq(CellValue)]
  BY DEF Release, Returns, ReaderIdle, ReaderPcs
<1>3. Taken = HeaderSize + n /\ Taken' = 0
  BY <1>2 DEF Taken
<1>4. HeaderSize + n <= theNumberOfBytesQueued
  BY <1>2, <1>3, IInvFacts DEF IInv, Accounting, SnapshotHolds
<1>5. theNumberOfBytesQueued' = theNumberOfBytesQueued - (HeaderSize + n)
  BY DEF Release
<1>6. outcome' \in [call : {"write", "read"}, ok : BOOLEAN, numBytes : Int, data : Seq(CellValue)]
  BY IInvFacts DEF IInv, TypeOK, Release, Returns, ReadOutcome
<1>7. published' \in Seq(Messages)
  BY SMTT(30) DEF IInv, TypeOK, Release
<1>8. theNumberOfBytesQueued' \in 0 .. QueueSize /\ theNumberOfBytesQueued' <= theNumberOfBytesQueued
  BY <1>4, <1>5, IInvFacts
<1>9. TypeOK'
  BY <1>1, <1>2, <1>6, <1>7, <1>8 DEF IInv, TypeOK
<1>10. RoomReserved' /\ SnapshotHolds'
  <2>1. RoomReserved'
    BY SMTT(30), <1>1, <1>8, IInvFacts DEF IInv, Accounting, RoomReserved, HasRoom
  <2>2. SnapshotHolds'
    BY <1>2 DEF SnapshotHolds
  <2>3. QED
    BY <2>1, <2>2
<1>11. PositionsAgree'
  <2>1. InFlight' = InFlight /\ InFlight \in Nat
    BY <1>1, IInvFacts DEF InFlight
  <2>2. theNumberOfBytesQueued + InFlight <= QueueSize
    BY IInvFacts DEF IInv, Accounting, RoomReserved, HasRoom, InFlight
  <2>3. Oldest' = theReadPos /\ theReadPos = Masked(Oldest + (HeaderSize + n))
    BY <1>1, <1>3, OldestFacts, IInvFacts DEF Oldest, StepBack
  <2>4. theWritePos = Masked(Oldest + theNumberOfBytesQueued + InFlight)
    BY DEF IInv, Accounting, PositionsAgree
  <2> DEFINE q == theNumberOfBytesQueued
             d == HeaderSize + n
  <2>5. Oldest \in Cells /\ q \in Nat /\ d \in Nat
    BY SMTT(30), IInvFacts, OldestFacts
  <2>6. d <= q /\ q + InFlight <= QueueSize
    BY <1>4, <2>2
  <2>7. theNumberOfBytesQueued' = q - d /\ theReadPos = Masked(Oldest + d)
    BY <1>5, <2>3
  <2> HIDE DEF q, d
  <2>8. \A a \in Cells, f \in Nat : q + f <= QueueSize =>
           Masked(Masked(a + d) + (q - d) + f) = Masked(a + q + f)
    BY <2>5, <2>6 DEF Masked
  <2>9. theWritePos = Masked(Oldest + q + InFlight)
    BY <2>4 DEF q
  <2>10. QED
    BY <1>1, <2>1, <2>3, <2>5, <2>6, <2>7, <2>8, <2>9 DEF PositionsAgree
<1>12. QED
  BY <1>9, <1>10, <1>11 DEF IInv, Accounting

\* Every step of either thread keeps the invariant.
LEMMA NextIInv == IInv /\ [Next]_vars => IInv'
<1> SUFFICES ASSUME IInv, [Next]_vars PROVE IInv'
  OBVIOUS
<1>1. ASSUME NEW op \in WriteOps, NEW m \in Messages, CallWrite(op, m) PROVE IInv'
  BY <1>1, CallWritePreserves
<1>2. CASE WriterStep
  BY <1>2, FindRoomPreserves, FindNoRoomPreserves, WriteHeaderPreserves,
     WriteDataPreserves, PublishPreserves DEF WriterStep
<1>3. ASSUME NEW op \in ReadOps, NEW bufSize \in BufSizes, CallRead(op, bufSize) PROVE IInv'
  BY <1>3, CallReadPreserves
<1>4. CASE FindMessage
  BY <1>4, FindMessagePreserves
<1>5. CASE FindNothing
  <2> DEFINE n == 0
  <2>1. /\ UNCHANGED queueVars /\ UNCHANGED <<writer, published>>
        /\ reader.pc = "load" /\ Returns(TRUE, n, <<>>)
    BY <1>5 DEF FindNothing
  <2>2. n \in Int
    OBVIOUS
  <2> HIDE DEF n
  <2>3. QED
    BY <2>1, <2>2, ReturnsPreserves
<1>6. CASE PeekSize
  <2>1. PICK n \in LengthIn(DataInQueue(HeaderSize)) : Returns(TRUE, n, <<>>)
    BY <1>6 DEF PeekSize
  <2>2. n \in Int
    BY LengthsAreNat DEF LengthIn
  <2>3. UNCHANGED queueVars /\ UNCHANGED <<writer, published>> /\ reader.pc = "peek"
    BY <1>6 DEF PeekSize
  <2>4. QED
    BY <2>1, <2>2, <2>3, ReturnsPreserves
<1>7. CASE ReadHeader
  BY <1>7, ReadHeaderPreserves
<1>8. CASE ReadData
  BY <1>8, ReadDataPreserves
<1>9. CASE Release
  BY <1>9, ReleasePreserves
<1>10. CASE UNCHANGED vars
  <2>1. TypeOK'
    BY <1>10 DEF vars, queueVars, IInv, TypeOK
  <2>2. Accounting'
    BY <1>10 DEF vars, queueVars, IInv, Accounting, RoomReserved, SnapshotHolds,
       PositionsAgree, HasRoom, Oldest, StepBack, Taken, InFlight, Masked
  <2>3. QED
    BY <2>1, <2>2 DEF IInv
<1>11. QED
  BY <1>1, <1>2, <1>3, <1>4, <1>5, <1>6, <1>7, <1>8, <1>9, <1>10 DEF Next, ReaderStep

----------------------------------------------------------------------------
(* The theorems.                                                           *)

\* The invariant holds in every reachable state.
LEMMA SpecIInv == Spec => []IInv
<1>1. QED
  BY InitIInv, NextIInv, PTL DEF Spec

\* Type correctness: both positions stay in the ring and theNumberOfBytesQueued between
\* 0 and theQueueSize, whatever the two threads' interleaving.
THEOREM TypeCorrect == Spec => []TypeOK
<1>1. IInv => TypeOK
  BY DEF IInv
<1>2. QED
  BY <1>1, SpecIInv, PTL

\* The byte accounting of the two unsynchronised positions and the atomic counter.
THEOREM AccountingCorrect == Spec => []Accounting
<1>1. IInv => Accounting
  BY DEF IInv
<1>2. QED
  BY <1>1, SpecIInv, PTL

\* Where the reader reads: inside the bytes that are counted.
LEMMA ReaderRegionCounted ==
  ASSUME IInv, NEW c \in ReaderRegion
  PROVE  \E j \in Nat : j < theNumberOfBytesQueued /\ c = Masked(Oldest + j)
<1> DEFINE n == IF reader.pc = "peek" THEN HeaderSize ELSE reader.numBytes
<1>1. /\ reader.pc \in {"peek", "copy"}
      /\ n \in Nat
      /\ Taken \in Nat
      /\ Taken + n <= theNumberOfBytesQueued
  BY IInvFacts DEF IInv, Accounting, SnapshotHolds, Taken, ReaderRegion
<1>2. PICK i \in 0 .. n - 1 : c = Masked(theReadPos + i)
  BY <1>1 DEF ReaderRegion, Region
<1> HIDE DEF n
<1>3. Taken + i \in Nat /\ Taken + i < theNumberOfBytesQueued
  BY <1>1, IInvFacts
<1>4. Oldest \in Cells /\ i \in Nat /\ Taken + i <= QueueSize
  BY <1>1, <1>3, IInvFacts, OldestFacts
<1>5. Masked(Masked(Oldest + Taken) + i) = Masked(Oldest + (Taken + i))
  BY <1>1, <1>4 DEF Masked
<1>6. QED
  BY <1>2, <1>3, <1>5, OldestFacts

\* Where the writer writes: in the free bytes behind them.
LEMMA WriterRegionFree ==
  ASSUME IInv, NEW c \in WriterRegion
  PROVE  \E k \in Nat : /\ theNumberOfBytesQueued <= k
                        /\ k < QueueSize
                        /\ c = Masked(Oldest + k)
<1> DEFINE n == IF writer.pc = "header" THEN HeaderSize ELSE Len(writer.data)
           q == theNumberOfBytesQueued + InFlight
<1>1. /\ writer.pc \in {"header", "data"}
      /\ n \in Nat /\ q \in Nat
      /\ q + n <= QueueSize
      /\ theNumberOfBytesQueued <= q
  BY IInvFacts DEF IInv, Accounting, RoomReserved, HasRoom, InFlight, WriterRegion
<1>2. PICK i \in 0 .. n - 1 : c = Masked(theWritePos + i)
  BY <1>1 DEF WriterRegion, Region
<1>3. theWritePos = Masked(Oldest + q)
  <2>1. Oldest + q = Oldest + theNumberOfBytesQueued + InFlight
    BY IInvFacts, OldestFacts
  <2>2. QED
    BY <2>1 DEF IInv, Accounting, PositionsAgree
<1> HIDE DEF n, q
<1>4. q + i \in Nat /\ q + i < QueueSize /\ theNumberOfBytesQueued <= q + i
  BY <1>1, IInvFacts
<1>5. Oldest \in Cells /\ i \in Nat
  BY <1>1, OldestFacts
<1>6. Masked(Masked(Oldest + q) + i) = Masked(Oldest + (q + i))
  BY <1>1, <1>4, <1>5 DEF Masked
<1>7. QED
  BY <1>2, <1>3, <1>4, <1>6

\* No memcpy of the writer ever overlaps a memcpy of the reader: the queue needs no lock.
THEOREM NoDataRaceTheorem == Spec => []NoDataRace
<1>1. ASSUME IInv PROVE NoDataRace
  <2> SUFFICES ASSUME NEW c \in WriterRegion, c \in ReaderRegion PROVE FALSE
    BY DEF NoDataRace
  <2>1. PICK j \in Nat : j < theNumberOfBytesQueued /\ c = Masked(Oldest + j)
    BY <1>1, ReaderRegionCounted
  <2>2. PICK k \in Nat : /\ theNumberOfBytesQueued <= k /\ k < QueueSize
                         /\ c = Masked(Oldest + k)
    BY <1>1, WriterRegionFree
  <2>3. Oldest \in Cells /\ theNumberOfBytesQueued \in Nat
    BY <1>1, OldestFacts, IInvFacts
  <2>4. QED
    BY <2>1, <2>2, <2>3 DEF Masked
<1>2. QED
  BY <1>1, SpecIInv, PTL

----------------------------------------------------------------------------
(* The byte stream of a sequence of messages.                              *)

\* The streams of the first n messages of p, by recursion over n as PublishedBytes.
StreamsOf(p) == CHOOSE f : f = [n \in 0 .. Len(p) |->
                  IF n = 0 THEN <<>> ELSE f[n - 1] \o FrameBytes(p[n])]
StreamOf(p) == StreamsOf(p)[Len(p)]

\* A frame is a sequence of cell values: the header's, then the payload's.
LEMMA FrameBytesType ==
  ASSUME NEW m \in Messages
  PROVE  /\ FrameBytes(m) \in Seq(CellValue)
         /\ Len(FrameBytes(m)) = HeaderSize + Len(m)
         /\ \A i \in 1 .. HeaderSize : FrameBytes(m)[i] = HeaderBytes(Len(m))[i]
         /\ \A i \in 1 .. Len(m) : FrameBytes(m)[HeaderSize + i] = m[i]
<1>1. m \in Seq(CellValue) /\ Len(m) \in Lengths /\ Len(m) \in Nat
  BY MessageType
<1>2. HeaderBytes(Len(m)) \in Seq(CellValue) /\ Len(HeaderBytes(Len(m))) = HeaderSize
  BY <1>1, HeaderBytesType
<1> DEFINE h == HeaderBytes(Len(m))
<1>3. FrameBytes(m) = h \o m
  BY DEF FrameBytes
<1>4. h \in Seq(CellValue) /\ Len(h) = HeaderSize
  BY <1>2
<1> HIDE DEF h
<1>5. /\ h \o m \in Seq(CellValue)
      /\ Len(h \o m) = Len(h) + Len(m)
      /\ \A i \in 1 .. Len(h) + Len(m) : (h \o m)[i] = IF i <= Len(h) THEN h[i] ELSE m[i - Len(h)]
  BY <1>1, <1>4, ConcatProperties
<1>6. \A i \in 1 .. HeaderSize : (h \o m)[i] = h[i]
  BY <1>1, <1>4, <1>5
<1>7. \A i \in 1 .. Len(m) : (h \o m)[HeaderSize + i] = m[i]
  <2> TAKE i \in 1 .. Len(m)
  <2>1. /\ HeaderSize + i \in 1 .. Len(h) + Len(m)
        /\ ~(HeaderSize + i <= Len(h))
        /\ HeaderSize + i - Len(h) = i
    BY <1>1, <1>4
  <2>2. (h \o m)[HeaderSize + i] = m[HeaderSize + i - Len(h)]
    BY <1>5, <2>1
  <2>3. QED
    BY <2>1, <2>2
<1>8. QED
  BY <1>3, <1>4, <1>5, <1>6, <1>7 DEF h

\* The recursion has a solution, and its values are sequences of cell values.
LEMMA StreamsOfRecursion ==
  ASSUME NEW p \in Seq(Messages)
  PROVE  /\ StreamsOf(p)[0] = <<>>
         /\ \A n \in 1 .. Len(p) :
              StreamsOf(p)[n] = StreamsOf(p)[n - 1] \o FrameBytes(p[n])
         /\ \A n \in 0 .. Len(p) : StreamsOf(p)[n] \in Seq(CellValue)
<1> DEFINE V == Seq(CellValue)
           k == Len(p)
           step == [x \in V \X (1 .. k) |-> x[1] \o FrameBytes(p[x[2]])]
           Rec(f) == [n \in 0 .. k |-> IF n = 0 THEN <<>> ELSE f[n - 1] \o FrameBytes(p[n])]
<1>1. k \in Nat /\ <<>> \in V
  OBVIOUS
<1>2. \A n \in 1 .. k : FrameBytes(p[n]) \in V
  <2> TAKE n \in 1 .. k
  <2>1. p[n] \in Messages
    OBVIOUS
  <2>2. QED
    BY <2>1, FrameBytesType
<1>3. step \in [V \X (1 .. k) -> V]
  <2>1. ASSUME NEW x \in V \X (1 .. k)
        PROVE  x[1] \o FrameBytes(p[x[2]]) \in V
    <3>1. x[1] \in V /\ FrameBytes(p[x[2]]) \in V
      BY <1>2
    <3>2. QED
      BY <3>1, ConcatProperties
  <2>2. QED
    BY <2>1
<1>4. \A s \in V, n \in 1 .. k : step[<<s, n>>] = s \o FrameBytes(p[n])
  OBVIOUS
<1>5. PICK f \in [0 .. k -> V] : IsRecursion(f, k, <<>>, step)
  <2> HIDE DEF step, V, k
  <2>1. QED
    BY <1>1, <1>3, RecursionExists
<1>6. f = Rec(f)
  <2>1. ASSUME NEW n \in 1 .. k
        PROVE  f[n] = f[n - 1] \o FrameBytes(p[n])
    <3>1. n - 1 \in 0 .. k
      BY <1>1
    <3> HIDE DEF step, V, k
    <3>2. f[n - 1] \in V
      BY <1>5, <3>1
    <3>3. step[<<f[n - 1], n>>] = f[n - 1] \o FrameBytes(p[n])
      BY <1>4, <3>2
    <3>4. QED
      BY <1>5, <3>3 DEF IsRecursion
  <2> HIDE DEF step, V
  <2>2. \A n \in 0 .. k : f[n] = Rec(f)[n]
    BY <1>1, <1>5, <2>1 DEF IsRecursion
  <2>3. QED
    BY <1>5, <2>2
<1> DEFINE g == StreamsOf(p)
<1>7. g = Rec(g)
  BY <1>6 DEF StreamsOf
<1> HIDE DEF step, g
<1>8. g[0] = <<>>
  BY <1>1, <1>7
<1>9. ASSUME NEW n \in 1 .. k
      PROVE  g[n] = g[n - 1] \o FrameBytes(p[n])
  <2>1. n \in 0 .. k /\ n # 0
    BY <1>1
  <2> HIDE DEF k
  <2>2. Rec(g)[n] = g[n - 1] \o FrameBytes(p[n])
    BY <2>1
  <2> HIDE DEF Rec
  <2>3. QED
    BY <1>7, <2>2
<1>10. \A n \in 0 .. k : g[n] \in V
  <2> DEFINE S == {n \in 0 .. k : g[n] \in V}
  <2>1. 0 \in S
    <3>1. 0 \in 0 .. k
      BY <1>1
    <3> HIDE DEF V, k
    <3>2. QED
      BY <1>1, <1>8, <3>1
  <2>2. ASSUME NEW n \in 1 .. k, n - 1 \in S
        PROVE  n \in S
    <3>1. g[n - 1] \in V /\ FrameBytes(p[n]) \in V
      BY <1>2, <2>2
    <3>2. g[n - 1] \o FrameBytes(p[n]) \in V
      BY <3>1, ConcatProperties
    <3>3. n \in 0 .. k
      BY <1>1
    <3> HIDE DEF V, k
    <3>4. QED
      BY <1>9, <3>2, <3>3
  <2>3. \A n \in 0 .. k : n \in S
    <3> HIDE DEF S, k
    <3>1. QED
      BY <1>1, <2>1, <2>2, BoundedInduction
  <2>4. QED
    BY <2>3
<1>11. QED
  BY <1>8, <1>9, <1>10 DEF g

\* The stream of no message is empty, and every stream consists of cell values.
LEMMA StreamOfType ==
  /\ StreamOf(<<>>) = <<>>
  /\ \A p \in Seq(Messages) : StreamOf(p) \in Seq(CellValue)
<1>1. StreamOf(<<>>) = <<>>
  <2> DEFINE p == <<>>
  <2>1. p \in Seq(Messages) /\ Len(p) = 0
    OBVIOUS
  <2> HIDE DEF p
  <2>2. StreamsOf(p)[0] = <<>>
    BY <2>1, StreamsOfRecursion
  <2>3. StreamOf(p) = <<>>
    BY <2>1, <2>2 DEF StreamOf
  <2>4. QED
    BY <2>3 DEF p
<1>2. ASSUME NEW p \in Seq(Messages) PROVE StreamOf(p) \in Seq(CellValue)
  <2>1. Len(p) \in 0 .. Len(p)
    OBVIOUS
  <2>2. QED
    BY <2>1, StreamsOfRecursion DEF StreamOf
<1>3. QED
  BY <1>1, <1>2

\* A message put behind the others puts its frame behind their stream.
LEMMA StreamOfAppend ==
  ASSUME NEW p \in Seq(Messages), NEW m \in Messages
  PROVE  StreamOf(Append(p, m)) = StreamOf(p) \o FrameBytes(m)
<1> DEFINE k == Len(p)
           q == Append(p, m)
           f == StreamsOf(p)
           g == StreamsOf(q)
           S == {n \in 0 .. k : g[n] = f[n]}
<1>1. /\ q \in Seq(Messages)
      /\ k \in Nat
      /\ Len(q) = k + 1
      /\ q[k + 1] = m
      /\ \A n \in 1 .. k : q[n] = p[n]
  OBVIOUS
<1> HIDE DEF q
<1>2. /\ f[0] = <<>> /\ g[0] = <<>>
      /\ \A n \in 1 .. k : f[n] = f[n - 1] \o FrameBytes(p[n])
      /\ \A n \in 1 .. k + 1 : g[n] = g[n - 1] \o FrameBytes(q[n])
  BY <1>1, StreamsOfRecursion
<1> HIDE DEF f, g, k
<1>3. 0 \in S
  BY <1>1, <1>2
<1>4. ASSUME NEW n \in 1 .. k, n - 1 \in S
      PROVE  n \in S
  <2>1. n \in 1 .. k + 1 /\ n \in 0 .. k
    BY <1>1
  <2>2. g[n - 1] = f[n - 1] /\ q[n] = p[n]
    BY <1>1, <1>4
  <2>3. g[n] = f[n]
    BY <1>2, <2>1, <2>2
  <2>4. QED
    BY <2>1, <2>3
<1>5. k \in S
  <2> HIDE DEF S
  <2>1. \A n \in 0 .. k : n \in S
    BY <1>1, <1>3, <1>4, BoundedInduction
  <2>2. QED
    BY <1>1, <2>1
<1>6. k + 1 \in 1 .. k + 1 /\ (k + 1) - 1 = k
  BY <1>1
<1>7. g[k + 1] = f[k] \o FrameBytes(m)
  BY <1>1, <1>2, <1>5, <1>6
<1>8. QED
  BY <1>1, <1>7 DEF StreamOf, f, g, k, q

\* The stream begins with the frame of the oldest message; the stream of the others
\* follows.
LEMMA StreamOfFirst ==
  ASSUME NEW p \in Seq(Messages), p # <<>>
  PROVE  StreamOf(p) = FrameBytes(p[1]) \o StreamOf(SubSeq(p, 2, Len(p)))
<1> DEFINE k == Len(p)
           q == SubSeq(p, 2, Len(p))
           first == FrameBytes(p[1])
           f == StreamsOf(p)
           g == StreamsOf(q)
           S == {n \in 0 .. k - 1 : f[n + 1] = first \o g[n]}
<1>1. /\ q \in Seq(Messages)
      /\ k \in Nat \ {0}
      /\ Len(q) = k - 1
      /\ \A n \in 1 .. k - 1 : q[n] = p[n + 1]
      /\ \A n \in 1 .. k : p[n] \in Messages
  <2>1. k \in Nat \ {0} /\ \A n \in 1 .. k : p[n] \in Messages
    OBVIOUS
  <2>2. /\ q \in Seq(Messages)
        /\ Len(q) = IF 2 <= k THEN k - 2 + 1 ELSE 0
        /\ \A n \in 1 .. k - 2 + 1 : q[n] = p[2 + n - 1]
    <3>1. 2 \in Int /\ k \in Int /\ \A n \in 2 .. k : p[n] \in Messages
      BY <2>1
    <3>2. QED
      BY <3>1, SubSeqProperties
  <2> HIDE DEF q, k
  <2>3. QED
    BY <2>1, <2>2
<1>2. first \in Seq(CellValue)
  BY <1>1, FrameBytesType
<1> HIDE DEF q
<1>3. /\ f[0] = <<>> /\ g[0] = <<>>
      /\ \A n \in 1 .. k : f[n] = f[n - 1] \o FrameBytes(p[n])
      /\ \A n \in 1 .. k - 1 : g[n] = g[n - 1] \o FrameBytes(q[n])
      /\ \A n \in 0 .. k - 1 : g[n] \in Seq(CellValue)
  BY <1>1, StreamsOfRecursion
<1> HIDE DEF f, g, k
<1>4. 0 \in S
  <2>1. 1 \in 1 .. k /\ 1 - 1 = 0 /\ 0 \in 0 .. k - 1 /\ 0 + 1 = 1
    BY <1>1
  <2>2. f[1] = <<>> \o first
    BY <1>3, <2>1
  <2> HIDE DEF first
  <2>3. <<>> \o first = first /\ first \o <<>> = first
    BY <1>2, ConcatEmptySeq
  <2>4. QED
    BY <1>3, <2>1, <2>2, <2>3
<1>5. ASSUME NEW n \in 1 .. k - 1, n - 1 \in S
      PROVE  n \in S
  <2>1. /\ n + 1 \in 1 .. k /\ (n + 1) - 1 = n /\ (n - 1) + 1 = n
        /\ n \in 0 .. k - 1 /\ n - 1 \in 0 .. k - 1
    BY <1>1
  <2> DEFINE frame == FrameBytes(p[n + 1])
  <2>2. frame \in Seq(CellValue)
    BY <1>1, <2>1, FrameBytesType
  <2>3. f[n + 1] = f[n] \o frame
    BY <1>3, <2>1
  <2>4. g[n] = g[n - 1] \o frame
    BY <1>1, <1>3
  <2> HIDE DEF frame, first
  <2>5. f[n] = first \o g[n - 1]
    BY <1>5, <2>1
  <2>6. g[n - 1] \in Seq(CellValue)
    BY <1>3, <2>1
  <2>7. (first \o g[n - 1]) \o frame = first \o (g[n - 1] \o frame)
    <3> DEFINE rest == g[n - 1]
    <3>1. first \in Seq(CellValue) /\ rest \in Seq(CellValue) /\ frame \in Seq(CellValue)
      BY <1>2, <2>2, <2>6
    <3> HIDE DEF rest
    <3>2. (first \o rest) \o frame = first \o (rest \o frame)
      BY SMTT(30), <3>1, ConcatAssociative
    <3>3. QED
      BY <3>2 DEF rest
  <2>8. QED
    BY <2>1, <2>3, <2>4, <2>5, <2>7
<1>6. k - 1 \in S
  <2> HIDE DEF S
  <2>1. k - 1 \in Nat
    BY <1>1
  <2>2. \A n \in 0 .. k - 1 : n \in S
    BY <1>4, <1>5, <2>1, BoundedInduction
  <2>3. QED
    BY <2>1, <2>2
<1>7. (k - 1) + 1 = k
  BY <1>1
<1>8. f[k] = first \o g[k - 1]
  BY <1>6, <1>7
<1>9. QED
  BY <1>1, <1>8 DEF StreamOf, f, g, k, q

\* FramesIntact speaks of this stream, also in the next state.
LEMMA FramesIntactOfStream ==
  /\ FramesIntact <=>
       /\ theNumberOfBytesQueued = Len(StreamOf(published))
       /\ \A i \in 1 .. Len(StreamOf(published)) :
            theMessageBuffer[Masked(Oldest + i - 1)] = StreamOf(published)[i]
  /\ FramesIntact' <=>
       /\ theNumberOfBytesQueued' = Len(StreamOf(published'))
       /\ \A i \in 1 .. Len(StreamOf(published')) :
            theMessageBuffer'[Masked(Oldest' + i - 1)] = StreamOf(published')[i]
BY DEF FramesIntact, PublishedBytes, StreamOf, StreamsOf, Masked

----------------------------------------------------------------------------
(* The bytes of the ring.  FramesIntact is not inductive: that a message   *)
(* is whole when Publish counts it depends on what the writer has put      *)
(* behind the counted bytes before, and that Release gives back one whole  *)
(* frame on the length the reader has read.                                *)

\* Behind the counted bytes lies as much of the frame under way as was copied.
InFlightIntact ==
  \A i \in 1 .. InFlight :
    theMessageBuffer[Masked(Oldest + theNumberOfBytesQueued + i - 1)] = FrameBytes(writer.data)[i]

\* The reader is at the oldest message, which is whole and was when the counter was
\* read, and has its length and its bytes as far as it has read them.
ReaderAtFirst ==
  /\ reader.pc # "idle" /\ ReadsMessage(reader.op) => reader.bufSize \in BufSizes
  /\ reader.pc \in {"peek", "copy", "release"} =>
       /\ published # <<>>
       /\ HeaderSize + Len(published[1]) <= reader.numBytesInQ
  /\ reader.pc \in {"copy", "release"} =>
       /\ ReadsMessage(reader.op)
       /\ reader.numBytes = Len(published[1])
       /\ reader.numBytes <= reader.bufSize
  /\ reader.pc = "release" => reader.data = published[1]

StreamInv == FramesIntact /\ InFlightIntact /\ ReaderAtFirst
FInv == IInv /\ StreamInv

\* Copying puts the bytes into the cells from theWritePos on, around the end of the
\* ring, and leaves the others alone.
LEMMA CopyContent ==
  ASSUME NEW bytes \in Seq(CellValue), Len(bytes) <= QueueSize, theWritePos \in Cells,
         CopyDataIntoQueue(bytes)
  PROVE  \A k \in 0 .. QueueSize - 1 :
           theMessageBuffer'[Masked(theWritePos + k)] =
             IF k < Len(bytes) THEN bytes[k + 1] ELSE theMessageBuffer[Masked(theWritePos + k)]
<1> DEFINE n == Len(bytes)
           cell(k) == Masked(theWritePos + k)
<1>1. n \in Nat /\ QueueSize \in Nat /\ theWritePos \in 0 .. QueueSize - 1 /\ n <= QueueSize
  OBVIOUS
<1> SUFFICES ASSUME NEW k \in 0 .. QueueSize - 1
             PROVE  theMessageBuffer'[cell(k)] =
                      IF k < n THEN bytes[k + 1] ELSE theMessageBuffer[cell(k)]
  OBVIOUS
<1>2. /\ cell(k) \in Cells
      /\ cell(k) = IF theWritePos + k >= QueueSize THEN theWritePos + k - QueueSize
                   ELSE theWritePos + k
  BY <1>1 DEF Masked
<1>3. CASE theWritePos + n <= QueueSize
  <2>1. theMessageBuffer' = [c \in Cells |->
           IF c >= theWritePos /\ c < theWritePos + n
           THEN bytes[c - theWritePos + 1] ELSE theMessageBuffer[c]]
    BY <1>3 DEF CopyDataIntoQueue
  <2> HIDE DEF n, cell
  <2>2. theMessageBuffer'[cell(k)] =
           IF cell(k) >= theWritePos /\ cell(k) < theWritePos + n
           THEN bytes[cell(k) - theWritePos + 1] ELSE theMessageBuffer[cell(k)]
    BY <1>2, <2>1
  <2>3. (cell(k) >= theWritePos /\ cell(k) < theWritePos + n) <=> k < n
    BY <1>1, <1>2, <1>3
  <2>4. k < n => cell(k) - theWritePos + 1 = k + 1
    BY <1>1, <1>2, <1>3
  <2>5. QED
    BY <2>2, <2>3, <2>4
<1>4. CASE ~(theWritePos + n <= QueueSize)
  <2> DEFINE part1Size == QueueSize - theWritePos
             part2Size == n - part1Size
  <2>1. theMessageBuffer' = [c \in Cells |->
           IF c >= theWritePos THEN bytes[c - theWritePos + 1]
           ELSE IF c < part2Size THEN bytes[part1Size + c + 1] ELSE theMessageBuffer[c]]
    BY <1>4 DEF CopyDataIntoQueue
  <2>2. part1Size \in Int /\ part2Size \in Int
    BY <1>1
  <2> HIDE DEF n, cell
  <2>3. theMessageBuffer'[cell(k)] =
           IF cell(k) >= theWritePos THEN bytes[cell(k) - theWritePos + 1]
           ELSE IF cell(k) < part2Size THEN bytes[part1Size + cell(k) + 1]
           ELSE theMessageBuffer[cell(k)]
    BY <1>2, <2>1
  <2>4. CASE theWritePos + k >= QueueSize
    <3>1. /\ cell(k) = theWritePos + k - QueueSize
          /\ ~(cell(k) >= theWritePos)
          /\ cell(k) < part2Size <=> k < n
          /\ part1Size + cell(k) + 1 = k + 1
      BY <1>1, <1>2, <2>4
    <3>2. QED
      BY <2>3, <3>1
  <2>5. CASE ~(theWritePos + k >= QueueSize)
    <3>1. /\ cell(k) >= theWritePos /\ k < n
          /\ cell(k) - theWritePos + 1 = k + 1
      BY <1>1, <1>2, <1>4, <2>5
    <3>2. QED
      BY <2>3, <3>1
  <2>6. QED
    BY <2>4, <2>5
<1>5. QED
  BY <1>3, <1>4

\* What is copied out are the cells from theReadPos on, around the end of the ring.
LEMMA DataContent ==
  ASSUME NEW n \in Nat, n <= QueueSize, theReadPos \in Cells
  PROVE  /\ Len(DataInQueue(n)) = n
         /\ DOMAIN DataInQueue(n) = 1 .. n
         /\ \A i \in 1 .. n : DataInQueue(n)[i] = theMessageBuffer[Masked(theReadPos + i - 1)]
<1>1. theReadPos \in 0 .. QueueSize - 1 /\ QueueSize \in Nat
  OBVIOUS
<1>2. Len(DataInQueue(n)) = n /\ DOMAIN DataInQueue(n) = 1 .. n
  BY DEF DataInQueue
<1>3. ASSUME NEW i \in 1 .. n
      PROVE  DataInQueue(n)[i] = theMessageBuffer[Masked(theReadPos + i - 1)]
  <2>1. DataInQueue(n)[i] =
          IF i <= QueueSize - theReadPos THEN theMessageBuffer[theReadPos + i - 1]
          ELSE theMessageBuffer[i - (QueueSize - theReadPos) - 1]
    BY DEF DataInQueue
  <2>2. i <= QueueSize - theReadPos => Masked(theReadPos + i - 1) = theReadPos + i - 1
    BY <1>1 DEF Masked
  <2>3. ~(i <= QueueSize - theReadPos) =>
           Masked(theReadPos + i - 1) = i - (QueueSize - theReadPos) - 1
    BY <1>1 DEF Masked
  <2>4. QED
    BY <2>1, <2>2, <2>3
<1>4. QED
  BY <1>2, <1>3

\* A copy of the writer leaves the counted bytes and those in flight alone and puts its
\* own behind them.
LEMMA CopyBehind ==
  ASSUME IInv, NEW bytes \in Seq(CellValue), CopyDataIntoQueue(bytes),
         theNumberOfBytesQueued + InFlight + Len(bytes) <= QueueSize
  PROVE  \A j \in 0 .. theNumberOfBytesQueued + InFlight + Len(bytes) - 1 :
           theMessageBuffer'[Masked(Oldest + j)] =
             IF j < theNumberOfBytesQueued + InFlight THEN theMessageBuffer[Masked(Oldest + j)]
             ELSE bytes[j - (theNumberOfBytesQueued + InFlight) + 1]
<1> DEFINE u == theNumberOfBytesQueued + InFlight
           n == Len(bytes)
<1>1. /\ u \in Nat /\ n \in Nat /\ u + n <= QueueSize /\ QueueSize \in Nat
      /\ Oldest \in 0 .. QueueSize - 1
      /\ theWritePos \in Cells
  BY SMTT(30), IInvFacts, OldestFacts
<1>2. theWritePos = Masked(Oldest + u)
  <2>1. Oldest + u = Oldest + theNumberOfBytesQueued + InFlight
    BY IInvFacts, OldestFacts
  <2>2. QED
    BY <2>1 DEF IInv, Accounting, PositionsAgree
<1>3. \A k \in 0 .. QueueSize - 1 :
        theMessageBuffer'[Masked(theWritePos + k)] =
          IF k < n THEN bytes[k + 1] ELSE theMessageBuffer[Masked(theWritePos + k)]
  <2>1. n <= QueueSize
    BY <1>1
  <2>2. QED
    BY <1>1, <2>1, CopyContent
<1> HIDE DEF u, n
<1> SUFFICES ASSUME NEW j \in 0 .. u + n - 1
             PROVE  theMessageBuffer'[Masked(Oldest + j)] =
                      IF j < u THEN theMessageBuffer[Masked(Oldest + j)] ELSE bytes[j - u + 1]
  BY DEF u, n
<1>4. CASE j < u
  <2> DEFINE k == j + QueueSize - u
  <2>1. k \in 0 .. QueueSize - 1 /\ ~(k < n)
    BY <1>1, <1>4
  <2>2. Masked(theWritePos + k) = Masked(Oldest + j)
    BY <1>1, <1>2, <1>4 DEF Masked
  <2> HIDE DEF k
  <2>3. QED
    BY <1>3, <1>4, <2>1, <2>2
<1>5. CASE ~(j < u)
  <2> DEFINE k == j - u
  <2>1. k \in 0 .. QueueSize - 1 /\ k < n
    BY <1>1, <1>5
  <2>2. Masked(theWritePos + k) = Masked(Oldest + j)
    BY <1>1, <1>2, <1>5 DEF Masked
  <2>3. k + 1 = j - u + 1
    OBVIOUS
  <2> HIDE DEF k
  <2>4. QED
    BY <1>3, <1>5, <2>1, <2>2, <2>3
<1>6. QED
  BY <1>4, <1>5

\* What the invariant says of the counted bytes.
LEMMA StreamFacts ==
  ASSUME FInv
  PROVE  /\ IInv
         /\ published \in Seq(Messages)
         /\ StreamOf(published) \in Seq(CellValue)
         /\ theNumberOfBytesQueued = Len(StreamOf(published))
         /\ \A i \in 1 .. theNumberOfBytesQueued :
              theMessageBuffer[Masked(Oldest + i - 1)] = StreamOf(published)[i]
<1>1. IInv /\ FramesIntact
  BY DEF FInv, StreamInv
<1>2. published \in Seq(Messages)
  BY <1>1 DEF IInv, TypeOK
<1>3. QED
  BY <1>1, <1>2, StreamOfType, FramesIntactOfStream

\* The oldest message is whole, and its frame is where the counted bytes begin.
LEMMA OldestMessage ==
  ASSUME FInv, published # <<>>
  PROVE  /\ published[1] \in Messages
         /\ Len(published[1]) \in Nat
         /\ HeaderSize + Len(published[1]) <= theNumberOfBytesQueued
         /\ \A i \in 1 .. HeaderSize + Len(published[1]) :
              theMessageBuffer[Masked(Oldest + i - 1)] = FrameBytes(published[1])[i]
<1> DEFINE m == published[1]
           rest == StreamOf(SubSeq(published, 2, Len(published)))
<1>1. published \in Seq(Messages) /\ SubSeq(published, 2, Len(published)) \in Seq(Messages)
  BY StreamFacts
<1>2. m \in Messages
  BY <1>1
<1>3. Len(m) \in Nat
  BY <1>2, MessageType
<1>4. FrameBytes(m) \in Seq(CellValue) /\ Len(FrameBytes(m)) = HeaderSize + Len(m)
  BY <1>2, FrameBytesType
<1>5. rest \in Seq(CellValue)
  BY <1>1, StreamOfType
<1>6. StreamOf(published) = FrameBytes(m) \o rest
  BY <1>1, StreamOfFirst
<1> DEFINE frame == FrameBytes(m)
<1> HIDE DEF rest, frame
<1>7. /\ Len(frame \o rest) = Len(frame) + Len(rest)
      /\ \A i \in 1 .. Len(frame) + Len(rest) :
           (frame \o rest)[i] = IF i <= Len(frame) THEN frame[i] ELSE rest[i - Len(frame)]
  <2>1. frame \in Seq(CellValue)
    BY <1>4 DEF frame
  <2>2. QED
    BY ONLY <1>5, <2>1, ConcatProperties
<1>8. Len(rest) \in Nat /\ Len(frame) = HeaderSize + Len(m)
  BY <1>4, <1>5 DEF frame
<1>9. theNumberOfBytesQueued = HeaderSize + Len(m) + Len(rest)
  BY <1>6, <1>7, <1>8, StreamFacts DEF frame
<1>10. ASSUME NEW i \in 1 .. HeaderSize + Len(m)
       PROVE  theMessageBuffer[Masked(Oldest + i - 1)] = frame[i]
  <2>1. i \in 1 .. theNumberOfBytesQueued /\ i \in 1 .. Len(frame) + Len(rest) /\ i <= Len(frame)
    BY <1>3, <1>8, <1>9
  <2>2. StreamOf(published)[i] = frame[i]
    BY <1>6, <1>7, <2>1 DEF frame
  <2>3. QED
    BY <2>1, <2>2, StreamFacts
<1>11. QED
  BY <1>2, <1>3, <1>8, <1>9, <1>10 DEF frame

\* The counted bytes are nothing exactly when no message is unread.
LEMMA EmptyQueue ==
  ASSUME FInv
  PROVE  published # <<>> <=> theNumberOfBytesQueued >= HeaderSize
<1>1. CASE published = <<>>
  <2>1. theNumberOfBytesQueued = 0
    BY <1>1, StreamFacts, StreamOfType
  <2>2. QED
    BY <1>1, <2>1
<1>2. CASE published # <<>>
  BY <1>2, OldestMessage, StreamFacts, IInvFacts
<1>3. QED
  BY <1>1, <1>2

\* A step that moves neither the ring nor the counter nor the oldest byte keeps the
\* stream.
LEMMA StreamUnmoved ==
  ASSUME FInv, UNCHANGED <<theMessageBuffer, theNumberOfBytesQueued, published>>,
         Oldest' = Oldest, InFlight' = InFlight,
         InFlight = 0 \/ writer'.data = writer.data,
         ReaderAtFirst'
  PROVE  StreamInv'
<1>1. FramesIntact'
  BY FramesIntactOfStream DEF FInv, StreamInv
<1>2. InFlightIntact'
  <2>1. CASE InFlight = 0
    <3>1. 1 .. InFlight' = {}
      BY <2>1
    <3>2. QED
      BY <3>1 DEF InFlightIntact
  <2>2. CASE writer'.data = writer.data
    BY <2>2 DEF FInv, StreamInv, InFlightIntact, Masked
  <2>3. QED
    BY <2>1, <2>2
<1>3. QED
  BY <1>1, <1>2 DEF StreamInv

\* The writer's steps that copy nothing and count nothing.
LEMMA WriterRestsStream ==
  ASSUME FInv, UNCHANGED queueVars, UNCHANGED <<reader, published>>,
         writer.pc \in {"idle", "load"}, writer'.pc \in {"idle", "load", "header"}
  PROVE  StreamInv'
<1>1. Oldest' = Oldest
  BY DEF queueVars, Oldest, StepBack, Taken
<1>2. InFlight = 0 /\ InFlight' = 0
  BY DEF InFlight
<1>3. ReaderAtFirst'
  BY DEF FInv, StreamInv, ReaderAtFirst
<1>4. UNCHANGED <<theMessageBuffer, theNumberOfBytesQueued, published>>
  BY DEF queueVars
<1>5. QED
  BY <1>1, <1>2, <1>3, <1>4, StreamUnmoved

\* A copy of the writer touches no counted byte.
LEMMA CopyKeepsFrames ==
  ASSUME FInv, NEW bytes \in Seq(CellValue), CopyDataIntoQueue(bytes),
         theNumberOfBytesQueued + InFlight + Len(bytes) <= QueueSize,
         UNCHANGED <<theReadPos, theNumberOfBytesQueued, reader, published>>
  PROVE  /\ Oldest' = Oldest
         /\ FramesIntact'
         /\ ReaderAtFirst'
<1>1. Oldest' = Oldest
  BY DEF Oldest, StepBack, Taken
<1>2. ReaderAtFirst'
  BY DEF FInv, StreamInv, ReaderAtFirst
<1> DEFINE q == theNumberOfBytesQueued
<1>3. q \in Nat /\ InFlight \in Nat /\ Len(bytes) \in Nat /\ Oldest \in Nat
  BY StreamFacts, IInvFacts, OldestFacts
<1>4. ASSUME NEW i \in 1 .. q
      PROVE  theMessageBuffer'[Masked(Oldest + i - 1)] = StreamOf(published)[i]
  <2>1. i - 1 \in 0 .. q + InFlight + Len(bytes) - 1 /\ i - 1 < q + InFlight
    BY <1>3
  <2>2. Oldest + (i - 1) = Oldest + i - 1
    BY <1>3
  <2>3. theMessageBuffer'[Masked(Oldest + (i - 1))] = theMessageBuffer[Masked(Oldest + (i - 1))]
    BY <2>1, StreamFacts, CopyBehind
  <2>4. QED
    BY <2>2, <2>3, StreamFacts
<1>5. FramesIntact'
  BY <1>1, <1>4, StreamFacts, FramesIntactOfStream
<1>6. QED
  BY <1>1, <1>2, <1>5

\* The header is in flight.
LEMMA WriteHeaderStream ==
  ASSUME FInv, WriteHeader
  PROVE  StreamInv'
<1> DEFINE h == HeaderBytes(Len(writer.data))
           q == theNumberOfBytesQueued
<1>1. IInv
  BY StreamFacts
<1>2. /\ writer.pc = "header" /\ writer'.pc = "data" /\ writer'.data = writer.data
      /\ CopyDataIntoQueue(h)
      /\ UNCHANGED <<theReadPos, theNumberOfBytesQueued, reader, published>>
  BY <1>1 DEF IInv, TypeOK, WriteHeader
<1>3. writer.data \in Messages
  BY <1>1, <1>2 DEF IInv, TypeOK
<1>4. h \in Seq(CellValue) /\ Len(h) = HeaderSize
  BY <1>1, IInvFacts, HeaderBytesType
<1>5. InFlight = 0 /\ InFlight' = HeaderSize
  BY <1>2 DEF InFlight
<1>6. q + InFlight + Len(h) <= QueueSize
  BY <1>1, <1>2, <1>4, <1>5, IInvFacts DEF IInv, Accounting, RoomReserved, HasRoom
<1>7. Oldest' = Oldest /\ FramesIntact' /\ ReaderAtFirst'
  BY <1>2, <1>4, <1>6, CopyKeepsFrames
<1>8. q \in Nat /\ Oldest \in Nat
  BY <1>1, IInvFacts, OldestFacts
<1>9. \A i \in 1 .. HeaderSize : FrameBytes(writer.data)[i] = h[i]
  BY <1>3, FrameBytesType
<1>10. \A j \in 0 .. q + InFlight + Len(h) - 1 :
         theMessageBuffer'[Masked(Oldest + j)] =
           IF j < q + InFlight THEN theMessageBuffer[Masked(Oldest + j)]
           ELSE h[j - (q + InFlight) + 1]
  BY <1>1, <1>2, <1>4, <1>6, CopyBehind
<1> HIDE DEF h
<1>11. ASSUME NEW i \in 1 .. HeaderSize
       PROVE  theMessageBuffer'[Masked(Oldest + q + i - 1)] = h[i]
  <2> DEFINE j == q + i - 1
  <2>1. /\ j \in 0 .. q + InFlight + Len(h) - 1
        /\ ~(j < q + InFlight)
        /\ j - (q + InFlight) + 1 = i
        /\ Oldest + j = Oldest + q + i - 1
    BY <1>4, <1>5, <1>8
  <2> HIDE DEF j
  <2>2. theMessageBuffer'[Masked(Oldest + j)] = h[i]
    BY <1>10, <2>1
  <2>3. QED
    BY <2>1, <2>2
<1>12. InFlightIntact'
  BY <1>2, <1>5, <1>7, <1>9, <1>11 DEF InFlightIntact, Masked
<1>13. QED
  BY <1>7, <1>12 DEF StreamInv

\* The payload follows it: the whole frame is in flight.
LEMMA WriteDataStream ==
  ASSUME FInv, WriteData
  PROVE  StreamInv'
<1> DEFINE m == writer.data
           q == theNumberOfBytesQueued
<1>1. IInv
  BY StreamFacts
<1>2. /\ writer.pc = "data" /\ writer'.pc = "publish" /\ writer'.data = m
      /\ CopyDataIntoQueue(m)
      /\ UNCHANGED <<theReadPos, theNumberOfBytesQueued, reader, published>>
  BY <1>1 DEF IInv, TypeOK, WriteData
<1>3. m \in Messages
  BY <1>1, <1>2 DEF IInv, TypeOK
<1>4. m \in Seq(CellValue) /\ Len(m) \in Nat
  BY <1>3, MessageType
<1>5. InFlight = HeaderSize /\ InFlight' = HeaderSize + Len(m)
  BY <1>2 DEF InFlight
<1>6. q + InFlight + Len(m) <= QueueSize
  BY <1>1, <1>2, <1>5, IInvFacts DEF IInv, Accounting, RoomReserved, HasRoom
<1>7. Oldest' = Oldest /\ FramesIntact' /\ ReaderAtFirst'
  BY <1>2, <1>4, <1>6, CopyKeepsFrames
<1>8. q \in Nat /\ Oldest \in Nat
  BY <1>1, IInvFacts, OldestFacts
<1>9. \A i \in 1 .. Len(m) : FrameBytes(m)[HeaderSize + i] = m[i]
  BY <1>3, FrameBytesType
<1>10. \A j \in 0 .. q + InFlight + Len(m) - 1 :
         theMessageBuffer'[Masked(Oldest + j)] =
           IF j < q + InFlight THEN theMessageBuffer[Masked(Oldest + j)]
           ELSE m[j - (q + InFlight) + 1]
  BY <1>1, <1>2, <1>4, <1>6, CopyBehind
<1>11. \A i \in 1 .. HeaderSize :
         theMessageBuffer[Masked(Oldest + q + i - 1)] = FrameBytes(m)[i]
  BY <1>5 DEF FInv, StreamInv, InFlightIntact
<1> HIDE DEF m
<1>12. ASSUME NEW i \in 1 .. HeaderSize + Len(m)
       PROVE  theMessageBuffer'[Masked(Oldest + q + i - 1)] = FrameBytes(m)[i]
  <2> DEFINE j == q + i - 1
  <2>1. /\ j \in 0 .. q + InFlight + Len(m) - 1
        /\ Oldest + j = Oldest + q + i - 1
    BY <1>4, <1>5, <1>8
  <2>2. CASE i <= HeaderSize
    <3>1. j < q + InFlight /\ i \in 1 .. HeaderSize
      BY <1>5, <1>8, <2>2
    <3> HIDE DEF j
    <3>2. theMessageBuffer'[Masked(Oldest + j)] = theMessageBuffer[Masked(Oldest + j)]
      BY <1>10, <2>1, <3>1
    <3>3. QED
      BY <1>11, <2>1, <3>1, <3>2
  <2>3. CASE ~(i <= HeaderSize)
    <3>1. /\ ~(j < q + InFlight)
          /\ j - (q + InFlight) + 1 = i - HeaderSize
          /\ i - HeaderSize \in 1 .. Len(m)
          /\ HeaderSize + (i - HeaderSize) = i
      BY <1>4, <1>5, <1>8, <2>3
    <3> HIDE DEF j
    <3>2. theMessageBuffer'[Masked(Oldest + j)] = m[i - HeaderSize]
      BY <1>10, <2>1, <3>1
    <3>3. FrameBytes(m)[HeaderSize + (i - HeaderSize)] = m[i - HeaderSize]
      BY <1>9, <3>1 DEF m
    <3>4. QED
      BY <2>1, <3>1, <3>2, <3>3
  <2>4. QED
    BY <2>2, <2>3
<1>13. InFlightIntact'
  BY <1>2, <1>5, <1>7, <1>12 DEF InFlightIntact, Masked, m
<1>14. QED
  BY <1>7, <1>13 DEF StreamInv

\* Publish counts a whole frame: the stream grows by it.
LEMMA PublishStream ==
  ASSUME FInv, Publish
  PROVE  StreamInv'
<1> DEFINE m == writer.data
           q == theNumberOfBytesQueued
           n == HeaderSize + Len(m)
<1>1. IInv
  BY StreamFacts
<1>2. /\ writer.pc = "publish" /\ writer'.pc = "idle"
      /\ UNCHANGED <<theMessageBuffer, theWritePos, theReadPos, reader>>
      /\ theNumberOfBytesQueued' = theNumberOfBytesQueued + HeaderSize + Len(m)
      /\ published' = Append(published, m)
  BY DEF Publish, WriterIdle
<1>3. m \in Messages /\ Len(m) \in Nat
  BY <1>1, <1>2, IInvFacts DEF IInv, TypeOK
<1>4. InFlight = n /\ InFlight' = 0 /\ Oldest' = Oldest
  BY <1>2 DEF InFlight, Oldest, StepBack, Taken
<1>5. q \in Nat /\ n \in Nat /\ Oldest \in Nat
  BY <1>1, <1>3, IInvFacts, OldestFacts
<1> DEFINE frame == FrameBytes(m)
           stream == StreamOf(published)
<1>6. /\ frame \in Seq(CellValue) /\ Len(frame) = n
      /\ stream \in Seq(CellValue) /\ Len(stream) = q
      /\ \A i \in 1 .. q : theMessageBuffer[Masked(Oldest + i - 1)] = stream[i]
      /\ StreamOf(published') = stream \o frame
  BY <1>2, <1>3, FrameBytesType, StreamFacts, StreamOfAppend
<1>7. \A i \in 1 .. n : theMessageBuffer[Masked(Oldest + q + i - 1)] = frame[i]
  BY <1>4 DEF FInv, StreamInv, InFlightIntact
<1>8. theNumberOfBytesQueued' = q + n
  <2>1. theNumberOfBytesQueued' = q + HeaderSize + Len(m)
    BY <1>2
  <2> HIDE DEF m, q
  <2>2. q \in Nat /\ HeaderSize \in Nat /\ Len(m) \in Nat
    BY <1>3, <1>5
  <2>3. QED
    BY <2>1, <2>2
<1> HIDE DEF frame, stream, n, q
<1>9. /\ Len(stream \o frame) = q + n
      /\ \A i \in 1 .. q + n : (stream \o frame)[i] = IF i <= q THEN stream[i] ELSE frame[i - q]
  BY <1>6, ConcatProperties
<1>10. ASSUME NEW i \in 1 .. q + n
       PROVE  theMessageBuffer[Masked(Oldest + i - 1)] = (stream \o frame)[i]
  <2>1. CASE i <= q
    <3>1. i \in 1 .. q
      BY <1>5, <2>1
    <3>2. QED
      BY <1>6, <1>9, <2>1, <3>1
  <2>2. CASE ~(i <= q)
    <3>1. i - q \in 1 .. n /\ Oldest + q + (i - q) - 1 = Oldest + i - 1
      BY <1>5, <2>2
    <3>2. theMessageBuffer[Masked(Oldest + q + (i - q) - 1)] = frame[i - q]
      BY <1>7, <3>1
    <3>3. QED
      BY <1>9, <2>2, <3>1, <3>2
  <2>3. QED
    BY <2>1, <2>2
<1>11. FramesIntact'
  BY <1>2, <1>4, <1>6, <1>8, <1>9, <1>10, FramesIntactOfStream
<1>12. InFlightIntact'
  <2>1. 1 .. InFlight' = {}
    BY <1>4
  <2>2. QED
    BY <2>1 DEF InFlightIntact
<1>13. ReaderAtFirst'
  <2>1. published # <<>> => published' # <<>> /\ published'[1] = published[1]
    BY <1>2, <1>3, StreamFacts
  <2>2. QED
    BY <1>2, <2>1 DEF FInv, StreamInv, ReaderAtFirst
<1>14. QED
  BY <1>11, <1>12, <1>13 DEF StreamInv

\* A length that was stored is read back as it was.
LEMMA LengthReadBack ==
  ASSUME NEW k \in Lengths, NEW n \in LengthIn(HeaderBytes(k))
  PROVE  n = k
<1>1. HeaderBytes(k) = HeaderBytes(n)
  BY DEF LengthIn
<1>2. 1 \in 1 .. HeaderSize
  OBVIOUS
<1>3. HeaderBytes(k)[1] = LengthByte(k, 1) /\ HeaderBytes(n)[1] = LengthByte(n, 1)
  BY <1>2 DEF HeaderBytes
<1>4. LengthByte(k, 1) = LengthByte(n, 1)
  BY <1>1, <1>3
<1>5. QED
  BY <1>4 DEF LengthByte

\* The length the reader copies out is that of the oldest message.
LEMMA HeaderRead ==
  ASSUME FInv, reader.pc = "peek", NEW n \in LengthIn(DataInQueue(HeaderSize))
  PROVE  n = Len(published[1])
<1> DEFINE m == published[1]
           h == HeaderBytes(Len(m))
           bytes == DataInQueue(HeaderSize)
<1>1. IInv /\ published # <<>>
  BY StreamFacts DEF FInv, StreamInv, ReaderAtFirst
<1>2. /\ m \in Messages /\ Len(m) \in Nat
      /\ \A i \in 1 .. HeaderSize + Len(m) :
           theMessageBuffer[Masked(Oldest + i - 1)] = FrameBytes(m)[i]
  BY <1>1, OldestMessage
<1>3. \A i \in 1 .. HeaderSize : FrameBytes(m)[i] = h[i]
  BY <1>2, FrameBytesType
<1>4. theReadPos \in Cells /\ Oldest = theReadPos
  BY <1>1, IInvFacts DEF Oldest, StepBack, Taken
<1>5. /\ DOMAIN bytes = 1 .. HeaderSize
      /\ \A i \in 1 .. HeaderSize : bytes[i] = theMessageBuffer[Masked(theReadPos + i - 1)]
      /\ Len(bytes) = HeaderSize
  BY <1>4, DataContent
<1>6. Len(m) \in Lengths
  BY <1>2, MessageType
<1>7. h \in Seq(CellValue) /\ Len(h) = HeaderSize
  BY <1>6, HeaderBytesType
<1>8. bytes \in Seq(CellValue)
  BY <1>1, <1>4, DataInQueueType DEF IInv, TypeOK
<1> HIDE DEF m, h, bytes
<1>9. \A i \in 1 .. HeaderSize : bytes[i] = h[i]
  <2> TAKE i \in 1 .. HeaderSize
  <2>1. i \in 1 .. HeaderSize + Len(m)
    BY <1>2
  <2>2. QED
    BY <1>2, <1>3, <1>4, <1>5, <2>1
<1>10. bytes = h
  BY <1>5, <1>7, <1>8, <1>9, SeqEqual
<1>11. n \in LengthIn(h)
  BY <1>10 DEF bytes
<1> DEFINE k == Len(m)
<1> HIDE DEF k
<1>12. k \in Lengths /\ n \in LengthIn(HeaderBytes(k))
  BY <1>6, <1>11 DEF h, k
<1>13. n = k
  BY <1>12, LengthReadBack
<1>14. QED
  BY <1>13 DEF k, m

\* A read is called.
LEMMA CallReadStream ==
  ASSUME FInv, NEW op \in ReadOps, NEW bufSize \in BufSizes, CallRead(op, bufSize)
  PROVE  StreamInv'
<1>1. /\ reader.pc = "idle" /\ reader'.pc = "load"
      /\ UNCHANGED <<queueVars, writer, published>>
      /\ ReadsMessage(reader'.op) => reader'.bufSize \in BufSizes
  BY DEF CallRead, ReaderIdle
<1>2. Oldest' = Oldest /\ InFlight' = InFlight
  BY <1>1 DEF queueVars, Oldest, StepBack, Taken, InFlight
<1>3. ReaderAtFirst'
  BY <1>1 DEF ReaderAtFirst
<1>4. UNCHANGED <<theMessageBuffer, theNumberOfBytesQueued, published>> /\ writer'.data = writer.data
  BY <1>1 DEF queueVars
<1>5. QED
  BY <1>2, <1>3, <1>4, StreamUnmoved

\* The counter says that a message is there, and then it is whole.
LEMMA FindMessageStream ==
  ASSUME FInv, FindMessage
  PROVE  StreamInv'
<1>1. IInv
  BY StreamFacts
<1>2. /\ reader.pc = "load" /\ theNumberOfBytesQueued >= HeaderSize
      /\ reader'.pc = "peek" /\ reader'.op = reader.op /\ reader'.bufSize = reader.bufSize
      /\ reader'.numBytesInQ = theNumberOfBytesQueued
      /\ UNCHANGED <<queueVars, writer, published>>
  BY <1>1 DEF IInv, TypeOK, FindMessage
<1>3. Oldest' = Oldest /\ InFlight' = InFlight
  BY <1>2 DEF queueVars, Oldest, StepBack, Taken, InFlight
<1>4. ReaderAtFirst'
  <2>1. published # <<>>
    BY <1>2, EmptyQueue
  <2>2. HeaderSize + Len(published[1]) <= theNumberOfBytesQueued
    BY <2>1, OldestMessage
  <2>3. ReadsMessage(reader.op) => reader.bufSize \in BufSizes
    BY <1>2 DEF FInv, StreamInv, ReaderAtFirst
  <2>4. QED
    BY <1>2, <2>1, <2>2, <2>3 DEF ReaderAtFirst
<1>5. UNCHANGED <<theMessageBuffer, theNumberOfBytesQueued, published>> /\ writer'.data = writer.data
  BY <1>2 DEF queueVars
<1>6. QED
  BY <1>3, <1>4, <1>5, StreamUnmoved

\* The reader returns without having taken anything.
LEMMA ReturnsStream ==
  ASSUME FInv, UNCHANGED queueVars, UNCHANGED <<writer, published>>,
         reader' = ReaderIdle, reader.pc \in {"idle", "load", "peek"}
  PROVE  StreamInv'
<1>1. reader'.pc = "idle"
  BY DEF ReaderIdle
<1>2. Oldest' = Oldest /\ InFlight' = InFlight
  BY <1>1 DEF queueVars, Oldest, StepBack, Taken, InFlight
<1>3. ReaderAtFirst'
  BY <1>1 DEF ReaderAtFirst
<1>4. UNCHANGED <<theMessageBuffer, theNumberOfBytesQueued, published>> /\ writer'.data = writer.data
  BY DEF queueVars
<1>5. QED
  BY <1>2, <1>3, <1>4, StreamUnmoved

\* readMessage either tells the size of a message that the buffer is too small for, or
\* consumes its header: the payload is there whenever the header is.
LEMMA ReadHeaderCases ==
  ASSUME FInv, ReadHeader
  PROVE  /\ reader.pc = "peek" /\ ReadsMessage(reader.op)
         /\ UNCHANGED <<theMessageBuffer, theWritePos, theNumberOfBytesQueued, writer, published>>
         /\ \/ /\ Len(published[1]) > reader.bufSize
               /\ Returns(FALSE, Len(published[1]), <<>>)
               /\ UNCHANGED queueVars
            \/ /\ Len(published[1]) <= reader.bufSize
               /\ theReadPos' = Masked(theReadPos + HeaderSize)
               /\ reader' = [reader EXCEPT !.pc = "copy", !.numBytes = Len(published[1])]
               /\ UNCHANGED outcome
<1> DEFINE m == published[1]
<1>1. /\ reader.pc = "peek" /\ ReadsMessage(reader.op)
      /\ UNCHANGED <<theMessageBuffer, theWritePos, theNumberOfBytesQueued, writer, published>>
  BY DEF ReadHeader
<1>2. PICK n \in LengthIn(DataInQueue(HeaderSize)) :
        IF ~(n <= reader.bufSize /\ n + HeaderSize <= reader.numBytesInQ)
        THEN /\ Returns(FALSE, IF n <= reader.bufSize /\ reader.op = "tryReadMessage"
                               THEN -1 ELSE n, <<>>)
             /\ UNCHANGED theReadPos
        ELSE /\ theReadPos' = Masked(theReadPos + HeaderSize)
             /\ reader' = [reader EXCEPT !.pc = "copy", !.numBytes = n]
             /\ UNCHANGED outcome
  BY DEF ReadHeader
<1>3. n = Len(m)
  BY <1>1, HeaderRead
<1>4. published # <<>> /\ HeaderSize + Len(m) <= reader.numBytesInQ
  BY <1>1 DEF FInv, StreamInv, ReaderAtFirst
<1>5. Len(m) \in Nat
  BY <1>4, OldestMessage
<1>6. reader.bufSize \in Nat /\ reader.numBytesInQ \in Nat
  BY StreamFacts DEF IInv, TypeOK
<1> HIDE DEF m
<1>7. n + HeaderSize <= reader.numBytesInQ
  BY <1>3, <1>4, <1>5
<1>8. CASE n <= reader.bufSize
  BY <1>1, <1>2, <1>3, <1>7, <1>8 DEF m
<1>9. CASE ~(n <= reader.bufSize)
  <2>1. n > reader.bufSize
    BY <1>3, <1>5, <1>6, <1>9
  <2>2. Returns(FALSE, n, <<>>) /\ UNCHANGED theReadPos
    BY <1>2, <1>9
  <2>3. QED
    BY <1>1, <1>3, <2>1, <2>2 DEF m, queueVars
<1>10. QED
  BY <1>8, <1>9

\* Consuming the header moves theReadPos, but gives nothing back.
LEMMA ReadHeaderStream ==
  ASSUME FInv, ReadHeader
  PROVE  StreamInv'
<1>1. /\ reader.pc = "peek" /\ ReadsMessage(reader.op)
      /\ UNCHANGED <<theMessageBuffer, theWritePos, theNumberOfBytesQueued, writer, published>>
  BY ReadHeaderCases
<1>2. CASE Returns(FALSE, Len(published[1]), <<>>) /\ UNCHANGED queueVars
  BY <1>1, <1>2, ReturnsStream DEF Returns
<1>3. CASE /\ Len(published[1]) <= reader.bufSize
           /\ theReadPos' = Masked(theReadPos + HeaderSize)
           /\ reader' = [reader EXCEPT !.pc = "copy", !.numBytes = Len(published[1])]
  <2>1. /\ reader'.pc = "copy" /\ reader'.numBytes = Len(published[1])
        /\ reader'.op = reader.op /\ reader'.bufSize = reader.bufSize
        /\ reader'.numBytesInQ = reader.numBytesInQ
    BY <1>3, StreamFacts DEF IInv, TypeOK
  <2>2. Taken = 0 /\ Taken' = HeaderSize
    BY <1>1, <2>1 DEF Taken
  <2>3. Oldest' = Oldest
    <3>1. StepBack(Masked(theReadPos + HeaderSize), 0 + HeaderSize) = StepBack(theReadPos, 0)
      BY StreamFacts, IInvFacts, StepBackAdvances
    <3>2. QED
      BY <1>3, <2>2, <3>1 DEF Oldest
  <2>4. InFlight' = InFlight /\ writer'.data = writer.data
    BY <1>1 DEF InFlight
  <2>5. ReaderAtFirst'
    BY <1>1, <1>3, <2>1 DEF FInv, StreamInv, ReaderAtFirst
  <2>6. QED
    BY <1>1, <2>3, <2>4, <2>5, StreamUnmoved
<1>4. QED
  BY <1>2, <1>3, ReadHeaderCases

\* What the reader copies out is the oldest message.
LEMMA DataRead ==
  ASSUME FInv, reader.pc = "copy"
  PROVE  DataInQueue(reader.numBytes) = published[1]
<1> DEFINE m == published[1]
           bytes == DataInQueue(Len(m))
<1>1. published # <<>> /\ reader.numBytes = Len(m) /\ IInv
  BY StreamFacts DEF FInv, StreamInv, ReaderAtFirst
<1>2. /\ m \in Messages /\ Len(m) \in Nat
      /\ HeaderSize + Len(m) <= theNumberOfBytesQueued
      /\ \A i \in 1 .. HeaderSize + Len(m) :
           theMessageBuffer[Masked(Oldest + i - 1)] = FrameBytes(m)[i]
  BY <1>1, OldestMessage
<1>3. \A i \in 1 .. Len(m) : FrameBytes(m)[HeaderSize + i] = m[i]
  BY <1>2, FrameBytesType
<1>4. /\ theReadPos \in Cells /\ Oldest \in Cells
      /\ theReadPos = Masked(Oldest + HeaderSize)
      /\ Len(m) <= QueueSize
      /\ HeaderSize + Len(m) <= QueueSize
  BY SMTT(30), <1>1, <1>2, IInvFacts, OldestFacts DEF Taken
<1>5. /\ Len(bytes) = Len(m)
      /\ \A i \in 1 .. Len(m) : bytes[i] = theMessageBuffer[Masked(theReadPos + i - 1)]
  BY <1>2, <1>4, DataContent
<1>6. bytes \in Seq(CellValue)
  BY <1>1, <1>2, <1>4, DataInQueueType DEF IInv, TypeOK
<1>7. m \in Seq(CellValue)
  BY <1>2, MessageType
<1> HIDE DEF m, bytes
<1>8. ASSUME NEW i \in 1 .. Len(m)
      PROVE  bytes[i] = m[i]
  <2>1. HeaderSize + i \in 1 .. HeaderSize + Len(m)
    BY <1>2
  <2>2. Masked(theReadPos + i - 1) = Masked(Oldest + (HeaderSize + i) - 1)
    BY <1>2, <1>4 DEF Masked
  <2>3. theMessageBuffer[Masked(Oldest + (HeaderSize + i) - 1)] = FrameBytes(m)[HeaderSize + i]
    BY <1>2, <2>1
  <2>4. QED
    BY <1>3, <1>5, <2>2, <2>3
<1>9. bytes = m
  BY <1>5, <1>6, <1>7, <1>8, SeqEqual
<1>10. QED
  BY <1>1, <1>9 DEF m, bytes

\* The payload is copied, but not given back.
LEMMA ReadDataStream ==
  ASSUME FInv, ReadData
  PROVE  StreamInv'
<1> DEFINE n == reader.numBytes
<1>1. /\ reader.pc = "copy"
      /\ UNCHANGED <<theMessageBuffer, theWritePos, theNumberOfBytesQueued, writer, published>>
      /\ theReadPos' = Masked(theReadPos + n)
  BY DEF ReadData
<1>2. IInv
  BY StreamFacts
<1>3. /\ reader'.pc = "release" /\ reader'.data = DataInQueue(n)
      /\ reader'.numBytes = n /\ reader'.op = reader.op /\ reader'.bufSize = reader.bufSize
      /\ reader'.numBytesInQ = reader.numBytesInQ
  BY <1>2 DEF ReadData, IInv, TypeOK
<1>4. DataInQueue(n) = published[1]
  BY <1>1, DataRead
<1>5. Taken = HeaderSize /\ Taken' = HeaderSize + n
  BY <1>1, <1>3 DEF Taken
<1>6. Oldest' = Oldest
  <2>1. HeaderSize + n <= QueueSize
    BY <1>1, <1>2, IInvFacts DEF IInv, Accounting, SnapshotHolds
  <2>2. StepBack(Masked(theReadPos + n), HeaderSize + n) = StepBack(theReadPos, HeaderSize)
    BY <1>2, <2>1, IInvFacts, StepBackAdvances
  <2>3. QED
    BY <1>1, <1>5, <2>2 DEF Oldest
<1>7. InFlight' = InFlight /\ writer'.data = writer.data
  BY <1>1 DEF InFlight
<1>8. ReaderAtFirst'
  BY <1>1, <1>3, <1>4 DEF FInv, StreamInv, ReaderAtFirst
<1>9. QED
  BY <1>1, <1>6, <1>7, <1>8, StreamUnmoved

\* Release gives back the whole frame of the oldest message and nothing more.
LEMMA ReleaseStream ==
  ASSUME FInv, Release
  PROVE  StreamInv'
<1> DEFINE m == published[1]
           n == HeaderSize + Len(m)
           q == theNumberOfBytesQueued
           rest == StreamOf(SubSeq(published, 2, Len(published)))
           frame == FrameBytes(m)
           stream == StreamOf(published)
<1>1. IInv
  BY StreamFacts
<1>2. /\ reader.pc = "release" /\ reader'.pc = "idle"
      /\ UNCHANGED <<theMessageBuffer, theWritePos, theReadPos, writer>>
      /\ theNumberOfBytesQueued' = q - (HeaderSize + reader.numBytes)
      /\ published' = SubSeq(published, 2, Len(published))
  BY DEF Release, Returns, ReaderIdle
<1>3. published # <<>> /\ reader.numBytes = Len(m)
  BY <1>2 DEF FInv, StreamInv, ReaderAtFirst
<1>4. m \in Messages /\ Len(m) \in Nat /\ n \in Nat /\ n <= q
  BY <1>3, OldestMessage
<1>5. published \in Seq(Messages) /\ published' \in Seq(Messages)
  BY <1>2, StreamFacts
<1>6. /\ rest \in Seq(CellValue) /\ frame \in Seq(CellValue) /\ Len(frame) = n
      /\ stream = frame \o rest
      /\ StreamOf(published') = rest
  BY <1>2, <1>3, <1>4, <1>5, StreamOfType, StreamOfFirst, FrameBytesType
<1>7. /\ q = Len(stream)
      /\ \A i \in 1 .. q : theMessageBuffer[Masked(Oldest + i - 1)] = stream[i]
  BY StreamFacts
<1>8. theNumberOfBytesQueued' = q - n
  BY <1>2, <1>3
<1>9. q \in Nat /\ q <= QueueSize /\ Oldest \in Cells
  BY <1>1, IInvFacts, OldestFacts
<1>10. Oldest' = theReadPos /\ theReadPos = Masked(Oldest + n)
  BY <1>1, <1>2, <1>3, OldestFacts, IInvFacts DEF Oldest, StepBack, Taken
<1>11. InFlight' = InFlight /\ writer' = writer /\ InFlight \in Nat /\ q + InFlight <= QueueSize
  <2>1. InFlight' = InFlight
    BY <1>2 DEF InFlight
  <2>2. InFlight \in Nat /\ q + InFlight <= QueueSize
    BY <1>1, IInvFacts DEF IInv, Accounting, RoomReserved, HasRoom, InFlight
  <2>3. QED
    BY <1>2, <2>1, <2>2
<1>12. InFlightIntact
  BY DEF FInv, StreamInv
<1> HIDE DEF rest, frame, stream, n, q
<1>13. /\ q = n + Len(rest)
       /\ Len(rest) \in Nat
       /\ \A i \in 1 .. n + Len(rest) : stream[i] = IF i <= n THEN frame[i] ELSE rest[i - n]
  <2>1. /\ Len(frame \o rest) = Len(frame) + Len(rest)
        /\ \A i \in 1 .. Len(frame) + Len(rest) :
             (frame \o rest)[i] = IF i <= Len(frame) THEN frame[i] ELSE rest[i - Len(frame)]
    BY <1>6, ConcatProperties
  <2>2. Len(rest) \in Nat
    BY <1>6
  <2>3. QED
    BY <1>6, <1>7, <2>1, <2>2
<1>14. ASSUME NEW i \in 1 .. Len(rest)
       PROVE  theMessageBuffer[Masked(theReadPos + i - 1)] = rest[i]
  <2>1. n + i \in 1 .. q /\ n + i \in 1 .. n + Len(rest) /\ ~(n + i <= n) /\ n + i - n = i
    BY <1>4, <1>13
  <2>2. Masked(theReadPos + i - 1) = Masked(Oldest + (n + i) - 1)
    BY <1>4, <1>9, <1>10, <1>13 DEF Masked
  <2>3. stream[n + i] = rest[i]
    <3> DEFINE j == n + i
    <3>1. j \in 1 .. n + Len(rest) /\ ~(j <= n) /\ j - n = i
      BY <1>4, <1>13
    <3> HIDE DEF j
    <3>2. stream[j] = rest[i]
      BY <1>13, <3>1
    <3>3. QED
      BY <3>2 DEF j
  <2>4. QED
    BY <1>7, <2>1, <2>2, <2>3
<1>15. FramesIntact'
  <2>1. theNumberOfBytesQueued' = Len(rest)
    BY <1>4, <1>8, <1>13
  <2>2. QED
    BY <1>2, <1>6, <1>10, <1>14, <2>1, FramesIntactOfStream
<1>16. InFlightIntact'
  <2>1. ASSUME NEW i \in 1 .. InFlight
        PROVE  theMessageBuffer[Masked(theReadPos + (q - n) + i - 1)] = FrameBytes(writer.data)[i]
    <3>1. Masked(theReadPos + (q - n) + i - 1) = Masked(Oldest + q + i - 1)
      BY <1>4, <1>9, <1>10, <1>11 DEF Masked
    <3>2. QED
      BY <1>12, <3>1 DEF InFlightIntact, q
  <2>2. QED
    BY <1>2, <1>8, <1>10, <1>11, <2>1 DEF InFlightIntact, Masked
<1>17. ReaderAtFirst'
  BY <1>2 DEF ReaderAtFirst
<1>18. QED
  BY <1>15, <1>16, <1>17 DEF StreamInv

\* Every step of either thread keeps the stream.
LEMMA NextFInv == FInv /\ [Next]_vars => FInv'
<1> SUFFICES ASSUME FInv, [Next]_vars PROVE FInv'
  OBVIOUS
<1>1. IInv'
  BY StreamFacts, NextIInv
<1> SUFFICES StreamInv'
  BY <1>1 DEF FInv
<1>2. ASSUME NEW op \in WriteOps, NEW m \in Messages, CallWrite(op, m)
      PROVE  StreamInv'
  <2>1. /\ UNCHANGED <<queueVars, reader, published>> /\ writer.pc = "idle"
        /\ UNCHANGED writer \/ writer' = [pc |-> "load", op |-> op, data |-> m]
    BY <1>2 DEF CallWrite
  <2>2. writer'.pc \in {"idle", "load"}
    BY <2>1
  <2>3. QED
    BY <2>1, <2>2, WriterRestsStream
<1>3. CASE FindRoom
  <2>1. /\ UNCHANGED <<queueVars, reader, published>>
        /\ writer.pc = "load" /\ writer'.pc = "header"
    BY <1>3, StreamFacts DEF FindRoom, IInv, TypeOK
  <2>2. QED
    BY <2>1, WriterRestsStream
<1>4. CASE FindNoRoom
  <2>1. /\ UNCHANGED <<queueVars, reader, published>>
        /\ writer.pc = "load" /\ writer'.pc = "idle"
    BY <1>4 DEF FindNoRoom, WriterIdle
  <2>2. QED
    BY <2>1, WriterRestsStream
<1>5. CASE WriteHeader
  BY <1>5, WriteHeaderStream
<1>6. CASE WriteData
  BY <1>6, WriteDataStream
<1>7. CASE Publish
  BY <1>7, PublishStream
<1>8. ASSUME NEW op \in ReadOps, NEW bufSize \in BufSizes, CallRead(op, bufSize)
      PROVE  StreamInv'
  BY <1>8, CallReadStream
<1>9. CASE FindMessage
  BY <1>9, FindMessageStream
<1>10. CASE FindNothing \/ PeekSize
  <2>1. /\ UNCHANGED queueVars /\ UNCHANGED <<writer, published>>
        /\ reader' = ReaderIdle /\ reader.pc \in {"load", "peek"}
    BY <1>10 DEF FindNothing, PeekSize, Returns
  <2>2. QED
    BY <2>1, ReturnsStream
<1>11. CASE ReadHeader
  BY <1>11, ReadHeaderStream
<1>12. CASE ReadData
  BY <1>12, ReadDataStream
<1>13. CASE Release
  BY <1>13, ReleaseStream
<1>14. CASE UNCHANGED vars
  <2>1. /\ UNCHANGED <<theMessageBuffer, theNumberOfBytesQueued, published, writer, reader>>
        /\ Oldest' = Oldest /\ InFlight' = InFlight
    BY <1>14 DEF vars, queueVars, Oldest, StepBack, Taken, InFlight
  <2>2. ReaderAtFirst'
    BY <2>1 DEF FInv, StreamInv, ReaderAtFirst
  <2>3. QED
    BY <2>1, <2>2, StreamUnmoved
<1>15. QED
  BY <1>2, <1>3, <1>4, <1>5, <1>6, <1>7, <1>8, <1>9, <1>10, <1>11, <1>12, <1>13, <1>14
     DEF Next, WriterStep, ReaderStep

\* No message is there at first, and none under way.
LEMMA InitFInv == Init => FInv
<1> SUFFICES ASSUME Init PROVE FInv
  OBVIOUS
<1>1. IInv
  BY InitIInv
<1>2. FramesIntact
  <2>1. StreamOf(published) = <<>> /\ theNumberOfBytesQueued = 0
    BY StreamOfType DEF Init
  <2>2. Len(StreamOf(published)) = 0 /\ 1 .. 0 = {}
    BY <2>1
  <2>3. QED
    BY <2>1, <2>2, FramesIntactOfStream
<1>3. InFlightIntact
  <2>1. InFlight = 0 /\ 1 .. 0 = {}
    BY DEF Init, WriterIdle, InFlight
  <2>2. QED
    BY <2>1 DEF InFlightIntact
<1>4. ReaderAtFirst
  BY DEF Init, ReaderIdle, ReaderAtFirst
<1>5. QED
  BY <1>1, <1>2, <1>3, <1>4 DEF FInv, StreamInv

LEMMA SpecFInv == Spec => []FInv
<1>1. QED
  BY InitFInv, NextFInv, PTL DEF Spec

\* The counted bytes are, in every reachable state, exactly the frames of the messages
\* published and not yet released, whole and in order.
THEOREM FramesIntactCorrect == Spec => []FramesIntact
<1>1. FInv => FramesIntact
  BY DEF FInv, StreamInv
<1>2. QED
  BY <1>1, SpecFInv, PTL

----------------------------------------------------------------------------
(* The refinement: every step of the ring is a step of the channel, or one *)
(* that the channel does not see.                                          *)

\* The room the channel's messages take is the number of bytes counted.
LEMMA UsedIsCounted ==
  ASSUME FInv
  PROVE  Channel!Used = theNumberOfBytesQueued
<1> DEFINE p == published
           k == Len(p)
           s == StreamsOf(p)
           Rec(f) == [n \in 0 .. k |-> IF n = 0 THEN 0 ELSE f[n - 1] + (HeaderSize + Len(p[n]))]
           lengths == [n \in 0 .. k |-> Len(s[n])]
           g == Channel!UsedByFirst
<1>1. /\ k \in Nat
      /\ s[0] = <<>>
      /\ \A n \in 1 .. k : s[n] = s[n - 1] \o FrameBytes(p[n])
      /\ \A n \in 0 .. k : s[n] \in Seq(CellValue)
      /\ \A n \in 1 .. k : p[n] \in Messages
      /\ theNumberOfBytesQueued = Len(s[k])
  <2>1. p \in Seq(Messages) /\ theNumberOfBytesQueued = Len(StreamOf(p))
    BY StreamFacts
  <2>2. k \in Nat /\ \A n \in 1 .. k : p[n] \in Messages
    BY <2>1
  <2>3. QED
    BY <2>1, <2>2, StreamsOfRecursion DEF StreamOf
<1> HIDE DEF s
<1>2. ASSUME NEW n \in 1 .. k
      PROVE  Len(s[n]) = Len(s[n - 1]) + (HeaderSize + Len(p[n]))
  <2>1. n - 1 \in 0 .. k
    BY <1>1
  <2> DEFINE a == s[n - 1]
             b == FrameBytes(p[n])
  <2>2. a \in Seq(CellValue)
    BY <1>1, <2>1
  <2>3. b \in Seq(CellValue) /\ Len(b) = HeaderSize + Len(p[n])
    BY <1>1, FrameBytesType
  <2>4. s[n] = a \o b
    BY <1>1
  <2> HIDE DEF a, b
  <2>5. Len(a \o b) = Len(a) + Len(b)
    BY <2>2, <2>3, ConcatProperties
  <2>6. QED
    BY <2>3, <2>4, <2>5 DEF a
<1>3. Len(s[0]) = 0
  BY <1>1
<1>4. lengths = Rec(lengths)
  <2>1. ASSUME NEW n \in 0 .. k
        PROVE  lengths[n] = Rec(lengths)[n]
    <3>1. CASE n = 0
      BY <1>1, <1>3, <3>1
    <3>2. CASE n # 0
      <4>1. n \in 1 .. k /\ n - 1 \in 0 .. k
        BY <1>1, <3>2
      <4>2. lengths[n] = Len(s[n]) /\ lengths[n - 1] = Len(s[n - 1])
        BY <4>1
      <4> HIDE DEF lengths
      <4>3. Rec(lengths)[n] = lengths[n - 1] + (HeaderSize + Len(p[n]))
        BY <3>2
      <4>4. QED
        BY <1>2, <4>1, <4>2, <4>3
    <3>3. QED
      BY <3>1, <3>2
  <2>2. QED
    BY <2>1
<1>5. g = Rec(g)
  <2> HIDE DEF lengths
  <2>1. QED
    BY <1>4 DEF Channel!UsedByFirst, Channel!Frame
<1> HIDE DEF g
<1>6. g[0] = 0
  BY <1>1, <1>5
<1>7. ASSUME NEW n \in 1 .. k
      PROVE  g[n] = g[n - 1] + (HeaderSize + Len(p[n]))
  <2>1. n \in 0 .. k /\ n # 0
    BY <1>1
  <2>2. Rec(g)[n] = g[n - 1] + (HeaderSize + Len(p[n]))
    BY <2>1
  <2> HIDE DEF Rec
  <2>3. QED
    BY <1>5, <2>2
<1> DEFINE S == {n \in 0 .. k : g[n] = Len(s[n])}
<1>8. 0 \in S
  BY <1>1, <1>3, <1>6
<1>9. ASSUME NEW n \in 1 .. k, n - 1 \in S
      PROVE  n \in S
  <2>1. n \in 0 .. k
    BY <1>1
  <2>2. g[n] = Len(s[n])
    BY <1>2, <1>7, <1>9
  <2>3. QED
    BY <2>1, <2>2
<1>10. k \in S
  <2> HIDE DEF S
  <2>1. \A n \in 0 .. k : n \in S
    BY <1>1, <1>8, <1>9, BoundedInduction
  <2>2. QED
    BY <1>1, <2>1
<1>11. Channel!Used = g[k]
  BY DEF Channel!Used, g
<1>12. QED
  BY <1>1, <1>10, <1>11

\* The queue starts as an empty channel.
LEMMA InitRefines == Init => Channel!Init
BY DEF Init, Channel!Init, ReadOutcome

\* A write is refused, before or after a look at the counter, only when the message
\* does not fit, and publishing one sends it.
LEMMA WriteRefines ==
  ASSUME FInv
  PROVE  /\ \A op \in WriteOps, m \in Messages :
              CallWrite(op, m) => Channel!Refuse(m) \/ UNCHANGED Channel!vars
         /\ FindNoRoom => \E m \in Messages : Channel!Refuse(m)
         /\ Publish => \E m \in Messages : Channel!Send(m)
<1>1. /\ Channel!Used = theNumberOfBytesQueued
      /\ theNumberOfBytesQueued \in Nat
      /\ IInv
  BY StreamFacts, UsedIsCounted, IInvFacts
<1>2. ASSUME NEW m \in Messages
      PROVE  /\ Len(m) \in Nat
             /\ Channel!Fits(m) <=> theNumberOfBytesQueued + HeaderSize + Len(m) <= QueueSize
  <2>1. Len(m) \in Nat
    BY MessageType
  <2>2. Channel!Fits(m) <=> theNumberOfBytesQueued + (HeaderSize + Len(m)) <= QueueSize
    BY <1>1 DEF Channel!Fits, Channel!Frame
  <2>3. QED
    BY <1>1, <2>1, <2>2
<1>3. ASSUME NEW op \in WriteOps, NEW m \in Messages, CallWrite(op, m)
      PROVE  Channel!Refuse(m) \/ UNCHANGED Channel!vars
  <2>1. CASE Len(m) > QueueSize - HeaderSize
    <3>1. /\ outcome' = [call |-> "write", ok |-> FALSE, numBytes |-> Len(m), data |-> m]
          /\ published' = published
      BY <1>3, <2>1 DEF CallWrite, WriteOutcome
    <3>2. ~Channel!Fits(m)
      BY <1>1, <1>2, <2>1
    <3>3. QED
      BY <3>1, <3>2 DEF Channel!Refuse, Channel!Wrote
  <2>2. CASE ~(Len(m) > QueueSize - HeaderSize)
    BY <1>3, <2>2 DEF CallWrite, Channel!vars
  <2>3. QED
    BY <2>1, <2>2
<1>4. ASSUME FindNoRoom
      PROVE  \E m \in Messages : Channel!Refuse(m)
  <2>1. /\ writer.pc = "load" /\ ~HasRoom
        /\ outcome' = WriteOutcome(FALSE, writer.data)
        /\ published' = published
    BY <1>4 DEF FindNoRoom
  <2>2. writer.data \in Messages
    BY <1>1, <2>1 DEF IInv, TypeOK
  <2>3. PICK m \in Messages : m = writer.data
    BY <2>2
  <2>4. ~Channel!Fits(m)
    BY <1>2, <2>1, <2>3 DEF HasRoom
  <2>5. outcome' = [call |-> "write", ok |-> FALSE, numBytes |-> Len(m), data |-> m]
    BY <2>1, <2>3 DEF WriteOutcome
  <2>6. Channel!Refuse(m)
    BY <2>1, <2>4, <2>5 DEF Channel!Refuse, Channel!Wrote
  <2>7. QED
    BY <2>6
<1>5. ASSUME Publish
      PROVE  \E m \in Messages : Channel!Send(m)
  <2>1. /\ writer.pc = "publish"
        /\ outcome' = WriteOutcome(TRUE, writer.data)
        /\ published' = Append(published, writer.data)
    BY <1>5 DEF Publish
  <2>2. writer.data \in Messages /\ HasRoom
    BY <1>1, <2>1 DEF IInv, TypeOK, Accounting, RoomReserved
  <2>3. PICK m \in Messages : m = writer.data
    BY <2>2
  <2>4. Channel!Fits(m)
    BY <1>2, <2>2, <2>3 DEF HasRoom
  <2>5. outcome' = [call |-> "write", ok |-> TRUE, numBytes |-> Len(m), data |-> m]
    BY <2>1, <2>3 DEF WriteOutcome
  <2>6. Channel!Send(m)
    BY <2>1, <2>3, <2>4, <2>5 DEF Channel!Send, Channel!Wrote
  <2>7. QED
    BY <2>6
<1>6. QED
  BY <1>3, <1>4, <1>5

\* A read finds nothing only in an empty channel, tells the size of the oldest message
\* and leaves it, or receives it whole; where it fails the message stays.
LEMMA ReadRefines ==
  ASSUME FInv
  PROVE  /\ FindNothing => Channel!ReceiveNothing
         /\ PeekSize => Channel!NextSize
         /\ ReadHeader => \/ \E size \in BufSizes : Channel!ReceiveTooBig(size)
                          \/ UNCHANGED Channel!vars
         /\ Release => \E size \in BufSizes : Channel!Receive(size)
<1>1. /\ IInv /\ published \in Seq(Messages)
      /\ theNumberOfBytesQueued \in Nat
  BY StreamFacts, IInvFacts
<1>2. ASSUME published # <<>>
      PROVE  Head(published) = published[1] /\ Tail(published) = SubSeq(published, 2, Len(published))
  BY <1>1, <1>2, TailIsSubSeq
<1>3. ASSUME FindNothing
      PROVE  Channel!ReceiveNothing
  <2>1. /\ theNumberOfBytesQueued < HeaderSize
        /\ outcome' = ReadOutcome(TRUE, 0, <<>>)
        /\ published' = published
    BY <1>3 DEF FindNothing, Returns
  <2>2. published = <<>>
    BY <1>1, <2>1, EmptyQueue
  <2>3. QED
    BY <2>1, <2>2 DEF Channel!ReceiveNothing, Channel!Read, ReadOutcome
<1>4. ASSUME PeekSize
      PROVE  Channel!NextSize
  <2>1. /\ reader.pc = "peek" /\ published' = published
        /\ \E n \in LengthIn(DataInQueue(HeaderSize)) : Returns(TRUE, n, <<>>)
    BY <1>4 DEF PeekSize
  <2>2. PICK n \in LengthIn(DataInQueue(HeaderSize)) : Returns(TRUE, n, <<>>)
    BY <2>1
  <2>3. n = Len(published[1])
    BY <2>1, HeaderRead
  <2>4. published # <<>>
    BY <2>1 DEF FInv, StreamInv, ReaderAtFirst
  <2>5. outcome' = [call |-> "read", ok |-> TRUE, numBytes |-> Len(published[1]), data |-> <<>>]
    BY <2>2, <2>3 DEF Returns, ReadOutcome
  <2>6. QED
    BY <1>2, <2>1, <2>4, <2>5 DEF Channel!NextSize, Channel!Read
<1>5. ASSUME ReadHeader
      PROVE  \/ \E size \in BufSizes : Channel!ReceiveTooBig(size)
             \/ UNCHANGED Channel!vars
  <2>1. /\ reader.pc = "peek" /\ ReadsMessage(reader.op) /\ published' = published
        /\ \/ Len(published[1]) > reader.bufSize /\ Returns(FALSE, Len(published[1]), <<>>)
           \/ UNCHANGED outcome
    BY <1>5, ReadHeaderCases
  <2>2. published # <<>> /\ reader.bufSize \in BufSizes
    BY <2>1 DEF FInv, StreamInv, ReaderAtFirst
  <2>3. CASE Len(published[1]) > reader.bufSize /\ Returns(FALSE, Len(published[1]), <<>>)
    <3>1. PICK size \in BufSizes : size = reader.bufSize
      BY <2>2
    <3>2. outcome' = [call |-> "read", ok |-> FALSE, numBytes |-> Len(published[1]), data |-> <<>>]
      BY <2>3 DEF Returns, ReadOutcome
    <3>3. Channel!ReceiveTooBig(size)
      BY <1>2, <2>1, <2>2, <2>3, <3>1, <3>2 DEF Channel!ReceiveTooBig, Channel!Read
    <3>4. QED
      BY <3>3
  <2>4. CASE UNCHANGED outcome
    BY <2>1, <2>4 DEF Channel!vars
  <2>5. QED
    BY <2>1, <2>3, <2>4
<1>6. ASSUME Release
      PROVE  \E size \in BufSizes : Channel!Receive(size)
  <2>1. /\ reader.pc = "release"
        /\ outcome' = ReadOutcome(TRUE, reader.numBytes, reader.data)
        /\ published' = SubSeq(published, 2, Len(published))
    BY <1>6 DEF Release, Returns
  <2>2. /\ published # <<>> /\ reader.bufSize \in BufSizes
        /\ reader.numBytes = Len(published[1]) /\ reader.numBytes <= reader.bufSize
        /\ reader.data = published[1]
    BY <2>1 DEF FInv, StreamInv, ReaderAtFirst
  <2>3. PICK size \in BufSizes : size = reader.bufSize
    BY <2>2
  <2>4. outcome' = [call |-> "read", ok |-> TRUE, numBytes |-> Len(published[1]),
                    data |-> published[1]]
    BY <2>1, <2>2 DEF ReadOutcome
  <2>5. Channel!Receive(size)
    BY <1>2, <2>1, <2>2, <2>3, <2>4 DEF Channel!Receive, Channel!Read
  <2>6. QED
    BY <2>5
<1>7. QED
  BY <1>3, <1>4, <1>5, <1>6

\* Every step of the queue is a step of the channel or invisible to it.
LEMMA NextRefines ==
  ASSUME FInv, [Next]_vars
  PROVE  [Channel!Next]_Channel!vars
<1>1. ASSUME NEW op \in WriteOps, NEW m \in Messages, CallWrite(op, m)
      PROVE  [Channel!Next]_Channel!vars
  BY <1>1, WriteRefines DEF Channel!Next
<1>2. CASE FindNoRoom \/ Publish
  BY <1>2, WriteRefines DEF Channel!Next
<1>3. CASE FindNothing \/ PeekSize \/ ReadHeader \/ Release
  BY <1>3, ReadRefines DEF Channel!Next
<1>4. ASSUME NEW op \in ReadOps, NEW bufSize \in BufSizes, CallRead(op, bufSize)
      PROVE  UNCHANGED Channel!vars
  BY <1>4 DEF CallRead, Channel!vars
<1>5. CASE FindRoom \/ WriteHeader \/ WriteData \/ FindMessage \/ ReadData \/ UNCHANGED vars
  BY <1>5 DEF FindRoom, WriteHeader, WriteData, FindMessage, ReadData, vars, Channel!vars
<1>6. QED
  BY <1>1, <1>2, <1>3, <1>4, <1>5 DEF Next, WriterStep, ReaderStep

\* SimpleQueue implements the channel: for every ring, header and message set, and every
\* interleaving, messages arrive once, whole and in order, a write is refused only when
\* it does not fit, and a read that fails leaves its message for a retry.
THEOREM Implements == Spec => ImplementsChannel
<1>1. Init => Channel!Init
  BY InitRefines
<1>2. FInv /\ [Next]_vars => [Channel!Next]_Channel!vars
  BY NextRefines
<1>3. Spec => Channel!Spec
  BY <1>1, <1>2, SpecFInv, PTL DEF Spec, Channel!Spec
<1>4. QED
  BY <1>3 DEF ImplementsChannel
=============================================================================
