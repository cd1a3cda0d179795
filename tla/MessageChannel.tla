--------------------------- MODULE MessageChannel ---------------------------
(***************************************************************************)
(* What SimpleQueue promises its callers (SimpleQueue.h): a bounded,       *)
(* lossless, in-order channel of byte messages between one writer and one  *)
(* reader.  Every operation is a single step here; SimpleQueue.tla is      *)
(* shown to implement this module although there each operation is several *)
(* unsynchronised accesses to a ring of bytes.                             *)
(***************************************************************************)
EXTENDS Naturals, Sequences

CONSTANTS Messages,     \* the messages the writer may send: sequences of bytes
          BufSizes,     \* sizes of the buffers the reader may offer
          HeaderSize,   \* bytes that frame each message
          Capacity      \* bytes the channel may hold

VARIABLES chan,   \* messages sent and not yet received, oldest first
          outcome \* what the last call, of the writer or of the reader, returned

vars == <<chan, outcome>>

Frame(m) == HeaderSize + Len(m)

\* Bytes the first n messages in the channel, and all of them, occupy.
UsedByFirst[n \in 0 .. Len(chan)] ==
  IF n = 0 THEN 0 ELSE UsedByFirst[n - 1] + Frame(chan[n])
Used == UsedByFirst[Len(chan)]

Fits(m) == Used + Frame(m) <= Capacity

Wrote(ok, m) == outcome' = [call |-> "write", ok |-> ok, numBytes |-> Len(m), data |-> m]
Read(ok, n, data) == outcome' = [call |-> "read", ok |-> ok, numBytes |-> n, data |-> data]

Init == /\ chan = <<>>
        /\ outcome = [call |-> "read", ok |-> TRUE, numBytes |-> 0, data |-> <<>>]

\* A write that succeeds puts the message behind all the others.
Send(m) == /\ Fits(m)
           /\ chan' = Append(chan, m)
           /\ Wrote(TRUE, m)

\* A write fails only at a moment at which the message does not fit.
Refuse(m) == /\ ~Fits(m)
             /\ Wrote(FALSE, m)
             /\ UNCHANGED chan

\* A read that succeeds removes the oldest message and returns its bytes.
Receive(size) == /\ chan # <<>>
                 /\ Len(Head(chan)) <= size
                 /\ Read(TRUE, Len(Head(chan)), Head(chan))
                 /\ chan' = Tail(chan)

\* A read into a buffer that is too small fails, tells the size needed and
\* leaves the message where it is.
ReceiveTooBig(size) == /\ chan # <<>>
                       /\ Len(Head(chan)) > size
                       /\ Read(FALSE, Len(Head(chan)), <<>>)
                       /\ UNCHANGED chan

\* The size of the oldest message, which stays in the channel.
NextSize == /\ chan # <<>>
            /\ Read(TRUE, Len(Head(chan)), <<>>)
            /\ UNCHANGED chan

\* Only an empty channel answers "nothing there".
ReceiveNothing == /\ chan = <<>>
                  /\ Read(TRUE, 0, <<>>)
                  /\ UNCHANGED chan

Next == \/ \E m \in Messages : Send(m) \/ Refuse(m)
        \/ \E size \in BufSizes : Receive(size) \/ ReceiveTooBig(size)
        \/ NextSize
        \/ ReceiveNothing

Spec == Init /\ [][Next]_vars
=============================================================================
