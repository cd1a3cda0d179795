--------------------------- MODULE MCSimpleQueue ---------------------------
(***************************************************************************)
(* SimpleQueue on a ring of 8 bytes with headers of 2.  The messages have  *)
(* 0, 1, 6 and 7 bytes (1, 3 and 6 for liveness): every position of the    *)
(* ring starts a frame, the wrap falls inside headers and payloads, 6      *)
(* bytes fill the ring by themselves and 7 can never fit.                  *)
(***************************************************************************)
EXTENDS SimpleQueue
LOCAL INSTANCE Bitwise

CONSTANTS b1, b2, b3

MCByte == {b1, b2, b3}
MCFull == <<b3, b2, b1, b1, b2, b3>>
MCMessages == {<<>>, <<b1>>, MCFull, Append(MCFull, b1)}
MCLiveMessages == {<<b1>>, <<b2, b3, b1>>, MCFull}

\* The code masks positions with theQueueSizeMask where Masked subtracts.
ASSUME MaskAssumption ==
  \A pos \in 0 .. 2 * QueueSize - 1 : Masked(pos) = (pos & (QueueSize - 1))
=============================================================================
