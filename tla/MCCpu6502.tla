----------------------------- MODULE MCCpu6502 ------------------------------
(***************************************************************************)
(* StackDiscipline on programs of three kinds, all at 0x02f8:               *)
(*  - every op-code with several operands, after instructions that set the  *)
(*    registers and the carry; the op-code is the last byte of its page;    *)
(*  - sequences of stack instructions, calls, BRK and RTI, with the code    *)
(*    and the stack pointer around the end of a page;                       *)
(*  - every op-code at the end of the memory.                               *)
(***************************************************************************)
EXTENDS StackDiscipline, SequencesExt
LOCAL INSTANCE Bitwise

MCStart == 760  \* 0x02f8
Subroutine == 784

\* Even cells of the zero page hold low bytes of pointers, odd ones high bytes.
DataCells == (0 .. 7) \union (125 .. 131) \union (252 .. 257) \union (505 .. 511)
Data(a) == IF a % 2 = 1 THEN (IF a = 257 THEN 127 ELSE (a % 4) \div 2)
           ELSE IF a % 3 = 0 THEN 128 ELSE IF a % 3 = 1 THEN 255 ELSE 2
Vectors == (65534 :> Subroutine % 256) @@ (65535 :> Subroutine \div 256)

Place(bytes, address) == [a \in address .. address + Len(bytes) - 1 |-> bytes[a - address + 1]]
Machine(code) == code @@ [a \in DataCells |-> Data(a)] @@ Vectors

Operands == {<<2, 0>>, <<255, 0>>, <<128, 0>>, <<127, 3>>, <<254, 1>>}
Operations ==
  {Machine(Place(<<162, x, 160, 2, carry, 169, a, opCode>> \o operand, MCStart)) :
     x \in {3}, carry \in {24, 56}, a \in {1, 127, 128, 255}, opCode \in Byte, operand \in Operands}

LDA == <<169, 192>>   TOP == <<162, 0, 154>>  SEC == <<56>>
PHA == <<72>>  PLA == <<104>>  PHP == <<8>>   PLP == <<40>>
JSR == <<32, 16, 3>>  RTS == <<96>>  BRK == <<0>>  RTI == <<64>>  NOP == <<234>>
Palette == {LDA, PHA, PLA, PHP, PLP, JSR, RTS, BRK, RTI}
Bodies == {RTS, PHA \o PLA \o RTS, PHP \o SEC \o PLP \o RTS, PHA \o RTS, PLA \o RTS, NOP \o RTI, PLA \o PLA}
StackPrograms ==
  {Machine(Place(first \o second \o third, MCStart) @@ Place(body, Subroutine)) :
     first \in {TOP, SEC, LDA}, second \in Palette, third \in Palette, body \in Bodies}

Truncated == {Machine(Place(code, MCStart)) : code \in {<<b>> : b \in Byte} \union {<<b, 1>> : b \in Byte}}

MCMemories == Operations \union StackPrograms \union Truncated

\* The operators on bits are those of C++.
ASSUME BitwiseAssumption ==
  \A x, y \in Byte : BitAnd(x, y) = (x & y) /\ BitOr(x, y) = (x | y) /\ BitXor(x, y) = (x ^^ y)
=============================================================================
