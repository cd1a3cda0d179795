--------------------------- MODULE Cpu6502Proofs ---------------------------
(***************************************************************************)
(* Proofs about Cpu6502, for every memory, program, start address and step *)
(* limit: its registers, flags and addresses keep their width, a halt stops *)
(* it, its arithmetic is that of the integers, its jumps land where their   *)
(* operands say, its unofficial op-codes are compositions of official ones, *)
(* and what has been pushed is what is pulled.                             *)
(***************************************************************************)
EXTENDS StackDiscipline, TLAPS, FiniteSetTheorems

-----------------------------------------------------------------------------
(* Bytes, words and bits.                                                  *)

LEMMA LowIsByte ==
  ASSUME NEW n \in Int
  PROVE  Low(n) \in Byte
  BY DEF Low, Byte

\* The last address is named so that no prover has to look at the numbers up to it.
LEMMA AddressRange ==
  \A n \in Int : n \in CpuAddress <=> 0 <= n /\ n <= 65535
  <1> DEFINE last == 65535
  <1>1. last \in Int /\ CpuAddress = 0 .. last  BY DEF CpuAddress
  <1>2. last = 65535  OBVIOUS
  <1> HIDE DEF last
  <1>3. \A n \in Int : n \in CpuAddress <=> 0 <= n /\ n <= last  BY <1>1
  <1>4. QED  BY <1>2, <1>3

LEMMA WordIsAddress ==
  ASSUME NEW n \in Int
  PROVE  Word(n) \in CpuAddress
  <1>1. Word(n) \in Int /\ 0 <= Word(n) /\ Word(n) <= 65535  BY DEF Word
  <1>2. QED  BY <1>1, AddressRange

LEMMA ByteRange ==
  \A b \in Byte : b \in Int /\ 0 <= b /\ b <= 255
  BY SMT DEF Byte

LEMMA TypesAreIntegers ==
  /\ Byte \subseteq CpuAddress
  /\ CpuAddress \subseteq Int
  <1>1. ASSUME NEW b \in Byte
        PROVE  b \in CpuAddress
    <2>1. b \in Int /\ 0 <= b /\ b <= 255  BY ByteRange
    <2>2. b <= 65535  BY <2>1
    <2>3. QED  BY <2>1, <2>2, AddressRange
  <1>2. Byte \subseteq CpuAddress  BY <1>1
  <1>3. CpuAddress \subseteq Int  BY SMT DEF CpuAddress
  <1>4. QED  BY <1>2, <1>3

LEMMA TwoBytesAreAddress ==
  ASSUME NEW low \in Byte, NEW high \in Byte
  PROVE  low + 256 * high \in CpuAddress
  <1>1. low + 256 * high \in Int /\ 0 <= low + 256 * high /\ low + 256 * high <= 65535
    BY ByteRange, SMT
  <1>2. QED  BY <1>1, AddressRange

LEMMA HighIsByte ==
  ASSUME NEW address \in CpuAddress
  PROVE  High(address) \in Byte
  <1>1. address \in Int /\ 0 <= address /\ address <= 65535
    BY AddressRange, TypesAreIntegers
  <1>2. address \div 256 \in Int /\ 0 <= address \div 256 /\ address \div 256 <= 255
    BY <1>1, SMT
  <1>3. QED  BY <1>2, SMT DEF High, Byte

LEMMA BitIsBit ==
  ASSUME NEW b \in Int, NEW w \in Weights
  PROVE  Bit(b, w) \in 0 .. 1
  BY DEF Bit, Weights

\* A function from the weights to 0 and 1 is the binary form of a byte.
LEMMA FromBitsIsByte ==
  ASSUME NEW bits, \A w \in Weights : bits[w] \in 0 .. 1
  PROVE  FromBits(bits) \in Byte
  BY DEF FromBits, Weights, Byte

LEMMA BitwiseIsByte ==
  ASSUME NEW x \in Byte, NEW y \in Byte
  PROVE  BitAnd(x, y) \in Byte /\ BitOr(x, y) \in Byte /\ BitXor(x, y) \in Byte
  <1>1. \A w \in Weights : Bit(x, w) \in 0 .. 1 /\ Bit(y, w) \in 0 .. 1
    BY BitIsBit DEF Byte
  <1>2. \A b, c \in 0 .. 1 : b * c \in 0 .. 1 /\ b + c - b * c \in 0 .. 1 /\ (b + c) % 2 \in 0 .. 1
    <2> SUFFICES ASSUME NEW b \in {0, 1}, NEW c \in {0, 1}
                 PROVE  b * c \in 0 .. 1 /\ b + c - b * c \in 0 .. 1 /\ (b + c) % 2 \in 0 .. 1
      OBVIOUS
    <2>1. CASE b = 0 /\ c = 0  BY <2>1
    <2>2. CASE b = 0 /\ c = 1  BY <2>2
    <2>3. CASE b = 1 /\ c = 0  BY <2>3
    <2>4. CASE b = 1 /\ c = 1  BY <2>4
    <2>5. QED  BY <2>1, <2>2, <2>3, <2>4
  <1> DEFINE anded == [w \in Weights |-> Bit(x, w) * Bit(y, w)]
             ored  == [w \in Weights |-> Bit(x, w) + Bit(y, w) - Bit(x, w) * Bit(y, w)]
             xored == [w \in Weights |-> (Bit(x, w) + Bit(y, w)) % 2]
  <1>3. \A w \in Weights : anded[w] \in 0 .. 1 /\ ored[w] \in 0 .. 1 /\ xored[w] \in 0 .. 1
    BY <1>1, <1>2
  <1> HIDE DEF anded, ored, xored
  <1>4. FromBits(anded) \in Byte /\ FromBits(ored) \in Byte /\ FromBits(xored) \in Byte
    BY <1>3, FromBitsIsByte
  <1>5. QED  BY <1>4 DEF anded, ored, xored, BitAnd, BitOr, BitXor

LEMMA StatusByteIsByte ==
  ASSUME NEW S
  PROVE  StatusByte(S) \in Byte
  BY DEF StatusByte, If, Byte

\* The flags that the arithmetic changes stay flags.
LEMMA WithIsFlags ==
  ASSUME NEW flags \in SUBSET Flags, NEW flag \in Flags, NEW condition
  PROVE  With(flags, flag, condition) \in SUBSET Flags
  BY DEF With

LEMMA SignZeroIsFlags ==
  ASSUME NEW flags \in SUBSET Flags, NEW b
  PROVE  SignZero(flags, b) \in SUBSET Flags
  BY DEF SignZero, With, Flags

LEMMA ShiftedIsByte ==
  ASSUME NEW b \in Byte, NEW carryIn \in 0 .. 1
  PROVE  ShiftedLeft(b, carryIn) \in Byte /\ ShiftedRight(b, carryIn) \in Byte
  BY DEF ShiftedLeft, ShiftedRight, Low, Byte

LEMMA CarryIsBit ==
  ASSUME NEW flags
  PROVE  Carry(flags) \in 0 .. 1
  BY DEF Carry, If

\* addition_operation adds: the carry is the ninth bit of the sum, and the overflow flag
\* tells that the sum of the signed values does not fit.
LEMMA AdditionIsExact ==
  ASSUME NEW accum \in Byte, NEW flags \in SUBSET Flags, NEW operand \in Byte
  PROVE  LET result == Addition(accum, flags, operand) IN
         /\ result.accum \in Byte /\ result.flags \in SUBSET Flags
         /\ 256 * Carry(result.flags) + result.accum = accum + operand + Carry(flags)
         /\ "V" \in result.flags <=>
              SignedByte(accum) + SignedByte(operand) + Carry(flags) \notin -128 .. 127
         /\ "N" \in result.flags <=> result.accum >= 128
         /\ "Z" \in result.flags <=> result.accum = 0
  <1> DEFINE c == Carry(flags)
             sum == accum + operand + c
             overflow == Bit(accum, 128) = Bit(operand, 128) /\ Bit(accum, 128) # Bit(sum, 128)
             new == With(SignZero(With(flags, "V", overflow), Low(sum)), "C", sum > 255)
  <1>1. c \in 0 .. 1  BY CarryIsBit
  <1>2. Addition(accum, flags, operand) = [accum |-> Low(sum), flags |-> new]
    BY DEF Addition
  <1>3. /\ "C" \in new <=> sum > 255
        /\ "V" \in new <=> overflow
        /\ "N" \in new <=> Low(sum) >= 128
        /\ "Z" \in new <=> Low(sum) = 0
        /\ new \in SUBSET Flags
    BY DEF With, SignZero, Flags
  <1>4. overflow <=> SignedByte(accum) + SignedByte(operand) + c \notin -128 .. 127
    <2> HIDE DEF c
    <2>1. CASE accum >= 128 /\ operand >= 128  BY <1>1, <2>1 DEF Bit, SignedByte, Byte
    <2>2. CASE accum >= 128 /\ operand < 128   BY <1>1, <2>2 DEF Bit, SignedByte, Byte
    <2>3. CASE accum < 128 /\ operand >= 128   BY <1>1, <2>3 DEF Bit, SignedByte, Byte
    <2>4. CASE accum < 128 /\ operand < 128    BY <1>1, <2>4 DEF Bit, SignedByte, Byte
    <2>5. QED  BY <2>1, <2>2, <2>3, <2>4 DEF Byte
  <1> HIDE DEF c, new, overflow
  <1>5. 256 * Carry(new) + Low(sum) = accum + operand + c
    <2>1. sum \in 0 .. 511  BY <1>1 DEF Byte
    <2>2. Carry(new) = IF sum > 255 THEN 1 ELSE 0  BY <1>3 DEF Carry, If
    <2>3. CASE sum > 255
      <3>1. sum % 256 = sum - 256  BY <2>1, <2>3
      <3>2. Carry(new) = 1  BY <2>2, <2>3
      <3>3. 256 * Carry(new) + Low(sum) = sum  BY <2>1, <3>1, <3>2 DEF Low
      <3>4. QED  BY <3>3
    <2>4. CASE ~ (sum > 255)
      <3>1. sum % 256 = sum  BY <2>1, <2>4
      <3>2. Carry(new) = 0  BY <2>2, <2>4
      <3>3. 256 * Carry(new) + Low(sum) = sum  BY <2>1, <3>1, <3>2 DEF Low
      <3>4. QED  BY <3>3
    <2>5. QED  BY <2>3, <2>4
  <1>6. Low(sum) \in Byte  BY <1>1, LowIsByte DEF Byte
  <1>7. /\ Addition(accum, flags, operand).accum = Low(sum)
        /\ Addition(accum, flags, operand).flags = new
    BY <1>2
  <1> HIDE DEF sum
  <1>8. QED  BY <1>3, <1>4, <1>5, <1>6, <1>7 DEF c

\* comparison_operation compares.
LEMMA ComparisonIsExact ==
  ASSUME NEW flags \in SUBSET Flags, NEW register \in Byte, NEW operand \in Byte
  PROVE  LET result == Comparison(flags, register, operand) IN
         /\ result \in SUBSET Flags
         /\ "C" \in result <=> register >= operand
         /\ "N" \in result <=> Low(register - operand) >= 128
         /\ "Z" \in result <=> Low(register - operand) = 0
  <1>1. Low(register + (255 - operand) + 1) = Low(register - operand)
    BY DEF Low, Byte
  <1>2. register = operand <=> Low(register - operand) = 0
    <2>1. register - operand \in -255 .. 255  BY DEF Byte
    <2>2. \A d \in -255 .. 255 : d % 256 = 0 <=> d = 0  OBVIOUS
    <2>3. register - operand = 0 <=> register = operand  BY DEF Byte
    <2>4. QED  BY <2>1, <2>2, <2>3 DEF Low
  <1> DEFINE result == Comparison(flags, register, operand)
  <1>3. /\ result \in SUBSET Flags
        /\ "C" \in result <=> register >= operand
        /\ "N" \in result <=> Low(register + (255 - operand) + 1) >= 128
        /\ "Z" \in result <=> register = operand
    BY DEF Comparison, With, Flags
  <1>4. QED  BY <1>1, <1>2, <1>3

-----------------------------------------------------------------------------
(* Decoding.                                                               *)

LEMMA InfoType ==
  ASSUME TypeOK, thePc \in Mapped
  PROVE  /\ Info.theHandler \in Handlers
         /\ Info.theAddrMode \in AddressMode6502
         /\ Info.theDelayCycles \in 0 .. 8
         /\ Info.theNumBytes = 1 + OperandBytes(Info.theAddrMode)
         /\ Info.theNumBytes \in 1 .. 3
         /\ Info.theHandler \in {"BRK", "RTS"} => Info.theAddrMode = "IMP"
         /\ Info.theHandler = "JSR" => Info.theAddrMode = "ABS"
         /\ Info.theHandler \in DOMAIN BranchTest => Info.theAddrMode = "REL"
  <1>1. theMemory[thePc] \in Byte  BY DEF TypeOK
  <1>2. QED  BY <1>1, OpCodeTableAssumption DEF Info, OperandBytes, BranchTest

LEMMA ReadIsByte ==
  ASSUME TypeOK, NEW address
  PROVE  Read(address) \in Byte
  BY DEF TypeOK, Read, Byte

LEMMA PointerIsAddress ==
  ASSUME TypeOK, NEW zeroPage
  PROVE  PointerAt(zeroPage) \in CpuAddress
  <1>1. Read(zeroPage) \in Byte /\ Read(Low(zeroPage + 1)) \in Byte  BY ReadIsByte
  <1>2. QED  BY <1>1, TwoBytesAreAddress DEF PointerAt

\* An instruction that is decoded has as many operand bytes as its addressing mode uses.
LEMMA OperandBytesThere ==
  ASSUME TypeOK, NEW handlers, Decoding(handlers)
  PROVE  /\ Info.theAddrMode # "IMP" => OpCode2 \in Byte
         /\ Info.theAddrMode \in {"ABS", "ABX", "ABY", "IND"} =>
              OpCode3 \in Byte /\ OperandWord \in CpuAddress
  <1>1. Info.theNumBytes = 1 + OperandBytes(Info.theAddrMode) /\ Info.theNumBytes \in 1 .. 3
    BY InfoType DEF Decoding
  <1>2. \A n \in 1 .. Info.theNumBytes - 1 : theMemory[Word(thePc + n)] \in Byte
    BY DEF Decoding, OperandsMapped, TypeOK, Mapped
  <1>3. Info.theAddrMode # "IMP" => OpCode2 \in Byte
    BY <1>1, <1>2 DEF OperandBytes, OpCode2
  <1>4. Info.theAddrMode \in {"ABS", "ABX", "ABY", "IND"} => OpCode3 \in Byte
    BY <1>1, <1>2 DEF OperandBytes, OpCode3
  <1>5. QED  BY <1>1, <1>3, <1>4, TwoBytesAreAddress DEF OperandWord

LEMMA OperandTypes ==
  ASSUME TypeOK, NEW handlers, Decoding(handlers)
  PROVE  OperandAddr \in CpuAddress /\ Operand \in Byte /\ ShiftOperand \in Byte
  <1>1. Info.theAddrMode \in AddressMode6502  BY InfoType DEF Decoding
  <1>2. /\ Info.theAddrMode # "IMP" => OpCode2 \in Byte
        /\ Info.theAddrMode \in {"ABS", "ABX", "ABY", "IND"} => OperandWord \in CpuAddress
    BY OperandBytesThere
  <1>3. theRegX \in Byte /\ theRegY \in Byte /\ thePc \in CpuAddress
    BY DEF TypeOK
  <1>4. OperandAddr \in CpuAddress
    <2>1. CASE Info.theAddrMode \in {"ZPG", "ZPX", "ZPY"}
      <3>1. OpCode2 \in Byte  BY <1>2, <2>1
      <3>2. OperandAddr = OpCode2 \/ \E n \in Int : OperandAddr = Low(n)
        BY <1>3, <2>1, <3>1, TypesAreIntegers DEF OperandAddr
      <3>3. OperandAddr \in Byte  BY <3>1, <3>2, LowIsByte
      <3>4. QED  BY <3>3, TypesAreIntegers
    <2>2. CASE Info.theAddrMode \in {"ABS", "IND", "ABX", "ABY"}
      <3>1. OperandWord \in CpuAddress  BY <1>2, <2>2
      <3>2. OperandAddr = OperandWord \/ \E n \in Int : OperandAddr = Word(n)
        BY <1>3, <2>2, <3>1, TypesAreIntegers DEF OperandAddr
      <3>3. QED  BY <3>1, <3>2, WordIsAddress
    <2>3. CASE Info.theAddrMode = "REL"
      <3>1. SignedByte(OpCode2) \in Int  BY <1>2, <2>3 DEF SignedByte, Byte
      <3>2. OperandAddr = Word(thePc + SignedByte(OpCode2))  BY <2>3 DEF OperandAddr
      <3>3. thePc + SignedByte(OpCode2) \in Int  BY <1>3, <3>1, TypesAreIntegers
      <3>4. QED  BY <3>2, <3>3, WordIsAddress
    <2>4. CASE Info.theAddrMode = "INX"
      <3>1. OperandAddr = PointerAt(Low(OpCode2 + theRegX))  BY <2>4 DEF OperandAddr
      <3>2. QED  BY <3>1, PointerIsAddress
    <2>5. CASE Info.theAddrMode = "INY"
      <3>1. OperandAddr = Word(PointerAt(OpCode2) + theRegY)  BY <2>5 DEF OperandAddr
      <3>2. PointerAt(OpCode2) \in CpuAddress  BY PointerIsAddress
      <3>3. PointerAt(OpCode2) \in Int /\ theRegY \in Int  BY <1>3, <3>2, TypesAreIntegers
      <3>4. PointerAt(OpCode2) + theRegY \in Int  BY <3>3
      <3>5. QED  BY <3>1, <3>4, WordIsAddress
    <2>6. CASE Info.theAddrMode \in {"IMP", "IMM"}
      BY <2>6 DEF OperandAddr, TypeOK
    <2>7. QED  BY <1>1, <2>1, <2>2, <2>3, <2>4, <2>5, <2>6 DEF AddressMode6502
  <1>5. Operand \in Byte  BY <1>2, ReadIsByte DEF Operand
  <1>6. ShiftOperand \in Byte  BY ReadIsByte DEF ShiftOperand, TypeOK
  <1>7. QED  BY <1>4, <1>5, <1>6

\* What the handlers write, and where they leave the PC, has the right width.
LEMMA WrittenIsMemory ==
  ASSUME TypeOK, NEW address, NEW b \in Byte
  PROVE  Written(address, b) \in [Mapped -> Byte]
  BY DEF Written, TypeOK, Mapped

LEMMA PushedIsMemory ==
  ASSUME TypeOK, NEW bytes, \A n \in DOMAIN bytes : bytes[n] \in Byte
  PROVE  Pushed(bytes) \in [Mapped -> Byte]
  <1>1. \A a \in Mapped : theMemory[a] \in Byte  BY DEF TypeOK, Mapped
  <1>2. \A a \in Mapped : (\E n \in DOMAIN bytes : a = StackCell(1 - n)) =>
          bytes[CHOOSE n \in DOMAIN bytes : a = StackCell(1 - n)] \in Byte
    OBVIOUS
  <1>3. QED  BY <1>1, <1>2 DEF Pushed

LEMMA UpdatedPcIsAddress ==
  ASSUME TypeOK, thePc \in Mapped, NEW pc \in Int, UpdatePc(pc)
  PROVE  thePc' \in CpuAddress
  <1>1. pc + Info.theNumBytes \in Int  BY InfoType
  <1>2. QED  BY <1>1, WordIsAddress DEF UpdatePc

-----------------------------------------------------------------------------
(* Halts.  TypeOK is inductive, HaltStops is not: that start ends with two  *)
(* calls of the callbacks needs one of them before, and that there are      *)
(* seven at most needs that the last instruction made at most six.          *)

HaltInv ==
  /\ theRunFlag => haltCallbacks = 0
  /\ process = "runs" => haltCallbacks <= 6 /\ (~theRunFlag => haltCallbacks >= 1)
  /\ process = "crashed" => haltCallbacks = 0
  /\ process = "ended" => ~theRunFlag /\ haltCallbacks \in 2 .. 7

IInv == TypeOK /\ HaltInv

\* What the handlers have in common: an instruction accesses five cells at most.
FewCells(cells) ==
  /\ cells \in Seq(Int)
  /\ Len(cells) <= 3 \/ (Len(cells) <= 5 /\ Info.theAddrMode = "IMP")
Executed == \E cells \in Seq(Int), extraClockCycles \in 0 .. 2 :
              FewCells(cells) /\ Retire(cells, extraClockCycles)

\* What they change.
StateOK ==
  /\ theAccum \in Byte /\ theRegX \in Byte /\ theRegY \in Byte /\ theStackPtr \in Byte
  /\ theStatusReg \subseteq Flags
  /\ thePc \in CpuAddress
  /\ Mapped \subseteq CpuAddress /\ theMemory \in [Mapped -> Byte]

LEMMA FailedIsBounded ==
  ASSUME NEW cells \in Seq(Int)
  PROVE  Cardinality(Failed(cells)) \in Nat /\ Cardinality(Failed(cells)) <= Len(cells)
  <1>0. Len(cells) \in Nat  OBVIOUS
  <1>1. IsFiniteSet(1 .. Len(cells)) /\ Cardinality(1 .. Len(cells)) = Len(cells)
    <2>1. /\ IsFiniteSet(1 .. Len(cells))
          /\ Cardinality(1 .. Len(cells)) = IF 1 > Len(cells) THEN 0 ELSE Len(cells) - 1 + 1
      BY <1>0, FS_Interval
    <2>2. QED  BY <1>0, <2>1
  <1>2. Failed(cells) \subseteq 1 .. Len(cells)  BY DEF Failed
  <1>3. IsFiniteSet(Failed(cells)) /\ Cardinality(Failed(cells)) <= Len(cells)
    BY <1>1, <1>2, FS_Subset
  <1>4. QED  BY <1>3, FS_CardinalityType

LEMMA PointersAreFew ==
  ASSUME TypeOK, NEW handlers, Decoding(handlers)
  PROVE  /\ PointerCells \in Seq(Int) /\ Len(PointerCells) <= 2
         /\ Info.theAddrMode = "IMP" => Len(PointerCells) = 0
  <1>1. CASE Info.theAddrMode \in {"INX", "INY"}
    <2>1. OpCode2 \in Int /\ theRegX \in Int
      BY <1>1, OperandBytesThere, ByteRange DEF TypeOK
    <2>2. QED  BY <1>1, <2>1 DEF PointerCells, Low
  <1>2. CASE Info.theAddrMode \notin {"INX", "INY"}
    BY <1>2 DEF PointerCells
  <1>3. QED  BY <1>1, <1>2

LEMMA HaltsAreFew ==
  ASSUME TypeOK, NEW handlers, Decoding(handlers), NEW cells, FewCells(cells)
  PROVE  Halts(cells) \in 0 .. 5
  <1>1. /\ Cardinality(Failed(PointerCells)) \in Nat
        /\ Cardinality(Failed(PointerCells)) <= Len(PointerCells)
        /\ Cardinality(Failed(cells)) \in Nat /\ Cardinality(Failed(cells)) <= Len(cells)
    BY FailedIsBounded, PointersAreFew DEF FewCells
  <1>2. /\ Len(PointerCells) \in Nat /\ Len(PointerCells) <= 2
        /\ Info.theAddrMode = "IMP" => Len(PointerCells) = 0
        /\ Len(cells) \in Nat
    BY PointersAreFew DEF FewCells
  <1>3. QED  BY SMTT(30), <1>1, <1>2 DEF Halts, FewCells

\* So an instruction keeps the invariant if it leaves what it changes well typed.
LEMMA InstructionKeepsIInv ==
  ASSUME IInv, NEW handlers, Decoding(handlers), Executed, StateOK'
  PROVE  IInv'
  <1>1. PICK cells \in Seq(Int), extraClockCycles \in 0 .. 2 :
          FewCells(cells) /\ Retire(cells, extraClockCycles)
    BY DEF Executed
  <1>2. Halts(cells) \in 0 .. 5  BY <1>1, HaltsAreFew DEF IInv
  <1>3. OperandAddr \in CpuAddress  BY OperandTypes DEF IInv
  <1>4. Info.theDelayCycles \in 0 .. 8  BY InfoType DEF IInv, Decoding
  <1>5. /\ process = "runs" /\ theRunFlag = TRUE /\ haltCallbacks = 0
        /\ theNumClocks \in Nat /\ theNumberOfStepsExecuted \in Nat /\ theNumberOfStepsToTrace \in Nat
    BY DEF IInv, TypeOK, HaltInv, Decoding
  <1> DEFINE limitHit == theNumberOfStepsToTrace < theNumberOfStepsExecuted + 1
  <1>6. /\ theOperandAddr' = OperandAddr
        /\ theNumClocks' = theNumClocks + Info.theDelayCycles + extraClockCycles
        /\ theNumberOfStepsExecuted' = theNumberOfStepsExecuted + 1
        /\ haltCallbacks' = haltCallbacks + Halts(cells) + If(limitHit, 1)
        /\ theRunFlag' = (Halts(cells) = 0 /\ ~limitHit)
        /\ theNumberOfStepsToTrace' = theNumberOfStepsToTrace /\ process' = process
    BY <1>1 DEF Retire
  <1>7. /\ theNumClocks' \in Nat /\ theNumberOfStepsExecuted' \in Nat
        /\ theNumberOfStepsToTrace' \in Nat
    <2>1. \A n \in Nat, d \in 0 .. 8, e \in 0 .. 2 : n + d + e \in Nat  OBVIOUS
    <2>2. theNumClocks' \in Nat  BY <1>4, <1>5, <1>6, <2>1
    <2>3. theNumberOfStepsExecuted' \in Nat  BY <1>5, <1>6
    <2>4. QED  BY <1>5, <1>6, <2>2, <2>3
  <1>8. If(limitHit, 1) \in 0 .. 1 /\ (If(limitHit, 1) = 0 <=> ~limitHit)
    BY DEF If
  <1>9. theRunFlag' \in BOOLEAN  BY <1>6
  <1> HIDE DEF limitHit
  <1>10. /\ haltCallbacks' \in Nat /\ haltCallbacks' <= 6
         /\ theRunFlag' <=> haltCallbacks' = 0
    <2> DEFINE h == Halts(cells)
               l == If(limitHit, 1)
    <2>1. h \in 0 .. 5 /\ l \in 0 .. 1 /\ haltCallbacks' = 0 + h + l
      BY <1>2, <1>5, <1>6, <1>8
    <2>2. theRunFlag' <=> h = 0 /\ l = 0  BY <1>6, <1>8
    <2> HIDE DEF h, l
    <2>3. QED  BY <2>1, <2>2
  <1>11. TypeOK'
    BY <1>3, <1>5, <1>6, <1>7, <1>9, <1>10 DEF TypeOK, StateOK
  <1>12. HaltInv'
    BY <1>5, <1>6, <1>10 DEF HaltInv
  <1>13. QED  BY <1>11, <1>12 DEF IInv

LEMMA NoInstructionKeepsIInv ==
  ASSUME IInv, UNCHANGED vars \/ DecodeNothing \/ FetchFault \/ StartReturns
  PROVE  IInv'
  <1>1. /\ UNCHANGED <<registers, theStackPtr, theStatusReg, thePc, theOperandAddr, theMemory>>
        /\ UNCHANGED <<theNumClocks, theNumberOfStepsExecuted, theNumberOfStepsToTrace>>
    BY DEF vars, DecodeNothing, FetchFault, StartReturns
  <1>2. \/ UNCHANGED <<theRunFlag, haltCallbacks, process>>
        \/ /\ process = "runs" /\ theRunFlag /\ theRunFlag' = FALSE
           /\ haltCallbacks' = haltCallbacks + 1 /\ process' = process
        \/ /\ process = "runs" /\ theRunFlag /\ process' = "crashed"
           /\ UNCHANGED <<theRunFlag, haltCallbacks>>
        \/ /\ process = "runs" /\ ~theRunFlag /\ process' = "ended"
           /\ haltCallbacks' = haltCallbacks + 1 /\ theRunFlag' = theRunFlag
    BY DEF vars, DecodeNothing, FetchFault, StartReturns
  <1>3. theRunFlag \in BOOLEAN /\ haltCallbacks \in Nat
    BY DEF IInv, TypeOK
  <1>4. HaltInv' /\ theRunFlag' \in BOOLEAN /\ haltCallbacks' \in Nat
        /\ process' \in {"runs", "ended", "crashed"}
    <2>1. theRunFlag' \in BOOLEAN /\ haltCallbacks' \in Nat
      <3>1. theRunFlag' = theRunFlag \/ theRunFlag' = FALSE  BY <1>2
      <3>2. haltCallbacks' = haltCallbacks \/ haltCallbacks' = haltCallbacks + 1  BY <1>2
      <3>3. theRunFlag' \in BOOLEAN  BY <1>3, <3>1
      <3>4. haltCallbacks' \in Nat  BY <1>3, <3>2
      <3>5. QED  BY <3>3, <3>4
    <2>2. process' \in {"runs", "ended", "crashed"}  BY <1>2 DEF IInv, TypeOK
    <2>3. HaltInv'  BY <1>2, <1>3 DEF IInv, HaltInv
    <2>4. QED  BY <2>1, <2>2, <2>3
  <1>5. TypeOK'
    BY <1>1, <1>4 DEF IInv, TypeOK, registers, Mapped
  <1>6. QED  BY <1>4, <1>5 DEF IInv

-----------------------------------------------------------------------------
(* The handlers.                                                           *)

\* What Retire takes from the handlers.
LEMMA FewCellsAccessed ==
  ASSUME IInv, NEW handlers, Decoding(handlers)
  PROVE  /\ FewCells(<<>>)
         /\ FewCells(OperandCells)
         /\ FewCells(<<OperandAddr>>) /\ FewCells(<<OperandAddr, OperandAddr>>)
         /\ FewCells(JumpCells)
         /\ \A n \in Int : FewCells(<<StackCell(n)>>)
         /\ \A n, m \in Int : FewCells(<<StackCell(n), StackCell(m)>>)
         /\ \A n, m, k \in Int : FewCells(<<StackCell(n), StackCell(m), StackCell(k)>>)
  <1>1. OperandAddr \in Int  BY OperandTypes, TypesAreIntegers DEF IInv
  <1>2. \A n \in Int : StackCell(n) \in Int
    BY ByteRange DEF IInv, TypeOK, StackCell, Low
  <1>3. JumpCells[1] \in Int /\ JumpCells[2] \in Int  BY <1>1 DEF JumpCells, High, Low
  <1>4. FewCells(<<>>) /\ \A a \in Int : FewCells(<<a>>)  BY DEF FewCells
  <1>5. \A a, b \in Int : FewCells(<<a, b>>)  BY DEF FewCells
  <1>6. \A a, b, c \in Int : FewCells(<<a, b, c>>)  BY DEF FewCells
  <1>7. JumpCells = <<JumpCells[1], JumpCells[2]>>  BY DEF JumpCells
  <1>8. FewCells(JumpCells)  BY <1>3, <1>5, <1>7
  <1>9. FewCells(OperandCells)  BY <1>1, <1>4 DEF OperandCells
  <1>10. QED  BY <1>1, <1>2, <1>4, <1>5, <1>6, <1>8, <1>9

LEMMA RetireExecutes ==
  ASSUME NEW cells, FewCells(cells), NEW extraClockCycles \in 0 .. 2, Retire(cells, extraClockCycles)
  PROVE  Executed
  BY DEF Executed, FewCells

LEMMA DelayIsSmall ==
  /\ \A modes : PageDelay(modes) \in 0 .. 2
  /\ \A condition : If(condition, 1) \in 0 .. 2 /\ If(condition, 2) \in 0 .. 2
  BY DEF PageDelay, If

LEMMA AdvanceIsTyped ==
  ASSUME IInv, thePc \in Mapped, Advance
  PROVE  thePc' \in CpuAddress
  <1>1. TypeOK /\ thePc \in Int  BY TypesAreIntegers DEF IInv, TypeOK
  <1>2. QED  BY <1>1, UpdatedPcIsAddress DEF Advance

LEMMA LogicKeepsIInv ==
  ASSUME IInv, Logic
  PROVE  IInv'
  <1>1. Decoding({"AND", "ORA", "EOR"}) /\ Info.theHandler \in {"AND", "ORA", "EOR"} /\ thePc \in Mapped
    BY DEF Logic, Decoding
  <1>2. Operand \in Byte /\ theAccum \in Byte  BY <1>1, OperandTypes DEF IInv, TypeOK
  <1>3. theAccum' \in Byte  BY <1>1, <1>2, BitwiseIsByte DEF Logic
  <1>4. theStatusReg' \in SUBSET Flags  BY SignZeroIsFlags DEF Logic, IInv, TypeOK
  <1>5. thePc' \in CpuAddress  BY <1>1, AdvanceIsTyped DEF Logic
  <1>6. StateOK'  BY <1>3, <1>4, <1>5 DEF Logic, StateOK, IInv, TypeOK, registers, Mapped
  <1>7. Executed  BY <1>1, FewCellsAccessed, DelayIsSmall, RetireExecutes DEF Logic
  <1>8. QED  BY <1>1, <1>6, <1>7, InstructionKeepsIInv

LEMMA ShiftedKeepsIInv ==
  ASSUME IInv, NEW handlers, Decoding(handlers), NEW shifted \in Byte, NEW carryOut,
         Shifted(shifted, carryOut)
  PROVE  IInv'
  <1>1. thePc \in Mapped  BY DEF Decoding
  <1>2. thePc' \in CpuAddress  BY <1>1, AdvanceIsTyped DEF Shifted
  <1>3. theStatusReg' \in SUBSET Flags
    <2>1. With(theStatusReg, "C", carryOut) \in SUBSET Flags  BY DEF With, Flags, IInv, TypeOK
    <2>2. QED  BY <2>1, SignZeroIsFlags DEF Shifted
  <1>4. CASE Info.theAddrMode = "IMP"
    <2>1. theAccum' = shifted /\ theMemory' = theMemory  BY <1>4 DEF Shifted
    <2>2. StateOK'  BY <1>2, <1>3, <2>1 DEF Shifted, StateOK, IInv, TypeOK, Mapped
    <2>3. Executed  BY <1>4, FewCellsAccessed, RetireExecutes DEF Shifted
    <2>4. QED  BY <2>2, <2>3, InstructionKeepsIInv
  <1>5. CASE Info.theAddrMode # "IMP"
    <2>1. theMemory' \in [Mapped -> Byte] /\ theAccum' = theAccum
      BY <1>5, WrittenIsMemory DEF Shifted, IInv
    <2>2. StateOK'  BY <1>2, <1>3, <2>1 DEF Shifted, StateOK, IInv, TypeOK, Mapped
    <2>3. Executed  BY <1>5, FewCellsAccessed, RetireExecutes DEF Shifted
    <2>4. QED  BY <2>2, <2>3, InstructionKeepsIInv
  <1>6. QED  BY <1>4, <1>5

LEMMA ShiftsKeepIInv ==
  ASSUME IInv, Rotate \/ Shift
  PROVE  IInv'
  <1>1. ASSUME NEW handlers, Decoding(handlers), NEW carryIn \in 0 .. 1, NEW carryOut,
               \/ Shifted(ShiftedLeft(ShiftOperand, carryIn), carryOut)
               \/ Shifted(ShiftedRight(ShiftOperand, carryIn), carryOut)
        PROVE  IInv'
    <2>1. ShiftOperand \in Byte  BY <1>1, OperandTypes DEF IInv
    <2>2. ShiftedLeft(ShiftOperand, carryIn) \in Byte /\ ShiftedRight(ShiftOperand, carryIn) \in Byte
      BY <1>1, <2>1, ShiftedIsByte
    <2>3. QED  BY <1>1, <2>2, ShiftedKeepsIInv
  <1>2. Carry(theStatusReg) \in 0 .. 1 /\ 0 \in 0 .. 1  BY CarryIsBit
  <1>3. CASE Rotate  BY <1>1, <1>2, <1>3 DEF Rotate
  <1>4. CASE Shift   BY <1>1, <1>2, <1>4 DEF Shift
  <1>5. QED  BY <1>3, <1>4

LEMMA LoadKeepsIInv ==
  ASSUME IInv, Load
  PROVE  IInv'
  <1>1. Decoding({"LDA", "LDX", "LDY"}) /\ Info.theHandler \in {"LDA", "LDX", "LDY"} /\ thePc \in Mapped
    BY DEF Load, Decoding
  <1>2. Operand \in Byte  BY <1>1, OperandTypes DEF IInv
  <1>3. theAccum' \in Byte /\ theRegX' \in Byte /\ theRegY' \in Byte
    BY <1>2 DEF Load, Loads, IInv, TypeOK
  <1>4. theStatusReg' \in SUBSET Flags  BY SignZeroIsFlags DEF Load, IInv, TypeOK
  <1>5. thePc' \in CpuAddress  BY <1>1, AdvanceIsTyped DEF Load
  <1>6. StateOK'  BY <1>3, <1>4, <1>5 DEF Load, StateOK, IInv, TypeOK, Mapped
  <1>7. Executed
    <2>1. PICK extraClockCycles \in 0 .. 2 : Retire(OperandCells, extraClockCycles)
      BY <1>1, DelayIsSmall DEF Load
    <2>2. QED  BY <1>1, <2>1, FewCellsAccessed, RetireExecutes
  <1>8. QED  BY <1>1, <1>6, <1>7, InstructionKeepsIInv

LEMMA StoreKeepsIInv ==
  ASSUME IInv, Store \/ handler_sax
  PROVE  IInv'
  <1>1. PICK handlers : Decoding(handlers)  BY DEF Store, handler_sax
  <1>2. thePc \in Mapped  BY <1>1 DEF Decoding
  <1>3. PICK b \in Byte : theMemory' = Written(OperandAddr, b)
    <2>1. CASE Store
      <3>1. Info.theHandler \in {"STA", "STX", "STY"}  BY <2>1 DEF Store, Decoding
      <3>2. theAccum \in Byte /\ theRegX \in Byte /\ theRegY \in Byte  BY DEF IInv, TypeOK
      <3>3. QED  BY <2>1, <3>1, <3>2 DEF Store
    <2>2. CASE handler_sax
      <3>1. BitAnd(theRegX, theAccum) \in Byte  BY BitwiseIsByte DEF IInv, TypeOK
      <3>2. QED  BY <2>2, <3>1 DEF handler_sax
    <2>3. QED  BY <2>1, <2>2
  <1>4. theMemory' \in [Mapped -> Byte]  BY <1>3, WrittenIsMemory DEF IInv
  <1>5. thePc' \in CpuAddress  BY <1>2, AdvanceIsTyped DEF Store, handler_sax
  <1>6. StateOK'  BY <1>4, <1>5 DEF Store, handler_sax, StateOK, IInv, TypeOK, registers, Mapped
  <1>7. Executed  BY <1>1, FewCellsAccessed, RetireExecutes DEF Store, handler_sax
  <1>8. QED  BY <1>1, <1>6, <1>7, InstructionKeepsIInv

LEMMA TransferKeepsIInv ==
  ASSUME IInv, Transfer
  PROVE  IInv'
  <1>1. PICK handlers : Decoding(handlers)  BY DEF Transfer
  <1>2. thePc \in Mapped  BY <1>1 DEF Decoding
  <1>3. /\ theAccum \in Byte /\ theRegX \in Byte /\ theRegY \in Byte /\ theStackPtr \in Byte
        /\ theStatusReg \in SUBSET Flags
    BY DEF IInv, TypeOK
  <1>4. /\ theAccum' \in Byte /\ theRegX' \in Byte /\ theRegY' \in Byte /\ theStackPtr' \in Byte
        /\ theStatusReg' \in SUBSET Flags
    <2>1. CASE Decoding({"TAX", "TAY", "TXA", "TYA", "TSX"}) /\ theStackPtr' = theStackPtr
      <3>1. Info.theHandler \in {"TAX", "TAY", "TXA", "TYA", "TSX"}  BY <2>1 DEF Decoding
      <3>2. ~ Decoding({"TXS"})  BY <3>1 DEF Decoding
      <3>3. PICK source \in Byte :
              /\ theAccum' = Loads({"TXA", "TYA"}, theAccum, source)
              /\ theRegX' = Loads({"TAX", "TSX"}, theRegX, source)
              /\ theRegY' = Loads({"TAY"}, theRegY, source)
              /\ theStatusReg' = SignZero(theStatusReg, source)
        BY <1>3, <3>1, <3>2 DEF Transfer
      <3>4. QED  BY <1>3, <2>1, <3>3, SignZeroIsFlags DEF Loads
    <2>2. CASE theStackPtr' = theRegX /\ UNCHANGED <<registers, theStatusReg>>
      BY <1>3, <2>2 DEF registers
    <2>3. QED  BY <2>1, <2>2 DEF Transfer
  <1>5. thePc' \in CpuAddress  BY <1>2, AdvanceIsTyped DEF Transfer
  <1>6. StateOK'  BY <1>4, <1>5 DEF Transfer, StateOK, IInv, TypeOK, Mapped
  <1>7. Executed  BY <1>1, FewCellsAccessed, RetireExecutes DEF Transfer
  <1>8. QED  BY <1>1, <1>6, <1>7, InstructionKeepsIInv

LEMMA CountMemoryKeepsIInv ==
  ASSUME IInv, CountMemory
  PROVE  IInv'
  <1>1. Decoding({"INC", "DEC"}) /\ thePc \in Mapped  BY DEF CountMemory, Decoding
  <1>2. Read(OperandAddr) \in Int  BY ReadIsByte, ByteRange DEF IInv
  <1>3. PICK counted \in Byte : /\ theMemory' = Written(OperandAddr, counted)
                               /\ theStatusReg' = SignZero(theStatusReg, counted)
    <2>1. Low(Read(OperandAddr) + (IF Info.theHandler = "INC" THEN 1 ELSE -1)) \in Byte
      <3>1. Read(OperandAddr) + (IF Info.theHandler = "INC" THEN 1 ELSE -1) \in Int  BY <1>2
      <3>2. QED  BY <3>1, LowIsByte
    <2>2. QED  BY <2>1 DEF CountMemory
  <1>4. theMemory' \in [Mapped -> Byte]  BY <1>3, WrittenIsMemory DEF IInv
  <1>5. theStatusReg' \in SUBSET Flags  BY <1>3, SignZeroIsFlags DEF IInv, TypeOK
  <1>6. thePc' \in CpuAddress  BY <1>1, AdvanceIsTyped DEF CountMemory
  <1>7. StateOK'  BY <1>4, <1>5, <1>6 DEF CountMemory, StateOK, IInv, TypeOK, registers, Mapped
  <1>8. Executed  BY <1>1, FewCellsAccessed, RetireExecutes DEF CountMemory
  <1>9. QED  BY <1>1, <1>7, <1>8, InstructionKeepsIInv

LEMMA CountRegisterKeepsIInv ==
  ASSUME IInv, CountRegister
  PROVE  IInv'
  <1>1. Decoding({"INX", "DEX", "INY", "DEY"}) /\ thePc \in Mapped  BY DEF CountRegister, Decoding
  <1> DEFINE Counted(register) == Low(register + (IF Info.theHandler \in {"INX", "INY"} THEN 1 ELSE -1))
  <1>2. ASSUME NEW register \in Byte
        PROVE  Counted(register) \in Byte
    <2>1. register + (IF Info.theHandler \in {"INX", "INY"} THEN 1 ELSE -1) \in Int
      BY <1>2, ByteRange
    <2>2. QED  BY <2>1, LowIsByte
  <1>3. theRegX \in Byte /\ theRegY \in Byte /\ theStatusReg \in SUBSET Flags  BY DEF IInv, TypeOK
  <1>4. /\ theRegX' = Loads({"INX", "DEX"}, theRegX, Counted(theRegX))
        /\ theRegY' = Loads({"INY", "DEY"}, theRegY, Counted(theRegY))
        /\ \E b : theStatusReg' = SignZero(theStatusReg, b)
    BY DEF CountRegister
  <1> HIDE DEF Counted
  <1>5. theRegX' \in Byte /\ theRegY' \in Byte  BY <1>2, <1>3, <1>4 DEF Loads
  <1>6. theStatusReg' \in SUBSET Flags  BY <1>3, <1>4, SignZeroIsFlags
  <1>7. thePc' \in CpuAddress  BY <1>1, AdvanceIsTyped DEF CountRegister
  <1>8. StateOK'  BY <1>5, <1>6, <1>7 DEF CountRegister, StateOK, IInv, TypeOK, Mapped
  <1>9. Executed  BY <1>1, FewCellsAccessed, RetireExecutes DEF CountRegister
  <1>10. QED  BY <1>1, <1>8, <1>9, InstructionKeepsIInv

LEMMA AddKeepsIInv ==
  ASSUME IInv, Add
  PROVE  IInv'
  <1>1. Decoding({"ADC", "SBC"}) /\ thePc \in Mapped  BY DEF Add, Decoding
  <1>2. PICK operand \in Byte : LET sum == Addition(theAccum, theStatusReg, operand)
                               IN theAccum' = sum.accum /\ theStatusReg' = sum.flags
    <2>1. Operand \in Byte  BY <1>1, OperandTypes DEF IInv
    <2>2. 255 - Operand \in Byte  BY <2>1 DEF Byte
    <2>3. QED  BY <2>1, <2>2 DEF Add
  <1>3. theAccum' \in Byte /\ theStatusReg' \in SUBSET Flags
    BY <1>2, AdditionIsExact DEF IInv, TypeOK
  <1>4. thePc' \in CpuAddress  BY <1>1, AdvanceIsTyped DEF Add
  <1>5. StateOK'  BY <1>3, <1>4 DEF Add, StateOK, IInv, TypeOK, Mapped
  <1>6. Executed  BY <1>1, FewCellsAccessed, DelayIsSmall, RetireExecutes DEF Add
  <1>7. QED  BY <1>1, <1>5, <1>6, InstructionKeepsIInv

LEMMA ChangeFlagKeepsIInv ==
  ASSUME IInv, ChangeFlag
  PROVE  IInv'
  <1>1. /\ Decoding({"CLC", "SEC", "CLI", "SEI", "CLD", "SED", "CLV"}) /\ thePc \in Mapped
        /\ Info.theHandler \in {"CLC", "SEC", "CLI", "SEI", "CLD", "SED", "CLV"}
    BY DEF ChangeFlag, Decoding
  <1>2. theStatusReg' \in SUBSET Flags
    BY <1>1 DEF ChangeFlag, With, Flags, IInv, TypeOK
  <1>3. thePc' \in CpuAddress  BY <1>1, AdvanceIsTyped DEF ChangeFlag
  <1>4. StateOK'  BY <1>2, <1>3 DEF ChangeFlag, StateOK, IInv, TypeOK, registers, Mapped
  <1>5. Executed  BY <1>1, FewCellsAccessed, RetireExecutes DEF ChangeFlag
  <1>6. QED  BY <1>1, <1>4, <1>5, InstructionKeepsIInv

LEMMA CompareKeepsIInv ==
  ASSUME IInv, Compare \/ handler_bit
  PROVE  IInv'
  <1>1. PICK handlers : Decoding(handlers)  BY DEF Compare, handler_bit
  <1>2. thePc \in Mapped  BY <1>1 DEF Decoding
  <1>3. theStatusReg' \in SUBSET Flags
    BY DEF Compare, handler_bit, Comparison, With, Flags, IInv, TypeOK
  <1>4. thePc' \in CpuAddress  BY <1>2, AdvanceIsTyped DEF Compare, handler_bit
  <1>5. StateOK'  BY <1>3, <1>4 DEF Compare, handler_bit, StateOK, IInv, TypeOK, registers, Mapped
  <1>6. Executed  BY <1>1, FewCellsAccessed, DelayIsSmall, RetireExecutes DEF Compare, handler_bit
  <1>7. QED  BY <1>1, <1>5, <1>6, InstructionKeepsIInv

LEMMA EmptyHandlerKeepsIInv ==
  ASSUME IInv, EmptyHandler
  PROVE  IInv'
  <1>1. PICK handlers : Decoding(handlers)  BY DEF EmptyHandler
  <1>2. thePc \in Mapped  BY <1>1 DEF Decoding
  <1>3. thePc' \in CpuAddress  BY <1>2, AdvanceIsTyped DEF EmptyHandler
  <1>4. StateOK'  BY <1>3 DEF EmptyHandler, StateOK, IInv, TypeOK, registers, Mapped
  <1>5. Executed  BY <1>1, FewCellsAccessed, RetireExecutes DEF EmptyHandler
  <1>6. QED  BY <1>1, <1>4, <1>5, InstructionKeepsIInv

LEMMA LaxKeepsIInv ==
  ASSUME IInv, handler_lax
  PROVE  IInv'
  <1>1. PICK handlers : Decoding(handlers)  BY DEF handler_lax
  <1>2. thePc \in Mapped  BY <1>1 DEF Decoding
  <1>3. theRegX' \in Byte /\ theAccum' \in Byte  BY ReadIsByte DEF handler_lax, IInv
  <1>4. theStatusReg' \in SUBSET Flags  BY SignZeroIsFlags DEF handler_lax, IInv, TypeOK
  <1>5. thePc' \in CpuAddress  BY <1>2, AdvanceIsTyped DEF handler_lax
  <1>6. StateOK'  BY <1>3, <1>4, <1>5 DEF handler_lax, StateOK, IInv, TypeOK, Mapped
  <1>7. Executed  BY <1>1, FewCellsAccessed, DelayIsSmall, RetireExecutes DEF handler_lax
  <1>8. QED  BY <1>1, <1>6, <1>7, InstructionKeepsIInv

\* Jumps, subroutines and branches.
LEMMA UpdatePcIsTyped ==
  ASSUME IInv, thePc \in Mapped, NEW pc \in Int, NEW n \in Int,
         UpdatePc(pc) \/ UpdatePc(pc - n)
  PROVE  thePc' \in CpuAddress
  <1>1. TypeOK /\ pc - n \in Int  BY DEF IInv
  <1>2. QED  BY <1>1, UpdatedPcIsAddress

LEMMA ReturnAddressIsBytes ==
  ASSUME IInv, thePc \in Mapped
  PROVE  High(ReturnAddress) \in Byte /\ Low(ReturnAddress) \in Byte
  <1>1. thePc + Info.theNumBytes - 1 \in Int
    BY InfoType, TypesAreIntegers DEF IInv, TypeOK
  <1>2. ReturnAddress \in CpuAddress  BY <1>1, WordIsAddress DEF ReturnAddress
  <1>3. ReturnAddress \in Int  BY <1>2, TypesAreIntegers
  <1>4. High(ReturnAddress) \in Byte  BY <1>2, HighIsByte
  <1>5. QED  BY <1>3, <1>4, LowIsByte

LEMMA JumpsKeepIInv ==
  ASSUME IInv, handler_jmp \/ handler_jsr \/ handler_rts \/ Branch
  PROVE  IInv'
  <1>1. PICK handlers : Decoding(handlers)  BY DEF handler_jmp, handler_jsr, handler_rts, Branch
  <1>2. thePc \in Mapped /\ Info.theNumBytes \in Int  BY <1>1, InfoType DEF Decoding, IInv
  <1>3. OperandAddr \in Int /\ thePc \in Int
    BY <1>1, OperandTypes, TypesAreIntegers DEF IInv, TypeOK
  <1>4. \A a, b : Read(a) + 256 * Read(b) \in Int /\ 256 * Read(a) + Read(b) \in Int
    <2>1. \A a : Read(a) \in Int  BY ReadIsByte, ByteRange DEF IInv
    <2>2. QED  BY <2>1
  <1>5. thePc' \in CpuAddress
    <2>1. PICK pc \in Int, n \in Int : UpdatePc(pc) \/ UpdatePc(pc - n)
      <3>1. CASE handler_jmp
        <4> DEFINE target == Read(JumpCells[1]) + 256 * Read(JumpCells[2]) - Info.theNumBytes
        <4>1. UpdatePc(OperandAddr - Info.theNumBytes) \/ UpdatePc(target)
          BY <3>1 DEF handler_jmp
        <4>2. target \in Int
          <5>1. Read(JumpCells[1]) \in Int /\ Read(JumpCells[2]) \in Int
            BY ReadIsByte, ByteRange DEF IInv
          <5>2. QED  BY <1>2, <5>1
        <4> HIDE DEF target
        <4>3. QED  BY <1>2, <1>3, <4>1, <4>2
      <3>2. CASE handler_jsr
        <4>1. UpdatePc(OperandAddr - Info.theNumBytes)  BY <3>2 DEF handler_jsr
        <4>2. QED  BY <1>2, <1>3, <4>1
      <3>3. CASE handler_rts
        <4>1. UpdatePc(Read(StackCell(1)) + 256 * Read(StackCell(2)))  BY <3>3 DEF handler_rts
        <4> DEFINE target == Read(StackCell(1)) + 256 * Read(StackCell(2))
        <4>2. target \in Int /\ UpdatePc(target)  BY <1>4, <4>1
        <4> HIDE DEF target
        <4>3. QED  BY <4>2
      <3>4. CASE Branch
        <4>1. UpdatePc(OperandAddr) \/ UpdatePc(thePc)  BY <3>4 DEF Branch
        <4>2. QED  BY <1>3, <4>1
      <3>5. QED  BY <3>1, <3>2, <3>3, <3>4
    <2>2. QED  BY <1>2, <2>1, UpdatePcIsTyped
  <1>6. theMemory' \in [Mapped -> Byte] /\ theStackPtr' \in Byte
    <2>1. theStackPtr \in Byte /\ theMemory \in [Mapped -> Byte]  BY DEF IInv, TypeOK
    <2>2. CASE handler_jsr
      <3>1. \A k \in DOMAIN <<High(ReturnAddress), Low(ReturnAddress)>> :
              <<High(ReturnAddress), Low(ReturnAddress)>>[k] \in Byte
        BY <1>2, ReturnAddressIsBytes
      <3>2. theMemory' \in [Mapped -> Byte]  BY <2>2, <3>1, PushedIsMemory DEF handler_jsr, IInv
      <3>3. theStackPtr - 2 \in Int  BY <2>1, ByteRange
      <3>4. QED  BY <2>2, <3>2, <3>3, LowIsByte DEF handler_jsr
    <2>3. CASE handler_rts
      <3>1. theStackPtr + 2 \in Int  BY <2>1, ByteRange
      <3>2. QED  BY <2>1, <2>3, <3>1, LowIsByte DEF handler_rts
    <2>4. CASE handler_jmp \/ Branch
      BY <2>1, <2>4 DEF handler_jmp, Branch
    <2>5. QED  BY <2>2, <2>3, <2>4
  <1>7. UNCHANGED <<registers, theStatusReg>> /\ Mapped' = Mapped
    BY <1>6 DEF handler_jmp, handler_jsr, handler_rts, Branch, Mapped
  <1>8. StateOK'  BY <1>5, <1>6, <1>7 DEF StateOK, IInv, TypeOK, registers
  <1>9. Executed
    <2>1. CASE handler_jmp  BY <1>1, <2>1, FewCellsAccessed, RetireExecutes DEF handler_jmp
    <2>2. CASE handler_jsr  BY <1>1, <2>2, FewCellsAccessed, RetireExecutes DEF handler_jsr
    <2>3. CASE handler_rts  BY <1>1, <2>3, FewCellsAccessed, RetireExecutes DEF handler_rts
    <2>4. CASE Branch
      <3>1. PICK extraClockCycles \in 0 .. 2 : Retire(<<>>, extraClockCycles)
        BY <2>4 DEF Branch, If
      <3>2. QED  BY <1>1, <3>1, FewCellsAccessed, RetireExecutes
    <2>5. QED  BY <2>1, <2>2, <2>3, <2>4
  <1>10. QED  BY <1>1, <1>8, <1>9, InstructionKeepsIInv

\* The stack.
LEMMA BytesOfTuple ==
  /\ \A b \in Byte : \A k \in DOMAIN <<b>> : <<b>>[k] \in Byte
  /\ \A b, c \in Byte : \A k \in DOMAIN <<b, c>> : <<b, c>>[k] \in Byte
  /\ \A b, c, d \in Byte : \A k \in DOMAIN <<b, c, d>> : <<b, c, d>>[k] \in Byte
  OBVIOUS

LEMMA StatusFlagsAreFlags ==
  ASSUME NEW b
  PROVE  StatusFlags(b) \in SUBSET Flags
  BY DEF StatusFlags

LEMMA StackPtrIsByte ==
  ASSUME IInv, NEW n \in Int
  PROVE  Low(theStackPtr + n) \in Byte /\ Low(theStackPtr - n) \in Byte
  <1>1. theStackPtr + n \in Int /\ theStackPtr - n \in Int  BY ByteRange DEF IInv, TypeOK
  <1>2. QED  BY <1>1, LowIsByte

LEMMA PushKeepsIInv ==
  ASSUME IInv, Push
  PROVE  IInv'
  <1>1. Decoding({"PHA", "PHP"}) /\ thePc \in Mapped  BY DEF Push, Decoding
  <1>2. PICK b \in Byte : theMemory' = Pushed(<<b>>)
    BY StatusByteIsByte DEF Push, PushedStatus, IInv, TypeOK
  <1>3. theMemory' \in [Mapped -> Byte]  BY <1>2, BytesOfTuple, PushedIsMemory DEF IInv
  <1>4. theStackPtr' \in Byte  BY StackPtrIsByte DEF Push
  <1>5. thePc' \in CpuAddress  BY <1>1, AdvanceIsTyped DEF Push
  <1>6. StateOK'  BY <1>3, <1>4, <1>5 DEF Push, StateOK, IInv, TypeOK, registers, Mapped
  <1>7. Executed  BY <1>1, FewCellsAccessed, RetireExecutes DEF Push
  <1>8. QED  BY <1>1, <1>6, <1>7, InstructionKeepsIInv

LEMMA PullKeepsIInv ==
  ASSUME IInv, Pull
  PROVE  IInv'
  <1>1. PICK handlers : Decoding(handlers)  BY DEF Pull
  <1>2. thePc \in Mapped  BY <1>1 DEF Decoding
  <1>3. theAccum' \in Byte /\ theStatusReg' \in SUBSET Flags
    <2>1. theAccum \in Byte /\ theStatusReg \in SUBSET Flags  BY DEF IInv, TypeOK
    <2>2. Read(StackCell(1)) \in Byte  BY ReadIsByte DEF IInv
    <2>3. CASE theAccum' = Read(StackCell(1)) /\ theStatusReg' = SignZero(theStatusReg, theAccum')
      BY <2>1, <2>2, <2>3, SignZeroIsFlags
    <2>4. CASE /\ theStatusReg' = (StatusFlags(Read(StackCell(1))) \ {"B", "U"})
                                  \union (theStatusReg \intersect {"B", "U"})
               /\ theAccum' = theAccum
      BY <2>1, <2>4, StatusFlagsAreFlags
    <2>5. QED  BY <2>3, <2>4 DEF Pull
  <1>4. theStackPtr' \in Byte  BY StackPtrIsByte DEF Pull
  <1>5. thePc' \in CpuAddress  BY <1>2, AdvanceIsTyped DEF Pull
  <1>6. StateOK'  BY <1>3, <1>4, <1>5 DEF Pull, StateOK, IInv, TypeOK, Mapped
  <1>7. Executed  BY <1>1, FewCellsAccessed, RetireExecutes DEF Pull
  <1>8. QED  BY <1>1, <1>6, <1>7, InstructionKeepsIInv

LEMMA RtiKeepsIInv ==
  ASSUME IInv, handler_rti
  PROVE  IInv'
  <1>1. Decoding({"RTI"}) /\ thePc \in Mapped  BY DEF handler_rti, Decoding
  <1>2. theStatusReg' \in SUBSET Flags
    BY StatusFlagsAreFlags DEF handler_rti, IInv, TypeOK
  <1>3. thePc' \in CpuAddress
    <2> DEFINE target == Read(StackCell(2)) + 256 * Read(StackCell(3)) - Info.theNumBytes
    <2>1. Read(StackCell(2)) \in Int /\ Read(StackCell(3)) \in Int  BY ReadIsByte, ByteRange DEF IInv
    <2>2. Info.theNumBytes \in Int  BY <1>1, InfoType DEF IInv
    <2>3. target \in Int  BY <2>1, <2>2
    <2>4. UpdatePc(target)  BY DEF handler_rti
    <2> HIDE DEF target
    <2>5. 0 \in Int  OBVIOUS
    <2>6. QED  BY <1>1, <2>3, <2>4, <2>5, UpdatePcIsTyped
  <1>4. theStackPtr' \in Byte  BY StackPtrIsByte DEF handler_rti
  <1>5. StateOK'  BY <1>2, <1>3, <1>4 DEF handler_rti, StateOK, IInv, TypeOK, registers, Mapped
  <1>6. Executed  BY <1>1, FewCellsAccessed, RetireExecutes DEF handler_rti
  <1>7. QED  BY <1>1, <1>5, <1>6, InstructionKeepsIInv

\* BRK accesses five cells, but has no operand with a pointer.
LEMMA BrkKeepsIInv ==
  ASSUME IInv, handler_brk
  PROVE  IInv'
  <1>1. Decoding({"BRK"}) /\ thePc \in Mapped /\ Info.theHandler = "BRK"
    BY DEF handler_brk, Decoding
  <1>2. Info.theAddrMode = "IMP"  BY <1>1, InfoType DEF IInv
  <1>3. theMemory' \in [Mapped -> Byte]
    <2>1. /\ High(ReturnAddress) \in Byte /\ Low(ReturnAddress) \in Byte
          /\ PushedStatus \in Byte
      BY <1>1, ReturnAddressIsBytes, StatusByteIsByte DEF PushedStatus
    <2>2. QED  BY <2>1, BytesOfTuple, PushedIsMemory DEF handler_brk, IInv
  <1>4. theStatusReg' \in SUBSET Flags  BY DEF handler_brk, Flags, IInv, TypeOK
  <1>5. theStackPtr' \in Byte  BY StackPtrIsByte DEF handler_brk
  <1>6. thePc' \in CpuAddress
    <2> DEFINE target == Read(65534) + 256 * Read(65535)
    <2>1. Read(65534) \in Int /\ Read(65535) \in Int  BY ReadIsByte, ByteRange DEF IInv
    <2>2. target \in Int  BY <2>1
    <2>3. UpdatePc(target)  BY DEF handler_brk
    <2> HIDE DEF target
    <2>4. 0 \in Int  OBVIOUS
    <2>5. QED  BY <1>1, <2>2, <2>3, <2>4, UpdatePcIsTyped
  <1>7. StateOK'  BY <1>3, <1>4, <1>5, <1>6 DEF handler_brk, StateOK, IInv, TypeOK, registers, Mapped
  <1> DEFINE cells == <<StackCell(0), StackCell(-1), StackCell(-2), 65535, 65534>>
  <1>8. FewCells(cells)
    <2>1. \A n \in Int : StackCell(n) \in Int  BY ByteRange DEF IInv, TypeOK, StackCell, Low
    <2>2. \A a, b, c, d, e \in Int : <<a, b, c, d, e>> \in Seq(Int) /\ Len(<<a, b, c, d, e>>) = 5
      OBVIOUS
    <2>3. cells \in Seq(Int) /\ Len(cells) = 5  BY <2>1, <2>2
    <2>4. QED  BY <1>2, <2>3 DEF FewCells
  <1>9. Executed  BY <1>8, RetireExecutes DEF handler_brk
  <1>10. QED  BY <1>1, <1>7, <1>9, InstructionKeepsIInv

\* The unofficial op-codes that combine a byte in memory with the accumulator.
LEMMA CombinedKeepsIInv ==
  ASSUME IInv, NEW handlers, Decoding(handlers), NEW b \in Byte, NEW result,
         result.accum \in Byte, result.flags \in SUBSET Flags,
         NEW extraClockCycles \in 0 .. 2, Combined(b, result, extraClockCycles)
  PROVE  IInv'
  <1>1. thePc \in Mapped  BY DEF Decoding
  <1>2. theMemory' \in [Mapped -> Byte]  BY WrittenIsMemory DEF Combined, IInv
  <1>3. thePc' \in CpuAddress  BY <1>1, AdvanceIsTyped DEF Combined
  <1>4. StateOK'  BY <1>2, <1>3 DEF Combined, StateOK, IInv, TypeOK, Mapped
  <1>5. Executed  BY FewCellsAccessed, RetireExecutes DEF Combined
  <1>6. QED  BY <1>4, <1>5, InstructionKeepsIInv

\* A byte combined by a logical operation.
LEMMA LogicalResult ==
  ASSUME IInv, NEW b \in Byte, NEW condition, NEW accum \in Byte
  PROVE  LET flags == With(theStatusReg, "C", condition)
             result == [accum |-> accum, flags |-> SignZero(flags, accum)]
         IN  result.accum \in Byte /\ result.flags \in SUBSET Flags
  <1>1. With(theStatusReg, "C", condition) \in SUBSET Flags  BY DEF With, Flags, IInv, TypeOK
  <1>2. QED  BY <1>1, SignZeroIsFlags

LEMMA ShiftCombinedKeepsIInv ==
  ASSUME IInv, handler_rla \/ handler_sre \/ handler_slo
  PROVE  IInv'
  <1>1. PICK handlers : Decoding(handlers)  BY DEF handler_rla, handler_sre, handler_slo
  <1>2. \A carryIn \in 0 .. 1 : ShiftedLeft(Read(OperandAddr), carryIn) \in Byte
                               /\ ShiftedRight(Read(OperandAddr), carryIn) \in Byte
    BY ReadIsByte, ShiftedIsByte DEF IInv
  <1>3. theAccum \in Byte  BY DEF IInv, TypeOK
  <1>4. PICK b \in Byte, accum \in Byte, condition \in BOOLEAN :
          Combined(b, [accum |-> accum,
                       flags |-> SignZero(With(theStatusReg, "C", condition), accum)], 0)
    <2>1. CASE handler_rla
      <3>1. Carry(theStatusReg) \in 0 .. 1  BY CarryIsBit
      <3> DEFINE b == ShiftedLeft(Read(OperandAddr), Carry(theStatusReg))
                 accum == BitAnd(theAccum, b)
                 condition == Bit(Read(OperandAddr), 128) = 1
      <3>2. b \in Byte  BY <1>2, <3>1
      <3> HIDE DEF b
      <3>3. accum \in Byte  BY <1>3, <3>2, BitwiseIsByte
      <3>4. condition \in BOOLEAN  OBVIOUS
      <3>5. Combined(b, [accum |-> accum,
                         flags |-> SignZero(With(theStatusReg, "C", condition), accum)], 0)
        BY <2>1 DEF handler_rla, b
      <3> HIDE DEF accum, condition
      <3>6. QED  BY <3>2, <3>3, <3>4, <3>5
    <2>2. CASE handler_sre
      <3> DEFINE b == ShiftedRight(Read(OperandAddr), 0)
                 accum == BitXor(theAccum, b)
                 condition == Bit(Read(OperandAddr), 1) = 1
      <3>2. b \in Byte  BY <1>2
      <3> HIDE DEF b
      <3>3. accum \in Byte  BY <1>3, <3>2, BitwiseIsByte
      <3>4. condition \in BOOLEAN  OBVIOUS
      <3>5. Combined(b, [accum |-> accum,
                         flags |-> SignZero(With(theStatusReg, "C", condition), accum)], 0)
        BY <2>2 DEF handler_sre, b
      <3> HIDE DEF accum, condition
      <3>6. QED  BY <3>2, <3>3, <3>4, <3>5
    <2>3. CASE handler_slo
      <3> DEFINE b == ShiftedLeft(Read(OperandAddr), 0)
                 accum == BitOr(theAccum, b)
                 condition == Bit(Read(OperandAddr), 128) = 1
      <3>2. b \in Byte  BY <1>2
      <3> HIDE DEF b
      <3>3. accum \in Byte  BY <1>3, <3>2, BitwiseIsByte
      <3>4. condition \in BOOLEAN  OBVIOUS
      <3>5. Combined(b, [accum |-> accum,
                         flags |-> SignZero(With(theStatusReg, "C", condition), accum)], 0)
        BY <2>3 DEF handler_slo, b
      <3> HIDE DEF accum, condition
      <3>6. QED  BY <3>2, <3>3, <3>4, <3>5
    <2>4. QED  BY <2>1, <2>2, <2>3
  <1> DEFINE result == [accum |-> accum,
                        flags |-> SignZero(With(theStatusReg, "C", condition), accum)]
  <1>5. result.accum \in Byte /\ result.flags \in SUBSET Flags  BY LogicalResult
  <1>6. Combined(b, result, 0) /\ 0 \in 0 .. 2  BY <1>4
  <1> HIDE DEF result
  <1>7. QED  BY <1>1, <1>5, <1>6, CombinedKeepsIInv

LEMMA SumCombinedKeepsIInv ==
  ASSUME IInv, handler_rra \/ handler_isc
  PROVE  IInv'
  <1>1. PICK handlers : Decoding(handlers)  BY DEF handler_rra, handler_isc
  <1>2. Read(OperandAddr) \in Byte  BY ReadIsByte DEF IInv
  <1>3. theAccum \in Byte /\ theStatusReg \in SUBSET Flags  BY DEF IInv, TypeOK
  <1>4. PICK b \in Byte, operand \in Byte, flags \in SUBSET Flags, extraClockCycles \in 0 .. 2 :
          Combined(b, Addition(theAccum, flags, operand), extraClockCycles)
    <2>1. CASE handler_rra
      <3> DEFINE b == ShiftedRight(Read(OperandAddr), Carry(theStatusReg))
                 flags == With(theStatusReg, "C", Read(OperandAddr) % 2 = 1)
                 extraClockCycles == PageDelay({"ABX", "ABY", "INY"})
      <3>1. b \in Byte  BY <1>2, CarryIsBit, ShiftedIsByte
      <3>2. flags \in SUBSET Flags  BY <1>3 DEF With, Flags
      <3>3. extraClockCycles \in 0 .. 2  BY DelayIsSmall
      <3>4. Combined(b, Addition(theAccum, flags, b), extraClockCycles)  BY <2>1 DEF handler_rra
      <3> HIDE DEF b, flags, extraClockCycles
      <3>5. QED  BY <3>1, <3>2, <3>3, <3>4
    <2>2. CASE handler_isc
      <3> DEFINE b == Low(Read(OperandAddr) + 1)
      <3>1. Read(OperandAddr) + 1 \in Int  BY <1>2, ByteRange
      <3>2. b \in Byte  BY <3>1, LowIsByte
      <3>3. Combined(b, Addition(theAccum, theStatusReg, 255 - b), 0)  BY <2>2 DEF handler_isc
      <3> HIDE DEF b
      <3>4. 255 - b \in Byte  BY <3>2 DEF Byte
      <3>5. 0 \in 0 .. 2  OBVIOUS
      <3>6. QED  BY <1>3, <3>2, <3>3, <3>4, <3>5
    <2>3. QED  BY <2>1, <2>2
  <1> DEFINE result == Addition(theAccum, flags, operand)
  <1>5. result.accum \in Byte /\ result.flags \in SUBSET Flags  BY <1>3, AdditionIsExact
  <1>6. Combined(b, result, extraClockCycles)  BY <1>4
  <1> HIDE DEF result
  <1>7. QED  BY <1>1, <1>5, <1>6, CombinedKeepsIInv

LEMMA DcpKeepsIInv ==
  ASSUME IInv, handler_dcp
  PROVE  IInv'
  <1>1. PICK handlers : Decoding(handlers)  BY DEF handler_dcp
  <1> DEFINE b == Low(Read(OperandAddr) - 1)
             result == [accum |-> theAccum, flags |-> Comparison(theStatusReg, theAccum, b)]
  <1>2. Read(OperandAddr) - 1 \in Int  BY ReadIsByte, ByteRange DEF IInv
  <1>3. b \in Byte  BY <1>2, LowIsByte
  <1>4. Combined(b, result, 0) /\ 0 \in 0 .. 2  BY DEF handler_dcp
  <1> HIDE DEF b
  <1>5. result.accum \in Byte /\ result.flags \in SUBSET Flags
    BY <1>3, ComparisonIsExact DEF IInv, TypeOK
  <1> HIDE DEF result
  <1>6. QED  BY <1>1, <1>3, <1>4, <1>5, CombinedKeepsIInv

-----------------------------------------------------------------------------
(* The invariant and what it implies.                                      *)

LEMMA InitIInv ==
  ASSUME Init
  PROVE  IInv
  <1>1. theMemory \in [Mapped -> Byte] /\ Mapped \subseteq CpuAddress
    BY MemoriesAssumption DEF Init, Mapped
  <1>2. thePc \in CpuAddress /\ theOperandAddr \in CpuAddress /\ theNumberOfStepsToTrace \in Nat
    BY StartAssumption, StepLimitsAssumption, UninitializedAssumption DEF Init
  <1>3. TypeOK  BY <1>1, <1>2 DEF Init, TypeOK, Byte, Flags
  <1>4. HaltInv  BY DEF Init, HaltInv
  <1>5. QED  BY <1>3, <1>4 DEF IInv

LEMMA NextIInv ==
  ASSUME IInv, [Next]_vars
  PROVE  IInv'
  <1>1. CASE Official
    BY <1>1, LogicKeepsIInv, ShiftsKeepIInv, LoadKeepsIInv, StoreKeepsIInv, TransferKeepsIInv,
       CountMemoryKeepsIInv, CountRegisterKeepsIInv, AddKeepsIInv, ChangeFlagKeepsIInv,
       CompareKeepsIInv, JumpsKeepIInv, RtiKeepsIInv, PushKeepsIInv, PullKeepsIInv, BrkKeepsIInv,
       EmptyHandlerKeepsIInv
    DEF Official
  <1>2. CASE Unofficial
    BY <1>2, SumCombinedKeepsIInv, ShiftCombinedKeepsIInv, DcpKeepsIInv, StoreKeepsIInv, LaxKeepsIInv
    DEF Unofficial
  <1>3. CASE DecodeNothing \/ FetchFault \/ StartReturns \/ UNCHANGED vars
    BY <1>3, NoInstructionKeepsIInv
  <1>4. QED  BY <1>1, <1>2, <1>3 DEF Next, Decode

\* Registers, flags, addresses and memory keep their width, whatever program runs.
THEOREM TypeCorrect == Spec => []TypeOK
  <1>1. Init => IInv  BY InitIInv
  <1>2. IInv /\ [Next]_vars => IInv'  BY NextIInv
  <1>3. IInv => TypeOK  BY DEF IInv
  <1>4. QED  BY <1>1, <1>2, <1>3, PTL DEF Spec

\* Nothing runs after a halt, and the callbacks are called twice to seven times.
THEOREM HaltStopsCorrect == Spec => []HaltStops
  <1>1. Init => IInv  BY InitIInv
  <1>2. IInv /\ [Next]_vars => IInv'  BY NextIInv
  <1>3. IInv => HaltStops  BY DEF IInv, HaltInv, TypeOK, HaltStops
  <1>4. QED  BY <1>1, <1>2, <1>3, PTL DEF Spec

-----------------------------------------------------------------------------
(* Which action executes an op-code.                                       *)

OtherHandlers == {"AND", "ORA", "EOR", "ROL", "ROR", "ASL", "LSR", "LDA", "LDX", "LDY", "STA", "STX",
                  "STY", "TAX", "TAY", "TXA", "TYA", "TSX", "TXS", "INC", "DEC", "INX", "DEX", "INY",
                  "DEY", "CLC", "SEC", "CLI", "SEI", "CLD", "SED", "CLV", "BIT", "PHA", "PHP", "PLA",
                  "PLP", "SAX", "LAX", "NOP", "KIL", "ANC", "ARR", "ALR", "AHX", "TAS", "XAA", "AXS",
                  "SHX", "SHY", "LAS"}
UnofficialHandlers == {"RRA", "RLA", "SRE", "SLO", "DCP", "ISC"}

\* The handlers that only move on are told from the ones the theorems below are about.
LEMMA ExecutingAction ==
  ASSUME Next, NEW handlers, Decoding(handlers)
  PROVE  \/ Add /\ Advance /\ Info.theHandler \in {"ADC", "SBC"}
         \/ Compare /\ Advance /\ Info.theHandler \in {"CMP", "CPX", "CPY"}
         \/ handler_jmp /\ Info.theHandler = "JMP"
         \/ handler_jsr /\ Info.theHandler = "JSR"
         \/ Branch /\ Info.theHandler \in DOMAIN BranchTest
         \/ Info.theHandler \in {"RTS", "RTI", "BRK"}
         \/ Unofficial /\ Advance /\ Info.theHandler \in UnofficialHandlers
         \/ Advance /\ Info.theHandler \in OtherHandlers
  <1> DEFINE Other == Advance /\ Info.theHandler \in OtherHandlers
  <1>1. ASSUME Logic \/ Rotate \/ Shift
        PROVE  Other
    BY <1>1 DEF Logic, Rotate, Shift, Shifted, Decoding, OtherHandlers
  <1>2. ASSUME Load \/ Store \/ Transfer
        PROVE  Other
    BY <1>2 DEF Load, Store, Transfer, Decoding, OtherHandlers
  <1>3. ASSUME CountMemory \/ CountRegister \/ ChangeFlag \/ handler_bit
        PROVE  Other
    BY <1>3 DEF CountMemory, CountRegister, ChangeFlag, handler_bit, Decoding, OtherHandlers
  <1>4. ASSUME Push \/ Pull \/ EmptyHandler \/ handler_sax \/ handler_lax
        PROVE  Other
    BY <1>4 DEF Push, Pull, EmptyHandler, handler_sax, handler_lax, Decoding, OtherHandlers
  <1>5. Add => Advance /\ Info.theHandler \in {"ADC", "SBC"}
    BY DEF Add, Decoding
  <1>6. Compare => Advance /\ Info.theHandler \in {"CMP", "CPX", "CPY"}
    BY DEF Compare, Decoding
  <1>7. /\ handler_jmp => Info.theHandler = "JMP"
        /\ handler_jsr => Info.theHandler = "JSR"
        /\ Branch => Info.theHandler \in DOMAIN BranchTest
    BY DEF handler_jmp, handler_jsr, Branch, Decoding
  <1>8. handler_rts \/ handler_rti \/ handler_brk => Info.theHandler \in {"RTS", "RTI", "BRK"}
    BY DEF handler_rts, handler_rti, handler_brk, Decoding
  <1>9. handler_rra \/ handler_rla \/ handler_sre \/ handler_slo \/ handler_dcp \/ handler_isc
          => Advance /\ Info.theHandler \in UnofficialHandlers
    BY DEF handler_rra, handler_rla, handler_sre, handler_slo, handler_dcp, handler_isc, Combined,
           Decoding, UnofficialHandlers
  <1>10. ~DecodeNothing /\ ~FetchFault /\ ~StartReturns
    BY DEF DecodeNothing, FetchFault, StartReturns, Decoding
  <1>11. CASE Official
    BY <1>1, <1>2, <1>3, <1>4, <1>5, <1>6, <1>7, <1>8, <1>11 DEF Official
  <1>12. CASE Unofficial
    BY <1>4, <1>9, <1>12 DEF Unofficial
  <1>13. QED  BY <1>10, <1>11, <1>12 DEF Next, Decode

-----------------------------------------------------------------------------
(* Arithmetic.                                                             *)

\* A sum with the complement of z is a difference, and its carry is a borrow.
LEMMA CarryIsBorrow ==
  ASSUME NEW x \in Int, NEW y \in Int, NEW z \in Int, NEW u \in Int, NEW v \in Int,
         256 * v + y = x + (255 - z) + u
  PROVE  y - 256 * (1 - v) = x - z - (1 - u)
  OBVIOUS

LEMMA AddIsExact ==
  ASSUME IInv, Add
  PROVE  ExactStep
  <1>1. Decoding({"ADC", "SBC"})  BY DEF Add
  <1>2. /\ theAccum \in Byte /\ theStatusReg \in SUBSET Flags /\ Operand \in Byte
    BY <1>1, OperandTypes DEF IInv, TypeOK
  <1> DEFINE c == Carry(theStatusReg)
             carryOut == Carry(theStatusReg')
  <1>3. c \in 0 .. 1 /\ carryOut \in 0 .. 1  BY CarryIsBit
  <1>4. ~Decoding({"CMP", "CPX", "CPY"})  BY <1>1 DEF Decoding
  <1>5. ASSUME Decoding({"ADC"})
        PROVE  /\ 256 * carryOut + theAccum' = theAccum + Operand + c
               /\ "V" \in theStatusReg' <=>
                    SignedByte(theAccum) + SignedByte(Operand) + c \notin -128 .. 127
               /\ SignAndZeroOf(theAccum')
    <2>1. Info.theHandler = "ADC"  BY <1>5 DEF Decoding
    <2>2. /\ theAccum' = Addition(theAccum, theStatusReg, Operand).accum
          /\ theStatusReg' = Addition(theAccum, theStatusReg, Operand).flags
      BY <2>1 DEF Add
    <2>3. QED  BY <1>2, <2>2, AdditionIsExact DEF SignAndZeroOf
  <1>6. ASSUME Decoding({"SBC"})
        PROVE  /\ theAccum' - 256 * (1 - carryOut) = theAccum - Operand - (1 - c)
               /\ "V" \in theStatusReg' <=>
                    SignedByte(theAccum) - SignedByte(Operand) - (1 - c) \notin -128 .. 127
               /\ SignAndZeroOf(theAccum')
    <2> DEFINE operand == 255 - Operand
    <2>1. Info.theHandler = "SBC"  BY <1>6 DEF Decoding
    <2>2. /\ theAccum' = Addition(theAccum, theStatusReg, operand).accum
          /\ theStatusReg' = Addition(theAccum, theStatusReg, operand).flags
      BY <2>1 DEF Add
    <2>3. operand \in Byte  BY <1>2 DEF Byte
    <2>4. /\ theAccum' \in Byte
          /\ 256 * carryOut + theAccum' = theAccum + operand + c
          /\ "V" \in theStatusReg' <=>
               SignedByte(theAccum) + SignedByte(operand) + c \notin -128 .. 127
          /\ SignAndZeroOf(theAccum')
      <3> HIDE DEF operand
      <3>1. QED  BY <1>2, <2>2, <2>3, AdditionIsExact DEF SignAndZeroOf
    <2>5. SignedByte(operand) = -1 - SignedByte(Operand)
      BY <1>2 DEF SignedByte, Byte
    <2>6. SignedByte(theAccum) \in Int /\ SignedByte(Operand) \in Int
      BY <1>2 DEF SignedByte, Byte
    <2> HIDE DEF c, carryOut
    <2>7. theAccum' - 256 * (1 - carryOut) = theAccum - Operand - (1 - c)
      <3>1. 256 * carryOut + theAccum' = theAccum + (255 - Operand) + c  BY <2>4
      <3>2. PICK x \in Int, y \in Int, z \in Int, u \in Int, v \in Int :
              x = theAccum /\ y = theAccum' /\ z = Operand /\ u = c /\ v = carryOut
        BY <1>2, <1>3, <2>4, ByteRange
      <3>3. 256 * v + y = x + (255 - z) + u  BY <3>1, <3>2
      <3>4. y - 256 * (1 - v) = x - z - (1 - u)  BY <3>3, CarryIsBorrow
      <3>5. QED  BY <3>2, <3>4
    <2>8. SignedByte(theAccum) + SignedByte(operand) + c
            = SignedByte(theAccum) - SignedByte(Operand) - (1 - c)
      <3> HIDE DEF operand
      <3>1. QED  BY <1>3, <2>5, <2>6
    <2>9. QED  BY <2>4, <2>7, <2>8
  <1>7. QED  BY <1>4, <1>5, <1>6 DEF ExactStep

LEMMA CompareIsExact ==
  ASSUME IInv, Compare
  PROVE  ExactStep
  <1>1. Decoding({"CMP", "CPX", "CPY"}) /\ Info.theHandler \in {"CMP", "CPX", "CPY"}
    BY DEF Compare, Decoding
  <1>2. ~Decoding({"ADC"}) /\ ~Decoding({"SBC"})  BY <1>1 DEF Decoding
  <1> DEFINE register == CASE Decoding({"CMP"}) -> theAccum [] Decoding({"CPX"}) -> theRegX
                           [] OTHER -> theRegY
  <1>3. /\ theStatusReg \in SUBSET Flags /\ Operand \in Byte
        /\ theAccum \in Byte /\ theRegX \in Byte /\ theRegY \in Byte
    BY <1>1, OperandTypes DEF IInv, TypeOK
  <1>4. register \in Byte /\ theStatusReg' = Comparison(theStatusReg, register, Operand)
    <2>1. CASE Info.theHandler = "CMP"
      <3>1. Decoding({"CMP"})  BY <1>1, <2>1 DEF Decoding
      <3>2. register = theAccum  BY <3>1, <2>1 DEF Decoding
      <3>3. QED  BY <1>3, <2>1, <3>2 DEF Compare
    <2>2. CASE Info.theHandler = "CPX"
      <3>1. Decoding({"CPX"}) /\ ~Decoding({"CMP"})  BY <1>1, <2>2 DEF Decoding
      <3>2. register = theRegX  BY <3>1
      <3>3. QED  BY <1>3, <2>2, <3>2 DEF Compare
    <2>3. CASE Info.theHandler = "CPY"
      <3>1. ~Decoding({"CPX"}) /\ ~Decoding({"CMP"})  BY <2>3 DEF Decoding
      <3>2. register = theRegY  BY <3>1
      <3>3. QED  BY <1>3, <2>3, <3>2 DEF Compare
    <2>4. QED  BY <1>1, <2>1, <2>2, <2>3
  <1> HIDE DEF register
  <1>5. /\ "C" \in theStatusReg' <=> register >= Operand
        /\ SignAndZeroOf(Low(register - Operand))
    BY <1>3, <1>4, ComparisonIsExact DEF SignAndZeroOf
  <1>6. QED  BY <1>2, <1>5 DEF ExactStep, register

\* Sums, differences and comparisons are those of the integers, for all operands.
THEOREM ArithmeticIsExactCorrect == Spec => ArithmeticIsExact
  <1>1. Init => IInv  BY InitIInv
  <1>2. IInv /\ [Next]_vars => IInv'  BY NextIInv
  <1>3. IInv /\ [Next]_vars => [ExactStep]_vars
    <2> SUFFICES ASSUME IInv, Next
                 PROVE  ExactStep
      OBVIOUS
    <2>1. CASE Decoding({"ADC", "SBC", "CMP", "CPX", "CPY"})
      <3>1. Info.theHandler \in {"ADC", "SBC", "CMP", "CPX", "CPY"}  BY <2>1 DEF Decoding
      <3>2. Add \/ Compare
        BY <2>1, <3>1, ExecutingAction DEF OtherHandlers, UnofficialHandlers, BranchTest
      <3>3. QED  BY <3>2, AddIsExact, CompareIsExact
    <2>2. CASE ~Decoding({"ADC", "SBC", "CMP", "CPX", "CPY"})
      <3>1. ~Decoding({"ADC"}) /\ ~Decoding({"SBC"}) /\ ~Decoding({"CMP", "CPX", "CPY"})
        BY <2>2 DEF Decoding
      <3>2. QED  BY <3>1 DEF ExactStep
    <2>3. QED  BY <2>1, <2>2
  <1>4. QED  BY <1>1, <1>2, <1>3, PTL DEF Spec, ArithmeticIsExact

-----------------------------------------------------------------------------
(* Jumps.                                                                  *)

LEMMA WordOfSum ==
  ASSUME NEW m \in Int, NEW n \in Int
  PROVE  Word(Word(m) + n) = Word(m + n)
  BY DEF Word

LEMMA WordOfAddress ==
  ASSUME NEW address \in CpuAddress, NEW n \in Int
  PROVE  Word((address - n) + n) = address
  <1>1. address \in Int /\ 0 <= address /\ address <= 65535  BY AddressRange, TypesAreIntegers
  <1>2. (address - n) + n = address  BY <1>1
  <1>3. address % 65536 = address  BY <1>1
  <1>4. QED  BY <1>2, <1>3 DEF Word

LEMMA PageOfOperand ==
  ASSUME NEW low \in Byte, NEW high \in Byte
  PROVE  High(low + 256 * high) = high /\ Low(low + 256 * high + 1) = Low(low + 1)
  BY DEF High, Low, Byte

LEMMA JmpLands ==
  ASSUME IInv, handler_jmp
  PROVE  thePc' = IF Info.theAddrMode = "ABS" THEN OperandWord
                  ELSE Read(OperandWord) + 256 * Read(256 * OpCode3 + Low(OpCode2 + 1))
  <1>1. Decoding({"JMP"}) /\ thePc \in Mapped  BY DEF handler_jmp, Decoding
  <1>2. Info.theAddrMode \in {"ABS", "IND"}  BY DEF handler_jmp
  <1>3. /\ OpCode2 \in Byte /\ OpCode3 \in Byte /\ OperandWord \in CpuAddress
        /\ OperandAddr = OperandWord
    BY <1>1, <1>2, OperandBytesThere DEF OperandAddr, IInv
  <1>4. Info.theNumBytes \in Int  BY <1>1, InfoType DEF IInv
  <1>5. CASE Info.theAddrMode = "ABS"
    <2>1. thePc' = Word((OperandWord - Info.theNumBytes) + Info.theNumBytes)
      BY <1>3, <1>5 DEF handler_jmp, UpdatePc
    <2>2. QED  BY <1>3, <1>4, <1>5, <2>1, WordOfAddress
  <1>6. CASE Info.theAddrMode = "IND"
    <2> DEFINE low == Read(JumpCells[1])
               high == Read(JumpCells[2])
    <2>1. low \in Byte /\ high \in Byte  BY ReadIsByte DEF IInv
    <2>2. JumpCells[1] = OperandWord /\ JumpCells[2] = 256 * OpCode3 + Low(OpCode2 + 1)
      <3>1. High(OperandWord) = OpCode3 /\ Low(OperandWord + 1) = Low(OpCode2 + 1)
        BY <1>3, PageOfOperand DEF OperandWord
      <3>2. QED  BY <1>3, <3>1 DEF JumpCells
    <2>3. thePc' = Word((low + 256 * high - Info.theNumBytes) + Info.theNumBytes)
      BY <1>6 DEF handler_jmp, UpdatePc
    <2> HIDE DEF low, high
    <2>4. low \in Int /\ high \in Int  BY <2>1, ByteRange
    <2>5. (low + 256 * high - Info.theNumBytes) + Info.theNumBytes
            = ((low + 256 * high) - Info.theNumBytes) + Info.theNumBytes
      BY <1>4, <2>4
    <2>6. thePc' = low + 256 * high
      BY <1>4, <2>1, <2>3, <2>5, TwoBytesAreAddress, WordOfAddress
    <2>7. QED  BY <1>6, <2>2, <2>6 DEF low, high
  <1>7. QED  BY <1>2, <1>5, <1>6

LEMMA BranchLands ==
  ASSUME IInv, Branch
  PROVE  LET test == BranchTest[Info.theHandler]
             behind == thePc + Info.theNumBytes
         IN  thePc' = IF (test[1] \in theStatusReg) = test[2]
                      THEN Word(behind + SignedByte(OpCode2)) ELSE Word(behind)
  <1>1. Decoding(DOMAIN BranchTest) /\ thePc \in Mapped /\ Info.theHandler \in DOMAIN BranchTest
    BY DEF Branch, Decoding
  <1>2. Info.theNumBytes \in Int /\ Info.theAddrMode = "REL"
    BY <1>1, InfoType DEF IInv
  <1>3. OpCode2 \in Byte  BY <1>1, <1>2, OperandBytesThere DEF IInv
  <1>4. SignedByte(OpCode2) \in Int  BY <1>3 DEF SignedByte, Byte
  <1>5. thePc \in Int  BY TypesAreIntegers DEF IInv, TypeOK
  <1>6. OperandAddr = Word(thePc + SignedByte(OpCode2))  BY <1>2 DEF OperandAddr
  <1> DEFINE taken == (BranchTest[Info.theHandler][1] \in theStatusReg) = BranchTest[Info.theHandler][2]
  <1>7. thePc' = Word((IF taken THEN OperandAddr ELSE thePc) + Info.theNumBytes)
    BY DEF Branch, UpdatePc
  <1> HIDE DEF taken
  <1>8. CASE taken
    <2>1. thePc' = Word((thePc + SignedByte(OpCode2)) + Info.theNumBytes)
      <3>1. thePc + SignedByte(OpCode2) \in Int  BY <1>4, <1>5
      <3>2. QED  BY <1>2, <1>6, <1>7, <1>8, <3>1, WordOfSum
    <2>2. (thePc + SignedByte(OpCode2)) + Info.theNumBytes = (thePc + Info.theNumBytes) + SignedByte(OpCode2)
      BY <1>2, <1>4, <1>5
    <2>3. QED  BY <1>8, <2>1, <2>2 DEF taken
  <1>9. CASE ~taken
    BY <1>7, <1>9 DEF taken
  <1>10. QED  BY <1>8, <1>9

\* Jumps land on their operand, branches on their offset from the next instruction, and
\* everything else on the next instruction.
THEOREM JumpsLandCorrect == Spec => JumpsLand
  <1>1. Init => IInv  BY InitIInv
  <1>2. IInv /\ [Next]_vars => IInv'  BY NextIInv
  <1>3. IInv /\ [Next]_vars => [LandingStep]_vars
    <2> SUFFICES ASSUME IInv, Next, Decoding(Handlers \ {"RTS", "RTI", "BRK"})
                 PROVE  LandingStep
      BY DEF LandingStep
    <2>1. Info.theHandler \notin {"RTS", "RTI", "BRK"}  BY DEF Decoding
    <2>2. CASE handler_jmp /\ Info.theHandler = "JMP"
      BY <2>2, JmpLands DEF LandingStep
    <2>3. CASE handler_jsr /\ Info.theHandler = "JSR"
      <3>1. Decoding({"JSR"}) /\ thePc \in Mapped  BY <2>3 DEF handler_jsr, Decoding
      <3>2. Info.theNumBytes \in Int /\ Info.theAddrMode = "ABS"  BY <2>3, <3>1, InfoType DEF IInv
      <3>3. OperandWord \in CpuAddress /\ OperandAddr = OperandWord
        BY <3>1, <3>2, OperandBytesThere DEF OperandAddr, IInv
      <3>4. thePc' = Word((OperandWord - Info.theNumBytes) + Info.theNumBytes)
        BY <2>3, <3>3 DEF handler_jsr, UpdatePc
      <3>5. thePc' = OperandWord  BY <3>2, <3>3, <3>4, WordOfAddress
      <3>6. QED  BY <2>3, <3>5 DEF LandingStep
    <2>4. CASE Branch /\ Info.theHandler \in DOMAIN BranchTest
      <3>1. Info.theHandler \notin {"JMP", "JSR"}  BY <2>4 DEF BranchTest
      <3>2. QED  BY <2>4, <3>1, BranchLands DEF LandingStep
    <2>5. CASE /\ Advance
               /\ Info.theHandler \in {"ADC", "SBC", "CMP", "CPX", "CPY"}
                                     \union UnofficialHandlers \union OtherHandlers
      <3>1. Info.theHandler \notin {"JMP", "JSR"} \union DOMAIN BranchTest
        BY <2>5 DEF UnofficialHandlers, OtherHandlers, BranchTest
      <3>2. thePc' = Word(thePc + Info.theNumBytes)  BY <2>5 DEF Advance, UpdatePc
      <3>3. QED  BY <3>1, <3>2 DEF LandingStep
    <2>6. QED  BY <2>1, <2>2, <2>3, <2>4, <2>5, ExecutingAction
  <1>4. QED  BY <1>1, <1>2, <1>3, PTL DEF Spec, JumpsLand

-----------------------------------------------------------------------------
(* Unofficial op-codes.                                                    *)

\* A shift moves a bit into the carry and another one in.
ShiftsLeft(b, carryIn) ==
  256 * If(Bit(b, 128) = 1, 1) + ShiftedLeft(b, carryIn) = 2 * b + carryIn
ShiftsRight(b, carryIn) ==
  2 * ShiftedRight(b, carryIn) + (b % 2) = b + 256 * carryIn

LEMMA ShiftedIsExact ==
  ASSUME NEW b \in Byte, NEW carryIn \in 0 .. 1
  PROVE  ShiftsLeft(b, carryIn) /\ ShiftsRight(b, carryIn)
  <1>1. b \in Int /\ 0 <= b /\ b <= 255  BY ByteRange
  <1>2. CASE b >= 128
    <2>1. Bit(b, 128) = 1 /\ Low(2 * b) = 2 * b - 256  BY <1>1, <1>2 DEF Bit, Low
    <2>2. 256 * If(Bit(b, 128) = 1, 1) + ShiftedLeft(b, carryIn) = 2 * b + carryIn
      BY <1>1, <2>1 DEF If, ShiftedLeft
    <2>3. 2 * (b \div 2) + (b % 2) = b  BY <1>1
    <2>4. QED  BY <1>1, <2>2, <2>3 DEF ShiftsLeft, ShiftsRight, ShiftedRight
  <1>3. CASE b < 128
    <2>1. Bit(b, 128) = 0 /\ Low(2 * b) = 2 * b  BY <1>1, <1>3 DEF Bit, Low
    <2>2. 256 * If(Bit(b, 128) = 1, 1) + ShiftedLeft(b, carryIn) = 2 * b + carryIn
      BY <1>1, <2>1 DEF If, ShiftedLeft
    <2>3. 2 * (b \div 2) + (b % 2) = b  BY <1>1
    <2>4. QED  BY <1>1, <2>2, <2>3 DEF ShiftsLeft, ShiftsRight, ShiftedRight
  <1>4. QED  BY <1>1, <1>2, <1>3

LEMMA FlagsOfResult ==
  ASSUME NEW flags, NEW condition, NEW b
  PROVE  LET new == SignZero(With(flags, "C", condition), b) IN
         /\ Carry(new) = If(condition, 1)
         /\ "N" \in new <=> b >= 128
         /\ "Z" \in new <=> b = 0
  BY DEF SignZero, With, Carry, If

\* The byte that a combining op-code finds, and the one it leaves.
LEMMA CombinedCells ==
  ASSUME IInv, OperandAddr \in Mapped, NEW b \in Byte, NEW result, NEW extraClockCycles,
         Combined(b, result, extraClockCycles)
  PROVE  /\ theMemory[OperandAddr] = Read(OperandAddr) /\ theMemory'[OperandAddr] = b
         /\ theAccum' = result.accum /\ theStatusReg' = result.flags
  BY DEF Combined, Written, Read

LEMMA SloComposes ==
  ASSUME IInv, handler_slo, OperandAddr \in Mapped
  PROVE  /\ 256 * Carry(theStatusReg') + theMemory'[OperandAddr] = 2 * theMemory[OperandAddr]
         /\ theAccum' = BitOr(theAccum, theMemory'[OperandAddr]) /\ SignAndZeroOf(theAccum')
  <1> DEFINE old == Read(OperandAddr)
             b == ShiftedLeft(old, 0)
             accum == BitOr(theAccum, b)
             new == SignZero(With(theStatusReg, "C", Bit(old, 128) = 1), accum)
  <1>1. old \in Byte /\ b \in Byte  BY ReadIsByte, ShiftedIsByte DEF IInv
  <1>2. Combined(b, [accum |-> accum, flags |-> new], 0)  BY DEF handler_slo
  <1> HIDE DEF old
  <1>3. Carry(new) = If(Bit(old, 128) = 1, 1) /\ ("N" \in new <=> accum >= 128) /\ ("Z" \in new <=> accum = 0)
    BY FlagsOfResult
  <1>4. 256 * If(Bit(old, 128) = 1, 1) + b = 2 * old
    <2>1. old \in Int  BY <1>1, ByteRange
    <2>2. 256 * If(Bit(old, 128) = 1, 1) + b = 2 * old + 0
      <3>1. 0 \in 0 .. 1  OBVIOUS
      <3>2. ShiftsLeft(old, 0)  BY <1>1, <3>1, ShiftedIsExact
      <3>3. QED  BY <3>2 DEF ShiftsLeft
    <2>3. 2 * old + 0 = 2 * old  BY <2>1
    <2>4. QED  BY <2>2, <2>3
  <1> HIDE DEF b, accum, new
  <1>5. /\ theMemory[OperandAddr] = old /\ theMemory'[OperandAddr] = b
        /\ theAccum' = accum /\ theStatusReg' = new
    BY <1>1, <1>2, CombinedCells DEF old
  <1>6. QED  BY <1>3, <1>4, <1>5 DEF accum, old, SignAndZeroOf

LEMMA RlaComposes ==
  ASSUME IInv, handler_rla, OperandAddr \in Mapped
  PROVE  /\ 256 * Carry(theStatusReg') + theMemory'[OperandAddr]
              = 2 * theMemory[OperandAddr] + Carry(theStatusReg)
         /\ theAccum' = BitAnd(theAccum, theMemory'[OperandAddr]) /\ SignAndZeroOf(theAccum')
  <1> DEFINE old == Read(OperandAddr)
             b == ShiftedLeft(old, Carry(theStatusReg))
             accum == BitAnd(theAccum, b)
             new == SignZero(With(theStatusReg, "C", Bit(old, 128) = 1), accum)
  <1>1. old \in Byte /\ b \in Byte  BY ReadIsByte, CarryIsBit, ShiftedIsByte DEF IInv
  <1>2. Combined(b, [accum |-> accum, flags |-> new], 0)  BY DEF handler_rla
  <1> HIDE DEF old
  <1>3. Carry(new) = If(Bit(old, 128) = 1, 1) /\ ("N" \in new <=> accum >= 128) /\ ("Z" \in new <=> accum = 0)
    BY FlagsOfResult
  <1>4. 256 * If(Bit(old, 128) = 1, 1) + b = 2 * old + Carry(theStatusReg)
    <2>1. Carry(theStatusReg) \in 0 .. 1  BY CarryIsBit
    <2>2. ShiftsLeft(old, Carry(theStatusReg))  BY <1>1, <2>1, ShiftedIsExact
    <2>3. QED  BY <2>2 DEF ShiftsLeft
  <1> HIDE DEF b, accum, new
  <1>5. /\ theMemory[OperandAddr] = old /\ theMemory'[OperandAddr] = b
        /\ theAccum' = accum /\ theStatusReg' = new
    BY <1>1, <1>2, CombinedCells DEF old
  <1>6. QED  BY <1>3, <1>4, <1>5 DEF accum, old, SignAndZeroOf

LEMMA SreComposes ==
  ASSUME IInv, handler_sre, OperandAddr \in Mapped
  PROVE  /\ 2 * theMemory'[OperandAddr] + Carry(theStatusReg') = theMemory[OperandAddr]
         /\ theAccum' = BitXor(theAccum, theMemory'[OperandAddr]) /\ SignAndZeroOf(theAccum')
  <1> DEFINE old == Read(OperandAddr)
             b == ShiftedRight(old, 0)
             accum == BitXor(theAccum, b)
             new == SignZero(With(theStatusReg, "C", Bit(old, 1) = 1), accum)
  <1>1. old \in Byte /\ b \in Byte  BY ReadIsByte, ShiftedIsByte DEF IInv
  <1>2. Combined(b, [accum |-> accum, flags |-> new], 0)  BY DEF handler_sre
  <1> HIDE DEF old
  <1>3. Carry(new) = If(Bit(old, 1) = 1, 1) /\ ("N" \in new <=> accum >= 128) /\ ("Z" \in new <=> accum = 0)
    BY FlagsOfResult
  <1>4. 2 * b + If(Bit(old, 1) = 1, 1) = old
    <2>1. old \in Int  BY <1>1, ByteRange
    <2>2. 2 * b + (old % 2) = old + 256 * 0
      <3>1. 0 \in 0 .. 1  OBVIOUS
      <3>2. ShiftsRight(old, 0)  BY <1>1, <3>1, ShiftedIsExact
      <3>3. QED  BY <3>2 DEF ShiftsRight
    <2>3. old + 256 * 0 = old  BY <2>1
    <2>4. Bit(old, 1) = old % 2 /\ old % 2 \in 0 .. 1  BY <2>1 DEF Bit
    <2>5. If(Bit(old, 1) = 1, 1) = old % 2  BY <2>4 DEF If
    <2>6. QED  BY <2>2, <2>3, <2>5
  <1> HIDE DEF b, accum, new
  <1>5. /\ theMemory[OperandAddr] = old /\ theMemory'[OperandAddr] = b
        /\ theAccum' = accum /\ theStatusReg' = new
    BY <1>1, <1>2, CombinedCells DEF old
  <1>6. QED  BY <1>3, <1>4, <1>5 DEF accum, old, SignAndZeroOf

LEMMA RraComposes ==
  ASSUME IInv, handler_rra, OperandAddr \in Mapped
  PROVE  LET old == theMemory[OperandAddr]
             new == theMemory'[OperandAddr]
         IN  /\ 2 * new + (old % 2) = old + 256 * Carry(theStatusReg)
             /\ 256 * Carry(theStatusReg') + theAccum' = theAccum + new + (old % 2)
  <1> DEFINE old == Read(OperandAddr)
             b == ShiftedRight(old, Carry(theStatusReg))
             flags == With(theStatusReg, "C", old % 2 = 1)
             result == Addition(theAccum, flags, b)
  <1>1. old \in Byte /\ b \in Byte  BY ReadIsByte, CarryIsBit, ShiftedIsByte DEF IInv
  <1>2. Combined(b, result, PageDelay({"ABX", "ABY", "INY"}))  BY DEF handler_rra
  <1> HIDE DEF old
  <1>3. 2 * b + (old % 2) = old + 256 * Carry(theStatusReg)
    <2>1. Carry(theStatusReg) \in 0 .. 1  BY CarryIsBit
    <2>2. ShiftsRight(old, Carry(theStatusReg))  BY <1>1, <2>1, ShiftedIsExact
    <2>3. QED  BY <2>2 DEF ShiftsRight
  <1>4. Carry(flags) = old % 2
    <2>1. old % 2 \in 0 .. 1  BY <1>1, ByteRange
    <2>2. QED  BY <2>1 DEF Carry, With, If
  <1>5. theAccum \in Byte /\ flags \in SUBSET Flags  BY DEF IInv, TypeOK, With, Flags
  <1> HIDE DEF b, flags
  <1>6. 256 * Carry(result.flags) + result.accum = theAccum + b + (old % 2)
    BY <1>1, <1>4, <1>5, AdditionIsExact
  <1> HIDE DEF result
  <1>7. /\ theMemory[OperandAddr] = old /\ theMemory'[OperandAddr] = b
        /\ theAccum' = result.accum /\ theStatusReg' = result.flags
    BY <1>1, <1>2, CombinedCells DEF old
  <1>8. QED  BY <1>3, <1>6, <1>7 DEF old

LEMMA DcpComposes ==
  ASSUME IInv, handler_dcp, OperandAddr \in Mapped
  PROVE  /\ theMemory'[OperandAddr] = Low(theMemory[OperandAddr] - 1) /\ theAccum' = theAccum
         /\ "C" \in theStatusReg' <=> theAccum >= theMemory'[OperandAddr]
  <1> DEFINE b == Low(Read(OperandAddr) - 1)
             result == [accum |-> theAccum, flags |-> Comparison(theStatusReg, theAccum, b)]
  <1>1. Read(OperandAddr) - 1 \in Int  BY ReadIsByte, ByteRange DEF IInv
  <1>2. b \in Byte  BY <1>1, LowIsByte
  <1>3. Combined(b, result, 0)  BY DEF handler_dcp
  <1> HIDE DEF b
  <1>4. "C" \in result.flags <=> theAccum >= b
    BY <1>2, ComparisonIsExact DEF IInv, TypeOK
  <1>5. result.accum = theAccum  OBVIOUS
  <1> HIDE DEF result
  <1>6. /\ theMemory[OperandAddr] = Read(OperandAddr) /\ theMemory'[OperandAddr] = b
        /\ theAccum' = result.accum /\ theStatusReg' = result.flags
    BY <1>2, <1>3, CombinedCells
  <1>7. QED  BY <1>4, <1>5, <1>6 DEF b

LEMMA IscComposes ==
  ASSUME IInv, handler_isc, OperandAddr \in Mapped
  PROVE  LET new == theMemory'[OperandAddr]
         IN  /\ new = Low(theMemory[OperandAddr] + 1)
             /\ theAccum' - 256 * (1 - Carry(theStatusReg')) = theAccum - new - (1 - Carry(theStatusReg))
  <1> DEFINE b == Low(Read(OperandAddr) + 1)
             operand == 255 - b
             result == Addition(theAccum, theStatusReg, operand)
  <1>1. Read(OperandAddr) + 1 \in Int  BY ReadIsByte, ByteRange DEF IInv
  <1>2. b \in Byte  BY <1>1, LowIsByte
  <1>3. Combined(b, result, 0)  BY DEF handler_isc
  <1> HIDE DEF b
  <1>4. operand \in Byte  BY <1>2 DEF Byte
  <1>5. theAccum \in Byte /\ theStatusReg \in SUBSET Flags  BY DEF IInv, TypeOK
  <1> HIDE DEF operand
  <1>6. /\ result.accum \in Byte
        /\ 256 * Carry(result.flags) + result.accum = theAccum + operand + Carry(theStatusReg)
    BY <1>4, <1>5, AdditionIsExact
  <1> HIDE DEF result
  <1>7. /\ theMemory[OperandAddr] = Read(OperandAddr) /\ theMemory'[OperandAddr] = b
        /\ theAccum' = result.accum /\ theStatusReg' = result.flags
    BY <1>2, <1>3, CombinedCells
  <1>8. PICK x \in Int, y \in Int, z \in Int, u \in Int, v \in Int :
          /\ x = theAccum /\ y = result.accum /\ z = b
          /\ u = Carry(theStatusReg) /\ v = Carry(result.flags)
    BY <1>2, <1>5, <1>6, ByteRange, CarryIsBit
  <1>9. 256 * v + y = x + (255 - z) + u  BY <1>6, <1>8 DEF operand
  <1>10. y - 256 * (1 - v) = x - z - (1 - u)  BY <1>9, CarryIsBorrow
  <1>11. QED  BY <1>7, <1>8, <1>10 DEF b

\* The unofficial op-codes do what their two parts do, the carry passing from one to the other.
THEOREM UnofficialIsCompositionCorrect == Spec => UnofficialIsComposition
  <1>1. Init => IInv  BY InitIInv
  <1>2. IInv /\ [Next]_vars => IInv'  BY NextIInv
  <1>3. IInv /\ [Next]_vars => [ComposedStep]_vars
    <2> SUFFICES ASSUME IInv, Next
                 PROVE  ComposedStep
      OBVIOUS
    <2>1. ASSUME NEW handler \in UnofficialHandlers, Decoding({handler})
          PROVE  /\ handler = "SLO" => handler_slo
                 /\ handler = "RLA" => handler_rla
                 /\ handler = "SRE" => handler_sre
                 /\ handler = "RRA" => handler_rra
                 /\ handler = "DCP" => handler_dcp
                 /\ handler = "ISC" => handler_isc
      <3>1. Info.theHandler = handler  BY <2>1 DEF Decoding
      <3>2. Unofficial
        BY <2>1, <3>1, ExecutingAction DEF UnofficialHandlers, OtherHandlers, BranchTest
      <3>3. QED
        BY <2>1, <3>1, <3>2
        DEF Unofficial, UnofficialHandlers, handler_slo, handler_rla, handler_sre, handler_rra,
            handler_dcp, handler_isc, handler_sax, handler_lax, Decoding
    <2>2. CASE OperandAddr \notin Mapped  BY <2>2 DEF ComposedStep
    <2>3. CASE OperandAddr \in Mapped
      <3>1. /\ Decoding({"SLO"}) => handler_slo
            /\ Decoding({"RLA"}) => handler_rla
            /\ Decoding({"SRE"}) => handler_sre
            /\ Decoding({"RRA"}) => handler_rra
            /\ Decoding({"DCP"}) => handler_dcp
            /\ Decoding({"ISC"}) => handler_isc
        BY <2>1 DEF UnofficialHandlers
      <3>2. QED
        BY <2>3, <3>1, SloComposes, RlaComposes, SreComposes, RraComposes, DcpComposes, IscComposes
        DEF ComposedStep
    <2>4. QED  BY <2>2, <2>3
  <1>4. QED  BY <1>1, <1>2, <1>3, PTL DEF Spec, UnofficialIsComposition

-----------------------------------------------------------------------------
(* The stack.  What a frame was pushed for is still in its cells.           *)

FrameIntact(f) ==
  /\ f.at \in Byte
  /\ CellsOf(f) \subseteq Mapped
  /\ f.kind = "JSR" =>
       f.value = Word(theMemory[256 + Low(f.at - 1)] + 256 * theMemory[256 + f.at] + 1)
  /\ f.kind = "PHA" => f.value = theMemory[256 + f.at]
  /\ f.kind = "PHP" => f.value = StatusFlags(theMemory[256 + f.at]) \ {"B", "U"}

FramesIntact == \A f \in frames : FrameIntact(f)

\* The cells of a frame, which continue at the other end of the stack.
LEMMA CellsOfFrame ==
  ASSUME NEW f, f.at \in Byte
  PROVE  /\ f.kind \in {"PHA", "PHP", "JSR"} => 256 + f.at \in CellsOf(f)
         /\ f.kind = "JSR" => 256 + Low(f.at - 1) \in CellsOf(f)
  <1>1. f.at \in Int /\ Low(f.at - 0) = f.at  BY DEF Byte, Low
  <1>2. f.kind \in {"PHA", "PHP", "JSR"} => Size(f.kind) - 1 \in {0, 1}
    BY DEF Size
  <1>3. f.kind = "JSR" => Size(f.kind) - 1 = 1  BY DEF Size
  <1>4. f.kind \in {"PHA", "PHP", "JSR"} => 0 \in 0 .. Size(f.kind) - 1  BY <1>2
  <1>5. f.kind = "JSR" => 1 \in 0 .. Size(f.kind) - 1  BY <1>3
  <1>6. QED  BY <1>1, <1>4, <1>5 DEF CellsOf

\* A byte of status flags gives the flags back.
LEMMA StatusIsRestored ==
  ASSUME NEW S \in SUBSET Flags
  PROVE  StatusFlags(StatusByte(S)) = S
  <1> DEFINE bit(f) == If(f \in S, 1)
  <1>1. \A f : bit(f) \in 0 .. 1 /\ (bit(f) = 1 <=> f \in S)  BY DEF If
  <1>2. StatusByte(S) = bit("C") + 2 * bit("Z") + 4 * bit("I") + 8 * bit("D")
                        + 16 * bit("B") + 32 * bit("U") + 64 * bit("V") + 128 * bit("N")
    BY DEF StatusByte, If
  <1> HIDE DEF bit
  <1>3. \A c, z, i, d, b, u, v, n \in 0 .. 1 :
          LET byte == c + 2 * z + 4 * i + 8 * d + 16 * b + 32 * u + 64 * v + 128 * n
          IN  /\ Bit(byte, 1) = c /\ Bit(byte, 2) = z /\ Bit(byte, 4) = i /\ Bit(byte, 8) = d
              /\ Bit(byte, 16) = b /\ Bit(byte, 32) = u /\ Bit(byte, 64) = v /\ Bit(byte, 128) = n
    BY DEF Bit
  <1>4. \A f \in Flags : Bit(StatusByte(S), FlagBit[f]) = bit(f)
    <2>1. /\ Bit(StatusByte(S), 1) = bit("C") /\ Bit(StatusByte(S), 2) = bit("Z")
          /\ Bit(StatusByte(S), 4) = bit("I") /\ Bit(StatusByte(S), 8) = bit("D")
          /\ Bit(StatusByte(S), 16) = bit("B") /\ Bit(StatusByte(S), 32) = bit("U")
          /\ Bit(StatusByte(S), 64) = bit("V") /\ Bit(StatusByte(S), 128) = bit("N")
      BY <1>1, <1>2, <1>3
    <2>2. QED  BY <2>1 DEF Flags, FlagBit
  <1>5. QED  BY <1>1, <1>4 DEF StatusFlags

\* Which actions execute the instructions of the stack.
LEMMA StackAction ==
  ASSUME Next, NEW handlers, Decoding(handlers)
  PROVE  /\ Info.theHandler \in {"PHA", "PHP"} => Push
         /\ Info.theHandler \in {"PLA", "PLP"} => Pull
         /\ Info.theHandler = "JSR" => handler_jsr
         /\ Info.theHandler = "RTS" => handler_rts
  <1> DEFINE Named == {"PHA", "PHP", "PLA", "PLP", "JSR", "RTS"}
             Other == Info.theHandler \notin Named
  <1>1. ASSUME Logic \/ Rotate \/ Shift
        PROVE  Other
    BY <1>1 DEF Logic, Rotate, Shift, Decoding
  <1>2. ASSUME Load \/ Store \/ Transfer
        PROVE  Other
    BY <1>2 DEF Load, Store, Transfer, Decoding
  <1>3. ASSUME CountMemory \/ CountRegister \/ ChangeFlag \/ handler_bit \/ Add \/ Compare
        PROVE  Other
    BY <1>3 DEF CountMemory, CountRegister, ChangeFlag, handler_bit, Add, Compare, Decoding
  <1>4. ASSUME EmptyHandler \/ handler_jmp \/ handler_rti \/ handler_brk \/ Branch
        PROVE  Other
    BY <1>4 DEF EmptyHandler, handler_jmp, handler_rti, handler_brk, Branch, BranchTest, Decoding
  <1>5. ASSUME Unofficial
        PROVE  Other
    BY <1>5 DEF Unofficial, handler_rra, handler_rla, handler_sre, handler_slo, handler_dcp,
                handler_isc, handler_sax, handler_lax, Decoding
  <1>6. ~DecodeNothing /\ ~FetchFault /\ ~StartReturns
    BY DEF DecodeNothing, FetchFault, StartReturns, Decoding
  <1>7. /\ Push => Info.theHandler \in {"PHA", "PHP"}
        /\ Pull => Info.theHandler \in {"PLA", "PLP"}
        /\ handler_jsr => Info.theHandler = "JSR"
        /\ handler_rts => Info.theHandler = "RTS"
    BY DEF Push, Pull, handler_jsr, handler_rts, Decoding
  <1>8. Other \/ Push \/ Pull \/ handler_jsr \/ handler_rts
    BY <1>1, <1>2, <1>3, <1>4, <1>5, <1>6 DEF Next, Decode, Official
  <1>9. QED  BY <1>7, <1>8

\* No instruction changes which addresses have a device.
LEMMA AddressesStay ==
  ASSUME [Next]_vars
  PROVE  Mapped' = Mapped
  <1>1. SUFFICES \/ theMemory' = theMemory
                 \/ \E address, b : theMemory' = Written(address, b)
                 \/ \E bytes : theMemory' = Pushed(bytes)
    <2>1. \A address, b : DOMAIN Written(address, b) = Mapped  BY DEF Written
    <2>2. \A bytes : DOMAIN Pushed(bytes) = Mapped  BY DEF Pushed
    <2>3. QED  BY <2>1, <2>2 DEF Mapped
  <1>2. CASE Official
    <2>1. CASE Logic \/ Load \/ Transfer \/ CountRegister \/ Add \/ ChangeFlag \/ Compare \/ handler_bit
      BY <2>1 DEF Logic, Load, Transfer, CountRegister, Add, ChangeFlag, Compare, handler_bit
    <2>2. CASE Rotate \/ Shift
      BY <2>2 DEF Rotate, Shift, Shifted
    <2>3. CASE Store \/ CountMemory
      BY <2>3 DEF Store, CountMemory
    <2>4. CASE handler_jmp \/ handler_rts \/ handler_rti \/ Branch \/ Pull \/ EmptyHandler
      BY <2>4 DEF handler_jmp, handler_rts, handler_rti, Branch, Pull, EmptyHandler
    <2>5. CASE handler_jsr \/ Push \/ handler_brk
      BY <2>5 DEF handler_jsr, Push, handler_brk
    <2>6. QED  BY <1>2, <2>1, <2>2, <2>3, <2>4, <2>5 DEF Official
  <1>3. CASE Unofficial
    BY <1>3 DEF Unofficial, handler_rra, handler_rla, handler_sre, handler_slo, handler_dcp,
                handler_isc, Combined, handler_sax, handler_lax
  <1>4. CASE DecodeNothing \/ FetchFault \/ StartReturns \/ UNCHANGED vars
    BY <1>4 DEF DecodeNothing, FetchFault, StartReturns, vars
  <1>5. QED  BY <1>2, <1>3, <1>4 DEF Next, Decode

\* What a push leaves in the cells it writes: no two of them are the same cell.
LEMMA PushedByte ==
  ASSUME NEW b, theStackPtr \in Byte, 256 + theStackPtr \in Mapped
  PROVE  Pushed(<<b>>)[256 + theStackPtr] = b
  <1> DEFINE bytes == <<b>>
             cell == 256 + theStackPtr
  <1>1. DOMAIN bytes = {1} /\ bytes[1] = b  OBVIOUS
  <1>2. StackCell(1 - 1) = cell  BY DEF StackCell, Byte, Low
  <1> HIDE DEF bytes, cell
  <1>3. (CHOOSE i \in DOMAIN bytes : cell = StackCell(1 - i)) = 1  BY <1>1, <1>2
  <1>4. cell \in Mapped  BY DEF cell
  <1>5. Pushed(bytes)[cell] = bytes[1]  BY <1>1, <1>2, <1>3, <1>4 DEF Pushed
  <1>6. QED  BY <1>1, <1>5 DEF bytes, cell

LEMMA PushedBytes ==
  ASSUME NEW b, NEW c, theStackPtr \in Byte,
         256 + theStackPtr \in Mapped, 256 + Low(theStackPtr - 1) \in Mapped
  PROVE  /\ Pushed(<<b, c>>)[256 + theStackPtr] = b
         /\ Pushed(<<b, c>>)[256 + Low(theStackPtr - 1)] = c
  <1> DEFINE bytes == <<b, c>>
             cell == [i \in {1, 2} |-> StackCell(1 - i)]
  <1>1. DOMAIN bytes = {1, 2} /\ bytes[1] = b /\ bytes[2] = c  OBVIOUS
  <1>2. cell[1] = 256 + theStackPtr /\ cell[2] = 256 + Low(theStackPtr - 1)
    BY DEF StackCell, Byte, Low
  <1>3. cell[1] # cell[2]  BY DEF StackCell, Byte, Low
  <1>4. \A i \in {1, 2} : StackCell(1 - i) = cell[i]  OBVIOUS
  <1>5. cell[1] \in Mapped /\ cell[2] \in Mapped  BY <1>2
  <1> HIDE DEF bytes, cell
  <1>6. ASSUME NEW k \in {1, 2}
        PROVE  Pushed(bytes)[cell[k]] = bytes[k]
    <2>1. (CHOOSE i \in DOMAIN bytes : cell[k] = StackCell(1 - i)) = k
      BY <1>1, <1>3, <1>4
    <2>2. \E i \in DOMAIN bytes : cell[k] = StackCell(1 - i)  BY <1>1, <1>4
    <2>3. cell[k] \in Mapped  BY <1>5
    <2>4. QED  BY <2>1, <2>2, <2>3 DEF Pushed
  <1>7. QED  BY <1>1, <1>2, <1>6 DEF bytes

\* The return address that JSR pushes, put together again by RTS.
LEMMA ReturnAddressIsRestored ==
  ASSUME TypeOK, thePc \in Mapped
  PROVE  Word(Low(ReturnAddress) + 256 * High(ReturnAddress) + 1) = Word(thePc + Info.theNumBytes)
  <1> DEFINE last == thePc + Info.theNumBytes - 1
  <1>1. thePc \in Int /\ Info.theNumBytes \in Int  BY InfoType, TypesAreIntegers DEF TypeOK
  <1>2. last \in Int /\ last + 1 = thePc + Info.theNumBytes  BY <1>1
  <1>3. ReturnAddress = Word(last)  BY DEF ReturnAddress
  <1> HIDE DEF last
  <1>4. Word(last) \in Int  BY <1>2 DEF Word
  <1>5. Low(ReturnAddress) + 256 * High(ReturnAddress) = Word(last)
    BY <1>3, <1>4 DEF Low, High
  <1>6. QED  BY <1>2, <1>5, WordOfSum

\* A push leaves its frame intact.
LEMMA NewFrameIntact ==
  ASSUME TypeOK, Next, NEW f \in NewFrames
  PROVE  FrameIntact(f)'
  <1>1. PICK kind \in {"PHA", "PHP", "JSR", "BRK"} : Decoding({kind}) /\ f = NewFrame(kind)
    BY DEF NewFrames
  <1>2. f.kind = kind /\ f.at = theStackPtr /\ f.value = Value(kind)  BY <1>1 DEF NewFrame
  <1>3. theStackPtr \in Byte /\ thePc \in Mapped /\ Info.theHandler = kind
    BY <1>1 DEF TypeOK, Decoding
  <1>4. CellsOf(f) \subseteq Mapped /\ Mapped' = Mapped  BY AddressesStay DEF NewFrames
  <1>5. /\ f.kind \in {"PHA", "PHP", "JSR"} => 256 + theStackPtr \in Mapped
        /\ f.kind = "JSR" => 256 + Low(theStackPtr - 1) \in Mapped
    BY <1>2, <1>3, <1>4, CellsOfFrame
  <1>6. CASE kind = "JSR"
    <2>1. theMemory' = Pushed(<<High(ReturnAddress), Low(ReturnAddress)>>)
      BY <1>1, <1>3, <1>6, StackAction DEF handler_jsr
    <2>2. /\ theMemory'[256 + theStackPtr] = High(ReturnAddress)
          /\ theMemory'[256 + Low(theStackPtr - 1)] = Low(ReturnAddress)
      BY <1>2, <1>3, <1>5, <1>6, <2>1, PushedBytes
    <2>3. f.value = Word(Low(ReturnAddress) + 256 * High(ReturnAddress) + 1)
      BY <1>2, <1>3, <1>6, ReturnAddressIsRestored DEF Value
    <2>4. QED  BY <1>2, <1>3, <1>4, <1>6, <2>2, <2>3 DEF FrameIntact, CellsOf
  <1>7. CASE kind = "PHA"
    <2>1. theMemory' = Pushed(<<theAccum>>)
      BY <1>1, <1>3, <1>7, StackAction DEF Push
    <2>2. theMemory'[256 + theStackPtr] = theAccum
      BY <1>2, <1>3, <1>5, <1>7, <2>1, PushedByte
    <2>3. f.value = theAccum  BY <1>2, <1>7 DEF Value
    <2>4. QED  BY <1>2, <1>3, <1>4, <1>7, <2>2, <2>3 DEF FrameIntact, CellsOf
  <1>8. CASE kind = "PHP"
    <2>1. theMemory' = Pushed(<<PushedStatus>>)
      BY <1>1, <1>3, <1>8, StackAction DEF Push
    <2>2. theMemory'[256 + theStackPtr] = PushedStatus
      BY <1>2, <1>3, <1>5, <1>8, <2>1, PushedByte
    <2>3. StatusFlags(PushedStatus) = theStatusReg \union {"B", "U"}
      <3>1. theStatusReg \union {"B", "U"} \in SUBSET Flags  BY DEF TypeOK, Flags
      <3>2. QED  BY <3>1, StatusIsRestored DEF PushedStatus
    <2>4. f.value = theStatusReg \ {"B", "U"}  BY <1>2, <1>8 DEF Value
    <2>5. QED  BY <1>2, <1>3, <1>4, <1>8, <2>2, <2>3, <2>4 DEF FrameIntact, CellsOf
  <1>9. CASE kind = "BRK"
    BY <1>2, <1>3, <1>4, <1>9 DEF FrameIntact, CellsOf
  <1>10. QED  BY <1>1, <1>6, <1>7, <1>8, <1>9

\* A frame is remembered for as long as its cells are not written to.
LEMMA FramesStayIntact ==
  ASSUME TypeOK, FramesIntact, [NextWithHistory]_historyVars
  PROVE  FramesIntact'
  <1>1. CASE UNCHANGED historyVars
    BY <1>1 DEF historyVars, vars, FramesIntact, FrameIntact, Mapped
  <1>2. CASE NextWithHistory
    <2> SUFFICES ASSUME NEW f \in frames'
                 PROVE  FrameIntact(f)'
      BY DEF FramesIntact
    <2>1. CASE f \in NewFrames
      BY <1>2, <2>1, NewFrameIntact DEF NextWithHistory
    <2>2. CASE f \in frames /\ \A c \in CellsOf(f) : theMemory'[c] = theMemory[c]
      <3>1. FrameIntact(f)  BY <2>2 DEF FramesIntact
      <3>2. Mapped' = Mapped  BY <1>2, AddressesStay DEF NextWithHistory
      <3>3. /\ f.kind \in {"PHA", "PHP", "JSR"} => theMemory'[256 + f.at] = theMemory[256 + f.at]
            /\ f.kind = "JSR" => theMemory'[256 + Low(f.at - 1)] = theMemory[256 + Low(f.at - 1)]
        BY <2>2, <3>1, CellsOfFrame DEF FrameIntact
      <3>4. CellsOf(f)' = CellsOf(f)  BY DEF CellsOf
      <3>5. QED  BY <3>1, <3>2, <3>3, <3>4 DEF FrameIntact
    <2>3. QED  BY <1>2, <2>1, <2>2 DEF NextWithHistory, Remember
  <1>3. QED  BY <1>1, <1>2

\* The cells that a pull of one byte, and an RTS, read.
LEMMA PulledCells ==
  ASSUME theStackPtr \in Byte
  PROVE  /\ StackCell(1) = 256 + Low(theStackPtr + 1)
         /\ StackCell(2) = 256 + Low(theStackPtr + 2)
         /\ StackCell(1) = 256 + Low(Low(theStackPtr + 2) - 1)
  BY DEF StackCell, Low, Byte

LEMMA PullEndsFrame ==
  ASSUME TypeOK, FramesIntact, NextWithHistory
  PROVE  /\ Decoding({"RTS"}) => \A f \in Ended("JSR") : thePc' = f.value
         /\ Decoding({"PLA"}) => \A f \in Ended("PHA") : theAccum' = f.value
         /\ Decoding({"PLP"}) => \A f \in Ended("PHP") :
              /\ theStatusReg' \ {"B", "U"} = f.value
              /\ theStatusReg' \intersect {"B", "U"} = theStatusReg \intersect {"B", "U"}
  <1>1. /\ StackCell(1) = 256 + Low(theStackPtr + 1)
        /\ StackCell(2) = 256 + Low(theStackPtr + 2)
        /\ StackCell(1) = 256 + Low(Low(theStackPtr + 2) - 1)
    BY PulledCells DEF TypeOK
  <1>2. \A f \in frames : /\ f.kind \in {"PHA", "PHP", "JSR"} => 256 + f.at \in Mapped
                          /\ f.kind = "JSR" => 256 + Low(f.at - 1) \in Mapped
    BY CellsOfFrame DEF FramesIntact, FrameIntact
  <1>3. ASSUME Decoding({"RTS"}), NEW f \in Ended("JSR")
        PROVE  thePc' = f.value
    <2>1. handler_rts /\ Info.theHandler = "RTS" /\ thePc \in Mapped
      BY <1>3, StackAction DEF NextWithHistory, Decoding
    <2>2. Info.theNumBytes = 1  BY <2>1, InfoType DEF OperandBytes
    <2>3. f \in frames /\ f.kind = "JSR" /\ f.at = Low(theStackPtr + 2)
      BY <1>3, <2>1 DEF Ended, handler_rts
    <2>4. /\ Read(StackCell(1)) = theMemory[256 + Low(f.at - 1)]
          /\ Read(StackCell(2)) = theMemory[256 + f.at]
      BY <1>1, <1>2, <2>3 DEF Read
    <2>5. thePc' = Word(Read(StackCell(1)) + 256 * Read(StackCell(2)) + 1)
      BY <2>1, <2>2 DEF handler_rts, UpdatePc
    <2>6. QED  BY <2>3, <2>4, <2>5 DEF FramesIntact, FrameIntact
  <1>4. ASSUME Decoding({"PLA"}), NEW f \in Ended("PHA")
        PROVE  theAccum' = f.value
    <2>1. Pull /\ Info.theHandler = "PLA"
      BY <1>4, StackAction DEF NextWithHistory, Decoding
    <2>2. theAccum' = Read(StackCell(1)) /\ theStackPtr' = Low(theStackPtr + 1)
      BY <2>1 DEF Pull, Decoding
    <2>3. f \in frames /\ f.kind = "PHA" /\ f.at = Low(theStackPtr + 1)
      BY <1>4, <2>2 DEF Ended
    <2>4. QED  BY <1>1, <1>2, <2>2, <2>3 DEF Read, FramesIntact, FrameIntact
  <1>5. ASSUME Decoding({"PLP"}), NEW f \in Ended("PHP")
        PROVE  /\ theStatusReg' \ {"B", "U"} = f.value
               /\ theStatusReg' \intersect {"B", "U"} = theStatusReg \intersect {"B", "U"}
    <2>1. Pull /\ Info.theHandler = "PLP"
      BY <1>5, StackAction DEF NextWithHistory, Decoding
    <2>2. /\ theStatusReg' = (StatusFlags(Read(StackCell(1))) \ {"B", "U"})
                             \union (theStatusReg \intersect {"B", "U"})
          /\ theStackPtr' = Low(theStackPtr + 1)
      BY <2>1 DEF Pull, Decoding
    <2>3. f \in frames /\ f.kind = "PHP" /\ f.at = Low(theStackPtr + 1)
      BY <1>5, <2>2 DEF Ended
    <2>4. StatusFlags(Read(StackCell(1))) \ {"B", "U"} = f.value
      BY <1>1, <1>2, <2>3 DEF Read, FramesIntact, FrameIntact
    <2>5. QED  BY <2>2, <2>4
  <1>6. QED  BY <1>3, <1>4, <1>5

\* RTS continues behind the JSR whose bytes it takes, PLA and PLP bring back what was
\* pushed, whatever has been pushed, called and returned in between.
THEOREM PullUndoesPushCorrect == SpecWithHistory => PullUndoesPush
  <1> DEFINE Inv == IInv /\ FramesIntact
  <1>1. InitWithHistory => Inv  BY InitIInv DEF InitWithHistory, FramesIntact
  <1>2. Inv /\ [NextWithHistory]_historyVars => Inv'
    <2>1. [NextWithHistory]_historyVars => [Next]_vars  BY DEF NextWithHistory, historyVars
    <2>2. QED  BY <2>1, NextIInv, FramesStayIntact DEF IInv
  <1>3. Inv /\ [NextWithHistory]_historyVars =>
          [ /\ Decoding({"RTS"}) => \A f \in Ended("JSR") : thePc' = f.value
            /\ Decoding({"PLA"}) => \A f \in Ended("PHA") : theAccum' = f.value
            /\ Decoding({"PLP"}) => \A f \in Ended("PHP") :
                 /\ theStatusReg' \ {"B", "U"} = f.value
                 /\ theStatusReg' \intersect {"B", "U"} = theStatusReg \intersect {"B", "U"}
          ]_historyVars
    BY PullEndsFrame DEF IInv
  <1> HIDE DEF Inv
  <1>4. QED  BY <1>1, <1>2, <1>3, PTL DEF SpecWithHistory, PullUndoesPush

\* The history only observes: what is proved of the CPU holds with it, too.
THEOREM HistoryObserves == SpecWithHistory => Spec
  <1>1. InitWithHistory => Init  BY DEF InitWithHistory
  <1>2. [NextWithHistory]_historyVars => [Next]_vars  BY DEF NextWithHistory, historyVars
  <1>3. QED  BY <1>1, <1>2, PTL DEF SpecWithHistory, Spec
=============================================================================
