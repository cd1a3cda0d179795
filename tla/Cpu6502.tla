------------------------------ MODULE Cpu6502 ------------------------------
(***************************************************************************)
(* The emulated CPU (Cpu6502, Decoder6502) without a debugger: the loop of *)
(* Cpu6502::start and, as one step each, the instructions.  A step is one  *)
(* call of Decoder6502::decode: fetch, preHandlerHook (addressing mode),    *)
(* handler, postHandlerHook (clock and step limit), updatePc.              *)
(*                                                                         *)
(* A memory is a function on the addresses that have a device; every cell  *)
(* is RAM (what other devices do is the subject of MemoryController).      *)
(***************************************************************************)
EXTENDS Cpu6502Defines, FiniteSets

CONSTANTS Memories,      \* the memories, programs included, that a run may start with
          StartAddress,  \* the argument of setPc
          StepLimits,    \* bound: the arguments of setStepLimit
          UninitializedAddresses  \* bound: what theOperandAddr, which has no initializer, may hold

ASSUME MemoriesAssumption ==
  \A m \in Memories : DOMAIN m \subseteq CpuAddress /\ m \in [DOMAIN m -> Byte]
ASSUME StartAssumption == StartAddress \in CpuAddress
ASSUME StepLimitsAssumption == StepLimits \subseteq Nat
ASSUME UninitializedAssumption == UninitializedAddresses \subseteq CpuAddress

VARIABLES theAccum, theRegX, theRegY, theStackPtr,
          theStatusReg,    \* the set of the flags that are 1
          thePc,
          theOperandAddr,  \* a member, so it outlives the instruction that set it
          theMemory,
          theRunFlag,
          theNumClocks,
          theNumberOfStepsExecuted, theNumberOfStepsToTrace,
          haltCallbacks,   \* how often the halt callbacks have been called
          process          \* "runs", "ended" (start has returned) or "crashed"

registers == <<theAccum, theRegX, theRegY>>
vars == <<registers, theStackPtr, theStatusReg, thePc, theOperandAddr, theMemory, theRunFlag,
          theNumClocks, theNumberOfStepsExecuted, theNumberOfStepsToTrace, haltCallbacks, process>>

Init ==
  /\ theAccum = 0 /\ theRegX = 0 /\ theRegY = 0
  /\ theStackPtr = 253
  /\ theStatusReg = {"I", "U"}
  /\ thePc = StartAddress
  /\ theOperandAddr \in UninitializedAddresses
  /\ theMemory \in Memories
  /\ theRunFlag = TRUE
  /\ theNumClocks = 0
  /\ theNumberOfStepsExecuted = 0 /\ theNumberOfStepsToTrace \in StepLimits
  /\ haltCallbacks = 0
  /\ process = "runs"

-----------------------------------------------------------------------------
(* Memory accesses.  One to an address without a device halts the CPU; the  *)
(* instruction goes on, with 0xff for the byte it could not read.           *)

Mapped == DOMAIN theMemory
Read(address) == IF address \in Mapped THEN theMemory[address] ELSE 255
Written(address, b) == [a \in Mapped |-> IF a = address THEN b ELSE theMemory[a]]

\* The stack cell n above the stack pointer.
StackCell(n) == 256 + Low(theStackPtr + n)
Pushed(bytes) ==
  [a \in Mapped |-> IF \E i \in DOMAIN bytes : a = StackCell(1 - i)
                    THEN bytes[CHOOSE i \in DOMAIN bytes : a = StackCell(1 - i)]
                    ELSE theMemory[a]]

-----------------------------------------------------------------------------
(* Decoding and the addressing modes.                                      *)

Info == gOpCodes[theMemory[thePc]]
OpCode2 == theMemory[Word(thePc + 1)]
OpCode3 == theMemory[Word(thePc + 2)]
OperandWord == OpCode2 + 256 * OpCode3

OperandsMapped == \A i \in 1 .. Info.theNumBytes - 1 : Word(thePc + i) \in Mapped
Decoding(handlers) ==
  /\ process = "runs" /\ theRunFlag
  /\ thePc \in Mapped
  /\ Info.theHandler \in handlers
  /\ OperandsMapped

\* An address held by two bytes of the zero page, which it does not leave.
PointerAt(zeroPage) == Read(zeroPage) + 256 * Read(Low(zeroPage + 1))

PointerCells == CASE Info.theAddrMode = "INX" -> <<Low(OpCode2 + theRegX + 1), Low(OpCode2 + theRegX)>>
                  [] Info.theAddrMode = "INY" -> <<Low(OpCode2 + 1), OpCode2>>
                  [] OTHER -> <<>>

\* preHandlerHook.  Modes without an address leave that of the instruction before.
OperandAddr ==
  CASE Info.theAddrMode = "ZPG" -> OpCode2
    [] Info.theAddrMode = "ZPX" -> Low(OpCode2 + theRegX)
    [] Info.theAddrMode = "ZPY" -> Low(OpCode2 + theRegY)
    [] Info.theAddrMode \in {"ABS", "IND"} -> OperandWord
    [] Info.theAddrMode = "ABX" -> Word(OperandWord + theRegX)
    [] Info.theAddrMode = "ABY" -> Word(OperandWord + theRegY)
    [] Info.theAddrMode = "REL" -> Word(thePc + SignedByte(OpCode2))
    [] Info.theAddrMode = "INX" -> PointerAt(Low(OpCode2 + theRegX))
    [] Info.theAddrMode = "INY" -> Word(PointerAt(OpCode2) + theRegY)
    [] OTHER -> theOperandAddr

PageBoundaryCrossed ==
  \/ Info.theAddrMode \in {"ABX", "ABY"} /\ High(OperandAddr) # OpCode3
  \/ Info.theAddrMode = "REL" /\ High(OperandAddr) # High(thePc)
PageDelay(modes) == If(PageBoundaryCrossed /\ Info.theAddrMode \in modes, 1)

Operand == IF Info.theAddrMode = "IMM" THEN OpCode2 ELSE Read(OperandAddr)
OperandCells == IF Info.theAddrMode = "IMM" THEN <<>> ELSE <<OperandAddr>>

\* The accesses of these that fail, each of which halts the CPU.
Failed(cells) == {k \in DOMAIN cells : cells[k] \notin Mapped}
Halts(cells) == Cardinality(Failed(PointerCells)) + Cardinality(Failed(cells))

\* Mutant: the halt of an access is forgotten.
RetireAnyway(cells, extraClockCycles) ==
  LET executed == theNumberOfStepsExecuted + 1
      limitHit == theNumberOfStepsToTrace < executed
  IN /\ theOperandAddr' = OperandAddr
     /\ theNumClocks' = theNumClocks + Info.theDelayCycles + extraClockCycles
     /\ theNumberOfStepsExecuted' = executed
     /\ haltCallbacks' = haltCallbacks + Halts(cells)
     /\ theRunFlag' = ~limitHit
     /\ UNCHANGED <<theNumberOfStepsToTrace, process>>

\* What an instruction that accessed these cells leaves behind; postHandlerHook halts
\* behind the step limit.
Retire(cells, extraClockCycles) ==
  LET executed == theNumberOfStepsExecuted + 1
      limitHit == theNumberOfStepsToTrace < executed
  IN /\ theOperandAddr' = OperandAddr
     /\ theNumClocks' = theNumClocks + Info.theDelayCycles + extraClockCycles
     /\ theNumberOfStepsExecuted' = executed
     /\ haltCallbacks' = haltCallbacks + Halts(cells) + If(limitHit, 1)
     /\ theRunFlag' = (Halts(cells) = 0 /\ ~limitHit)
     /\ UNCHANGED <<theNumberOfStepsToTrace, process>>

\* updatePc, from where the handler has set the PC to.
UpdatePc(pc) == thePc' = Word(pc + Info.theNumBytes)
Advance == UpdatePc(thePc)

\* Mutant: an op-code without a device is skipped over, for ever.
DecodeNothingForEver ==
  /\ process = "runs" /\ theRunFlag
  /\ thePc \notin Mapped
  /\ UNCHANGED vars

\* The op-code has no device: decode halts, and returns without executing anything.
DecodeNothing ==
  /\ process = "runs" /\ theRunFlag
  /\ thePc \notin Mapped
  /\ theRunFlag' = FALSE
  /\ haltCallbacks' = haltCallbacks + 1
  /\ UNCHANGED <<registers, theStackPtr, theStatusReg, thePc, theOperandAddr, theMemory, theNumClocks,
                 theNumberOfStepsExecuted, theNumberOfStepsToTrace, process>>

\* An operand byte has none: decode calls read8 through a null pointer.
FetchFault ==
  /\ process = "runs" /\ theRunFlag
  /\ thePc \in Mapped
  /\ ~OperandsMapped
  /\ process' = "crashed"
  /\ UNCHANGED <<registers, theStackPtr, theStatusReg, thePc, theOperandAddr, theMemory, theRunFlag,
                 theNumClocks, theNumberOfStepsExecuted, theNumberOfStepsToTrace, haltCallbacks>>

\* The loop of start ends, and start calls the callbacks once more.
StartReturns ==
  /\ process = "runs" /\ ~theRunFlag
  /\ haltCallbacks' = haltCallbacks + 1
  /\ process' = "ended"
  /\ UNCHANGED <<registers, theStackPtr, theStatusReg, thePc, theOperandAddr, theMemory, theRunFlag,
                 theNumClocks, theNumberOfStepsExecuted, theNumberOfStepsToTrace>>

-----------------------------------------------------------------------------
(* Flags and arithmetic.                                                   *)

With(flags, flag, condition) == IF condition THEN flags \union {flag} ELSE flags \ {flag}
SignZero(flags, b) == With(With(flags, "N", b >= 128), "Z", b = 0)
Carry(flags) == If("C" \in flags, 1)

\* Mutant: the bit shifted out stays.
ShiftedLeftWide(b, carryIn) == 2 * b + carryIn

ShiftedLeft(b, carryIn) == Low(2 * b) + carryIn
ShiftedRight(b, carryIn) == b \div 2 + 128 * carryIn

\* Mutant: the overflow flag looks at the operand alone.
NaiveAddition(accum, flags, operand) ==
  LET sum == accum + operand + Carry(flags) IN
  [accum |-> Low(sum),
   flags |-> With(SignZero(With(flags, "V", Bit(operand, 128) # Bit(sum, 128)), Low(sum)), "C", sum > 255)]

\* addition_operation.  Decimal mode is ignored.
Addition(accum, flags, operand) ==
  LET sum == accum + operand + Carry(flags)
      overflow == Bit(accum, 128) = Bit(operand, 128) /\ Bit(accum, 128) # Bit(sum, 128)
  IN [accum |-> Low(sum),
      flags |-> With(SignZero(With(flags, "V", overflow), Low(sum)), "C", sum > 255)]

\* comparison_operation.
Comparison(flags, register, operand) ==
  LET difference == Low(register + (255 - operand) + 1) IN
  With(With(With(flags, "Z", register = operand), "C", register >= operand), "N", difference >= 128)

-----------------------------------------------------------------------------
(* Logic, shifts, loads, stores and transfers.                             *)

Logic ==
  /\ Decoding({"AND", "ORA", "EOR"})
  /\ theAccum' = CASE Info.theHandler = "AND" -> BitAnd(theAccum, Operand)
                   [] Info.theHandler = "ORA" -> BitOr(theAccum, Operand)
                   [] Info.theHandler = "EOR" -> BitXor(theAccum, Operand)
  /\ theStatusReg' = SignZero(theStatusReg, theAccum')
  /\ Retire(OperandCells, PageDelay({"ABX", "ABY", "INY"}))
  /\ Advance
  /\ UNCHANGED <<theRegX, theRegY, theStackPtr, theMemory>>

\* A shift of the accumulator, or of a byte that is read and written back.
Shifted(shifted, carryOut) ==
  /\ IF Info.theAddrMode = "IMP"
     THEN /\ theAccum' = shifted
          /\ theMemory' = theMemory
          /\ Retire(<<>>, 0)
     ELSE /\ theMemory' = Written(OperandAddr, shifted)
          /\ theAccum' = theAccum
          /\ Retire(<<OperandAddr, OperandAddr>>, 0)
  /\ theStatusReg' = SignZero(With(theStatusReg, "C", carryOut), shifted)
  /\ Advance
  /\ UNCHANGED <<theRegX, theRegY, theStackPtr>>

ShiftOperand == IF Info.theAddrMode = "IMP" THEN theAccum ELSE Read(OperandAddr)

Rotate ==
  \/ /\ Decoding({"ROL"})
     /\ Shifted(ShiftedLeft(ShiftOperand, Carry(theStatusReg)), ShiftOperand >= 128)
  \/ /\ Decoding({"ROR"})
     /\ Shifted(ShiftedRight(ShiftOperand, Carry(theStatusReg)), ShiftOperand % 2 = 1)

Shift ==
  \/ Decoding({"ASL"}) /\ Shifted(ShiftedLeft(ShiftOperand, 0), ShiftOperand >= 128)
  \/ Decoding({"LSR"}) /\ Shifted(ShiftedRight(ShiftOperand, 0), ShiftOperand % 2 = 1)

\* Of the new value of the register the handler loads, or else its old one.
Loads(handlers, register, value) == IF Info.theHandler \in handlers THEN value ELSE register

Load ==
  /\ Decoding({"LDA", "LDX", "LDY"})
  /\ theAccum' = Loads({"LDA"}, theAccum, Operand)
  /\ theRegX' = Loads({"LDX"}, theRegX, Operand)
  /\ theRegY' = Loads({"LDY"}, theRegY, Operand)
  /\ theStatusReg' = SignZero(theStatusReg, Operand)
  /\ Retire(OperandCells, CASE Info.theHandler = "LDA" -> PageDelay({"ABX", "ABY", "INY"})
                            [] Info.theHandler = "LDX" -> PageDelay({"ABY"})
                            [] Info.theHandler = "LDY" -> PageDelay({"ABX"}))
  /\ Advance
  /\ UNCHANGED <<theStackPtr, theMemory>>

Store ==
  /\ Decoding({"STA", "STX", "STY"})
  /\ theMemory' = Written(OperandAddr, CASE Info.theHandler = "STA" -> theAccum
                                         [] Info.theHandler = "STX" -> theRegX
                                         [] Info.theHandler = "STY" -> theRegY)
  /\ Retire(<<OperandAddr>>, 0)
  /\ Advance
  /\ UNCHANGED <<registers, theStackPtr, theStatusReg>>

\* TXS is the transfer that leaves the flags alone.
Transfer ==
  /\ \/ /\ Decoding({"TAX", "TAY", "TXA", "TYA", "TSX"})
        /\ LET source == CASE Info.theHandler \in {"TAX", "TAY"} -> theAccum
                           [] Info.theHandler = "TXA" -> theRegX
                           [] Info.theHandler = "TYA" -> theRegY
                           [] Info.theHandler = "TSX" -> theStackPtr
           IN /\ theAccum' = Loads({"TXA", "TYA"}, theAccum, source)
              /\ theRegX' = Loads({"TAX", "TSX"}, theRegX, source)
              /\ theRegY' = Loads({"TAY"}, theRegY, source)
              /\ theStatusReg' = SignZero(theStatusReg, source)
        /\ theStackPtr' = theStackPtr
     \/ /\ Decoding({"TXS"})
        /\ theStackPtr' = theRegX
        /\ UNCHANGED <<registers, theStatusReg>>
  /\ Retire(<<>>, 0)
  /\ Advance
  /\ theMemory' = theMemory

-----------------------------------------------------------------------------
(* Arithmetic, flags and comparisons.                                      *)

CountMemory ==
  /\ Decoding({"INC", "DEC"})
  /\ LET counted == Low(Read(OperandAddr) + (IF Info.theHandler = "INC" THEN 1 ELSE -1))
     IN /\ theMemory' = Written(OperandAddr, counted)
        /\ theStatusReg' = SignZero(theStatusReg, counted)
  /\ Retire(<<OperandAddr, OperandAddr>>, 0)
  /\ Advance
  /\ UNCHANGED <<registers, theStackPtr>>

CountRegister ==
  /\ Decoding({"INX", "DEX", "INY", "DEY"})
  /\ LET Counted(register) == Low(register + (IF Info.theHandler \in {"INX", "INY"} THEN 1 ELSE -1))
     IN /\ theRegX' = Loads({"INX", "DEX"}, theRegX, Counted(theRegX))
        /\ theRegY' = Loads({"INY", "DEY"}, theRegY, Counted(theRegY))
        /\ theStatusReg' =
             SignZero(theStatusReg, Counted(IF Info.theHandler \in {"INX", "DEX"} THEN theRegX ELSE theRegY))
  /\ Retire(<<>>, 0)
  /\ Advance
  /\ UNCHANGED <<theAccum, theStackPtr, theMemory>>

\* SBC adds the complement of its operand.
Add ==
  /\ Decoding({"ADC", "SBC"})
  /\ LET sum == Addition(theAccum, theStatusReg,
                         IF Info.theHandler = "ADC" THEN Operand ELSE 255 - Operand)
     IN theAccum' = sum.accum /\ theStatusReg' = sum.flags
  /\ Retire(OperandCells, PageDelay({"ABX", "ABY", "INY"}))
  /\ Advance
  /\ UNCHANGED <<theRegX, theRegY, theStackPtr, theMemory>>

ChangeFlag ==
  /\ Decoding({"CLC", "SEC", "CLI", "SEI", "CLD", "SED", "CLV"})
  /\ theStatusReg' = CASE Info.theHandler \in {"CLC", "SEC"} -> With(theStatusReg, "C", Info.theHandler = "SEC")
                       [] Info.theHandler \in {"CLI", "SEI"} -> With(theStatusReg, "I", Info.theHandler = "SEI")
                       [] Info.theHandler \in {"CLD", "SED"} -> With(theStatusReg, "D", Info.theHandler = "SED")
                       [] Info.theHandler = "CLV" -> theStatusReg \ {"V"}
  /\ Retire(<<>>, 0)
  /\ Advance
  /\ UNCHANGED <<registers, theStackPtr, theMemory>>

\* CMP takes its extra cycle on every indexed access, page crossed or not.
Compare ==
  /\ Decoding({"CMP", "CPX", "CPY"})
  /\ theStatusReg' = Comparison(theStatusReg, CASE Info.theHandler = "CMP" -> theAccum
                                                [] Info.theHandler = "CPX" -> theRegX
                                                [] Info.theHandler = "CPY" -> theRegY, Operand)
  /\ Retire(OperandCells, If(Info.theHandler = "CMP" /\ Info.theAddrMode \in {"ABX", "ABY", "INY"}, 1))
  /\ Advance
  /\ UNCHANGED <<registers, theStackPtr, theMemory>>

handler_bit ==
  /\ Decoding({"BIT"})
  /\ theStatusReg' = With(With(With(theStatusReg, "Z", BitAnd(Operand, theAccum) = 0),
                               "V", Bit(Operand, 64) = 1), "N", Operand >= 128)
  /\ Retire(OperandCells, 0)
  /\ Advance
  /\ UNCHANGED <<registers, theStackPtr, theMemory>>

-----------------------------------------------------------------------------
(* Jumps, subroutines and branches.  decode adds the length of the op-code  *)
(* to what a handler has made of the PC; RTS and BRK and the branches count *)
(* on that, the other jumps subtract it.                                    *)

\* The high byte of an indirect target does not leave the page of the low byte.
JumpCells == <<OperandAddr, 256 * High(OperandAddr) + Low(OperandAddr + 1)>>

\* Mutant: the length is not subtracted.
JumpTooFar ==
  /\ Decoding({"JMP"})
  /\ UpdatePc(OperandAddr)
  /\ Retire(<<>>, 0)
  /\ UNCHANGED <<registers, theStackPtr, theStatusReg, theMemory>>

handler_jmp ==
  /\ Decoding({"JMP"})
  /\ \/ /\ Info.theAddrMode = "ABS"
        /\ UpdatePc(OperandAddr - Info.theNumBytes)
        /\ Retire(<<>>, 0)
     \/ /\ Info.theAddrMode = "IND"
        /\ UpdatePc(Read(JumpCells[1]) + 256 * Read(JumpCells[2]) - Info.theNumBytes)
        /\ Retire(JumpCells, 0)
  /\ UNCHANGED <<registers, theStackPtr, theStatusReg, theMemory>>

\* JSR and BRK push the address of the last byte of the instruction, high byte first.
ReturnAddress == Word(thePc + Info.theNumBytes - 1)

\* The test for an overflow of the stack compares the 8-bit pointer with 0x0100 and
\* never holds.
handler_jsr ==
  /\ Decoding({"JSR"})
  /\ theMemory' = Pushed(<<High(ReturnAddress), Low(ReturnAddress)>>)
  /\ theStackPtr' = Low(theStackPtr - 2)
  /\ UpdatePc(OperandAddr - Info.theNumBytes)
  /\ Retire(<<StackCell(0), StackCell(-1)>>, 0)
  /\ UNCHANGED <<registers, theStatusReg>>

\* Mutant: the bytes are pulled in the order in which they were pushed.
handler_rts_swapped ==
  /\ Decoding({"RTS"})
  /\ theStackPtr' = Low(theStackPtr + 2)
  /\ UpdatePc(256 * Read(StackCell(1)) + Read(StackCell(2)))
  /\ Retire(<<StackCell(1), StackCell(2)>>, 0)
  /\ UNCHANGED <<registers, theStatusReg, theMemory>>

handler_rts ==
  /\ Decoding({"RTS"})
  /\ theStackPtr' = Low(theStackPtr + 2)
  /\ UpdatePc(Read(StackCell(1)) + 256 * Read(StackCell(2)))
  /\ Retire(<<StackCell(1), StackCell(2)>>, 0)
  /\ UNCHANGED <<registers, theStatusReg, theMemory>>

\* The flags B and U are or-ed with those of the byte pulled.
handler_rti ==
  /\ Decoding({"RTI"})
  /\ theStatusReg' = StatusFlags(Read(StackCell(1))) \union (theStatusReg \intersect {"B", "U"})
  /\ theStackPtr' = Low(theStackPtr + 3)
  /\ UpdatePc(Read(StackCell(2)) + 256 * Read(StackCell(3)) - Info.theNumBytes)
  /\ Retire(<<StackCell(1), StackCell(2), StackCell(3)>>, 0)
  /\ UNCHANGED <<registers, theMemory>>

\* For a branch, the flag it tests and whether it wants it set.
BranchTest == [BEQ |-> <<"Z", TRUE>>, BNE |-> <<"Z", FALSE>>, BMI |-> <<"N", TRUE>>, BPL |-> <<"N", FALSE>>,
               BVS |-> <<"V", TRUE>>, BVC |-> <<"V", FALSE>>, BCS |-> <<"C", TRUE>>, BCC |-> <<"C", FALSE>>]

\* The offset counts from the branch itself in theOperandAddr, from behind it once
\* updatePc has run.
Branch ==
  /\ Decoding(DOMAIN BranchTest)
  /\ LET test == BranchTest[Info.theHandler]
         taken == (test[1] \in theStatusReg) = test[2]
     IN /\ UpdatePc(IF taken THEN OperandAddr ELSE thePc)
        /\ Retire(<<>>, If(taken, IF PageBoundaryCrossed THEN 2 ELSE 1))
  /\ UNCHANGED <<registers, theStackPtr, theStatusReg, theMemory>>

-----------------------------------------------------------------------------
(* The stack.                                                              *)

PushedStatus == StatusByte(theStatusReg \union {"B", "U"})

Push ==
  /\ Decoding({"PHA", "PHP"})
  /\ theMemory' = Pushed(<<IF Info.theHandler = "PHA" THEN theAccum ELSE PushedStatus>>)
  /\ theStackPtr' = Low(theStackPtr - 1)
  /\ Retire(<<StackCell(0)>>, 0)
  /\ Advance
  /\ UNCHANGED <<registers, theStatusReg>>

Pull ==
  /\ \/ /\ Decoding({"PLA"})
        /\ theAccum' = Read(StackCell(1))
        /\ theStatusReg' = SignZero(theStatusReg, theAccum')
     \/ /\ Decoding({"PLP"})
        /\ theStatusReg' = (StatusFlags(Read(StackCell(1))) \ {"B", "U"}) \union (theStatusReg \intersect {"B", "U"})
        /\ theAccum' = theAccum
  /\ theStackPtr' = Low(theStackPtr + 1)
  /\ Retire(<<StackCell(1)>>, 0)
  /\ Advance
  /\ UNCHANGED <<theRegX, theRegY, theMemory>>

\* Three bytes pushed, the stack pointer moved by two; the interrupt flag stays.
handler_brk ==
  /\ Decoding({"BRK"})
  /\ theMemory' = Pushed(<<High(ReturnAddress), Low(ReturnAddress), PushedStatus>>)
  /\ theStackPtr' = Low(theStackPtr - 2)
  /\ theStatusReg' = theStatusReg \union {"B"}
  /\ UpdatePc(Read(65534) + 256 * Read(65535))
  /\ Retire(<<StackCell(0), StackCell(-1), StackCell(-2), 65535, 65534>>, 0)
  /\ UNCHANGED registers

-----------------------------------------------------------------------------
(* The unofficial op-codes.  Some are built (UNOFFICIAL_NES_OPCODE_SUPPORT), *)
(* the others have empty handlers.                                          *)

\* A byte is changed in memory and then combined with the accumulator.
Combined(b, result, extraClockCycles) ==
  /\ theMemory' = Written(OperandAddr, b)
  /\ theAccum' = result.accum
  /\ theStatusReg' = result.flags
  /\ Retire(<<OperandAddr, OperandAddr>>, extraClockCycles)
  /\ Advance
  /\ UNCHANGED <<theRegX, theRegY, theStackPtr>>

\* Mutant: the old carry is added once more.
handler_rra_old_carry ==
  /\ Decoding({"RRA"})
  /\ LET b == ShiftedRight(Read(OperandAddr), Carry(theStatusReg))
     IN Combined(b, Addition(theAccum, theStatusReg, b), PageDelay({"ABX", "ABY", "INY"}))

handler_rra ==
  /\ Decoding({"RRA"})
  /\ LET b == ShiftedRight(Read(OperandAddr), Carry(theStatusReg))
         flags == With(theStatusReg, "C", Read(OperandAddr) % 2 = 1)
     IN Combined(b, Addition(theAccum, flags, b), PageDelay({"ABX", "ABY", "INY"}))

handler_rla ==
  /\ Decoding({"RLA"})
  /\ LET b == ShiftedLeft(Read(OperandAddr), Carry(theStatusReg))
         accum == BitAnd(theAccum, b)
         flags == With(theStatusReg, "C", Bit(Read(OperandAddr), 128) = 1)
     IN Combined(b, [accum |-> accum, flags |-> SignZero(flags, accum)], 0)

handler_sre ==
  /\ Decoding({"SRE"})
  /\ LET b == ShiftedRight(Read(OperandAddr), 0)
         accum == BitXor(theAccum, b)
         flags == With(theStatusReg, "C", Bit(Read(OperandAddr), 1) = 1)
     IN Combined(b, [accum |-> accum, flags |-> SignZero(flags, accum)], 0)

handler_slo ==
  /\ Decoding({"SLO"})
  /\ LET b == ShiftedLeft(Read(OperandAddr), 0)
         accum == BitOr(theAccum, b)
         flags == With(theStatusReg, "C", Bit(Read(OperandAddr), 128) = 1)
     IN Combined(b, [accum |-> accum, flags |-> SignZero(flags, accum)], 0)

handler_dcp ==
  /\ Decoding({"DCP"})
  /\ LET b == Low(Read(OperandAddr) - 1)
     IN Combined(b, [accum |-> theAccum, flags |-> Comparison(theStatusReg, theAccum, b)], 0)

\* The page delay of the addition is taken back.
handler_isc ==
  /\ Decoding({"ISC"})
  /\ LET b == Low(Read(OperandAddr) + 1)
     IN Combined(b, Addition(theAccum, theStatusReg, 255 - b), 0)

handler_sax ==
  /\ Decoding({"SAX"})
  /\ theMemory' = Written(OperandAddr, BitAnd(theRegX, theAccum))
  /\ Retire(<<OperandAddr>>, 0)
  /\ Advance
  /\ UNCHANGED <<registers, theStackPtr, theStatusReg>>

\* LAX always reads memory: with an immediate operand, at the address some earlier
\* instruction has left.
handler_lax ==
  /\ Decoding({"LAX"})
  /\ theRegX' = Read(OperandAddr)
  /\ theAccum' = theRegX'
  /\ theStatusReg' = SignZero(theStatusReg, theRegX')
  /\ Retire(<<OperandAddr>>, PageDelay({"ABY", "INY"}))
  /\ Advance
  /\ UNCHANGED <<theRegY, theStackPtr, theMemory>>

EmptyHandler ==
  /\ Decoding({"NOP", "KIL", "ANC", "ARR", "ALR", "AHX", "TAS", "XAA", "AXS", "SHX", "SHY", "LAS"})
  /\ Retire(<<>>, 0)
  /\ Advance
  /\ UNCHANGED <<registers, theStackPtr, theStatusReg, theMemory>>

-----------------------------------------------------------------------------

Unofficial == \/ handler_rra \/ handler_rla \/ handler_sre \/ handler_slo \/ handler_dcp \/ handler_isc
              \/ handler_sax \/ handler_lax
Official == \/ Logic \/ Rotate \/ Shift \/ Load \/ Store \/ Transfer \/ CountMemory \/ CountRegister
            \/ Add \/ ChangeFlag \/ Compare \/ handler_bit \/ handler_jmp \/ handler_jsr \/ handler_rts
            \/ handler_rti \/ Branch \/ Push \/ Pull \/ handler_brk \/ EmptyHandler
Decode == Official \/ Unofficial \/ DecodeNothing \/ FetchFault
Next == Decode \/ StartReturns

Spec == Init /\ [][Next]_vars

\* The emulation thread is scheduled.
FairSpec == Spec /\ WF_vars(Next)

-----------------------------------------------------------------------------
(* Properties.                                                             *)

\* Registers are bytes, addresses are 16 bits wide, the memory keeps its addresses.
TypeOK ==
  /\ theAccum \in Byte /\ theRegX \in Byte /\ theRegY \in Byte /\ theStackPtr \in Byte
  /\ theStatusReg \subseteq Flags
  /\ thePc \in CpuAddress /\ theOperandAddr \in CpuAddress
  /\ Mapped \subseteq CpuAddress /\ theMemory \in [Mapped -> Byte]
  /\ theRunFlag \in BOOLEAN
  /\ theNumClocks \in Nat
  /\ theNumberOfStepsExecuted \in Nat /\ theNumberOfStepsToTrace \in Nat
  /\ haltCallbacks \in Nat
  /\ process \in {"runs", "ended", "crashed"}

SignAndZeroOf(b) == ("N" \in theStatusReg' <=> b >= 128) /\ ("Z" \in theStatusReg' <=> b = 0)

\* A step of adc, sbc or a compare handler, beside integer arithmetic.
ExactStep ==
  LET c == Carry(theStatusReg)
      carryOut == Carry(theStatusReg')
      signed == SignedByte(theAccum)
      register == CASE Decoding({"CMP"}) -> theAccum [] Decoding({"CPX"}) -> theRegX [] OTHER -> theRegY
  IN /\ Decoding({"ADC"}) =>
          /\ 256 * carryOut + theAccum' = theAccum + Operand + c
          /\ "V" \in theStatusReg' <=> signed + SignedByte(Operand) + c \notin -128 .. 127
          /\ SignAndZeroOf(theAccum')
     /\ Decoding({"SBC"}) =>
          /\ theAccum' - 256 * (1 - carryOut) = theAccum - Operand - (1 - c)
          /\ "V" \in theStatusReg' <=> signed - SignedByte(Operand) - (1 - c) \notin -128 .. 127
          /\ SignAndZeroOf(theAccum')
     /\ Decoding({"CMP", "CPX", "CPY"}) =>
          /\ "C" \in theStatusReg' <=> register >= Operand
          /\ SignAndZeroOf(Low(register - Operand))

\* The bits and flags that adc, sbc and the compare handlers compute are those of
\* integer arithmetic: the carry is the ninth bit of the sum, and is clear when a
\* difference borrows; the overflow flag says that the signed result does not fit.
ArithmeticIsExact == [][ExactStep]_vars

\* A step of an unofficial op-code, beside its two official parts.
ComposedStep ==
  LET c == Carry(theStatusReg)
      carryOut == Carry(theStatusReg')
      old == theMemory[OperandAddr]
      new == theMemory'[OperandAddr]
      Executing(handler) == Decoding({handler}) /\ OperandAddr \in Mapped
  IN /\ Executing("SLO") => /\ 256 * carryOut + new = 2 * old
                            /\ theAccum' = BitOr(theAccum, new) /\ SignAndZeroOf(theAccum')
     /\ Executing("RLA") => /\ 256 * carryOut + new = 2 * old + c
                            /\ theAccum' = BitAnd(theAccum, new) /\ SignAndZeroOf(theAccum')
     /\ Executing("SRE") => /\ 2 * new + carryOut = old
                            /\ theAccum' = BitXor(theAccum, new) /\ SignAndZeroOf(theAccum')
     /\ Executing("RRA") => /\ 2 * new + (old % 2) = old + 256 * c
                            /\ 256 * carryOut + theAccum' = theAccum + new + (old % 2)
     /\ Executing("DCP") => /\ new = Low(old - 1) /\ theAccum' = theAccum
                            /\ "C" \in theStatusReg' <=> theAccum >= new
     /\ Executing("ISC") => /\ new = Low(old + 1)
                            /\ theAccum' - 256 * (1 - carryOut) = theAccum - new - (1 - c)

\* "Equivalent to ASL followed by ORA", "Equivalent to DEC followed by a CMP": an
\* unofficial op-code does to the byte, the accumulator and the flags what its two
\* official parts do one after the other, the carry of the first going into the second.
UnofficialIsComposition == [][ComposedStep]_vars

\* Where a step of a handler leaves the PC.
LandingStep ==
  LET behind == thePc + Info.theNumBytes
      handler == Info.theHandler
  IN Decoding(Handlers \ {"RTS", "RTI", "BRK"}) =>
       thePc' = IF handler = "JSR" \/ (handler = "JMP" /\ Info.theAddrMode = "ABS") THEN OperandWord
                ELSE IF handler = "JMP"
                THEN Read(OperandWord) + 256 * Read(256 * OpCode3 + Low(OpCode2 + 1))
                ELSE IF handler \in DOMAIN BranchTest
                     /\ (BranchTest[handler][1] \in theStatusReg) = BranchTest[handler][2]
                THEN Word(behind + SignedByte(OpCode2))
                ELSE Word(behind)

\* Whatever a handler does to the PC, updatePc adds the length of the op-code to it,
\* modulo 2^16: jumps and calls still land on their operand, branches on their offset
\* from the next instruction, and everything else on the next instruction.
JumpsLand == [][LandingStep]_vars

\* Nothing is executed after a halt, be it for an access without a device or for the
\* step limit; the halt callbacks, which push a window command each time, run at least
\* twice and at most seven times.
HaltStops ==
  /\ haltCallbacks > 0 => ~theRunFlag
  /\ haltCallbacks <= 7
  /\ process = "ended" => haltCallbacks >= 2

\* With a step limit every program ends: one that loops, one that runs into a hole.
EveryProgramEnds == <>(process # "runs")
=============================================================================
