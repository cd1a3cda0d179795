--------------------------- MODULE Cpu6502Defines ---------------------------
(***************************************************************************)
(* What the two decoders of emu6502, the emulated CPU and the disassembler, *)
(* share: bytes and addresses with their wrap-around, the status flags, the *)
(* bitwise operators of C++ on bytes and the op-code table gOpCodes.        *)
(* Addressing modes have short names: IMP for IMPLIED, IMM for IMMEDIATE,   *)
(* REL for RELATIVE, IND for INDIRECT, INX and INY for INDIRECT_X and       *)
(* INDIRECT_Y, ABS, ABX, ABY for ABSOLUTE, ABSOLUTE_X, ABSOLUTE_Y, and ZPG, *)
(* ZPX, ZPY for ZERO_PAGE, ZERO_PAGE_X, ZERO_PAGE_Y.                        *)
(***************************************************************************)
EXTENDS Integers, Sequences

Byte == 0 .. 255
CpuAddress == 0 .. 65535
Low(n) == n % 256                \* uint8_t
Word(n) == n % 65536             \* uint16_t
High(address) == address \div 256
SignedByte(b) == IF b >= 128 THEN b - 256 ELSE b  \* int8_t

-----------------------------------------------------------------------------
(* The bit fields of StatusRegUnion, as the set of the flags that are 1:    *)
(* C is theCarryFlag, Z theZeroFlag, I theInterruptFlag, D theBCDFlag, B    *)
(* theBreakpointFlag, U theNotUsedFlag, V theOverflowFlag, N theSignFlag.   *)
Flags == {"C", "Z", "I", "D", "B", "U", "V", "N"}
If(condition, n) == IF condition THEN n ELSE 0

StatusByte(S) == If("C" \in S, 1) + If("Z" \in S, 2) + If("I" \in S, 4) + If("D" \in S, 8)
                 + If("B" \in S, 16) + If("U" \in S, 32) + If("V" \in S, 64) + If("N" \in S, 128)
FlagBit == [C |-> 1, Z |-> 2, I |-> 4, D |-> 8, B |-> 16, U |-> 32, V |-> 64, N |-> 128]
Bit(b, weight) == (b \div weight) % 2
StatusFlags(b) == {f \in Flags : Bit(b, FlagBit[f]) = 1}

Weights == {1, 2, 4, 8, 16, 32, 64, 128}
FromBits(bits) == bits[1] + 2 * bits[2] + 4 * bits[4] + 8 * bits[8]
                  + 16 * bits[16] + 32 * bits[32] + 64 * bits[64] + 128 * bits[128]
BitAnd(x, y) == FromBits([w \in Weights |-> Bit(x, w) * Bit(y, w)])
BitOr(x, y)  == FromBits([w \in Weights |-> Bit(x, w) + Bit(y, w) - Bit(x, w) * Bit(y, w)])
BitXor(x, y) == FromBits([w \in Weights |-> (Bit(x, w) + Bit(y, w)) % 2])

-----------------------------------------------------------------------------
(* The rows of constructCpuGlobals: handler, theNumBytes, theAddrMode,      *)
(* theDelayCycles.  theStatusFlags and the extra-delay column are not read. *)
LowerOpCodes == <<
  <<"BRK", 1, "IMP", 0>>, <<"ORA", 2, "INX", 6>>, <<"KIL", 1, "IMP", 1>>, <<"SLO", 2, "INX", 8>>,
  <<"NOP", 2, "ZPG", 3>>, <<"ORA", 2, "ZPG", 3>>, <<"ASL", 2, "ZPG", 5>>, <<"SLO", 2, "ZPG", 5>>,
  <<"PHP", 1, "IMP", 3>>, <<"ORA", 2, "IMM", 2>>, <<"ASL", 1, "IMP", 2>>, <<"ANC", 2, "IMM", 2>>,
  <<"NOP", 3, "ABS", 4>>, <<"ORA", 3, "ABS", 4>>, <<"ASL", 3, "ABS", 6>>, <<"SLO", 3, "ABS", 6>>,
  <<"BPL", 2, "REL", 3>>, <<"ORA", 2, "INY", 5>>, <<"KIL", 1, "IMP", 1>>, <<"SLO", 2, "INY", 8>>,
  <<"NOP", 2, "ZPX", 4>>, <<"ORA", 2, "ZPX", 4>>, <<"ASL", 2, "ZPX", 6>>, <<"SLO", 2, "ZPX", 6>>,
  <<"CLC", 1, "IMP", 2>>, <<"ORA", 3, "ABY", 4>>, <<"NOP", 1, "IMP", 2>>, <<"SLO", 3, "ABY", 7>>,
  <<"NOP", 3, "ABX", 4>>, <<"ORA", 3, "ABX", 4>>, <<"ASL", 3, "ABX", 7>>, <<"SLO", 3, "ABX", 7>>,
  <<"JSR", 3, "ABS", 6>>, <<"AND", 2, "INX", 6>>, <<"KIL", 1, "IMP", 1>>, <<"RLA", 2, "INX", 8>>,
  <<"BIT", 2, "ZPG", 3>>, <<"AND", 2, "ZPG", 3>>, <<"ROL", 2, "ZPG", 5>>, <<"RLA", 2, "ZPG", 5>>,
  <<"PLP", 1, "IMP", 4>>, <<"AND", 2, "IMM", 2>>, <<"ROL", 1, "IMP", 2>>, <<"ANC", 2, "IMM", 2>>,
  <<"BIT", 3, "ABS", 4>>, <<"AND", 3, "ABS", 4>>, <<"ROL", 3, "ABS", 6>>, <<"RLA", 3, "ABS", 6>>,
  <<"BMI", 2, "REL", 2>>, <<"AND", 2, "INY", 5>>, <<"KIL", 1, "IMP", 1>>, <<"RLA", 2, "INY", 8>>,
  <<"NOP", 2, "ZPX", 4>>, <<"AND", 2, "ZPX", 4>>, <<"ROL", 2, "ZPX", 6>>, <<"RLA", 2, "ZPX", 6>>,
  <<"SEC", 1, "IMP", 2>>, <<"AND", 3, "ABY", 4>>, <<"NOP", 1, "IMP", 2>>, <<"RLA", 3, "ABY", 7>>,
  <<"NOP", 3, "ABX", 4>>, <<"AND", 3, "ABX", 4>>, <<"ROL", 3, "ABX", 7>>, <<"RLA", 3, "ABX", 7>>,
  <<"RTI", 1, "IMP", 6>>, <<"EOR", 2, "INX", 6>>, <<"KIL", 1, "IMP", 1>>, <<"SRE", 2, "INX", 8>>,
  <<"NOP", 2, "ZPG", 3>>, <<"EOR", 2, "ZPG", 3>>, <<"LSR", 2, "ZPG", 5>>, <<"SRE", 2, "ZPG", 5>>,
  <<"PHA", 1, "IMP", 3>>, <<"EOR", 2, "IMM", 2>>, <<"LSR", 1, "IMP", 2>>, <<"ALR", 2, "IMM", 2>>,
  <<"JMP", 3, "ABS", 3>>, <<"EOR", 3, "ABS", 4>>, <<"LSR", 3, "ABS", 6>>, <<"SRE", 3, "ABS", 6>>,
  <<"BVC", 2, "REL", 3>>, <<"EOR", 2, "INY", 5>>, <<"KIL", 1, "IMP", 1>>, <<"SRE", 2, "INY", 8>>,
  <<"NOP", 2, "ZPX", 4>>, <<"EOR", 2, "ZPX", 4>>, <<"LSR", 2, "ZPX", 6>>, <<"SRE", 2, "ZPX", 6>>,
  <<"CLI", 1, "IMP", 2>>, <<"EOR", 3, "ABY", 4>>, <<"NOP", 1, "IMP", 2>>, <<"SRE", 3, "ABY", 7>>,
  <<"NOP", 3, "ABX", 4>>, <<"EOR", 3, "ABX", 4>>, <<"LSR", 3, "ABX", 7>>, <<"SRE", 3, "ABX", 7>>,
  <<"RTS", 1, "IMP", 6>>, <<"ADC", 2, "INX", 6>>, <<"KIL", 1, "IMP", 1>>, <<"RRA", 2, "INX", 8>>,
  <<"NOP", 2, "ZPG", 3>>, <<"ADC", 2, "ZPG", 3>>, <<"ROR", 2, "ZPG", 5>>, <<"RRA", 2, "ZPG", 5>>,
  <<"PLA", 1, "IMP", 4>>, <<"ADC", 2, "IMM", 2>>, <<"ROR", 1, "IMP", 2>>, <<"ARR", 2, "IMM", 2>>,
  <<"JMP", 3, "IND", 5>>, <<"ADC", 3, "ABS", 4>>, <<"ROR", 3, "ABS", 6>>, <<"RRA", 3, "ABS", 6>>,
  <<"BVS", 2, "REL", 2>>, <<"ADC", 2, "INY", 5>>, <<"KIL", 1, "IMP", 1>>, <<"RRA", 2, "INY", 8>>,
  <<"NOP", 2, "ZPX", 4>>, <<"ADC", 2, "ZPX", 4>>, <<"ROR", 2, "ZPX", 6>>, <<"RRA", 2, "ZPX", 6>>,
  <<"SEI", 1, "IMP", 2>>, <<"ADC", 3, "ABY", 4>>, <<"NOP", 1, "IMP", 2>>, <<"RRA", 3, "ABY", 7>>,
  <<"NOP", 3, "ABX", 4>>, <<"ADC", 3, "ABX", 4>>, <<"ROR", 3, "ABX", 7>>, <<"RRA", 3, "ABX", 7>> >>

UpperOpCodes == <<
  <<"NOP", 2, "IMM", 2>>, <<"STA", 2, "INX", 6>>, <<"NOP", 2, "IMM", 2>>, <<"SAX", 2, "INX", 6>>,
  <<"STY", 2, "ZPG", 3>>, <<"STA", 2, "ZPG", 3>>, <<"STX", 2, "ZPG", 3>>, <<"SAX", 2, "ZPG", 3>>,
  <<"DEY", 1, "IMP", 2>>, <<"NOP", 2, "IMM", 2>>, <<"TXA", 1, "IMP", 2>>, <<"XAA", 2, "IMM", 2>>,
  <<"STY", 3, "ABS", 4>>, <<"STA", 3, "ABS", 4>>, <<"STX", 3, "ABS", 4>>, <<"SAX", 3, "ABS", 4>>,
  <<"BCC", 2, "REL", 3>>, <<"STA", 2, "INY", 6>>, <<"KIL", 1, "IMP", 1>>, <<"AHX", 2, "INY", 6>>,
  <<"STY", 2, "ZPX", 4>>, <<"STA", 2, "ZPX", 4>>, <<"STX", 2, "ZPY", 4>>, <<"SAX", 2, "ZPY", 4>>,
  <<"TYA", 1, "IMP", 2>>, <<"STA", 3, "ABY", 5>>, <<"TXS", 1, "IMP", 2>>, <<"TAS", 3, "ABY", 5>>,
  <<"SHY", 3, "ABX", 5>>, <<"STA", 3, "ABX", 5>>, <<"SHX", 3, "ABY", 5>>, <<"AHX", 3, "ABY", 5>>,
  <<"LDY", 2, "IMM", 2>>, <<"LDA", 2, "INX", 6>>, <<"LDX", 2, "IMM", 2>>, <<"LAX", 2, "INX", 6>>,
  <<"LDY", 2, "ZPG", 3>>, <<"LDA", 2, "ZPG", 3>>, <<"LDX", 2, "ZPG", 3>>, <<"LAX", 2, "ZPG", 3>>,
  <<"TAY", 1, "IMP", 2>>, <<"LDA", 2, "IMM", 2>>, <<"TAX", 1, "IMP", 2>>, <<"LAX", 2, "IMM", 2>>,
  <<"LDY", 3, "ABS", 4>>, <<"LDA", 3, "ABS", 4>>, <<"LDX", 3, "ABS", 4>>, <<"LAX", 3, "ABS", 4>>,
  <<"BCS", 2, "REL", 2>>, <<"LDA", 2, "INY", 5>>, <<"KIL", 1, "IMP", 1>>, <<"LAX", 2, "INY", 5>>,
  <<"LDY", 2, "ZPX", 4>>, <<"LDA", 2, "ZPX", 4>>, <<"LDX", 2, "ZPY", 4>>, <<"LAX", 2, "ZPY", 4>>,
  <<"CLV", 1, "IMP", 2>>, <<"LDA", 3, "ABY", 4>>, <<"TSX", 1, "IMP", 2>>, <<"LAS", 3, "ABY", 4>>,
  <<"LDY", 3, "ABX", 4>>, <<"LDA", 3, "ABX", 4>>, <<"LDX", 3, "ABY", 4>>, <<"LAX", 3, "ABY", 4>>,
  <<"CPY", 2, "IMM", 2>>, <<"CMP", 2, "INX", 6>>, <<"NOP", 2, "IMM", 2>>, <<"DCP", 2, "INX", 8>>,
  <<"CPY", 2, "ZPG", 3>>, <<"CMP", 2, "ZPG", 3>>, <<"DEC", 2, "ZPG", 5>>, <<"DCP", 2, "ZPG", 5>>,
  <<"INY", 1, "IMP", 2>>, <<"CMP", 2, "IMM", 2>>, <<"DEX", 1, "IMP", 2>>, <<"AXS", 2, "IMM", 2>>,
  <<"CPY", 3, "ABS", 4>>, <<"CMP", 3, "ABS", 4>>, <<"DEC", 3, "ABS", 6>>, <<"DCP", 3, "ABS", 6>>,
  <<"BNE", 2, "REL", 3>>, <<"CMP", 2, "INY", 5>>, <<"KIL", 1, "IMP", 1>>, <<"DCP", 2, "INY", 8>>,
  <<"NOP", 2, "ZPX", 4>>, <<"CMP", 2, "ZPX", 4>>, <<"DEC", 2, "ZPX", 6>>, <<"DCP", 2, "ZPX", 6>>,
  <<"CLD", 1, "IMP", 2>>, <<"CMP", 3, "ABY", 4>>, <<"NOP", 1, "IMP", 2>>, <<"DCP", 3, "ABY", 7>>,
  <<"NOP", 3, "ABX", 4>>, <<"CMP", 3, "ABX", 4>>, <<"DEC", 3, "ABX", 7>>, <<"DCP", 3, "ABX", 7>>,
  <<"CPX", 2, "IMM", 2>>, <<"SBC", 2, "INX", 6>>, <<"NOP", 2, "IMM", 2>>, <<"ISC", 2, "INX", 8>>,
  <<"CPX", 2, "ZPG", 3>>, <<"SBC", 2, "ZPG", 3>>, <<"INC", 2, "ZPG", 5>>, <<"ISC", 2, "ZPG", 5>>,
  <<"INX", 1, "IMP", 2>>, <<"SBC", 2, "IMM", 2>>, <<"NOP", 1, "IMP", 2>>, <<"SBC", 2, "IMM", 2>>,
  <<"CPX", 3, "ABS", 4>>, <<"SBC", 3, "ABS", 4>>, <<"INC", 3, "ABS", 6>>, <<"ISC", 3, "ABS", 6>>,
  <<"BEQ", 2, "REL", 2>>, <<"SBC", 2, "INY", 5>>, <<"KIL", 1, "IMP", 1>>, <<"ISC", 2, "INY", 8>>,
  <<"NOP", 2, "ZPX", 4>>, <<"SBC", 2, "ZPX", 4>>, <<"INC", 2, "ZPX", 6>>, <<"ISC", 2, "ZPX", 6>>,
  <<"SED", 1, "IMP", 2>>, <<"SBC", 3, "ABY", 4>>, <<"NOP", 1, "IMP", 2>>, <<"ISC", 3, "ABY", 7>>,
  <<"NOP", 3, "ABX", 4>>, <<"SBC", 3, "ABX", 4>>, <<"INC", 3, "ABX", 7>>, <<"ISC", 3, "ABX", 7>> >>

OpCodeInfo(row) == [theHandler |-> row[1], theNumBytes |-> row[2],
                    theAddrMode |-> row[3], theDelayCycles |-> row[4]]

gOpCodes == [opCode \in Byte |-> OpCodeInfo(IF opCode < 128 THEN LowerOpCodes[opCode + 1]
                                                            ELSE UpperOpCodes[opCode - 127])]

Handlers == {"ADC", "AHX", "ALR", "ANC", "AND", "ARR", "ASL", "AXS", "BCC", "BCS", "BEQ", "BIT",
             "BMI", "BNE", "BPL", "BRK", "BVC", "BVS", "CLC", "CLD", "CLI", "CLV", "CMP", "CPX",
             "CPY", "DCP", "DEC", "DEX", "DEY", "EOR", "INC", "INX", "INY", "ISC", "JMP", "JSR",
             "KIL", "LAS", "LAX", "LDA", "LDX", "LDY", "LSR", "NOP", "ORA", "PHA", "PHP", "PLA",
             "PLP", "RLA", "ROL", "ROR", "RRA", "RTI", "RTS", "SAX", "SBC", "SEC", "SED", "SEI",
             "SHX", "SHY", "SLO", "SRE", "STA", "STX", "STY", "TAS", "TAX", "TAY", "TSX", "TXA",
             "TXS", "TYA", "XAA"}
AddressMode6502 == {"IMP", "IMM", "REL", "IND", "INX", "INY", "ABS", "ZPG", "ABX", "ABY", "ZPX", "ZPY"}

\* Every op-code has a handler of Decoder6502, and as many bytes as its mode has operands;
\* the jumps and branches have the modes their handlers expect.
OperandBytes(mode) == IF mode = "IMP" THEN 0
                      ELSE IF mode \in {"ABS", "ABX", "ABY", "IND"} THEN 2 ELSE 1
ASSUME OpCodeTableAssumption ==
  \A opCode \in Byte :
    LET info == gOpCodes[opCode] IN
    /\ info.theHandler \in Handlers
    /\ info.theAddrMode \in AddressMode6502
    /\ info.theDelayCycles \in 0 .. 8
    /\ info.theNumBytes = 1 + OperandBytes(info.theAddrMode)
    /\ info.theHandler \in {"BRK", "RTS"} => info.theAddrMode = "IMP"
    /\ info.theHandler = "JSR" => info.theAddrMode = "ABS"
    /\ info.theHandler = "JMP" => info.theAddrMode \in {"ABS", "IND"}
    /\ info.theHandler \in {"BEQ", "BNE", "BMI", "BPL", "BVS", "BVC", "BCS", "BCC"}
         <=> info.theAddrMode = "REL"
=============================================================================
