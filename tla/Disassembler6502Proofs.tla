----------------------- MODULE Disassembler6502Proofs -----------------------
(***************************************************************************)
(* Proofs about Disassembler6502, for every ROM, every list of entry       *)
(* points and every length of a listing: the types, that the analysis      *)
(* leaves out no instruction that the listed ones lead to, that the lines  *)
(* of a disassembly follow each other, and that no run goes on for ever.   *)
(***************************************************************************)
EXTENDS Disassembler6502, SequenceTheorems, FiniteSetTheorems, TLAPS

\* The ROM never changes, and is one of those the program may be given.
RomInv == theRom \in Roms

-----------------------------------------------------------------------------
(* Addresses, the ROM and the op-codes.                                    *)

\* The last address is named so that no prover has to look at the numbers up to it.
LEMMA AddressNumbers ==
  /\ \A n \in Int : n \in CpuAddress <=> 0 <= n /\ n <= 65535
  /\ \A n \in CpuAddress : n \in Int /\ 0 <= n /\ n <= 65535
  /\ \A n \in Byte : n \in Int /\ 0 <= n /\ n <= 255
<1> DEFINE last == 65535
<1>1. last \in Int /\ CpuAddress = 0 .. last
  BY DEF CpuAddress
<1>2. last = 65535
  OBVIOUS
<1> HIDE DEF last
<1>3. /\ \A n \in Int : n \in CpuAddress <=> 0 <= n /\ n <= last
      /\ \A n \in CpuAddress : n \in Int /\ 0 <= n /\ n <= last
  BY <1>1
<1>4. \A n \in Byte : n \in Int /\ 0 <= n /\ n <= 255
  BY DEF Byte
<1>5. QED
  BY <1>2, <1>3, <1>4

LEMMA Words ==
  ASSUME NEW n \in Int
  PROVE  /\ Word(n) \in CpuAddress
         /\ 0 <= n /\ n <= 65535 => Word(n) = n
         /\ 65536 <= n /\ n < 131072 => Word(n) = n - 65536
         /\ n < 0 /\ n >= -65536 => Word(n) = n + 65536
<1>1. Word(n) \in CpuAddress
  <2>1. Word(n) \in Int /\ 0 <= Word(n) /\ Word(n) <= 65535
    BY DEF Word
  <2>2. QED
    BY <2>1, AddressNumbers
<1>2. 0 <= n /\ n <= 65535 => n % 65536 = n
  OBVIOUS
<1>3. 65536 <= n /\ n < 131072 => n % 65536 = n - 65536
  OBVIOUS
<1>4. n < 0 /\ n >= -65536 => n % 65536 = n + 65536
  OBVIOUS
<1>5. QED
  BY <1>1, <1>2, <1>3, <1>4 DEF Word

\* A ROM is a stretch of the address space and leaves out one of its ends.
LEMMA RomIsStretch ==
  ASSUME RomInv
  PROVE  /\ FirstOf(theRom) \in CpuAddress /\ LastOf(theRom) \in CpuAddress
         /\ FirstOf(theRom) <= LastOf(theRom)
         /\ Mapped = FirstOf(theRom) .. LastOf(theRom)
         /\ FirstOf(theRom) # 0 \/ LastOf(theRom) # 65535
         /\ theRom \in [Mapped -> Byte]
<1>1. /\ theRom \in [DOMAIN theRom -> Byte]
      /\ DOMAIN theRom \subseteq CpuAddress /\ DOMAIN theRom # CpuAddress
      /\ \E first, last \in DOMAIN theRom : DOMAIN theRom = first .. last
  BY RomsAssumption DEF RomInv
<1>2. PICK first \in DOMAIN theRom, last \in DOMAIN theRom : DOMAIN theRom = first .. last
  BY <1>1
<1>3. first \in Int /\ last \in Int /\ 0 <= first /\ last <= 65535
  BY <1>1, AddressNumbers
<1>4. FirstOf(theRom) = first
  <2>1. first \in DOMAIN theRom /\ \A b \in DOMAIN theRom : first <= b
    BY <1>2, <1>3
  <2>2. \A a \in DOMAIN theRom : (\A b \in DOMAIN theRom : a <= b) => a = first
    BY <1>2, <1>3
  <2>3. QED
    BY <2>1, <2>2 DEF FirstOf
<1>5. LastOf(theRom) = last
  <2>1. last \in DOMAIN theRom /\ \A b \in DOMAIN theRom : b <= last
    BY <1>2, <1>3
  <2>2. \A a \in DOMAIN theRom : (\A b \in DOMAIN theRom : b <= a) => a = last
    BY <1>2, <1>3
  <2>3. QED
    BY <2>1, <2>2 DEF LastOf
<1>6. first <= last
  BY <1>2, <1>3
<1>7. first # 0 \/ last # 65535
  <2>1. PICK a \in CpuAddress : a \notin DOMAIN theRom
    BY <1>1
  <2>2. a \notin first .. last
    BY <1>2, <2>1
  <2>3. QED
    BY <1>3, <2>1, <2>2, AddressNumbers
<1>8. first \in CpuAddress /\ last \in CpuAddress /\ Mapped = first .. last
  BY <1>1, <1>2 DEF Mapped
<1>9. theRom \in [Mapped -> Byte]
  BY <1>1 DEF Mapped
<1>10. QED
  BY <1>4, <1>5, <1>6, <1>7, <1>8, <1>9

LEMMA MappedAddresses ==
  ASSUME RomInv
  PROVE  /\ Mapped \subseteq CpuAddress
         /\ \A a \in Mapped : theRom[a] \in Byte
BY RomIsStretch, AddressNumbers

\* What the op-code table says of a mapped byte.
LEMMA InfoFacts ==
  ASSUME RomInv, NEW a \in Mapped
  PROVE  /\ InfoAt(a).theNumBytes \in 1 .. 3
         /\ InfoAt(a).theHandler \in Handlers
         /\ InfoAt(a).theHandler \in BranchHandlers => InfoAt(a).theNumBytes = 2
         /\ InfoAt(a).theHandler = "JSR" => InfoAt(a).theNumBytes = 3
<1>1. theRom[a] \in Byte
  BY MappedAddresses
<1>2. /\ InfoAt(a).theHandler \in Handlers
      /\ InfoAt(a).theAddrMode \in AddressMode6502
      /\ InfoAt(a).theNumBytes = 1 + OperandBytes(InfoAt(a).theAddrMode)
      /\ InfoAt(a).theHandler = "JSR" => InfoAt(a).theAddrMode = "ABS"
      /\ InfoAt(a).theHandler \in BranchHandlers => InfoAt(a).theAddrMode = "REL"
  BY <1>1, OpCodeTableAssumption DEF InfoAt, BranchHandlers
<1>3. QED
  BY <1>2 DEF OperandBytes, AddressMode6502

\* An instruction whose operands are mapped ends inside the ROM: a ROM that reaches the end
\* of the address space does not begin again at 0.
LEMMA InstructionInside ==
  ASSUME RomInv, thePc \in Mapped, OperandsMapped
  PROVE  /\ thePc + Info.theNumBytes - 1 \in Mapped
         /\ \A i \in 0 .. Info.theNumBytes - 1 : thePc + i \in Mapped /\ Word(thePc + i) = thePc + i
<1> DEFINE n == Info.theNumBytes
           first == FirstOf(theRom)
           last == LastOf(theRom)
<1>1. n \in 1 .. 3 /\ thePc \in Int /\ first \in Int /\ last \in Int
      /\ 0 <= first /\ first <= thePc /\ thePc <= last /\ last <= 65535 /\ (first # 0 \/ last # 65535)
      /\ \A a : a \in Mapped <=> a \in Int /\ first <= a /\ a <= last
  <2>1. n \in 1 .. 3
    BY InfoFacts DEF Info
  <2>2. QED
    BY <2>1, RomIsStretch, AddressNumbers
<1>2. n > 1 => Word(thePc + 1) \in Mapped
  BY <1>1 DEF OperandsMapped
<1>3. n > 2 => Word(thePc + 2) \in Mapped
  BY <1>1 DEF OperandsMapped
<1> HIDE DEF n, first, last
<1>4. n > 1 => thePc + 1 <= last
  <2> SUFFICES ASSUME n > 1, thePc = last PROVE FALSE
    BY <1>1
  <2>1. Word(thePc + 1) = IF last = 65535 THEN 0 ELSE last + 1
    BY <1>1, Words
  <2>2. QED
    BY <1>1, <1>2, <2>1
<1>5. n > 2 => thePc + 2 <= last
  <2> SUFFICES ASSUME n > 2, thePc + 1 = last PROVE FALSE
    BY <1>1, <1>4
  <2>1. Word(thePc + 2) = IF last = 65535 THEN 0 ELSE last + 1
    BY <1>1, Words
  <2>2. QED
    BY <1>1, <1>3, <2>1
<1>6. thePc + n - 1 <= last
  BY <1>1, <1>4, <1>5
<1>7. ASSUME NEW i \in 0 .. n - 1
      PROVE  thePc + i \in Mapped /\ Word(thePc + i) = thePc + i
  <2>1. thePc + i \in Int /\ first <= thePc + i /\ thePc + i <= last
    BY <1>1, <1>6
  <2>2. QED
    BY <1>1, <2>1, Words
<1>8. QED
  BY <1>1, <1>6, <1>7 DEF n

-----------------------------------------------------------------------------
(* The operators on the listing, the labels and the work list.             *)

LEMMA SetProperties ==
  ASSUME NEW map, NEW address, NEW value
  PROVE  /\ DOMAIN Set(map, address, value) = DOMAIN map \union {address}
         /\ Set(map, address, value)[address] = value
         /\ \A a \in DOMAIN map : a # address => Set(map, address, value)[a] = map[a]
BY DEF Set

LEMMA SetKeepsType ==
  ASSUME NEW map, NEW address, NEW value, NEW S, value \in S, \A a \in DOMAIN map : map[a] \in S
  PROVE  /\ \A a \in DOMAIN Set(map, address, value) : Set(map, address, value)[a] \in S
         /\ Set(map, address, value) \in [DOMAIN Set(map, address, value) -> S]
BY DEF Set

\* The last of a sequence and the others.
LEMMA LastAndFront ==
  ASSUME NEW S, NEW s \in Seq(S), s # <<>>
  PROVE  /\ Last(s) \in S /\ Last(s) = s[Len(s)] /\ Len(s) \in DOMAIN s
         /\ Front(s) \in Seq(S) /\ Len(Front(s)) = Len(s) - 1
         /\ \A i \in DOMAIN s : i # Len(s) => i \in DOMAIN Front(s) /\ Front(s)[i] = s[i]
<1>1. Len(s) \in Nat /\ DOMAIN s = 1 .. Len(s) /\ Len(s) # 0
  BY EmptySeq, LenProperties
<1>2. /\ Front(s) \in Seq(S) /\ Len(Front(s)) = Len(s) - 1
      /\ \A i \in 1 .. Len(s) - 1 : Front(s)[i] = s[i]
  <2>1. \A i \in 1 .. Len(s) - 1 : s[i] \in S
    BY <1>1, ElementOfSeq
  <2>2. 1 \in 1 .. Len(s) + 1 /\ Len(s) - 1 \in 1 - 1 .. Len(s)
    BY <1>1
  <2>3. QED
    BY <1>1, <2>2, SubSeqProperties DEF Front
<1>3. DOMAIN Front(s) = 1 .. Len(s) - 1
  BY <1>2, LenProperties
<1>4. s[Len(s)] \in S
  BY <1>1, ElementOfSeq
<1>5. QED
  BY <1>1, <1>2, <1>3, <1>4 DEF Last

\* Where the handlers of branches and calls put their labels.
LEMMA TargetsAreAddresses ==
  ASSUME RomInv, thePc \in Mapped, OperandsMapped, Info.theNumBytes > 1
  PROVE  /\ BranchTarget \in CpuAddress
         /\ Info.theNumBytes > 2 => JsrTarget \in CpuAddress
<1>1. Info.theNumBytes \in 1 .. 3 /\ thePc \in Int
  BY InfoFacts, MappedAddresses, AddressNumbers DEF Info
<1>2. OpCode2 \in Byte
  BY <1>1, InstructionInside, MappedAddresses DEF OpCode2
<1>3. BranchTarget \in CpuAddress
  <2>1. OpCode2 + Info.theNumBytes \in Int
    BY <1>1, <1>2, AddressNumbers
  <2>2. Low(OpCode2 + Info.theNumBytes) \in Int
    BY <2>1 DEF Low
  <2>3. thePc + SignedByte(Low(OpCode2 + Info.theNumBytes)) \in Int
    BY <1>1, <2>2 DEF SignedByte
  <2>4. QED
    BY <2>3, Words DEF BranchTarget
<1>4. ASSUME Info.theNumBytes > 2
      PROVE  JsrTarget \in CpuAddress
  <2>1. OpCode3 \in Byte
    BY <1>1, <1>4, InstructionInside, MappedAddresses DEF OpCode3
  <2>2. OpCode2 + 256 * OpCode3 + Info.theNumBytes \in Int
    BY <1>1, <1>2, <2>1, AddressNumbers
  <2>3. QED
    BY <2>2, Words DEF JsrTarget
<1>5. QED
  BY <1>3, <1>4

\* The labels that comments name.
CommentLabels == [prefix : {"branch", "sub"}, address : CpuAddress]

\* One instruction is listed; a branch or a call adds a label and an entry point.
LEMMA ListInstructionAdds ==
  ASSUME RomInv, thePc \in Mapped, OperandsMapped, ListInstruction
  PROVE  \/ \E label \in CommentLabels :
              /\ theListing' = Set(theListing, thePc, label)
              /\ theLabels' = Set(theLabels, label.address, label.prefix)
              /\ theEntryPoints' = Append(theEntryPoints, label.address)
              /\ Info.theHandler \in BranchHandlers => label.address = BranchTarget
         \/ /\ theListing' = Set(theListing, thePc, NoComment)
            /\ UNCHANGED <<theLabels, theEntryPoints>>
            /\ Info.theHandler \notin BranchHandlers
<1>1. CASE Info.theHandler \in BranchHandlers /\ AddJumpLabelStatement(Label("branch", BranchTarget))
  <2>1. Info.theNumBytes = 2
    BY <1>1, InfoFacts DEF Info
  <2>2. BranchTarget \in CpuAddress
    BY <2>1, TargetsAreAddresses
  <2>3. Label("branch", BranchTarget) \in CommentLabels /\ Label("branch", BranchTarget).address = BranchTarget
    BY <2>2 DEF Label, CommentLabels
  <2>4. QED
    BY <1>1, <2>3 DEF AddJumpLabelStatement
<1>2. CASE Info.theHandler = "JSR" /\ AddJumpLabelStatement(Label("sub", JsrTarget))
  <2>1. Info.theNumBytes = 3
    BY <1>2, InfoFacts DEF Info
  <2>2. JsrTarget \in CpuAddress
    BY <2>1, TargetsAreAddresses
  <2>3. Label("sub", JsrTarget) \in CommentLabels
    BY <2>2 DEF Label, CommentLabels
  <2>4. Info.theHandler \notin BranchHandlers
    BY <1>2 DEF BranchHandlers
  <2>5. QED
    BY <1>2, <2>3, <2>4 DEF AddJumpLabelStatement
<1>3. CASE /\ Info.theHandler \in EmptyHandlers
           /\ theListing' = Set(theListing, thePc, NoComment)
           /\ UNCHANGED <<theLabels, theEntryPoints>>
  BY <1>3 DEF EmptyHandlers
<1>4. QED
  BY <1>1, <1>2, <1>3 DEF ListInstruction

-----------------------------------------------------------------------------
(* Types.                                                                  *)

LEMMA InitTypeOK == Init => TypeOK /\ RomInv
<1> SUFFICES ASSUME Init PROVE TypeOK /\ RomInv
  OBVIOUS
<1>1. RomInv
  BY DEF Init, RomInv
<1>2. FirstOf(theRom) \in CpuAddress /\ Mapped \subseteq CpuAddress /\ theRom \in [Mapped -> Byte]
  BY <1>1, RomIsStretch, MappedAddresses
<1>3. thePc \in CpuAddress
  BY <1>2 DEF Init, Mapped
<1>4. theEntryPoints \in Seq(CpuAddress)
  <2>1. CASE theEntryPoints = <<>>
    BY <2>1
  <2>2. CASE theEntryPoints # <<>>
    <3>1. PICK offsets \in EntryPoints :
            theEntryPoints = [i \in DOMAIN offsets |-> Word(FirstOf(theRom) + offsets[i])] \o <<thePc>>
      BY <2>2 DEF Init
    <3>2. offsets \in Seq(Nat)
      BY EntryPointsAssumption
    <3>3. \A i \in 1 .. Len(offsets) : Word(FirstOf(theRom) + offsets[i]) \in CpuAddress
      BY <1>2, <3>2, ElementOfSeq, AddressNumbers, Words
    <3>4. [i \in DOMAIN offsets |-> Word(FirstOf(theRom) + offsets[i])] \in Seq(CpuAddress)
      BY <3>2, <3>3, LenProperties, IsASeq
    <3>5. <<thePc>> \in Seq(CpuAddress)
      BY <1>3
    <3>6. QED
      BY <3>1, <3>4, <3>5, ConcatProperties
  <2>3. QED
    BY <2>1, <2>2
<1>5. DOMAIN theListing = {} /\ DOMAIN theLabels = {} /\ theLabels \in [DOMAIN theLabels -> {"branch", "sub", "entry"}]
  BY DEF Init, Nowhere
<1>6. numInstructions \in Nat
  <2>1. numInstructions = 0 \/ numInstructions \in ListingLengths
    BY Zenon DEF Init
  <2>2. QED
    <3>1. CASE numInstructions = 0
      BY <3>1
    <3>2. CASE numInstructions \in ListingLengths
      BY <3>2, ListingLengthsAssumption
    <3>3. QED
      BY <2>1, <3>1, <3>2, Zenon
<1>7. printed = <<>> /\ curDisAddr \in CpuAddress /\ theDeadEndFlag \in BOOLEAN
  BY <1>2, Zenon DEF Init
<1>8. phase \in {"analyse", "path", "print", "listing", "done", "crashed"}
  BY Zenon DEF Init
<1>9. QED
  BY <1>1, <1>2, <1>3, <1>4, <1>5, <1>6, <1>7, <1>8 DEF TypeOK

\* A decoded instruction, or the end of the memory.
LEMMA DecodeKeepsTypes ==
  ASSUME TypeOK, RomInv, NEW listingAtTheEnd, DecodeInstruction(listingAtTheEnd),
         DOMAIN listingAtTheEnd \subseteq CpuAddress,
         \A a \in DOMAIN listingAtTheEnd : listingAtTheEnd[a] \in CommentLabels \union {NoComment}
  PROVE  /\ thePc' \in CpuAddress
         /\ theEntryPoints' \in Seq(CpuAddress)
         /\ DOMAIN theListing' \subseteq CpuAddress
         /\ \A a \in DOMAIN theListing' : theListing'[a] \in CommentLabels \union {NoComment}
         /\ theLabels' \in [DOMAIN theLabels' -> {"branch", "sub", "entry"}]
         /\ DOMAIN theLabels' \subseteq CpuAddress
         /\ theDeadEndFlag' \in BOOLEAN
<1>1. CASE /\ thePc \notin Mapped
           /\ theDeadEndFlag' = TRUE
           /\ theListing' = listingAtTheEnd
           /\ UNCHANGED <<thePc, theEntryPoints, theLabels>>
  BY <1>1 DEF TypeOK
<1>2. CASE /\ thePc \in Mapped /\ OperandsMapped
           /\ ListInstruction
           /\ thePc' = Word(thePc + Info.theNumBytes)
           /\ theDeadEndFlag' = theDeadEndFlag
  <2>0. DOMAIN theListing \subseteq CpuAddress /\ DOMAIN theLabels \subseteq CpuAddress
    BY Zenon DEF TypeOK
  <2>1. thePc' \in CpuAddress /\ thePc \in CpuAddress
    <3>1. thePc \in CpuAddress /\ Info.theNumBytes \in 1 .. 3
      BY <1>2, MappedAddresses, InfoFacts DEF Info
    <3>2. thePc + Info.theNumBytes \in Int
      BY <3>1, AddressNumbers
    <3>3. QED
      BY <1>2, <3>1, <3>2, Words
  <2>2. \A a \in DOMAIN theListing : theListing[a] \in CommentLabels \union {NoComment}
    BY DEF TypeOK, CommentLabels
  <2>3. theDeadEndFlag' \in BOOLEAN
    BY <1>2 DEF TypeOK
  <2>4. ASSUME NEW label \in CommentLabels,
               theListing' = Set(theListing, thePc, label),
               theLabels' = Set(theLabels, label.address, label.prefix),
               theEntryPoints' = Append(theEntryPoints, label.address)
        PROVE  /\ theEntryPoints' \in Seq(CpuAddress)
               /\ DOMAIN theListing' \subseteq CpuAddress
               /\ \A a \in DOMAIN theListing' : theListing'[a] \in CommentLabels \union {NoComment}
               /\ theLabels' \in [DOMAIN theLabels' -> {"branch", "sub", "entry"}]
               /\ DOMAIN theLabels' \subseteq CpuAddress
    <3>1. label.address \in CpuAddress /\ label.prefix \in {"branch", "sub", "entry"}
      BY DEF CommentLabels
    <3>2. theEntryPoints' \in Seq(CpuAddress)
      BY <2>4, <3>1, AppendProperties DEF TypeOK
    <3>3. \A a \in DOMAIN theListing' : theListing'[a] \in CommentLabels \union {NoComment}
      BY <2>2, <2>4, SetKeepsType
    <3>4. DOMAIN theListing' \subseteq CpuAddress /\ DOMAIN theLabels' \subseteq CpuAddress
      <4>1. DOMAIN theListing' = DOMAIN theListing \union {thePc}
        BY <2>4, SetProperties
      <4>2. DOMAIN theLabels' = DOMAIN theLabels \union {label.address}
        <5>1. PICK address, prefix : address = label.address /\ prefix = label.prefix
          OBVIOUS
        <5>2. theLabels' = Set(theLabels, address, prefix)
          BY <2>4, <5>1
        <5>3. QED
          BY <5>1, <5>2, SetProperties
      <4>3. QED
        BY <2>0, <2>1, <3>1, <4>1, <4>2
    <3>5. \A a \in DOMAIN theLabels : theLabels[a] \in {"branch", "sub", "entry"}
      BY DEF TypeOK
    <3>6. theLabels' \in [DOMAIN theLabels' -> {"branch", "sub", "entry"}]
      BY <2>4, <3>1, <3>5, SetKeepsType
    <3>7. QED
      BY <3>2, <3>3, <3>4, <3>6
  <2>5. ASSUME theListing' = Set(theListing, thePc, NoComment),
               UNCHANGED <<theLabels, theEntryPoints>>
        PROVE  /\ theEntryPoints' \in Seq(CpuAddress)
               /\ DOMAIN theListing' \subseteq CpuAddress
               /\ \A a \in DOMAIN theListing' : theListing'[a] \in CommentLabels \union {NoComment}
               /\ theLabels' \in [DOMAIN theLabels' -> {"branch", "sub", "entry"}]
               /\ DOMAIN theLabels' \subseteq CpuAddress
    <3>1. \A a \in DOMAIN theListing' : theListing'[a] \in CommentLabels \union {NoComment}
      BY <2>2, <2>5, SetKeepsType
    <3>2. DOMAIN theListing' \subseteq CpuAddress
      <4>1. DOMAIN theListing' = DOMAIN theListing \union {thePc}
        BY <2>5, SetProperties
      <4>2. QED
        BY <2>0, <2>1, <4>1
    <3>3. QED
      BY <2>5, <3>1, <3>2 DEF TypeOK
  <2>6. \/ \E label \in CommentLabels :
             /\ theListing' = Set(theListing, thePc, label)
             /\ theLabels' = Set(theLabels, label.address, label.prefix)
             /\ theEntryPoints' = Append(theEntryPoints, label.address)
        \/ /\ theListing' = Set(theListing, thePc, NoComment)
           /\ UNCHANGED <<theLabels, theEntryPoints>>
    BY <1>2, ListInstructionAdds
  <2>7. QED
    BY <2>1, <2>3, <2>4, <2>5, <2>6
<1>3. QED
  BY <1>1, <1>2, Zenon DEF DecodeInstruction

\* While the ROM is analysed, what is listed lies in it.
LEMMA FollowPathListsMapped ==
  ASSUME TypeOK, RomInv, FollowPath
  PROVE  DOMAIN theListing \subseteq Mapped /\ DOMAIN theListing' \subseteq Mapped
<1>1. DOMAIN theListing \subseteq Mapped
  <2>1. phase = "path"
    BY Zenon DEF FollowPath
  <2>2. QED
    BY <2>1 DEF TypeOK
<1>2. CASE theListing' = theListing
  BY <1>1, <1>2
<1>3. CASE thePc \in Mapped /\ OperandsMapped /\ ListInstruction
  <2>1. PICK label : theListing' = Set(theListing, thePc, label)
    BY <1>3, ListInstructionAdds
  <2>2. DOMAIN theListing' = DOMAIN theListing \union {thePc}
    BY <2>1, SetProperties
  <2>3. QED
    BY <1>1, <1>3, <2>2
<1>4. QED
  BY <1>2, <1>3, Zenon DEF FollowPath, DecodeInstruction

LEMMA NextKeepsTypes ==
  ASSUME TypeOK, RomInv, [Next]_vars
  PROVE  TypeOK' /\ RomInv'
<1>0. theRom' = theRom /\ Mapped' = Mapped
  BY DEF Next, PopEntryPoint, FollowPath, StartReturns, PrintLine, PrintCrashes, PrintReturns,
         DebugListing, ListingReturns, Crash, vars, Mapped
<1>1. RomInv'
  BY <1>0 DEF RomInv
<1>2. CASE PopEntryPoint
  <2>1. theEntryPoints \in Seq(CpuAddress) /\ theEntryPoints # <<>>
    BY <1>2 DEF PopEntryPoint, TypeOK
  <2>2. Last(theEntryPoints) \in CpuAddress /\ Front(theEntryPoints) \in Seq(CpuAddress)
    BY <2>1, LastAndFront
  <2>3. /\ theLabels' \in [DOMAIN theLabels' -> {"branch", "sub", "entry"}]
        /\ DOMAIN theLabels' \subseteq CpuAddress
    <3>1. \A a \in DOMAIN theLabels : theLabels[a] \in {"branch", "sub", "entry"}
      BY DEF TypeOK
    <3>2. theLabels' = theLabels \/ theLabels' = Set(theLabels, Last(theEntryPoints), "entry")
      BY <1>2 DEF PopEntryPoint
    <3>3. CASE theLabels' = Set(theLabels, Last(theEntryPoints), "entry")
      <4>1. DOMAIN theLabels' = DOMAIN theLabels \union {Last(theEntryPoints)}
        BY <3>3, SetProperties
      <4>2. DOMAIN theLabels \subseteq CpuAddress
        BY Zenon DEF TypeOK
      <4>3. theLabels' \in [DOMAIN theLabels' -> {"branch", "sub", "entry"}]
        BY <3>1, <3>3, SetKeepsType
      <4>4. QED
        BY <2>2, <4>1, <4>2, <4>3
    <3>4. QED
      BY <3>2, <3>3 DEF TypeOK
  <2>4. QED
    BY <1>0, <1>1, <1>2, <2>2, <2>3 DEF PopEntryPoint, TypeOK
<1>3. CASE FollowPath
  <2>1. DecodeInstruction(theListing)
    BY <1>3 DEF FollowPath
  <2>2. /\ DOMAIN theListing \subseteq CpuAddress
        /\ \A a \in DOMAIN theListing : theListing[a] \in CommentLabels \union {NoComment}
    BY DEF TypeOK, CommentLabels
  <2>3. /\ thePc' \in CpuAddress /\ theEntryPoints' \in Seq(CpuAddress)
        /\ DOMAIN theListing' \subseteq CpuAddress
        /\ \A a \in DOMAIN theListing' : theListing'[a] \in CommentLabels \union {NoComment}
        /\ theLabels' \in [DOMAIN theLabels' -> {"branch", "sub", "entry"}]
        /\ DOMAIN theLabels' \subseteq CpuAddress
        /\ theDeadEndFlag' \in BOOLEAN
    BY <2>1, <2>2, DecodeKeepsTypes
  <2>4. DOMAIN theListing' \subseteq Mapped
    BY <1>3, FollowPathListsMapped
  <2>5. phase' \in {"analyse", "path"} /\ UNCHANGED <<theRom, numInstructions, curDisAddr, printed>>
    BY <1>3 DEF FollowPath
  <2>6. QED
    BY <1>0, <1>1, <2>3, <2>4, <2>5 DEF TypeOK, CommentLabels
<1>4. CASE PrintLine
  <2>1. curDisAddr \in CpuAddress /\ LineLength(curDisAddr) \in Int
    BY <1>4, InfoFacts DEF PrintLine, LineLength, TypeOK
  <2>2. curDisAddr + LineLength(curDisAddr) \in Int
    BY <2>1, AddressNumbers
  <2>3. curDisAddr' \in CpuAddress
    BY <1>4, <2>2, Words DEF PrintLine
  <2>4. printed' \in Seq(CpuAddress)
    BY <1>4, <2>1, AppendProperties DEF PrintLine, TypeOK
  <2>5. QED
    BY <1>0, <1>1, <1>4, <2>3, <2>4 DEF PrintLine, TypeOK
<1>5. CASE DebugListing
  <2>1. DecodeInstruction(Set(theListing, thePc, NoComment)) /\ thePc \in CpuAddress
    BY <1>5 DEF DebugListing, TypeOK
  <2>2. PICK listing : listing = Set(theListing, thePc, NoComment)
    OBVIOUS
  <2>3. /\ DOMAIN listing \subseteq CpuAddress
        /\ \A a \in DOMAIN listing : listing[a] \in CommentLabels \union {NoComment}
    <3>1. \A a \in DOMAIN theListing : theListing[a] \in CommentLabels \union {NoComment}
      BY DEF TypeOK, CommentLabels
    <3>2. QED
      <4>1. DOMAIN listing = DOMAIN theListing \union {thePc}
        BY <2>2, SetProperties
      <4>2. DOMAIN theListing \subseteq CpuAddress
        BY Zenon DEF TypeOK
      <4>3. \A a \in DOMAIN listing : listing[a] \in CommentLabels \union {NoComment}
        BY <2>2, <3>1, SetKeepsType
      <4>4. QED
        BY <2>1, <4>1, <4>2, <4>3
  <2>4. /\ thePc' \in CpuAddress /\ theEntryPoints' \in Seq(CpuAddress)
        /\ DOMAIN theListing' \subseteq CpuAddress
        /\ \A a \in DOMAIN theListing' : theListing'[a] \in CommentLabels \union {NoComment}
        /\ theLabels' \in [DOMAIN theLabels' -> {"branch", "sub", "entry"}]
        /\ DOMAIN theLabels' \subseteq CpuAddress
        /\ theDeadEndFlag' \in BOOLEAN
    <3>1. DecodeInstruction(listing)
      BY <2>1, <2>2
    <3>2. QED
      BY <2>3, <3>1, DecodeKeepsTypes
  <2>5. numInstructions' \in Nat /\ phase' = "listing" /\ UNCHANGED <<theRom, curDisAddr>>
    BY <1>5 DEF DebugListing, TypeOK
  <2>6. printed' \in Seq(CpuAddress)
    BY <1>5, <2>1, AppendProperties DEF DebugListing, TypeOK
  <2>7. QED
    BY <1>0, <1>1, <2>4, <2>5, <2>6 DEF TypeOK, CommentLabels
<1>6. CASE StartReturns \/ PrintCrashes \/ PrintReturns \/ ListingReturns \/ Crash \/ UNCHANGED vars
  BY <1>0, <1>1, <1>6 DEF StartReturns, PrintCrashes, PrintReturns, ListingReturns, Crash, vars, TypeOK
<1>7. QED
  BY <1>2, <1>3, <1>4, <1>5, <1>6 DEF Next

LEMMA TypeInvariance == Spec => [](TypeOK /\ RomInv)
<1>1. TypeOK /\ RomInv /\ [Next]_vars => (TypeOK /\ RomInv)'
  BY NextKeepsTypes
<1>2. QED
  BY <1>1, InitTypeOK, PTL DEF Spec

\* Every address the disassembler works with has 16 bits, it lists addresses of the ROM
\* only, and the label that a comment names is one of a branch or a call.
THEOREM TypeCorrect == Spec => []TypeOK
BY TypeInvariance, PTL

-----------------------------------------------------------------------------
(* The analysis leaves nothing out.                                        *)

Analysing == phase \in {"analyse", "path", "print"}
Behind(address) == address + InfoAt(address).theNumBytes

\* A listed instruction ends inside the ROM.
InsideInv == Analysing => \A a \in DOMAIN theListing : Behind(a) - 1 \in Mapped

\* The instruction behind a listed one is listed, or the path is about to decode it.
SuccessorInv ==
  Analysing => \A a \in DOMAIN theListing :
    Behind(a) \in Mapped => Behind(a) \in DOMAIN theListing \/ (phase = "path" /\ thePc = Behind(a))

\* The target of a listed branch has a label and is listed, or it waits: in the work list or
\* as the next instruction of the path.
Branches(address) == InfoAt(address).theHandler \in BranchHandlers /\ theRom[address + 1] \notin {126, 127}
Waits(address) == \/ \E i \in DOMAIN theEntryPoints : theEntryPoints[i] = address
                  \/ phase = "path" /\ thePc = address
TargetInv ==
  Analysing => \A a \in DOMAIN theListing : Branches(a) =>
    /\ BranchGoesTo(a) \in DOMAIN theLabels
    /\ BranchGoesTo(a) \in Mapped => BranchGoesTo(a) \in DOMAIN theListing \/ Waits(BranchGoesTo(a))

\* start returns when the work list is empty.
PrintInv == phase = "print" => theEntryPoints = <<>>

AnalysisInv == InsideInv /\ SuccessorInv /\ TargetInv /\ PrintInv

\* The lines printed so far follow each other, and the next one follows the last of them.
FollowOn ==
  \A i \in 1 .. Len(printed) - 1 : printed[i + 1] = Word(printed[i] + LineLength(printed[i]))
NextLine(address) == address = Word(printed[Len(printed)] + LineLength(printed[Len(printed)]))
LinesInv ==
  /\ FollowOn
  /\ phase \in {"analyse", "path"} => printed = <<>>
  /\ Analysing /\ printed = <<>> => curDisAddr = FirstOf(theRom)
  /\ phase = "print" /\ printed # <<>> =>
       /\ printed[1] = FirstOf(theRom)
       /\ NextLine(curDisAddr)
       /\ curDisAddr \in Mapped \union {Word(LastOf(theRom) + 1)}
  /\ phase = "listing" =>
       /\ \A i \in DOMAIN printed : printed[i] \in DOMAIN theListing
       /\ printed # <<>> /\ ~theDeadEndFlag => NextLine(thePc)

\* A path goes on behind its instruction, without a wrap as long as that is in the ROM.
LEMMA PathGoesOn ==
  ASSUME RomInv, thePc \in Mapped, OperandsMapped
  PROVE  /\ Behind(thePc) - 1 \in Mapped
         /\ Behind(thePc) \in Mapped => Word(thePc + Info.theNumBytes) = Behind(thePc)
<1>1. Behind(thePc) = thePc + Info.theNumBytes
  BY DEF Behind, Info
<1>2. thePc + Info.theNumBytes \in Mapped => Word(thePc + Info.theNumBytes) = thePc + Info.theNumBytes
  BY MappedAddresses, AddressNumbers, Words
<1>3. thePc + Info.theNumBytes - 1 \in Mapped
  BY InstructionInside
<1>4. Behind(thePc) - 1 \in Mapped
  <2>1. thePc \in Int /\ Info.theNumBytes \in Int
    BY MappedAddresses, AddressNumbers, InfoFacts DEF Info
  <2>2. QED
    BY <1>1, <1>3, <2>1
<1>5. Behind(thePc) \in Mapped => Word(thePc + Info.theNumBytes) = Behind(thePc)
  BY <1>1, <1>2
<1>6. QED
  BY <1>4, <1>5

\* But for the offsets 126 and 127, the label of a branch is where the CPU goes.
LEMMA BranchTargetIsReal ==
  ASSUME RomInv, thePc \in Mapped, OperandsMapped, Branches(thePc)
  PROVE  BranchTarget = BranchGoesTo(thePc)
<1> DEFINE x == theRom[thePc + 1]
<1>1. Info.theNumBytes = 2
  BY InfoFacts DEF Branches, Info
<1>2. Word(thePc + 1) = thePc + 1 /\ thePc + 1 \in Mapped /\ thePc \in Int
  BY <1>1, InstructionInside, MappedAddresses, AddressNumbers
<1>3. x \in Int /\ 0 <= x /\ x <= 255 /\ x # 126 /\ x # 127 /\ OpCode2 = x
  BY <1>2, MappedAddresses, AddressNumbers DEF Branches, OpCode2
<1> HIDE DEF x
<1>4. SignedByte(Low(x + 2)) = 2 + SignedByte(x)
  <2>1. CASE x < 126
    BY <1>3, <2>1 DEF SignedByte, Low
  <2>2. CASE 128 <= x /\ x <= 253
    BY <1>3, <2>2 DEF SignedByte, Low
  <2>3. CASE x = 254 \/ x = 255
    BY <1>3, <2>3 DEF SignedByte, Low
  <2>4. QED
    BY <1>3, <2>1, <2>2, <2>3
<1>5. SignedByte(x) \in Int
  BY <1>3 DEF SignedByte
<1>6. thePc + (2 + SignedByte(x)) = thePc + 2 + SignedByte(x)
  BY <1>2, <1>5
<1>7. QED
  BY <1>1, <1>3, <1>4, <1>6 DEF BranchTarget, BranchGoesTo, x

\* What the properties say of an address of the ROM does not change.
LEMMA RomStays ==
  ASSUME [Next]_vars
  PROVE  /\ theRom' = theRom /\ Mapped' = Mapped
         /\ \A a : InfoAt(a)' = InfoAt(a) /\ Behind(a)' = Behind(a)
         /\ \A a : Branches(a)' = Branches(a) /\ BranchGoesTo(a)' = BranchGoesTo(a)
<1>1. theRom' = theRom
  BY DEF Next, PopEntryPoint, FollowPath, StartReturns, PrintLine, PrintCrashes, PrintReturns,
         DebugListing, ListingReturns, Crash, vars
<1>2. QED
  BY <1>1 DEF Mapped, InfoAt, Behind, Branches, BranchGoesTo

LEMMA InitAnalysisInv == Init => AnalysisInv
BY DEF Init, AnalysisInv, InsideInv, SuccessorInv, TargetInv, PrintInv, Nowhere

LEMMA PopEntryPointKeepsAnalysis ==
  ASSUME TypeOK, RomInv, AnalysisInv, PopEntryPoint
  PROVE  AnalysisInv'
<1>0. [Next]_vars
  BY DEF Next
<1>1. /\ theEntryPoints \in Seq(CpuAddress) /\ theEntryPoints # <<>>
      /\ phase = "analyse" /\ theListing' = theListing
      /\ theEntryPoints' = Front(theEntryPoints)
  BY DEF PopEntryPoint, TypeOK
<1>2. PICK next : next = Last(theEntryPoints)
  OBVIOUS
<1>3. /\ next \in DOMAIN theListing \/ (phase' = "path" /\ thePc' = next)
      /\ theLabels' = theLabels \/ theLabels' = Set(theLabels, next, "entry")
      /\ phase' \in {"analyse", "path"}
  BY <1>2 DEF PopEntryPoint
<1>4. DOMAIN theLabels \subseteq DOMAIN theLabels'
  <2>1. CASE theLabels' = Set(theLabels, next, "entry")
    <3>1. DOMAIN theLabels' = DOMAIN theLabels \union {next}
      BY <2>1, SetProperties
    <3>2. QED
      BY <3>1
  <2>2. QED
    BY <1>3, <2>1
<1>5. InsideInv' /\ SuccessorInv' /\ PrintInv'
  BY <1>0, <1>1, <1>3, RomStays DEF AnalysisInv, InsideInv, SuccessorInv, PrintInv, Analysing
<1>6. \A a : Waits(a) => Waits(a)' \/ a \in DOMAIN theListing
  <2> SUFFICES ASSUME NEW a, Waits(a) PROVE Waits(a)' \/ a \in DOMAIN theListing
    OBVIOUS
  <2>1. PICK i \in DOMAIN theEntryPoints : theEntryPoints[i] = a
    BY <1>1 DEF Waits
  <2>2. CASE i = Len(theEntryPoints)
    <3>1. a = next
      BY <1>1, <1>2, <2>1, <2>2, LastAndFront
    <3>2. QED
      BY <1>3, <3>1 DEF Waits
  <2>3. CASE i # Len(theEntryPoints)
    <3>1. i \in DOMAIN theEntryPoints' /\ theEntryPoints'[i] = a
      BY <1>1, <2>1, <2>3, LastAndFront
    <3>2. QED
      BY <3>1 DEF Waits
  <2>4. QED
    BY <2>2, <2>3
<1>7. TargetInv'
  <2> SUFFICES ASSUME NEW a \in DOMAIN theListing, Branches(a), NEW target, target = BranchGoesTo(a)
               PROVE  /\ target \in DOMAIN theLabels'
                      /\ target \in Mapped => target \in DOMAIN theListing \/ Waits(target)'
    BY <1>0, <1>1, RomStays DEF TargetInv
  <2>1. /\ target \in DOMAIN theLabels
        /\ target \in Mapped => target \in DOMAIN theListing \/ Waits(target)
    BY <1>1 DEF AnalysisInv, TargetInv, Analysing
  <2>2. QED
    BY <1>4, <1>6, <2>1
<1>8. QED
  BY <1>5, <1>7 DEF AnalysisInv

\* What one instruction adds to the listing, the labels and the work list.
LEMMA ListInstructionGrows ==
  ASSUME TypeOK, RomInv, thePc \in Mapped, OperandsMapped, ListInstruction
  PROVE  /\ DOMAIN theListing' = DOMAIN theListing \union {thePc}
         /\ DOMAIN theLabels \subseteq DOMAIN theLabels'
         /\ \A i \in DOMAIN theEntryPoints : i \in DOMAIN theEntryPoints' /\ theEntryPoints'[i] = theEntryPoints[i]
         /\ Branches(thePc) => /\ BranchGoesTo(thePc) \in DOMAIN theLabels'
                               /\ \E i \in DOMAIN theEntryPoints' : theEntryPoints'[i] = BranchGoesTo(thePc)
<1>0. theEntryPoints \in Seq(CpuAddress) /\ DOMAIN theEntryPoints = 1 .. Len(theEntryPoints)
      /\ Len(theEntryPoints) \in Nat
  <2>1. theEntryPoints \in Seq(CpuAddress)
    BY Zenon DEF TypeOK
  <2>2. QED
    BY <2>1, LenProperties
<1>1. ASSUME NEW label \in CommentLabels,
             theListing' = Set(theListing, thePc, label),
             theLabels' = Set(theLabels, label.address, label.prefix),
             theEntryPoints' = Append(theEntryPoints, label.address),
             Info.theHandler \in BranchHandlers => label.address = BranchTarget
      PROVE  /\ DOMAIN theListing' = DOMAIN theListing \union {thePc}
             /\ DOMAIN theLabels' = DOMAIN theLabels \union {label.address}
             /\ \A i \in DOMAIN theEntryPoints :
                  i \in DOMAIN theEntryPoints' /\ theEntryPoints'[i] = theEntryPoints[i]
             /\ \E i \in DOMAIN theEntryPoints' : theEntryPoints'[i] = label.address
             /\ Branches(thePc) => label.address = BranchGoesTo(thePc)
  <2>1. label.address \in CpuAddress
    BY DEF CommentLabels
  <2>2. /\ Len(theEntryPoints') = Len(theEntryPoints) + 1
        /\ \A i \in 1 .. Len(theEntryPoints) : theEntryPoints'[i] = theEntryPoints[i]
        /\ theEntryPoints'[Len(theEntryPoints) + 1] = label.address
        /\ theEntryPoints' \in Seq(CpuAddress)
    BY <1>0, <1>1, <2>1, AppendProperties
  <2>3. DOMAIN theEntryPoints' = 1 .. Len(theEntryPoints) + 1
    BY <2>2, LenProperties
  <2>4. Len(theEntryPoints) + 1 \in 1 .. Len(theEntryPoints) + 1
    BY <1>0
  <2>5. Branches(thePc) => label.address = BranchGoesTo(thePc)
    BY <1>1, BranchTargetIsReal DEF Branches, Info
  <2>6. DOMAIN theListing' = DOMAIN theListing \union {thePc}
    BY <1>1, SetProperties
  <2>7. DOMAIN theLabels' = DOMAIN theLabels \union {label.address}
    <3>1. PICK address, prefix : address = label.address /\ prefix = label.prefix
      OBVIOUS
    <3>2. theLabels' = Set(theLabels, address, prefix)
      BY <1>1, <3>1
    <3>3. QED
      BY <3>1, <3>2, SetProperties
  <2>8. QED
    BY <1>0, <2>2, <2>3, <2>4, <2>5, <2>6, <2>7
<1>2. ASSUME theListing' = Set(theListing, thePc, NoComment),
             UNCHANGED <<theLabels, theEntryPoints>>,
             Info.theHandler \notin BranchHandlers
      PROVE  /\ DOMAIN theListing' = DOMAIN theListing \union {thePc}
             /\ DOMAIN theLabels \subseteq DOMAIN theLabels'
             /\ \A i \in DOMAIN theEntryPoints :
                  i \in DOMAIN theEntryPoints' /\ theEntryPoints'[i] = theEntryPoints[i]
             /\ ~Branches(thePc)
  <2>1. DOMAIN theListing' = DOMAIN theListing \union {thePc}
    BY <1>2, SetProperties
  <2>2. QED
    BY <1>2, <2>1 DEF Branches, Info
<1>3. QED
  BY <1>1, <1>2, ListInstructionAdds

LEMMA FollowPathKeepsAnalysis ==
  ASSUME TypeOK, RomInv, AnalysisInv, FollowPath
  PROVE  AnalysisInv'
<1>0. [Next]_vars
  BY DEF Next
<1>1. phase = "path" /\ ~theDeadEndFlag
  BY Zenon DEF FollowPath
<1>2. CASE thePc \notin Mapped /\ theDeadEndFlag' /\ UNCHANGED <<theListing, thePc, theEntryPoints, theLabels>>
  <2>1. phase' = "analyse"
    BY <1>2 DEF FollowPath
  <2>2. InsideInv' /\ SuccessorInv' /\ PrintInv'
    BY <1>0, <1>1, <1>2, <2>1, RomStays DEF AnalysisInv, InsideInv, SuccessorInv, PrintInv, Analysing
  <2>3. \A a \in Mapped : Waits(a) => Waits(a)'
    BY <1>2 DEF Waits
  <2>4. TargetInv'
    BY <1>0, <1>1, <1>2, <2>3, RomStays DEF AnalysisInv, TargetInv, Analysing
  <2>5. QED
    BY <2>2, <2>4 DEF AnalysisInv
<1>3. CASE /\ thePc \in Mapped /\ OperandsMapped
           /\ ListInstruction
           /\ thePc' = Word(thePc + Info.theNumBytes)
           /\ theDeadEndFlag' = theDeadEndFlag
  <2>1. phase' = "path"
    BY <1>1, <1>3 DEF FollowPath
  <2>2. /\ DOMAIN theListing' = DOMAIN theListing \union {thePc}
        /\ DOMAIN theLabels \subseteq DOMAIN theLabels'
        /\ \A i \in DOMAIN theEntryPoints : i \in DOMAIN theEntryPoints' /\ theEntryPoints'[i] = theEntryPoints[i]
        /\ Branches(thePc) => /\ BranchGoesTo(thePc) \in DOMAIN theLabels'
                              /\ \E i \in DOMAIN theEntryPoints' : theEntryPoints'[i] = BranchGoesTo(thePc)
    BY <1>3, ListInstructionGrows
  <2>3. /\ Behind(thePc) - 1 \in Mapped
        /\ Behind(thePc) \in Mapped => thePc' = Behind(thePc)
    BY <1>3, PathGoesOn
  <2>4. InsideInv' /\ SuccessorInv' /\ PrintInv'
    <3>1. InsideInv'
      BY <1>0, <1>1, <2>2, <2>3, RomStays DEF AnalysisInv, InsideInv, Analysing
    <3>2. SuccessorInv'
      BY <1>0, <1>1, <2>1, <2>2, <2>3, RomStays DEF AnalysisInv, SuccessorInv, Analysing
    <3>3. QED
      BY <2>1, <3>1, <3>2 DEF PrintInv
  <2>5. \A a : Waits(a) => Waits(a)' \/ a \in DOMAIN theListing'
    BY <2>2 DEF Waits
  <2>6. TargetInv'
    <3> SUFFICES ASSUME NEW a \in DOMAIN theListing', Branches(a), NEW target, target = BranchGoesTo(a)
                 PROVE  /\ target \in DOMAIN theLabels'
                        /\ target \in Mapped => target \in DOMAIN theListing' \/ Waits(target)'
      BY <1>0, RomStays DEF TargetInv
    <3>1. CASE a = thePc
      BY <2>2, <3>1 DEF Waits
    <3>2. CASE a \in DOMAIN theListing
      <4>1. /\ target \in DOMAIN theLabels
            /\ target \in Mapped => target \in DOMAIN theListing \/ Waits(target)
        BY <1>1, <3>2 DEF AnalysisInv, TargetInv, Analysing
      <4>2. QED
        BY <2>2, <2>5, <4>1
    <3>3. QED
      BY <2>2, <3>1, <3>2
  <2>7. QED
    BY <2>4, <2>6 DEF AnalysisInv
<1>4. QED
  BY <1>2, <1>3, Zenon DEF FollowPath, DecodeInstruction

LEMMA NextKeepsAnalysis ==
  ASSUME TypeOK, RomInv, AnalysisInv, [Next]_vars
  PROVE  AnalysisInv'
<1>1. CASE StartReturns
  <2>1. phase = "analyse" /\ phase' = "print" /\ theEntryPoints = <<>>
        /\ UNCHANGED <<theListing, theLabels, theEntryPoints>>
    BY <1>1 DEF StartReturns
  <2>2. \A a : Waits(a) => Waits(a)'
    BY <2>1 DEF Waits
  <2>3. InsideInv' /\ SuccessorInv' /\ PrintInv'
    BY <2>1, RomStays DEF AnalysisInv, InsideInv, SuccessorInv, PrintInv, Analysing
  <2>4. TargetInv'
    BY <2>1, <2>2, RomStays DEF AnalysisInv, TargetInv, Analysing
  <2>5. QED
    BY <2>3, <2>4 DEF AnalysisInv
<1>2. CASE PrintLine \/ UNCHANGED vars
  <2>1. /\ UNCHANGED <<theListing, theLabels, theEntryPoints, thePc, phase>>
    BY <1>2 DEF PrintLine, vars
  <2>2. \A a : Waits(a)' = Waits(a)
    BY <2>1 DEF Waits
  <2>3. InsideInv' /\ SuccessorInv' /\ PrintInv'
    BY <2>1, RomStays DEF AnalysisInv, InsideInv, SuccessorInv, PrintInv, Analysing
  <2>4. TargetInv'
    BY <2>1, <2>2, RomStays DEF AnalysisInv, TargetInv, Analysing
  <2>5. QED
    BY <2>3, <2>4 DEF AnalysisInv
<1>3. CASE PrintCrashes \/ PrintReturns \/ DebugListing \/ ListingReturns \/ Crash
  <2>1. phase' \in {"listing", "done", "crashed"}
    BY <1>3 DEF PrintCrashes, PrintReturns, DebugListing, ListingReturns, Crash
  <2>2. QED
    BY <2>1 DEF AnalysisInv, InsideInv, SuccessorInv, TargetInv, PrintInv, Analysing
<1>4. QED
  BY <1>1, <1>2, <1>3, PopEntryPointKeepsAnalysis, FollowPathKeepsAnalysis DEF Next

\* When the disassembly is printed, no code that listed code runs or branches into is left
\* out, in whatever order the entry points were found and paths met.
THEOREM ReachableIsListedCorrect == Spec => []ReachableIsListed
<1>1. TypeOK /\ RomInv /\ AnalysisInv /\ [Next]_vars => AnalysisInv'
  BY NextKeepsAnalysis
<1>2. AnalysisInv => ReachableIsListed
  <2> SUFFICES ASSUME AnalysisInv, phase = "print", NEW a \in DOMAIN theListing
               PROVE  /\ Behind(a) \in Mapped => Behind(a) \in DOMAIN theListing
                      /\ Branches(a) =>
                           /\ BranchGoesTo(a) \in DOMAIN theLabels
                           /\ BranchGoesTo(a) \in Mapped => BranchGoesTo(a) \in DOMAIN theListing
    BY DEF ReachableIsListed, Behind, Branches
  <2>1. \A b : ~Waits(b)
    BY DEF AnalysisInv, PrintInv, Waits
  <2>2. QED
    BY <2>1 DEF AnalysisInv, SuccessorInv, TargetInv, Analysing
<1>3. QED
  BY <1>1, <1>2, InitAnalysisInv, TypeInvariance, PTL DEF Spec

-----------------------------------------------------------------------------
(* The lines of a disassembly follow each other.                           *)

LEMMA InitLinesInv == Init => LinesInv
BY DEF Init, LinesInv, FollowOn, Analysing

\* Behind a line comes the next address of the ROM, or the one behind its last.
LEMMA LineEndsInRom ==
  ASSUME RomInv, InsideInv, phase = "print", curDisAddr \in Mapped
  PROVE  Word(curDisAddr + LineLength(curDisAddr)) \in Mapped \union {Word(LastOf(theRom) + 1)}
<1> DEFINE first == FirstOf(theRom)
           last == LastOf(theRom)
           end == curDisAddr + LineLength(curDisAddr)
<1>1. first \in Int /\ last \in Int /\ 0 <= first /\ last <= 65535
  BY RomIsStretch, AddressNumbers
<1>2. Mapped = first .. last
  BY RomIsStretch
<1>3. curDisAddr \in Int /\ first <= curDisAddr /\ LineLength(curDisAddr) \in 1 .. 3
  BY <1>1, <1>2, InfoFacts DEF LineLength
<1>4. end - 1 \in Mapped
  <2>1. CASE curDisAddr \in DOMAIN theListing
    <3>1. Behind(curDisAddr) - 1 \in Mapped
      BY <2>1 DEF InsideInv, Analysing
    <3>2. Behind(curDisAddr) = end
      BY <2>1 DEF Behind, LineLength
    <3>3. QED
      BY <3>1, <3>2, Zenon
  <2>2. CASE curDisAddr \notin DOMAIN theListing
    <3>1. LineLength(curDisAddr) = 1
      BY <2>2 DEF LineLength
    <3>2. QED
      BY <1>3, <3>1
  <2>3. QED
    BY <2>1, <2>2
<1>5. end \in Int /\ first <= end /\ end - 1 <= last
  BY <1>1, <1>2, <1>3, <1>4
<1> HIDE DEF first, last, end
<1>6. CASE end <= last
  <2>1. end \in Mapped /\ 0 <= end /\ end <= 65535
    BY <1>1, <1>2, <1>5, <1>6
  <2>2. Word(end) = end
    BY <1>5, <2>1, Words
  <2>3. QED
    BY <2>1, <2>2 DEF end
<1>7. CASE end = last + 1
  BY <1>7 DEF end, last
<1>8. QED
  BY <1>1, <1>5, <1>6, <1>7

\* One more line.
LEMMA AppendFollowsOn ==
  ASSUME NEW S, NEW lines \in Seq(S), NEW line \in S
  PROVE  /\ Append(lines, line) # <<>>
         /\ Len(Append(lines, line)) = Len(lines) + 1
         /\ Append(lines, line)[Len(lines) + 1] = line
         /\ \A i \in 1 .. Len(lines) : Append(lines, line)[i] = lines[i]
         /\ DOMAIN Append(lines, line) = 1 .. Len(lines) + 1
         /\ lines # <<>> => Len(lines) >= 1
         /\ Len(lines) \in Nat
         /\ lines = <<>> => Len(lines) = 0
<1>1. Len(lines) \in Nat /\ (lines # <<>> => Len(lines) # 0) /\ (lines = <<>> => Len(lines) = 0)
  BY LenProperties, EmptySeq
<1>2. /\ Append(lines, line) \in Seq(S) /\ Len(Append(lines, line)) = Len(lines) + 1
      /\ Append(lines, line)[Len(lines) + 1] = line
      /\ \A i \in 1 .. Len(lines) : Append(lines, line)[i] = lines[i]
  BY AppendProperties
<1>3. DOMAIN Append(lines, line) = 1 .. Len(lines) + 1
  BY <1>2, LenProperties
<1>4. Append(lines, line) # <<>>
  BY <1>1, <1>2
<1>5. QED
  BY <1>1, <1>2, <1>3, <1>4

LEMMA PrintLineKeepsLines ==
  ASSUME TypeOK, RomInv, InsideInv, LinesInv, PrintLine
  PROVE  LinesInv'
<1> DEFINE n == Len(printed)
<1>0. [Next]_vars
  BY DEF Next
<1>1. /\ phase = "print" /\ phase' = "print" /\ curDisAddr \in Mapped
      /\ printed' = Append(printed, curDisAddr)
      /\ curDisAddr' = Word(curDisAddr + LineLength(curDisAddr))
      /\ theListing' = theListing /\ theRom' = theRom
  BY DEF PrintLine
<1>2. printed \in Seq(CpuAddress) /\ curDisAddr \in CpuAddress
  BY Zenon DEF TypeOK
<1>3. \A a : LineLength(a)' = LineLength(a)
  BY <1>0, <1>1, RomStays DEF LineLength
<1>4. /\ printed' # <<>> /\ Len(printed') = n + 1 /\ n \in Nat
      /\ printed'[n + 1] = curDisAddr /\ \A i \in 1 .. n : printed'[i] = printed[i]
      /\ printed # <<>> => n >= 1
      /\ printed = <<>> => n = 0
  BY <1>1, <1>2, AppendFollowsOn
<1>5. FollowOn'
  <2> SUFFICES ASSUME NEW i \in 1 .. n
               PROVE  printed'[i + 1] = Word(printed'[i] + LineLength(printed'[i]))
    BY <1>3, <1>4 DEF FollowOn
  <2>1. CASE i = n
    <3>1. curDisAddr = Word(printed[n] + LineLength(printed[n]))
      BY <1>1, <1>4, <2>1 DEF LinesInv, NextLine
    <3>2. QED
      BY <1>4, <2>1, <3>1
  <2>2. CASE i # n
    <3>1. i \in 1 .. n - 1 /\ i + 1 \in 1 .. n
      BY <1>4, <2>2
    <3>2. printed[i + 1] = Word(printed[i] + LineLength(printed[i]))
      BY <3>1 DEF LinesInv, FollowOn
    <3>3. QED
      BY <1>4, <3>1, <3>2
  <2>3. QED
    BY <2>1, <2>2
<1>6. printed'[1] = FirstOf(theRom)
  BY <1>1, <1>4 DEF LinesInv, Analysing
<1>7. NextLine(curDisAddr)'
  BY <1>1, <1>3, <1>4 DEF NextLine
<1>8. curDisAddr' \in Mapped \union {Word(LastOf(theRom) + 1)}
  BY <1>1, LineEndsInRom
<1>9. Mapped' = Mapped /\ FirstOf(theRom)' = FirstOf(theRom) /\ LastOf(theRom)' = LastOf(theRom)
  BY <1>1 DEF Mapped, FirstOf, LastOf
<1>10. QED
  BY <1>1, <1>4, <1>5, <1>6, <1>7, <1>8, <1>9 DEF LinesInv, Analysing

LEMMA DebugListingKeepsLines ==
  ASSUME TypeOK, RomInv, LinesInv, DebugListing
  PROVE  LinesInv'
<1> DEFINE n == Len(printed)
<1>0. [Next]_vars
  BY DEF Next
<1>1. /\ phase = "listing" /\ phase' = "listing" /\ ~theDeadEndFlag
      /\ DecodeInstruction(Set(theListing, thePc, NoComment))
      /\ printed' = Append(printed, thePc)
  BY DEF DebugListing
<1>2. printed \in Seq(CpuAddress) /\ thePc \in CpuAddress
  BY Zenon DEF TypeOK
<1>3. /\ DOMAIN theListing' = DOMAIN theListing \union {thePc}
      /\ theDeadEndFlag' \/ thePc' = Word(thePc + Info.theNumBytes)
  <2>1. CASE /\ thePc \notin Mapped
             /\ theDeadEndFlag' = TRUE
             /\ theListing' = Set(theListing, thePc, NoComment)
    BY <2>1, SetProperties
  <2>2. CASE /\ thePc \in Mapped /\ OperandsMapped
             /\ ListInstruction
             /\ thePc' = Word(thePc + Info.theNumBytes)
    BY <2>2, ListInstructionGrows
  <2>3. QED
    BY <1>1, <2>1, <2>2, Zenon DEF DecodeInstruction
<1>4. \A a \in DOMAIN theListing \union {thePc} :
        a \in DOMAIN theListing' /\ LineLength(a)' = InfoAt(a).theNumBytes
  BY <1>0, <1>3, RomStays DEF LineLength
<1>5. \A a \in DOMAIN theListing : LineLength(a) = InfoAt(a).theNumBytes
  BY DEF LineLength
<1>6. /\ printed' # <<>> /\ Len(printed') = n + 1 /\ n \in Nat /\ DOMAIN printed' = 1 .. n + 1
      /\ printed'[n + 1] = thePc /\ \A i \in 1 .. n : printed'[i] = printed[i]
      /\ printed # <<>> => n >= 1
      /\ printed = <<>> => n = 0
  BY <1>1, <1>2, AppendFollowsOn
<1>7. \A i \in 1 .. n : printed[i] \in DOMAIN theListing
  BY <1>1, <1>2, LenProperties DEF LinesInv
<1>8. FollowOn'
  <2> SUFFICES ASSUME NEW i \in 1 .. n
               PROVE  printed'[i + 1] = Word(printed'[i] + InfoAt(printed'[i]).theNumBytes)
    BY <1>4, <1>6, <1>7 DEF FollowOn
  <2>1. CASE i = n
    <3>1. thePc = Word(printed[n] + LineLength(printed[n]))
      BY <1>1, <1>6, <2>1 DEF LinesInv, NextLine
    <3>2. QED
      BY <1>5, <1>6, <1>7, <2>1, <3>1
  <2>2. CASE i # n
    <3>1. i \in 1 .. n - 1 /\ i + 1 \in 1 .. n
      BY <1>6, <2>2
    <3>2. printed[i + 1] = Word(printed[i] + LineLength(printed[i]))
      BY <3>1 DEF LinesInv, FollowOn
    <3>3. QED
      BY <1>5, <1>6, <1>7, <3>1, <3>2
  <2>3. QED
    BY <2>1, <2>2
<1>9. \A i \in DOMAIN printed' : printed'[i] \in DOMAIN theListing'
  BY <1>4, <1>6, <1>7
<1>10. ~theDeadEndFlag' => NextLine(thePc)'
  <2>1. PICK line : line = thePc
    OBVIOUS
  <2>2. LineLength(line)' = Info.theNumBytes
    BY <1>4, <2>1 DEF Info
  <2>3. printed'[Len(printed')] = line
    BY <1>6, <2>1
  <2>4. QED
    BY <1>3, <2>1, <2>2, <2>3 DEF NextLine
<1>11. QED
  BY <1>1, <1>8, <1>9, <1>10 DEF LinesInv, Analysing

LEMMA NextKeepsLines ==
  ASSUME TypeOK, RomInv, InsideInv, LinesInv, [Next]_vars
  PROVE  LinesInv'
<1>0. /\ theRom' = theRom /\ FirstOf(theRom)' = FirstOf(theRom) /\ LastOf(theRom)' = LastOf(theRom)
      /\ Mapped' = Mapped
  BY RomStays DEF FirstOf, LastOf
<1>1. CASE PopEntryPoint \/ FollowPath \/ StartReturns
  <2>1. /\ phase \in {"analyse", "path"}
        /\ phase' \in {"analyse", "path", "print"}
        /\ UNCHANGED <<printed, curDisAddr>>
    BY <1>1 DEF PopEntryPoint, FollowPath, StartReturns
  <2>2. printed = <<>> /\ curDisAddr = FirstOf(theRom)
    BY <2>1 DEF LinesInv, Analysing
  <2>3. QED
    BY <1>0, <2>1, <2>2 DEF LinesInv, FollowOn, Analysing
<1>2. CASE PrintCrashes \/ PrintReturns \/ ListingReturns \/ Crash
  <2>1. phase' \in {"done", "crashed"} /\ UNCHANGED <<printed, theListing>>
    BY <1>2 DEF PrintCrashes, PrintReturns, ListingReturns, Crash
  <2>2. \A a : LineLength(a)' = LineLength(a)
    BY <2>1, RomStays DEF LineLength
  <2>3. FollowOn'
    BY <2>1, <2>2 DEF FollowOn, LinesInv
  <2>4. QED
    BY <2>1, <2>3 DEF LinesInv, Analysing
<1>3. CASE UNCHANGED vars
  <2>1. UNCHANGED <<phase, thePc, printed, theListing, theDeadEndFlag, curDisAddr>>
    BY <1>3 DEF vars
  <2>2. \A a : LineLength(a)' = LineLength(a)
    BY <2>1, RomStays DEF LineLength
  <2>3. FollowOn' = FollowOn /\ NextLine(curDisAddr)' = NextLine(curDisAddr)
        /\ NextLine(thePc)' = NextLine(thePc)
    BY <2>1, <2>2 DEF FollowOn, NextLine
  <2>4. QED
    BY <1>0, <2>1, <2>3 DEF LinesInv, Analysing
<1>4. QED
  BY <1>1, <1>2, <1>3, PrintLineKeepsLines, DebugListingKeepsLines DEF Next

\* Each line of a disassembly, and of a listing of the debugger, begins where the one
\* before ends, and the disassembly goes from the first byte of the ROM to its last.
THEOREM LinesCoverRomCorrect == Spec => []LinesCoverRom
<1>1. TypeOK /\ RomInv /\ AnalysisInv /\ [Next]_vars => AnalysisInv'
  BY NextKeepsAnalysis
<1>2. TypeOK /\ RomInv /\ AnalysisInv /\ LinesInv /\ [Next]_vars => LinesInv'
  BY NextKeepsLines DEF AnalysisInv
<1>3. LinesInv => LinesCoverRom
  BY DEF LinesInv, LinesCoverRom, FollowOn, NextLine, Last, Analysing
<1>4. QED
  BY <1>1, <1>2, <1>3, InitAnalysisInv, InitLinesInv, TypeInvariance, PTL DEF Spec

-----------------------------------------------------------------------------
(* A run is finite.  Each step brings it closer to its end.                *)

\* The addresses of the ROM from this one on.
Ahead(address) == IF address \in Mapped THEN LastOf(theRom) + 1 - address ELSE 0

\* The addresses that start has not listed and that the path is not about to list.
Unlisted == Mapped \ (DOMAIN theListing \union (IF phase = "path" THEN {thePc} ELSE {}))

\* A bound on the steps that are left.  An unlisted address pays for the path that begins
\* at it, each of whose instructions can add an entry point, and an entry point for being
\* taken off the work list; what remains pays for the printing.
Pending == 65538 + 3 * 65536 * Cardinality(Unlisted) + 2 * Len(theEntryPoints)
StepsLeft ==
  CASE phase = "analyse" -> Pending
    [] phase = "path"    -> Pending + 3 * Ahead(thePc) + 1
    [] phase = "print"   -> 1 + Ahead(curDisAddr)
    [] phase = "listing" -> 1 + numInstructions
    [] OTHER             -> 0

\* A step uses up some of the steps that are left.
Progress == StepsLeft \in Nat /\ StepsLeft' \in Nat /\ StepsLeft' < StepsLeft

\* The address space has 65536 addresses.
LEMMA AheadBound ==
  ASSUME RomInv, NEW address
  PROVE  /\ Ahead(address) \in Nat /\ Ahead(address) <= 65536
         /\ address \in Mapped => Ahead(address) >= 1
<1> DEFINE first == FirstOf(theRom)
           last == LastOf(theRom)
<1>1. first \in Int /\ last \in Int /\ 0 <= first /\ last <= 65535 /\ Mapped = first .. last
  BY RomIsStretch, AddressNumbers
<1>2. Ahead(address) = IF address \in Mapped THEN last + 1 - address ELSE 0
  BY DEF Ahead
<1> HIDE DEF first, last
<1>3. QED
  BY <1>1, <1>2

\* Behind what ends at an address of the ROM there is less of it.
LEMMA AheadShrinks ==
  ASSUME RomInv, NEW from \in Mapped, NEW n \in 1 .. 3, from + n - 1 \in Mapped
  PROVE  Ahead(Word(from + n)) < Ahead(from)
<1> DEFINE first == FirstOf(theRom)
           last == LastOf(theRom)
           next == Word(from + n)
<1>1. /\ first \in Int /\ last \in Int /\ 0 <= first /\ last <= 65535 /\ Mapped = first .. last
      /\ first # 0 \/ last # 65535
  BY RomIsStretch, AddressNumbers
<1>2. \A a : Ahead(a) = IF a \in Mapped THEN last + 1 - a ELSE 0
  BY DEF Ahead
<1>3. from + n <= 65535 => next = from + n
  BY <1>1, Words
<1>4. from + n = 65536 => next = 0
  BY <1>1, Words
<1> SUFFICES Ahead(next) < Ahead(from)
  OBVIOUS
<1> HIDE DEF first, last, next
<1>5. /\ from \in Int /\ from >= first /\ from + n <= last + 1
      /\ n \in Int /\ n >= 1 /\ Ahead(from) = last + 1 - from
  BY <1>1, <1>2
<1>6. CASE from + n <= last
  <2>1. next = from + n
    BY <1>1, <1>3, <1>5, <1>6
  <2>2. next \in Mapped
    BY <1>1, <1>5, <1>6, <2>1
  <2>3. Ahead(next) = last + 1 - (from + n)
    BY <1>2, <2>1, <2>2
  <2>4. QED
    BY <1>1, <1>5, <2>3
<1>7. CASE from + n = last + 1
  <2>1. next \notin Mapped
    BY <1>1, <1>3, <1>4, <1>5, <1>7
  <2>2. Ahead(next) = 0
    BY <1>2, <2>1
  <2>3. QED
    BY <1>1, <1>5, <2>2
<1>8. from + n <= last \/ from + n = last + 1
  BY <1>1, <1>5
<1>9. QED
  BY <1>6, <1>7, <1>8

\* The fewer are unlisted the smaller is their number.
LEMMA UnlistedNumber ==
  ASSUME RomInv
  PROVE  /\ IsFiniteSet(Unlisted) /\ Cardinality(Unlisted) \in Nat
         /\ \A T \in SUBSET Unlisted :
              /\ Cardinality(T) \in Nat /\ Cardinality(T) <= Cardinality(Unlisted)
              /\ T # Unlisted => Cardinality(T) + 1 <= Cardinality(Unlisted)
<1>1. IsFiniteSet(Mapped)
  <2>1. Mapped = FirstOf(theRom) .. LastOf(theRom) /\ FirstOf(theRom) \in Int /\ LastOf(theRom) \in Int
    BY RomIsStretch, AddressNumbers
  <2>2. QED
    BY <2>1, FS_Interval
<1>2. IsFiniteSet(Unlisted)
  <2>1. Unlisted \subseteq Mapped
    BY DEF Unlisted
  <2>2. QED
    BY <1>1, <2>1, FS_Subset
<1>3. Cardinality(Unlisted) \in Nat
  BY <1>2, FS_CardinalityType
<1>4. ASSUME NEW T \in SUBSET Unlisted
      PROVE  /\ Cardinality(T) \in Nat /\ Cardinality(T) <= Cardinality(Unlisted)
             /\ T # Unlisted => Cardinality(T) + 1 <= Cardinality(Unlisted)
  <2>1. IsFiniteSet(T) /\ Cardinality(T) <= Cardinality(Unlisted)
        /\ (Cardinality(Unlisted) = Cardinality(T) => Unlisted = T)
    BY <1>2, FS_Subset
  <2>2. Cardinality(T) \in Nat
    BY <2>1, FS_CardinalityType
  <2>3. QED
    BY <1>3, <2>1, <2>2
<1>5. QED
  BY <1>2, <1>3, <1>4

\* What is listed stays listed.
LEMMA UnlistedShrinks ==
  ASSUME RomInv, RomInv', Unlisted' \subseteq Unlisted
  PROVE  /\ Cardinality(Unlisted) \in Nat /\ Cardinality(Unlisted') \in Nat
         /\ Cardinality(Unlisted') <= Cardinality(Unlisted)
         /\ Unlisted' # Unlisted => Cardinality(Unlisted') + 1 <= Cardinality(Unlisted)
BY UnlistedNumber

\* The arithmetic of the bound: a path that is paid for by an unlisted address, an
\* instruction that adds an entry point, and a step that takes one away.
LEMMA Budget ==
  ASSUME NEW u \in Nat, NEW v \in Nat, NEW l \in Nat, NEW m \in Nat, NEW a \in Nat, NEW b \in Nat
  PROVE  LET Bound(x, y) == 65538 + 3 * 65536 * x + 2 * y IN
         /\ Bound(u, l) \in Nat /\ Bound(u, l) >= 65538
         /\ v <= u /\ m < l => Bound(v, m) < Bound(u, l)
         /\ v <= u /\ m < l => Bound(v, m) + 3 * 0 + 1 < Bound(u, l)
         /\ v + 1 <= u /\ m < l /\ a <= 65536 => Bound(v, m) + 3 * a + 1 < Bound(u, l)
         /\ v <= u /\ m <= l + 1 /\ b < a => Bound(v, m) + 3 * b + 1 < Bound(u, l) + 3 * a + 1
         /\ Bound(u, l) + 3 * a + 1 \in Nat
         /\ Bound(u, l) < Bound(u, l) + 3 * a + 1
OBVIOUS

\* An entry point leaves the work list, and a path begins at an unlisted address.
LEMMA PopEntryPointProgress ==
  ASSUME TypeOK, RomInv, TypeOK', RomInv', PopEntryPoint
  PROVE  Progress
<1> DEFINE U == Cardinality(Unlisted)
           L == Len(theEntryPoints)
           next == Last(theEntryPoints)
<1>1. /\ phase = "analyse" /\ theEntryPoints # <<>>
      /\ theEntryPoints' = Front(theEntryPoints)
      /\ theListing' = theListing /\ Mapped' = Mapped /\ theRom' = theRom
      /\ \/ next \in DOMAIN theListing /\ phase' = "analyse"
         \/ next \notin DOMAIN theListing /\ phase' = "path" /\ thePc' = next
  BY DEF PopEntryPoint, Mapped
<1>2. theEntryPoints \in Seq(CpuAddress)
  BY Zenon DEF TypeOK
<1>3. L \in Nat /\ Len(theEntryPoints') = L - 1 /\ L - 1 \in Nat
  BY <1>1, <1>2, LastAndFront, LenProperties
<1>4. Unlisted' \subseteq Unlisted
  BY <1>1 DEF Unlisted
<1>5. /\ U \in Nat /\ Cardinality(Unlisted') \in Nat /\ Cardinality(Unlisted') <= U
      /\ Unlisted' # Unlisted => Cardinality(Unlisted') + 1 <= U
  BY <1>4, UnlistedShrinks
<1>6. StepsLeft = 65538 + 3 * 65536 * U + 2 * L
  BY <1>1 DEF StepsLeft, Pending
<1>7. CASE phase' = "analyse"
  <2>1. StepsLeft' = 65538 + 3 * 65536 * Cardinality(Unlisted') + 2 * (L - 1)
    BY <1>3, <1>7 DEF StepsLeft, Pending
  <2> HIDE DEF U, L
  <2>2. L - 1 < L
    BY <1>3
  <2>3. QED
    BY <1>3, <1>5, <1>6, <2>1, <2>2, Budget DEF Progress
<1>8. CASE phase' = "path" /\ thePc' = next /\ next \notin DOMAIN theListing
  <2>1. StepsLeft' = 65538 + 3 * 65536 * Cardinality(Unlisted') + 2 * (L - 1) + 3 * Ahead(thePc)' + 1
    BY <1>3, <1>8 DEF StepsLeft, Pending
  <2>2. Ahead(thePc)' = Ahead(thePc')
    BY <1>1 DEF Ahead
  <2>3. Ahead(thePc') \in Nat /\ Ahead(thePc') <= 65536
    BY AheadBound
  <2>4. next \notin Mapped => Ahead(thePc') = 0
    BY <1>8 DEF Ahead
  <2>5. next \in Mapped => Unlisted' # Unlisted
    BY <1>1, <1>8 DEF Unlisted
  <2> HIDE DEF U, L
  <2>6. L - 1 < L
    BY <1>3
  <2>7. CASE next \in Mapped
    <3>1. Cardinality(Unlisted') + 1 <= U
      BY <1>5, <2>5, <2>7
    <3>2. QED
      <4>1. StepsLeft \in Nat
        BY <1>3, <1>5, <1>6, Budget
      <4>2. StepsLeft' \in Nat
        BY <1>3, <1>5, <2>1, <2>2, <2>3, Budget
      <4>3. StepsLeft' < StepsLeft
        BY <1>3, <1>5, <1>6, <2>1, <2>2, <2>3, <2>6, <3>1, Budget
      <4>4. QED
        BY <4>1, <4>2, <4>3 DEF Progress
  <2>8. CASE next \notin Mapped
    <3>1. StepsLeft' = 65538 + 3 * 65536 * Cardinality(Unlisted') + 2 * (L - 1) + 3 * 0 + 1
      BY <2>1, <2>2, <2>4, <2>8
    <3>2. StepsLeft' \in Nat
      BY <1>3, <1>5, <3>1, Budget
    <3>3. QED
      BY <1>3, <1>5, <1>6, <2>6, <3>1, <3>2, Budget DEF Progress
  <2>9. QED
    BY <2>7, <2>8
<1>9. QED
  BY <1>1, <1>7, <1>8

\* An instruction adds one entry point at most.
LEMMA OneEntryPointMore ==
  ASSUME TypeOK, RomInv, thePc \in Mapped, OperandsMapped, ListInstruction
  PROVE  Len(theEntryPoints') <= Len(theEntryPoints) + 1
<1>1. theEntryPoints \in Seq(CpuAddress)
  BY Zenon DEF TypeOK
<1>2. Len(theEntryPoints) \in Nat
  BY <1>1, LenProperties
<1>3. ASSUME NEW label \in CommentLabels, theEntryPoints' = Append(theEntryPoints, label.address)
      PROVE  Len(theEntryPoints') = Len(theEntryPoints) + 1
  <2>1. label.address \in CpuAddress
    BY DEF CommentLabels
  <2>2. QED
    BY <1>1, <1>3, <2>1, AppendProperties
<1>4. CASE theEntryPoints' = theEntryPoints
  BY <1>2, <1>4
<1>5. QED
  BY <1>2, <1>3, <1>4, ListInstructionAdds

\* A path comes closer to the end of the ROM.
LEMMA FollowPathProgress ==
  ASSUME TypeOK, RomInv, TypeOK', RomInv', FollowPath
  PROVE  Progress
<1> DEFINE U == Cardinality(Unlisted)
           L == Len(theEntryPoints)
<1>0. Mapped' = Mapped /\ theRom' = theRom /\ phase = "path" /\ ~theDeadEndFlag
  BY Zenon DEF FollowPath, Mapped
<1>1. L \in Nat /\ Len(theEntryPoints') \in Nat
  <2>1. theEntryPoints \in Seq(CpuAddress) /\ theEntryPoints' \in Seq(CpuAddress)
    BY Zenon DEF TypeOK
  <2>2. QED
    BY <2>1, LenProperties
<1>2. StepsLeft = 65538 + 3 * 65536 * U + 2 * L + 3 * Ahead(thePc) + 1
  BY <1>0 DEF StepsLeft, Pending
<1>3. Ahead(thePc) \in Nat /\ Ahead(thePc') \in Nat
  BY AheadBound
<1>4. CASE thePc \notin Mapped /\ theDeadEndFlag' /\ UNCHANGED <<theListing, thePc, theEntryPoints>>
  <2>1. phase' = "analyse"
    BY <1>4 DEF FollowPath
  <2>2. Unlisted' = Unlisted
    BY <1>0, <1>4, <2>1 DEF Unlisted
  <2>3. U \in Nat
    BY UnlistedNumber
  <2>4. StepsLeft' = 65538 + 3 * 65536 * U + 2 * L
    BY <1>4, <2>1, <2>2 DEF StepsLeft, Pending
  <2> HIDE DEF U, L
  <2>5. QED
    BY <1>1, <1>2, <1>3, <2>3, <2>4, Budget DEF Progress
<1>5. CASE /\ thePc \in Mapped /\ OperandsMapped
           /\ ListInstruction
           /\ thePc' = Word(thePc + Info.theNumBytes)
           /\ theDeadEndFlag' = theDeadEndFlag
  <2>1. phase' = "path"
    BY <1>0, <1>5 DEF FollowPath
  <2>2. DOMAIN theListing' = DOMAIN theListing \union {thePc}
    BY <1>5, ListInstructionGrows
  <2>3. Unlisted' \subseteq Unlisted
    BY <1>0, <2>1, <2>2 DEF Unlisted
  <2>4. U \in Nat /\ Cardinality(Unlisted') \in Nat /\ Cardinality(Unlisted') <= U
    BY <2>3, UnlistedShrinks
  <2>5. Len(theEntryPoints') <= L + 1
    BY <1>5, OneEntryPointMore
  <2>6. Ahead(thePc') < Ahead(thePc)
    <3>1. Info.theNumBytes \in 1 .. 3 /\ thePc + Info.theNumBytes - 1 \in Mapped
      BY <1>5, InfoFacts, InstructionInside DEF Info
    <3>2. QED
      BY <1>5, <3>1, AheadShrinks
  <2>7. Ahead(thePc)' = Ahead(thePc')
    BY <1>0 DEF Ahead
  <2>8. StepsLeft' = 65538 + 3 * 65536 * Cardinality(Unlisted') + 2 * Len(theEntryPoints') + 3 * Ahead(thePc') + 1
    BY <2>1, <2>7 DEF StepsLeft, Pending
  <2> HIDE DEF U, L
  <2>9. StepsLeft \in Nat
    BY <1>1, <1>2, <1>3, <2>4, Budget
  <2>10. StepsLeft' \in Nat
    BY <1>1, <1>3, <2>4, <2>8, Budget
  <2>11. StepsLeft' < StepsLeft
    <3>1. PICK v, m, a, b : /\ v = Cardinality(Unlisted') /\ m = Len(theEntryPoints')
                            /\ a = Ahead(thePc) /\ b = Ahead(thePc')
      OBVIOUS
    <3>2. v \in Nat /\ m \in Nat /\ a \in Nat /\ b \in Nat /\ v <= U /\ m <= L + 1 /\ b < a
      BY <1>1, <1>3, <2>4, <2>5, <2>6, <3>1
    <3>3. 65538 + 3 * 65536 * v + 2 * m + 3 * b + 1 < 65538 + 3 * 65536 * U + 2 * L + 3 * a + 1
      BY <1>1, <2>4, <3>2, Budget
    <3>4. QED
      BY <1>2, <2>8, <3>1, <3>3
  <2>12. QED
    BY <2>9, <2>10, <2>11 DEF Progress
<1>6. QED
  BY <1>4, <1>5, Zenon DEF FollowPath, DecodeInstruction

\* A line leaves less of the ROM to print.
LEMMA PrintLineProgress ==
  ASSUME RomInv, InsideInv, PrintLine
  PROVE  Progress
<1>1. /\ phase = "print" /\ phase' = "print" /\ curDisAddr \in Mapped
      /\ curDisAddr' = Word(curDisAddr + LineLength(curDisAddr))
      /\ theRom' = theRom /\ Mapped' = Mapped
  BY DEF PrintLine, Mapped
<1>2. StepsLeft = 1 + Ahead(curDisAddr) /\ StepsLeft' = 1 + Ahead(curDisAddr')
  BY <1>1 DEF StepsLeft, Ahead
<1>3. Ahead(curDisAddr) \in Nat /\ Ahead(curDisAddr') \in Nat
  BY AheadBound
<1>4. PICK n \in 1 .. 3 : n = LineLength(curDisAddr)
  BY <1>1, InfoFacts DEF LineLength
<1>5. curDisAddr + n - 1 \in Mapped
  <2>1. CASE curDisAddr \in DOMAIN theListing
    <3>1. Behind(curDisAddr) - 1 \in Mapped
      BY <1>1, <2>1 DEF InsideInv, Analysing
    <3>2. Behind(curDisAddr) = curDisAddr + n /\ curDisAddr \in Int
      BY <1>1, <1>4, <2>1, MappedAddresses, AddressNumbers DEF Behind, LineLength
    <3>3. Behind(curDisAddr) - 1 = curDisAddr + (n - 1)
      BY <3>2
    <3>4. QED
      BY <3>1, <3>3, Zenon
  <2>2. CASE curDisAddr \notin DOMAIN theListing
    <3>1. n = 1 /\ curDisAddr \in Int
      BY <1>1, <1>4, <2>2, MappedAddresses, AddressNumbers DEF LineLength
    <3>2. QED
      BY <1>1, <3>1
  <2>3. QED
    BY <2>1, <2>2
<1>6. Ahead(curDisAddr') < Ahead(curDisAddr)
  BY <1>1, <1>4, <1>5, AheadShrinks
<1>7. QED
  BY <1>2, <1>3, <1>6 DEF Progress

\* The other steps end something or count an instruction of debugListing.
LEMMA OtherStepsProgress ==
  ASSUME TypeOK, RomInv,
         StartReturns \/ PrintCrashes \/ PrintReturns \/ DebugListing \/ ListingReturns \/ Crash
  PROVE  Progress
<1>1. /\ Ahead(thePc) \in Nat
      /\ Ahead(curDisAddr) \in Nat /\ Ahead(curDisAddr) <= 65536
  BY AheadBound
<1>2. numInstructions \in Nat /\ Len(theEntryPoints) \in Nat
  <2>1. numInstructions \in Nat /\ theEntryPoints \in Seq(CpuAddress)
    BY Zenon DEF TypeOK
  <2>2. QED
    BY <2>1, LenProperties
<1>3. Pending \in Nat /\ Pending >= 65538
  <2>1. PICK U, L : U = Cardinality(Unlisted) /\ L = Len(theEntryPoints)
    OBVIOUS
  <2>2. U \in Nat /\ L \in Nat
    BY <1>2, <2>1, UnlistedNumber
  <2>3. 65538 + 3 * 65536 * U + 2 * L \in Nat /\ 65538 + 3 * 65536 * U + 2 * L >= 65538
    BY <2>2
  <2>4. QED
    BY <2>1, <2>3 DEF Pending
<1>4. CASE StartReturns
  <2>1. phase = "analyse" /\ phase' = "print" /\ curDisAddr' = curDisAddr /\ theRom' = theRom
    BY <1>4 DEF StartReturns
  <2>2. StepsLeft = Pending /\ StepsLeft' = 1 + Ahead(curDisAddr)
    BY <2>1 DEF StepsLeft, Ahead, Mapped
  <2>3. QED
    BY <1>1, <1>3, <2>2 DEF Progress
<1>5. CASE PrintCrashes \/ PrintReturns \/ ListingReturns \/ Crash
  <2>1. phase' \in {"done", "crashed"} /\ phase \in {"path", "print", "listing"}
    BY <1>5 DEF PrintCrashes, PrintReturns, ListingReturns, Crash
  <2>2. StepsLeft' = 0
    BY <2>1 DEF StepsLeft
  <2>3. StepsLeft \in {Pending + 3 * Ahead(thePc) + 1, 1 + Ahead(curDisAddr), 1 + numInstructions}
    BY <2>1 DEF StepsLeft
  <2>4. QED
    BY <1>1, <1>2, <1>3, <2>2, <2>3 DEF Progress
<1>6. CASE DebugListing
  <2>1. /\ phase = "listing" /\ phase' = "listing"
        /\ numInstructions > 0 /\ numInstructions' = numInstructions - 1
    BY <1>6 DEF DebugListing
  <2>2. StepsLeft = 1 + numInstructions /\ StepsLeft' = 1 + (numInstructions - 1)
    BY <2>1 DEF StepsLeft
  <2>3. QED
    BY <1>2, <2>1, <2>2 DEF Progress
<1>7. QED
  BY <1>4, <1>5, <1>6

\* Code that branches back into itself is not analysed for ever, the entry points that
\* listed code adds again are used up, and a ROM that ends at 0xffff is not printed again
\* from 0: start, printDisassembly and debugListing take no more steps than StepsLeft says
\* of the initial state.
THEOREM RunsAreFinite == Spec => [][Progress]_vars
<1>1. TypeOK /\ RomInv /\ AnalysisInv /\ [Next]_vars => AnalysisInv'
  BY NextKeepsAnalysis
<1>2. ASSUME TypeOK, RomInv, AnalysisInv, TypeOK', RomInv', [Next]_vars
      PROVE  [Progress]_vars
  <2>1. InsideInv
    BY <1>2 DEF AnalysisInv
  <2>2. QED
    BY <1>2, <2>1, PopEntryPointProgress, FollowPathProgress, PrintLineProgress, OtherStepsProgress DEF Next
<1>3. QED
  BY <1>1, <1>2, InitAnalysisInv, TypeInvariance, PTL DEF Spec
=============================================================================
