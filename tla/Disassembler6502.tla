-------------------------- MODULE Disassembler6502 --------------------------
(***************************************************************************)
(* The disassembler: the stand-alone program (DisMain, Disassembler6502::   *)
(* start and printDisassembly) on one ROM, and the short listings of the    *)
(* debugger and of the execution trace (debugListing).                      *)
(*                                                                         *)
(* The text of a line is left out but for the label that the comment of a   *)
(* branch or a JSR names.  A label is its prefix: the rest is its address.  *)
(***************************************************************************)
EXTENDS Cpu6502Defines, SequencesExt

CONSTANTS Roms,            \* the memory images: functions on the addresses of one device
          EntryPoints,     \* the sequences of -a options, as offsets into the ROM
          ListingLengths   \* the arguments of debugListing

\* The size of a device has 16 bits: no ROM fills the whole address space.
ASSUME RomsAssumption ==
  \A rom \in Roms : /\ rom \in [DOMAIN rom -> Byte]
                    /\ DOMAIN rom \subseteq CpuAddress /\ DOMAIN rom # CpuAddress
                    /\ \E first, last \in DOMAIN rom : DOMAIN rom = first .. last
ASSUME EntryPointsAssumption == \A offsets \in EntryPoints : offsets \in Seq(Nat)
ASSUME ListingLengthsAssumption == ListingLengths \subseteq Nat

VARIABLES theRom,
          thePc,
          theEntryPoints,  \* the work list; the last one is the next
          theListing,      \* address -> the label its comment names, or NoComment
          theLabels,       \* address -> prefix of its label
          theDeadEndFlag,
          numInstructions, \* of debugListing, those still to decode
          curDisAddr,      \* of printDisassembly
          printed,         \* the addresses of the lines printed, in order
          phase  \* "analyse" the work list, "path", "print", "listing", "done", "crashed"

vars == <<theRom, thePc, theEntryPoints, theListing, theLabels, theDeadEndFlag, numInstructions,
          curDisAddr, printed, phase>>

Label(prefix, address) == [prefix |-> prefix, address |-> address]
NoComment == Label("", 0)
Nowhere == [a \in {} |-> NoComment]
Set(map, address, value) == [a \in DOMAIN map \union {address} |-> IF a = address THEN value ELSE map[a]]

FirstOf(rom) == CHOOSE a \in DOMAIN rom : \A b \in DOMAIN rom : a <= b
LastOf(rom) == CHOOSE a \in DOMAIN rom : \A b \in DOMAIN rom : b <= a

\* main adds the extra entry points, start the address of the ROM.
Init ==
  /\ theRom \in Roms
  /\ theListing = Nowhere /\ theLabels = Nowhere
  /\ theDeadEndFlag = FALSE
  /\ curDisAddr = FirstOf(theRom)
  /\ printed = <<>>
  /\ \/ /\ phase = "analyse"
        /\ thePc = FirstOf(theRom)
        /\ \E offsets \in EntryPoints :
             theEntryPoints = [i \in DOMAIN offsets |-> Word(FirstOf(theRom) + offsets[i])] \o <<thePc>>
        /\ numInstructions = 0
     \/ /\ phase = "listing"
        /\ thePc \in DOMAIN theRom
        /\ theEntryPoints = <<>>
        /\ numInstructions \in ListingLengths

-----------------------------------------------------------------------------
(* Decoding one instruction.                                               *)

Mapped == DOMAIN theRom
InfoAt(address) == gOpCodes[theRom[address]]
Info == InfoAt(thePc)
OpCode2 == theRom[Word(thePc + 1)]
OpCode3 == theRom[Word(thePc + 2)]
OperandsMapped == \A i \in 1 .. Info.theNumBytes - 1 : Word(thePc + i) \in Mapped

BranchHandlers == {"BVS", "BVC", "BEQ", "BNE", "BMI", "BPL", "BCC", "BCS"}
EmptyHandlers == Handlers \ (BranchHandlers \union {"JSR"})

\* Mutant: the address of the target is not cut to 16 bits.
BranchTargetUnbounded == thePc + SignedByte(Low(OpCode2 + Info.theNumBytes))

\* addBranchLabelFromRelativeOffset gets the offset plus the length of the branch as a
\* byte, whose sign is that of the sum.
BranchTarget == Word(thePc + SignedByte(Low(OpCode2 + Info.theNumBytes)))

\* The length of JSR is added to its operand, although a call lands on the operand itself.
JsrTarget == Word(OpCode2 + 256 * OpCode3 + Info.theNumBytes)

\* addJumpLabelStatement.
AddJumpLabelStatement(label) ==
  /\ theListing' = Set(theListing, thePc, label)
  /\ theLabels' = Set(theLabels, label.address, label.prefix)
  /\ theEntryPoints' = Append(theEntryPoints, label.address)

\* preHandlerHook lists the instruction, the handler of a branch or a call adds a
\* label, an entry point and a comment.
ListInstruction ==
  \/ Info.theHandler \in BranchHandlers /\ AddJumpLabelStatement(Label("branch", BranchTarget))
  \/ Info.theHandler = "JSR" /\ AddJumpLabelStatement(Label("sub", JsrTarget))
  \/ /\ Info.theHandler \in EmptyHandlers
     /\ theListing' = Set(theListing, thePc, NoComment)
     /\ UNCHANGED <<theLabels, theEntryPoints>>

\* decode.  Without a device it halts and leaves this listing, without one for an
\* operand it crashes.
DecodeInstruction(listingAtTheEnd) ==
  \/ /\ thePc \notin Mapped
     /\ theDeadEndFlag' = TRUE
     /\ theListing' = listingAtTheEnd
     /\ UNCHANGED <<thePc, theEntryPoints, theLabels>>
  \/ /\ thePc \in Mapped /\ OperandsMapped
     /\ ListInstruction
     /\ thePc' = Word(thePc + Info.theNumBytes)
     /\ theDeadEndFlag' = theDeadEndFlag

Crash ==
  /\ phase \in {"path", "listing"}
  /\ ~theDeadEndFlag /\ (phase = "listing" => numInstructions > 0)
  /\ thePc \in Mapped /\ ~OperandsMapped
  /\ phase' = "crashed"
  /\ UNCHANGED <<theRom, thePc, theEntryPoints, theListing, theLabels, theDeadEndFlag, numInstructions,
                 curDisAddr, printed>>

-----------------------------------------------------------------------------
(* start.                                                                  *)

\* Mutant: an address that has a label is taken for analysed.
PopLabelled ==
  /\ phase = "analyse" /\ theEntryPoints # <<>>
  /\ LET nextAddress == Last(theEntryPoints) IN
     IF nextAddress \notin DOMAIN theLabels
     THEN /\ theLabels' = Set(theLabels, nextAddress, "entry")
          /\ theDeadEndFlag' = FALSE
          /\ thePc' = nextAddress
          /\ phase' = "path"
     ELSE UNCHANGED <<theLabels, theDeadEndFlag, thePc, phase>>
  /\ theEntryPoints' = Front(theEntryPoints)
  /\ UNCHANGED <<theRom, theListing, numInstructions, curDisAddr, printed>>

\* Mutant: an entry point is analysed again.
PopAgain ==
  /\ phase = "analyse" /\ theEntryPoints # <<>>
  /\ theLabels' = Set(theLabels, Last(theEntryPoints), "entry")
  /\ theDeadEndFlag' = FALSE
  /\ thePc' = Last(theEntryPoints)
  /\ phase' = "path"
  /\ theEntryPoints' = Front(theEntryPoints)
  /\ UNCHANGED <<theRom, theListing, numInstructions, curDisAddr, printed>>

\* An entry point that is not listed yet gets the label "entry", in place of the
\* "branch" or "sub" that comments may name, and a path of its own.
PopEntryPoint ==
  /\ phase = "analyse" /\ theEntryPoints # <<>>
  /\ LET nextAddress == Last(theEntryPoints) IN
     IF nextAddress \notin DOMAIN theListing
     THEN /\ theLabels' = Set(theLabels, nextAddress, "entry")
          /\ theDeadEndFlag' = FALSE
          /\ thePc' = nextAddress
          /\ phase' = "path"
     ELSE UNCHANGED <<theLabels, theDeadEndFlag, thePc, phase>>
  /\ theEntryPoints' = Front(theEntryPoints)
  /\ UNCHANGED <<theRom, theListing, numInstructions, curDisAddr, printed>>

\* A path goes on through returns, jumps and code that is listed, to the end of the device.
FollowPath ==
  /\ phase = "path" /\ ~theDeadEndFlag
  /\ DecodeInstruction(theListing)
  /\ phase' = IF theDeadEndFlag' THEN "analyse" ELSE "path"
  /\ UNCHANGED <<theRom, numInstructions, curDisAddr, printed>>

StartReturns ==
  /\ phase = "analyse" /\ theEntryPoints = <<>>
  /\ phase' = "print"
  /\ UNCHANGED <<theRom, thePc, theEntryPoints, theListing, theLabels, theDeadEndFlag, numInstructions,
                 curDisAddr, printed>>

-----------------------------------------------------------------------------
(* printDisassembly and debugListing.                                      *)

LineLength(address) == IF address \in DOMAIN theListing THEN InfoAt(address).theNumBytes ELSE 1

\* Mutant: a listed instruction is followed by its operands as data.
PrintByte ==
  /\ phase = "print" /\ curDisAddr <= LastOf(theRom) /\ curDisAddr \in Mapped
  /\ printed' = Append(printed, curDisAddr)
  /\ curDisAddr' = Word(curDisAddr + 1)
  /\ UNCHANGED <<theRom, thePc, theEntryPoints, theListing, theLabels, theDeadEndFlag, numInstructions, phase>>

\* A label, if there is one, then an instruction or a byte of data.
PrintLine ==
  /\ phase = "print" /\ curDisAddr <= LastOf(theRom) /\ curDisAddr \in Mapped
  /\ printed' = Append(printed, curDisAddr)
  /\ curDisAddr' = Word(curDisAddr + LineLength(curDisAddr))
  /\ UNCHANGED <<theRom, thePc, theEntryPoints, theListing, theLabels, theDeadEndFlag, numInstructions, phase>>

\* The address has wrapped behind 0xffff: the loop goes on at 0, where there is no device.
PrintCrashes ==
  /\ phase = "print" /\ curDisAddr <= LastOf(theRom) /\ curDisAddr \notin Mapped
  /\ phase' = "crashed"
  /\ UNCHANGED <<theRom, thePc, theEntryPoints, theListing, theLabels, theDeadEndFlag, numInstructions,
                 curDisAddr, printed>>

\* At the end of main the MemoryController deletes the device, an object on main's stack:
\* what that does is undefined.
PrintReturns ==
  /\ phase = "print" /\ curDisAddr > LastOf(theRom)
  /\ phase' \in {"done", "crashed"}
  /\ UNCHANGED <<theRom, thePc, theEntryPoints, theListing, theLabels, theDeadEndFlag, numInstructions,
                 curDisAddr, printed>>

\* A line for each instruction; where the memory ends an empty one, which looking it up
\* adds to the listing.
DebugListing ==
  /\ phase = "listing" /\ ~theDeadEndFlag /\ numInstructions > 0
  /\ DecodeInstruction(Set(theListing, thePc, NoComment))
  /\ numInstructions' = numInstructions - 1
  /\ printed' = Append(printed, thePc)
  /\ UNCHANGED <<theRom, curDisAddr, phase>>

ListingReturns ==
  /\ phase = "listing" /\ (theDeadEndFlag \/ numInstructions = 0)
  /\ phase' = "done"
  /\ UNCHANGED <<theRom, thePc, theEntryPoints, theListing, theLabels, theDeadEndFlag, numInstructions,
                 curDisAddr, printed>>

Next == \/ PopEntryPoint \/ FollowPath \/ StartReturns \/ PrintLine \/ PrintCrashes \/ PrintReturns
        \/ DebugListing \/ ListingReturns \/ Crash

\* One thread, which is scheduled.
Spec == Init /\ [][Next]_vars /\ WF_vars(Next)

-----------------------------------------------------------------------------
(* Properties.                                                             *)

\* Addresses are 16 bits wide; start lists addresses of the ROM only; a label is one of
\* the three kinds, and the one a comment names is a branch's or a call's.
TypeOK ==
  /\ Mapped \subseteq CpuAddress /\ theRom \in [Mapped -> Byte]
  /\ thePc \in CpuAddress /\ curDisAddr \in CpuAddress
  /\ theEntryPoints \in Seq(CpuAddress) /\ printed \in Seq(CpuAddress)
  /\ \A a \in DOMAIN theListing : \/ theListing[a] = NoComment
                                  \/ theListing[a] \in [prefix : {"branch", "sub"}, address : CpuAddress]
  /\ DOMAIN theListing \subseteq CpuAddress
  /\ phase \in {"analyse", "path", "print"} => DOMAIN theListing \subseteq Mapped
  /\ theLabels \in [DOMAIN theLabels -> {"branch", "sub", "entry"}]
  /\ DOMAIN theLabels \subseteq CpuAddress
  /\ theDeadEndFlag \in BOOLEAN
  /\ numInstructions \in Nat
  /\ phase \in {"analyse", "path", "print", "listing", "done", "crashed"}

BranchGoesTo(address) == Word(address + 2 + SignedByte(theRom[address + 1]))

\* When the analysis is over, the listing is closed under what the CPU may do in it,
\* calls and jumps apart: behind a listed instruction the next one is listed, and the
\* target of a listed branch is listed and has a label, for which the offset plus two
\* must not leave the range of a signed byte.
ReachableIsListed ==
  phase = "print" =>
    \A address \in DOMAIN theListing :
      /\ address + InfoAt(address).theNumBytes \in Mapped =>
           address + InfoAt(address).theNumBytes \in DOMAIN theListing
      /\ /\ InfoAt(address).theHandler \in BranchHandlers
         /\ theRom[address + 1] \notin {126, 127}
         => /\ BranchGoesTo(address) \in DOMAIN theLabels
            /\ BranchGoesTo(address) \in Mapped => BranchGoesTo(address) \in DOMAIN theListing

\* Each line begins where the one before ends, also where listed instructions overlap,
\* and the lines of a disassembly that is complete cover the ROM from its first to its
\* last byte.
LinesCoverRom ==
  /\ \A i \in 1 .. Len(printed) - 1 : printed[i + 1] = Word(printed[i] + LineLength(printed[i]))
  /\ phase = "print" /\ printed # <<>> =>
       /\ printed[1] = FirstOf(theRom)
       /\ curDisAddr = Word(Last(printed) + LineLength(Last(printed)))
       /\ curDisAddr \in Mapped \union {Word(LastOf(theRom) + 1)}

\* Code that branches back into itself is not analysed for ever, and the listing of a ROM
\* that ends at 0xffff, where the address wraps, does not begin again.
DisassemblyEnds == <>(phase \in {"done", "crashed"})
=============================================================================
