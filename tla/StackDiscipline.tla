-------------------------- MODULE StackDiscipline ---------------------------
(***************************************************************************)
(* Cpu6502 with a history of what its programs have pushed: a frame for     *)
(* each JSR, PHA, PHP and BRK whose bytes are still on the stack.           *)
(***************************************************************************)
EXTENDS Cpu6502

VARIABLE frames  \* history: [kind, at, left, value]; the stack pointer before and after the push

Size(kind) == CASE kind \in {"PHA", "PHP"} -> 1 [] kind = "JSR" -> 2 [] kind = "BRK" -> 3
CellsOf(frame) == {256 + Low(frame.at - i) : i \in 0 .. Size(frame.kind) - 1}

\* What the instruction that ends the frame has to bring back.
Value(kind) == CASE kind \in {"JSR", "BRK"} -> Word(thePc + Info.theNumBytes)
                 [] kind = "PHA" -> theAccum
                 [] kind = "PHP" -> theStatusReg \ {"B", "U"}

NewFrame(kind) == [kind |-> kind, at |-> theStackPtr, left |-> theStackPtr', value |-> Value(kind)]
NewFrames == {f \in {NewFrame(kind) : kind \in {k \in {"PHA", "PHP", "JSR", "BRK"} : Decoding({k})}} :
                CellsOf(f) \subseteq Mapped}

Remember ==
  frames' = {f \in frames : \A c \in CellsOf(f) : theMemory'[c] = theMemory[c]} \union NewFrames

historyVars == <<vars, frames>>
InitWithHistory == Init /\ frames = {}
NextWithHistory == Next /\ Remember
SpecWithHistory == InitWithHistory /\ [][NextWithHistory]_historyVars /\ WF_historyVars(NextWithHistory)

\* The frame that a pull of this kind takes off the stack.
Ended(kind) == {f \in frames : f.kind = kind /\ f.at = theStackPtr'}

\* An RTS that takes the bytes of a JSR off the stack continues behind that JSR, a PLA
\* returns the accumulator of its PHA and a PLP the flags of its PHP, whatever has been
\* pushed, called and returned in between, across pages and around the end of the stack.
PullUndoesPush ==
  [][ /\ Decoding({"RTS"}) => \A f \in Ended("JSR") : thePc' = f.value
      /\ Decoding({"PLA"}) => \A f \in Ended("PHA") : theAccum' = f.value
      /\ Decoding({"PLP"}) => \A f \in Ended("PHP") :
           /\ theStatusReg' \ {"B", "U"} = f.value
           /\ theStatusReg' \intersect {"B", "U"} = theStatusReg \intersect {"B", "U"}
    ]_historyVars

\* BRK pushes a return address as JSR does, "due to behavior of rts on 6502, the returns
\* address has 1 byte subtracted", and the status: an RTI executed with the stack as BRK
\* left it returns behind the BRK, with the stack as it was.
RtiReturnsFromBrk ==
  [][ Decoding({"RTI"}) => \A f \in frames :
        f.kind = "BRK" /\ theStackPtr = f.left => theStackPtr' = f.at /\ thePc' = f.value
    ]_historyVars
=============================================================================
