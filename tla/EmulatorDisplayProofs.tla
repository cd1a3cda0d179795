----------------------- MODULE EmulatorDisplayProofs ------------------------
(***************************************************************************)
(* Proofs about EmulatorDisplay, for any number of keys, pixels and colors *)
(* and any capacity of the two queues.                                     *)
(***************************************************************************)
EXTENDS EmulatorDisplay, SequenceTheorems, TLAPS

-----------------------------------------------------------------------------
(* Types, and what the two threads have still to send.                     *)

StartupIds == {"SET_RESOLUTION", "SET_LOGICAL_SIZE", "CLEAR_SCREEN", "NO_DISPLAY_DEVICE"}

\* main.todo by the place in the code.
MainTodo ==
  /\ main.pc = "startup" => main.todo \in Seq(Commands)
  /\ main.pc = "writeEvent" => main.todo \in Seq(KeyEvents) /\ Len(main.todo) = 1
  /\ main.pc \notin {"startup", "writeEvent"} => main.todo = <<>>

\* emu.todo by the place in the code, and where the program has been told to stop.
EmuTodo ==
  /\ emu.pc = "push" =>
       /\ Len(emu.todo) = 1
       /\ \/ emu.todo[1] = Cmd("HALT_EMULATION") /\ ~theRunFlag
          \/ \E p \in Pixels, c \in Colors : emu.todo[1] = DrawPixel(p, c)
  /\ emu.pc = "callback" =>
       Len(emu.todo) = 1 /\ emu.todo[1] = Cmd("HALT_EMULATION") /\ ~theRunFlag
  /\ emu.pc = "exited" => ~theRunFlag
  /\ emu.pc \notin {"push", "callback"} => emu.todo = <<>>

TypeInv == TypeOK /\ MainTodo /\ EmuTodo

LEMMA CommandsAre ==
  /\ \A id \in StartupIds \union {"HALT_EMULATION"} : Cmd(id) \in Commands
  /\ \A p \in Pixels, c \in Colors : DrawPixel(p, c) \in Commands
  /\ \A t \in {"KEYUP", "KEYDOWN"} : Subscribe(t) \in Commands
<1>1. ASSUME NEW id \in StartupIds \union {"HALT_EMULATION"}
      PROVE  Cmd(id) \in Commands
  BY <1>1 DEF Commands, StartupIds, Cmd
<1>2. ASSUME NEW p \in Pixels, NEW c \in Colors
      PROVE  DrawPixel(p, c) \in Commands
  BY DEF Commands
<1>3. ASSUME NEW t \in {"KEYUP", "KEYDOWN"}
      PROVE  Subscribe(t) \in Commands
  BY DEF Commands
<1>4. QED
  BY <1>1, <1>2, <1>3

LEMMA CommandKinds ==
  ASSUME NEW cmd \in Commands
  PROVE  /\ cmd.id = "DRAW_PIXEL" => cmd.pixel \in Pixels /\ cmd.color \in Colors
         /\ cmd.id = "SUBSCRIBE_SDL_EVENT_TYPE" => cmd.type \in {"KEYUP", "KEYDOWN"}
BY DEF Commands, Cmd, DrawPixel, Subscribe

LEMMA MainRecord ==
  /\ <<>> \in Seq(Commands \union KeyEvents)
  /\ \A pc \in {"startup", "drain", "wait", "writeEvent", "join", "done"} :
       \A todo \in Seq(Commands \union KeyEvents) :
         [pc |-> pc, todo |-> todo] \in
           [pc : {"startup", "drain", "wait", "writeEvent", "join", "done"},
            todo : Seq(Commands \union KeyEvents)]
OBVIOUS

\* Moving a message from one sequence to the next one leaves the two in a row as they are.
LEMMA MovedIsTheSame ==
  ASSUME NEW S, NEW s \in Seq(S), NEW t \in Seq(S), t # <<>>
  PROVE  Append(s, Head(t)) \o Tail(t) = s \o t
<1> DEFINE a == Append(s, Head(t)) \o Tail(t)
           b == s \o t
<1>1. /\ Head(t) \in S /\ Tail(t) \in Seq(S) /\ Len(Tail(t)) = Len(t) - 1
      /\ Len(t) \in Nat /\ Len(t) > 0 /\ Len(s) \in Nat /\ Head(t) = t[1]
      /\ \A i \in 1 .. Len(Tail(t)) : Tail(t)[i] = t[i + 1]
  BY HeadTailProperties, EmptySeq, LenProperties
<1>2. /\ Append(s, Head(t)) \in Seq(S) /\ Len(Append(s, Head(t))) = Len(s) + 1
      /\ \A i \in 1 .. Len(s) : Append(s, Head(t))[i] = s[i]
      /\ Append(s, Head(t))[Len(s) + 1] = t[1]
  BY <1>1, AppendProperties
<1>3. a \in Seq(S) /\ b \in Seq(S) /\ Len(a) = Len(b) /\ Len(b) = Len(s) + Len(t)
  BY <1>1, <1>2, ConcatProperties
<1>4. ASSUME NEW i \in 1 .. Len(a) PROVE a[i] = b[i]
  <2>1. CASE i \in 1 .. Len(s)
    BY <1>1, <1>2, <2>1, ConcatProperties
  <2>2. CASE i = Len(s) + 1
    BY <1>1, <1>2, <2>2, ConcatProperties
  <2>3. CASE i \in Len(s) + 2 .. Len(s) + Len(t)
    <3>1. a[i] = Tail(t)[i - (Len(s) + 1)] /\ b[i] = t[i - Len(s)]
      BY <1>1, <1>2, <2>3, ConcatProperties
    <3>2. i - (Len(s) + 1) \in 1 .. Len(Tail(t))
      BY <1>1, <2>3
    <3>3. Tail(t)[i - (Len(s) + 1)] = t[(i - (Len(s) + 1)) + 1] /\ (i - (Len(s) + 1)) + 1 = i - Len(s)
      BY <1>1, <2>3, <3>2
    <3>4. QED
      BY <3>1, <3>3
  <2>4. QED
    BY <1>1, <1>3, <2>1, <2>2, <2>3
<1>5. QED
  BY <1>3, <1>4, SeqEqual

LEMMA TailOfConcat ==
  ASSUME NEW S, NEW s \in Seq(S), NEW t \in Seq(S), s # <<>>
  PROVE  /\ s \o t \in Seq(S) /\ s \o t # <<>>
         /\ Head(s \o t) = Head(s) /\ Tail(s \o t) = Tail(s) \o t
<1>1. /\ Tail(s) \in Seq(S) /\ Len(Tail(s)) = Len(s) - 1 /\ Head(s) = s[1]
      /\ Len(s) \in Nat /\ Len(s) > 0 /\ Len(t) \in Nat
      /\ \A i \in 1 .. Len(Tail(s)) : Tail(s)[i] = s[i + 1]
  BY HeadTailProperties, EmptySeq, LenProperties
<1>2. s \o t \in Seq(S) /\ Len(s \o t) = Len(s) + Len(t) /\ (s \o t)[1] = s[1]
  BY <1>1, ConcatProperties
<1>3. s \o t # <<>> /\ Head(s \o t) = Head(s)
  BY <1>1, <1>2, HeadTailProperties, EmptySeq
<1>4. /\ Tail(s \o t) \in Seq(S) /\ Tail(s) \o t \in Seq(S)
      /\ Len(Tail(s \o t)) = Len(s) + Len(t) - 1 /\ Len(Tail(s) \o t) = Len(s) + Len(t) - 1
      /\ \A i \in 1 .. Len(Tail(s \o t)) : Tail(s \o t)[i] = (s \o t)[i + 1]
  BY <1>1, <1>2, <1>3, HeadTailProperties, ConcatProperties
<1>5. ASSUME NEW i \in 1 .. Len(s) + Len(t) - 1 PROVE Tail(s \o t)[i] = (Tail(s) \o t)[i]
  <2>1. CASE i \in 1 .. Len(s) - 1
    BY <1>1, <1>4, <2>1, ConcatProperties
  <2>2. CASE i \in Len(s) .. Len(s) + Len(t) - 1
    <3>1. (s \o t)[i + 1] = t[i + 1 - Len(s)] /\ (Tail(s) \o t)[i] = t[i - (Len(s) - 1)]
      BY <1>1, <2>2, ConcatProperties
    <3>2. i - (Len(s) - 1) = i + 1 - Len(s)
      BY <1>1, <2>2
    <3>3. QED
      BY <1>4, <3>1, <3>2
  <2>3. QED
    BY <1>1, <2>1, <2>2
<1>6. QED
  BY <1>2, <1>3, <1>4, <1>5, SeqEqual

LEMMA ConcatAppend ==
  ASSUME NEW S, NEW s \in Seq(S), NEW t \in Seq(S), NEW e \in S
  PROVE  s \o Append(t, e) = Append(s \o t, e)
<1>1. <<e>> \in Seq(S) /\ s \o t \in Seq(S)
  BY ConcatProperties
<1>2. Append(t, e) = t \o <<e>> /\ Append(s \o t, e) = (s \o t) \o <<e>>
  BY <1>1, AppendIsConcat
<1>3. QED
  BY <1>1, <1>2, ConcatAssociative

LEMMA InitTypeInv == Init => TypeInv
<1> SUFFICES ASSUME Init PROVE TypeInv
  OBVIOUS
<1> USE ConstantsAssumption, CommandsAre
<1>1. TypeOK
  <2>1. StartupCommands(device) \in Seq(Commands)
    BY DEF Init, StartupCommands, StartupIds
  <2>2. StartupCommands(device) \in Seq(Commands \union KeyEvents)
    BY <2>1, SeqMonotonic
  <2>3. cmdQ \in Seq(Commands) /\ Len(cmdQ) <= 1
    <3>1. <<Cmd("CLEAR_SCREEN")>> \in Seq(Commands) /\ <<>> \in Seq(Commands)
      BY DEF StartupIds
    <3>2. QED
      BY <3>1 DEF Init
  <2>4. /\ main \in [pc : {"startup", "drain", "wait", "writeEvent", "join", "done"},
                    todo : Seq(Commands \union KeyEvents)]
        /\ emu \in [pc : {"loop", "execute", "push", "readKey", "callback", "exited"},
                   accesses : 0 .. MaxAccesses, todo : Seq(Commands)]
    BY <2>2, MainRecord DEF Init
  <2>5. Len(cmdQ) <= CmdCapacity /\ evQ \in Seq(KeyEvents) /\ Len(evQ) <= EventCapacity
    BY <2>3 DEF Init
  <2>6. screen \in [Pixels -> Colors \union {Unset}] /\ theDisplayFrame \in [Pixels -> Colors]
    BY DEF Init, Black
  <2>7. sdlEvents \in Seq(KeyEvents \union {Quit}) /\ keyEvents \in 0 .. MaxKeyEvents
    BY DEF Init
  <2>8. QED
    BY <2>3, <2>4, <2>5, <2>6, <2>7 DEF Init, TypeOK
<1>2. MainTodo /\ EmuTodo
  BY DEF Init, MainTodo, EmuTodo, StartupCommands, StartupIds
<1>3. QED
  BY <1>1, <1>2 DEF TypeInv

LEMMA MainKeepsTypes ==
  ASSUME TypeInv, MainStep
  PROVE  TypeInv'
<1> USE DEF TypeInv, TypeOK, displayVars, deviceVars, userVars, history
<1>1. CASE SendStartupCommand
  <2> USE <1>1 DEF SendStartupCommand
  <2>1. main.todo \in Seq(Commands) /\ main.todo \in Seq(Commands \union KeyEvents)
    BY DEF MainTodo
  <2>2. Head(main.todo) \in Commands /\ Tail(main.todo) \in Seq(Commands)
    BY <2>1, HeadTailProperties
  <2>3. Tail(main.todo) \in Seq(Commands \union KeyEvents)
    BY <2>1, HeadTailProperties
  <2>4. cmdQ' \in Seq(Commands) /\ Len(cmdQ') <= CmdCapacity
    BY <2>2, ConstantsAssumption DEF HasRoom
  <2>5. main' = [pc |-> "startup", todo |-> Tail(main.todo)]
    OBVIOUS
  <2>6. MainTodo' /\ EmuTodo'
    BY <2>2, <2>5 DEF MainTodo, EmuTodo
  <2>7. QED
    BY <2>3, <2>4, <2>5, <2>6
<1>2. CASE EnterDisplayLoop
  BY <1>2 DEF EnterDisplayLoop, MainTodo, EmuTodo
<1>3. CASE HandleCommand
  <2> USE <1>3 DEF HandleCommand
  <2>1. Head(cmdQ) \in Commands /\ Tail(cmdQ) \in Seq(Commands) /\ Len(Tail(cmdQ)) = Len(cmdQ) - 1
    BY HeadTailProperties
  <2>2. cmdQ' \in Seq(Commands) /\ Len(cmdQ') <= CmdCapacity
    BY <2>1, ConstantsAssumption
  <2>3. screen' \in [Pixels -> Colors \union {Unset}]
    BY <2>1, CommandKinds, ConstantsAssumption DEF Drawn, Black
  <2>4. theEventsOfInterest' \subseteq {"KEYUP", "KEYDOWN"}
    BY <2>1, CommandKinds
  <2>5. {runFlag', theRunFlag', window'} \subseteq BOOLEAN
    BY DEF KeepRunning
  <2>6. MainTodo' /\ EmuTodo'
    BY DEF MainTodo, EmuTodo
  <2>7. QED
    BY <2>2, <2>3, <2>4, <2>5, <2>6
<1>4. CASE NoMoreCommands
  BY <1>4 DEF NoMoreCommands, MainTodo, EmuTodo
<1>5. CASE WaitTimesOut
  BY <1>5 DEF WaitTimesOut, LoopAgain, MainTodo, EmuTodo
<1>6. CASE ReceiveQuit
  <2>1. Tail(sdlEvents) \in Seq(KeyEvents \union {Quit})
    BY <1>6, HeadTailProperties DEF ReceiveQuit
  <2>2. /\ main' \in [pc : {"startup", "drain", "wait", "writeEvent", "join", "done"},
                     todo : Seq(Commands \union KeyEvents)]
        /\ main.pc = "wait" /\ main'.pc = "join" /\ main'.todo = main.todo
    BY <1>6 DEF ReceiveQuit
  <2>3. MainTodo' /\ EmuTodo'
    BY <1>6, <2>2 DEF ReceiveQuit, MainTodo, EmuTodo
  <2>4. QED
    BY <1>6, <2>1, <2>2, <2>3 DEF ReceiveQuit
<1>7. CASE ReceiveKeyEvent
  <2> USE <1>7 DEF ReceiveKeyEvent
  <2>1. Head(sdlEvents) \in KeyEvents /\ Tail(sdlEvents) \in Seq(KeyEvents \union {Quit})
    BY HeadTailProperties
  <2>2. main' \in {[pc |-> "writeEvent", todo |-> <<Head(sdlEvents)>>],
                  [pc |-> "drain", todo |-> <<>>], [pc |-> "join", todo |-> <<>>]}
    BY DEF LoopAgain
  <2>3. <<Head(sdlEvents)>> \in Seq(KeyEvents) /\ Len(<<Head(sdlEvents)>>) = 1
    BY <2>1
  <2>4. <<Head(sdlEvents)>> \in Seq(Commands \union KeyEvents)
    BY <2>1
  <2>5. MainTodo' /\ EmuTodo'
    <3>1. CASE main' = [pc |-> "writeEvent", todo |-> <<Head(sdlEvents)>>]
      BY <2>3, <3>1 DEF MainTodo, EmuTodo
    <3>2. CASE main'.pc \in {"drain", "join"} /\ main'.todo = <<>>
      BY <3>2 DEF MainTodo, EmuTodo
    <3>3. QED
      BY <2>2, <3>1, <3>2
  <2>6. main' \in [pc : {"startup", "drain", "wait", "writeEvent", "join", "done"},
                  todo : Seq(Commands \union KeyEvents)]
    <3>1. <<>> \in Seq(Commands \union KeyEvents)
      OBVIOUS
    <3>2. CASE main' = [pc |-> "writeEvent", todo |-> <<Head(sdlEvents)>>]
      BY <2>4, <3>2
    <3>3. CASE main' = [pc |-> "drain", todo |-> <<>>]
      BY <3>1, <3>3
    <3>4. CASE main' = [pc |-> "join", todo |-> <<>>]
      BY <3>1, <3>4
    <3>5. QED
      BY <2>2, <3>2, <3>3, <3>4
  <2>7. QED
    BY <2>1, <2>5, <2>6
<1>8. CASE WriteEvent
  <2> USE <1>8 DEF WriteEvent
  <2>1. Head(main.todo) \in KeyEvents
    BY DEF MainTodo
  <2>2. evQ' \in Seq(KeyEvents) /\ Len(evQ') <= EventCapacity
    BY <2>1, ConstantsAssumption DEF HasRoom
  <2>3. main' \in {[pc |-> "drain", todo |-> <<>>], [pc |-> "join", todo |-> <<>>]}
    BY DEF LoopAgain
  <2>4. MainTodo' /\ EmuTodo'
    BY <2>3 DEF MainTodo, EmuTodo
  <2>5. main' \in [pc : {"startup", "drain", "wait", "writeEvent", "join", "done"},
                  todo : Seq(Commands \union KeyEvents)]
    BY <2>3, MainRecord
  <2>6. QED
    BY <2>2, <2>4, <2>5
<1>9. CASE JoinEmulationThread
  BY <1>9 DEF JoinEmulationThread, MainTodo, EmuTodo
<1>10. QED
  BY <1>1, <1>2, <1>3, <1>4, <1>5, <1>6, <1>7, <1>8, <1>9 DEF MainStep

\* Where the emulation thread goes, and with what to send.
EmuRecords == [pc : {"loop", "execute", "push", "readKey", "callback", "exited"},
               accesses : 0 .. MaxAccesses, todo : Seq(Commands)]

LEMMA EmuMoves ==
  ASSUME TypeInv, NEW pc \in {"loop", "execute", "push", "readKey", "callback", "exited"},
         NEW todo \in Seq(Commands), NEW accesses \in 0 .. MaxAccesses,
         emu' = [pc |-> pc, accesses |-> accesses, todo |-> todo],
         \/ pc \in {"loop", "execute", "readKey"} /\ todo = <<>>
         \/ pc = "exited" /\ todo = <<>> /\ ~theRunFlag'
         \/ /\ pc \in {"push", "callback"} /\ todo = <<Cmd("HALT_EMULATION")>> /\ ~theRunFlag'
         \/ pc = "push" /\ \E p \in Pixels, c \in Colors : todo = <<DrawPixel(p, c)>>
  PROVE  emu' \in EmuRecords /\ EmuTodo'
<1>1. emu' \in EmuRecords /\ emu'.pc = pc /\ emu'.todo = todo
  BY DEF EmuRecords
<1>2. EmuTodo'
  BY <1>1 DEF EmuTodo
<1>3. QED
  BY <1>1, <1>2

LEMMA EmuKeepsTypes ==
  ASSUME TypeInv, EmuStep
  PROVE  TypeInv'
<1> USE DEF TypeInv, TypeOK, displayVars, deviceVars, userVars, history
<1>0. /\ emu = [pc |-> emu.pc, accesses |-> emu.accesses, todo |-> emu.todo]
      /\ emu.accesses \in 0 .. MaxAccesses /\ emu.todo \in Seq(Commands)
      /\ emu.pc \in {"loop", "execute", "readKey"} => emu.todo = <<>>
      /\ emu.pc \in {"callback", "exited"} => ~theRunFlag
      /\ <<>> \in Seq(Commands) /\ 0 \in 0 .. MaxAccesses
      /\ <<Cmd("HALT_EMULATION")>> \in Seq(Commands)
      /\ \A p \in Pixels, c \in Colors : <<DrawPixel(p, c)>> \in Seq(Commands)
      /\ emu.pc = "execute" /\ emu.accesses < MaxAccesses => emu.accesses + 1 \in 0 .. MaxAccesses
  <2>1. emu \in EmuRecords /\ MaxAccesses \in Nat
    BY ConstantsAssumption DEF EmuRecords
  <2>2. /\ emu = [pc |-> emu.pc, accesses |-> emu.accesses, todo |-> emu.todo]
        /\ emu.accesses \in 0 .. MaxAccesses /\ emu.todo \in Seq(Commands)
    BY <2>1 DEF EmuRecords
  <2>3. /\ <<Cmd("HALT_EMULATION")>> \in Seq(Commands)
        /\ \A p \in Pixels, c \in Colors : <<DrawPixel(p, c)>> \in Seq(Commands)
    BY CommandsAre
  <2>4. /\ emu.pc \in {"loop", "execute", "readKey"} => emu.todo = <<>>
        /\ emu.pc \in {"callback", "exited"} => ~theRunFlag
    BY DEF EmuTodo
  <2>5. emu.accesses < MaxAccesses => emu.accesses + 1 \in 0 .. MaxAccesses
    BY <2>1, <2>2
  <2>6. <<>> \in Seq(Commands) /\ 0 \in 0 .. MaxAccesses
    BY <2>1
  <2>7. QED
    BY <2>2, <2>3, <2>4, <2>5, <2>6
<1>1. CASE Loop
  <2>1. emu' \in EmuRecords /\ EmuTodo'
    <3>1. CASE theRunFlag
      <4>1. emu' = [pc |-> "execute", accesses |-> emu.accesses, todo |-> <<>>] /\ theRunFlag' = theRunFlag
        BY <1>0, <1>1, <3>1 DEF Loop
      <4>2. QED
        BY <1>0, <4>1, EmuMoves
    <3>2. CASE ~theRunFlag
      <4>1. /\ emu' = [pc |-> "callback", accesses |-> emu.accesses, todo |-> <<Cmd("HALT_EMULATION")>>]
            /\ theRunFlag' = theRunFlag
        BY <1>0, <1>1, <3>2 DEF Loop
      <4>2. QED
        BY <1>0, <3>2, <4>1, EmuMoves
    <3>3. QED
      BY <3>1, <3>2
  <2>2. QED
    BY <1>1, <2>1 DEF Loop, MainTodo, EmuRecords
<1>2. ASSUME NEW p \in Pixels, NEW c \in Colors, ExecuteDraw(p, c)
      PROVE  TypeInv'
  <2>1. /\ emu' = [pc |-> "push", accesses |-> emu.accesses + 1, todo |-> <<DrawPixel(p, c)>>]
        /\ theRunFlag' = theRunFlag /\ emu.accesses + 1 \in 0 .. MaxAccesses
    BY <1>0, <1>2 DEF ExecuteDraw, Access
  <2>2. emu' \in EmuRecords /\ EmuTodo'
    BY <1>0, <2>1, EmuMoves
  <2>3. theDisplayFrame' \in [Pixels -> Colors]
    BY <1>2 DEF ExecuteDraw
  <2>4. QED
    BY <1>2, <2>2, <2>3 DEF ExecuteDraw, MainTodo, EmuRecords
<1>3. CASE ExecuteReadKey
  <2>1. /\ emu' = [pc |-> "readKey", accesses |-> emu.accesses + 1, todo |-> <<>>]
        /\ theRunFlag' = theRunFlag /\ emu.accesses + 1 \in 0 .. MaxAccesses
    BY <1>0, <1>3 DEF ExecuteReadKey, Access
  <2>2. emu' \in EmuRecords /\ EmuTodo'
    BY <1>0, <2>1, EmuMoves
  <2>3. QED
    BY <1>3, <2>2 DEF ExecuteReadKey, MainTodo, EmuRecords
<1>4. CASE EndInstruction
  <2>1. emu' = [pc |-> "loop", accesses |-> 0, todo |-> <<>>] /\ theRunFlag' = theRunFlag
    BY <1>0, <1>4 DEF EndInstruction
  <2>2. emu' \in EmuRecords /\ EmuTodo'
    BY <1>0, <2>1, EmuMoves
  <2>3. QED
    BY <1>4, <2>2 DEF EndInstruction, MainTodo, EmuRecords
<1>5. CASE ExecuteHalt
  <2>1. /\ emu' = [pc |-> "push", accesses |-> emu.accesses + 1, todo |-> <<Cmd("HALT_EMULATION")>>]
        /\ theRunFlag' = FALSE /\ emu.accesses + 1 \in 0 .. MaxAccesses
    BY <1>0, <1>5 DEF ExecuteHalt, Access
  <2>2. emu' \in EmuRecords /\ EmuTodo'
    BY <1>0, <2>1, EmuMoves
  <2>3. QED
    BY <1>5, <2>1, <2>2 DEF ExecuteHalt, MainTodo, EmuRecords
<1>6. CASE Push
  <2>1. emu' = [pc |-> "execute", accesses |-> emu.accesses, todo |-> <<>>] /\ theRunFlag' = theRunFlag
    BY <1>0, <1>6 DEF Push
  <2>2. emu' \in EmuRecords /\ EmuTodo'
    BY <1>0, <2>1, EmuMoves
  <2>3. Head(emu.todo) \in Commands
    BY <1>6 DEF Push, EmuTodo
  <2>4. cmdQ' \in Seq(Commands) /\ Len(cmdQ') <= CmdCapacity
    BY <1>6, <2>3, ConstantsAssumption DEF Push, HasRoom
  <2>5. overtaken' \subseteq Pixels
    BY <1>6, <2>3, CommandKinds DEF Push
  <2>6. QED
    BY <1>6, <2>2, <2>4, <2>5 DEF Push, MainTodo, EmuRecords
<1>7. CASE ReadEvent
  <2> USE <1>7 DEF ReadEvent
  <2>1. /\ Head(evQ) \in KeyEvents
        /\ Tail(evQ) \in Seq(KeyEvents) /\ Len(Tail(evQ)) = Len(evQ) - 1
    BY HeadTailProperties
  <2>2. theCurrentKeyPressed' \in Keys \union {NoKey}
    BY <2>1 DEF KeyAfter, KeyEvents
  <2>3. MainTodo' /\ EmuTodo'
    BY DEF MainTodo, EmuTodo
  <2>4. QED
    BY <2>1, <2>2, <2>3, ConstantsAssumption
<1>8. CASE NoMoreEvents
  <2>1. emu' = [pc |-> "execute", accesses |-> emu.accesses, todo |-> <<>>] /\ theRunFlag' = theRunFlag
    BY <1>0, <1>8 DEF NoMoreEvents
  <2>2. emu' \in EmuRecords /\ EmuTodo'
    BY <1>0, <2>1, EmuMoves
  <2>3. QED
    BY <1>8, <2>2 DEF NoMoreEvents, MainTodo, EmuRecords
<1>9. CASE HaltCallback
  <2>1. /\ emu' = [pc |-> "exited", accesses |-> emu.accesses, todo |-> <<>>]
        /\ theRunFlag' = theRunFlag /\ ~theRunFlag
    BY <1>0, <1>9 DEF HaltCallback
  <2>2. emu' \in EmuRecords /\ EmuTodo'
    BY <1>0, <2>1, EmuMoves
  <2>3. Head(emu.todo) \in Commands
    BY <1>9 DEF HaltCallback, EmuTodo
  <2>4. cmdQ' \in Seq(Commands) /\ Len(cmdQ') <= CmdCapacity
    BY <1>9, <2>3, ConstantsAssumption DEF HaltCallback, HasRoom
  <2>5. haltOvertaken' \in BOOLEAN
    BY <1>9 DEF HaltCallback
  <2>6. QED
    BY <1>9, <2>2, <2>4, <2>5 DEF HaltCallback, MainTodo, EmuRecords
<1>10. QED
  BY <1>1, <1>2, <1>3, <1>4, <1>5, <1>6, <1>7, <1>8, <1>9 DEF EmuStep

LEMMA UserKeepsTypes ==
  ASSUME TypeInv, User
  PROVE  TypeInv'
<1> USE DEF TypeInv, TypeOK, displayVars, deviceVars, userVars, history
<1>1. CASE Close
  BY <1>1 DEF Close, MainTodo, EmuTodo
<1>2. ASSUME NEW key \in Keys, PressOrRelease(key)
      PROVE  TypeInv'
  <2>1. \A type \in {"KEYUP", "KEYDOWN"} : KeyEvent(type, key) \in KeyEvents
    BY DEF KeyEvent, KeyEvents
  <2>2. MainTodo' /\ EmuTodo'
    BY <1>2 DEF PressOrRelease, MainTodo, EmuTodo
  <2>3. sdlEvents' \in Seq(KeyEvents \union {Quit})
    <3>1. \A type \in {"KEYUP", "KEYDOWN"} :
            Append(sdlEvents, KeyEvent(type, key)) \in Seq(KeyEvents \union {Quit})
      BY <2>1, AppendProperties
    <3>2. QED
      BY <1>2, <3>1 DEF PressOrRelease
  <2>4. keyEvents' \in 0 .. MaxKeyEvents
    BY <1>2, ConstantsAssumption DEF PressOrRelease
  <2>5. QED
    BY <1>2, <2>2, <2>3, <2>4 DEF PressOrRelease
<1>3. QED
  BY <1>1, <1>2 DEF User

LEMMA StutterKeepsTypes ==
  ASSUME TypeInv, UNCHANGED vars
  PROVE  TypeInv'
BY DEF TypeInv, TypeOK, MainTodo, EmuTodo, vars, displayVars, deviceVars, userVars, history

\* The threads are what they claim to be; the two queues stay within their capacities.
THEOREM TypeCorrect == Spec => []TypeOK
<1>1. Init => TypeInv
  BY InitTypeInv
<1>2. TypeInv /\ [Next]_vars => TypeInv'
  BY MainKeepsTypes, EmuKeepsTypes, UserKeepsTypes, StutterKeepsTypes DEF Next
<1>3. TypeInv => TypeOK
  BY DEF TypeInv
<1>4. QED
  BY <1>1, <1>2, <1>3, PTL DEF Spec

-----------------------------------------------------------------------------
(* The halt.                                                               *)

\* While the start-up commands are being sent the display thread handles none, so those
\* that are sent are in the queue, among the program's.
StartupInv ==
  main.pc = "startup" =>
    /\ runFlag /\ ~window
    /\ evQ = <<>> /\ held = {} /\ theCurrentKeyPressed = NoKey
    /\ \A i \in DOMAIN sdlEvents : sdlEvents[i] = Quit
    /\ LET all == StartupCommands(device)
           sent == Len(all) - Len(main.todo)
       IN /\ sent \in Nat
          /\ \A k \in 1 .. Len(main.todo) : main.todo[k] = all[sent + k]
          /\ \A k \in 1 .. sent : \E i \in DOMAIN cmdQ : cmdQ[i] = all[k]

\* A halt that is under way, or has been seen, means that the program has been stopped; an
\* emulation thread that is gone while there are start-up commands to send is overtaken.
HaltInv ==
  /\ ~runFlag => ~theRunFlag
  /\ \A i \in DOMAIN cmdQ : cmdQ[i].id = "HALT_EMULATION" => ~theRunFlag
  /\ emu.pc = "exited" /\ main.pc = "startup" /\ main.todo # <<>> => haltOvertaken
  /\ HaltIsFinal
  /\ ClosedMeansHalted

LEMMA StartupCommandsAre ==
  ASSUME NEW hasDevice \in BOOLEAN
  PROVE  /\ StartupCommands(hasDevice) \in Seq(Commands)
         /\ \A k \in DOMAIN StartupCommands(hasDevice) :
              StartupCommands(hasDevice)[k].id # "HALT_EMULATION"
<1>1. StartupCommands(hasDevice) \in Seq(Commands)
  BY CommandsAre DEF StartupCommands, StartupIds
<1>2. \A k \in DOMAIN StartupCommands(hasDevice) :
        StartupCommands(hasDevice)[k].id # "HALT_EMULATION"
  BY DEF StartupCommands, Cmd, Subscribe
<1>3. QED
  BY <1>1, <1>2

LEMMA InitHaltInv == Init => StartupInv /\ HaltInv
<1> SUFFICES ASSUME Init PROVE StartupInv /\ HaltInv
  OBVIOUS
<1>1. /\ \A i \in DOMAIN cmdQ : cmdQ[i].id # "HALT_EMULATION"
      /\ device \in BOOLEAN /\ main.todo = StartupCommands(device)
  BY InitTypeInv DEF Init, Cmd, TypeInv, TypeOK
<1>2. Len(StartupCommands(device)) \in Nat
  BY <1>1, StartupCommandsAre, LenProperties
<1>3. StartupInv
  BY <1>1, <1>2 DEF Init, StartupInv
<1>4. QED
  BY <1>1, <1>3 DEF Init, HaltInv, HaltIsFinal, ClosedMeansHalted

LEMMA MainKeepsStartup ==
  ASSUME TypeInv, StartupInv, MainStep
  PROVE  StartupInv'
<1> USE DEF displayVars, deviceVars, userVars, history
<1>1. CASE SendStartupCommand
  <2> USE <1>1 DEF SendStartupCommand
  <2> DEFINE all == StartupCommands(device)
             sent == Len(all) - Len(main.todo)
  <2>1. /\ main.pc = "startup" /\ main'.pc = "startup" /\ main'.todo = Tail(main.todo)
        /\ device \in BOOLEAN
    BY DEF TypeInv, TypeOK
  <2>2. /\ main.todo \in Seq(Commands) /\ main.todo # <<>> /\ cmdQ \in Seq(Commands)
        /\ Head(main.todo) = main.todo[1] /\ Head(main.todo) \in Commands
        /\ Len(Tail(main.todo)) = Len(main.todo) - 1
        /\ Len(main.todo) \in Nat /\ Len(main.todo) > 0
        /\ \A k \in 1 .. Len(main.todo) - 1 : Tail(main.todo)[k] = main.todo[k + 1]
    BY <2>1, HeadTailProperties, LenProperties, EmptySeq DEF TypeInv, TypeOK, MainTodo
  <2>3. /\ Len(cmdQ) \in Nat /\ DOMAIN cmdQ = 1 .. Len(cmdQ) /\ DOMAIN cmdQ' = 1 .. Len(cmdQ) + 1
        /\ \A i \in 1 .. Len(cmdQ) : cmdQ'[i] = cmdQ[i]
        /\ cmdQ'[Len(cmdQ) + 1] = main.todo[1]
    BY <2>2, AppendProperties, LenProperties
  <2>4. PICK n : n = sent
    OBVIOUS
  <2>5. PICK commands : commands = all
    OBVIOUS
  <2>6. PICK m : m = Len(main.todo)
    OBVIOUS
  <2>7. /\ n \in Nat /\ Len(commands) \in Nat /\ m \in Nat /\ m > 0 /\ n = Len(commands) - m
        /\ \A k \in 1 .. m : main.todo[k] = commands[n + k]
        /\ \A k \in 1 .. n : \E i \in DOMAIN cmdQ : cmdQ[i] = commands[k]
    BY <2>1, <2>2, <2>4, <2>5, <2>6, StartupCommandsAre, LenProperties DEF StartupInv
  <2>8. Len(main'.todo) = m - 1 /\ Len(commands) - (m - 1) = n + 1
    BY <2>1, <2>2, <2>6, <2>7
  <2>9. ASSUME NEW k \in 1 .. m - 1 PROVE main'.todo[k] = commands[(n + 1) + k]
    <3>1. k + 1 \in 1 .. m /\ n + (k + 1) = (n + 1) + k
      BY <2>7
    <3>2. QED
      <4>1. k \in 1 .. Len(main.todo) - 1 /\ main'.todo[k] = main.todo[k + 1]
        BY <2>1, <2>2, <2>6
      <4>2. main.todo[k + 1] = commands[n + (k + 1)]
        BY <2>7, <3>1
      <4>3. QED
        BY <3>1, <4>1, <4>2
  <2>10. ASSUME NEW k \in 1 .. n + 1 PROVE \E i \in DOMAIN cmdQ' : cmdQ'[i] = commands[k]
    <3>1. CASE k \in 1 .. n
      BY <2>3, <2>7, <3>1
    <3>2. CASE k = n + 1
      <4>1. 1 \in 1 .. m /\ Len(cmdQ) + 1 \in 1 .. Len(cmdQ) + 1
        BY <2>3, <2>7
      <4>2. main.todo[1] = commands[k]
        BY <2>7, <3>2, <4>1
      <4>3. QED
        BY <2>3, <4>1, <4>2
    <3>3. QED
      BY <2>7, <3>1, <3>2
  <2>11. n + 1 \in Nat /\ StartupCommands(device)' = commands
    BY <2>5, <2>7
  <2>12. UNCHANGED <<runFlag, window, evQ, held, theCurrentKeyPressed, sdlEvents>>
    OBVIOUS
  <2>13. QED
    BY <2>1, <2>8, <2>9, <2>10, <2>11, <2>12 DEF StartupInv
<1>2. CASE ~SendStartupCommand
  <2>1. main'.pc # "startup"
    BY <1>2 DEF MainStep, EnterDisplayLoop, HandleCommand, NoMoreCommands, WaitTimesOut, ReceiveQuit,
                ReceiveKeyEvent, WriteEvent, LoopAgain, JoinEmulationThread, TypeInv, TypeOK
  <2>2. QED
    BY <2>1 DEF StartupInv
<1>3. QED
  BY <1>1, <1>2

\* The emulation thread only puts commands behind the others.
LEMMA EmuAppends ==
  ASSUME TypeInv, EmuStep
  PROVE  \A i \in DOMAIN cmdQ : i \in DOMAIN cmdQ' /\ cmdQ'[i] = cmdQ[i]
<1>1. CASE cmdQ' = cmdQ
  BY <1>1
<1>2. CASE Push \/ HaltCallback
  <2>1. cmdQ \in Seq(Commands) /\ Head(emu.todo) \in Commands /\ cmdQ' = Append(cmdQ, Head(emu.todo))
    BY <1>2 DEF Push, HaltCallback, TypeInv, TypeOK, EmuTodo
  <2>2. QED
    BY <2>1, AppendProperties, LenProperties
<1>3. QED
  BY <1>1, <1>2 DEF EmuStep, Loop, ExecuteDraw, ExecuteReadKey, EndInstruction, ExecuteHalt, ReadEvent,
                    NoMoreEvents

LEMMA EmuKeepsStartup ==
  ASSUME TypeInv, StartupInv, EmuStep
  PROVE  StartupInv'
<1> SUFFICES ASSUME main.pc = "startup" PROVE StartupInv'
  <2>1. main' = main
    BY DEF EmuStep, Loop, ExecuteDraw, ExecuteReadKey, EndInstruction, ExecuteHalt, Push, ReadEvent,
           NoMoreEvents, HaltCallback
  <2>2. QED
    BY <2>1 DEF StartupInv
<1>1. UNCHANGED <<device, main, runFlag, window, evQ, held, theCurrentKeyPressed, sdlEvents>>
  BY DEF EmuStep, Loop, ExecuteDraw, ExecuteReadKey, EndInstruction, ExecuteHalt, Push, ReadEvent,
         NoMoreEvents, HaltCallback, StartupInv, displayVars, deviceVars, userVars
<1>2. PICK all, sent : all = StartupCommands(device) /\ sent = Len(all) - Len(main.todo)
  OBVIOUS
<1>3. /\ runFlag /\ ~window /\ evQ = <<>> /\ held = {} /\ theCurrentKeyPressed = NoKey
      /\ \A i \in DOMAIN sdlEvents : sdlEvents[i] = Quit
      /\ sent \in Nat /\ \A k \in 1 .. Len(main.todo) : main.todo[k] = all[sent + k]
      /\ \A k \in 1 .. sent : \E i \in DOMAIN cmdQ : cmdQ[i] = all[k]
  BY <1>2 DEF StartupInv
<1>4. \A k \in 1 .. sent : \E i \in DOMAIN cmdQ' : cmdQ'[i] = all[k]
  <2> SUFFICES ASSUME NEW k \in 1 .. sent PROVE \E i \in DOMAIN cmdQ' : cmdQ'[i] = all[k]
    OBVIOUS
  <2>1. PICK i \in DOMAIN cmdQ : cmdQ[i] = all[k]
    BY <1>3
  <2>2. i \in DOMAIN cmdQ' /\ cmdQ'[i] = cmdQ[i]
    BY EmuAppends
  <2>3. QED
    BY <2>1, <2>2
<1>5. /\ StartupCommands(device') = all /\ Len(all) - Len(main'.todo) = sent
      /\ \A k \in 1 .. Len(main'.todo) : main'.todo[k] = all[sent + k]
  BY <1>1, <1>2, <1>3
<1>6. /\ runFlag' /\ ~window' /\ evQ' = <<>> /\ held' = {} /\ theCurrentKeyPressed' = NoKey
      /\ \A i \in DOMAIN sdlEvents' : sdlEvents'[i] = Quit
  BY <1>1, <1>3
<1>7. QED
  BY <1>3, <1>4, <1>5, <1>6 DEF StartupInv

LEMMA UserKeepsStartup ==
  ASSUME TypeInv, StartupInv, User
  PROVE  StartupInv'
<1> USE DEF StartupInv, displayVars, deviceVars, userVars, history
<1>1. CASE Close
  <2>1. \A i \in DOMAIN sdlEvents' :
          sdlEvents'[i] = Quit \/ (i \in DOMAIN sdlEvents /\ sdlEvents'[i] = sdlEvents[i])
    <3>1. sdlEvents \in Seq(KeyEvents \union {Quit}) /\ sdlEvents' = Append(sdlEvents, Quit)
      BY <1>1 DEF Close, TypeInv, TypeOK
    <3>2. Quit \in KeyEvents \union {Quit}
      OBVIOUS
    <3>3. /\ DOMAIN sdlEvents = 1 .. Len(sdlEvents) /\ Len(sdlEvents) \in Nat
          /\ DOMAIN sdlEvents' = 1 .. Len(sdlEvents) + 1
          /\ \A i \in 1 .. Len(sdlEvents) : sdlEvents'[i] = sdlEvents[i]
          /\ sdlEvents'[Len(sdlEvents) + 1] = Quit
      BY <3>1, <3>2, AppendProperties, LenProperties
    <3>4. QED
      BY <3>3
  <2>2. QED
    BY <1>1, <2>1 DEF Close
<1>2. ASSUME NEW key \in Keys, PressOrRelease(key)
      PROVE  StartupInv'
  BY <1>2 DEF PressOrRelease
<1>3. QED
  BY <1>1, <1>2 DEF User

LEMMA MainKeepsHalt ==
  ASSUME TypeInv, StartupInv, HaltInv, MainStep
  PROVE  HaltInv'
<1> USE DEF HaltInv, HaltIsFinal, ClosedMeansHalted, displayVars, deviceVars, userVars, history
<1>1. CASE SendStartupCommand
  <2> USE <1>1 DEF SendStartupCommand
  <2>1. /\ main.pc = "startup" /\ main'.pc = "startup" /\ main.todo # <<>> /\ device \in BOOLEAN
        /\ cmdQ \in Seq(Commands) /\ Head(main.todo) \in Commands
    BY DEF TypeInv, TypeOK, MainTodo
  <2>2. Head(main.todo).id # "HALT_EMULATION"
    <3> DEFINE all == StartupCommands(device)
               sent == Len(all) - Len(main.todo)
    <3>1. /\ main.todo \in Seq(Commands) /\ Len(main.todo) \in Nat /\ Len(main.todo) > 0
          /\ Head(main.todo) = main.todo[1]
      BY <2>1, HeadTailProperties, LenProperties, EmptySeq DEF TypeInv, MainTodo
    <3>2. all \in Seq(Commands) /\ Len(all) \in Nat /\ DOMAIN all = 1 .. Len(all)
          /\ \A k \in DOMAIN all : all[k].id # "HALT_EMULATION"
      BY <2>1, StartupCommandsAre, LenProperties
    <3>3. sent \in Nat /\ \A k \in 1 .. Len(main.todo) : main.todo[k] = all[sent + k]
      BY <2>1 DEF StartupInv
    <3> HIDE DEF all
    <3>4. 1 \in 1 .. Len(main.todo) /\ sent + 1 \in DOMAIN all
      BY <3>1, <3>2, <3>3
    <3>5. QED
      BY <3>1, <3>2, <3>3, <3>4
  <2>3. \A i \in DOMAIN cmdQ' :
          cmdQ'[i].id = "HALT_EMULATION" => i \in DOMAIN cmdQ /\ cmdQ'[i] = cmdQ[i]
    BY <2>1, <2>2
  <2>4. QED
    BY <2>1, <2>3
<1>2. CASE HandleCommand
  <2> USE <1>2 DEF HandleCommand
  <2>1. /\ cmdQ \in Seq(Commands) /\ cmdQ # <<>> /\ cmdQ[1] = Head(cmdQ) /\ cmdQ' = Tail(cmdQ)
        /\ Len(cmdQ) \in Nat /\ Len(cmdQ) > 0 /\ cmdQ' \in Seq(Commands)
        /\ Len(cmdQ') = Len(cmdQ) - 1 /\ DOMAIN cmdQ = 1 .. Len(cmdQ) /\ DOMAIN cmdQ' = 1 .. Len(cmdQ')
        /\ \A i \in 1 .. Len(cmdQ') : cmdQ'[i] = cmdQ[i + 1] /\ i + 1 \in 1 .. Len(cmdQ)
    BY HeadTailProperties, LenProperties, EmptySeq DEF TypeInv, TypeOK
  <2>2. runFlag' = (cmdQ[1].id # "HALT_EMULATION") /\ UNCHANGED <<main, emu, theRunFlag, haltOvertaken>>
    BY <2>1 DEF KeepRunning
  <2>3. 1 \in DOMAIN cmdQ /\ (~runFlag' => ~theRunFlag')
    <3>1. 1 \in 1 .. Len(cmdQ)
      BY <2>1
    <3>2. ASSUME ~runFlag' PROVE ~theRunFlag'
      <4>1. cmdQ[1].id = "HALT_EMULATION"
        BY <2>2, <3>2
      <4>2. ~theRunFlag
        BY <2>1, <3>1, <4>1 DEF HaltInv
      <4>3. QED
        BY <2>2, <4>2
    <3>3. QED
      BY <2>1, <3>1, <3>2
  <2>4. \A i \in DOMAIN cmdQ' : cmdQ'[i].id = "HALT_EMULATION" => ~theRunFlag'
    BY <2>1, <2>2
  <2>5. ASSUME emu.pc = "exited", ~haltOvertaken
        PROVE  IF cmdQ' = <<>> THEN ~runFlag' ELSE cmdQ'[Len(cmdQ')].id = "HALT_EMULATION"
    <3>1. cmdQ[Len(cmdQ)].id = "HALT_EMULATION"
      BY <2>1, <2>5
    <3>2. CASE cmdQ' = <<>>
      <4>1. Len(cmdQ) = 1
        <5>1. PICK n : n = Len(cmdQ')
          OBVIOUS
        <5>2. n = 0
          BY <2>1, <3>2, <5>1, EmptySeq
        <5>3. QED
          BY <2>1, <5>1, <5>2
      <4>2. QED
        BY <2>2, <3>1, <3>2, <4>1
    <3>3. CASE cmdQ' # <<>>
      <4>1. Len(cmdQ') \in 1 .. Len(cmdQ') /\ Len(cmdQ') + 1 = Len(cmdQ)
        BY <2>1, <3>3, EmptySeq
      <4>2. QED
        BY <2>1, <3>1, <3>3, <4>1
    <3>4. QED
      BY <3>2, <3>3
  <2>6. QED
    BY <2>2, <2>3, <2>4, <2>5
<1>3. CASE ReceiveQuit
  BY <1>3 DEF ReceiveQuit, TypeInv, TypeOK
<1>4. CASE EnterDisplayLoop \/ NoMoreCommands \/ WaitTimesOut \/ ReceiveKeyEvent \/ WriteEvent
           \/ JoinEmulationThread
  BY <1>4 DEF EnterDisplayLoop, NoMoreCommands, WaitTimesOut, ReceiveKeyEvent, WriteEvent, LoopAgain,
              JoinEmulationThread, TypeInv, TypeOK
<1>5. QED
  BY <1>1, <1>2, <1>3, <1>4 DEF MainStep

\* A command that the emulation thread puts behind the others, and that is a halt when the
\* thread ends.
LEMMA PushKeepsHalt ==
  ASSUME TypeInv, HaltInv, emu.pc \in {"push", "callback"},
         cmdQ' = Append(cmdQ, Head(emu.todo)), UNCHANGED <<main, runFlag, theRunFlag>>,
         \/ emu'.pc = "execute"
         \/ /\ emu.pc = "callback" /\ emu'.pc = "exited"
            /\ haltOvertaken' = (main.pc = "startup" /\ main.todo # <<>>)
  PROVE  HaltInv'
<1> DEFINE cmd == Head(emu.todo)
<1>1. /\ cmdQ \in Seq(Commands) /\ cmd \in Commands /\ cmd = emu.todo[1]
      /\ cmd.id = "HALT_EMULATION" => ~theRunFlag
      /\ emu.pc = "callback" => cmd.id = "HALT_EMULATION"
  <2>1. /\ cmdQ \in Seq(Commands) /\ emu.todo \in Seq(Commands) /\ Len(emu.todo) = 1
        /\ \/ emu.todo[1] = Cmd("HALT_EMULATION") /\ ~theRunFlag
           \/ /\ emu.pc # "callback"
              /\ \E p \in Pixels, c \in Colors : emu.todo[1] = DrawPixel(p, c)
    BY DEF TypeInv, TypeOK, EmuTodo
  <2>2. cmd \in Commands /\ cmd = emu.todo[1]
    BY <2>1
  <2>3. CASE emu.todo[1] = Cmd("HALT_EMULATION") /\ ~theRunFlag
    BY <2>1, <2>2, <2>3 DEF Cmd
  <2>4. CASE emu.pc # "callback" /\ \E p \in Pixels, c \in Colors : emu.todo[1] = DrawPixel(p, c)
    BY <2>1, <2>2, <2>4 DEF DrawPixel
  <2>5. QED
    BY <2>1, <2>3, <2>4
<1>2. /\ Len(cmdQ') = Len(cmdQ) + 1 /\ DOMAIN cmdQ = 1 .. Len(cmdQ) /\ DOMAIN cmdQ' = 1 .. Len(cmdQ')
      /\ \A i \in 1 .. Len(cmdQ) : cmdQ'[i] = cmdQ[i]
      /\ cmdQ'[Len(cmdQ')] = cmd
  BY <1>1
<1>3. \A i \in DOMAIN cmdQ' : cmdQ'[i].id = "HALT_EMULATION" => ~theRunFlag'
  BY <1>1, <1>2 DEF HaltInv
<1>4. emu'.pc = "exited" => cmdQ' # <<>> /\ cmdQ'[Len(cmdQ')].id = "HALT_EMULATION"
  BY <1>1, <1>2
<1>5. QED
  BY <1>3, <1>4 DEF HaltInv, HaltIsFinal, ClosedMeansHalted

LEMMA EmuKeepsHalt ==
  ASSUME TypeInv, HaltInv, EmuStep
  PROVE  HaltInv'
<1> USE DEF displayVars, deviceVars, userVars, history
<1>0. emu \in EmuRecords
  BY DEF TypeInv, TypeOK, EmuRecords
<1>1. CASE Push
  BY <1>0, <1>1, PushKeepsHalt DEF Push, EmuRecords
<1>2. CASE HaltCallback
  BY <1>0, <1>2, PushKeepsHalt DEF HaltCallback, EmuRecords
<1>3. CASE \/ Loop \/ \E p \in Pixels, c \in Colors : ExecuteDraw(p, c)
           \/ ExecuteReadKey \/ EndInstruction \/ ExecuteHalt \/ ReadEvent \/ NoMoreEvents
  <2>1. UNCHANGED <<cmdQ, runFlag, main>> /\ (~theRunFlag => ~theRunFlag')
    <3>1. CASE ExecuteHalt
      BY <3>1 DEF ExecuteHalt
    <3>2. CASE ~ExecuteHalt
      <4>1. UNCHANGED <<cmdQ, runFlag, main, theRunFlag>>
        BY <1>3, <3>2 DEF Loop, ExecuteDraw, ExecuteReadKey, EndInstruction, ReadEvent, NoMoreEvents
      <4>2. QED
        BY <4>1
    <3>3. QED
      BY <3>1, <3>2
  <2>2. emu'.pc # "exited"
    <3>1. CASE (\E p \in Pixels, c \in Colors : ExecuteDraw(p, c)) \/ ExecuteReadKey \/ ExecuteHalt
      BY <3>1 DEF ExecuteDraw, ExecuteReadKey, ExecuteHalt, Access
    <3>2. CASE Loop \/ EndInstruction \/ ReadEvent \/ NoMoreEvents
      BY <1>0, <3>2 DEF Loop, EndInstruction, ReadEvent, NoMoreEvents, EmuRecords
    <3>3. QED
      BY <1>3, <3>1, <3>2
  <2>3. QED
    BY <2>1, <2>2 DEF HaltInv, HaltIsFinal, ClosedMeansHalted
<1>4. QED
  BY <1>1, <1>2, <1>3 DEF EmuStep

LEMMA HaltInvCorrect == Spec => [](TypeInv /\ StartupInv /\ HaltInv)
<1> DEFINE Inv == TypeInv /\ StartupInv /\ HaltInv
<1>1. Init => Inv
  BY InitTypeInv, InitHaltInv
<1>2. Inv /\ [Next]_vars => Inv'
  <2> SUFFICES ASSUME Inv, [Next]_vars PROVE Inv'
    OBVIOUS
  <2>1. CASE MainStep
    BY <2>1, MainKeepsTypes, MainKeepsStartup, MainKeepsHalt
  <2>2. CASE EmuStep
    BY <2>2, EmuKeepsTypes, EmuKeepsStartup, EmuKeepsHalt
  <2>3. CASE User
    <3>1. UNCHANGED <<main, emu, theRunFlag, cmdQ, runFlag, haltOvertaken>>
      BY <2>3 DEF User, Close, PressOrRelease, displayVars, history
    <3>2. HaltInv'
      BY <3>1 DEF HaltInv, HaltIsFinal, ClosedMeansHalted
    <3>3. QED
      BY <2>3, <3>2, UserKeepsTypes, UserKeepsStartup
  <2>4. CASE UNCHANGED vars
    <3>1. StartupInv' /\ HaltInv'
      BY <2>4 DEF vars, displayVars, deviceVars, userVars, history, StartupInv, HaltInv, HaltIsFinal,
                  ClosedMeansHalted
    <3>2. QED
      BY <2>4, <3>1, StutterKeepsTypes
  <2>5. QED
    BY <2>1, <2>2, <2>3, <2>4 DEF Next
<1>3. QED
  BY <1>1, <1>2, PTL DEF Spec

\* The display loop obeys the last command of a drain: whatever an instruction sends
\* behind its halts, the emulation thread's last command is a halt, and none follows it but
\* those of a start-up that has not ended.
THEOREM HaltIsFinalCorrect == Spec => []HaltIsFinal
<1>1. HaltInv => HaltIsFinal
  BY DEF HaltInv
<1>2. QED
  BY <1>1, HaltInvCorrect, PTL

\* The display loop is left only when the emulator has stopped or is told to.
THEOREM ClosedMeansHaltedCorrect == Spec => []ClosedMeansHalted
<1>1. HaltInv => ClosedMeansHalted
  BY DEF HaltInv
<1>2. QED
  BY <1>1, HaltInvCorrect, PTL

-----------------------------------------------------------------------------
(* The screen.                                                             *)

\* WillShow for a given renderer and screen.
Touches(cmd, p) == cmd.id = "CLEAR_SCREEN" \/ (cmd.id = "DRAW_PIXEL" /\ cmd.pixel = p)
PaintsOn(win, commands, i, p) ==
  /\ Touches(commands[i], p)
  /\ win \/ \E j \in 1 .. i - 1 : commands[j].id = "SET_RESOLUTION"
Shows(win, scr, commands, p, color) ==
  \/ /\ \A i \in DOMAIN commands : ~PaintsOn(win, commands, i, p)
     /\ scr[p] = color
  \/ \E i \in DOMAIN commands :
       /\ PaintsOn(win, commands, i, p)
       /\ \A j \in i + 1 .. Len(commands) : ~PaintsOn(win, commands, j, p)
       /\ Paint(commands[i]) = color

\* The pixel of a blocked writeMessage, and what a pixel is to show in the end.
Awaited(p) == emu.pc = "push" /\ Touches(emu.todo[1], p)
Target(p) == IF p \in overtaken THEN 0 ELSE theDisplayFrame[p]

\* Before the CLEAR_SCREEN of the start-up is sent every pixel that is not black has been
\* overtaken or is about to be sent.  From then on there is a renderer, or will be, and the
\* commands under way lead to the target.
ScreenInv ==
  device =>
    /\ \A p \in Pixels : Awaited(p) => p \notin overtaken /\ theDisplayFrame[p] = Paint(emu.todo[1])
    /\ ClearToSend => \A p \in Pixels : p \in overtaken \/ Awaited(p) \/ theDisplayFrame[p] = 0
    /\ ~ClearToSend =>
         /\ window \/ \E i \in DOMAIN cmdQ : cmdQ[i].id = "SET_RESOLUTION"
         /\ \A p \in Pixels : Shows(window, screen, UnderWay, p, Target(p))

\* The commands under way are those in the queue and perhaps one more.
LEMMA UnderWayIs ==
  ASSUME TypeInv
  PROVE  /\ emu.pc # "push" => UnderWay = cmdQ
         /\ emu.pc = "push" =>
              /\ UnderWay = Append(cmdQ, emu.todo[1])
              /\ emu.todo[1] \in Commands /\ Head(emu.todo) = emu.todo[1]
              /\ emu.todo[1].id \in {"HALT_EMULATION", "DRAW_PIXEL"}
<1>1. CASE emu.pc # "push"
  BY <1>1 DEF UnderWay
<1>2. CASE emu.pc = "push"
  <2>1. /\ cmdQ \in Seq(Commands) /\ emu.todo \in Seq(Commands) /\ Len(emu.todo) = 1
        /\ \/ emu.todo[1] = Cmd("HALT_EMULATION")
           \/ \E p \in Pixels, c \in Colors : emu.todo[1] = DrawPixel(p, c)
    BY <1>2 DEF TypeInv, TypeOK, EmuTodo
  <2>2. PICK cmd : cmd = emu.todo[1]
    OBVIOUS
  <2>3. cmd \in Commands /\ Head(emu.todo) = cmd /\ emu.todo = <<cmd>>
    BY <2>1, <2>2
  <2>4. UnderWay = Append(cmdQ, cmd)
    BY <1>2, <2>1, <2>3, AppendIsConcat DEF UnderWay
  <2>5. CASE emu.todo[1] = Cmd("HALT_EMULATION")
    <3>1. emu.todo[1].id = "HALT_EMULATION"
      BY <2>5 DEF Cmd
    <3>2. QED
      BY <1>2, <2>2, <2>3, <2>4, <3>1
  <2>6. CASE \E p \in Pixels, c \in Colors : emu.todo[1] = DrawPixel(p, c)
    <3>1. emu.todo[1].id = "DRAW_PIXEL"
      BY <2>6 DEF DrawPixel
    <3>2. QED
      BY <1>2, <2>2, <2>3, <2>4, <3>1
  <2>7. QED
    BY <2>1, <2>5, <2>6
<1>3. QED
  BY <1>1, <1>2

\* handleDisplayQueueCommand of the first command does to renderer and screen what Shows
\* says of it.
LEMMA HandledShows ==
  ASSUME NEW U \in Seq(Commands), U # <<>>, NEW p \in Pixels, NEW color,
         NEW win \in BOOLEAN, NEW scr \in [Pixels -> Colors \union {Unset}],
         Shows(win, scr, U, p, color)
  PROVE  Shows(win \/ U[1].id = "SET_RESOLUTION", IF win THEN Drawn(U[1], scr) ELSE scr, Tail(U), p, color)
<1> DEFINE n == Len(U)
<1>1. PICK V : V = Tail(U)
  OBVIOUS
<1>2. PICK next \in BOOLEAN : next = (win \/ U[1].id = "SET_RESOLUTION")
  OBVIOUS
<1>3. PICK after : after = IF win THEN Drawn(U[1], scr) ELSE scr
  OBVIOUS
<1>4. /\ n \in Nat /\ n > 0 /\ DOMAIN U = 1 .. n /\ 1 \in DOMAIN U
      /\ V \in Seq(Commands) /\ Len(V) = n - 1 /\ DOMAIN V = 1 .. n - 1
      /\ \A i \in 1 .. n - 1 : V[i] = U[i + 1]
  BY <1>1, HeadTailProperties, LenProperties, EmptySeq
<1>5. \A i \in 1 .. n - 1 : PaintsOn(next, V, i, p) <=> PaintsOn(win, U, i + 1, p)
  <2> SUFFICES ASSUME NEW i \in 1 .. n - 1 PROVE PaintsOn(next, V, i, p) <=> PaintsOn(win, U, i + 1, p)
    OBVIOUS
  <2>1. V[i] = U[i + 1]
    BY <1>4
  <2>2. (next \/ \E j \in 1 .. i - 1 : V[j].id = "SET_RESOLUTION")
          <=> (win \/ \E j \in 1 .. i + 1 - 1 : U[j].id = "SET_RESOLUTION")
    <3>1. ASSUME NEW j \in 1 .. i - 1, V[j].id = "SET_RESOLUTION"
          PROVE  \E k \in 1 .. i + 1 - 1 : U[k].id = "SET_RESOLUTION"
      BY <1>4, <3>1
    <3>2. ASSUME NEW k \in 1 .. i + 1 - 1, U[k].id = "SET_RESOLUTION", k # 1
          PROVE  \E j \in 1 .. i - 1 : V[j].id = "SET_RESOLUTION"
      <4>1. k - 1 \in 1 .. i - 1 /\ V[k - 1] = U[k]
        BY <1>4, <3>2
      <4>2. QED
        BY <3>2, <4>1
    <3>3. 1 \in 1 .. i + 1 - 1
      BY <1>4
    <3>4. QED
      BY <1>2, <3>1, <3>2, <3>3
  <2>3. QED
    BY <2>1, <2>2 DEF PaintsOn
<1>6. after[p] = IF PaintsOn(win, U, 1, p) THEN Paint(U[1]) ELSE scr[p]
  <2>1. PaintsOn(win, U, 1, p) <=> win /\ Touches(U[1], p)
    BY DEF PaintsOn
  <2>2. QED
    BY <1>3, <2>1 DEF Drawn, Black, Paint, Touches
<1>7. CASE /\ \A i \in DOMAIN U : ~PaintsOn(win, U, i, p)
           /\ scr[p] = color
  <2>1. ASSUME NEW i \in DOMAIN V PROVE ~PaintsOn(next, V, i, p)
    <3>1. i \in 1 .. n - 1 /\ i + 1 \in DOMAIN U
      BY <1>4
    <3>2. QED
      BY <1>5, <1>7, <3>1
  <2>2. after[p] = color
    BY <1>4, <1>6, <1>7
  <2>3. QED
    BY <1>1, <1>2, <1>3, <2>1, <2>2 DEF Shows
<1>8. ASSUME NEW i \in DOMAIN U, PaintsOn(win, U, i, p), \A j \in i + 1 .. n : ~PaintsOn(win, U, j, p),
             Paint(U[i]) = color
      PROVE  Shows(next, after, V, p, color)
  <2>1. CASE i = 1
    <3>1. \A j \in DOMAIN V : ~PaintsOn(next, V, j, p)
      BY <1>4, <1>5, <1>8, <2>1
    <3>2. after[p] = color
      BY <1>6, <1>8, <2>1
    <3>3. QED
      BY <3>1, <3>2 DEF Shows
  <2>2. CASE i # 1
    <3>1. PICK k : k = i - 1
      OBVIOUS
    <3>2. k \in DOMAIN V /\ k \in 1 .. n - 1 /\ V[k] = U[i] /\ k + 1 = i
      BY <1>4, <1>8, <2>2, <3>1
    <3>3. PaintsOn(next, V, k, p)
      BY <1>5, <1>8, <3>2
    <3>4. ASSUME NEW j \in k + 1 .. Len(V) PROVE ~PaintsOn(next, V, j, p)
      <4>1. j \in 1 .. n - 1 /\ j + 1 \in i + 1 .. n
        BY <1>4, <3>2
      <4>2. QED
        BY <1>5, <1>8, <4>1
    <3>5. QED
      BY <1>8, <3>2, <3>3, <3>4 DEF Shows
  <2>3. QED
    BY <2>1, <2>2
<1>9. QED
  BY <1>1, <1>2, <1>3, <1>7, <1>8 DEF Shows

\* A command behind the others decides what its pixels show, if there is a renderer then.
LEMMA AppendedShows ==
  ASSUME NEW U \in Seq(Commands), NEW cmd \in Commands, NEW win, NEW scr, NEW p, NEW color,
         win \/ \E i \in DOMAIN U : U[i].id = "SET_RESOLUTION"
  PROVE  Shows(win, scr, Append(U, cmd), p, color)
           <=> IF Touches(cmd, p) THEN Paint(cmd) = color ELSE Shows(win, scr, U, p, color)
<1>0. PICK n, last, V : n = Len(U) /\ last = n + 1 /\ V = Append(U, cmd)
  OBVIOUS
<1>1. /\ n \in Nat /\ DOMAIN U = 1 .. n /\ DOMAIN V = 1 .. last /\ Len(V) = last /\ last = n + 1
      /\ V[last] = cmd /\ (\A i \in 1 .. n : V[i] = U[i]) /\ last \in Nat /\ Len(U) = n
  BY <1>0, AppendProperties, LenProperties
<1>2. \A i \in 1 .. n : PaintsOn(win, V, i, p) <=> PaintsOn(win, U, i, p)
  <2> SUFFICES ASSUME NEW i \in 1 .. n PROVE PaintsOn(win, V, i, p) <=> PaintsOn(win, U, i, p)
    OBVIOUS
  <2>1. V[i] = U[i] /\ \A j \in 1 .. i - 1 : V[j] = U[j]
    BY <1>1
  <2>2. QED
    BY <2>1 DEF PaintsOn
<1>3. PaintsOn(win, V, last, p) <=> Touches(cmd, p)
  <2>1. win \/ \E j \in 1 .. last - 1 : V[j].id = "SET_RESOLUTION"
    BY <1>1
  <2>2. QED
    BY <1>1, <2>1 DEF PaintsOn
<1>4. CASE Touches(cmd, p)
  <2>1. ASSUME Shows(win, scr, V, p, color) PROVE Paint(cmd) = color
    <3>1. PICK i \in DOMAIN V : /\ \A j \in i + 1 .. Len(V) : ~PaintsOn(win, V, j, p)
                                /\ Paint(V[i]) = color
      BY <1>1, <1>3, <1>4, <2>1 DEF Shows
    <3>2. i = last
      BY <1>1, <1>3, <1>4, <3>1
    <3>3. QED
      BY <1>1, <3>1, <3>2
  <2>2. ASSUME Paint(cmd) = color PROVE Shows(win, scr, V, p, color)
    <3>1. last \in DOMAIN V /\ \A j \in last + 1 .. Len(V) : ~PaintsOn(win, V, j, p)
      BY <1>1
    <3>2. QED
      BY <1>1, <1>3, <1>4, <2>2, <3>1 DEF Shows
  <2>3. QED
    BY <1>0, <1>4, <2>1, <2>2
<1>5. CASE ~Touches(cmd, p)
  <2>1. (\A i \in DOMAIN V : ~PaintsOn(win, V, i, p)) <=> (\A i \in DOMAIN U : ~PaintsOn(win, U, i, p))
    BY <1>1, <1>2, <1>3, <1>5
  <2>2. ASSUME NEW i \in DOMAIN V, PaintsOn(win, V, i, p)
        PROVE  i \in DOMAIN U /\ PaintsOn(win, U, i, p) /\ V[i] = U[i]
    BY <1>1, <1>2, <1>3, <1>5, <2>2
  <2>3. ASSUME NEW i \in DOMAIN U
        PROVE  (\A j \in i + 1 .. Len(V) : ~PaintsOn(win, V, j, p))
                 <=> (\A j \in i + 1 .. Len(U) : ~PaintsOn(win, U, j, p))
    BY <1>1, <1>2, <1>3, <1>5
  <2>4. ASSUME NEW i \in DOMAIN U, PaintsOn(win, U, i, p)
        PROVE  i \in DOMAIN V /\ PaintsOn(win, V, i, p) /\ V[i] = U[i]
    BY <1>1, <1>2, <2>4
  <2>5. ASSUME Shows(win, scr, V, p, color) PROVE Shows(win, scr, U, p, color)
    <3>1. CASE (\A i \in DOMAIN V : ~PaintsOn(win, V, i, p)) /\ scr[p] = color
      BY <2>1, <3>1 DEF Shows
    <3>2. ASSUME NEW i \in DOMAIN V, PaintsOn(win, V, i, p), Paint(V[i]) = color,
                 \A j \in i + 1 .. Len(V) : ~PaintsOn(win, V, j, p)
          PROVE  Shows(win, scr, U, p, color)
      <4>1. i \in DOMAIN U /\ PaintsOn(win, U, i, p) /\ V[i] = U[i]
        BY <2>2, <3>2
      <4>2. \A j \in i + 1 .. Len(U) : ~PaintsOn(win, U, j, p)
        BY <2>3, <3>2, <4>1
      <4>3. QED
        BY <3>2, <4>1, <4>2 DEF Shows
    <3>3. QED
      BY <2>5, <3>1, <3>2 DEF Shows
  <2>6. ASSUME Shows(win, scr, U, p, color) PROVE Shows(win, scr, V, p, color)
    <3>1. CASE (\A i \in DOMAIN U : ~PaintsOn(win, U, i, p)) /\ scr[p] = color
      BY <2>1, <3>1 DEF Shows
    <3>2. ASSUME NEW i \in DOMAIN U, PaintsOn(win, U, i, p), Paint(U[i]) = color,
                 \A j \in i + 1 .. Len(U) : ~PaintsOn(win, U, j, p)
          PROVE  Shows(win, scr, V, p, color)
      <4>1. i \in DOMAIN V /\ PaintsOn(win, V, i, p) /\ V[i] = U[i]
        BY <2>4, <3>2
      <4>2. \A j \in i + 1 .. Len(V) : ~PaintsOn(win, V, j, p)
        BY <2>3, <3>2, <4>1
      <4>3. QED
        BY <3>2, <4>1, <4>2 DEF Shows
    <3>3. QED
      BY <2>6, <3>1, <3>2 DEF Shows
  <2>7. QED
    BY <1>0, <1>5, <2>5, <2>6
<1>6. QED
  BY <1>4, <1>5

\* The list of start-up commands, seen from its end.
RestOf(todo, all, sent) == \A k \in 1 .. Len(todo) : todo[k] = all[sent + k]

LEMMA ClearIsThird ==
  ASSUME NEW sent \in Nat, NEW todo \in Seq(Commands), sent + Len(todo) = 5,
         RestOf(todo, StartupCommands(TRUE), sent)
  PROVE  (\E i \in DOMAIN todo : todo[i].id = "CLEAR_SCREEN") <=> sent < 3
<1>1. PICK all, m : all = StartupCommands(TRUE) /\ m = Len(todo)
  OBVIOUS
<1>2. /\ all[1].id = "SET_RESOLUTION" /\ all[2].id = "SET_LOGICAL_SIZE"
      /\ all[3].id = "CLEAR_SCREEN" /\ all[4].id = "SUBSCRIBE_SDL_EVENT_TYPE"
      /\ all[5].id = "SUBSCRIBE_SDL_EVENT_TYPE"
  BY <1>1 DEF StartupCommands, Cmd, Subscribe
<1>3. m \in Nat /\ DOMAIN todo = 1 .. m /\ sent + m = 5
  BY <1>1, LenProperties
<1>4. \A k \in 1 .. m : todo[k] = all[sent + k]
  BY <1>1 DEF RestOf
<1>5. ASSUME sent < 3 PROVE \E i \in DOMAIN todo : todo[i].id = "CLEAR_SCREEN"
  <2>1. PICK i \in 1 .. m : sent + i = 3
    <3>1. 3 - sent \in 1 .. m /\ sent + (3 - sent) = 3
      BY <1>3, <1>5
    <3>2. QED
      BY <3>1
  <2>2. todo[i] = all[3]
    BY <1>4, <2>1
  <2>3. QED
    BY <1>2, <1>3, <2>1, <2>2
<1>6. ASSUME NEW i \in 1 .. m, todo[i].id = "CLEAR_SCREEN" PROVE sent < 3
  <2>1. PICK k \in 1 .. 5 : k = sent + i
    <3>1. sent + i \in 1 .. 5
      BY <1>3
    <3>2. QED
      BY <3>1
  <2>2. todo[i] = all[k]
    BY <1>4, <2>1
  <2>3. k = 3
    <3>1. k = 1 \/ k = 2 \/ k = 3 \/ k = 4 \/ k = 5
      BY <2>1
    <3>2. QED
      BY <1>2, <1>6, <2>2, <3>1
  <2>4. QED
    BY <1>3, <2>1, <2>3
<1>7. QED
  BY <1>3, <1>5, <1>6

\* What the start-up sends, and what it has sent by then.
LEMMA StartupSends ==
  ASSUME TypeInv, StartupInv, SendStartupCommand, device
  PROVE  LET cmd == Head(main.todo)
         IN /\ cmd \in Commands /\ cmdQ \in Seq(Commands) /\ cmdQ' = Append(cmdQ, cmd)
            /\ ~ClearToSend => /\ cmd.id = "SUBSCRIBE_SDL_EVENT_TYPE"
                               /\ ~ClearToSend'
            /\ ClearToSend /\ ~ClearToSend' =>
                 /\ cmd.id = "CLEAR_SCREEN"
                 /\ \E i \in DOMAIN cmdQ : cmdQ[i].id = "SET_RESOLUTION"
<1>1. PICK all, n, m, todo : /\ all = StartupCommands(TRUE) /\ m = Len(main.todo)
                             /\ n = Len(all) - m /\ todo = Tail(main.todo)
  OBVIOUS
<1>2. /\ Len(all) = 5 /\ all[1] = Cmd("SET_RESOLUTION") /\ all[3] = Cmd("CLEAR_SCREEN")
      /\ all[4] = Subscribe("KEYUP") /\ all[5] = Subscribe("KEYDOWN")
  BY <1>1 DEF StartupCommands
<1>3. main.pc = "startup" /\ main' = [main EXCEPT !.todo = Tail(main.todo)]
  BY DEF SendStartupCommand
<1>4. /\ main.todo \in Seq(Commands) /\ main.todo # <<>> /\ cmdQ \in Seq(Commands)
      /\ main'.pc = "startup" /\ main'.todo = Tail(main.todo) /\ cmdQ' = Append(cmdQ, Head(main.todo))
  BY <1>3 DEF SendStartupCommand, TypeInv, TypeOK, MainTodo
<1>5. /\ todo \in Seq(Commands) /\ Len(todo) = m - 1 /\ m \in Nat /\ m > 0
      /\ Head(main.todo) \in Commands /\ Head(main.todo) = main.todo[1]
      /\ \A k \in 1 .. m - 1 : todo[k] = main.todo[k + 1]
  BY <1>1, <1>4, HeadTailProperties, LenProperties, EmptySeq
<1>6. /\ n \in Nat /\ \A k \in 1 .. m : main.todo[k] = all[n + k]
      /\ \A k \in 1 .. n : \E i \in DOMAIN cmdQ : cmdQ[i] = all[k]
  <2>1. device = TRUE
    BY DEF TypeInv, TypeOK
  <2>2. QED
    BY <1>1, <1>3, <2>1 DEF StartupInv
<1>7. n = 5 - m /\ n + 1 \in Nat
  <2>1. n = Len(all) - m /\ Len(all) = 5
    BY <1>1, <1>2
  <2>2. n = 5 - m /\ n \in Nat
    BY <1>6, <2>1
  <2>3. QED
    BY <2>2
<1>8. ClearToSend <=> n < 3
  <2>1. n + Len(main.todo) = 5
    <3>1. Len(main.todo) = m
      BY <1>1
    <3>2. n + m = 5
      BY <1>5, <1>7
    <3>3. QED
      BY <3>1, <3>2
  <2>2. RestOf(main.todo, StartupCommands(TRUE), n)
    BY <1>1, <1>6 DEF RestOf
  <2>3. (\E i \in DOMAIN main.todo : main.todo[i].id = "CLEAR_SCREEN") <=> n < 3
    BY <1>4, <1>6, <2>1, <2>2, ClearIsThird
  <2>4. QED
    BY <1>3, <2>3 DEF ClearToSend
<1>9. ClearToSend' <=> n + 1 < 3
  <2>1. PICK next : next = n + 1
    OBVIOUS
  <2>2. next \in Nat /\ next + Len(todo) = 5
    BY <1>5, <1>6, <1>7, <2>1
  <2>3. RestOf(todo, StartupCommands(TRUE), next)
    <3> SUFFICES ASSUME NEW k \in 1 .. m - 1 PROVE todo[k] = all[next + k]
      BY <1>1, <1>5 DEF RestOf
    <3>1. k + 1 \in 1 .. m /\ n + (k + 1) = next + k
      BY <1>5, <1>6, <2>1
    <3>2. QED
      BY <1>5, <1>6, <3>1
  <2>4. (\E i \in DOMAIN todo : todo[i].id = "CLEAR_SCREEN") <=> next < 3
    BY <1>5, <2>2, <2>3, ClearIsThird
  <2>5. QED
    BY <1>1, <1>4, <2>1, <2>4 DEF ClearToSend
<1>10. Head(main.todo) = all[n + 1]
  BY <1>5, <1>6
<1>11. ASSUME ~ClearToSend PROVE Head(main.todo).id = "SUBSCRIBE_SDL_EVENT_TYPE" /\ ~ClearToSend'
  <2>1. n + 1 = 4 \/ n + 1 = 5
    BY <1>5, <1>6, <1>7, <1>8, <1>11
  <2>2. QED
    BY <1>2, <1>8, <1>9, <1>10, <1>11, <2>1, <1>6 DEF Subscribe
<1>12. ASSUME ClearToSend, ~ClearToSend'
       PROVE  Head(main.todo).id = "CLEAR_SCREEN" /\ \E i \in DOMAIN cmdQ : cmdQ[i].id = "SET_RESOLUTION"
  <2>1. n = 2 /\ n + 1 = 3 /\ 1 \in 1 .. n
    BY <1>6, <1>8, <1>9, <1>12
  <2>2. Head(main.todo) = all[3] /\ \E i \in DOMAIN cmdQ : cmdQ[i] = all[1]
    BY <1>6, <1>10, <2>1
  <2>3. QED
    BY <1>2, <2>2 DEF Cmd
<1>13. QED
  BY <1>4, <1>5, <1>11, <1>12

\* A step that leaves all of it alone.
LEMMA ScreenInvStep ==
  ASSUME TypeInv, ScreenInv,
         UNCHANGED <<device, cmdQ, window, screen, theDisplayFrame, overtaken, ClearToSend>>,
         emu' = emu \/ (emu.pc # "push" /\ emu'.pc # "push")
  PROVE  ScreenInv'
<1>1. UNCHANGED UnderWay
  BY DEF UnderWay
<1>2. \A p \in Pixels : Awaited(p)' <=> Awaited(p)
  BY DEF Awaited
<1>3. \A p \in Pixels : Awaited(p) => emu' = emu
  BY DEF Awaited
<1>4. \A p \in Pixels : Target(p)' = Target(p)
  BY DEF Target
<1>5. ASSUME device, NEW p \in Pixels, Awaited(p)
      PROVE  p \notin overtaken /\ theDisplayFrame[p] = Paint(emu'.todo[1])
  BY <1>3, <1>5 DEF ScreenInv
<1>6. QED
  BY <1>1, <1>2, <1>4, <1>5 DEF ScreenInv

LEMMA StartupKeepsScreen ==
  ASSUME TypeInv, StartupInv, ScreenInv, SendStartupCommand
  PROVE  ScreenInv'
<1> SUFFICES ASSUME device PROVE ScreenInv'
  BY DEF SendStartupCommand, ScreenInv
<1> USE DEF displayVars, deviceVars, history
<1>1. PICK cmd : cmd = Head(main.todo)
  OBVIOUS
<1>2. /\ cmd \in Commands /\ cmdQ \in Seq(Commands) /\ cmdQ' = Append(cmdQ, cmd)
      /\ ~ClearToSend => cmd.id = "SUBSCRIBE_SDL_EVENT_TYPE" /\ ~ClearToSend'
      /\ ClearToSend /\ ~ClearToSend' =>
           cmd.id = "CLEAR_SCREEN" /\ \E i \in DOMAIN cmdQ : cmdQ[i].id = "SET_RESOLUTION"
  BY <1>1, StartupSends
<1>3. UNCHANGED <<device, emu, window, screen, theDisplayFrame, overtaken>>
  BY DEF SendStartupCommand
<1>4. \A p \in Pixels : (Awaited(p)' <=> Awaited(p)) /\ Target(p)' = Target(p)
  BY <1>3 DEF Awaited, Target
<1>5. /\ cmdQ' \in Seq(Commands)
      /\ \A i \in DOMAIN cmdQ : i \in DOMAIN cmdQ' /\ cmdQ'[i] = cmdQ[i]
  BY <1>2, AppendProperties, LenProperties
<1>6. CASE ClearToSend'
  <2>1. ClearToSend
    BY <1>2, <1>6
  <2>2. QED
    BY <1>3, <1>4, <1>6, <2>1 DEF ScreenInv
<1>7. CASE ~ClearToSend'
  <2>1. window \/ \E i \in DOMAIN cmdQ : cmdQ[i].id = "SET_RESOLUTION"
    BY <1>2, <1>7 DEF ScreenInv
  <2>2. window \/ \E i \in DOMAIN cmdQ' : cmdQ'[i].id = "SET_RESOLUTION"
    BY <1>5, <2>1
  <2>3. ASSUME NEW p \in Pixels, ~Awaited(p) PROVE Shows(window, screen, cmdQ', p, Target(p))
    <3>1. CASE ClearToSend
      <4>1. Target(p) = 0
        BY <2>3, <3>1 DEF ScreenInv, Target
      <4>2. Touches(cmd, p) /\ Paint(cmd) = 0
        BY <1>2, <1>7, <3>1 DEF Touches, Paint
      <4>3. QED
        BY <1>2, <2>1, <4>1, <4>2, AppendedShows
    <3>2. CASE ~ClearToSend
      <4>1. Shows(window, screen, UnderWay, p, Target(p))
        BY <3>2 DEF ScreenInv
      <4>2. Shows(window, screen, cmdQ, p, Target(p))
        <5>1. CASE emu.pc = "push"
          <6>1. ~Touches(emu.todo[1], p) /\ UnderWay = Append(cmdQ, emu.todo[1]) /\ emu.todo[1] \in Commands
            BY <2>3, <5>1, UnderWayIs DEF Awaited
          <6>2. QED
            BY <1>2, <2>1, <4>1, <6>1, AppendedShows
        <5>2. QED
          BY <4>1, <5>1, UnderWayIs
      <4>3. ~Touches(cmd, p)
        BY <1>2, <3>2 DEF Touches
      <4>4. QED
        BY <1>2, <2>1, <4>2, <4>3, AppendedShows
    <3>3. QED
      BY <3>1, <3>2
  <2>4. ASSUME NEW p \in Pixels PROVE Shows(window, screen, UnderWay', p, Target(p))
    <3>1. CASE emu.pc # "push"
      <4>1. UnderWay' = cmdQ' /\ ~Awaited(p)
        BY <1>3, <3>1 DEF UnderWay, Awaited
      <4>2. QED
        BY <2>3, <4>1
    <3>2. CASE emu.pc = "push"
      <4>1. PICK last : last = emu.todo[1]
        OBVIOUS
      <4>2. last \in Commands /\ UnderWay' = Append(cmdQ', last)
        <5>1. UnderWay' = cmdQ' \o emu.todo /\ emu.todo \in Seq(Commands) /\ Len(emu.todo) = 1
          BY <1>3, <3>2 DEF UnderWay, TypeInv, TypeOK, EmuTodo
        <5>2. last \in Commands /\ emu.todo = <<last>>
          BY <4>1, <5>1
        <5>3. QED
          BY <1>5, <5>1, <5>2, AppendIsConcat
      <4>3. CASE Touches(last, p)
        <5>1. Awaited(p)
          BY <3>2, <4>1, <4>3 DEF Awaited
        <5>2. Target(p) = Paint(last)
          BY <4>1, <5>1 DEF ScreenInv, Target
        <5>3. QED
          BY <1>5, <2>2, <4>2, <4>3, <5>2, AppendedShows
      <4>4. CASE ~Touches(last, p)
        <5>1. ~Awaited(p)
          BY <4>1, <4>4 DEF Awaited
        <5>2. Shows(window, screen, cmdQ', p, Target(p))
          BY <2>3, <5>1
        <5>3. QED
          BY <1>5, <2>2, <4>2, <4>4, <5>2, AppendedShows
      <4>5. QED
        BY <4>3, <4>4
    <3>3. QED
      BY <3>1, <3>2
  <2>5. QED
    BY <1>3, <1>4, <1>7, <2>2, <2>4 DEF ScreenInv
<1>8. QED
  BY <1>6, <1>7

LEMMA HandleKeepsScreen ==
  ASSUME TypeInv, ScreenInv, HandleCommand
  PROVE  ScreenInv'
<1> SUFFICES ASSUME device PROVE ScreenInv'
  BY DEF HandleCommand, ScreenInv
<1>1. /\ main.pc = "drain" /\ cmdQ \in Seq(Commands) /\ cmdQ # <<>> /\ cmdQ' = Tail(cmdQ)
      /\ window' = (window \/ Head(cmdQ).id = "SET_RESOLUTION") /\ window \in BOOLEAN
      /\ screen' = (IF window THEN Drawn(Head(cmdQ), screen) ELSE screen)
      /\ screen \in [Pixels -> Colors \union {Unset}]
      /\ UNCHANGED <<device, main, emu, theDisplayFrame, overtaken>>
  BY DEF HandleCommand, TypeInv, TypeOK, deviceVars, history
<1>2. ~ClearToSend /\ ~ClearToSend'
  BY <1>1 DEF ClearToSend
<1>3. \A p \in Pixels : (Awaited(p)' <=> Awaited(p)) /\ Target(p)' = Target(p)
  BY <1>1 DEF Awaited, Target
<1>4. /\ Len(cmdQ) \in Nat /\ DOMAIN cmdQ = 1 .. Len(cmdQ) /\ DOMAIN cmdQ' = 1 .. Len(cmdQ) - 1
      /\ Head(cmdQ) = cmdQ[1] /\ \A i \in 1 .. Len(cmdQ) - 1 : cmdQ'[i] = cmdQ[i + 1]
      /\ cmdQ' \in Seq(Commands)
  BY <1>1, HeadTailProperties, LenProperties, EmptySeq
<1>5. window' \/ \E i \in DOMAIN cmdQ' : cmdQ'[i].id = "SET_RESOLUTION"
  <2>1. ASSUME NEW i \in DOMAIN cmdQ, cmdQ[i].id = "SET_RESOLUTION", i # 1
        PROVE  \E k \in DOMAIN cmdQ' : cmdQ'[k].id = "SET_RESOLUTION"
    <3>1. i - 1 \in DOMAIN cmdQ' /\ cmdQ'[i - 1] = cmdQ[i]
      BY <1>4, <2>1
    <3>2. QED
      BY <2>1, <3>1
  <2>2. QED
    BY <1>1, <1>2, <1>4, <2>1 DEF ScreenInv
<1>6. PICK U, after : U = UnderWay /\ after = UnderWay'
  OBVIOUS
<1>7. U \in Seq(Commands) /\ U # <<>> /\ U[1] = Head(cmdQ) /\ after = Tail(U)
  <2>1. CASE emu.pc # "push"
    BY <1>1, <1>4, <1>6, <2>1 DEF UnderWay
  <2>2. CASE emu.pc = "push"
    <3>1. U = cmdQ \o emu.todo /\ after = Tail(cmdQ) \o emu.todo /\ emu.todo \in Seq(Commands)
      BY <1>1, <1>6, <2>2 DEF UnderWay, TypeInv, TypeOK
    <3>2. /\ U \in Seq(Commands) /\ U # <<>> /\ Head(U) = Head(cmdQ) /\ Tail(U) = after
      <4>1. PICK todo \in Seq(Commands) : todo = emu.todo
        BY <3>1
      <4>2. PICK queue \in Seq(Commands) : queue = cmdQ /\ queue # <<>>
        BY <1>1
      <4>3. /\ queue \o todo \in Seq(Commands) /\ queue \o todo # <<>>
            /\ Head(queue \o todo) = Head(queue) /\ Tail(queue \o todo) = Tail(queue) \o todo
        BY <4>2, TailOfConcat
      <4>4. QED
        BY <3>1, <4>1, <4>2, <4>3
    <3>3. QED
      BY <3>2, HeadTailProperties
  <2>3. QED
    BY <2>1, <2>2
<1>8. ASSUME NEW p \in Pixels PROVE Shows(window', screen', after, p, Target(p))
  <2>1. Shows(window, screen, U, p, Target(p))
    BY <1>2, <1>6 DEF ScreenInv
  <2>2. QED
    BY <1>1, <1>7, <2>1, HandledShows
<1>9. \A p \in Pixels : Awaited(p) => p \notin overtaken /\ theDisplayFrame[p] = Paint(emu.todo[1])
  BY DEF ScreenInv
<1>10. \A p \in Pixels : Awaited(p)' => p \notin overtaken' /\ theDisplayFrame'[p] = Paint(emu'.todo[1])
  BY <1>1, <1>3, <1>9
<1>11. \A p \in Pixels : Shows(window', screen', UnderWay', p, Target(p)')
  BY <1>3, <1>6, <1>8
<1>12. QED
  BY <1>2, <1>5, <1>10, <1>11 DEF ScreenInv

LEMMA MainKeepsScreen ==
  ASSUME TypeInv, StartupInv, ScreenInv, MainStep
  PROVE  ScreenInv'
<1>1. CASE EnterDisplayLoop
  <2>1. ~ClearToSend /\ ~ClearToSend'
    BY <1>1 DEF EnterDisplayLoop, ClearToSend, TypeInv, TypeOK
  <2>2. UNCHANGED ClearToSend
    BY <2>1, Zenon DEF ClearToSend
  <2>3. UNCHANGED <<device, emu, cmdQ, window, screen, theDisplayFrame, overtaken>>
    BY <1>1 DEF EnterDisplayLoop, displayVars, deviceVars, history
  <2>4. QED
    BY <2>2, <2>3, ScreenInvStep
<1>2. CASE NoMoreCommands \/ WaitTimesOut \/ ReceiveQuit \/ ReceiveKeyEvent \/ WriteEvent \/ JoinEmulationThread
  <2>1. /\ main.pc # "startup"
        /\ UNCHANGED <<device, emu, cmdQ, window, screen, theDisplayFrame, overtaken>>
    BY <1>2 DEF NoMoreCommands, WaitTimesOut, ReceiveQuit, ReceiveKeyEvent, WriteEvent,
                JoinEmulationThread, displayVars, deviceVars, history
  <2>2. main'.pc # "startup"
    BY <1>2 DEF NoMoreCommands, WaitTimesOut, ReceiveQuit, ReceiveKeyEvent, WriteEvent,
                JoinEmulationThread, LoopAgain, TypeInv, TypeOK
  <2>3. QED
    BY <2>1, <2>2, ScreenInvStep DEF ClearToSend
<1>3. QED
  BY <1>1, <1>2, StartupKeepsScreen, HandleKeepsScreen DEF MainStep

\* A command that the emulation thread decides to send; its frame changes with it.
LEMMA SentKeepsScreen ==
  ASSUME TypeInv, ScreenInv, device, UNCHANGED <<device, main, cmdQ, window, screen>>,
         NEW cmd \in Commands, emu.pc = "execute", emu'.pc = "push", emu'.todo = <<cmd>>,
         \/ cmd.id = "HALT_EMULATION" /\ UNCHANGED <<theDisplayFrame, overtaken>>
         \/ /\ cmd.id = "DRAW_PIXEL"
            /\ theDisplayFrame' = [theDisplayFrame EXCEPT ![cmd.pixel] = cmd.color]
            /\ overtaken' = overtaken \ {cmd.pixel}
  PROVE  ScreenInv'
<1>1. /\ cmdQ \in Seq(Commands) /\ theDisplayFrame \in [Pixels -> Colors] /\ UnderWay = cmdQ
      /\ UNCHANGED ClearToSend /\ device'
  BY DEF TypeInv, TypeOK, UnderWay, ClearToSend
<1>2. UnderWay' = Append(cmdQ, cmd) /\ emu'.todo[1] = cmd
  BY <1>1, AppendIsConcat DEF UnderWay
<1>3. \A p \in Pixels : (Awaited(p)' <=> Touches(cmd, p)) /\ ~Awaited(p)
  BY <1>2 DEF Awaited
<1>4. ASSUME NEW p \in Pixels
      PROVE  IF Touches(cmd, p) THEN p \notin overtaken' /\ theDisplayFrame'[p] = Paint(cmd)
             ELSE (p \in overtaken' <=> p \in overtaken) /\ theDisplayFrame'[p] = theDisplayFrame[p]
  BY <1>1 DEF Touches, Paint
<1>5. CASE ClearToSend
  BY <1>1, <1>2, <1>3, <1>4, <1>5 DEF ScreenInv
<1>6. CASE ~ClearToSend
  <2>1. window \/ \E i \in DOMAIN cmdQ : cmdQ[i].id = "SET_RESOLUTION"
    BY <1>6 DEF ScreenInv
  <2>2. ASSUME NEW p \in Pixels PROVE Shows(window, screen, Append(cmdQ, cmd), p, Target(p)')
    <3>1. PICK color : color = Target(p)'
      OBVIOUS
    <3>2. CASE Touches(cmd, p)
      <4>1. color = Paint(cmd)
        BY <1>4, <3>1, <3>2 DEF Target
      <4>2. QED
        BY <1>1, <2>1, <3>1, <3>2, <4>1, AppendedShows
    <3>3. CASE ~Touches(cmd, p)
      <4>1. color = Target(p)
        BY <1>4, <3>1, <3>3 DEF Target
      <4>2. Shows(window, screen, cmdQ, p, color)
        BY <1>1, <1>6, <4>1 DEF ScreenInv
      <4>3. QED
        BY <1>1, <2>1, <3>1, <3>3, <4>2, AppendedShows
    <3>4. QED
      BY <3>2, <3>3
  <2>3. QED
    BY <1>1, <1>2, <1>3, <1>4, <1>6, <2>1, <2>2 DEF ScreenInv
<1>7. QED
  BY <1>5, <1>6

LEMMA EmuKeepsScreen ==
  ASSUME TypeInv, ScreenInv, EmuStep
  PROVE  ScreenInv'
<1> USE DEF displayVars, deviceVars, history
<1> SUFFICES ASSUME device PROVE ScreenInv'
  BY DEF EmuStep, Loop, ExecuteDraw, ExecuteReadKey, EndInstruction, ExecuteHalt, Push, ReadEvent,
         NoMoreEvents, HaltCallback, ScreenInv
<1>0. emu \in EmuRecords
  BY DEF TypeInv, TypeOK, EmuRecords
<1>1. CASE Push
  <2>1. PICK cmd : cmd = emu.todo[1]
    OBVIOUS
  <2>2. /\ cmdQ \in Seq(Commands) /\ emu.pc = "push" /\ emu'.pc = "execute" /\ cmdQ' = Append(cmdQ, cmd)
        /\ UNCHANGED <<device, main, window, screen, theDisplayFrame, ClearToSend>>
        /\ overtaken' = IF ClearToSend /\ cmd.id = "DRAW_PIXEL" THEN overtaken \union {cmd.pixel} ELSE overtaken
        /\ cmd \in Commands /\ cmd.id \in {"HALT_EMULATION", "DRAW_PIXEL"} /\ UnderWay = Append(cmdQ, cmd)
    BY <1>0, <1>1, <2>1, UnderWayIs DEF Push, TypeInv, TypeOK, EmuRecords, ClearToSend
  <2>3. UnderWay' = UnderWay /\ device'
    BY <2>2 DEF UnderWay
  <2>4. \A p \in Pixels : ~Awaited(p)' /\ (Awaited(p) <=> cmd.id = "DRAW_PIXEL" /\ cmd.pixel = p)
    BY <2>1, <2>2 DEF Awaited, Touches
  <2>5. CASE ClearToSend
    BY <2>2, <2>3, <2>4, <2>5 DEF ScreenInv
  <2>6. CASE ~ClearToSend
    <3>1. \A i \in DOMAIN cmdQ : i \in DOMAIN cmdQ' /\ cmdQ'[i] = cmdQ[i]
      BY <2>2, AppendProperties, LenProperties
    <3>2. window \/ \E i \in DOMAIN cmdQ' : cmdQ'[i].id = "SET_RESOLUTION"
      BY <2>6, <3>1 DEF ScreenInv
    <3>3. \A p \in Pixels : Target(p)' = Target(p)
      BY <2>2, <2>6 DEF Target
    <3>4. \A p \in Pixels : Shows(window, screen, UnderWay, p, Target(p))
      BY <2>6 DEF ScreenInv
    <3>5. QED
      BY <2>2, <2>3, <2>4, <2>6, <3>2, <3>3, <3>4 DEF ScreenInv
  <2>7. QED
    BY <2>5, <2>6
<1>2. CASE HaltCallback
  <2>1. PICK cmd : cmd = emu.todo[1]
    OBVIOUS
  <2>2. /\ cmd \in Commands /\ cmd.id = "HALT_EMULATION" /\ Head(emu.todo) = cmd
        /\ emu.pc = "callback"
    BY <1>2, <2>1 DEF HaltCallback, TypeInv, TypeOK, EmuTodo, Cmd
  <2>3. /\ emu'.pc = "exited" /\ cmdQ' = Append(cmdQ, cmd) /\ cmdQ \in Seq(Commands)
        /\ UNCHANGED <<device, main, window, screen, theDisplayFrame, overtaken, ClearToSend>>
    BY <1>0, <1>2, <2>2 DEF HaltCallback, TypeInv, TypeOK, EmuRecords, ClearToSend
  <2>4. UnderWay = cmdQ /\ UnderWay' = Append(cmdQ, cmd) /\ device'
    BY <2>2, <2>3 DEF UnderWay
  <2>5. \A p \in Pixels : ~Awaited(p)' /\ ~Awaited(p) /\ Target(p)' = Target(p) /\ ~Touches(cmd, p)
    BY <2>2, <2>3 DEF Awaited, Target, Touches
  <2>6. CASE ClearToSend
    BY <2>3, <2>4, <2>5, <2>6 DEF ScreenInv
  <2>7. CASE ~ClearToSend
    <3>1. window \/ \E i \in DOMAIN cmdQ : cmdQ[i].id = "SET_RESOLUTION"
      BY <2>7 DEF ScreenInv
    <3>2. \A i \in DOMAIN cmdQ : i \in DOMAIN cmdQ' /\ cmdQ'[i] = cmdQ[i]
      BY <2>2, <2>3, AppendProperties, LenProperties
    <3>3. ASSUME NEW p \in Pixels PROVE Shows(window, screen, Append(cmdQ, cmd), p, Target(p))
      <4>1. Shows(window, screen, cmdQ, p, Target(p))
        BY <2>4, <2>7 DEF ScreenInv
      <4>2. QED
        BY <2>2, <2>3, <2>5, <3>1, <4>1, AppendedShows
    <3>4. QED
      BY <2>3, <2>4, <2>5, <2>7, <3>1, <3>2, <3>3 DEF ScreenInv
  <2>8. QED
    BY <2>6, <2>7
<1>3. CASE ExecuteHalt
  <2>1. PICK cmd \in Commands : cmd = Cmd("HALT_EMULATION")
    BY CommandsAre
  <2>2. emu.pc = "execute" /\ emu'.pc = "push" /\ emu'.todo = <<cmd>> /\ cmd.id = "HALT_EMULATION"
    BY <1>3, <2>1 DEF ExecuteHalt, Access, Cmd
  <2>3. UNCHANGED <<device, main, cmdQ, window, screen, theDisplayFrame, overtaken>>
    BY <1>3 DEF ExecuteHalt
  <2>4. QED
    BY <2>2, <2>3, SentKeepsScreen
<1>4. ASSUME NEW p \in Pixels, NEW c \in Colors, ExecuteDraw(p, c)
      PROVE  ScreenInv'
  <2>1. PICK cmd \in Commands : cmd = DrawPixel(p, c)
    BY CommandsAre
  <2>2. /\ emu.pc = "execute" /\ emu'.pc = "push" /\ emu'.todo = <<cmd>>
        /\ cmd.id = "DRAW_PIXEL" /\ cmd.pixel = p /\ cmd.color = c
    BY <1>4, <2>1 DEF ExecuteDraw, Access, DrawPixel
  <2>3. /\ UNCHANGED <<device, main, cmdQ, window, screen>>
        /\ theDisplayFrame' = [theDisplayFrame EXCEPT ![cmd.pixel] = cmd.color]
        /\ overtaken' = overtaken \ {cmd.pixel}
    BY <1>4, <2>2 DEF ExecuteDraw
  <2>4. QED
    BY <2>2, <2>3, SentKeepsScreen
<1>5. CASE Loop \/ ExecuteReadKey \/ EndInstruction \/ ReadEvent \/ NoMoreEvents
  <2>1. UNCHANGED <<device, main, cmdQ, window, screen, theDisplayFrame, overtaken>>
    BY <1>5 DEF Loop, ExecuteReadKey, EndInstruction, ReadEvent, NoMoreEvents
  <2>2. emu.pc # "push" /\ emu'.pc # "push"
    <3>1. CASE ExecuteReadKey
      BY <3>1 DEF ExecuteReadKey, Access
    <3>2. CASE ~ExecuteReadKey
      BY <1>0, <1>5, <3>2 DEF Loop, EndInstruction, ReadEvent, NoMoreEvents, EmuRecords
    <3>3. QED
      BY <3>1, <3>2
  <2>3. QED
    BY <2>1, <2>2, ScreenInvStep DEF ClearToSend
<1>6. QED
  BY <1>1, <1>2, <1>3, <1>4, <1>5 DEF EmuStep

LEMMA InitScreenInv == Init => ScreenInv
<1> SUFFICES ASSUME Init, device PROVE ScreenInv
  BY DEF ScreenInv
<1>1. main.pc = "startup" /\ main.todo = StartupCommands(TRUE) /\ emu.pc = "loop"
  BY DEF Init, StartupCommands
<1>2. ClearToSend
  <2>1. 3 \in DOMAIN StartupCommands(TRUE) /\ StartupCommands(TRUE)[3].id = "CLEAR_SCREEN"
    BY DEF StartupCommands, Cmd
  <2>2. QED
    BY <1>1, <2>1 DEF ClearToSend
<1>3. \A p \in Pixels : ~Awaited(p) /\ theDisplayFrame[p] = 0
  BY <1>1 DEF Init, Awaited, Black
<1>4. QED
  BY <1>2, <1>3 DEF ScreenInv

\* From the CLEAR_SCREEN of the start-up on the screen shows the memory of the display
\* device once the commands under way are drawn: however the two threads interleave and
\* whenever the queue is full, no pixel is lost or drawn out of order, but those that a
\* program has drawn before, and these are black.
THEOREM ScreenShowsFrameCorrect == Spec => []ScreenShowsFrame
<1> DEFINE Inv == TypeInv /\ StartupInv /\ HaltInv
<1>1. Init => ScreenInv
  BY InitScreenInv
<1>2. Inv /\ ScreenInv /\ [Next]_vars => ScreenInv'
  <2> SUFFICES ASSUME Inv, ScreenInv, [Next]_vars PROVE ScreenInv'
    OBVIOUS
  <2>1. CASE User \/ UNCHANGED vars
    <3>1. UNCHANGED <<device, main, emu, cmdQ, window, screen, theDisplayFrame, overtaken>>
      BY <2>1 DEF User, Close, PressOrRelease, vars, displayVars, deviceVars, history
    <3>2. QED
      BY <3>1, ScreenInvStep DEF ClearToSend
  <2>2. QED
    BY <2>1, MainKeepsScreen, EmuKeepsScreen DEF Next
<1>3. ScreenInv => ScreenShowsFrame
  <2> SUFFICES ASSUME ScreenInv, device, ~ClearToSend, NEW p \in Pixels
               PROVE  WillShow(UnderWay, p, IF p \in overtaken THEN 0 ELSE theDisplayFrame[p])
    BY DEF ScreenShowsFrame
  <2>1. Shows(window, screen, UnderWay, p, Target(p))
    BY DEF ScreenInv
  <2>2. QED
    BY <2>1 DEF Shows, PaintsOn, Touches, Target, WillShow, Paints
<1>4. QED
  BY <1>1, <1>2, <1>3, HaltInvCorrect, PTL DEF Spec

-----------------------------------------------------------------------------
(* The keys.                                                               *)

\* StaysDown of events that are all of interest.
Changes(key, e) == e.type = "KEYDOWN" \/ e = KeyEvent("KEYUP", key)
Stays(key, current, events) ==
  \/ current = key /\ \A i \in DOMAIN events : ~Changes(key, events[i])
  \/ \E i \in DOMAIN events : /\ events[i] = KeyEvent("KEYDOWN", key)
                              /\ \A j \in i + 1 .. Len(events) : ~Changes(key, events[j])

KeyInv ==
  device =>
    /\ main.pc # "startup" => \A t \in {"KEYUP", "KEYDOWN"} :
         \/ t \in theEventsOfInterest
         \/ main.pc = "drain" /\ \E i \in DOMAIN cmdQ : cmdQ[i] = Subscribe(t)
    /\ \A key \in Keys \ held : ~Stays(key, theCurrentKeyPressed, Pending)

Events == KeyEvents \union {Quit}

LEMMA StaysAfterAppend ==
  ASSUME NEW key, NEW current, NEW events \in Seq(Events), NEW e \in Events,
         Stays(key, current, Append(events, e))
  PROVE  IF Changes(key, e) THEN e = KeyEvent("KEYDOWN", key) ELSE Stays(key, current, events)
<1> DEFINE after == Append(events, e)
<1>1. /\ Len(events) \in Nat /\ DOMAIN events = 1 .. Len(events)
      /\ Len(after) = Len(events) + 1 /\ DOMAIN after = 1 .. Len(events) + 1
      /\ \A i \in 1 .. Len(events) : after[i] = events[i]
      /\ after[Len(events) + 1] = e
  BY AppendProperties, LenProperties
<1> HIDE DEF after
<1>2. CASE current = key /\ \A i \in DOMAIN after : ~Changes(key, after[i])
  BY <1>1, <1>2 DEF Stays
<1>3. ASSUME NEW i \in DOMAIN after, after[i] = KeyEvent("KEYDOWN", key),
             \A j \in i + 1 .. Len(after) : ~Changes(key, after[j])
      PROVE  IF Changes(key, e) THEN e = KeyEvent("KEYDOWN", key) ELSE Stays(key, current, events)
  <2>1. CASE i = Len(events) + 1
    BY <1>1, <1>3, <2>1 DEF Changes, KeyEvent
  <2>2. CASE i \in 1 .. Len(events)
    <3>1. Len(events) + 1 \in i + 1 .. Len(after) /\ ~Changes(key, e)
      BY <1>1, <1>3, <2>2
    <3>2. \A j \in i + 1 .. Len(events) : ~Changes(key, events[j])
      BY <1>1, <1>3, <2>2
    <3>3. QED
      BY <1>1, <1>3, <2>2, <3>1, <3>2 DEF Stays
  <2>3. QED
    BY <1>1, <1>3, <2>1, <2>2
<1>4. QED
  BY <1>2, <1>3 DEF Stays, after

\* An event that does not concern a key may be dropped, wherever it is.
LEMMA StaysWithoutOne ==
  ASSUME NEW key, NEW current, NEW less \in Seq(Events), NEW events \in Seq(Events),
         NEW k \in 1 .. Len(events), Len(events) = Len(less) + 1,
         \A i \in 1 .. k - 1 : less[i] = events[i],
         \A i \in k .. Len(less) : less[i] = events[i + 1],
         ~Changes(key, events[k]), Stays(key, current, less)
  PROVE  Stays(key, current, events)
<1>1. /\ Len(less) \in Nat /\ DOMAIN less = 1 .. Len(less) /\ k \in Nat
      /\ DOMAIN events = 1 .. Len(less) + 1
  BY LenProperties
<1>2. \A i \in k + 1 .. Len(less) + 1 : i - 1 \in k .. Len(less) /\ events[i] = less[i - 1]
  <2> SUFFICES ASSUME NEW i \in k + 1 .. Len(less) + 1
               PROVE  i - 1 \in k .. Len(less) /\ events[i] = less[i - 1]
    OBVIOUS
  <2>1. i - 1 \in k .. Len(less) /\ (i - 1) + 1 = i
    BY <1>1
  <2>2. QED
    BY <2>1
<1>3. CASE current = key /\ \A i \in DOMAIN less : ~Changes(key, less[i])
  <2>1. ASSUME NEW i \in DOMAIN events PROVE ~Changes(key, events[i])
    <3>1. CASE i \in 1 .. k - 1
      BY <1>1, <1>3, <3>1
    <3>2. CASE i = k
      BY <3>2
    <3>3. CASE i \in k + 1 .. Len(less) + 1
      <4>1. i - 1 \in DOMAIN less /\ events[i] = less[i - 1]
        BY <1>1, <1>2, <3>3
      <4>2. QED
        BY <1>3, <4>1
    <3>4. QED
      BY <1>1, <3>1, <3>2, <3>3
  <2>2. QED
    BY <1>3, <2>1 DEF Stays
<1>4. ASSUME NEW i \in DOMAIN less, less[i] = KeyEvent("KEYDOWN", key),
             \A j \in i + 1 .. Len(less) : ~Changes(key, less[j])
      PROVE  Stays(key, current, events)
  <2>1. PICK at \in DOMAIN events : /\ events[at] = less[i]
                                   /\ at = IF i < k THEN i ELSE i + 1
    BY <1>1, <1>4
  <2>2. ASSUME NEW j \in at + 1 .. Len(events) PROVE ~Changes(key, events[j])
    <3>1. CASE j \in 1 .. k - 1
      BY SMTT(30), <1>1, <1>4, <2>1, <2>2, <3>1
    <3>2. CASE j = k
      BY <3>2
    <3>3. CASE j \in k + 1 .. Len(less) + 1
      <4>1. j - 1 \in i + 1 .. Len(less) /\ events[j] = less[j - 1]
        BY <1>1, <1>2, <1>4, <2>1, <2>2, <3>3
      <4>2. QED
        BY <1>4, <4>1
    <3>4. QED
      BY <1>1, <2>1, <2>2, <3>1, <3>2, <3>3
  <2>3. QED
    BY <1>4, <2>1, <2>2 DEF Stays
<1>5. QED
  BY <1>3, <1>4 DEF Stays

\* processSdlEvent does to the byte what Stays says of the event.
LEMMA StaysAfterReading ==
  ASSUME NEW key \in Keys, NEW current, NEW events \in Seq(Events), events # <<>>,
         Head(events) \in KeyEvents, Stays(key, KeyAfter(Head(events), current), Tail(events))
  PROVE  Stays(key, current, events)
<1> DEFINE e == Head(events)
           less == Tail(events)
<1>1. /\ less \in Seq(Events) /\ Len(events) = Len(less) + 1 /\ events[1] = e
      /\ Len(less) \in Nat /\ DOMAIN less = 1 .. Len(less) /\ DOMAIN events = 1 .. Len(less) + 1
      /\ \A i \in 1 .. Len(less) : less[i] = events[i + 1]
  BY HeadTailProperties, LenProperties, EmptySeq
<1>2. CASE \E i \in DOMAIN less : /\ less[i] = KeyEvent("KEYDOWN", key)
                                  /\ \A j \in i + 1 .. Len(less) : ~Changes(key, less[j])
  <2>1. PICK i \in DOMAIN less : /\ less[i] = KeyEvent("KEYDOWN", key)
                                 /\ \A j \in i + 1 .. Len(less) : ~Changes(key, less[j])
    BY <1>2
  <2>2. i + 1 \in DOMAIN events /\ events[i + 1] = KeyEvent("KEYDOWN", key)
    BY <1>1, <2>1
  <2>3. ASSUME NEW j \in (i + 1) + 1 .. Len(events) PROVE ~Changes(key, events[j])
    <3>1. j - 1 \in i + 1 .. Len(less) /\ j - 1 \in 1 .. Len(less) /\ (j - 1) + 1 = j
      BY <1>1, <2>1
    <3>2. QED
      BY <1>1, <2>1, <3>1
  <2>4. QED
    BY <2>2, <2>3 DEF Stays
<1>3. CASE KeyAfter(e, current) = key /\ \A i \in DOMAIN less : ~Changes(key, less[i])
  <2>1. ASSUME NEW j \in 2 .. Len(events) PROVE ~Changes(key, events[j])
    <3>1. j - 1 \in DOMAIN less /\ (j - 1) + 1 = j
      BY <1>1
    <3>2. QED
      BY <1>1, <1>3, <3>1
  <2>2. CASE e.type = "KEYDOWN"
    <3>1. e = KeyEvent("KEYDOWN", key)
      BY <1>3, <2>2 DEF KeyAfter, KeyEvent, KeyEvents
    <3>2. 1 \in DOMAIN events /\ 1 + 1 = 2
      BY <1>1
    <3>3. QED
      BY <1>1, <2>1, <3>1, <3>2 DEF Stays
  <2>3. CASE e.type = "KEYUP"
    <3>1. current = key /\ e.key # key
      BY <1>3, <2>3, ConstantsAssumption DEF KeyAfter, NoKey
    <3>2. ~Changes(key, e)
      BY <2>3, <3>1 DEF Changes, KeyEvent
    <3>3. \A j \in DOMAIN events : j = 1 \/ j \in 2 .. Len(events)
      BY <1>1
    <3>4. \A j \in DOMAIN events : ~Changes(key, events[j])
      BY <1>1, <2>1, <3>2, <3>3
    <3>5. QED
      BY <3>1, <3>4 DEF Stays
  <2>4. QED
    BY <2>2, <2>3 DEF KeyEvents
<1>4. QED
  BY <1>2, <1>3 DEF Stays

\* The event that the display thread is about to forward.
Forwarded == IF main.pc = "writeEvent" THEN main.todo ELSE <<>>

LEMMA PendingIs ==
  ASSUME TypeInv
  PROVE  /\ Pending = (evQ \o Forwarded) \o sdlEvents /\ Forwarded \in Seq(Events)
         /\ Pending \in Seq(Events) /\ evQ \in Seq(Events) /\ sdlEvents \in Seq(Events)
         /\ evQ \o <<>> = evQ
         /\ main.pc # "writeEvent" => Pending = evQ \o sdlEvents
         /\ main.pc = "writeEvent" => /\ main.todo = <<Head(main.todo)>> /\ Head(main.todo) \in Events
                                     /\ Pending = Append(evQ, Head(main.todo)) \o sdlEvents
<1>1. evQ \in Seq(KeyEvents) /\ sdlEvents \in Seq(Events)
  BY DEF TypeInv, TypeOK, Events
<1>2. evQ \in Seq(Events)
  BY <1>1, SeqMonotonic DEF Events
<1>3. Pending = (evQ \o Forwarded) \o sdlEvents
  BY DEF Pending, Forwarded
<1>4. CASE main.pc # "writeEvent"
  <2>1. Forwarded = <<>> /\ <<>> \in Seq(Events) /\ evQ \o <<>> = evQ
    BY <1>2, <1>4, ConcatEmptySeq DEF Forwarded
  <2>2. Pending = evQ \o sdlEvents
    BY <1>3, <2>1
  <2>3. QED
    BY <1>1, <1>2, <1>3, <1>4, <2>1, <2>2, ConcatProperties
<1>5. CASE main.pc = "writeEvent"
  <2>1. main.todo \in Seq(KeyEvents) /\ Len(main.todo) = 1 /\ Forwarded = main.todo
    BY <1>5 DEF TypeInv, MainTodo, Forwarded
  <2>2. main.todo = <<Head(main.todo)>> /\ Head(main.todo) \in Events /\ main.todo \in Seq(Events)
    BY <2>1 DEF Events
  <2>3. evQ \o main.todo = Append(evQ, Head(main.todo))
    BY <1>2, <2>2, AppendIsConcat
  <2>4. Pending = Append(evQ, Head(main.todo)) \o sdlEvents
    BY <1>3, <2>1, <2>3
  <2>5. Append(evQ, Head(main.todo)) \in Seq(Events) /\ evQ \o <<>> = evQ
    BY <1>2, <2>2, AppendProperties, ConcatEmptySeq
  <2>6. Pending \in Seq(Events)
    BY <1>1, <2>4, <2>5, ConcatProperties
  <2>7. QED
    BY <1>1, <1>2, <1>3, <1>5, <2>1, <2>2, <2>4, <2>5, <2>6
<1>6. QED
  BY <1>4, <1>5

LEMMA KeyInvStep ==
  ASSUME KeyInv, UNCHANGED <<device, held, theCurrentKeyPressed, Pending, theEventsOfInterest>>,
         main' = main \/ main.pc # "startup",
         main'.pc = main.pc \/ main.pc # "drain",
         \A i \in DOMAIN cmdQ : i \in DOMAIN cmdQ' /\ cmdQ'[i] = cmdQ[i]
  PROVE  KeyInv'
BY DEF KeyInv

LEMMA MainKeepsKeys ==
  ASSUME TypeInv, StartupInv, KeyInv, MainStep
  PROVE  KeyInv'
<1> SUFFICES ASSUME device PROVE KeyInv'
  BY DEF MainStep, SendStartupCommand, EnterDisplayLoop, HandleCommand, NoMoreCommands, WaitTimesOut, ReceiveQuit,
         ReceiveKeyEvent, WriteEvent, JoinEmulationThread, KeyInv
<1> USE DEF displayVars, deviceVars, userVars, history
<1>1. CASE SendStartupCommand \/ EnterDisplayLoop
  <2>1. /\ main.pc = "startup" /\ main'.pc \in {"startup", "drain"}
        /\ UNCHANGED <<device, evQ, sdlEvents, held, theCurrentKeyPressed, theEventsOfInterest>>
    BY <1>1 DEF SendStartupCommand, EnterDisplayLoop, TypeInv, TypeOK
  <2>2. Pending' = Pending
    BY <2>1 DEF Pending
  <2>3. CASE SendStartupCommand
    BY <2>1, <2>2, <2>3 DEF KeyInv, SendStartupCommand, TypeInv, TypeOK
  <2>4. CASE EnterDisplayLoop
    <3>1. main'.pc = "drain" /\ cmdQ' = cmdQ /\ main.todo = <<>> /\ device = TRUE
      BY <2>4 DEF EnterDisplayLoop, TypeInv, TypeOK
    <3>2. \A t \in {"KEYUP", "KEYDOWN"} : \E i \in DOMAIN cmdQ' : cmdQ'[i] = Subscribe(t)
      <4>1. PICK all : all = StartupCommands(TRUE)
        OBVIOUS
      <4>2. Len(all) = 5 /\ all[4] = Subscribe("KEYUP") /\ all[5] = Subscribe("KEYDOWN")
        BY <4>1 DEF StartupCommands
      <4>3. \A k \in 1 .. Len(all) - Len(main.todo) : \E i \in DOMAIN cmdQ : cmdQ[i] = all[k]
        BY <2>1, <3>1, <4>1 DEF StartupInv
      <4>4. Len(all) - Len(main.todo) = 5
        BY <3>1, <4>2
      <4>5. \A k \in 1 .. 5 : \E i \in DOMAIN cmdQ : cmdQ[i] = all[k]
        BY <4>3, <4>4
      <4>6. (\E i \in DOMAIN cmdQ : cmdQ[i] = all[4]) /\ \E i \in DOMAIN cmdQ : cmdQ[i] = all[5]
        BY <4>5
      <4>7. QED
        BY <3>1, <4>2, <4>6
    <3>3. QED
      BY <2>1, <2>2, <3>1, <3>2 DEF KeyInv
  <2>5. QED
    BY <1>1, <2>3, <2>4
<1>2. CASE HandleCommand
  <2>1. /\ main.pc = "drain" /\ cmdQ # <<>> /\ cmdQ \in Seq(Commands) /\ cmdQ' = Tail(cmdQ)
        /\ theEventsOfInterest' = IF Head(cmdQ).id = "SUBSCRIBE_SDL_EVENT_TYPE"
                                  THEN theEventsOfInterest \union {Head(cmdQ).type}
                                  ELSE theEventsOfInterest
        /\ UNCHANGED <<device, main, evQ, sdlEvents, held, theCurrentKeyPressed>>
    BY <1>2 DEF HandleCommand, TypeInv, TypeOK
  <2>2. /\ Len(cmdQ) \in Nat /\ DOMAIN cmdQ = 1 .. Len(cmdQ) /\ DOMAIN cmdQ' = 1 .. Len(cmdQ) - 1
        /\ Head(cmdQ) = cmdQ[1] /\ \A i \in 1 .. Len(cmdQ) - 1 : cmdQ'[i] = cmdQ[i + 1]
    BY <2>1, HeadTailProperties, LenProperties, EmptySeq
  <2>3. Pending' = Pending
    BY <2>1 DEF Pending
  <2>4. ASSUME NEW t \in {"KEYUP", "KEYDOWN"}
        PROVE  t \in theEventsOfInterest' \/ \E i \in DOMAIN cmdQ' : cmdQ'[i] = Subscribe(t)
    <3>1. CASE t \in theEventsOfInterest
      BY <2>1, <3>1
    <3>2. ASSUME NEW i \in DOMAIN cmdQ, cmdQ[i] = Subscribe(t)
          PROVE  t \in theEventsOfInterest' \/ \E k \in DOMAIN cmdQ' : cmdQ'[k] = Subscribe(t)
      <4>1. CASE i = 1
        BY <2>1, <2>2, <3>2, <4>1 DEF Subscribe
      <4>2. CASE i # 1
        <5>1. i - 1 \in DOMAIN cmdQ' /\ cmdQ'[i - 1] = cmdQ[i]
          BY <2>2, <4>2
        <5>2. QED
          BY <3>2, <5>1
      <4>3. QED
        BY <4>1, <4>2
    <3>3. QED
      BY <2>1, <3>1, <3>2 DEF KeyInv
  <2>5. QED
    BY <2>1, <2>3, <2>4 DEF KeyInv
<1>3. CASE NoMoreCommands
  <2>1. /\ main.pc = "drain" /\ main'.pc = "wait" /\ DOMAIN cmdQ = {}
        /\ UNCHANGED <<device, evQ, sdlEvents, held, theCurrentKeyPressed, theEventsOfInterest>>
    BY <1>3 DEF NoMoreCommands, TypeInv, TypeOK
  <2>2. Pending' = Pending
    BY <2>1 DEF Pending
  <2>3. QED
    BY <2>1, <2>2 DEF KeyInv
<1>4. CASE WaitTimesOut \/ JoinEmulationThread
  <2>1. /\ main.pc \in {"wait", "join"} /\ main'.pc \in {"drain", "join", "done"}
        /\ UNCHANGED <<device, evQ, sdlEvents, held, theCurrentKeyPressed, theEventsOfInterest, cmdQ>>
    <3>1. main \in [pc : {"startup", "drain", "wait", "writeEvent", "join", "done"},
                    todo : Seq(Commands \union KeyEvents)]
      BY DEF TypeInv, TypeOK
    <3>2. CASE WaitTimesOut
      BY <3>2 DEF WaitTimesOut, LoopAgain
    <3>3. CASE JoinEmulationThread
      BY <3>1, <3>3 DEF JoinEmulationThread
    <3>4. QED
      BY <1>4, <3>2, <3>3
  <2>2. Pending' = Pending
    BY <2>1 DEF Pending
  <2>3. QED
    BY <2>1, <2>2, KeyInvStep
<1>5. CASE ReceiveQuit
  <2>1. /\ main.pc = "wait" /\ main'.pc = "join" /\ sdlEvents # <<>> /\ Head(sdlEvents) = Quit
        /\ sdlEvents' = Tail(sdlEvents)
        /\ UNCHANGED <<device, evQ, held, theCurrentKeyPressed, theEventsOfInterest>>
    BY <1>5 DEF ReceiveQuit, TypeInv, TypeOK
  <2>2. /\ Pending \in Seq(Events) /\ evQ \in Seq(Events) /\ sdlEvents \in Seq(Events)
        /\ Pending = evQ \o sdlEvents /\ Pending' = evQ \o Tail(sdlEvents)
    <3>1. Pending' = (evQ \o <<>>) \o Tail(sdlEvents)
      BY <2>1 DEF Pending
    <3>2. QED
      BY <2>1, <3>1, PendingIs
  <2>3. /\ Tail(sdlEvents) \in Seq(Events) /\ Len(Tail(sdlEvents)) = Len(sdlEvents) - 1
        /\ Len(sdlEvents) \in Nat /\ Len(sdlEvents) > 0 /\ Len(evQ) \in Nat /\ sdlEvents[1] = Quit
        /\ \A i \in 1 .. Len(Tail(sdlEvents)) : Tail(sdlEvents)[i] = sdlEvents[i + 1]
    BY <2>1, <2>2, HeadTailProperties, LenProperties, EmptySeq
  <2>4. PICK k : k = Len(evQ) + 1
    OBVIOUS
  <2>5. /\ Pending' \in Seq(Events) /\ Len(Pending') = Len(evQ) + Len(sdlEvents) - 1
        /\ Len(Pending) = Len(evQ) + Len(sdlEvents) /\ k \in 1 .. Len(Pending)
        /\ Len(Pending) = Len(Pending') + 1
    BY <2>2, <2>3, <2>4, ConcatProperties
  <2>6. \A i \in 1 .. k - 1 : Pending'[i] = Pending[i]
    BY <2>2, <2>3, <2>4, ConcatProperties
  <2>7. Pending[k] = Quit
    BY <2>2, <2>3, <2>4, ConcatProperties
  <2>8. ASSUME NEW i \in k .. Len(Pending') PROVE Pending'[i] = Pending[i + 1]
    <3>1. Pending'[i] = Tail(sdlEvents)[i - Len(evQ)] /\ Pending[i + 1] = sdlEvents[i + 1 - Len(evQ)]
      BY <2>2, <2>3, <2>4, <2>5, ConcatProperties
    <3>2. i - Len(evQ) \in 1 .. Len(Tail(sdlEvents)) /\ (i - Len(evQ)) + 1 = i + 1 - Len(evQ)
      BY <2>3, <2>4, <2>5
    <3>3. QED
      BY <2>3, <3>1, <3>2
  <2>9. \A key \in Keys : ~Changes(key, Quit)
    BY DEF Changes, Quit, KeyEvent
  <2>10. \A key \in Keys : Stays(key, theCurrentKeyPressed, Pending') => Stays(key, theCurrentKeyPressed, Pending)
    BY <2>2, <2>5, <2>6, <2>7, <2>8, <2>9, StaysWithoutOne
  <2>11. QED
    BY <2>1, <2>10 DEF KeyInv
<1>6. CASE ReceiveKeyEvent
  <2>1. /\ main.pc = "wait" /\ sdlEvents # <<>> /\ Head(sdlEvents) # Quit /\ sdlEvents' = Tail(sdlEvents)
        /\ UNCHANGED <<device, evQ, held, theCurrentKeyPressed, theEventsOfInterest, cmdQ>>
    BY <1>6 DEF ReceiveKeyEvent
  <2>2. Head(sdlEvents) \in KeyEvents
    BY <2>1 DEF TypeInv, TypeOK
  <2>3. Head(sdlEvents).type \in theEventsOfInterest
    BY <2>1, <2>2 DEF KeyInv, KeyEvents
  <2>4. main'.pc = "writeEvent" /\ main'.todo = <<Head(sdlEvents)>>
    BY <1>6, <2>3 DEF ReceiveKeyEvent
  <2>5. Pending' = Append(evQ, Head(sdlEvents)) \o Tail(sdlEvents)
    <3>1. Pending' = (evQ \o <<Head(sdlEvents)>>) \o Tail(sdlEvents)
      BY <2>1, <2>4 DEF Pending
    <3>2. evQ \o <<Head(sdlEvents)>> = Append(evQ, Head(sdlEvents))
      BY <2>2, PendingIs, AppendIsConcat DEF Events
    <3>3. QED
      BY <3>1, <3>2
  <2>6. Pending' = Pending
    BY <2>1, <2>5, PendingIs, MovedIsTheSame
  <2>7. QED
    BY <2>1, <2>4, <2>6, KeyInvStep
<1>7. CASE WriteEvent
  <2>1. /\ main.pc = "writeEvent" /\ main'.pc \in {"drain", "join"} /\ evQ' = Append(evQ, Head(main.todo))
        /\ UNCHANGED <<device, sdlEvents, held, theCurrentKeyPressed, theEventsOfInterest, cmdQ>>
    BY <1>7 DEF WriteEvent, LoopAgain
  <2>2. Pending' = (Append(evQ, Head(main.todo)) \o <<>>) \o sdlEvents
    BY <2>1 DEF Pending
  <2>3. Append(evQ, Head(main.todo)) \o <<>> = Append(evQ, Head(main.todo))
    BY <2>1, PendingIs, AppendProperties, ConcatEmptySeq
  <2>4. Pending' = Pending
    BY <2>1, <2>2, <2>3, PendingIs
  <2>5. QED
    BY <2>1, <2>4, KeyInvStep
<1>8. QED
  BY <1>1, <1>2, <1>3, <1>4, <1>5, <1>6, <1>7 DEF MainStep

LEMMA EmuKeepsKeys ==
  ASSUME TypeInv, KeyInv, EmuStep
  PROVE  KeyInv'
<1> USE DEF displayVars, deviceVars, userVars, history
<1>1. CASE ReadEvent
  <2>1. /\ evQ # <<>> /\ evQ' = Tail(evQ) /\ theCurrentKeyPressed' = KeyAfter(Head(evQ), theCurrentKeyPressed)
        /\ UNCHANGED <<device, main, cmdQ, sdlEvents, held, theEventsOfInterest>>
    BY <1>1 DEF ReadEvent
  <2>2. Head(evQ) \in KeyEvents
    BY <2>1 DEF TypeInv, TypeOK
  <2>3. Pending \in Seq(Events) /\ Pending # <<>> /\ Head(Pending) = Head(evQ) /\ Pending' = Tail(Pending)
    <3>1. Pending = (evQ \o Forwarded) \o sdlEvents /\ Pending' = (Tail(evQ) \o Forwarded) \o sdlEvents
      BY <2>1 DEF Pending, Forwarded
    <3>2. evQ \in Seq(Events) /\ sdlEvents \in Seq(Events) /\ Forwarded \in Seq(Events)
      BY PendingIs
    <3>3. \A s, t \in Seq(Events) :
            s # <<>> => /\ s \o t \in Seq(Events) /\ s \o t # <<>>
                        /\ Head(s \o t) = Head(s) /\ Tail(s \o t) = Tail(s) \o t
      BY TailOfConcat
    <3>4. PICK front \in Seq(Events) :
            /\ front = evQ \o Forwarded /\ front # <<>>
            /\ Head(front) = Head(evQ) /\ Tail(front) = Tail(evQ) \o Forwarded
      BY <2>1, <3>2, <3>3
    <3>5. /\ Head(front \o sdlEvents) = Head(front) /\ Tail(front \o sdlEvents) = Tail(front) \o sdlEvents
          /\ front \o sdlEvents \in Seq(Events) /\ front \o sdlEvents # <<>>
      BY <3>2, <3>3, <3>4
    <3>6. QED
      BY <3>1, <3>3, <3>4, <3>5
  <2>4. \A key \in Keys : Stays(key, theCurrentKeyPressed', Pending') => Stays(key, theCurrentKeyPressed, Pending)
    BY <2>1, <2>2, <2>3, StaysAfterReading
  <2>5. QED
    BY <2>1, <2>4 DEF KeyInv
<1>2. CASE EmuStep /\ ~ReadEvent
  <2>1. UNCHANGED <<device, main, evQ, sdlEvents, held, theCurrentKeyPressed, theEventsOfInterest>>
    BY <1>2 DEF EmuStep, Loop, ExecuteDraw, ExecuteReadKey, EndInstruction, ExecuteHalt, Push, NoMoreEvents,
                HaltCallback
  <2>2. Pending' = Pending
    BY <2>1 DEF Pending
  <2>3. \A i \in DOMAIN cmdQ : i \in DOMAIN cmdQ' /\ cmdQ'[i] = cmdQ[i]
    BY <1>2, EmuAppends
  <2>4. QED
    BY <2>1, <2>2, <2>3, KeyInvStep
<1>3. QED
  BY <1>1, <1>2

LEMMA UserKeepsKeys ==
  ASSUME TypeInv, KeyInv, User
  PROVE  KeyInv'
<1> USE DEF displayVars, deviceVars, userVars, history
<1>1. UNCHANGED <<device, main, cmdQ, evQ, theCurrentKeyPressed, theEventsOfInterest>>
  BY DEF User, Close, PressOrRelease
<1>2. ASSUME NEW e \in Events, sdlEvents' = Append(sdlEvents, e)
      PROVE  Pending \in Seq(Events) /\ Pending' = Append(Pending, e)
  <2>1. /\ Pending = (evQ \o Forwarded) \o sdlEvents
        /\ Pending' = (evQ \o Forwarded) \o Append(sdlEvents, e)
    BY <1>1, <1>2 DEF Pending, Forwarded
  <2>2. evQ \o Forwarded \in Seq(Events) /\ sdlEvents \in Seq(Events) /\ Pending \in Seq(Events)
    BY PendingIs, ConcatProperties
  <2>3. QED
    BY <2>1, <2>2, ConcatAppend
<1>3. CASE Close
  <2>1. Quit \in Events /\ sdlEvents' = Append(sdlEvents, Quit) /\ held' = held
    BY <1>3 DEF Close, Events
  <2>2. \A key \in Keys : ~Changes(key, Quit)
    BY DEF Changes, Quit, KeyEvent
  <2>3. \A key \in Keys : Stays(key, theCurrentKeyPressed, Pending') => Stays(key, theCurrentKeyPressed, Pending)
    BY <1>2, <2>1, <2>2, StaysAfterAppend
  <2>4. QED
    BY <1>1, <2>1, <2>3 DEF KeyInv
<1>4. ASSUME NEW key \in Keys, PressOrRelease(key)
      PROVE  KeyInv'
  <2>1. PICK e \in KeyEvents :
          /\ sdlEvents' = Append(sdlEvents, e)
          /\ \/ e = KeyEvent("KEYDOWN", key) /\ held' = held \union {key}
             \/ e = KeyEvent("KEYUP", key) /\ held' = held \ {key}
    BY <1>4 DEF PressOrRelease, KeyEvent, KeyEvents
  <2>2. Pending \in Seq(Events) /\ Pending' = Append(Pending, e) /\ e \in Events
    BY <1>2, <2>1 DEF Events
  <2>3. ASSUME device, NEW k \in Keys \ held', Stays(k, theCurrentKeyPressed, Pending')
        PROVE  FALSE
    <3>1. IF Changes(k, e) THEN e = KeyEvent("KEYDOWN", k) ELSE Stays(k, theCurrentKeyPressed, Pending)
      BY <2>2, <2>3, StaysAfterAppend
    <3>2. CASE k = key
      BY <2>1, <2>3, <3>1, <3>2 DEF Changes, KeyEvent
    <3>3. CASE k # key
      <4>1. k \notin held
        BY <2>1, <2>3, <3>3
      <4>2. e # KeyEvent("KEYDOWN", k)
        BY <2>1, <3>3 DEF KeyEvent
      <4>3. QED
        BY <2>3, <3>1, <4>1, <4>2 DEF KeyInv
    <3>4. QED
      BY <3>2, <3>3
  <2>4. QED
    BY <1>1, <2>3 DEF KeyInv
<1>5. QED
  BY <1>3, <1>4 DEF User

\* When the byte at $ff has caught up with the events under way, it names no key that is
\* not held down: no event of a release is lost, overtaken or read before its press.
THEOREM NoStuckKeyCorrect == Spec => []NoStuckKey
<1> DEFINE Inv == TypeInv /\ StartupInv /\ HaltInv
<1>1. Init => KeyInv
  <2> SUFFICES ASSUME Init PROVE KeyInv
    OBVIOUS
  <2>1. Pending = <<>> /\ main.pc = "startup" /\ theCurrentKeyPressed = NoKey
    BY DEF Init, Pending
  <2>2. QED
    BY <2>1, ConstantsAssumption DEF KeyInv, Stays, NoKey
<1>2. Inv /\ KeyInv /\ [Next]_vars => KeyInv'
  <2> SUFFICES ASSUME Inv, KeyInv, [Next]_vars PROVE KeyInv'
    OBVIOUS
  <2>1. CASE UNCHANGED vars
    <3>1. Pending' = Pending
      BY <2>1 DEF vars, Pending
    <3>2. QED
      BY <2>1, <3>1, KeyInvStep DEF vars, displayVars, deviceVars, userVars, history
  <2>2. QED
    BY <2>1, MainKeepsKeys, EmuKeepsKeys, UserKeepsKeys DEF Next
<1>3. TypeInv /\ KeyInv => NoStuckKey
  <2> SUFFICES ASSUME TypeInv, KeyInv, device, main.pc \in {"wait", "writeEvent"},
                      NEW key \in Keys \ held, StaysDown(key, Pending)
               PROVE  FALSE
    BY DEF NoStuckKey
  <2>1. "KEYUP" \in theEventsOfInterest /\ "KEYDOWN" \in theEventsOfInterest
    BY DEF KeyInv
  <2>2. Stays(key, theCurrentKeyPressed, Pending)
    BY <2>1 DEF StaysDown, Stays, Changes, KeyEvent
  <2>3. QED
    BY <2>2 DEF KeyInv
<1>4. QED
  BY <1>1, <1>2, <1>3, HaltInvCorrect, PTL DEF Spec
=============================================================================
