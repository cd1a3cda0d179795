-------------------------- MODULE EmulatorDisplay --------------------------
(***************************************************************************)
(* The two threads of the emulator and the two queues between them         *)
(* (DisplayManager, Display, Easy6502JsDisplay, Easy6502JsInputDevice, and *)
(* the run loop of Cpu6502 without the debugger).                          *)
(*                                                                         *)
(* The main thread starts the emulation thread, sends the start-up         *)
(* commands, runs the display loop until the window is closed or the       *)
(* emulator halts, and joins the emulation thread.  The emulation thread   *)
(* executes an arbitrary program, each instruction of which may draw, poll *)
(* the keyboard and halt a few times.  The queues are the channels that    *)
(* SimpleQueue implements, counted in messages: all messages of one queue  *)
(* have the same size.                                                     *)
(***************************************************************************)
EXTENDS Naturals, Sequences

CONSTANTS DeviceConfigs,  \* subset of BOOLEAN: is a display device configured?
          Pixels,         \* screen positions
          Colors,         \* palette entries, 0 (black) among them
          Keys,           \* w, a, s, d
          CmdCapacity,    \* messages theDisplayCommandQueue can hold
          EventCapacity,  \* messages theEventQueue can hold
          MaxAccesses,    \* accesses of an instruction to a device or to nothing
          MaxKeyEvents    \* bound: key presses and releases of the user

ASSUME ConstantsAssumption ==
  /\ DeviceConfigs \subseteq BOOLEAN
  /\ 0 \in Colors /\ Colors \subseteq 0 .. 15
  /\ {CmdCapacity, EventCapacity, MaxAccesses, MaxKeyEvents} \subseteq Nat
  /\ CmdCapacity > 0
  /\ "none" \notin Keys

VARIABLES device,        \* theDisplayDevice # nullptr
          main,          \* the main thread: [pc, todo]; todo is what it has still to send
          runFlag,       \* of Display::startDisplay
          emu,           \* the emulation thread: [pc, accesses, todo]
          theRunFlag,    \* of Cpu6502
          cmdQ, evQ,     \* theDisplayCommandQueue, theEventQueue
          window,        \* theWindow and theRenderer exist
          screen,        \* what the renderer shows
          theEventsOfInterest,
          theDisplayFrame,
          theCurrentKeyPressed,
          sdlEvents,     \* SDL's own event queue
          held,          \* keys the user holds down
          keyEvents,     \* key events so far
          overtaken,     \* history: pixels whose last command the start-up will clear
          haltOvertaken  \* history: start-up commands follow the last halt

displayVars == <<runFlag, window, screen, theEventsOfInterest>>
deviceVars == <<theDisplayFrame, theCurrentKeyPressed>>
userVars == <<held, keyEvents>>
history == <<overtaken, haltOvertaken>>
vars == <<device, main, emu, theRunFlag, cmdQ, evQ, sdlEvents,
          displayVars, deviceVars, userVars, history>>

NoKey == "none"
KeyEvent(type, key) == [type |-> type, key |-> key]
Quit == [type |-> "QUIT"]

Cmd(id) == [id |-> id]
DrawPixel(p, c) == [id |-> "DRAW_PIXEL", pixel |-> p, color |-> c]
Subscribe(type) == [id |-> "SUBSCRIBE_SDL_EVENT_TYPE", type |-> type]

Black == [p \in Pixels |-> 0]
Unset == 16  \* what a new window shows: no entry of the palette

\* Mutant: one message too many.
HasRoomOffByOne(queue, capacity) == Len(queue) <= capacity

\* writeMessage blocks until there is room.
HasRoom(queue, capacity) == Len(queue) < capacity

----------------------------------------------------------------------------
(* DisplayManager::startEmulator and Easy6502JsDisplay::startDisplay: the  *)
(* commands that the main thread sends after it has created the other      *)
(* thread.                                                                 *)

\* Mutant: the screen is cleared before there is a window.
StartupClearFirst(hasDevice) ==
  IF hasDevice
  THEN <<Cmd("CLEAR_SCREEN"), Cmd("SET_RESOLUTION"), Cmd("SET_LOGICAL_SIZE"),
         Subscribe("KEYUP"), Subscribe("KEYDOWN")>>
  ELSE <<Cmd("NO_DISPLAY_DEVICE")>>

\* Mutant: the input device asks for key presses only.
StartupWithoutKeyUp(hasDevice) ==
  IF hasDevice
  THEN <<Cmd("SET_RESOLUTION"), Cmd("SET_LOGICAL_SIZE"), Cmd("CLEAR_SCREEN"),
         Subscribe("KEYDOWN")>>
  ELSE <<Cmd("NO_DISPLAY_DEVICE")>>

StartupCommands(hasDevice) ==
  IF hasDevice
  THEN <<Cmd("SET_RESOLUTION"), Cmd("SET_LOGICAL_SIZE"), Cmd("CLEAR_SCREEN"),
         Subscribe("KEYUP"), Subscribe("KEYDOWN")>>
  ELSE <<Cmd("NO_DISPLAY_DEVICE")>>

\* The display is still to be cleared, and the input device to join the device list.
ClearToSend ==
  main.pc = "startup" /\ \E i \in DOMAIN main.todo : main.todo[i].id = "CLEAR_SCREEN"

SendStartupCommand ==
  /\ main.pc = "startup"
  /\ main.todo # <<>>
  /\ HasRoom(cmdQ, CmdCapacity)
  /\ cmdQ' = Append(cmdQ, Head(main.todo))
  /\ main' = [main EXCEPT !.todo = Tail(main.todo)]
  /\ UNCHANGED <<device, emu, theRunFlag, evQ, sdlEvents, displayVars, deviceVars,
                 userVars, history>>

EnterDisplayLoop ==
  /\ main.pc = "startup"
  /\ main.todo = <<>>
  /\ main' = [main EXCEPT !.pc = "drain"]
  /\ UNCHANGED <<device, emu, theRunFlag, cmdQ, evQ, sdlEvents, displayVars, deviceVars,
                 userVars, history>>

----------------------------------------------------------------------------
(* Display::startDisplay.                                                  *)

\* What handleDisplayQueueCommand returns: whether the loop goes on.
KeepRunningSticky(cmd) == runFlag
KeepRunning(cmd) == cmd.id # "HALT_EMULATION"

\* Drawing without a renderer fails with a warning and draws nothing.
Drawn(cmd, shown) ==
  CASE cmd.id = "CLEAR_SCREEN" -> Black
    [] cmd.id = "DRAW_PIXEL" -> [shown EXCEPT ![cmd.pixel] = cmd.color]
    [] OTHER -> shown

\* The inner loop: every command in the queue is handled, and the last one decides
\* runFlag.
HandleCommand ==
  /\ main.pc = "drain"
  /\ cmdQ # <<>>
  /\ LET cmd == Head(cmdQ) IN
       /\ runFlag' = KeepRunning(cmd)
       /\ window' = (window \/ cmd.id = "SET_RESOLUTION")
       /\ screen' = IF window THEN Drawn(cmd, screen) ELSE screen
       /\ theEventsOfInterest' =
            IF cmd.id = "SUBSCRIBE_SDL_EVENT_TYPE"
            THEN theEventsOfInterest \union {cmd.type} ELSE theEventsOfInterest
  /\ cmdQ' = Tail(cmdQ)
  /\ UNCHANGED <<device, main, emu, theRunFlag, evQ, sdlEvents, deviceVars,
                 userVars, history>>

NoMoreCommands ==
  /\ main.pc = "drain"
  /\ cmdQ = <<>>
  /\ main' = [main EXCEPT !.pc = "wait"]
  /\ UNCHANGED <<device, emu, theRunFlag, cmdQ, evQ, sdlEvents, displayVars, deviceVars,
                 userVars, history>>

\* The condition of the outer loop; without a user's click the emulator has halted and
\* nobody needs to tell it.
LoopAgain ==
  main' = [pc |-> IF runFlag THEN "drain" ELSE "join", todo |-> <<>>]

\* SDL_WaitEventTimeout returns without an event.
WaitTimesOut ==
  /\ main.pc = "wait"
  /\ sdlEvents = <<>>
  /\ LoopAgain
  /\ UNCHANGED <<device, emu, theRunFlag, cmdQ, evQ, sdlEvents, displayVars, deviceVars,
                 userVars, history>>

\* Mutant: startEmulator joins the emulation thread without telling it to stop.
ReceiveQuitOnly ==
  /\ main.pc = "wait"
  /\ sdlEvents # <<>> /\ Head(sdlEvents) = Quit
  /\ main' = [main EXCEPT !.pc = "join"]
  /\ sdlEvents' = Tail(sdlEvents)
  /\ UNCHANGED <<device, emu, theRunFlag, cmdQ, evQ, displayVars, deviceVars,
                 userVars, history>>

\* SDL_QUIT leaves startDisplay at once, and startEmulator calls exitEmulation.
ReceiveQuit ==
  /\ main.pc = "wait"
  /\ sdlEvents # <<>> /\ Head(sdlEvents) = Quit
  /\ main' = [main EXCEPT !.pc = "join"]
  /\ theRunFlag' = FALSE
  /\ sdlEvents' = Tail(sdlEvents)
  /\ UNCHANGED <<device, emu, cmdQ, evQ, displayVars, deviceVars, userVars, history>>

ReceiveKeyEvent ==
  /\ main.pc = "wait"
  /\ sdlEvents # <<>> /\ Head(sdlEvents) # Quit
  /\ IF Head(sdlEvents).type \in theEventsOfInterest
     THEN main' = [pc |-> "writeEvent", todo |-> <<Head(sdlEvents)>>]
     ELSE LoopAgain
  /\ sdlEvents' = Tail(sdlEvents)
  /\ UNCHANGED <<device, emu, theRunFlag, cmdQ, evQ, displayVars, deviceVars,
                 userVars, history>>

\* The display thread, too, blocks when its queue is full.
WriteEvent ==
  /\ main.pc = "writeEvent"
  /\ HasRoom(evQ, EventCapacity)
  /\ evQ' = Append(evQ, Head(main.todo))
  /\ LoopAgain
  /\ UNCHANGED <<device, emu, theRunFlag, cmdQ, sdlEvents, displayVars, deviceVars,
                 userVars, history>>

\* SDL_WaitThread.
JoinEmulationThread ==
  /\ main.pc = "join"
  /\ emu.pc = "exited"
  /\ main' = [main EXCEPT !.pc = "done"]
  /\ UNCHANGED <<device, emu, theRunFlag, cmdQ, evQ, sdlEvents, displayVars, deviceVars,
                 userVars, history>>

MainStep == \/ SendStartupCommand \/ EnterDisplayLoop \/ HandleCommand \/ NoMoreCommands
            \/ WaitTimesOut \/ ReceiveQuit \/ ReceiveKeyEvent \/ WriteEvent
            \/ JoinEmulationThread

----------------------------------------------------------------------------
(* Cpu6502::start, and the accesses of an instruction that reach the other *)
(* thread.                                                                 *)

\* The test of theRunFlag at the end of decode and in the condition of the loop.  Only a
\* delay of a millisecond stands between the creation of the thread and its first
\* instruction: the program may run while the start-up commands are being sent.
Loop ==
  /\ emu.pc = "loop"
  /\ emu' = IF theRunFlag THEN [emu EXCEPT !.pc = "execute"]
            ELSE [emu EXCEPT !.pc = "callback", !.todo = <<Cmd("HALT_EMULATION")>>]
  /\ UNCHANGED <<device, main, theRunFlag, cmdQ, evQ, sdlEvents, displayVars, deviceVars,
                 userVars, history>>

\* The instruction under way makes one more access that goes to place pc of the code.
Access(pc, todo) ==
  /\ emu.pc = "execute"
  /\ emu.accesses < MaxAccesses
  /\ emu' = [pc |-> pc, accesses |-> emu.accesses + 1, todo |-> todo]

\* Easy6502JsDisplay::write8: the frame first, then the command for the display.
ExecuteDraw(p, c) ==
  /\ device
  /\ Access("push", <<DrawPixel(p, c)>>)
  /\ theDisplayFrame' = [theDisplayFrame EXCEPT ![p] = c]
  /\ overtaken' = overtaken \ {p}
  /\ UNCHANGED <<device, main, theRunFlag, cmdQ, evQ, sdlEvents, displayVars,
                 theCurrentKeyPressed, userVars, haltOvertaken>>

\* Easy6502JsInputDevice::read8 reads the event queue until it is empty.
ExecuteReadKey ==
  /\ device /\ ~ClearToSend
  /\ Access("readKey", <<>>)
  /\ UNCHANGED <<device, main, theRunFlag, cmdQ, evQ, sdlEvents, displayVars, deviceVars,
                 userVars, history>>

\* Mutant: halt() leaves the run loop running.
HaltKeepsRunning ==
  /\ Access("push", <<Cmd("HALT_EMULATION")>>)
  /\ UNCHANGED <<device, main, theRunFlag, cmdQ, evQ, sdlEvents, displayVars, deviceVars,
                 userVars, history>>

\* Cpu6502::halt without a debugger: the run flag, then the halt callbacks.  Every access
\* to an address without a device halts, and so does the step limit; the instruction goes
\* on with its other accesses.
ExecuteHalt ==
  /\ Access("push", <<Cmd("HALT_EMULATION")>>)
  /\ theRunFlag' = FALSE
  /\ UNCHANGED <<device, main, cmdQ, evQ, sdlEvents, displayVars, deviceVars,
                 userVars, history>>

\* What is left of the instruction concerns this thread only.
EndInstruction ==
  /\ emu.pc = "execute"
  /\ emu' = [emu EXCEPT !.pc = "loop", !.accesses = 0]
  /\ UNCHANGED <<device, main, theRunFlag, cmdQ, evQ, sdlEvents, displayVars, deviceVars,
                 userVars, history>>

\* writeMessage in the middle of an instruction; it waits for room.
Push ==
  /\ emu.pc = "push"
  /\ HasRoom(cmdQ, CmdCapacity)
  /\ LET cmd == Head(emu.todo) IN
       /\ cmdQ' = Append(cmdQ, cmd)
       /\ overtaken' = IF ClearToSend /\ cmd.id = "DRAW_PIXEL"
                       THEN overtaken \union {cmd.pixel} ELSE overtaken
  /\ emu' = [emu EXCEPT !.pc = "execute", !.todo = <<>>]
  /\ UNCHANGED <<device, main, theRunFlag, evQ, sdlEvents, displayVars, deviceVars, userVars,
                 haltOvertaken>>

\* processSdlEvent: the byte at $ff.
KeyAfter(ev, current) ==
  IF ev.type = "KEYDOWN" THEN ev.key
  ELSE IF current = ev.key THEN NoKey ELSE current

ReadEvent ==
  /\ emu.pc = "readKey"
  /\ evQ # <<>>
  /\ theCurrentKeyPressed' = KeyAfter(Head(evQ), theCurrentKeyPressed)
  /\ evQ' = Tail(evQ)
  /\ UNCHANGED <<device, main, emu, theRunFlag, cmdQ, sdlEvents, displayVars,
                 theDisplayFrame, userVars, history>>

NoMoreEvents ==
  /\ emu.pc = "readKey"
  /\ evQ = <<>>
  /\ emu' = [emu EXCEPT !.pc = "execute"]
  /\ UNCHANGED <<device, main, theRunFlag, cmdQ, evQ, sdlEvents, displayVars, deviceVars,
                 userVars, history>>

\* Mutant: start() returns without the halt callbacks.
HaltCallbackSkipped ==
  /\ emu.pc = "callback"
  /\ emu' = [emu EXCEPT !.pc = "exited", !.todo = <<>>]
  /\ UNCHANGED <<device, main, theRunFlag, cmdQ, evQ, sdlEvents, displayVars, deviceVars,
                 userVars, history>>

\* The halt callbacks at the end of start(), the emulation thread's last command.
HaltCallback ==
  /\ emu.pc = "callback"
  /\ HasRoom(cmdQ, CmdCapacity)
  /\ cmdQ' = Append(cmdQ, Head(emu.todo))
  /\ emu' = [emu EXCEPT !.pc = "exited", !.todo = <<>>]
  /\ haltOvertaken' = (main.pc = "startup" /\ main.todo # <<>>)
  /\ UNCHANGED <<device, main, theRunFlag, evQ, sdlEvents, displayVars, deviceVars, userVars,
                 overtaken>>

EmuStep == \/ Loop
           \/ \E p \in Pixels, c \in Colors : ExecuteDraw(p, c)
           \/ ExecuteReadKey \/ ExecuteHalt \/ EndInstruction
           \/ Push \/ ReadEvent \/ NoMoreEvents \/ HaltCallback

----------------------------------------------------------------------------
(* The user, through SDL.                                                  *)

\* A key goes down or up, or is held down until the keyboard repeats it.
PressOrRelease(key) ==
  /\ window
  /\ keyEvents < MaxKeyEvents
  /\ keyEvents' = keyEvents + 1
  /\ \/ /\ held' = held \union {key}
        /\ sdlEvents' = Append(sdlEvents, KeyEvent("KEYDOWN", key))
     \/ /\ key \in held
        /\ held' = held \ {key}
        /\ sdlEvents' = Append(sdlEvents, KeyEvent("KEYUP", key))
  /\ UNCHANGED <<device, main, emu, theRunFlag, cmdQ, evQ, displayVars, deviceVars,
                 history>>

\* A click on the window's X, or the SIGINT that SDL turns into the same event.
Close ==
  /\ \A i \in DOMAIN sdlEvents : sdlEvents[i] # Quit
  /\ main.pc \notin {"join", "done"}
  /\ sdlEvents' = Append(sdlEvents, Quit)
  /\ UNCHANGED <<device, main, emu, theRunFlag, cmdQ, evQ, displayVars, deviceVars,
                 userVars, history>>

User == Close \/ \E key \in Keys : PressOrRelease(key)

----------------------------------------------------------------------------
\* Before startEmulator: resetAll has made the display device queue a CLEAR_SCREEN.
Init ==
  /\ device \in DeviceConfigs
  /\ main = [pc |-> "startup", todo |-> StartupCommands(device)]
  /\ runFlag = TRUE
  /\ emu = [pc |-> "loop", accesses |-> 0, todo |-> <<>>]
  /\ theRunFlag = TRUE
  /\ cmdQ = IF device THEN <<Cmd("CLEAR_SCREEN")>> ELSE <<>>
  /\ evQ = <<>>
  /\ window = FALSE
  /\ screen = [p \in Pixels |-> Unset]
  /\ theEventsOfInterest = {}
  /\ theDisplayFrame = Black
  /\ theCurrentKeyPressed = NoKey
  /\ sdlEvents = <<>>
  /\ held = {}
  /\ keyEvents = 0
  /\ overtaken = {} /\ haltOvertaken = FALSE

Next == MainStep \/ EmuStep \/ User

\* Both threads run; the user owes nothing, and the program may go on for ever.
Spec == Init /\ [][Next]_vars /\ WF_vars(MainStep) /\ WF_vars(EmuStep)

----------------------------------------------------------------------------
(* Properties.                                                             *)

Commands == [id : {"HALT_EMULATION", "SET_RESOLUTION", "SET_LOGICAL_SIZE", "CLEAR_SCREEN",
                   "NO_DISPLAY_DEVICE"}]
            \union {DrawPixel(p, c) : p \in Pixels, c \in Colors}
            \union {Subscribe(t) : t \in {"KEYUP", "KEYDOWN"}}
KeyEvents == [type : {"KEYUP", "KEYDOWN"}, key : Keys]

\* Types, and the two queues within their capacities.
TypeOK ==
  /\ device \in BOOLEAN
  /\ main \in [pc : {"startup", "drain", "wait", "writeEvent", "join", "done"},
              todo : Seq(Commands \union KeyEvents)]
  /\ emu \in [pc : {"loop", "execute", "push", "readKey", "callback", "exited"},
             accesses : 0 .. MaxAccesses, todo : Seq(Commands)]
  /\ {runFlag, theRunFlag, window, haltOvertaken} \subseteq BOOLEAN
  /\ overtaken \subseteq Pixels
  /\ cmdQ \in Seq(Commands) /\ Len(cmdQ) <= CmdCapacity
  /\ evQ \in Seq(KeyEvents) /\ Len(evQ) <= EventCapacity
  /\ screen \in [Pixels -> Colors \union {Unset}]
  /\ theEventsOfInterest \subseteq {"KEYUP", "KEYDOWN"}
  /\ theDisplayFrame \in [Pixels -> Colors]
  /\ theCurrentKeyPressed \in Keys \union {NoKey}
  /\ sdlEvents \in Seq(KeyEvents \union {Quit})
  /\ held \subseteq Keys
  /\ keyEvents \in 0 .. MaxKeyEvents

\* The commands that the screen lags behind, the one of a blocked writeMessage included.
UnderWay == IF emu.pc = "push" THEN cmdQ \o emu.todo ELSE cmdQ

\* Does the i-th of them change pixel p, given that there will be a renderer then?
Paints(commands, i, p) ==
  /\ \/ commands[i].id = "CLEAR_SCREEN"
     \/ commands[i].id = "DRAW_PIXEL" /\ commands[i].pixel = p
  /\ window \/ \E j \in 1 .. i - 1 : commands[j].id = "SET_RESOLUTION"
Paint(cmd) == IF cmd.id = "CLEAR_SCREEN" THEN 0 ELSE cmd.color

\* What pixel p shows when these commands are handled: the color of the last one that
\* changes it, or else the color it has.
WillShow(commands, p, color) ==
  \/ /\ \A i \in DOMAIN commands : ~Paints(commands, i, p)
     /\ screen[p] = color
  \/ \E i \in DOMAIN commands :
       /\ Paints(commands, i, p)
       /\ \A j \in i + 1 .. Len(commands) : ~Paints(commands, j, p)
       /\ Paint(commands[i]) = color

\* The screen lags behind the memory of the display device by exactly the commands
\* under way: once they are drawn it shows theDisplayFrame, however often a pixel was
\* overwritten meanwhile.  The pixels that a program draws before the start-up has sent
\* its CLEAR_SCREEN are black until the program draws them again.
ScreenShowsFrame ==
  device /\ ~ClearToSend =>
    \A p \in Pixels : WillShow(UnderWay, p, IF p \in overtaken THEN 0 ELSE theDisplayFrame[p])

\* The display loop lets the last command of a drain decide, so a command behind a
\* HALT_EMULATION cancels it.  A program's halt has the last word all the same: when the
\* emulation thread is gone, a HALT_EMULATION is the last command or has been obeyed,
\* unless it was sent before the start-up commands.
HaltIsFinal ==
  emu.pc = "exited" /\ ~haltOvertaken =>
    IF cmdQ = <<>> THEN ~runFlag ELSE cmdQ[Len(cmdQ)].id = "HALT_EMULATION"

\* When startDisplay returns because of a command, the emulator has indeed stopped
\* executing, which is why startEmulator does not call exitEmulation then.
ClosedMeansHalted == main.pc \in {"join", "done"} => ~theRunFlag

\* The events the program has still to read, in their order; those at the end are in SDL's
\* queue, and the display thread forwards the ones of interest.
Pending == evQ \o (IF main.pc = "writeEvent" THEN main.todo ELSE <<>>) \o sdlEvents

\* The byte at $ff will name this key when the program has read these events: it is the
\* key pressed last, and its release is not among them.
StaysDown(key, events) ==
  LET Changes(i) == /\ events[i].type \in theEventsOfInterest
                    /\ events[i].type = "KEYDOWN" \/ events[i] = KeyEvent("KEYUP", key)
  IN \/ /\ theCurrentKeyPressed = key
        /\ \A i \in DOMAIN events : ~Changes(i)
     \/ \E i \in DOMAIN events :
          /\ events[i] = KeyEvent("KEYDOWN", key) /\ Changes(i)
          /\ \A j \in i + 1 .. Len(events) : ~Changes(j)

\* No key sticks: the byte at $ff names no key that the user does not hold, as soon as the
\* program has read the events under way.
NoStuckKey ==
  device /\ main.pc \in {"wait", "writeEvent"} =>
    \A key \in Keys \ held : ~StaysDown(key, Pending)

\* The emulator's way to signal to the display that it wants to quit: a halt closes the
\* display.
HaltClosesDisplay ==
  (emu.pc = "callback" /\ main.pc # "startup") ~> main.pc \in {"join", "done"}

\* It does, unless the display thread is waiting for room in the event queue.
HaltClosesOrBlocks ==
  (emu.pc = "callback" /\ main.pc # "startup")
    ~> \/ main.pc \in {"join", "done"}
       \/ main.pc = "writeEvent" /\ Len(evQ) = EventCapacity

\* Closing the display ends the program: the emulation thread can be joined, if only
\* the command queue has room for what the instruction under way and the halt callbacks at
\* the end of start() may still send.
CloseEndsProgram ==
  (main.pc = "join" /\ Len(cmdQ) + MaxAccesses + 1 <= CmdCapacity) ~> main.pc = "done"
=============================================================================
