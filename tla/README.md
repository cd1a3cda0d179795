# emu6502 in TLA+

emu6502 is an emulator of a 6502 computer: a CPU, memory devices configured by
`type.name.member=value` lines, an SDL window driven by one of those devices, a keyboard, and a debugger that a
Python client reaches over TCP. This directory holds its formal model: TLA+
modules translated from the C++ source, TLC configurations that check them on small
instances, and proofs checked by TLAPS. Source paths below are relative to `src/src/`.

## The system

| Component | State | Operations | Made correct by |
|---|---|---|---|
| Message queue (`SimpleQueue.cpp`) | ring of bytes, write and read position, atomic count of bytes queued | `writeMessage`, `tryWriteMessage`, `readMessage`, `tryReadMessage`, `readNextMessageSize`, `tryReadNextMessageSize` | messages arrive whole, once, in order; the two threads never touch the same byte; a failed read loses nothing; a blocked call returns |
| Display thread (`DisplayManager.cpp`, `Display.cpp`, `EmuMain.cpp`) | `runFlag`, window, renderer, event types of interest | start-up commands, the command/event loop, close, join | the window shows the device's frame; a halt closes it; closing it ends the program |
| Emulation thread (`Cpu6502::start`, `halt`, `exitEmulation`) | `theRunFlag` | run loop, halt, callbacks | it stops when told to, and tells the display when it stops |
| Display and input device (`Easy6502JsDisplay.cpp`, `Easy6502JsInputDevice.cpp`) | frame; key byte at `$ff` | `write8`, `read8`, `processEventQueue`, `startDisplay` | pixels in order; no key stays down |
| Debugger (`DebugServer.cpp`, `DebuggerState.cpp`, `DebugClient/dbgClient.py`) | pause/step/run state, breakpoints, connection, receive buffer | `debugHook`, `processCommand`, `sendResponse`, connect, disconnect | steps are exact, breakpoints stop, requests are answered, QUIT quits |
| CPU core (`Cpu6502.cpp`, `Decoder6502.cpp`, op-code table) | registers, flags, PC, stack pointer, `theOperandAddr`, clock, step count, run flag | fetch, addressing mode, 256 op-codes, clock and step limit, run loop, halt | arithmetic, flags and jumps are those of a 6502; a pull undoes its push; nothing runs after a halt; a program with a step limit ends |
| Memory map (`MemoryController.cpp`, `MemoryDev.cpp`, RAM, ROM, mirror, random number device) | sorted list of devices | add, delete, look up, reset, start address | every address has at most one device; lookup finds it; mirrors name the right byte |
| Cartridges (`NesRom.cpp`, `mappers/NRomMapper.cpp`), PPU stub | device list, image of the file, mapper | reset, read, write, reset vector | a cartridge with a configuration of its own would be loaded; this one ends the process |
| Disassembler (`Disassembler6502.cpp`, `DisMain.cpp`) | work list of entry points, listing, labels | analysis of paths, branch and call handlers, `printDisassembly`, `debugListing` | what the CPU may reach is listed; lines follow each other; both loops end |
| Configuration (`ConfigManager.cpp`, `Utils.cpp`, `MemoryFactory.cpp`, `EmuMain.cpp`) | list of options, built instances, start address | arguments, file, lookups, build, start address, reset | every option the user wrote is read, in the order that decides; the program starts where told, on a whole map or not at all |
| Logging, UART | none over time | formatting, and `exit(0)` behind a `LOG_FATAL`; a device no configuration builds | - |

How they interact. `EmuMain` builds everything in one thread; `DisplayManager::startEmulator`
then creates the emulation thread, and the main thread becomes the display thread. From there on the
two share:

* `theDisplayCommandQueue` (2048 bytes, 12-byte commands with a 4-byte header: 128
  messages), pushed by the emulation thread, and at start-up by the main thread too;
* the input device's event queue (2048 bytes, 60-byte frames: 34), pushed by the
  display thread;
* `theRunFlag` of the CPU, which `exitEmulation` clears from the display thread, and the
  device list of the memory controller, into which the main thread inserts the input
  device.

The debugger has no thread: `debugHook` runs in the emulation thread before every
instruction, polls the socket, and so alternates with the client's messages. `main` builds
the options, the devices and the start address before any thread exists, and resets the devices after that.
`LOG_FATAL` is `exit(0)` (`Logger.cpp:101`): whichever thread says it ends the process, as a debugger's `step 0`, an access
that a device refuses, a mirror of nothing and every configured cartridge do.
The disassembler is a program of its own (and the debugger's listing command): it runs the
decoder of the CPU with handlers that list instead of execute.

What is hard here is what two threads and a remote client do between two
lines: copies into a ring made without a lock, a queue that is full while its reader
waits for the other queue, a halt that overtakes or is overtaken by drawing commands, a
request served after the decision it should have influenced, a client that goes
away with a half-processed request. In the sequential parts it is arithmetic at 8 and 16
bits, in three places that must agree (handler, addressing mode, `updatePc`), an instruction
that goes on after it has halted the CPU, code that runs into itself or off the end of
memory, and decisions made before what they depend on exists. `PROJECT.json` lists these hazards at their lines,
with the property that covers each.

## The modules

| Module | Models |
|---|---|
| `MessageChannel` | what a message queue promises: a sequence of messages with a capacity in bytes |
| `SharedLemmas` | what several proofs share: induction and recursion over the naturals, sequences that grow and are joined, insertion into a list, remainders |
| `SimpleQueue` | `SimpleQueue.cpp`, one step per access to shared memory; implements `MessageChannel` |
| `SimpleQueueProofs` | TLAPS proofs about `SimpleQueue` |
| `EmulatorDisplay` | the display and the emulation thread with the queues between them |
| `EmulatorDisplayProofs` | TLAPS proofs about `EmulatorDisplay` |
| `DebugServer` | the debug hook, the debugger state, the connection and the client |
| `DebugServerProofs` | TLAPS proofs about `DebugServer` |
| `MemoryController` | the list of memory devices, mirrors, reset, and the program's accesses |
| `MemoryControllerProofs` | TLAPS proofs about `MemoryController` |
| `Cpu6502Defines` | the widths, the bit operators, the flags and `gOpCodes`, the table of all 256 op-codes |
| `Cpu6502` | `decode`, the addressing modes, every handler, the run loop |
| `StackDiscipline` | `Cpu6502` with a history of what its programs pushed |
| `Cpu6502Proofs` | TLAPS proofs about `Cpu6502` and `StackDiscipline` |
| `Disassembler6502` | the work list, the path, the labels and the printed listing |
| `Disassembler6502Proofs` | TLAPS proofs about `Disassembler6502` |
| `ConfigManager` | reading, splitting and looking up options |
| `Startup` | `main()` up to the threads, over `ConfigManager` and `MemoryController` |
| `StartupProofs` | TLAPS proofs about `Startup` |
| `MCSimpleQueue`, `MCEmulatorDisplay`, `MCDebugServer`, `MCMemoryController`, `MCCpu6502`, `MCDisassembler6502`, `MCStartup` | the instances for TLC |

`EmulatorDisplay` composes the threads over *channels* rather than over two `SimpleQueue`
rings: the run `queue_safety` checks and `SimpleQueueProofs` proves that a ring is such a
channel, so its bytes need not be carried along.

**SimpleQueue.** `theMessageBuffer`, `theWritePos`, `theReadPos` and
`theNumberOfBytesQueued` are the members of the class. `writer.pc` and `reader.pc` name
the place inside a call: `load` is the read of the counter (`FindRoom`, `FindNoRoom`,
`FindMessage`, `FindNothing`), `header`, `data`, `peek` and `copy` are about to copy, and
`publish` and `release` are about to move the counter. The reader carries the count it
loaded (`numBytesInQ`) as the code's local variable does. A byte is a model value, a length
header `HeaderSize` tagged bytes, so a header assembled from bytes of anything
else reads as an arbitrary length (`LengthIn`). `Masked` is `pos & theQueueSizeMask`,
written as a subtraction; an assumption of `MCSimpleQueue` checks that both agree.
`published` is a history variable, and the refinement maps the channel to it.

**EmulatorDisplay.** `main.pc` follows `startEmulator` and `startDisplay`: `startup` (the
commands still to send are `main.todo`), `drain` (the inner loop over the command
queue), `wait` (`SDL_WaitEventTimeout`), `writeEvent`, `join`, `done`. `emu.pc` follows
`Cpu6502::start`: `loop`, `execute`, `push` (a blocking `writeMessage` inside an
instruction), `readKey`, `callback` (the halt callbacks at the end of `start`), `exited`. The program that the CPU executes is
arbitrary: an instruction makes up to `MaxAccesses` accesses that reach the other thread, each of which draws, polls the keyboard or
halts (`halt` runs its callbacks for every access without a device, and the instruction goes on), and then ends.
Nothing but `SDL_Delay(1)` (`Cpu6502.cpp:161`) keeps the program back while the main thread is still sending its start-up commands,
so the model lets it run. Two history variables say what that costs: `overtaken` are the pixels whose last command the start-up's
`CLEAR_SCREEN` will clear, and `haltOvertaken` that the emulation thread's last halt was sent before start-up commands; they cancel it.
A message is sent in one step. What two writers do to a ring made for one, a device list that is inserted into while it is searched, and
a poll of the keyboard before its queue exists are undefined, and the model does not follow them.

**DebugServer.** `server` is a record with the members of `DebugServer` and
`DebuggerState`. `DebugHook` is one step because nothing in it waits: it composes, in
the code's order, the breakpoint check, the decision, the accept, one request and the
report of a halt. `Decode` is the instruction, which may fault or touch a watched
address. A receive buffer is remembered as the last request in it (`received`), since the code
goes on with that buffer after a failed receive (`LeftOver`, `Processed`); a header
whose length is not zero then makes it read from a null socket, and a listing that reaches an address without a device goes
through a null pointer (`Decoder6502.cpp:42`). Both are `Fatal` and end the process (`emu = "crashed"`). So does a step count of zero, by `LOG_FATAL`
(`exited`). A request arrives whole: the model does not split a frame over
several TCP segments. The client is `dbgClient.py`: it waits for one answer to
everything except the shutdown command.

**MemoryController.** `todo` is what `MemoryFactory::processConfigData` has still to build,
`theDevices` the vector of the controller; `AddNewDevice` is the whole of `addNewDevice`, the
overlap test on 16-bit ranges (`RangeOf`, `Wrapped`) and the sorted insertion. `ResetAll` gives
RAM, ROM and display their bytes (`theData`) and mirrors their pointer (`theRealMemDev`);
`StartDisplay` then adds the input device while the program, from `starting` on, reads and
writes. `Forward` is one call of a mirror, with the mask of the code (`BitAnd`), and `Target`
follows a chain of them. A mirror of nothing ends the process at the reset. An access that finds no device halts the CPU (`AccessNothing`), one that a
device refuses ends the process (`AccessOutside`), and one to the address behind a device's last byte, which `isAbsAddressValid` lets pass, is undefined
(`AccessPastEnd`); mirrors that mirror each other end in one of two ways (`AccessEndlessMirror`). `refused` and `writes` are history variables. What the
configuration promises (`CellOf`) is written apart from that, from ranges and a modulo, and for mirrors that
name the first address of a device whose size is a power of two (`RegularMirrors`).
An insertion is one step: the emulation thread that searches the vector at that moment is a
race with an undefined outcome, listed as a hazard.

**Cpu6502.** One step is one call of `decode`. `OperandAddr` is `preHandlerHook`: a mode without an
address leaves `theOperandAddr` as it was, which matters because `LAX` with an immediate
operand reads memory there. `Read`, `Written` and `Pushed` are `emulatorRead` and `emulatorWrite` on a memory
that is a function on the addresses that have a device; the cells an instruction accesses are the argument
of `Retire`, which is `postHandlerHook` and counts a halt for each access that fails, plus one for the
step limit. `UpdatePc` is the length that `decode` adds after the handler; `handler_jmp`, `handler_jsr`
and `handler_rti` subtract it first, branches, `RTS` and `BRK` do not. Flags are the set of those that
are 1. `Add`, `Compare`, `Branch` and so on are the families of handlers with one body in the code;
the unofficial op-codes are an action each. `FetchFault` is the null pointer `decode` goes through when an
operand byte has no device. `StackDiscipline` adds `frames`: for each `JSR`, `PHA`, `PHP`
and `BRK` where its bytes are and what the matching pull has to bring back; a frame ends when a
byte of it changes.

**Disassembler6502.** `phase` follows `start`: `analyse` takes the last entry
point of the work list, `path` decodes until there is no device (`theDeadEndFlag`), `print`
writes lines; `listing` is `debugListing`. A line's text is left out; a comment is remembered as the label it
names, a label as its prefix. `PrintReturns` may also crash: `main` gives a device on its stack to a
controller that deletes it at the end (`MemoryController.cpp:25`). `BranchTarget` keeps the code's arithmetic: the offset and the length of the branch
are added in a byte, so the offsets 0x7e and 0x7f name an address 256 too low.

**ConfigManager, Startup.** A text is a sequence of pieces: words and the separators the code
looks for (a blank, a period, an equals sign, the byte 0). `ProcessSingleArg` cuts an option at its first two periods
and its first equals sign wherever they are; `TokenizeSting` takes a word at the blank behind it; `LoadFile` loses what follows
a byte 0 in a block. The lookups take the first entry. `Startup` composes them: its `pc` follows `main`, `built` is how far
`MemoryFactory` has come, and the list of devices is that of `MemoryController`, whose
`AddNewDevice` and `GetDevice` it uses through `INSTANCE`. A file of `disk` has two readings of its bytes, the text for `loadFile` and
the length of a ROM's image. `ResetAll` ends the process for a mirror of nothing (`MirrorMemory.cpp:200`) and for every cartridge: its reset asks
whether `filename` was configured through `setStringConfigValue`, and `configSelf` writes the string directly (`NesRom.cpp:190`).
What a cartridge would do after that is code that never runs, and is not modelled.

## What the runs show

| Run | Question | Result |
|---|---|---|
| `queue_safety` | every interleaving of all six calls on an 8-byte ring | types, `NoDataRace`, `Accounting`, `FramesIntact` hold; the ring implements the channel |
| `queue_progress` | blocked writer, polling reader | `WriteReturns`, `EveryMessageIsRead` hold |
| `display_threads` | start-up beside a running program, drawing, keys, several halts, close, join | `ScreenShowsFrame`, `HaltIsFinal`, `ClosedMeansHalted` hold |
| `keyboard` | two keys pressed, repeated and released in any order, with queues that fill; halt and close | `NoStuckKey`, `HaltClosesOrBlocks`, `CloseEndsProgram` hold |
| `debugger` | any program, two connections, three requests | `StepsAreCounted`, `PausedFlagIsFresh`, `RequestIsAnswered`, `QuitEnds` hold |
| `memory_map` | every configuration of two or three devices, in every order, to the first write | `OrderedDisjoint`, `RefusedOnlyForOverlap`, `MirrorsAreFresh`, `AccessesStayInside`, `WritesReachTheirCell` hold |
| `cpu` | every op-code at the end of a page, stack programs, code at the end of memory | `ArithmeticIsExact`, `UnofficialIsComposition`, `JumpsLand`, `PullUndoesPush`, `HaltStops`, `EveryProgramEnds` hold |
| `disassembler` | ROMs of branches, calls and other instructions, one at the end of the address space | `ReachableIsListed`, `LinesCoverRom`, `DisassemblyEnds` hold |
| `startup` | every pair of arguments, with four configuration files and a ROM image that fits or does not | `OptionsAreRead`, `StartsWhereTold`, `RunsOnAWholeMap` hold |
| `event_flood` | does a halt always close the display? | no: the display thread may be blocked on a full event queue |
| `breakpoint` | is a breakpoint hit once per visit? | no: the flag flips at every hook |
| `brk_rti` | does an `RTI` return from a `BRK`? | no: `BRK` pushes three bytes and moves the stack pointer by two |

The last three are disagreements between the code and its own comments; `findings` in
`PROJECT.json` quotes both sides. The properties that hold are stated for what the code does; where
that is not what a comment, a usage text or a 6502 would say, the difference is
under *Divergences* below.

Every property of a passing run has a *mutant*, an operator of the module that changes
one definition the way a slip in the code would (comments `Mutant:` in the modules): with it
in place TLC finds the property violated.

### Bounds

* Queue: ring of 8, headers of 2, payloads of 0, 1, 6 (exactly full) and 7 (never fits)
  bytes: frames of 2, 3 and 8 bytes start at every position, so that the wrap falls
  inside headers and inside payloads. Buffers of 2 and 6 make reads of the same
  message fail and succeed. Nothing else is bounded: the run explores the queue for ever.
* Display: one pixel, two colors, an event queue of 1 and instructions of two accesses, so that one can draw behind its own halt.
  `display_threads` has a command queue of 8: all start-up commands, the `CLEAR_SCREEN` of the reset and two of the program fit in it, so that the program's
  can lie before, between and behind them. `keyboard` and `event_flood` have one of 6 and one color, and the program fills it. `keyboard`
  has 4 key events of two keys, for overlapping presses; the event queue fills there, with the display thread waiting for room, which
  `event_flood` shows to be the way a halt does not close the display.
* Debugger: two instruction addresses and one data address, two connections (a
  reconnection replaces a live or a dead one), three requests: set up, act, disturb;
  step counts of two and of zero. The
  hook may run any number of times between any two of them.
* Memory map: 16 addresses and twelve devices, among them RAM inside other RAM, a ROM inside
  the display, RAM where the input device goes, mirrors on and off a multiple of what they
  mirror, of a mirror, of the display, of itself, of the middle of a RAM and of the input device's address, and RAM that passes the last address.
  Two or three devices are enough for a collision, a chain of two mirrors and an insertion
  between two devices. One write is enough: `WritesReachTheirCell` is about single steps, the
  ROM starts with both values, and the late insertion happens before and after the write.
* CPU: each of the 256 op-codes as the last byte of a page (0x02ff), so that branches, operands and `updatePc` cross
  it, with five pairs of operand bytes (zero page wrap-around, page boundaries, a cell without memory), four accumulators at the
  edges of signed and unsigned bytes, and both carries; programs of three stack instructions
  with seven bodies of a subroutine, which nest, interleave and underflow the stack from both ends of its page; and
  every op-code with no or one byte behind it before memory ends. A step limit of 7 ends each of these
  behind its last instruction, or in a loop. `theOperandAddr`, which has no initializer, starts as 1 or
  40000, an address with and one without memory. What depends on all bytes is proved, not enumerated.
* Disassembler: every ROM of five bytes that begins with `NOP`, `BNE` or `JSR` and goes on with these or the bytes
  1, 253 (a branch back into itself) and 126 (the offset that leaves a signed byte): enough for two paths that
  overlap out of step, an entry point inside an instruction, and an instruction cut by the end. The ROM lies
  at 0x0101 or ends at 0xffff.
* Start-up: 64 addresses, of which one stands for 1024, which keep every mirror and overlap; all pairs of 22 arguments, five of them
  malformed, decide which option wins. The files add a mirror of something, of nothing or of itself, a cartridge alone or in the way of another
  device, an empty ROM at 0, and a text that ends at a byte 0.

### Fairness

`FairSpec` of `SimpleQueue`: each thread goes on inside a call, and the reader comes back
to the queue, as the display loop and `processEventQueue` do; the writer owes nothing.
`EmulatorDisplay`: both threads are scheduled (weak fairness of `MainStep` and `EmuStep`);
the user owes nothing, and neither does the program: it may never halt, draw or poll. `DebugServer`:
the emulation thread is scheduled, and a client that waits for an answer takes it when
it is there (a blocking `recv`); it need not send, connect or stay. `Cpu6502` and `Disassembler6502`: the one
thread is scheduled (weak fairness of `Next`). `Startup` has no liveness property.

`CloseEndsProgram` asks for room in the command queue, at the moment
the display is closed, for what the instruction under way and the end of `start` may still send (`MaxAccesses` and one more): nobody drains it afterwards,
and without the room the join waits for ever. `HaltClosesOrBlocks` and `HaltClosesDisplay` are about a halt after the start-up: a command
queue that is full before the display loop begins blocks both threads for good.

`ScreenShowsFrame` makes an exception for the pixels in `overtaken`, `HaltIsFinal` for `haltOvertaken`: both lose their command to the start-up in the code.

`PausedFlagIsFresh` excludes a breakpoint removed while the program stands at it (history
`visit.stale`): the code has no line that clears the flag then.

No configuration is left out of the memory map. `AccessesStayInside` says which mirrors can take an access behind the end of a device: those that name its
middle, as a mirror of RAM 0 to 3 with the source 1 does. The part of `WritesReachTheirCell` that says where a write goes holds with `RegularMirrors`; the
code checks neither of its two conditions, and another mirror reads other bytes than a repetition would. The part that says that nothing else changes
memory holds for all.
`OrderedDisjoint` and `RefusedOnlyForOverlap` are about devices that hold a byte and end inside the address
space (`Fits`): the 16-bit range of any other wraps, so one that passes 0xffff can overlap a
device unnoticed, and an empty ROM at 0 (a file that cannot be read) refuses all others.

`ReachableIsListed` leaves out the two branch offsets named above, and, like the code, does not follow jumps, whose
operand the disassembler lists and no more, nor calls, whose label it puts at the operand plus three.
`LinesCoverRom` is about the lines printed before `printDisassembly` runs off the end of memory, which it does for a ROM that
ends at 0xffff.

Deadlock is checked for `SimpleQueue`, which never stops. Every other program ends.

## What is proved

`SimpleQueueProofs` proves, for every header size, every ring of at least one header,
every set of messages and buffer sizes (assumptions `HeaderAssumption`,
`QueueSizeAssumption`, `MessagesAssumption`, `BufSizesAssumption`, `OpsAssumption`):

* `TypeCorrect`: `Spec => []TypeOK`
* `AccountingCorrect`: `Spec => []Accounting`
* `NoDataRaceTheorem`: `Spec => []NoDataRace`
* `FramesIntactCorrect`: `Spec => []FramesIntact`
* `Implements`: `Spec => ImplementsChannel`, the ring is a `MessageChannel`

The argument. `TypeOK` alone is not inductive: that the counter stays at most `QueueSize` when the
writer publishes depends on room it found several steps earlier, while the
reader was moving the counter. `IInv` therefore adds `Accounting`: the room found is still
there (`RoomReserved`, the reader only makes more), the bytes the reader counted are
still there (`SnapshotHolds`, the writer only adds), and `theWritePos` is where the oldest
counted byte, the counter and the bytes in flight say (`PositionsAgree`). Each action has
a lemma that it preserves `IInv`; `NextIInv` puts them together. `NoDataRace` follows from
`IInv` without induction: the reader's copy lies in the counted stretch of the ring
(`ReaderRegionCounted`), the writer's in the free one (`WriterRegionFree`).

`FramesIntact` says what is in the counted stretch, and is not inductive either: the bytes that a publication
adds were copied before. `FInv` is `IInv` with `StreamInv`: `FramesIntact`, the part of the frame that the
writer has copied so far (`InFlightIntact`), and that the reader's copy belongs to the first message
(`ReaderAtFirst`). The bytes of all messages are a recursive function of the history; that it has a solution, and
how it changes when a message is added or the first one leaves, comes from `SharedLemmas`.

The refinement goes step by step over `FInv`: a refused call and `FindNoRoom` map to `Refuse`, `Publish` to `Send`,
`FindNothing` to `ReceiveNothing`, `PeekSize` to `NextSize`, a `ReadHeader` that finds the buffer too small to `ReceiveTooBig`,
`Release` to `Receive`, everything else to a stutter. `ReadHeaderCases` shows that the branch for a header larger than what
is counted cannot be taken: a header always comes with its payload.

`MemoryControllerProofs` proves, for every address width and every set of configurations
(`AddressAssumption`, `ConfigurationAssumption`):

* `TypeCorrect`: `Spec => []TypeOK`
* `OrderedDisjointCorrect`: `Spec => []OrderedDisjoint`
* `OneOwner`: in such a state, devices that fit and claim the same address are the same device
* `MirrorsAreFreshCorrect`: `Spec => []MirrorsAreFresh`
* `RefusedOnlyForOverlapCorrect`: `Spec => []RefusedOnlyForOverlap` if no device is empty (`NoEmptyDevice`)
* `AccessesStayInsideCorrect`: `Spec => []AccessesStayInside`
* `WritesReachTheirCellCorrect`: `Spec => WritesReachTheirCell` if every device fits (`AllFit`)

The two conditions are about the configuration, and without them the properties fail: the range of an empty device
ends before it begins and overlaps what it shares no address with; and
the range of a device that passes 0xffff lets another one share its addresses.

The conjunction of `TypeOK` and `OrderedDisjoint` is inductive. The work is in the list:
`LeastNatural` (from the well-foundedness of `<`) gives `InsertPosition` and `GetDevice` the
element they choose, `InsertAtProperties` says what an insertion leaves where, `DisjointRanges`
that the overlap test is exact for devices that fit, and `InsertKeepsOrder` combines them by the position
of the new device. Every action has a lemma; those that only move the phase share one.
`MirrorsAreFresh` is not inductive, because the input device is inserted late and a mirror may name its address. `PInv` adds where devices
come from (`Provenance`), and that every mirror of a running emulator is resolved (`MirrorsInv`: the reset ends the process otherwise). So the source of a mirror
has an owner when the input device comes, and the input device, if it is not refused, goes behind every device that begins at its address or before: the search
finds the owner first (`InputTakesNothing`, `InsertionBehind`). `InsertionElsewhere` says
that `GetDevice` answers as before where the new device claims nothing. `RefusedForReason` remembers why each device was refused.

For the accesses, `BitAndRecursion` shows that the recursive `BitAnd` satisfies its equation, by doing the recursion as
often as there are addresses, `BitAndBound` that a mask bounds its result, and `MaskIsRemainder`, by halving, that masking with a power of
two less one is the remainder, which is how `CellOf` states what a mirror means. `HopsStayInside` follows the chain of mirrors;
`TargetIsCell` follows `CellOf` beside it and shows that both end at the same address, in the device that answers there.
The two parts of `WritesReachTheirCell` are then lemmas of their own: `WriteReachesCell`, and `OtherStepsKeepMemory`, whose hard case is
the late insertion (`InsertionKeepsTargets`): the list grows by one and with it the recursion of `Target`. `WInv` adds to
`PInv` that every device that holds data has its bytes.

`EmulatorDisplayProofs` proves, for every room in the two queues, every set of pixels, colors and keys and all bounds
(`ConstantsAssumption`):

* `TypeCorrect`: `Spec => []TypeOK`
* `HaltIsFinalCorrect`: `Spec => []HaltIsFinal`
* `ClosedMeansHaltedCorrect`: `Spec => []ClosedMeansHalted`
* `ScreenShowsFrameCorrect`: `Spec => []ScreenShowsFrame`
* `NoStuckKeyCorrect`: `Spec => []NoStuckKey`

None of the last four is inductive, because each speaks of messages that were decided on earlier. `TypeInv` adds to the types what
each thread has still to send. `StartupInv`: while the main thread sends its start-up commands, those it has sent are in the queue, in whatever company.
`HaltInv`: a halt in the queue, or one that was obeyed, means that `theRunFlag` is clear, and an emulation thread that is gone before the last start-up command
is overtaken. `ScreenInv`: before the `CLEAR_SCREEN` of the start-up is sent, every pixel that is not black is overtaken or about to be sent (`Awaited`); afterwards a
renderer exists, or the command that makes one is in the queue, and the commands under way lead from the screen to the frame, or to black where
overtaken (`Target`).
`KeyInv`: both types of key event are of interest to the display, or their subscriptions are still to be drained, so that no release is
missed of a key whose press was taken; and the events under way leave no key that is not held.

`DebugServerProofs` proves, for every set of addresses, requests and step counts (`StepCountsAssumption`, `RequestsAssumption`,
`BoundsAssumption`):

* `TypeCorrect`: `Spec => []TypeOK`
* `StepsAreCountedCorrect`: `Spec => []StepsAreCounted`
* `PausedFlagIsFreshCorrect`: `Spec => []PausedFlagIsFresh`

`StepsAreCounted` is inductive with `TypeOK`. `FlagInv` strengthens `PausedFlagIsFresh`: while the program runs the flag can only be
left over from a removed breakpoint, and in the hook the breakpoint it stands for is still there. The hook is one step that composes six
operators; they have lemmas on what they change (`Checking`, `Allowing`, `Accepting`, `Serving`, `Reporting`), and `Hooking` puts them together.

`Disassembler6502Proofs` proves, for every ROM, table of op-codes, set of entry points and of lengths of a listing
(`RomsAssumption`: bytes on an interval that is not the whole address space, since `theSize` has 16 bits; `EntryPointsAssumption`,
`ListingLengthsAssumption`, `OpCodeTableAssumption`):

* `TypeCorrect`: `Spec => []TypeOK`
* `ReachableIsListedCorrect`: `Spec => []ReachableIsListed`
* `LinesCoverRomCorrect`: `Spec => []LinesCoverRom`
* `RunsAreFinite`: `Spec => [][Progress]_vars`

`AnalysisInv` is what holds while paths are open: what is listed lies inside (`InsideInv`), its successor is listed or is where the path
goes on (`SuccessorInv`), its branch target has a label and is listed or waits in the work list or as the path's next instruction (`TargetInv`),
and the printing begins only when the work list is empty (`PrintInv`). `LinesInv` says where the next line begins.

`RunsAreFinite` is what `DisassemblyEnds` rests on: every step makes the number `StepsLeft` smaller, so no run takes more steps than that
number says of its initial state. The analysis needs it most, because a path goes through listed code again and
adds its branch targets to the work list each time. An unlisted address pays for the path that begins at it, which ends with the ROM (`AheadShrinks`), and for
one entry point per instruction (`Budget`).

`Cpu6502Proofs` proves, for every memory, start address, step limit and value of
`theOperandAddr` (`MemoriesAssumption`, `StartAssumption`, `StepLimitsAssumption`,
`UninitializedAssumption`, and `OpCodeTableAssumption` on the table, which TLC evaluates for all 256 entries):

* `TypeCorrect`: `Spec => []TypeOK`
* `HaltStopsCorrect`: `Spec => []HaltStops`
* `ArithmeticIsExactCorrect`: `Spec => ArithmeticIsExact`
* `UnofficialIsCompositionCorrect`: `Spec => UnofficialIsComposition`
* `JumpsLandCorrect`: `Spec => JumpsLand`
* `PullUndoesPushCorrect`: `SpecWithHistory => PullUndoesPush`
* `HistoryObserves`: `SpecWithHistory => Spec`

`HaltStops` is not inductive: that an instruction adds at most six halts to none needs that no halt has happened
while the program runs, and that `start` returns with at least two needs that a cleared run flag
has been counted. `HaltInv` says both, per value of `process`, and `IInv` is `TypeOK` and `HaltInv`. What the
handlers share is `Executed` (at most five cells, or three with an addressing mode) and `StateOK`; each
action has a lemma for these, and `InstructionKeepsIInv` the rest. The action properties follow from
`IInv` by a case split on the action; `ExecutingAction` says that of the actions only the one of the handler in the
op-code table can have been taken. Below them are lemmas on bytes for integers in general:
`AdditionIsExact` (the overflow formula against the signed sum), `ComparisonIsExact`, `ShiftedIsExact`,
`CarryIsBorrow` and `WordOfSum` (adding what was subtracted, modulo 2^16).

`PullUndoesPush` rests on `FramesIntact`, which is inductive with `IInv`: the cells of every frame hold the bytes of its push, in
the order in which the pull that ends it reads them. A frame whose cells are written is forgotten (`Remember`), so what
has to be shown is that the four pushes store such bytes, wherever in its page the stack pointer wraps, and that `RTS`, `PLA` and
`PLP` put them together again. No assumption is made on how a program uses its stack. `HistoryObserves` says that a
behaviour with the history is one of `Cpu6502`, so that what is proved of `Spec` holds of it.

`StartupProofs` proves, for every list of arguments, every disk and every address width (`ConfigAssumption`, `StartupAssumption`):

* `TypeCorrect`: `Spec => []TypeOK`
* `OptionsAreReadCorrect`: `Spec => []OptionsAreRead`
* `StartsWhereToldCorrect`: `Spec => []StartsWhereTold`
* `RunsOnAWholeMapCorrect`: `Spec => []RunsOnAWholeMap`
* `TokensAreWords`: `tokenizeSting` of every text is the sequence of its words

`IInv` has two parts, `ProgressInv` on the phases and `DeviceInv`: every device, in the map or refused, has 16-bit numbers, whatever text they came from
(`ConfiguredDeviceFits`), and the options are complete before the first device is built.
`MapInv` strengthens `RunsOnAWholeMap`. `BuiltInv`: while the map is built, every mirror in it has the source that the first of its options gives, and the device of
a cartridge is on the map or refused. `WholeInv`: behind the reset every mirror finds a device and no cartridge is on the map, and what refused it has a range
that reaches it (`InTheWayOfCartridge`).

`OptionsInv` strengthens `OptionsAreRead`: while the arguments are processed, the well-formed entries are the options among the arguments
seen so far. One argument adds its option, or an entry that no option can be taken for (`OptionIsParsed`,
`OtherIsParsed`), or ends the phase; then the words of the file follow in the same way (`FileIsRead`). They are appended, so the entry that named
the file stays the first of its kind. The words are those of a scan that remembers where the current one begins
(`BeginningOfWord`); `SelectedAppend` says how a selection grows with its sequence.
`StartInv` strengthens `StartsWhereTold`: while the map is built every ROM in it has the start address the options give it, and the list is
in the order of addresses, so that the first ROM with a start address lies lowest.

`SharedLemmas` is where induction and recursion enter all of these proofs. tlapm cannot instantiate the library's induction theorems, whose
parameter is an operator; `BoundedInduction` is therefore about a set of numbers and `RecursionExists` about a function that
gives the step, which are values. The recursive definitions of `ConfigManager` are proved about with these: the
scan of a text, the selection of entries and the loading of a file's words.

Only model-checked is liveness (for `DisassemblyEnds` all but `RunsAreFinite`), because fairness and `ENABLED` are outside the prover: `WriteReturns`, `EveryMessageIsRead`,
`HaltClosesOrBlocks`, `CloseEndsProgram`, `RequestIsAnswered`, `QuitEnds`, `EveryProgramEnds` and `DisassemblyEnds`. Every other
property of a passing run is stated by a theorem.

## What is not modelled

* Of the memory map, `deleteDevice` and the single-parameter setters (nothing calls them), 16-bit accesses (the CPU makes
  none) and the bytes of the random number device.
* `UartDevice`: its constructor is not among those of `MemoryFactory` and its receive thread is commented out. The PPU
  device: a stub. The formatting of `Logger` and of `Utils`; that `LOG_FATAL` ends the process is modelled where it is called.
* A cartridge's header, mapper and reset vector: its reset ends the process before it opens the file.
* Two threads in one ring or in the device list, during start-up: undefined, listed as hazards.
* Inside modelled parts: textures, scaling, `DC_DRAW_IMAGE`; the bytes of
  memory dumps and disassemblies; frames split over TCP segments; a malformed client.
* cJSON is vendored; `traceUtility.py` and `utils/` are off-line tools.

## Divergences

Where the model follows the code and not what stands beside it:

* CPU. Decimal mode is ignored. `CMP` takes its extra cycle on every indexed access, `BRK` takes none, taken branches do not agree
  on their base. The step limit permits one instruction more than it says (`Cpu6502.h:45`). The tests
  for a stack overflow (`Cpu6502.cpp:1266`, `:1803`) compare a byte with 0x0100 and are never true. `handler_rti` (`:1304`) keeps
  bits 4 and 5 if either the old or the popped status has them. `LAX` with an immediate operand reads memory at a
  stale address (`:1641`). One instruction can call the halt callbacks more than once.
* Threads. The program may run before the start-up commands are sent: what it draws before they clear the screen stays black, and a halt before them
  leaves the window open. `NO_DISPLAY_DEVICE` is tested the wrong way round
  (`Display.cpp:341`). A key that is held is forgotten when another is pressed (`Easy6502JsInputDevice.cpp:141`).
* Memory map. `isAbsAddressValid` (`MemoryDev.cpp:48`) accepts one address too many. `LOG_FATAL` leaves with the exit status 0.
* Debugger. A step count of zero ends the emulator (`DebuggerState.cpp:71`), a listing up to an address without a device crashes it. `debugHook` decides whether to execute before it serves the client (`DebugServer.cpp:105`). A breakpoint hit
  is reported even if no request waits for it (`:214`), and the client takes it for its answer.
* Disassembler. A label `entry_` replaces the label a comment already names. The label of a call is its operand plus
  three. An instruction cut by the end of the ROM, and a ROM that ends at 0xffff, end in a null pointer; `main` lets
  a controller delete an object of its stack. The option
  the usage text calls `--address` is `--addr`. A disassembler used for tracing collects entry points it never takes.
* Configuration. The usage texts name `ROM.x.address` and other members of `MirrorMemory` than the code
  reads; the JSON file of the repository's README is not read. The last word of a file without a blank behind it is lost. A value
  that is no number counts as 0. An option without an instance name is cut at the wrong places,
  and what comes out can be taken for one: a word `emulator.a=6.startAddress` becomes an `emulator` entry with the member
  `startAddress`, `config.a=x.filename` a `config.filename`. `OptionsAreRead` and `StartsWhereTold` therefore say what follows from the entries the code
  has, and `OptionsAreRead` that the well-formed ones among them are exactly the user's.
* Cartridges. A configured one ends the process at its reset (`NesRom.cpp:190`). The reset vector would not be used as a start address (`EmuMain.cpp:160`).
  A write to a ROM device (`RomMemory.cpp`) changes it.

## Plan

Done: all the modules above. Left:

1. The memory map under the two threads of `EmulatorDisplay`: a program that polls `$ff` before the
   input device is there is halted, and one whose RAM covers `$ff` leaves the event queue to fill.
