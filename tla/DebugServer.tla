---------------------------- MODULE DebugServer ----------------------------
(***************************************************************************)
(* The debugger (DebugServer, DebuggerState, Cpu6502::decodeWithDebugging) *)
(* and its client (dbgClient.py).                                          *)
(*                                                                         *)
(* The emulation thread calls debugHook before every instruction.  The     *)
(* hook checks the breakpoints, decides whether the instruction may be     *)
(* executed, serves one request of the client and reports a halt; all of   *)
(* that runs in one thread and is one step here.  The client is another    *)
(* program: it connects, sends a request, waits for one answer, and may go *)
(* away at any moment.  The program that is debugged is arbitrary.         *)
(***************************************************************************)
EXTENDS Integers, Sequences, FiniteSets

CONSTANTS Addresses,       \* where instructions may be
          DataAddresses,   \* what instructions may read or write
          StepCounts,      \* arguments of the STEP request
          Connections,     \* the connections the client makes, in order: 1 .. n
          ClientRequests,  \* the requests the client may send
          MaxRequests      \* bound: requests of the client

NoSocket == 0
ASSUME ConnectionsAssumption == Connections = 1 .. Cardinality(Connections)
ASSUME StepCountsAssumption == StepCounts \subseteq Nat
ASSUME BoundsAssumption == MaxRequests \in Nat
ASSUME DataAssumption == Addresses \intersect DataAddresses = {}

VARIABLES server,     \* the DebugServer and its DebuggerState, fields named as in the code
          emu,        \* where the emulation thread is
          thePc,
          theRunFlag,
          conns,      \* per connection: [up, toServer, toClient]; up while the client holds it
          backlog,    \* connections the server has not accepted yet
          client,     \* [conn, request]: its connection and the request it waits on
          requests,   \* requests sent so far
          visit,      \* history: has a breakpoint been hit here, is the flag for it stale
          steps       \* history: of the last STEP, what it asked for and what was executed

clientVars == <<backlog, client, requests>>
vars == <<server, emu, thePc, theRunFlag, conns, clientVars, visit, steps>>

Request(id, arg) == [id |-> id, arg |-> arg]
Nothing == Request("NONE", 0)
DumpRequests == {Request(id, 0) : id \in {"REGISTERS", "HALT", "CONTINUE"}}
                \union {Request("STEP", n) : n \in StepCounts}
BreakpointRequests ==
  {Request(id, a) : id \in {"ADD_BREAKPOINT", "REMOVE_BREAKPOINT"}, a \in Addresses \union DataAddresses}
TextRequests == {Request(id, 0) : id \in {"VERSION", "LIST", "MEMORY_DUMP"}}
Requests == DumpRequests \union BreakpointRequests \union TextRequests \union {Request("QUIT", 0)}

ASSUME RequestsAssumption == ClientRequests \subseteq Requests

\* Stands for a request in which the server dereferences a null pointer.
Fatal == Request("FATAL", 0)

Answer(kind, pc) == [kind |-> kind, pc |-> pc]

----------------------------------------------------------------------------
(* DebuggerState.                                                          *)

\* Mutant: a halt that is not fresh is never reported.
PauseEmulatorNotFresh(d) == [d EXCEPT !.theState = "PAUSE", !.theStepsLeft = -1]

PauseEmulator(d) == [d EXCEPT !.theState = "FRESH_HALT", !.theStepsLeft = 0]

\* LOG_FATAL ends the process, and its connection with it.
StepEmulator(d, n) ==
  IF n <= 0 THEN [d EXCEPT !.exited = TRUE, !.theClientSocket = NoSocket]
  ELSE [d EXCEPT !.theState = "STEPPING", !.theStepsLeft = n]

RunEmulator(d) == [d EXCEPT !.theState = "RUN", !.theStepsLeft = -1]
AcknowledgeHalt(d) == [d EXCEPT !.theState = "PAUSE", !.theStepsLeft = -1]

\* emulatorAllowExecution: its answer, and what it does to the state.
Allows(d) == d.theState = "RUN" \/ (d.theState = "STEPPING" /\ d.theStepsLeft # 0)
\* Mutant: a step is allowed and not counted.
AllowExecutionUncounted(d) ==
  IF d.theState = "STEPPING" /\ d.theStepsLeft = 0 THEN [d EXCEPT !.theState = "FRESH_HALT"] ELSE d

AllowExecution(d) ==
  IF d.theState # "STEPPING" THEN d
  ELSE IF d.theStepsLeft = 0 THEN [d EXCEPT !.theState = "FRESH_HALT"]
  ELSE [d EXCEPT !.theStepsLeft = @ - 1]

----------------------------------------------------------------------------
(* DebugServer.                                                            *)

HitsBreakpoint(d) == thePc \in d.theBreakpoints /\ ~d.thePausedOnBreakpointFlag
\* Mutant: the flag stays up when the program leaves the breakpoint.
CheckBreakpointSticky(d) ==
  IF HitsBreakpoint(d) THEN PauseEmulator([d EXCEPT !.thePausedOnBreakpointFlag = TRUE]) ELSE d

\* thePausedOnBreakpointFlag flips at every hook at a breakpoint.
CheckBreakpoint(d) ==
  IF HitsBreakpoint(d) THEN PauseEmulator([d EXCEPT !.thePausedOnBreakpointFlag = TRUE])
  ELSE IF thePc \in d.theBreakpoints THEN [d EXCEPT !.thePausedOnBreakpointFlag = FALSE]
  ELSE d

CloseConnection(d) == [d EXCEPT !.theClientSocket = NoSocket]

\* sendResponse.  SDL_net dereferences the socket, a null one too; a send to a client
\* that has gone may succeed or fail, and a failed one closes the connection.
SendResponse(d, answer, sendFails) ==
  IF d.theClientSocket = NoSocket THEN [d EXCEPT !.crashed = TRUE]
  ELSE IF sendFails THEN CloseConnection(d)
  ELSE [d EXCEPT !.sent = Append(@, answer)]

\* Whether the sends of this call fail.
Fails(d) == IF d.theClientSocket # NoSocket /\ ~conns[d.theClientSocket].up THEN BOOLEAN ELSE {FALSE}

DumpRegisters(d, sendFails) ==
  IF d.theRegisterDumpSentToClient THEN d
  ELSE SendResponse([d EXCEPT !.theRegisterDumpSentToClient = TRUE], Answer("dump", thePc), sendFails)

\* Mutant: both kinds of breakpoints go into one list.
ChangeOneList(d, req) ==
  [d EXCEPT !.theBreakpoints =
     IF req.id = "ADD_BREAKPOINT" THEN @ \union {req.arg} ELSE @ \ {req.arg}]

ChangeBreakpoints(d, req) ==
  LET Change(set) == IF req.id = "ADD_BREAKPOINT" THEN set \union {req.arg} ELSE set \ {req.arg}
  IN IF req.arg \in Addresses THEN [d EXCEPT !.theBreakpoints = Change(@)]
     ELSE [d EXCEPT !.theMemoryAccessBPs = Change(@)]

\* processCommand.  An unknown command is ignored.
ProcessCommand(d, req, sendFails) ==
  LET expecting == [d EXCEPT !.theRegisterDumpSentToClient = FALSE]
  IN CASE req.id = "REGISTERS" -> DumpRegisters(expecting, sendFails)
       [] req.id = "STEP" -> StepEmulator(expecting, req.arg)
       [] req.id = "HALT" -> PauseEmulator(expecting)
       [] req.id = "CONTINUE" -> RunEmulator(expecting)
       [] req.id = "QUIT" -> [PauseEmulator(d) EXCEPT !.theQuitFlag = TRUE]
       [] req \in BreakpointRequests ->
            SendResponse(ChangeBreakpoints(d, req), Answer("breakpoints", 0), sendFails)
       [] req \in TextRequests -> SendResponse(d, Answer("text", 0), sendFails)
       [] OTHER -> d

\* A new connection replaces the one there is and clears the receive buffer.
AcceptConnection(d) ==
  IF backlog = <<>> THEN d
  ELSE [d EXCEPT !.theClientSocket = Head(backlog), !.received = Nothing]

HasRequest(d) == d.theClientSocket # NoSocket /\ conns[d.theClientSocket].toServer # <<>>
IsClosed(d) == /\ d.theClientSocket # NoSocket
               /\ ~HasRequest(d) /\ ~conns[d.theClientSocket].up

\* When the other end has closed the connection, the server closes it too and then goes
\* on with the header that the receive buffer still seems to hold.  The argument of the
\* last frame lies where its length was: unless it is zero, the server reads a payload
\* from a null socket.  A STEP without a payload is a step of one.
LeftOver(header) ==
  IF header \in BreakpointRequests \/ (header.id = "STEP" /\ header.arg > 0) THEN Fatal
  ELSE IF header.id = "STEP" THEN Request("STEP", 1)
  ELSE header

\* What one call of handleDebuggerClients processes.  A listing may reach an address
\* without a device, and a memory dump leaves any header at all.
Processed(d) ==
  IF HasRequest(d) THEN
    LET req == Head(conns[d.theClientSocket].toServer)
    IN IF req.id = "LIST" THEN {req, Fatal} ELSE {req}
  ELSE IF ~IsClosed(d) THEN {Nothing}
  ELSE {LeftOver(header) :
          header \in IF d.received.id = "MEMORY_DUMP" THEN Requests \union {Nothing}
                     ELSE {d.received}}

ServeRequest(d, req, sendFails) ==
  IF req = Fatal THEN [d EXCEPT !.crashed = TRUE]
  ELSE IF HasRequest(d) THEN ProcessCommand([d EXCEPT !.received = req], req, sendFails)
  ELSE IF IsClosed(d) THEN ProcessCommand(CloseConnection(d), req, sendFails)
  ELSE d

\* A halt is reported to the client, if there is one, and is fresh until then.
ReportHalt(d, sendFails) ==
  IF d.theState = "FRESH_HALT" /\ d.theClientSocket # NoSocket
  THEN AcknowledgeHalt(DumpRegisters(d, sendFails)) ELSE d

\* The connections after the server has taken one request from conn and sent answers.
Exchanged(conn, answers) ==
  [c \in Connections |->
     IF c # conn THEN conns[c]
     ELSE [conns[c] EXCEPT !.toServer = IF @ = <<>> THEN @ ELSE Tail(@),
                           !.toClient = IF conns[c].up THEN @ \o answers ELSE @]]

\* debugHook, and decodeWithDebugging up to the instruction.  What the hook returns was
\* decided before the client was heard.
DebugHook ==
  /\ emu = "hook" /\ theRunFlag /\ ~server.theQuitFlag
  /\ \E checked \in {CheckBreakpoint(server)} :
     \E accepted \in {AcceptConnection(AllowExecution(checked))} :
     \E sendFails \in Fails(accepted), req \in Processed(accepted) :
     \E served \in {ReportHalt(ServeRequest(accepted, req, sendFails), sendFails)} :
       /\ server' = [served EXCEPT !.sent = <<>>]
       /\ conns' = Exchanged(accepted.theClientSocket, served.sent)
       /\ emu' = IF served.crashed THEN "crashed"
                 ELSE IF served.exited THEN "exited"
                 ELSE IF Allows(checked) THEN "decode" ELSE "hook"
       /\ visit' = [hit |-> visit.hit \/ HitsBreakpoint(server),
                    stale |-> served.thePausedOnBreakpointFlag
                              /\ (visit.stale \/ req = Request("REMOVE_BREAKPOINT", thePc))]
       /\ steps' = IF req.id = "STEP"
                   THEN [asked |-> req.arg, done |-> 0,
                         late |-> IF Allows(checked) THEN 1 ELSE 0]
                   ELSE steps
  /\ backlog' = IF backlog = <<>> THEN backlog ELSE Tail(backlog)
  /\ UNCHANGED <<thePc, theRunFlag, client, requests>>

\* Mutant: the quit flag is looked at only when the debugger lets the program run.
LeaveLoopRunning ==
  /\ emu = "hook"
  /\ ~theRunFlag \/ (server.theQuitFlag /\ Allows(server))
  /\ emu' = "exited"
  /\ UNCHANGED <<server, thePc, theRunFlag, conns, clientVars, visit, steps>>

\* QUIT makes the next hook return -1; exitEmulation ends the loop the same way.
LeaveLoop ==
  /\ emu = "hook"
  /\ ~theRunFlag \/ server.theQuitFlag
  /\ server' = IF theRunFlag THEN CheckBreakpoint(server) ELSE server
  /\ emu' = "exited"
  /\ UNCHANGED <<thePc, theRunFlag, conns, clientVars, visit, steps>>

\* The instruction.  An access to an address with a memory breakpoint, or a fault (no
\* device at an address, a stack overflow), pauses the debugger.
Decode ==
  /\ emu = "decode"
  /\ thePc' \in Addresses
  /\ \E accessed \in SUBSET DataAddresses, fault \in BOOLEAN :
       server' = IF fault \/ accessed \intersect server.theMemoryAccessBPs # {}
                 THEN PauseEmulator(server) ELSE server
  /\ emu' = "hook"
  /\ visit' = [visit EXCEPT !.hit = FALSE]
  /\ steps' = IF server.theState = "STEPPING" THEN [steps EXCEPT !.done = @ + 1] ELSE steps
  /\ UNCHANGED <<theRunFlag, conns, clientVars>>

EmulationStep ==
  \/ DebugHook
  \/ LeaveLoop
  \/ Decode

\* exitEmulation, called by the display thread when the window is closed.
ExitEmulation ==
  /\ theRunFlag
  /\ theRunFlag' = FALSE
  /\ UNCHANGED <<server, emu, thePc, conns, clientVars, visit, steps>>

----------------------------------------------------------------------------
(* The client.                                                             *)

Connect ==
  /\ client.conn + 1 \in Connections
  /\ client.request = Nothing
  /\ emu \notin {"exited", "crashed"}
  /\ client' = [client EXCEPT !.conn = @ + 1]
  /\ conns' = [c \in Connections |-> [conns[c] EXCEPT !.up = (c = client.conn + 1)]]
  /\ backlog' = Append(backlog, client.conn + 1)
  /\ UNCHANGED <<server, emu, thePc, theRunFlag, requests, visit, steps>>

IsConnected == client.conn # NoSocket /\ conns[client.conn].up

\* shutdown is the only command that waits for no answer.
SendRequest(req) ==
  /\ IsConnected
  /\ client.request = Nothing
  /\ requests < MaxRequests
  /\ requests' = requests + 1
  /\ client' = [client EXCEPT !.request = IF req.id = "QUIT" THEN Nothing ELSE req]
  /\ conns' = [conns EXCEPT ![client.conn].toServer = Append(@, req)]
  /\ UNCHANGED <<server, emu, thePc, theRunFlag, backlog, visit, steps>>

\* The next message of the server is taken for the answer.
ReceiveAnswer ==
  /\ client.request # Nothing
  /\ conns[client.conn].toClient # <<>>
  /\ client' = [client EXCEPT !.request = Nothing]
  /\ conns' = [conns EXCEPT ![client.conn].toClient = Tail(@)]
  /\ UNCHANGED <<server, emu, thePc, theRunFlag, backlog, requests, visit, steps>>

\* The client exits, whether or not it is waiting.
Disconnect ==
  /\ IsConnected
  /\ client' = [client EXCEPT !.request = Nothing]
  /\ conns' = [conns EXCEPT ![client.conn].up = FALSE]
  /\ UNCHANGED <<server, emu, thePc, theRunFlag, backlog, requests, visit, steps>>

ClientStep == Connect \/ (\E req \in ClientRequests : SendRequest(req)) \/ ReceiveAnswer \/ Disconnect

----------------------------------------------------------------------------
Init ==
  /\ server = [theState |-> "PAUSE", theStepsLeft |-> -1,
               theBreakpoints |-> {}, theMemoryAccessBPs |-> {},
               thePausedOnBreakpointFlag |-> FALSE, theRegisterDumpSentToClient |-> FALSE,
               theQuitFlag |-> FALSE, theClientSocket |-> NoSocket,
               received |-> Nothing, sent |-> <<>>, crashed |-> FALSE, exited |-> FALSE]
  /\ emu = "hook"
  /\ thePc \in Addresses
  /\ theRunFlag = TRUE
  /\ conns = [c \in Connections |-> [up |-> FALSE, toServer |-> <<>>, toClient |-> <<>>]]
  /\ backlog = <<>>
  /\ client = [conn |-> NoSocket, request |-> Nothing]
  /\ requests = 0
  /\ visit = [hit |-> FALSE, stale |-> FALSE]
  /\ steps = [asked |-> 0, done |-> 0, late |-> 0]

Next == EmulationStep \/ ExitEmulation \/ ClientStep

\* The emulation thread runs, and a client that waits for an answer takes it.
Spec == Init /\ [][Next]_vars /\ WF_vars(EmulationStep) /\ WF_vars(ReceiveAnswer)

----------------------------------------------------------------------------
(* Properties.                                                             *)

Answers == [kind : {"dump", "breakpoints", "text"}, pc : Addresses \union {0}]
Servers == [theState : {"PAUSE", "RUN", "STEPPING", "FRESH_HALT"}, theStepsLeft : Int,
            theBreakpoints : SUBSET Addresses, theMemoryAccessBPs : SUBSET DataAddresses,
            thePausedOnBreakpointFlag : BOOLEAN, theRegisterDumpSentToClient : BOOLEAN,
            theQuitFlag : BOOLEAN, theClientSocket : Connections \union {NoSocket},
            received : Requests \union {Nothing}, sent : Seq(Answers),
            crashed : BOOLEAN, exited : BOOLEAN]

\* Each kind of breakpoint in its own list; a connection carries no more requests than the
\* client has sent, and the answers of a hook have left with it.
TypeOK ==
  /\ server \in Servers /\ server.sent = <<>>
  /\ emu \in {"hook", "decode", "exited", "crashed"}
  /\ thePc \in Addresses
  /\ theRunFlag \in BOOLEAN
  /\ conns \in [Connections -> [up : BOOLEAN, toServer : Seq(Requests), toClient : Seq(Answers)]]
  /\ \A c \in Connections : Len(conns[c].toServer) <= requests
  /\ backlog \in Seq(Connections)
  /\ client \in [conn : Connections \union {NoSocket}, request : Requests \union {Nothing}]
  /\ requests \in 0 .. MaxRequests
  /\ visit \in [hit : BOOLEAN, stale : BOOLEAN]
  /\ steps \in [asked : Nat, done : Nat, late : {0, 1}]

\* DebuggerState: the counter counts only while stepping, and a step of n executes n
\* instructions, plus the one under way when the request came while the program ran.  A
\* step of none ends the emulator instead.
StepsAreCounted ==
  LET left == server.theStepsLeft
  IN /\ server.theState \in {"RUN", "PAUSE"} => left = -1
     /\ server.theState = "STEPPING" /\ emu \notin {"crashed", "exited"} =>
          /\ left >= 0
          /\ steps.done + left + (IF emu = "decode" THEN 1 ELSE 0) = steps.asked + steps.late

\* debugHook passes a breakpoint only if it stopped there since the program came to this
\* address; the flag it goes by is left over from elsewhere only after the breakpoint
\* it stopped at was removed.
PausedFlagIsFresh ==
  emu # "exited" /\ server.thePausedOnBreakpointFlag => visit.hit \/ visit.stale

\* Every request but CONTINUE is answered, unless the emulator ends first.
RequestIsAnswered ==
  client.request \notin {Nothing, Request("CONTINUE", 0)} ~>
    client.request = Nothing \/ emu \in {"exited", "crashed"}

\* A client's QUIT ends the emulator even when it is paused.
QuitEnds == server.theQuitFlag ~> emu \in {"exited", "crashed"}

\* DebugServer.cpp: a breakpoint that "already stopped the debugger" does not "change
\* debugger state anymore until next breakpoint hit".
BreakpointHitsOnce ==
  emu = "hook" /\ visit.hit /\ HitsBreakpoint(server) => server.theState \notin {"RUN", "STEPPING"}
=============================================================================
