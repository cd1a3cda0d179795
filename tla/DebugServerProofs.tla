------------------------- MODULE DebugServerProofs -------------------------
(***************************************************************************)
(* Proofs about DebugServer, for any program, any addresses and any number *)
(* of connections and requests of the client.                              *)
(***************************************************************************)
EXTENDS DebugServer, SequenceTheorems, TLAPS

-----------------------------------------------------------------------------
(* What the operations of the server and of DebuggerState do to its record. *)

\* What a call of handleDebuggerClients may process.
Processable == Requests \union {Nothing, Fatal, Request("STEP", 1)}

LEMMA RequestsAre ==
  ASSUME NEW req \in Processable
  PROVE  /\ req.id = "STEP" => req.arg \in Nat
         /\ req.id \in {"REGISTERS", "STEP", "HALT", "CONTINUE", "QUIT"} =>
              req \notin BreakpointRequests /\ req \notin TextRequests
         /\ req \in BreakpointRequests => /\ req.id \in {"ADD_BREAKPOINT", "REMOVE_BREAKPOINT"}
                                         /\ req.arg \in Addresses \union DataAddresses
                                         /\ req = Request(req.id, req.arg)
<1>1. CASE req \in DumpRequests
  BY <1>1, StepCountsAssumption DEF DumpRequests, BreakpointRequests, TextRequests, Request
<1>2. CASE req \in BreakpointRequests
  BY <1>2 DEF BreakpointRequests, TextRequests, Request
<1>3. CASE req \in TextRequests \union {Request("QUIT", 0), Nothing, Fatal, Request("STEP", 1)}
  BY <1>3 DEF TextRequests, BreakpointRequests, Request, Nothing, Fatal
<1>4. QED
  BY <1>1, <1>2, <1>3 DEF Requests, Processable

\* The process is at its end.
Over(d) == d.crashed \/ d.exited

\* What the halt and the counter of steps, and the breakpoints, depend on.
SameState(d, e) == /\ e.theState = d.theState /\ e.theStepsLeft = d.theStepsLeft
                   /\ Over(d) => Over(e)
                   /\ e.thePausedOnBreakpointFlag = d.thePausedOnBreakpointFlag
                   /\ e.theBreakpoints = d.theBreakpoints
NewState(d, e, state, left) == /\ e.theState = state /\ e.theStepsLeft = left
                               /\ Over(d) => Over(e)
                               /\ e.thePausedOnBreakpointFlag = d.thePausedOnBreakpointFlag
                               /\ e.theBreakpoints = d.theBreakpoints

LEMMA Fields ==
  ASSUME NEW d \in Servers
  PROVE  /\ d.theState \in {"PAUSE", "RUN", "STEPPING", "FRESH_HALT"} /\ d.theStepsLeft \in Int
         /\ d.thePausedOnBreakpointFlag \in BOOLEAN /\ d.theBreakpoints \subseteq Addresses
         /\ d.theClientSocket \in Connections \union {NoSocket}
         /\ d.received \in Requests \union {Nothing} /\ d.sent \in Seq(Answers)
         /\ SameState(d, d)
BY DEF Servers, SameState

\* A new value of one field at a time.
LEMMA SetState ==
  ASSUME NEW d \in Servers, NEW state \in {"PAUSE", "RUN", "STEPPING", "FRESH_HALT"}
  PROVE  \E e \in Servers : /\ e = [d EXCEPT !.theState = state]
                            /\ NewState(d, e, state, d.theStepsLeft)
<1>1. [d EXCEPT !.theState = state] \in Servers
  BY DEF Servers
<1>2. NewState(d, [d EXCEPT !.theState = state], state, d.theStepsLeft)
  BY DEF Servers, NewState, Over
<1>3. QED
  BY <1>1, <1>2

LEMMA SetSteps ==
  ASSUME NEW d \in Servers, NEW left \in Int
  PROVE  \E e \in Servers : /\ e = [d EXCEPT !.theStepsLeft = left]
                            /\ NewState(d, e, d.theState, left)
<1>1. [d EXCEPT !.theStepsLeft = left] \in Servers
  BY DEF Servers
<1>2. NewState(d, [d EXCEPT !.theStepsLeft = left], d.theState, left)
  BY DEF Servers, NewState, Over
<1>3. QED
  BY <1>1, <1>2

\* The other fields.
LEMMA SetPaused ==
  ASSUME NEW d \in Servers, NEW flag \in BOOLEAN
  PROVE  \E e \in Servers :
           /\ e = [d EXCEPT !.thePausedOnBreakpointFlag = flag] /\ e.thePausedOnBreakpointFlag = flag
           /\ e.theState = d.theState /\ e.theStepsLeft = d.theStepsLeft /\ e.theBreakpoints = d.theBreakpoints
<1> DEFINE e == [d EXCEPT !.thePausedOnBreakpointFlag = flag]
<1>1. e \in Servers
  BY DEF Servers
<1>2. /\ e.thePausedOnBreakpointFlag = flag
      /\ e.theState = d.theState /\ e.theStepsLeft = d.theStepsLeft /\ e.theBreakpoints = d.theBreakpoints
  BY DEF Servers
<1>3. QED
  BY <1>1, <1>2

LEMMA SetDumpSent ==
  ASSUME NEW d \in Servers, NEW flag \in BOOLEAN
  PROVE  \E e \in Servers : e = [d EXCEPT !.theRegisterDumpSentToClient = flag] /\ SameState(d, e)
<1>1. [d EXCEPT !.theRegisterDumpSentToClient = flag] \in Servers
  BY DEF Servers
<1>2. SameState(d, [d EXCEPT !.theRegisterDumpSentToClient = flag])
  BY DEF Servers, SameState, Over
<1>3. QED
  BY <1>1, <1>2

LEMMA SetQuit ==
  ASSUME NEW d \in Servers
  PROVE  \E e \in Servers : e = [d EXCEPT !.theQuitFlag = TRUE] /\ SameState(d, e)
<1>1. [d EXCEPT !.theQuitFlag = TRUE] \in Servers
  BY DEF Servers
<1>2. SameState(d, [d EXCEPT !.theQuitFlag = TRUE])
  BY DEF Servers, SameState, Over
<1>3. QED
  BY <1>1, <1>2

LEMMA SetReceived ==
  ASSUME NEW d \in Servers, NEW req \in Requests \union {Nothing}
  PROVE  \E e \in Servers : e = [d EXCEPT !.received = req] /\ SameState(d, e)
<1>1. [d EXCEPT !.received = req] \in Servers
  BY DEF Servers
<1>2. SameState(d, [d EXCEPT !.received = req])
  BY DEF Servers, SameState, Over
<1>3. QED
  BY <1>1, <1>2

LEMMA Pausing ==
  ASSUME NEW d \in Servers
  PROVE  PauseEmulator(d) \in Servers /\ NewState(d, PauseEmulator(d), "FRESH_HALT", 0)
<1>1. PICK e \in Servers : e = [d EXCEPT !.theState = "FRESH_HALT"] /\ NewState(d, e, "FRESH_HALT", d.theStepsLeft)
  BY SetState
<1>2. PICK f \in Servers : f = [e EXCEPT !.theStepsLeft = 0] /\ NewState(e, f, e.theState, 0)
  BY SMTT(30), SetSteps
<1>3. PauseEmulator(d) = f
  BY <1>1, <1>2 DEF PauseEmulator
<1>4. QED
  BY <1>1, <1>2, <1>3 DEF NewState

LEMMA Running ==
  ASSUME NEW d \in Servers
  PROVE  RunEmulator(d) \in Servers /\ NewState(d, RunEmulator(d), "RUN", -1)
<1>1. PICK e \in Servers : e = [d EXCEPT !.theState = "RUN"] /\ NewState(d, e, "RUN", d.theStepsLeft)
  BY SetState
<1>2. PICK f \in Servers : f = [e EXCEPT !.theStepsLeft = -1] /\ NewState(e, f, e.theState, -1)
  BY SMTT(30), SetSteps
<1>3. RunEmulator(d) = f
  BY <1>1, <1>2 DEF RunEmulator
<1>4. QED
  BY <1>1, <1>2, <1>3 DEF NewState

LEMMA Acknowledging ==
  ASSUME NEW d \in Servers
  PROVE  AcknowledgeHalt(d) \in Servers /\ NewState(d, AcknowledgeHalt(d), "PAUSE", -1)
<1>1. PICK e \in Servers : e = [d EXCEPT !.theState = "PAUSE"] /\ NewState(d, e, "PAUSE", d.theStepsLeft)
  BY SetState
<1>2. PICK f \in Servers : f = [e EXCEPT !.theStepsLeft = -1] /\ NewState(e, f, e.theState, -1)
  BY SMTT(30), SetSteps
<1>3. AcknowledgeHalt(d) = f
  BY <1>1, <1>2 DEF AcknowledgeHalt
<1>4. QED
  BY <1>1, <1>2, <1>3 DEF NewState

\* A step of none ends the process.
LEMMA Stepping ==
  ASSUME NEW d \in Servers, NEW n \in Nat
  PROVE  LET e == StepEmulator(d, n)
         IN /\ e \in Servers
            /\ \/ NewState(d, e, "STEPPING", n)
               \/ NewState(d, e, d.theState, d.theStepsLeft) /\ Over(e)
<1>1. CASE n = 0
  <2>1. [d EXCEPT !.exited = TRUE, !.theClientSocket = NoSocket] \in Servers
    BY DEF Servers
  <2>2. /\ NewState(d, [d EXCEPT !.exited = TRUE, !.theClientSocket = NoSocket], d.theState, d.theStepsLeft)
        /\ Over([d EXCEPT !.exited = TRUE, !.theClientSocket = NoSocket])
    BY DEF Servers, NewState, Over
  <2>3. QED
    BY <1>1, <2>1, <2>2 DEF StepEmulator
<1>2. CASE n # 0
  <2>1. PICK e \in Servers :
          e = [d EXCEPT !.theState = "STEPPING"] /\ NewState(d, e, "STEPPING", d.theStepsLeft)
    BY SetState
  <2>2. PICK left \in Int : left = n
    OBVIOUS
  <2>3. PICK f \in Servers : f = [e EXCEPT !.theStepsLeft = left] /\ NewState(e, f, e.theState, left)
    BY SetSteps
  <2>4. StepEmulator(d, n) = f
    BY <1>2, <2>1, <2>2, <2>3 DEF StepEmulator
  <2>5. QED
    BY <2>1, <2>2, <2>3, <2>4 DEF NewState
<1>3. QED
  BY <1>1, <1>2

\* An instruction that is allowed is counted; when none is left the halt is fresh.
LEMMA Allowing ==
  ASSUME NEW d \in Servers
  PROVE  /\ AllowExecution(d) \in Servers
         /\ d.theState # "STEPPING" => SameState(d, AllowExecution(d))
         /\ d.theState = "STEPPING" /\ d.theStepsLeft = 0 =>
              NewState(d, AllowExecution(d), "FRESH_HALT", 0)
         /\ d.theState = "STEPPING" /\ d.theStepsLeft # 0 =>
              NewState(d, AllowExecution(d), "STEPPING", d.theStepsLeft - 1)
<1>1. PICK e \in Servers : e = [d EXCEPT !.theState = "FRESH_HALT"] /\ NewState(d, e, "FRESH_HALT", d.theStepsLeft)
  BY SetState
<1>2. PICK f \in Servers : /\ f = [d EXCEPT !.theStepsLeft = d.theStepsLeft - 1]
                           /\ NewState(d, f, d.theState, d.theStepsLeft - 1)
  <2>1. d.theStepsLeft \in Int /\ d.theStepsLeft - 1 \in Int
    BY Fields
  <2>2. PICK left \in Int : left = d.theStepsLeft - 1
    BY <2>1
  <2>3. QED
    BY <2>2, SetSteps
<1>3. CASE d.theState # "STEPPING"
  BY <1>3, Fields DEF AllowExecution
<1>4. CASE d.theState = "STEPPING" /\ d.theStepsLeft = 0
  BY <1>1, <1>4 DEF AllowExecution
<1>5. CASE d.theState = "STEPPING" /\ d.theStepsLeft # 0
  BY <1>2, <1>5 DEF AllowExecution
<1>6. QED
  BY <1>3, <1>4, <1>5

LEMMA Checking ==
  ASSUME NEW d \in Servers
  PROVE  LET e == CheckBreakpoint(d)
         IN /\ e \in Servers /\ e.theBreakpoints = d.theBreakpoints
            /\ HitsBreakpoint(d) =>
                 /\ thePc \in d.theBreakpoints /\ e.thePausedOnBreakpointFlag
                 /\ e.theState = "FRESH_HALT" /\ e.theStepsLeft = 0
            /\ thePc \in d.theBreakpoints /\ ~HitsBreakpoint(d) => ~e.thePausedOnBreakpointFlag
            /\ thePc \notin d.theBreakpoints =>
                 e.thePausedOnBreakpointFlag = d.thePausedOnBreakpointFlag
            /\ ~HitsBreakpoint(d) => e.theState = d.theState /\ e.theStepsLeft = d.theStepsLeft
<1>1. CASE HitsBreakpoint(d)
  <2>1. PICK e \in Servers : /\ e = [d EXCEPT !.thePausedOnBreakpointFlag = TRUE]
                             /\ e.thePausedOnBreakpointFlag = TRUE /\ e.theBreakpoints = d.theBreakpoints
    BY SetPaused
  <2>2. CheckBreakpoint(d) = PauseEmulator(e)
    BY <1>1, <2>1 DEF CheckBreakpoint
  <2>3. thePc \in d.theBreakpoints
    BY <1>1 DEF HitsBreakpoint
  <2>4. QED
    BY <1>1, <2>1, <2>2, <2>3, Pausing DEF NewState
<1>2. CASE ~HitsBreakpoint(d) /\ thePc \in d.theBreakpoints
  <2>1. PICK e \in Servers :
          /\ e = [d EXCEPT !.thePausedOnBreakpointFlag = FALSE] /\ e.thePausedOnBreakpointFlag = FALSE
          /\ e.theState = d.theState /\ e.theStepsLeft = d.theStepsLeft /\ e.theBreakpoints = d.theBreakpoints
    BY SetPaused
  <2>2. CheckBreakpoint(d) = e
    BY <1>2, <2>1 DEF CheckBreakpoint
  <2>3. QED
    BY <1>2, <2>1, <2>2
<1>3. CASE thePc \notin d.theBreakpoints
  BY <1>3, Fields DEF CheckBreakpoint, HitsBreakpoint
<1>4. QED
  BY <1>1, <1>2, <1>3

LEMMA Closing ==
  ASSUME NEW d \in Servers
  PROVE  CloseConnection(d) \in Servers /\ SameState(d, CloseConnection(d))
BY DEF Servers, SameState, CloseConnection, Over

LEMMA Sending ==
  ASSUME NEW d \in Servers, NEW answer \in Answers, NEW sendFails
  PROVE  /\ SendResponse(d, answer, sendFails) \in Servers
         /\ SameState(d, SendResponse(d, answer, sendFails))
<1>1. [d EXCEPT !.sent = Append(@, answer)] \in Servers /\ SameState(d, [d EXCEPT !.sent = Append(@, answer)])
  <2>1. PICK sent \in Seq(Answers) : sent = Append(d.sent, answer)
    BY Fields, AppendProperties
  <2>2. [d EXCEPT !.sent = sent] \in Servers /\ SameState(d, [d EXCEPT !.sent = sent])
    BY DEF Servers, SameState, Over
  <2>3. QED
    BY <2>1, <2>2
<1>2. [d EXCEPT !.crashed = TRUE] \in Servers /\ SameState(d, [d EXCEPT !.crashed = TRUE])
  BY DEF Servers, SameState, Over
<1>3. QED
  BY <1>1, <1>2, Closing DEF SendResponse

LEMMA Dumping ==
  ASSUME NEW d \in Servers, NEW sendFails, thePc \in Addresses
  PROVE  /\ DumpRegisters(d, sendFails) \in Servers
         /\ SameState(d, DumpRegisters(d, sendFails))
<1>1. PICK e \in Servers : e = [d EXCEPT !.theRegisterDumpSentToClient = TRUE] /\ SameState(d, e)
  BY SetDumpSent
<1>2. Answer("dump", thePc) \in Answers
  BY DEF Answer, Answers
<1>3. CASE d.theRegisterDumpSentToClient
  BY <1>3, Fields DEF DumpRegisters
<1>4. CASE ~d.theRegisterDumpSentToClient
  <2>1. DumpRegisters(d, sendFails) = SendResponse(e, Answer("dump", thePc), sendFails)
    BY <1>1, <1>4 DEF DumpRegisters
  <2>2. SendResponse(e, Answer("dump", thePc), sendFails) \in Servers
    BY <1>1, <1>2, Sending
  <2>3. SameState(e, SendResponse(e, Answer("dump", thePc), sendFails))
    BY <1>1, <1>2, Sending
  <2>4. QED
    BY <1>1, <2>1, <2>2, <2>3 DEF SameState
<1>5. QED
  BY <1>3, <1>4

LEMMA Changing ==
  ASSUME NEW d \in Servers, NEW req \in BreakpointRequests
  PROVE  LET e == ChangeBreakpoints(d, req)
         IN /\ e \in Servers
            /\ e.theState = d.theState /\ e.theStepsLeft = d.theStepsLeft
            /\ e.thePausedOnBreakpointFlag = d.thePausedOnBreakpointFlag
            /\ Over(d) => Over(e)
            /\ \A a \in d.theBreakpoints :
                 a \in e.theBreakpoints \/ req = Request("REMOVE_BREAKPOINT", a)
<1>1. /\ req.id \in {"ADD_BREAKPOINT", "REMOVE_BREAKPOINT"}
      /\ req.arg \in Addresses \union DataAddresses /\ req = Request(req.id, req.arg)
  BY RequestsAre DEF Requests, Processable
<1>2. CASE req.arg \in Addresses
  BY <1>1, <1>2 DEF ChangeBreakpoints, Servers, Over
<1>3. CASE req.arg \notin Addresses
  BY <1>1, <1>3 DEF ChangeBreakpoints, Servers, Over
<1>4. QED
  BY <1>2, <1>3

\* How far a request may change the state.
Effect(d, req, e) ==
  /\ e.thePausedOnBreakpointFlag = d.thePausedOnBreakpointFlag
  /\ \A a \in d.theBreakpoints : a \in e.theBreakpoints \/ req = Request("REMOVE_BREAKPOINT", a)
  /\ IF req.id = "STEP"
     THEN \/ e.theState = "STEPPING" /\ e.theStepsLeft = req.arg
          \/ e.theState = d.theState /\ e.theStepsLeft = d.theStepsLeft /\ Over(e)
     ELSE \/ e.theState = d.theState /\ e.theStepsLeft = d.theStepsLeft
          \/ e.theState = "FRESH_HALT" /\ e.theStepsLeft = 0
          \/ e.theState = "RUN" /\ e.theStepsLeft = -1

LEMMA Processing ==
  ASSUME NEW d \in Servers, NEW req \in Processable, NEW sendFails, thePc \in Addresses
  PROVE  /\ ProcessCommand(d, req, sendFails) \in Servers
         /\ Effect(d, req, ProcessCommand(d, req, sendFails))
<1> DEFINE e == ProcessCommand(d, req, sendFails)
<1>1. PICK expecting \in Servers :
        expecting = [d EXCEPT !.theRegisterDumpSentToClient = FALSE] /\ SameState(d, expecting)
  BY SetDumpSent
<1>2. Answer("breakpoints", 0) \in Answers /\ Answer("text", 0) \in Answers
  BY DEF Answer, Answers
<1>3. CASE req.id = "REGISTERS"
  <2>1. e = DumpRegisters(expecting, sendFails)
    BY <1>1, <1>3, RequestsAre DEF ProcessCommand
  <2>2. QED
    <3>1. e \in Servers /\ SameState(expecting, e)
      BY <2>1, Dumping
    <3>2. QED
      BY <1>1, <1>3, <3>1 DEF SameState, Effect
<1>4. CASE req.id = "STEP"
  <2>1. e = StepEmulator(expecting, req.arg)
    BY <1>1, <1>4, RequestsAre DEF ProcessCommand
  <2>2. req.arg \in Nat
    BY <1>4, RequestsAre
  <2>3. QED
    <3>1. /\ e \in Servers
          /\ \/ NewState(expecting, e, "STEPPING", req.arg)
             \/ NewState(expecting, e, expecting.theState, expecting.theStepsLeft) /\ Over(e)
      BY <2>1, <2>2, Stepping
    <3>2. QED
      BY <1>1, <1>4, <3>1 DEF SameState, NewState, Effect
<1>5. CASE req.id = "HALT"
  <2>1. e = PauseEmulator(expecting)
    BY <1>1, <1>5, RequestsAre DEF ProcessCommand
  <2>2. QED
    BY <1>1, <1>5, <2>1, Pausing DEF SameState, NewState, Effect
<1>6. CASE req.id = "CONTINUE"
  <2>1. e = RunEmulator(expecting)
    BY <1>1, <1>6, RequestsAre DEF ProcessCommand
  <2>2. QED
    BY <1>1, <1>6, <2>1, Running DEF SameState, NewState, Effect
<1>7. CASE req.id = "QUIT"
  <2>1. PICK paused \in Servers : paused = PauseEmulator(d) /\ NewState(d, paused, "FRESH_HALT", 0)
    BY Pausing
  <2>2. e = [paused EXCEPT !.theQuitFlag = TRUE]
    BY <1>7, <2>1, RequestsAre DEF ProcessCommand
  <2>3. e \in Servers /\ SameState(paused, e)
    BY <2>2, SetQuit
  <2>4. QED
    BY <1>7, <2>1, <2>3 DEF SameState, NewState, Effect
<1>8. CASE req.id \notin {"REGISTERS", "STEP", "HALT", "CONTINUE", "QUIT"}
  <2>1. CASE req \in BreakpointRequests
    <3>1. req \notin TextRequests
      BY <2>1 DEF BreakpointRequests, TextRequests, Request
    <3>2. e = SendResponse(ChangeBreakpoints(d, req), Answer("breakpoints", 0), sendFails)
      BY <1>8, <2>1, <3>1 DEF ProcessCommand
    <3>3. e \in Servers /\ SameState(ChangeBreakpoints(d, req), e)
      BY <1>2, <2>1, <3>2, Changing, Sending
    <3>4. QED
      BY <1>8, <2>1, <3>3, Changing DEF SameState, Effect
  <2>2. CASE req \notin BreakpointRequests /\ req \in TextRequests
    <3>1. e = SendResponse(d, Answer("text", 0), sendFails)
      BY <1>8, <2>2 DEF ProcessCommand
    <3>2. e \in Servers /\ SameState(d, e)
      BY <1>2, <3>1, Sending
    <3>3. QED
      BY <1>8, <3>2 DEF SameState, Effect
  <2>3. CASE req \notin BreakpointRequests /\ req \notin TextRequests
    BY <1>8, <2>3 DEF ProcessCommand, Effect
  <2>4. QED
    BY <2>1, <2>2, <2>3
<1>9. QED
  BY <1>3, <1>4, <1>5, <1>6, <1>7, <1>8

LEMMA Serving ==
  ASSUME TypeOK, NEW d \in Servers, NEW req \in Processed(d), NEW sendFails
  PROVE  /\ req \in Processable
         /\ ServeRequest(d, req, sendFails) \in Servers
         /\ Effect(d, req, ServeRequest(d, req, sendFails))
<1>1. req \in Processable /\ (HasRequest(d) => req \in Requests \union {Fatal})
  <2>1. CASE HasRequest(d)
    <3>1. conns[d.theClientSocket].toServer \in Seq(Requests) /\ conns[d.theClientSocket].toServer # <<>>
      BY <2>1, Fields DEF HasRequest, TypeOK
    <3>2. QED
      BY <2>1, <3>1, HeadTailProperties DEF Processed, Processable
  <2>2. CASE ~HasRequest(d)
    BY <2>2, Fields DEF Processed, LeftOver, Processable
  <2>3. QED
    BY <2>1, <2>2
<1>2. thePc \in Addresses
  BY DEF TypeOK
<1>3. CASE req = Fatal
  <2>1. [d EXCEPT !.crashed = TRUE] \in Servers /\ SameState(d, [d EXCEPT !.crashed = TRUE])
    BY DEF Servers, SameState, Over
  <2>2. req.id # "STEP"
    BY <1>3 DEF Fatal, Request
  <2>3. QED
    BY <1>1, <1>3, <2>1, <2>2 DEF ServeRequest, SameState, Effect
<1>4. CASE req # Fatal /\ HasRequest(d)
  <2>1. PICK e \in Servers : e = [d EXCEPT !.received = req] /\ SameState(d, e)
    BY <1>1, <1>4, SetReceived
  <2>2. ServeRequest(d, req, sendFails) = ProcessCommand(e, req, sendFails)
    BY <1>4, <2>1 DEF ServeRequest
  <2>3. ServeRequest(d, req, sendFails) \in Servers /\ Effect(e, req, ServeRequest(d, req, sendFails))
    BY <1>1, <1>2, <2>2, Processing
  <2>4. QED
    BY <1>1, <2>1, <2>3 DEF SameState, Effect
<1>5. CASE req # Fatal /\ ~HasRequest(d) /\ IsClosed(d)
  <2>1. PICK e \in Servers : e = CloseConnection(d) /\ SameState(d, e)
    BY Closing
  <2>2. ServeRequest(d, req, sendFails) = ProcessCommand(e, req, sendFails)
    BY <1>5, <2>1 DEF ServeRequest
  <2>3. ServeRequest(d, req, sendFails) \in Servers /\ Effect(e, req, ServeRequest(d, req, sendFails))
    BY <1>1, <1>2, <2>2, Processing
  <2>4. QED
    BY <1>1, <2>1, <2>3 DEF SameState, Effect
<1>6. CASE req # Fatal /\ ~HasRequest(d) /\ ~IsClosed(d)
  <2>1. req = Nothing /\ req.id # "STEP"
    BY <1>6 DEF Processed, Nothing, Request
  <2>2. QED
    BY <1>1, <1>6, <2>1 DEF ServeRequest, Effect
<1>7. QED
  BY <1>1, <1>3, <1>4, <1>5, <1>6

LEMMA Reporting ==
  ASSUME TypeOK, NEW d \in Servers, NEW sendFails
  PROVE  LET e == ReportHalt(d, sendFails)
         IN /\ e \in Servers
            /\ e.thePausedOnBreakpointFlag = d.thePausedOnBreakpointFlag
            /\ e.theBreakpoints = d.theBreakpoints
            /\ Over(d) => Over(e)
            /\ \/ e.theState = d.theState /\ e.theStepsLeft = d.theStepsLeft
               \/ e.theState = "PAUSE" /\ e.theStepsLeft = -1
<1>1. DumpRegisters(d, sendFails) \in Servers /\ SameState(d, DumpRegisters(d, sendFails))
  BY Dumping DEF TypeOK
<1>2. CASE d.theState = "FRESH_HALT" /\ d.theClientSocket # NoSocket
  BY <1>1, <1>2, Acknowledging DEF ReportHalt, SameState, NewState
<1>3. CASE ~(d.theState = "FRESH_HALT" /\ d.theClientSocket # NoSocket)
  BY <1>3 DEF ReportHalt
<1>4. QED
  BY <1>2, <1>3

LEMMA Accepting ==
  ASSUME TypeOK, NEW d \in Servers
  PROVE  AcceptConnection(d) \in Servers /\ SameState(d, AcceptConnection(d))
<1>1. CASE backlog = <<>>
  BY <1>1, Fields DEF AcceptConnection
<1>2. CASE backlog # <<>>
  <2>1. PICK conn \in Connections : conn = Head(backlog)
    BY <1>2, HeadTailProperties DEF TypeOK
  <2>2. /\ [d EXCEPT !.theClientSocket = conn] \in Servers
        /\ SameState(d, [d EXCEPT !.theClientSocket = conn])
    BY DEF Servers, SameState, Over
  <2>3. PICK e \in Servers : e = [d EXCEPT !.theClientSocket = conn] /\ SameState(d, e)
    BY <2>2
  <2>4. PICK f \in Servers : f = [e EXCEPT !.received = Nothing] /\ SameState(e, f)
    BY SetReceived
  <2>5. AcceptConnection(d) = f
    BY <1>2, <2>1, <2>3, <2>4 DEF AcceptConnection
  <2>6. QED
    BY <2>3, <2>4, <2>5 DEF SameState
<1>3. QED
  BY <1>1, <1>2

\* What a hook leaves, when checked, accepted and served are its server at the three stages.
Outcome(checked, accepted, req, served) ==
  /\ server' = [served EXCEPT !.sent = <<>>]
  /\ conns' = Exchanged(accepted.theClientSocket, served.sent)
  /\ emu' = IF served.crashed THEN "crashed"
            ELSE IF served.exited THEN "exited"
            ELSE IF Allows(checked) THEN "decode" ELSE "hook"
  /\ visit' = [hit |-> visit.hit \/ HitsBreakpoint(server),
               stale |-> served.thePausedOnBreakpointFlag
                         /\ (visit.stale \/ req = Request("REMOVE_BREAKPOINT", thePc))]
  /\ steps' = IF req.id = "STEP"
              THEN [asked |-> req.arg, done |-> 0,
                    late |-> IF Allows(checked) THEN 1 ELSE 0]
              ELSE steps

\* The change from accepted to served: the request, then the report of a halt.
Served(accepted, req, served) ==
  \E asked \in Servers :
    /\ Effect(accepted, req, asked)
    /\ served.thePausedOnBreakpointFlag = asked.thePausedOnBreakpointFlag
    /\ served.theBreakpoints = asked.theBreakpoints
    /\ Over(asked) => Over(served)
    /\ \/ served.theState = asked.theState /\ served.theStepsLeft = asked.theStepsLeft
       \/ served.theState = "PAUSE" /\ served.theStepsLeft = -1

LEMMA Hooking ==
  ASSUME TypeOK, DebugHook
  PROVE  \E checked, accepted, served \in Servers, req \in Processable :
           /\ checked = CheckBreakpoint(server)
           /\ SameState(AllowExecution(checked), accepted)
           /\ Served(accepted, req, served)
           /\ Outcome(checked, accepted, req, served)
           /\ server' \in Servers /\ server'.sent = <<>> /\ SameState(served, server')
<1>1. PICK checked : /\ checked = CheckBreakpoint(server)
                     /\ \E accepted \in {AcceptConnection(AllowExecution(checked))} :
                        \E sendFails \in Fails(accepted), req \in Processed(accepted) :
                        \E served \in {ReportHalt(ServeRequest(accepted, req, sendFails), sendFails)} :
                          Outcome(checked, accepted, req, served)
  BY DEF DebugHook, Outcome
<1>2. PICK accepted : /\ accepted = AcceptConnection(AllowExecution(checked))
                      /\ \E sendFails \in Fails(accepted), req \in Processed(accepted) :
                         \E served \in {ReportHalt(ServeRequest(accepted, req, sendFails), sendFails)} :
                           Outcome(checked, accepted, req, served)
  BY <1>1
<1>3. PICK sendFails \in Fails(accepted), req \in Processed(accepted) :
        Outcome(checked, accepted, req, ReportHalt(ServeRequest(accepted, req, sendFails), sendFails))
  BY <1>2
<1>4. checked \in Servers /\ AllowExecution(checked) \in Servers
  BY <1>1, Checking, Allowing DEF TypeOK
<1>5. accepted \in Servers /\ SameState(AllowExecution(checked), accepted)
  BY <1>2, <1>4, Accepting
<1>6. PICK asked \in Servers : /\ asked = ServeRequest(accepted, req, sendFails)
                               /\ Effect(accepted, req, asked) /\ req \in Processable
  BY <1>5, Serving
<1>7. PICK served \in Servers : served = ReportHalt(asked, sendFails) /\ Served(accepted, req, served)
  <2>1. ReportHalt(asked, sendFails) \in Servers
    BY Reporting
  <2>2. Served(accepted, req, ReportHalt(asked, sendFails))
    BY <1>6, Reporting DEF Served
  <2>3. QED
    BY <2>1, <2>2
<1>8. Outcome(checked, accepted, req, served)
  BY <1>3, <1>6, <1>7
<1>9. server' \in Servers /\ server'.sent = <<>> /\ SameState(served, server')
  <2>1. PICK none \in Seq(Answers) : none = <<>>
    <3>1. <<>> \in Seq(Answers)
      OBVIOUS
    <3>2. QED
      BY <3>1
  <2>2. [served EXCEPT !.sent = none] \in Servers
    BY DEF Servers
  <2>3. SameState(served, [served EXCEPT !.sent = none]) /\ [served EXCEPT !.sent = none].sent = none
    BY DEF Servers, SameState, Over
  <2>4. server' = [served EXCEPT !.sent = none]
    BY <1>8, <2>1 DEF Outcome
  <2>5. QED
    BY <2>1, <2>2, <2>3, <2>4
<1>10. QED
  BY <1>1, <1>4, <1>5, <1>6, <1>7, <1>8, <1>9

-----------------------------------------------------------------------------
(* Types.                                                                  *)

LEMMA Exchanging ==
  ASSUME TypeOK, NEW conn, NEW answers \in Seq(Answers)
  PROVE  /\ Exchanged(conn, answers) \in
              [Connections -> [up : BOOLEAN, toServer : Seq(Requests), toClient : Seq(Answers)]]
         /\ \A c \in Connections : Len(Exchanged(conn, answers)[c].toServer) <= requests
<1>1. ASSUME NEW c \in Connections
      PROVE  LET e == Exchanged(conn, answers)[c]
             IN /\ e \in [up : BOOLEAN, toServer : Seq(Requests), toClient : Seq(Answers)]
                /\ Len(e.toServer) <= requests
  <2>1. PICK old \in [up : BOOLEAN, toServer : Seq(Requests), toClient : Seq(Answers)] :
          old = conns[c] /\ Len(old.toServer) <= requests
    BY DEF TypeOK
  <2>2. CASE c # conn
    BY <2>1, <2>2 DEF Exchanged
  <2>3. CASE c = conn
    <3>1. PICK toServer \in Seq(Requests) :
            /\ toServer = IF old.toServer = <<>> THEN old.toServer ELSE Tail(old.toServer)
            /\ Len(toServer) <= requests
      <4>1. requests \in Nat /\ Len(old.toServer) \in Nat /\ old.toServer \in Seq(Requests)
        BY <2>1, LenProperties, BoundsAssumption DEF TypeOK
      <4>2. old.toServer # <<>> => /\ Tail(old.toServer) \in Seq(Requests)
                                  /\ Len(Tail(old.toServer)) = Len(old.toServer) - 1
        BY <4>1, HeadTailProperties
      <4>3. DEFINE rest == IF old.toServer = <<>> THEN old.toServer ELSE Tail(old.toServer)
      <4>4. rest \in Seq(Requests) /\ Len(rest) <= requests
        BY <2>1, <4>1, <4>2
      <4>5. QED
        BY <4>4
    <3>2. PICK toClient \in Seq(Answers) : toClient = IF old.up THEN old.toClient \o answers ELSE old.toClient
      <4>1. old.toClient \in Seq(Answers) /\ old.toClient \o answers \in Seq(Answers)
        BY <2>1, ConcatProperties
      <4>2. QED
        BY <4>1
    <3>3. Exchanged(conn, answers)[c] = [old EXCEPT !.toServer = toServer, !.toClient = toClient]
      BY <2>1, <2>3, <3>1, <3>2 DEF Exchanged
    <3>4. QED
      BY <3>1, <3>2, <3>3
  <2>4. QED
    BY <2>2, <2>3
<1>2. Exchanged(conn, answers) = [c \in Connections |-> Exchanged(conn, answers)[c]]
  BY DEF Exchanged
<1>3. QED
  BY <1>1, <1>2

LEMMA InitTypeOK == Init => TypeOK
<1> SUFFICES ASSUME Init PROVE TypeOK
  OBVIOUS
<1>1. server \in Servers /\ server.sent = <<>>
  BY DEF Init, Servers
<1>2. conns \in [Connections -> [up : BOOLEAN, toServer : Seq(Requests), toClient : Seq(Answers)]]
  BY DEF Init
<1>3. requests \in 0 .. MaxRequests /\ \A c \in Connections : Len(conns[c].toServer) <= requests
  BY BoundsAssumption DEF Init
<1>4. QED
  BY <1>1, <1>2, <1>3 DEF Init, TypeOK

LEMMA EmulationKeepsTypes ==
  ASSUME TypeOK, EmulationStep
  PROVE  TypeOK'
<1>1. CASE DebugHook
  <2>1. PICK checked \in Servers, accepted \in Servers, served \in Servers, req \in Processable :
          /\ Outcome(checked, accepted, req, served)
          /\ server' \in Servers /\ server'.sent = <<>>
    BY <1>1, Hooking
  <2>2. /\ conns' \in [Connections -> [up : BOOLEAN, toServer : Seq(Requests), toClient : Seq(Answers)]]
        /\ \A c \in Connections : Len(conns'[c].toServer) <= requests
    <3>1. served.sent \in Seq(Answers) /\ conns' = Exchanged(accepted.theClientSocket, served.sent)
      BY <2>1, Fields DEF Outcome
    <3>2. QED
      BY <3>1, Exchanging
  <2>3. /\ visit' \in [hit : BOOLEAN, stale : BOOLEAN]
        /\ emu' \in {"hook", "decode", "crashed", "exited"}
    BY <2>1, Fields DEF Outcome, TypeOK, HitsBreakpoint
  <2>4. steps' \in [asked : Nat, done : Nat, late : {0, 1}]
    <3>1. req.id = "STEP" => req.arg \in Nat
      BY RequestsAre
    <3>2. QED
      BY <2>1, <3>1 DEF Outcome, TypeOK
  <2>5. backlog' \in Seq(Connections)
    BY <1>1, HeadTailProperties DEF DebugHook, TypeOK
  <2>6. UNCHANGED <<thePc, theRunFlag, client, requests>>
    BY <1>1 DEF DebugHook
  <2>7. QED
    BY <2>1, <2>2, <2>3, <2>4, <2>5, <2>6 DEF TypeOK
<1>2. CASE LeaveLoop
  <2>1. server' \in Servers /\ server'.sent = <<>>
    <3>1. CheckBreakpoint(server) \in Servers
      BY Checking DEF TypeOK
    <3>2. CheckBreakpoint(server).sent = <<>>
      BY DEF CheckBreakpoint, PauseEmulator, TypeOK, Servers
    <3>3. QED
      BY <1>2, <3>1, <3>2 DEF LeaveLoop, TypeOK
  <2>2. QED
    BY <1>2, <2>1 DEF LeaveLoop, TypeOK, clientVars
<1>3. CASE Decode
  <2>1. server' \in Servers /\ server'.sent = <<>>
    <3>1. PauseEmulator(server) \in Servers /\ PauseEmulator(server).sent = <<>>
      BY Pausing DEF PauseEmulator, TypeOK, Servers
    <3>2. server' = server \/ server' = PauseEmulator(server)
      BY <1>3 DEF Decode
    <3>3. QED
      BY <3>1, <3>2 DEF TypeOK
  <2>2. visit' \in [hit : BOOLEAN, stale : BOOLEAN]
    <3>1. visit \in [hit : BOOLEAN, stale : BOOLEAN] /\ visit' = [visit EXCEPT !.hit = FALSE]
      BY <1>3 DEF Decode, TypeOK
    <3>2. QED
      BY <3>1
  <2>3. steps' \in [asked : Nat, done : Nat, late : {0, 1}]
    <3>1. /\ steps \in [asked : Nat, done : Nat, late : {0, 1}]
          /\ steps' = steps \/ steps' = [steps EXCEPT !.done = @ + 1]
      BY <1>3 DEF Decode, TypeOK
    <3>2. steps.done + 1 \in Nat
      BY <3>1
    <3>3. QED
      BY <3>1, <3>2
  <2>4. QED
    BY <1>3, <2>1, <2>2, <2>3 DEF Decode, TypeOK, clientVars
<1>4. QED
  BY <1>1, <1>2, <1>3 DEF EmulationStep

LEMMA ClientKeepsTypes ==
  ASSUME TypeOK, ClientStep
  PROVE  TypeOK'
<1> DEFINE Conn == [up : BOOLEAN, toServer : Seq(Requests), toClient : Seq(Answers)]
<1>1. CASE Connect
  <2>1. backlog' \in Seq(Connections) /\ client' \in [conn : Connections \union {NoSocket}, request : Requests \union {Nothing}]
    BY <1>1, AppendProperties DEF Connect, TypeOK
  <2>2. conns' \in [Connections -> Conn] /\ \A c \in Connections : conns'[c].toServer = conns[c].toServer
    <3>1. \A c \in Connections : conns[c] \in Conn
      BY DEF TypeOK
    <3>2. \A c \in Connections, up \in BOOLEAN :
            /\ [conns[c] EXCEPT !.up = up] \in Conn
            /\ [conns[c] EXCEPT !.up = up].toServer = conns[c].toServer
      BY <3>1
    <3> HIDE DEF Conn
    <3>3. QED
      BY <1>1, <3>2 DEF Connect
  <2>3. UNCHANGED <<server, emu, thePc, theRunFlag, requests, visit, steps>>
    BY <1>1 DEF Connect
  <2>4. QED
    BY <2>1, <2>2, <2>3 DEF TypeOK
<1>2. ASSUME NEW req \in ClientRequests, SendRequest(req)
      PROVE  TypeOK'
  <2>1. req \in Requests /\ requests' \in 0 .. MaxRequests /\ requests' = requests + 1 /\ requests \in Nat
    BY <1>2, RequestsAssumption, BoundsAssumption DEF SendRequest, TypeOK
  <2>2. client.conn \in Connections
    BY <1>2 DEF SendRequest, IsConnected, TypeOK
  <2>3. PICK toServer \in Seq(Requests) : /\ toServer = Append(conns[client.conn].toServer, req)
                                          /\ Len(toServer) <= requests'
    <3>1. PICK before \in Seq(Requests) : /\ before = conns[client.conn].toServer
                                          /\ Len(before) <= requests
      BY <2>2 DEF TypeOK
    <3>2. Append(before, req) \in Seq(Requests) /\ Len(Append(before, req)) = Len(before) + 1
      BY <2>1, AppendProperties
    <3>3. Len(before) \in Nat
      BY LenProperties
    <3>4. Len(Append(before, req)) <= requests'
      BY <2>1, <3>1, <3>2, <3>3
    <3>5. QED
      BY <3>1, <3>2, <3>4
  <2>4. conns' = [conns EXCEPT ![client.conn].toServer = toServer]
    BY <1>2, <2>3 DEF SendRequest
  <2>5. conns' \in [Connections -> Conn]
    BY <2>2, <2>4 DEF TypeOK
  <2>6. \A c \in Connections : Len(conns'[c].toServer) <= requests'
    <3> SUFFICES ASSUME NEW c \in Connections PROVE Len(conns'[c].toServer) <= requests'
      OBVIOUS
    <3>1. conns[c] \in Conn /\ Len(conns[c].toServer) <= requests
      BY DEF TypeOK
    <3>2. conns[c].toServer \in Seq(Requests)
      BY <3>1
    <3>3. Len(conns[c].toServer) \in Nat
      BY <3>2, LenProperties
    <3>4. CASE c = client.conn
      BY <2>2, <2>3, <2>4, <3>1, <3>4 DEF TypeOK
    <3>5. CASE c # client.conn
      <4>1. conns'[c] = conns[c]
        BY <2>2, <2>4, <3>5 DEF TypeOK
      <4>2. QED
        BY <2>1, <3>1, <3>3, <4>1
    <3>6. QED
      BY <3>4, <3>5
  <2>7. client' \in [conn : Connections \union {NoSocket}, request : Requests \union {Nothing}]
    BY <1>2, <2>1 DEF SendRequest, TypeOK
  <2>8. QED
    BY <1>2, <2>1, <2>5, <2>6, <2>7 DEF SendRequest, TypeOK
<1>3. CASE ReceiveAnswer
  <2>1. client' \in [conn : Connections \union {NoSocket}, request : Requests \union {Nothing}]
    BY <1>3 DEF ReceiveAnswer, TypeOK
  <2>2. conns' \in [Connections -> Conn] /\ \A c \in Connections : conns'[c].toServer = conns[c].toServer
    <3>1. client.conn \in Connections =>
            /\ Tail(conns[client.conn].toClient) \in Seq(Answers)
      BY <1>3, HeadTailProperties DEF ReceiveAnswer, TypeOK
    <3>2. client.conn \in Connections => conns[client.conn] \in Conn
      BY DEF TypeOK
    <3>3. QED
      BY <1>3, <3>1, <3>2 DEF ReceiveAnswer, TypeOK
  <2>3. UNCHANGED <<server, emu, thePc, theRunFlag, backlog, requests, visit, steps>>
    BY <1>3 DEF ReceiveAnswer
  <2>4. QED
    BY <2>1, <2>2, <2>3 DEF TypeOK
<1>4. CASE Disconnect
  <2>1. client' \in [conn : Connections \union {NoSocket}, request : Requests \union {Nothing}]
    BY <1>4 DEF Disconnect, TypeOK
  <2>2. conns' \in [Connections -> Conn] /\ \A c \in Connections : conns'[c].toServer = conns[c].toServer
    BY <1>4 DEF Disconnect, TypeOK
  <2>3. UNCHANGED <<server, emu, thePc, theRunFlag, backlog, requests, visit, steps>>
    BY <1>4 DEF Disconnect
  <2>4. QED
    BY <2>1, <2>2, <2>3 DEF TypeOK
<1>5. QED
  BY <1>1, <1>2, <1>3, <1>4 DEF ClientStep

\* The server's record, the connections and the history are what they claim to be: no
\* request brings a memory address among the breakpoints or a program address among the
\* memory breakpoints, and no connection carries more requests than were sent.
THEOREM TypeCorrect == Spec => []TypeOK
<1>1. TypeOK /\ [Next]_vars => TypeOK'
  <2> SUFFICES ASSUME TypeOK, [Next]_vars PROVE TypeOK'
    OBVIOUS
  <2>1. CASE ExitEmulation
    BY <2>1 DEF ExitEmulation, TypeOK, clientVars
  <2>2. CASE UNCHANGED vars
    BY <2>2 DEF vars, clientVars, TypeOK
  <2>3. QED
    BY <2>1, <2>2, EmulationKeepsTypes, ClientKeepsTypes DEF Next
<1>2. QED
  BY <1>1, InitTypeOK, PTL DEF Spec

-----------------------------------------------------------------------------
(* Steps and breakpoints.                                                  *)

\* What the emulation thread goes by; nobody else touches it.
LEMMA OthersLeaveThemAlone ==
  ASSUME ExitEmulation \/ ClientStep \/ UNCHANGED vars
  PROVE  UNCHANGED <<server, emu, thePc, visit, steps>>
BY DEF ExitEmulation, ClientStep, Connect, SendRequest, ReceiveAnswer, Disconnect, vars, clientVars

LEMMA EmulationCountsSteps ==
  ASSUME TypeOK, StepsAreCounted, EmulationStep
  PROVE  StepsAreCounted'
<1>0. server \in Servers /\ server.theStepsLeft \in Int /\ steps \in [asked : Nat, done : Nat, late : {0, 1}]
  BY Fields DEF TypeOK
<1>1. CASE DebugHook
  <2>1. PICK checked \in Servers, accepted \in Servers, served \in Servers, req \in Processable :
          /\ checked = CheckBreakpoint(server)
          /\ SameState(AllowExecution(checked), accepted)
          /\ Served(accepted, req, served)
          /\ Outcome(checked, accepted, req, served)
          /\ SameState(served, server')
    BY <1>1, Hooking
  <2>2. PICK asked \in Servers :
          /\ Effect(accepted, req, asked) /\ (Over(asked) => Over(served))
          /\ \/ served.theState = asked.theState /\ served.theStepsLeft = asked.theStepsLeft
             \/ served.theState = "PAUSE" /\ served.theStepsLeft = -1
    BY <2>1 DEF Served
  <2>3. /\ server'.theState = served.theState /\ server'.theStepsLeft = served.theStepsLeft
        /\ emu = "hook" /\ (Over(served) => emu' \in {"crashed", "exited"})
    BY <1>1, <2>1 DEF SameState, DebugHook, Over, Outcome
  <2>4. /\ checked.theState \in {"RUN", "PAUSE"} => checked.theStepsLeft = -1
        /\ checked.theState = "STEPPING" =>
             /\ checked.theStepsLeft \in Nat
             /\ steps.done + checked.theStepsLeft = steps.asked + steps.late
    <3>1. \/ checked.theState = server.theState /\ checked.theStepsLeft = server.theStepsLeft
          \/ checked.theState = "FRESH_HALT"
      BY <1>0, <2>1, Checking
    <3>2. QED
      BY <1>0, <2>3, <3>1 DEF StepsAreCounted
  <2>5. /\ accepted.theState \in {"RUN", "PAUSE"} => accepted.theStepsLeft = -1
        /\ accepted.theState = "STEPPING" =>
             /\ accepted.theStepsLeft \in Nat /\ Allows(checked)
             /\ steps.done + accepted.theStepsLeft + 1 = steps.asked + steps.late
    <3>1. checked.theStepsLeft \in Int /\ steps.done \in Nat /\ steps.asked \in Nat /\ steps.late \in {0, 1}
      BY <1>0, Fields
    <3>2. CASE checked.theState # "STEPPING"
      <4>1. accepted.theState = checked.theState /\ accepted.theStepsLeft = checked.theStepsLeft
        BY <2>1, <3>2, Allowing DEF SameState
      <4>2. QED
        BY <2>4, <3>2, <4>1
    <3>3. CASE checked.theState = "STEPPING" /\ checked.theStepsLeft = 0
      <4>1. accepted.theState = "FRESH_HALT"
        BY <2>1, <3>3, Allowing DEF SameState, NewState
      <4>2. QED
        BY <4>1
    <3>4. CASE checked.theState = "STEPPING" /\ checked.theStepsLeft # 0
      <4>1. accepted.theState = "STEPPING" /\ accepted.theStepsLeft = checked.theStepsLeft - 1
        BY <2>1, <3>4, Allowing DEF SameState, NewState
      <4>2. QED
        BY <2>4, <3>1, <3>4, <4>1 DEF Allows
    <3>5. QED
      BY <3>2, <3>3, <3>4
  <2>6. CASE req.id = "STEP"
    <3>1. req.arg \in Nat
      BY <2>6, RequestsAre
    <3>2. \/ asked.theState = "STEPPING" /\ asked.theStepsLeft = req.arg
          \/ /\ asked.theState = accepted.theState /\ asked.theStepsLeft = accepted.theStepsLeft
             /\ emu' \in {"crashed", "exited"}
      BY <2>2, <2>3, <2>6 DEF Effect
    <3>3. /\ steps' = [asked |-> req.arg, done |-> 0, late |-> IF Allows(checked) THEN 1 ELSE 0]
          /\ emu' \notin {"crashed", "exited"} => emu' = IF Allows(checked) THEN "decode" ELSE "hook"
      BY <2>1, <2>6 DEF Outcome
    <3>4. QED
      BY <2>2, <2>3, <2>5, <3>1, <3>2, <3>3 DEF StepsAreCounted
  <2>7. CASE req.id # "STEP"
    <3>1. \/ asked.theState = accepted.theState /\ asked.theStepsLeft = accepted.theStepsLeft
          \/ asked.theState = "FRESH_HALT" /\ asked.theStepsLeft = 0
          \/ asked.theState = "RUN" /\ asked.theStepsLeft = -1
      BY <2>2, <2>7 DEF Effect
    <3>2. steps' = steps /\ (emu' \notin {"crashed", "exited"} => emu' = IF Allows(checked) THEN "decode" ELSE "hook")
      BY <2>1, <2>7 DEF Outcome
    <3>3. QED
      BY <1>0, <2>2, <2>3, <2>5, <3>1, <3>2 DEF StepsAreCounted
  <2>8. QED
    BY <2>6, <2>7
<1>2. CASE LeaveLoop
  <2>1. emu = "hook" /\ emu' = "exited" /\ steps' = steps
    BY <1>2 DEF LeaveLoop
  <2>2. \/ server'.theState = server.theState /\ server'.theStepsLeft = server.theStepsLeft
        \/ server'.theState = "FRESH_HALT"
    BY <1>0, <1>2, Checking DEF LeaveLoop
  <2>3. QED
    BY <1>0, <2>1, <2>2 DEF StepsAreCounted
<1>3. CASE Decode
  <2>1. /\ emu = "decode" /\ emu' = "hook"
        /\ steps' = IF server.theState = "STEPPING" THEN [steps EXCEPT !.done = @ + 1] ELSE steps
    BY <1>3 DEF Decode
  <2>2. server' = server \/ server'.theState = "FRESH_HALT"
    BY <1>0, <1>3, Pausing DEF Decode, NewState
  <2>3. QED
    BY <1>0, <2>1, <2>2 DEF StepsAreCounted
<1>4. QED
  BY <1>1, <1>2, <1>3 DEF EmulationStep

\* STEP n, unless it ends the emulator, executes n instructions, no more and no less, whatever breakpoints, halts and
\* requests come in between: what it has executed and what the counter still allows add up
\* to what was asked for, and to one more when the request came while the program ran.
THEOREM StepsAreCountedCorrect == Spec => []StepsAreCounted
<1>1. Init => StepsAreCounted
  BY DEF Init, StepsAreCounted
<1>2. TypeOK /\ StepsAreCounted /\ [Next]_vars => StepsAreCounted'
  <2> SUFFICES ASSUME TypeOK, StepsAreCounted, [Next]_vars PROVE StepsAreCounted'
    OBVIOUS
  <2>1. CASE ExitEmulation \/ ClientStep \/ UNCHANGED vars
    BY <2>1, OthersLeaveThemAlone DEF StepsAreCounted
  <2>2. QED
    BY <2>1, EmulationCountsSteps DEF Next
<1>3. QED
  BY <1>1, <1>2, TypeCorrect, PTL DEF Spec

\* The flag is up because this address was hit and its breakpoint is still there, or
\* because a breakpoint was removed.  While the program runs it can only be the latter.
FlagInv ==
  emu # "exited" /\ server.thePausedOnBreakpointFlag =>
    \/ visit.stale
    \/ emu \in {"hook", "crashed"} /\ visit.hit /\ thePc \in server.theBreakpoints

LEMMA EmulationKeepsFlag ==
  ASSUME TypeOK, FlagInv, EmulationStep
  PROVE  FlagInv'
<1>0. server \in Servers /\ visit \in [hit : BOOLEAN, stale : BOOLEAN]
  BY DEF TypeOK
<1>1. CASE DebugHook
  <2>1. PICK checked \in Servers, accepted \in Servers, served \in Servers, req \in Processable :
          /\ checked = CheckBreakpoint(server)
          /\ SameState(AllowExecution(checked), accepted)
          /\ Served(accepted, req, served)
          /\ Outcome(checked, accepted, req, served)
          /\ SameState(served, server')
    BY <1>1, Hooking
  <2>2. PICK asked \in Servers :
          /\ Effect(accepted, req, asked)
          /\ served.thePausedOnBreakpointFlag = asked.thePausedOnBreakpointFlag
          /\ served.theBreakpoints = asked.theBreakpoints
    BY <2>1 DEF Served
  <2>3. /\ served.thePausedOnBreakpointFlag = checked.thePausedOnBreakpointFlag
        /\ server'.thePausedOnBreakpointFlag = served.thePausedOnBreakpointFlag
    <3>1. AllowExecution(checked).thePausedOnBreakpointFlag = checked.thePausedOnBreakpointFlag
      BY Allowing, Fields DEF SameState, NewState
    <3>2. QED
      BY <2>1, <2>2, <3>1 DEF SameState, Effect
  <2>4. AllowExecution(checked).theBreakpoints = server.theBreakpoints
    <3>1. checked.theBreakpoints = server.theBreakpoints
      BY <1>0, <2>1, Checking
    <3>2. QED
      BY <3>1, Allowing, Fields DEF SameState, NewState
  <2>5. \A a \in server.theBreakpoints :
          a \in server'.theBreakpoints \/ req = Request("REMOVE_BREAKPOINT", a)
    BY <2>1, <2>2, <2>4 DEF SameState, Effect
  <2>6. emu = "hook" /\ thePc' = thePc
    BY <1>1 DEF DebugHook
  <2>7. /\ visit'.hit = (visit.hit \/ HitsBreakpoint(server))
        /\ visit'.stale = (served.thePausedOnBreakpointFlag
                            /\ (visit.stale \/ req = Request("REMOVE_BREAKPOINT", thePc)))
        /\ emu' \in {"hook", "crashed", "exited"} \/ Allows(checked)
    BY <2>1 DEF Outcome
  <2> SUFFICES ASSUME server'.thePausedOnBreakpointFlag, ~visit'.stale
               PROVE  emu' \in {"hook", "crashed", "exited"} /\ visit'.hit /\ thePc' \in server'.theBreakpoints
    BY DEF FlagInv
  <2>8. ~visit.stale /\ req # Request("REMOVE_BREAKPOINT", thePc) /\ checked.thePausedOnBreakpointFlag
    BY <2>3, <2>7
  <2>9. CASE HitsBreakpoint(server)
    <3>1. thePc \in server.theBreakpoints /\ checked.theState = "FRESH_HALT"
      BY <1>0, <2>1, <2>9, Checking
    <3>2. ~Allows(checked)
      BY <3>1 DEF Allows
    <3>3. QED
      BY <2>5, <2>6, <2>7, <2>8, <2>9, <3>1, <3>2
  <2>10. CASE ~HitsBreakpoint(server)
    <3>1. thePc \notin server.theBreakpoints /\ server.thePausedOnBreakpointFlag
      BY <1>0, <2>1, <2>8, <2>10, Checking
    <3>2. QED
      BY <2>6, <2>8, <3>1 DEF FlagInv
  <2>11. QED
    BY <2>9, <2>10
<1>2. CASE LeaveLoop
  BY <1>2 DEF LeaveLoop, FlagInv
<1>3. CASE Decode
  <2>1. emu = "decode" /\ visit'.stale = visit.stale
    BY <1>0, <1>3 DEF Decode
  <2>2. server'.thePausedOnBreakpointFlag = server.thePausedOnBreakpointFlag
    BY <1>0, <1>3, Pausing DEF Decode, NewState
  <2>3. QED
    BY <2>1, <2>2 DEF FlagInv
<1>4. QED
  BY <1>1, <1>2, <1>3 DEF EmulationStep

\* A breakpoint is passed only after a stop at it, unless the flag that says so was left
\* over by a breakpoint that was removed while the program was stopped there.
THEOREM PausedFlagIsFreshCorrect == Spec => []PausedFlagIsFresh
<1>1. Init => FlagInv
  BY DEF Init, FlagInv
<1>2. TypeOK /\ FlagInv /\ [Next]_vars => FlagInv'
  <2> SUFFICES ASSUME TypeOK, FlagInv, [Next]_vars PROVE FlagInv'
    OBVIOUS
  <2>1. CASE ExitEmulation \/ ClientStep \/ UNCHANGED vars
    BY <2>1, OthersLeaveThemAlone DEF FlagInv
  <2>2. QED
    BY <2>1, EmulationKeepsFlag DEF Next
<1>3. FlagInv => PausedFlagIsFresh
  BY DEF FlagInv, PausedFlagIsFresh
<1>4. QED
  BY <1>1, <1>2, <1>3, TypeCorrect, PTL DEF Spec
=============================================================================
