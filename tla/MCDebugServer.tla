--------------------------- MODULE MCDebugServer ---------------------------
(***************************************************************************)
(* DebugServer for TLC: two instruction addresses, of which either may get *)
(* a breakpoint, and a client that connects twice and sends three          *)
(* requests: one to set the debugger up, one to move it, one to disturb    *)
(* it.  MEMORY_DUMP stands for all text requests but LIST; what it leaves  *)
(* in the receive buffer brings in the others.                             *)
(***************************************************************************)
EXTENDS DebugServer

MCRequests ==
  {Request(id, 0) : id \in {"REGISTERS", "HALT", "CONTINUE", "QUIT", "LIST", "MEMORY_DUMP"}}
  \union {Request("STEP", 0), Request("STEP", 2), Request("ADD_BREAKPOINT", 1), Request("ADD_BREAKPOINT", 3),
          Request("REMOVE_BREAKPOINT", 1)}
=============================================================================
