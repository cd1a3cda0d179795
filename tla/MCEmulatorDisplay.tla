------------------------- MODULE MCEmulatorDisplay -------------------------
(***************************************************************************)
(* EmulatorDisplay for TLC.  A command queue of 8 (the code's takes 128)   *)
(* has room for the start-up commands and for two commands of a program    *)
(* that overtakes them, and fills quickly; the runs with key events take 6,*)
(* the least that the start-up itself needs.  Two accesses (the code's     *)
(* most is 6) let an instruction halt and then draw, or halt twice; one    *)
(* pixel and two colors are enough to see a lost or reordered command.     *)
(* The event queue (the code's takes 34) takes 1 event, fewer than the     *)
(* user makes, so that it does fill.                                       *)
(***************************************************************************)
EXTENDS EmulatorDisplay
=============================================================================
