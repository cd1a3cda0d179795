------------------------ MODULE MCDisassembler6502 -------------------------
(***************************************************************************)
(* Disassembler6502 on every ROM of five bytes that starts with NOP, BNE or *)
(* JSR and goes on with these and with operands: forward and backward       *)
(* offsets, one of the two offsets that leave the range of a signed byte,   *)
(* and halves of an address inside the ROM.  One ROM ends at 0xffff.        *)
(***************************************************************************)
EXTENDS Disassembler6502

OpCodes == {234, 208, 32}
Operands == {1, 253, 126}
Bases == {257, 65531}
MCRoms == {[a \in base .. base + 4 |-> image[a - base + 1]] :
             base \in Bases,
             image \in {i \in [1 .. 5 -> OpCodes \union Operands] : i[1] \in OpCodes}}
MCEntryPoints == {<<>>, <<2>>}
MCListingLengths == {3}
=============================================================================
