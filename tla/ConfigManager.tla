--------------------------- MODULE ConfigManager ---------------------------
(***************************************************************************)
(* The options of the emulator, type.name.member=value, given as arguments *)
(* and in a configuration file (ConfigManager, and what it uses of Utils). *)
(* theConfigData is an argument of every operator; Startup keeps it.       *)
(*                                                                         *)
(* Text is a sequence of pieces: the separators ".", "=", Blank (space,    *)
(* tab, line end) and Nul (the byte 0), and words, which hold none of      *)
(* them.                                                                   *)
(***************************************************************************)
EXTENDS Integers, Sequences, SequencesExt

CONSTANTS Strtoul,    \* the C library's: what a word gives as a 32-bit value, or OutOfRange
          BlockSize   \* pieces that loadFile reads at once, 4096 bytes

Blank == " "
Nul == "\\0"
OutOfRange == -1

ASSUME ConfigAssumption == BlockSize \in Nat \ {0}

-----------------------------------------------------------------------------
(* Reading.                                                                *)

\* A block is appended as a C string: what follows a byte 0 in it is lost.
CString(block) ==
  LET nuls == {i \in DOMAIN block : block[i] = Nul}
  IN  IF nuls = {} THEN block ELSE SubSeq(block, 1, Min(nuls) - 1)
LoadFile(text) ==
  FlattenSeq([k \in 1 .. (Len(text) + BlockSize - 1) \div BlockSize |->
    CString(SubSeq(text, (k - 1) * BlockSize + 1, Min({k * BlockSize, Len(text)})))])

\* Mutant: the start of a token is never forgotten.
ScanKeepingStart(input, s, i) ==
  IF input[i] # Blank THEN [s EXCEPT !.startToken = IF @ = 0 THEN i ELSE @]
  ELSE IF s.startToken = 0 THEN s
  ELSE [s EXCEPT !.retVal = Append(@, SubSeq(input, s.startToken, i - 1))]

\* One character of tokenizeSting; a token is taken at the blank behind it.
Scan(input, s, i) ==
  IF input[i] # Blank THEN [s EXCEPT !.startToken = IF @ = 0 THEN i ELSE @]
  ELSE IF s.startToken = 0 THEN s
  ELSE [startToken |-> 0, retVal |-> Append(s.retVal, SubSeq(input, s.startToken, i - 1))]

TokenizeSting(input) ==
  LET scan[i \in 0 .. Len(input)] ==
        IF i = 0 THEN [startToken |-> 0, retVal |-> <<>>] ELSE Scan(input, scan[i - 1], i)
  IN  scan[Len(input)].retVal

\* The first position of a piece from a position on, 0 for npos.
Find(arg, piece, from) ==
  LET found == {i \in from .. Len(arg) : arg[i] = piece}
  IN  IF found = {} THEN 0 ELSE Min(found)

\* substr with a length: a negative one is a huge size_t and takes the rest.
SubStr(arg, from, length) ==
  SubSeq(arg, from, IF length < 0 THEN Len(arg) ELSE from + length - 1)

\* An argument without two periods and an equals sign is dropped; their order is not
\* tested.
ProcessSingleArg(configData, arg) ==
  LET firstPeriod == Find(arg, ".", 1)
      secondPeriod == Find(arg, ".", firstPeriod + 1)
      equals == Find(arg, "=", 1)
  IN  IF 0 \in {firstPeriod, secondPeriod, equals} THEN configData
      ELSE Append(configData,
             [theType |-> SubStr(arg, 1, firstPeriod - 1),
              theName |-> SubStr(arg, firstPeriod + 1, secondPeriod - firstPeriod - 1),
              theMember |-> SubStr(arg, secondPeriod + 1, equals - secondPeriod - 1),
              theValue |-> SubStr(arg, equals + 1, Len(arg) - equals)])

LoadConfigFile(configData, text) ==
  LET tokens == TokenizeSting(LoadFile(text))
      loaded[k \in 0 .. Len(tokens)] ==
        IF k = 0 THEN configData ELSE ProcessSingleArg(loaded[k - 1], tokens[k])
  IN  loaded[Len(tokens)]

-----------------------------------------------------------------------------
(* Looking up: the first entry that fits.                                  *)

GetConfigTypeInstanceNames(configData, type) ==
  {e.theName : e \in {c \in Range(configData) : c.theType = <<type>>}}

Names(entry, type, member) == entry.theType = <<type>> /\ entry.theMember = <<member>>
NamesOf(entry, type, name, member) == Names(entry, type, member) /\ entry.theName = name

\* The positions of the entries that fit.
Entries(configData, type, member) ==
  {k \in DOMAIN configData : Names(configData[k], type, member)}
EntriesOf(configData, type, name, member) ==
  {k \in DOMAIN configData : NamesOf(configData[k], type, name, member)}

IsConfigPresent(configData, type, member) == Entries(configData, type, member) # {}
IsConfigPresentOf(configData, type, name, member) == EntriesOf(configData, type, name, member) # {}

\* The code's two getStringConfigValue are asked only for what is present.
GetStringConfigValue(configData, type, member) ==
  configData[Min(Entries(configData, type, member))].theValue
GetStringConfigValueOf(configData, type, name, member) ==
  configData[Min(EntriesOf(configData, type, name, member))].theValue

\* strtoul reads the leading number, sets errno for one that is too large, and takes text
\* that begins with no number for a 0.
ParseUInt32(value) ==
  IF value = <<>> \/ value[1] \notin DOMAIN Strtoul THEN 0 ELSE Strtoul[value[1]]

\* Without an instance name a value that does not parse is passed over for the next, ...
GetIntegerConfigValue(configData, type, member) ==
  LET parsed == {k \in Entries(configData, type, member) :
                   ParseUInt32(configData[k].theValue) # OutOfRange}
  IN  IF parsed = {} THEN 0 ELSE ParseUInt32(configData[Min(parsed)].theValue)

\* ... with one it counts as 0.
GetIntegerConfigValueOf(configData, type, name, member) ==
  LET val == ParseUInt32(GetStringConfigValueOf(configData, type, name, member))
  IN  IF val = OutOfRange THEN 0 ELSE val
=============================================================================
