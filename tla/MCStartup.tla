----------------------------- MODULE MCStartup -----------------------------
(***************************************************************************)
(* Startup on 64 addresses (one stands for 1024): every pair of arguments  *)
(* out of a pool, with configuration files that name a ROM whose image     *)
(* fits or does not, a cartridge alone or in the way of other devices, a   *)
(* mirror of something, of nothing or of itself, or devices that overlap,  *)
(* and that contain malformed words or a byte 0, or lack the last line     *)
(* end.                                                                    *)
(***************************************************************************)
EXTENDS Startup

Opt(type, name, member, value) == <<type, ".", name, ".", member, "=">> \o value

MCStrtoul == [word \in {"6", "8", "16", "75", "huge"} |->
                CASE word = "6" -> 6 [] word = "8" -> 8 [] word = "16" -> 16
                  [] word = "75" -> 75 [] word = "huge" -> OutOfRange]

CartridgeOption == Opt("iNES", "cart", "filename", <<"game">>)
ArgPool ==
  {CartridgeOption,
   Opt("config", "file", "filename", <<"romconf">>),
   Opt("config", "other", "filename", <<"cartconf">>),
   Opt("config", "third", "filename", <<"cut", ".", "txt">>),
   Opt("config", "none", "filename", <<"missing">>),
   Opt("config", "void", "filename", <<"emptyconf">>),
   Opt("emulator", "system", "startAddress", <<"6">>),
   Opt("emulator", "again", "startAddress", <<"75">>),
   Opt("emulator", "system", "startAddress", <<"huge">>),
   Opt("emulator", "system", "startAddress", <<"none">>),
   Opt("emulator", "system", "stepCount", <<"16">>),
   Opt("debugger", "d", "port", <<"75">>),
   Opt("ROM", "boot", "startEmulatorAddress", <<"16">>),
   Opt("RAM", "low", "size", <<"8">>),
   Opt("RNG", "dice", "size", <<"16">>),
   Opt("MirrorMemory", "m", "sourceAddress", <<"16">>),
   Opt("Easy6502JsDisplay", "screen", "dontcare", <<>>),
   <<"config", ".", "filename", "=", "romconf", ".", "txt">>,
   <<"iNES", ".", "filename", "=", "game", ".", "nes">>,
   <<"emulator", ".", "startAddress", "=", "6">>,
   <<"emulator", ".", "system", "=", "6", ".", "startAddress">>,
   <<"emulator", ".", "system", ".", "startAddress">>}
MCArgLists ==
  {<<a>> : a \in ArgPool} \union {<<a, b>> : a, b \in ArgPool}

Lines(options) == FlattenSeq([k \in DOMAIN options |-> options[k] \o <<Blank>>])
RomConfig ==
  Lines(<<Opt("ROM", "boot", "filename", <<"image">>), Opt("ROM", "boot", "startAddress", <<"8">>),
          Opt("ROM", "boot", "startEmulatorAddress", <<"8">>),
          Opt("ROM", "empty", "filename", <<"missing">>), Opt("ROM", "empty", "startAddress", <<"16">>),
          Opt("ROM", "empty", "startEmulatorAddress", <<"16">>),
          Opt("RAM", "low", "startAddress", <<"none">>), Opt("RAM", "low", "size", <<"16">>)>>)
CartridgeConfig ==
  <<Blank, Blank>> \o
  Lines(<<Opt("RAM", "zero", "startAddress", <<"huge">>), Opt("RAM", "zero", "size", <<"6">>),
          <<"comment">>, CartridgeOption, Opt("Easy6502JsDisplay", "screen", "dontcare", <<>>),
          Opt("RNG", "dice", "size", <<"6">>), Opt("RNG", "dice", "startAddress", <<"75">>)>>)
  \o Opt("emulator", "file", "startAddress", <<"8">>)
CutConfig ==
  Lines(<<CartridgeOption>>) \o <<Nul>> \o
  Lines(<<Opt("emulator", "lost", "startAddress", <<"8">>),
          Opt("MirrorMemory", "m", "sourceAddress", <<"6">>),
          Opt("MirrorMemory", "m", "sourceSize", <<"8">>), Opt("MirrorMemory", "m", "destAddress", <<"16">>),
          Opt("MirrorMemory", "m", "destSize", <<"16">>), Opt("emulator", "file", "startAddress", <<"16">>)>>)

EmptyConfig ==
  Lines(<<CartridgeOption, Opt("ROM", "void", "filename", <<"missing">>),
          Opt("ROM", "void", "startAddress", <<"none">>)>>)

Texts(imageLength) ==
  (<<"romconf">> :> RomConfig) @@ (<<"cartconf">> :> CartridgeConfig)
  @@ (<<"cut", ".", "txt">> :> CutConfig) @@ (<<"emptyconf">> :> EmptyConfig)
  @@ (<<"image">> :> [k \in 1 .. imageLength |-> "byte"])
MCDisks == {Texts(8), Texts(60)}
=============================================================================
