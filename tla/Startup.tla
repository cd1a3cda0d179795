------------------------------ MODULE Startup ------------------------------
(***************************************************************************)
(* main() of the emulator up to the moment its threads start: arguments,   *)
(* configuration file, the devices MemoryFactory builds from the options,  *)
(* the start address, and the reset, in which LOG_FATAL ends the process   *)
(* for a mirror of nothing and for every cartridge.  The list of devices   *)
(* is that of MemoryController, whose operators are used; what the devices *)
(* hold, and the threads, are in MemoryController and EmulatorDisplay.     *)
(***************************************************************************)
EXTENDS ConfigManager

CONSTANTS ArgLists,      \* sequences of arguments, none of them empty (main() prints its usage)
          Disks,         \* functions from filenames to texts
          AddressLimit,  \* 2^16
          ScreenAddress, ScreenSize,  \* of Easy6502JsDisplay: 0x200 and 1024
          PRG_RAM_ADDR   \* where a cartridge begins, 0x6000; it goes on to the last address

Address == 0 .. AddressLimit - 1

ASSUME StartupAssumption ==
  /\ ArgLists \subseteq Seq(Seq(STRING)) /\ <<>> \notin ArgLists
  /\ \A disk \in Disks : \A f \in DOMAIN disk : disk[f] \in Seq(STRING)
  /\ Strtoul \in [DOMAIN Strtoul -> Nat \union {OutOfRange}]
  /\ AddressLimit \in Nat /\ PRG_RAM_ADDR \in Address \ {0}
  /\ {ScreenAddress, ScreenSize} \subseteq Address /\ ScreenAddress + ScreenSize <= AddressLimit

VARIABLES argv, i,        \* the arguments, and how many of them are processed
          disk,
          pc,
          theConfigData,
          built,          \* <<type, name>> of the instances MemoryFactory is done with
          theDevices, refused,
          startAddress,   \* the program counter the CPU gets
          debuggerPort, numSteps

configVars == <<argv, i, disk, theConfigData>>
deviceVars == <<built, theDevices, refused>>
vars == <<configVars, pc, deviceVars, startAddress, debuggerPort, numSteps>>

Memory == INSTANCE MemoryController
            WITH Values <- {0}, Configurations <- {}, InputDevice <- <<>>, MaxWrites <- 0,
                 todo <- <<>>, phase <- "configure", theRealMemDev <- <<>>, theData <- <<>>,
                 writes <- 0

NotSet == -1
Cartridges == {d \in Memory!Devices : d.type = "iNES"}
Mirrors == {d \in Memory!Devices : d.type = "MirrorMemory"}

-----------------------------------------------------------------------------
(* Options.                                                                *)

ProcessArg ==
  /\ pc = "processArgs" /\ i < Len(argv)
  /\ theConfigData' = ProcessSingleArg(theConfigData, argv[i + 1])
  /\ i' = i + 1
  /\ UNCHANGED <<argv, disk, pc, deviceVars, startAddress, debuggerPort, numSteps>>

\* The first file that an argument names; a name inside that file comes too late.
ConfigFile == GetStringConfigValue(theConfigData, "config", "filename")

\* Mutant: the options of the file come before those of the command line.
LoadConfigurationFirst ==
  /\ pc = "processArgs" /\ i = Len(argv)
  /\ IF IsConfigPresent(theConfigData, "config", "filename") /\ ConfigFile \in DOMAIN disk
     THEN theConfigData' = LoadConfigFile(<<>>, disk[ConfigFile]) \o theConfigData
     ELSE UNCHANGED theConfigData
  /\ pc' = "initializeSdl"
  /\ UNCHANGED <<argv, i, disk, deviceVars, startAddress, debuggerPort, numSteps>>
LoadConfiguration ==
  /\ pc = "processArgs" /\ i = Len(argv)
  /\ IF IsConfigPresent(theConfigData, "config", "filename") /\ ConfigFile \in DOMAIN disk
     THEN theConfigData' = LoadConfigFile(theConfigData, disk[ConfigFile])
     ELSE UNCHANGED theConfigData
  /\ pc' = "initializeSdl"
  /\ UNCHANGED <<argv, i, disk, deviceVars, startAddress, debuggerPort, numSteps>>

\* The library starts, or main() returns.
InitializeSdl ==
  /\ pc = "initializeSdl"
  /\ pc' \in {"build", "ended"}
  /\ UNCHANGED <<configVars, deviceVars, startAddress, debuggerPort, numSteps>>

-----------------------------------------------------------------------------
(* MemoryFactory.                                                          *)

FactoryTypes == <<"RAM", "ROM", "RNG", "MirrorMemory", "Easy6502JsDisplay", "iNES">>

\* What configSelf requires of an instance.
ConfigParams(type) ==
  CASE type \in {"RAM", "RNG"} -> {"size", "startAddress"}
    [] type = "ROM" -> {"startAddress", "filename"}
    [] type = "MirrorMemory" -> {"sourceAddress", "sourceSize", "destAddress", "destSize"}
    [] type = "iNES" -> {"filename"}
    [] OTHER -> {}

ConfigSelf(type, name) ==
  \A member \in ConfigParams(type) : IsConfigPresentOf(theConfigData, type, name, member)

\* The size a ROM takes from its file, 0 (which does not keep it out of the map) when the
\* file is not there, or does not fit.
RomSize(file, address) ==
  IF file \notin DOMAIN disk THEN 0
  ELSE LET length == Len(disk[file])
       IN  IF length < AddressLimit /\ length <= AddressLimit - address THEN length ELSE 0

ConfiguredDevice(type, name) ==
  LET Uint16(member) == GetIntegerConfigValueOf(theConfigData, type, name, member) % AddressLimit
      Str(member) == GetStringConfigValueOf(theConfigData, type, name, member)
      Device(address, size, source, start) ==
        [type |-> type, theName |-> name, theAddress |-> address, theSize |-> size,
         source |-> source, theStartEmulationAddress |-> start]
  IN  CASE type \in {"RAM", "RNG"} -> Device(Uint16("startAddress"), Uint16("size"), NotSet, NotSet)
        [] type = "ROM" ->
             Device(Uint16("startAddress"), RomSize(Str("filename"), Uint16("startAddress")), NotSet,
                    IF IsConfigPresentOf(theConfigData, type, name, "startEmulatorAddress")
                    THEN Uint16("startEmulatorAddress") ELSE NotSet)
        [] type = "MirrorMemory" ->
             Device(Uint16("destAddress"), Uint16("destSize"), Uint16("sourceAddress"), NotSet)
        [] type = "Easy6502JsDisplay" -> Device(ScreenAddress, ScreenSize, NotSet, NotSet)
        [] type = "iNES" -> Device(PRG_RAM_ADDR, AddressLimit - PRG_RAM_ADDR, NotSet, NotSet)

Instances(type) == {<<type, name>> : name \in GetConfigTypeInstanceNames(theConfigData, type)}
Pending(k) == Instances(FactoryTypes[k]) \ built

\* One type after the other; the names of a type come in the order of their text, which is
\* any order of the pieces that stand for them.
ProcessSingleMemoryType(k) ==
  /\ pc = "build"
  /\ \A j \in 1 .. k - 1 : Pending(j) = {}
  /\ \E instance \in Pending(k) :
       LET type == instance[1]
           name == instance[2]
       IN  /\ IF ConfigSelf(type, name) THEN Memory!AddNewDevice(ConfiguredDevice(type, name))
              ELSE UNCHANGED <<theDevices, refused>>
           /\ built' = built \union {instance}
  /\ UNCHANGED <<configVars, pc, startAddress, debuggerPort, numSteps>>

-----------------------------------------------------------------------------
(* The start address, asked of the devices before their reset.             *)

\* A cartridge needs its mapper to answer, and the reset has yet to create that.
DeviceSpecifiesStart(d) == d.type = "ROM" /\ d.theStartEmulationAddress # NotSet

GetStartAddress ==
  LET specifying == {k \in DOMAIN theDevices : DeviceSpecifiesStart(theDevices[k])}
  IN  IF specifying = {} THEN 0 ELSE theDevices[Min(specifying)].theStartEmulationAddress

OptionalInteger(type, member) ==
  IF IsConfigPresent(theConfigData, type, member)
  THEN GetIntegerConfigValue(theConfigData, type, member) ELSE NotSet

\* Mutant: a start address of 32 bits.
ChooseStartAddressWide ==
  /\ pc = "build" /\ \A k \in DOMAIN FactoryTypes : Pending(k) = {}
  /\ debuggerPort' = OptionalInteger("debugger", "port")
  /\ startAddress' = IF IsConfigPresent(theConfigData, "emulator", "startAddress")
                     THEN OptionalInteger("emulator", "startAddress") ELSE GetStartAddress
  /\ pc' = "reset"
  /\ UNCHANGED <<configVars, deviceVars, numSteps>>
\* Mutant: a device is asked before the options.
ChooseStartAddressOfDevice ==
  /\ pc = "build" /\ \A k \in DOMAIN FactoryTypes : Pending(k) = {}
  /\ debuggerPort' = OptionalInteger("debugger", "port")
  /\ startAddress' = IF \E d \in Memory!Devices : DeviceSpecifiesStart(d) THEN GetStartAddress
                     ELSE IF IsConfigPresent(theConfigData, "emulator", "startAddress")
                     THEN OptionalInteger("emulator", "startAddress") % AddressLimit ELSE 0
  /\ pc' = "reset"
  /\ UNCHANGED <<configVars, deviceVars, numSteps>>
ChooseStartAddress ==
  /\ pc = "build" /\ \A k \in DOMAIN FactoryTypes : Pending(k) = {}
  /\ debuggerPort' = OptionalInteger("debugger", "port")
  /\ startAddress' = IF IsConfigPresent(theConfigData, "emulator", "startAddress")
                     THEN OptionalInteger("emulator", "startAddress") % AddressLimit
                     ELSE GetStartAddress
  /\ pc' = "reset"
  /\ UNCHANGED <<configVars, deviceVars, numSteps>>

\* Mutant: LOG_FATAL only warns.
ResetAllGoesOn ==
  /\ pc = "reset"
  /\ pc' = "enableDebugger"
  /\ UNCHANGED <<configVars, deviceVars, startAddress, debuggerPort, numSteps>>
\* Mutant: a mirror is looked up where it is, not where it points.
ResetAllOwnAddress ==
  /\ pc = "reset"
  /\ pc' = IF \/ Cartridges # {}
              \/ \E d \in Mirrors : Memory!GetDevice(d.theAddress) = Memory!NoDevice
           THEN "ended" ELSE "enableDebugger"
  /\ UNCHANGED <<configVars, deviceVars, startAddress, debuggerPort, numSteps>>

\* LOG_FATAL is exit(0).  A mirror needs a device at its source, be it the mirror itself; a
\* cartridge is never fully configured, since configSelf sets its filename without the flag.
ResetAll ==
  /\ pc = "reset"
  /\ pc' = IF \/ Cartridges # {}
              \/ \E d \in Mirrors : Memory!GetDevice(d.source) = Memory!NoDevice
           THEN "ended" ELSE "enableDebugger"
  /\ UNCHANGED <<configVars, deviceVars, startAddress, debuggerPort, numSteps>>

\* A debugger that cannot open its port ends the emulator.
EnableDebugger ==
  /\ pc = "enableDebugger"
  /\ \/ /\ pc' = "run" /\ numSteps' = OptionalInteger("emulator", "stepCount")
     \/ /\ debuggerPort # NotSet
        /\ pc' = "ended" /\ UNCHANGED numSteps
  /\ UNCHANGED <<configVars, deviceVars, startAddress, debuggerPort>>

-----------------------------------------------------------------------------
Init ==
  /\ argv \in ArgLists /\ i = 0 /\ disk \in Disks
  /\ pc = "processArgs"
  /\ theConfigData = <<>>
  /\ built = {} /\ theDevices = <<>> /\ refused = {}
  /\ startAddress = 0
  /\ debuggerPort = NotSet /\ numSteps = NotSet

Next ==
  \/ ProcessArg \/ LoadConfiguration \/ InitializeSdl
  \/ \E k \in DOMAIN FactoryTypes : ProcessSingleMemoryType(k)
  \/ ChooseStartAddress \/ ResetAll \/ EnableDebugger

Spec == Init /\ [][Next]_vars

-----------------------------------------------------------------------------
(* Properties.                                                             *)

\* Types; the addresses are 16-bit values.
TypeOK ==
  /\ i \in 0 .. Len(argv)
  /\ pc \in {"processArgs", "initializeSdl", "build", "reset", "enableDebugger", "run", "ended"}
  /\ startAddress \in Address
  /\ \A d \in Memory!Devices \union refused : {d.theAddress, d.theSize} \subseteq Address
  /\ \A t \in DOMAIN FactoryTypes : \A b \in built : b[1] = FactoryTypes[t] => b \in Instances(b[1])

\* The options the user wrote: the arguments and the words of the configuration file, each
\* word up to the blank behind it, that are of the form type.name.member=value.
IsOption(word) ==
  /\ Len(word) >= 6 /\ word[2] = "." /\ word[4] = "." /\ word[6] = "="
  /\ {word[1], word[3], word[5]} \intersect {".", "="} = {}
Option(word) ==
  [theType |-> <<word[1]>>, theName |-> <<word[3]>>, theMember |-> <<word[5]>>,
   theValue |-> SubSeq(word, 7, Len(word))]
\* The elements of s at these positions, in their order.
Selected(s, positions) ==
  LET selected[n \in 0 .. Len(s)] ==
        IF n = 0 THEN <<>>
        ELSE IF n \in positions THEN Append(selected[n - 1], s[n]) ELSE selected[n - 1]
  IN  selected[Len(s)]
Words(text) ==
  LET Start(q) == Max({p \in 1 .. q - 1 : text[p] = Blank} \union {0}) + 1
      ends == {q \in DOMAIN text : text[q] = Blank /\ Start(q) < q}
  IN  Selected([q \in DOMAIN text |-> SubSeq(text, Start(q), q - 1)], ends)
OptionsOf(words) ==
  LET options == Selected(words, {k \in DOMAIN words : IsOption(words[k])})
  IN  [k \in DOMAIN options |-> Option(options[k])]

\* The positions of the options that were read for a member, whatever the instance.
Read(type, member) == {k \in DOMAIN theConfigData : /\ theConfigData[k].theType = <<type>>
                                                    /\ theConfigData[k].theMember = <<member>>}
ReadOf(d, member) == {k \in Read(d.type, member) : theConfigData[k].theName = d.theName}
IsFirst(k, positions) == k \in positions /\ \A p \in positions : k <= p
\* The address an option says: 16 bits of a number, 0 for one that is too large.
Parsed(k) == ParseUInt32(theConfigData[k].theValue)
Number(k) == IF Parsed(k) = OutOfRange THEN 0 ELSE Parsed(k) % AddressLimit

Single(field) == Len(field) = 1 /\ field[1] \notin {".", "="}
WellFormed(entry) == Single(entry.theType) /\ Single(entry.theName) /\ Single(entry.theMember)

\* Every option the user wrote is there, in the order that decides between two of them (the
\* command line before the one file that counts), whatever malformed ones stand among them.
OptionsAreRead ==
  LET files == {k \in Read("config", "filename") : IsFirst(k, Read("config", "filename"))
                                                   /\ theConfigData[k].theValue \in DOMAIN disk}
  IN  pc # "processArgs" =>
        LET read == Selected(theConfigData, {k \in DOMAIN theConfigData : WellFormed(theConfigData[k])})
        IN  /\ files = {} => read = OptionsOf(argv)
            /\ \A k \in files :
                 read = OptionsOf(argv) \o OptionsOf(Words(LoadFile(disk[theConfigData[k].theValue])))

\* The program starts where the first readable emulator.*.startAddress says; without such
\* an option where the first ROM of the map that names an address says, and otherwise at 0:
\* the reset vector of a cartridge, which is not loaded yet, is never used.
StartsWhereTold ==
  LET told == Read("emulator", "startAddress")
      readable == {k \in told : Parsed(k) # OutOfRange}
      StartOf(d) == ReadOf(d, "startEmulatorAddress")
      roms == {d \in Memory!Devices : d.type = "ROM" /\ StartOf(d) # {}}
  IN  pc \in {"reset", "enableDebugger", "run"} =>
        \/ told # {} /\ readable = {} /\ startAddress = 0
        \/ \E k \in readable : IsFirst(k, readable) /\ startAddress = Number(k)
        \/ told = {} /\ roms = {} /\ startAddress = 0
        \/ /\ told = {}
           /\ \E d \in roms : /\ \A e \in roms : d.theAddress <= e.theAddress
                              /\ \E k \in StartOf(d) : IsFirst(k, StartOf(d)) /\ startAddress = Number(k)

\* The threads start only on a whole map: every mirror of it has a device at the address the
\* first of its options says, and no cartridge is on it.  Who wrote a cartridge has another
\* device there that reaches the cartridge's addresses, or an empty one at 0, which counts as
\* all addresses; without it, the process ended.
RunsOnAWholeMap ==
  pc \in {"enableDebugger", "run"} =>
    /\ \A d \in Mirrors : \E k \in DOMAIN theConfigData :
         /\ IsFirst(k, ReadOf(d, "sourceAddress"))
         /\ \E e \in Memory!Devices : Memory!Claims(e, Number(k))
    /\ Read("iNES", "filename") # {} =>
         \E d \in Memory!Devices \ Cartridges :
           d.theAddress + d.theSize > PRG_RAM_ADDR \/ d.theAddress + d.theSize = 0
=============================================================================
