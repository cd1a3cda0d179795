------------------------- MODULE MemoryController -------------------------
(***************************************************************************)
(* The memory map of the emulator: the list of devices the configuration   *)
(* builds (MemoryFactory, MemoryController), their reset (RAM, ROM,        *)
(* mirrors), the input device that the display adds while the program      *)
(* already runs, and the reads and writes of the CPU (emulatorRead,        *)
(* emulatorWrite).                                                         *)
(*                                                                         *)
(* A device is a record: theName, type, theAddress, theSize, source (the   *)
(* sourceAddress of a mirror) and image (the file of a ROM).  One call of  *)
(* addNewDevice is one step: the list is inserted into and searched by two *)
(* threads without a lock, and that race is not part of this module.       *)
(***************************************************************************)
EXTENDS Integers, Sequences, SequencesExt

CONSTANTS AddressLimit,    \* 2^16, the values of CpuAddress
          Values,          \* the bytes a program stores, 0 among them
          Configurations,  \* sequences of devices in the order MemoryFactory builds them
          InputDevice,     \* what Easy6502JsDisplay::startDisplay adds
          MaxWrites        \* bound: writes of the program

Address == 0 .. AddressLimit - 1
Types == {"RAM", "ROM", "MirrorMemory", "Easy6502JsDisplay", "Easy6502JsInputDevice"}
Device ==
  {d \in [theName : STRING, type : Types, theAddress : Address, theSize : Address,
          source : Address, image : UNION {[0 .. n - 1 -> Values] : n \in Address}] :
     d.type = "ROM" => d.image \in [0 .. d.theSize - 1 -> Values]}

ASSUME AddressAssumption == AddressLimit \in Nat /\ AddressLimit > 1
ASSUME ConfigurationAssumption ==
  /\ Configurations \subseteq Seq(Device)
  /\ InputDevice \in Device /\ InputDevice.type = "Easy6502JsInputDevice" /\ InputDevice.theSize = 1
  /\ 0 \in Values /\ MaxWrites \in Nat

VARIABLES todo,           \* devices MemoryFactory has still to build
          theDevices,
          refused,        \* devices addNewDevice warned about and left out
          phase,
          theRealMemDev,  \* of every mirror
          theData,        \* of every RAM and ROM, theDisplayFrame of the display
          writes

vars == <<todo, theDevices, refused, phase, theRealMemDev, theData, writes>>

NoDevice == [theName |-> "", type |-> "nullptr"]
Devices == Range(theDevices)
Mirrors == {d \in Devices : d.type = "MirrorMemory"}
HoldsData(d) == d.type \in {"RAM", "ROM", "Easy6502JsDisplay"}

-----------------------------------------------------------------------------
(* The list of devices.                                                    *)

Claims(d, addr) == d.theAddress <= addr /\ addr - d.theAddress < d.theSize

\* The 16 bits of a sum that passes a limit at most once.
Wrapped(n) == IF n < 0 THEN n + AddressLimit
              ELSE IF n >= AddressLimit THEN n - AddressLimit ELSE n

\* Mutant: the address behind the device counts as its last.
RangeOfWithEnd(d) == [first |-> d.theAddress, second |-> Wrapped(d.theAddress + d.theSize)]
RangeOf(d) == [first |-> d.theAddress, second |-> Wrapped(d.theAddress + d.theSize - 1)]

\* Mutant: ranges that share one end pass.
RangesOverlapStrict(a, b) == a.second > b.first /\ b.second > a.first
RangesOverlap(a, b) == a.second >= b.first /\ b.second >= a.first

\* Mutant: a device goes in front of one with the same address.
InsertPositionInFront(devices, device) ==
  CHOOSE p \in 1 .. Len(devices) + 1 :
    /\ p <= Len(devices) => device.theAddress <= devices[p].theAddress
    /\ \A i \in 1 .. p - 1 : device.theAddress > devices[i].theAddress

InsertPosition(devices, device) ==
  CHOOSE p \in 1 .. Len(devices) + 1 :
    /\ p <= Len(devices) => device.theAddress < devices[p].theAddress
    /\ \A i \in 1 .. p - 1 : device.theAddress >= devices[i].theAddress

AddNewDevice(device) ==
  \/ /\ \E d \in Devices : RangesOverlap(RangeOf(d), RangeOf(device))
     /\ refused' = refused \union {device}
     /\ UNCHANGED theDevices
  \/ /\ ~ \E d \in Devices : RangesOverlap(RangeOf(d), RangeOf(device))
     /\ theDevices' = InsertAt(theDevices, InsertPosition(theDevices, device), device)
     /\ UNCHANGED refused

GetDevice(addr) ==
  IF \A i \in DOMAIN theDevices : ~ Claims(theDevices[i], addr) THEN NoDevice
  ELSE theDevices[CHOOSE i \in DOMAIN theDevices :
                    /\ Claims(theDevices[i], addr)
                    /\ \A j \in 1 .. i - 1 : ~ Claims(theDevices[j], addr)]

-----------------------------------------------------------------------------
(* Mirrors.                                                                *)

\* The bitwise and of two addresses.
BitAnd[x \in Address] ==
  [y \in Address |->
     IF x = 0 \/ y = 0 THEN 0 ELSE (x % 2) * (y % 2) + 2 * BitAnd[x \div 2][y \div 2]]

\* Mutant: the size itself as mask.
MirrorAddressWholeSize(mirror, real, addr) ==
  Wrapped(BitAnd[addr - mirror.theAddress][real.theSize] + mirror.source)
\* Mutant: the address masked, not the offset.
MirrorAddressAbsolute(mirror, real, addr) ==
  Wrapped(BitAnd[addr][real.theSize - 1] + mirror.source)
MirrorAddress(mirror, real, addr) ==
  Wrapped(BitAnd[addr - mirror.theAddress][real.theSize - 1] + mirror.source)

\* What a device accepts: one address more than it has.  LOG_FATAL at any other address
\* ends the process.
IsAbsAddressValid(d, addr) == d.theAddress <= addr /\ addr <= d.theAddress + d.theSize

\* One call of a mirror's read8 or write8: the device and the address it forwards to.
Forward(access) ==
  IF access.device \notin Mirrors \/ ~ IsAbsAddressValid(access.device, access.addr) THEN access
  ELSE LET real == theRealMemDev[access.device]
       IN  [device |-> real, addr |-> MirrorAddress(access.device, real, access.addr)]

\* Where an access to addr ends; mirrors may mirror mirrors.
Target(addr) ==
  LET after[n \in 0 .. Len(theDevices)] ==
        IF n = 0 THEN [device |-> GetDevice(addr), addr |-> addr] ELSE Forward(after[n - 1])
  IN  after[Len(theDevices)]

-----------------------------------------------------------------------------
(* Start-up.                                                               *)

Init ==
  /\ todo \in Configurations
  /\ theDevices = <<>> /\ refused = {}
  /\ phase = "configure"
  /\ theRealMemDev = <<>> /\ theData = <<>>
  /\ writes = 0

ProcessSingleDevice ==
  /\ phase = "configure" /\ todo # <<>>
  /\ AddNewDevice(Head(todo))
  /\ todo' = Tail(todo)
  /\ UNCHANGED <<phase, theRealMemDev, theData, writes>>

InitialData(d) ==
  IF d.type = "ROM" THEN d.image ELSE [i \in 0 .. d.theSize - 1 |-> 0]

\* Mutant: mirrors are not reset.
ResetAllDataOnly ==
  /\ phase = "configure" /\ todo = <<>>
  /\ theData' = [d \in {e \in Devices : HoldsData(e)} |-> InitialData(d)]
  /\ phase' = "starting"
  /\ UNCHANGED <<todo, theDevices, refused, theRealMemDev, writes>>
\* LOG_FATAL at a mirror with no device at its source ends the process.
ResetAll ==
  /\ phase = "configure" /\ todo = <<>>
  /\ theData' = [d \in {e \in Devices : HoldsData(e)} |-> InitialData(d)]
  /\ theRealMemDev' = [m \in Mirrors |-> GetDevice(m.source)]
  /\ phase' = IF NoDevice \in Range(theRealMemDev') THEN "ended" ELSE "starting"
  /\ UNCHANGED <<todo, theDevices, refused, writes>>

\* The main thread, while the emulation thread already runs the program.
StartDisplay ==
  /\ phase = "starting"
  /\ \E d \in Devices : d.type = "Easy6502JsDisplay"
  /\ AddNewDevice(InputDevice)
  /\ phase' = "running"
  /\ UNCHANGED <<todo, theRealMemDev, theData, writes>>

StartWithoutDisplay ==
  /\ phase = "starting"
  /\ \A d \in Devices : d.type # "Easy6502JsDisplay"
  /\ phase' = "running"
  /\ UNCHANGED <<todo, theDevices, refused, theRealMemDev, theData, writes>>

-----------------------------------------------------------------------------
(* The program's accesses; reads of memory that exists change nothing here. *)

Started == phase \in {"starting", "running"}

Read8(addr) ==
  LET t == Target(addr)
  IN  IF HoldsData(t.device) THEN theData[t.device][t.addr - t.device.theAddress] ELSE 0

\* emulatorRead and emulatorWrite halt the CPU when no device claims the address (what the
\* instruction still does then is not followed).
AccessNothing(addr) ==
  /\ Started
  /\ GetDevice(addr) = NoDevice
  /\ phase' = "halted"
  /\ UNCHANGED <<todo, theDevices, refused, theRealMemDev, theData, writes>>

\* A device refuses the address that a mirror computed for it: LOG_FATAL.
AccessOutside(addr) ==
  LET t == Target(addr)
  IN  /\ Started
      /\ t.device # NoDevice /\ ~ IsAbsAddressValid(t.device, t.addr)
      /\ phase' = "ended"
      /\ UNCHANGED <<todo, theDevices, refused, theRealMemDev, theData, writes>>

\* It accepts the address behind its last byte; what follows is undefined.
AccessPastEnd(addr) ==
  LET t == Target(addr)
  IN  /\ Started
      /\ t.device \notin Mirrors \union {NoDevice}
      /\ IsAbsAddressValid(t.device, t.addr) /\ ~ Claims(t.device, t.addr)
      /\ phase' = "undefined"
      /\ UNCHANGED <<todo, theDevices, refused, theRealMemDev, theData, writes>>

\* Mirrors that mirror each other call each other until one of them refuses an address
\* or the stack is full.
AccessEndlessMirror(addr) ==
  LET t == Target(addr)
  IN  /\ Started
      /\ t.device \in Mirrors /\ IsAbsAddressValid(t.device, t.addr)
      /\ phase' \in {"ended", "crashed"}
      /\ UNCHANGED <<todo, theDevices, refused, theRealMemDev, theData, writes>>

EmulatorWrite(addr, val) ==
  LET t == Target(addr)
  IN  /\ Started
      /\ writes < MaxWrites /\ writes' = writes + 1
      /\ HoldsData(t.device) /\ Claims(t.device, t.addr)
      /\ theData' = [theData EXCEPT ![t.device][t.addr - t.device.theAddress] = val]
      /\ UNCHANGED <<todo, theDevices, refused, phase, theRealMemDev>>

Next ==
  \/ ProcessSingleDevice
  \/ ResetAll
  \/ StartDisplay
  \/ StartWithoutDisplay
  \/ \E addr \in Address :
       AccessNothing(addr) \/ AccessOutside(addr) \/ AccessPastEnd(addr) \/ AccessEndlessMirror(addr)
  \/ \E addr \in Address, val \in Values : EmulatorWrite(addr, val)

Spec == Init /\ [][Next]_vars

-----------------------------------------------------------------------------
(* Properties.                                                             *)

\* The types of the variables.
TypeOK ==
  /\ todo \in Seq(Device) /\ theDevices \in Seq(Device)
  /\ refused \subseteq Device
  /\ phase \in {"configure", "starting", "running", "halted", "ended", "crashed", "undefined"}
  /\ writes \in 0 .. MaxWrites
  /\ phase # "configure" =>
       /\ theRealMemDev \in [Mirrors -> Devices \union {NoDevice}]
       /\ \A d \in DOMAIN theData : theData[d] \in [0 .. d.theSize - 1 -> Values]

\* A device that holds at least one byte and ends inside the address space.
Fits(d) == d.theSize > 0 /\ d.theAddress + d.theSize <= AddressLimit
Footprint(d) == {a \in Address : Claims(d, a)}

\* The list stays sorted, and devices that fit never share an address, in whatever order
\* they were configured and also after the late insertion: getOrderedRangeList, the
\* search of getDevice and the listing of the disassembler rest on it.
OrderedDisjoint ==
  \A i, j \in DOMAIN theDevices : i < j =>
    /\ theDevices[i].theAddress <= theDevices[j].theAddress
    /\ Fits(theDevices[i]) /\ Fits(theDevices[j]) =>
         theDevices[i].theAddress + theDevices[i].theSize <= theDevices[j].theAddress

\* A device that fits is left out only because it shares an address with one that was
\* configured before it: no configuration silently loses memory.
RefusedOnlyForOverlap ==
  \A r \in {d \in refused : Fits(d)} :
    \E d \in Devices : Footprint(d) \intersect Footprint(r) # {}

\* The device a mirror found at reset is the one that answers at its source address as
\* long as the emulator runs, although the list grows after the reset, even if the source
\* is the address of the input device.
MirrorsAreFresh ==
  Started => \A m \in Mirrors : theRealMemDev[m] = GetDevice(m.source)

\* isAbsAddressValid lets one address too many pass.  Only a mirror that names the middle
\* of what it mirrors can bring an access there: mask and wrap-around keep those of every
\* other mirror inside the device they end at, or take them below its first address.
AccessesStayInside ==
  Started => \A addr \in Address :
    LET t == Target(addr)
    IN  /\ t.device # NoDevice /\ IsAbsAddressValid(t.device, t.addr)
        /\ \A m \in Mirrors : theRealMemDev[m] = t.device => m.source = t.device.theAddress
        => Claims(t.device, t.addr)

\* A power of two has no odd divisor but 1.
PowerOfTwo(n) == n > 0 /\ \A d \in 2 .. n : n % d = 0 => d % 2 = 0

\* Every mirror names the first address of what it mirrors, whose size is a power of two:
\* the code masks the offset, and checks neither.
RegularMirrors ==
  \A m \in Mirrors : /\ m.source = theRealMemDev[m].theAddress
                     /\ PowerOfTwo(theRealMemDev[m].theSize)

\* The byte a configuration gives an address: a mirror repeats the device at its source
\* address from its own first address on.
Covering(addr) == {d \in Devices : addr \in Footprint(d)}
CellOf(addr) ==
  LET after[n \in 0 .. Len(theDevices)] ==
        IF n = 0 THEN addr
        ELSE LET a == after[n - 1]
                 mirror == {m \in Covering(a) : m \in Mirrors /\ Covering(m.source) # {}}
             IN  IF mirror = {} THEN a
                 ELSE LET m == CHOOSE m \in mirror : TRUE
                          real == CHOOSE d \in Covering(m.source) : TRUE
                      IN  m.source + ((a - m.theAddress) % real.theSize)
  IN  after[Len(theDevices)]

\* The addresses where the program reads what it stored, before a step.
Readable == {a \in Address : HoldsData(Target(a).device) /\ Claims(Target(a).device, Target(a).addr)}

\* With regular mirrors a write through any address changes what is read at the addresses
\* of the same byte, and at no other; no other step, the late insertion of the input
\* device included, changes what memory reads.
WritesReachTheirCell ==
  [][/\ Started /\ writes' = writes => \A b \in Readable : Read8(b)' = Read8(b)
     /\ \A addr \in Address, val \in Values :
          EmulatorWrite(addr, val) /\ RegularMirrors =>
            \A b \in Readable :
              Read8(b)' = IF CellOf(addr) = CellOf(b) THEN val ELSE Read8(b)]_vars
=============================================================================
