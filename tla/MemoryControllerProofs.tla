----------------------- MODULE MemoryControllerProofs -----------------------
(***************************************************************************)
(* Proofs about MemoryController for every address width and every set of  *)
(* configurations: the types, that the list of devices stays sorted and    *)
(* unambiguous, that only devices that share an address are refused, that  *)
(* mirrors stay resolved to the device that answers at their source, that  *)
(* accesses end inside a device, and that memory reads what was written.   *)
(***************************************************************************)
EXTENDS MemoryController, TLAPS, SequenceTheorems, SharedLemmas

USE AddressAssumption, ConfigurationAssumption

\* The numbers of a device.
LEMMA DeviceNumbers ==
  ASSUME NEW d \in Device
  PROVE  d.theAddress \in Nat /\ d.theSize \in Nat /\ d.source \in Address
BY DEF Device, Address

\* addNewDevice always finds a place, behind every device that starts no later.
LEMMA InsertPositionProperties ==
  ASSUME NEW devices \in Seq(Device), NEW device \in Device,
         NEW p, p = InsertPosition(devices, device)
  PROVE  /\ p \in 1 .. Len(devices) + 1
         /\ p <= Len(devices) => device.theAddress < devices[p].theAddress
         /\ \A i \in 1 .. p - 1 : device.theAddress >= devices[i].theAddress
<1> DEFINE T == {q \in 1 .. Len(devices) + 1 :
                   q <= Len(devices) => device.theAddress < devices[q].theAddress}
<1>1. Len(devices) \in Nat
  OBVIOUS
<1>2. device.theAddress \in Int /\ \A i \in 1 .. Len(devices) : devices[i].theAddress \in Int
  <2>1. \A i \in 1 .. Len(devices) : devices[i] \in Device
    OBVIOUS
  <2>2. QED
    BY <2>1, DeviceNumbers
<1>3. T \in SUBSET Nat /\ Len(devices) + 1 \in T
  BY <1>1
<1>4. PICK q \in T : \A r \in T : q <= r
  <2> HIDE DEF T
  <2>1. QED
    BY <1>3, LeastNatural
<1>5. /\ q \in 1 .. Len(devices) + 1
      /\ q <= Len(devices) => device.theAddress < devices[q].theAddress
      /\ \A i \in 1 .. q - 1 : device.theAddress >= devices[i].theAddress
  BY <1>1, <1>2, <1>4
<1>6. QED
  BY <1>5 DEF InsertPosition

\* The overlap test of addNewDevice is right about devices that fit.
LEMMA DisjointRanges ==
  ASSUME NEW a \in Device, NEW b \in Device, Fits(a), Fits(b),
         a.theAddress <= b.theAddress,
         ~ RangesOverlap(RangeOf(a), RangeOf(b))
  PROVE  a.theAddress + a.theSize <= b.theAddress
<1>1. a.theAddress \in Nat /\ a.theSize \in Nat /\ b.theAddress \in Nat /\ b.theSize \in Nat
  BY DeviceNumbers
<1>2. /\ Wrapped(a.theAddress + a.theSize - 1) = a.theAddress + a.theSize - 1
      /\ Wrapped(b.theAddress + b.theSize - 1) = b.theAddress + b.theSize - 1
  BY <1>1, SMTT(30) DEF Fits, Wrapped
<1>3. QED
  BY <1>1, <1>2 DEF Fits, RangesOverlap, RangeOf

\* What OrderedDisjoint says of any list of devices.
OrderedList(devices) ==
  \A i, j \in 1 .. Len(devices) : i < j =>
    /\ devices[i].theAddress <= devices[j].theAddress
    /\ Fits(devices[i]) /\ Fits(devices[j]) =>
         devices[i].theAddress + devices[i].theSize <= devices[j].theAddress

\* An insertion that passed the overlap test keeps the list sorted and disjoint.
LEMMA InsertKeepsOrder ==
  ASSUME NEW devices \in Seq(Device), NEW device \in Device, OrderedList(devices),
         \A i \in 1 .. Len(devices) : ~ RangesOverlap(RangeOf(devices[i]), RangeOf(device))
  PROVE  OrderedList(InsertAt(devices, InsertPosition(devices, device), device))
<1> DEFINE p == InsertPosition(devices, device)
           new == InsertAt(devices, p, device)
<1>1. /\ p \in 1 .. Len(devices) + 1 /\ Len(devices) \in Nat
      /\ p <= Len(devices) => device.theAddress < devices[p].theAddress
      /\ \A i \in 1 .. p - 1 : device.theAddress >= devices[i].theAddress
  BY InsertPositionProperties
<1>2. /\ Len(new) = Len(devices) + 1
      /\ \A i \in 1 .. Len(devices) + 1 :
           new[i] = IF i < p THEN devices[i] ELSE IF i = p THEN device ELSE devices[i - 1]
  <2> HIDE DEF p
  <2>1. QED
    BY <1>1, InsertAtProperties
<1> HIDE DEF p, new
<1>3. \A i \in 1 .. Len(devices) : devices[i] \in Device /\ devices[i].theAddress \in Int
  <2>1. \A i \in 1 .. Len(devices) : devices[i] \in Device
    OBVIOUS
  <2>2. QED
    BY <2>1, DeviceNumbers
<1>4. device.theAddress \in Int
  BY DeviceNumbers
<1>5. ASSUME NEW i \in 1 .. Len(devices) + 1, NEW j \in 1 .. Len(devices) + 1, i < j
      PROVE  /\ new[i].theAddress <= new[j].theAddress
             /\ Fits(new[i]) /\ Fits(new[j]) =>
                  new[i].theAddress + new[i].theSize <= new[j].theAddress
  <2>1. CASE j = p
    <3>1. i \in 1 .. p - 1 /\ i \in 1 .. Len(devices)
      BY <1>1, <1>5, <2>1
    <3>2. new[i] = devices[i] /\ new[j] = device
      BY <1>1, <1>2, <2>1, <3>1
    <3>3. new[i].theAddress <= new[j].theAddress
      BY <1>1, <1>3, <1>4, <3>1, <3>2
    <3>4. QED
      BY <1>3, <3>1, <3>2, <3>3, DisjointRanges
  <2>2. CASE i = p
    <3>1. j - 1 \in 1 .. Len(devices) /\ p \in 1 .. Len(devices) /\ p <= j - 1
      BY <1>1, <1>5, <2>2
    <3>2. new[i] = device /\ new[j] = devices[j - 1]
      BY <1>1, <1>2, <1>5, <2>2
    <3>3. devices[p].theAddress <= devices[j - 1].theAddress
      BY <1>3, <3>1 DEF OrderedList
    <3>4. new[i].theAddress <= new[j].theAddress
      BY <1>1, <1>3, <1>4, <3>1, <3>2, <3>3
    <3>5. ~ RangesOverlap(RangeOf(device), RangeOf(devices[j - 1]))
      BY <3>1 DEF RangesOverlap
    <3>6. QED
      BY <1>3, <3>1, <3>2, <3>4, <3>5, DisjointRanges
  <2>3. CASE i # p /\ j # p
    <3>1. PICK k \in 1 .. Len(devices), l \in 1 .. Len(devices) :
            k < l /\ new[i] = devices[k] /\ new[j] = devices[l]
      <4>1. CASE j < p
        BY <1>1, <1>2, <1>5, <4>1
      <4>2. CASE i < p /\ p < j
        <5>1. j - 1 \in 1 .. Len(devices) /\ i \in 1 .. Len(devices) /\ i < j - 1
          BY <1>1, <1>5, <4>2
        <5>2. QED
          BY <1>1, <1>2, <4>2, <5>1
      <4>3. CASE p < i
        <5>1. j - 1 \in 1 .. Len(devices) /\ i - 1 \in 1 .. Len(devices) /\ i - 1 < j - 1
          BY <1>1, <1>5, <4>3
        <5>2. QED
          BY <1>1, <1>2, <1>5, <4>3, <5>1
      <4>4. QED
        BY <1>1, <1>5, <2>3, <4>1, <4>2, <4>3
    <3>2. QED
      BY <3>1 DEF OrderedList
  <2>4. QED
    BY <2>1, <2>2, <2>3
<1>6. OrderedList(new)
  BY <1>1, <1>2, <1>5 DEF OrderedList
<1>7. QED
  BY <1>6 DEF new, p

\* getDevice answers with a device of the list, or with none.
LEMMA GetDeviceType ==
  ASSUME theDevices \in Seq(Device), NEW addr
  PROVE  GetDevice(addr) \in Devices \union {NoDevice}
<1>1. CASE \A i \in DOMAIN theDevices : ~ Claims(theDevices[i], addr)
  BY <1>1 DEF GetDevice
<1>2. CASE \E i \in DOMAIN theDevices : Claims(theDevices[i], addr)
  <2> DEFINE T == {i \in 1 .. Len(theDevices) : Claims(theDevices[i], addr)}
  <2>1. DOMAIN theDevices = 1 .. Len(theDevices) /\ Len(theDevices) \in Nat
    OBVIOUS
  <2>2. T \in SUBSET Nat /\ T # {}
    BY <1>2, <2>1
  <2>3. PICK i \in T : \A j \in T : i <= j
    <3> HIDE DEF T
    <3>1. QED
      BY <2>2, LeastNatural
  <2>4. /\ i \in DOMAIN theDevices /\ Claims(theDevices[i], addr)
        /\ \A j \in 1 .. i - 1 : ~ Claims(theDevices[j], addr)
    BY <2>1, <2>3
  <2>5. PICK k \in DOMAIN theDevices : GetDevice(addr) = theDevices[k]
    BY <1>2, <2>4 DEF GetDevice
  <2>6. QED
    BY <2>5 DEF Devices, Range
<1>3. QED
  BY <1>1, <1>2

\* What addNewDevice does to the list, whatever it decides.
LEMMA AddNewDeviceProperties ==
  ASSUME theDevices \in Seq(Device), refused \subseteq Device, OrderedList(theDevices),
         NEW device \in Device, AddNewDevice(device)
  PROVE  /\ theDevices' \in Seq(Device)
         /\ refused' \subseteq Device
         /\ OrderedList(theDevices')
         /\ Devices \subseteq Devices'
         /\ Devices' \subseteq Devices \union {device}
<1>1. CASE UNCHANGED theDevices /\ refused' = refused \union {device}
  BY <1>1 DEF Devices
<1>2. CASE /\ ~ \E d \in Devices : RangesOverlap(RangeOf(d), RangeOf(device))
           /\ theDevices' = InsertAt(theDevices, InsertPosition(theDevices, device), device)
           /\ UNCHANGED refused
  <2> DEFINE p == InsertPosition(theDevices, device)
  <2>1. p \in 1 .. Len(theDevices) + 1 /\ Len(theDevices) \in Nat
    BY InsertPositionProperties
  <2> HIDE DEF p
  <2>2. theDevices' = InsertAt(theDevices, p, device)
    BY <1>2 DEF p
  <2>3. /\ theDevices' \in Seq(Device) /\ Len(theDevices') = Len(theDevices) + 1
        /\ \A i \in 1 .. Len(theDevices) + 1 :
             theDevices'[i] = IF i < p THEN theDevices[i]
                              ELSE IF i = p THEN device ELSE theDevices[i - 1]
    <3> DEFINE new == InsertAt(theDevices, p, device)
    <3>1. /\ new \in Seq(Device) /\ Len(new) = Len(theDevices) + 1
          /\ \A i \in 1 .. Len(theDevices) + 1 :
               new[i] = IF i < p THEN theDevices[i] ELSE IF i = p THEN device ELSE theDevices[i - 1]
      BY <2>1, InsertAtProperties
    <3>2. theDevices' = new
      BY <2>2
    <3> HIDE DEF new
    <3>3. QED
      BY <3>1, <3>2
  <2>4. /\ DOMAIN theDevices = 1 .. Len(theDevices)
        /\ DOMAIN theDevices' = 1 .. Len(theDevices) + 1
    BY <2>3
  <2>5. Devices \subseteq Devices'
    <3> SUFFICES ASSUME NEW i \in 1 .. Len(theDevices)
                 PROVE  \E j \in 1 .. Len(theDevices) + 1 : theDevices'[j] = theDevices[i]
      BY <2>4 DEF Devices, Range
    <3>1. CASE i < p
      BY <3>1, <2>1, <2>3
    <3>2. CASE i >= p
      <4>1. i + 1 \in 1 .. Len(theDevices) + 1 /\ theDevices'[i + 1] = theDevices[i]
        BY <3>2, <2>1, <2>3
      <4>2. QED
        BY <4>1
    <3>3. QED
      BY <3>1, <3>2, <2>1
  <2>6. Devices' \subseteq Devices \union {device}
    <3> SUFFICES ASSUME NEW j \in 1 .. Len(theDevices) + 1
                 PROVE  theDevices'[j] \in Devices \union {device}
      BY <2>4 DEF Devices, Range
    <3>1. CASE j < p
      BY <3>1, <2>1, <2>3, <2>4 DEF Devices, Range
    <3>2. CASE j = p
      BY <3>2, <2>3
    <3>3. CASE j > p
      <4>1. j - 1 \in 1 .. Len(theDevices) /\ theDevices'[j] = theDevices[j - 1]
        BY <3>3, <2>1, <2>3
      <4>2. QED
        BY <4>1, <2>4 DEF Devices, Range
    <3>4. QED
      BY <3>1, <3>2, <3>3, <2>1
  <2>7. OrderedList(theDevices')
    <3>1. \A i \in 1 .. Len(theDevices) :
            ~ RangesOverlap(RangeOf(theDevices[i]), RangeOf(device))
      BY <1>2, <2>4 DEF Devices, Range
    <3>2. QED
      BY <1>2, <3>1, InsertKeepsOrder
  <2>8. QED
    BY <1>2, <2>3, <2>5, <2>6, <2>7
<1>3. QED
  BY <1>1, <1>2 DEF AddNewDevice

-----------------------------------------------------------------------------
(* The invariants.                                                         *)

LEMMA OrderedDisjointIsOrderedList ==
  ASSUME theDevices \in Seq(Device)
  PROVE  OrderedDisjoint <=> OrderedList(theDevices)
BY DEF OrderedDisjoint, OrderedList

LEMMA OrderedDisjointIsOrderedListNext ==
  ASSUME theDevices' \in Seq(Device)
  PROVE  OrderedDisjoint' <=> OrderedList(theDevices')
BY DEF OrderedDisjoint, OrderedList

IInv == TypeOK /\ OrderedDisjoint

LEMMA InitInvariant == Init => IInv
<1> SUFFICES ASSUME Init
             PROVE  IInv
  OBVIOUS
<1>1. theDevices = <<>> /\ todo \in Seq(Device)
  BY DEF Init
<1>2. TypeOK
  BY <1>1 DEF Init, TypeOK
<1>3. OrderedDisjoint
  BY <1>1 DEF OrderedDisjoint
<1>4. QED
  BY <1>2, <1>3 DEF IInv

LEMMA ProcessSingleDeviceInvariant == IInv /\ ProcessSingleDevice => IInv'
<1> SUFFICES ASSUME IInv, ProcessSingleDevice
             PROVE  IInv'
  OBVIOUS
<1>1. /\ todo \in Seq(Device) /\ todo # <<>> /\ theDevices \in Seq(Device)
      /\ refused \subseteq Device
  BY DEF IInv, TypeOK, ProcessSingleDevice
<1>2. Head(todo) \in Device /\ todo' \in Seq(Device)
  BY <1>1 DEF ProcessSingleDevice
<1>3. /\ theDevices' \in Seq(Device) /\ refused' \subseteq Device
      /\ OrderedList(theDevices')
  BY <1>1, <1>2, OrderedDisjointIsOrderedList, AddNewDeviceProperties
     DEF IInv, ProcessSingleDevice
<1>4. TypeOK'
  BY <1>2, <1>3 DEF IInv, TypeOK, ProcessSingleDevice
<1>5. QED
  BY <1>3, <1>4, OrderedDisjointIsOrderedListNext DEF IInv

LEMMA ResetAllInvariant == IInv /\ ResetAll => IInv'
<1> SUFFICES ASSUME IInv, ResetAll
             PROVE  IInv'
  OBVIOUS
<1>1. /\ theDevices \in Seq(Device) /\ Devices \subseteq Device
      /\ UNCHANGED <<todo, theDevices, refused, writes>>
      /\ phase' \in {"starting", "ended"}
  BY RangeOfSeq DEF IInv, TypeOK, ResetAll, Devices
<1>2. Devices' = Devices /\ Mirrors' = Mirrors
  BY <1>1 DEF Devices, Mirrors
<1>3. theRealMemDev' \in [Mirrors' -> Devices' \union {NoDevice}]
  BY <1>1, <1>2, GetDeviceType DEF ResetAll, NoDevice
<1>4. ASSUME NEW d \in DOMAIN theData'
      PROVE  theData'[d] \in [0 .. d.theSize - 1 -> Values]
  <2>1. d \in Device /\ theData'[d] = InitialData(d)
    BY <1>1, <1>4 DEF ResetAll
  <2>2. QED
    BY <2>1 DEF InitialData, Device
<1>5. TypeOK'
  BY <1>1, <1>3, <1>4 DEF IInv, TypeOK
<1>6. OrderedDisjoint'
  BY <1>1 DEF IInv, OrderedDisjoint
<1>7. QED
  BY <1>5, <1>6 DEF IInv

LEMMA StartDisplayInvariant == IInv /\ StartDisplay => IInv'
<1> SUFFICES ASSUME IInv, StartDisplay
             PROVE  IInv'
  OBVIOUS
<1>1. /\ theDevices \in Seq(Device) /\ refused \subseteq Device /\ InputDevice \in Device
      /\ phase = "starting" /\ phase' = "running" /\ AddNewDevice(InputDevice)
      /\ UNCHANGED <<todo, theRealMemDev, theData, writes>>
  BY DEF IInv, TypeOK, StartDisplay
<1>2. /\ theDevices' \in Seq(Device) /\ refused' \subseteq Device
      /\ OrderedList(theDevices')
      /\ Devices \subseteq Devices' /\ Devices' \subseteq Devices \union {InputDevice}
  BY <1>1, OrderedDisjointIsOrderedList, AddNewDeviceProperties DEF IInv
<1>3. Mirrors' = Mirrors
  BY <1>2 DEF Mirrors
<1>4. theRealMemDev' \in [Mirrors' -> Devices' \union {NoDevice}]
  <2>1. theRealMemDev \in [Mirrors -> Devices \union {NoDevice}]
    BY <1>1 DEF IInv, TypeOK
  <2>2. NoDevice' = NoDevice
    BY DEF NoDevice
  <2>3. QED
    BY <1>1, <1>2, <1>3, <2>1, <2>2
<1>5. TypeOK'
  BY <1>1, <1>2, <1>4 DEF IInv, TypeOK
<1>6. QED
  BY <1>2, <1>5, OrderedDisjointIsOrderedListNext DEF IInv

LEMMA EmulatorWriteInvariant ==
  ASSUME IInv, NEW addr \in Address, NEW val \in Values, EmulatorWrite(addr, val)
  PROVE  IInv'
<1> DEFINE t == Target(addr)
<1>1. /\ UNCHANGED <<todo, theDevices, refused, phase, theRealMemDev>>
      /\ theData' = [theData EXCEPT ![t.device][t.addr - t.device.theAddress] = val]
      /\ writes < MaxWrites /\ writes' = writes + 1
      /\ phase # "configure"
  BY DEF EmulatorWrite, Started
<1> HIDE DEF t
<1>2. Devices' = Devices /\ Mirrors' = Mirrors
  BY <1>1 DEF Devices, Mirrors
<1>3. ASSUME NEW d \in DOMAIN theData'
      PROVE  theData'[d] \in [0 .. d.theSize - 1 -> Values]
  <2>1. d \in DOMAIN theData /\ theData[d] \in [0 .. d.theSize - 1 -> Values]
    BY <1>1 DEF IInv, TypeOK
  <2>2. QED
    BY <1>1, <2>1
<1>4. theRealMemDev' \in [Mirrors' -> Devices' \union {NoDevice}]
  BY <1>1, <1>2 DEF IInv, TypeOK, NoDevice
<1>5. TypeOK'
  BY <1>1, <1>3, <1>4 DEF IInv, TypeOK
<1>6. OrderedDisjoint'
  BY <1>1 DEF IInv, OrderedDisjoint
<1>7. QED
  BY <1>5, <1>6 DEF IInv

\* Steps that change the phase only, after start-up.
LEMMA PhaseInvariant ==
  ASSUME IInv, Started, phase' \in {"running", "halted", "ended", "crashed", "undefined"},
         UNCHANGED <<todo, theDevices, refused, theRealMemDev, theData, writes>>
  PROVE  IInv'
<1>1. Devices' = Devices /\ Mirrors' = Mirrors
  BY DEF Devices, Mirrors
<1>2. phase # "configure"
  BY DEF Started
<1>3. theRealMemDev' \in [Mirrors' -> Devices' \union {NoDevice}]
  BY <1>1, <1>2 DEF IInv, TypeOK, NoDevice
<1>4. TypeOK'
  BY <1>2, <1>3 DEF IInv, TypeOK
<1>5. OrderedDisjoint'
  BY DEF IInv, OrderedDisjoint
<1>6. QED
  BY <1>4, <1>5 DEF IInv

LEMMA NextInvariant == IInv /\ [Next]_vars => IInv'
<1> SUFFICES ASSUME IInv, [Next]_vars
             PROVE  IInv'
  OBVIOUS
<1>1. CASE ProcessSingleDevice
  BY <1>1, ProcessSingleDeviceInvariant
<1>2. CASE ResetAll
  BY <1>2, ResetAllInvariant
<1>3. CASE StartDisplay
  BY <1>3, StartDisplayInvariant
<1>4. CASE StartWithoutDisplay
  BY <1>4, PhaseInvariant DEF StartWithoutDisplay, Started
<1>5. CASE \E addr \in Address :
              AccessNothing(addr) \/ AccessOutside(addr) \/ AccessPastEnd(addr) \/ AccessEndlessMirror(addr)
  BY <1>5, PhaseInvariant DEF AccessNothing, AccessOutside, AccessPastEnd, AccessEndlessMirror
<1>6. CASE \E addr \in Address, val \in Values : EmulatorWrite(addr, val)
  BY <1>6, EmulatorWriteInvariant
<1>7. CASE UNCHANGED vars
  <2>1. UNCHANGED <<todo, theDevices, refused, phase, theRealMemDev, theData, writes>>
    BY <1>7 DEF vars
  <2>2. Devices' = Devices /\ Mirrors' = Mirrors /\ NoDevice' = NoDevice
    BY <2>1 DEF Devices, Mirrors, NoDevice
  <2>3. TypeOK' /\ OrderedDisjoint'
    BY <2>1, <2>2 DEF IInv, TypeOK, OrderedDisjoint
  <2>4. QED
    BY <2>3 DEF IInv
<1>8. QED
  BY <1>1, <1>2, <1>3, <1>4, <1>5, <1>6, <1>7 DEF Next

LEMMA Invariance == Spec => []IInv
BY InitInvariant, NextInvariant, PTL DEF Spec

\* The types of the memory map, whatever the configuration: every RAM and ROM holds one
\* byte per address, every mirror has been resolved to a device of the list or to none.
THEOREM TypeCorrect == Spec => []TypeOK
<1>1. IInv => TypeOK
  BY DEF IInv
<1>2. QED
  BY <1>1, Invariance, PTL

\* For every address width and every configuration, in whatever order it is built and
\* after the late insertion of the input device, the list of devices is sorted and
\* devices that fit share no address.
THEOREM OrderedDisjointCorrect == Spec => []OrderedDisjoint
<1>1. IInv => OrderedDisjoint
  BY DEF IInv
<1>2. QED
  BY <1>1, Invariance, PTL

\* So an address has one owner: getDevice cannot answer differently for another order of
\* the search, as long as the devices fit.
THEOREM OneOwner ==
  ASSUME TypeOK, OrderedDisjoint, NEW addr \in Address,
         NEW i \in DOMAIN theDevices, NEW j \in DOMAIN theDevices,
         Fits(theDevices[i]), Fits(theDevices[j]),
         Claims(theDevices[i], addr), Claims(theDevices[j], addr)
  PROVE  i = j
<1>1. theDevices \in Seq(Device) /\ DOMAIN theDevices = 1 .. Len(theDevices)
  BY DEF TypeOK
<1>2. theDevices[i] \in Device /\ theDevices[j] \in Device /\ i \in Int /\ j \in Int
  BY <1>1
<1>3. /\ theDevices[i].theAddress \in Nat /\ theDevices[i].theSize \in Nat
      /\ theDevices[j].theAddress \in Nat /\ theDevices[j].theSize \in Nat
  BY <1>2, DeviceNumbers
<1>4. addr \in Nat
  BY DEF Address
<1>5. ~ (i < j)
  BY <1>3, <1>4 DEF OrderedDisjoint, Claims
<1>6. ~ (j < i)
  BY <1>3, <1>4 DEF OrderedDisjoint, Claims
<1>7. QED
  BY <1>2, <1>5, <1>6

-----------------------------------------------------------------------------
(* Where the devices come from, and what getDevice answers after an        *)
(* insertion.  MirrorsAreFresh is not inductive: a mirror of nothing would *)
(* become stale by an insertion at its source.  The invariant adds that    *)
(* the reset found a device for every mirror: it ended the process         *)
(* otherwise.                                                              *)

\* getDevice on any list.
GetDeviceOf(devices, addr) ==
  IF \A i \in DOMAIN devices : ~ Claims(devices[i], addr) THEN NoDevice
  ELSE devices[CHOOSE i \in DOMAIN devices :
                 /\ Claims(devices[i], addr)
                 /\ \A j \in 1 .. i - 1 : ~ Claims(devices[j], addr)]

LEMMA GetDeviceOfList ==
  \A addr : /\ GetDevice(addr) = GetDeviceOf(theDevices, addr)
            /\ GetDevice(addr)' = GetDeviceOf(theDevices', addr)
BY DEF GetDevice, GetDeviceOf, NoDevice, Claims

\* The first device that claims the address is the answer.
LEMMA FirstIsFound ==
  ASSUME NEW devices \in Seq(Device), NEW addr, NEW i \in DOMAIN devices,
         Claims(devices[i], addr), \A j \in 1 .. i - 1 : ~ Claims(devices[j], addr)
  PROVE  GetDeviceOf(devices, addr) = devices[i]
<1> DEFINE First(k) == /\ Claims(devices[k], addr)
                       /\ \A j \in 1 .. k - 1 : ~ Claims(devices[j], addr)
<1>1. DOMAIN devices = 1 .. Len(devices) /\ Len(devices) \in Nat
  OBVIOUS
<1>2. First(i)
  OBVIOUS
<1>3. ASSUME NEW k \in DOMAIN devices, First(k)
      PROVE  k = i
  <2>1. k \in Int /\ i \in Int /\ k >= 1 /\ i >= 1
    BY <1>1
  <2>2. ~(k < i) /\ ~(i < k)
    BY <1>2, <1>3, <2>1
  <2>3. QED
    BY <2>1, <2>2
<1> HIDE DEF First
<1>4. (CHOOSE k \in DOMAIN devices : First(k)) = i
  BY <1>2, <1>3
<1>5. QED
  BY <1>4 DEF GetDeviceOf, First

\* A device claims the address or none does, and then there is a first one.
LEMMA FirstExists ==
  ASSUME NEW devices \in Seq(Device), NEW addr,
         \E i \in DOMAIN devices : Claims(devices[i], addr)
  PROVE  \E i \in DOMAIN devices :
           /\ Claims(devices[i], addr)
           /\ \A j \in 1 .. i - 1 : ~ Claims(devices[j], addr)
<1> DEFINE T == {i \in 1 .. Len(devices) : Claims(devices[i], addr)}
<1>1. DOMAIN devices = 1 .. Len(devices) /\ Len(devices) \in Nat
  OBVIOUS
<1>2. T \in SUBSET Nat /\ T # {}
  BY <1>1
<1>3. PICK i \in T : \A j \in T : i <= j
  <2> HIDE DEF T
  <2>1. QED
    BY <1>2, LeastNatural
<1>4. QED
  BY <1>1, <1>3

\* What getDevice finds claims the address.
LEMMA FoundClaims ==
  ASSUME theDevices \in Seq(Device), NEW addr, GetDevice(addr) # NoDevice
  PROVE  GetDevice(addr) \in Devices /\ Claims(GetDevice(addr), addr)
<1>1. \E i \in DOMAIN theDevices : Claims(theDevices[i], addr)
  BY DEF GetDevice
<1>2. PICK i \in DOMAIN theDevices :
        /\ Claims(theDevices[i], addr)
        /\ \A j \in 1 .. i - 1 : ~ Claims(theDevices[j], addr)
  BY <1>1, FirstExists
<1>3. GetDevice(addr) = theDevices[i]
  BY <1>2, FirstIsFound, GetDeviceOfList
<1>4. QED
  BY <1>2, <1>3 DEF Devices, Range

\* Inserting a device that does not claim the address leaves the answer as it was.
LEMMA InsertionElsewhere ==
  ASSUME NEW devices \in Seq(Device), NEW p \in 1 .. Len(devices) + 1, NEW device \in Device,
         NEW addr, ~ Claims(device, addr)
  PROVE  GetDeviceOf(InsertAt(devices, p, device), addr) = GetDeviceOf(devices, addr)
<1> DEFINE new == InsertAt(devices, p, device)
<1>1. /\ new \in Seq(Device) /\ Len(new) = Len(devices) + 1 /\ Len(devices) \in Nat
      /\ \A i \in 1 .. Len(devices) + 1 :
           new[i] = IF i < p THEN devices[i] ELSE IF i = p THEN device ELSE devices[i - 1]
  <2>1. devices \in Seq(Device) /\ p \in 1 .. Len(devices) + 1 /\ Len(devices) \in Nat
    OBVIOUS
  <2>2. /\ new \in Seq(Device) /\ Len(new) = Len(devices) + 1
        /\ \A i \in 1 .. Len(devices) + 1 :
             new[i] = IF i < p THEN devices[i] ELSE IF i = p THEN device ELSE devices[i - 1]
    BY <2>1, InsertAtProperties
  <2>3. QED
    BY <2>1, <2>2
<1> HIDE DEF new
<1>2. DOMAIN new = 1 .. Len(devices) + 1 /\ DOMAIN devices = 1 .. Len(devices)
  BY <1>1
<1>3. CASE \A i \in DOMAIN devices : ~ Claims(devices[i], addr)
  <2>1. ASSUME NEW i \in DOMAIN new PROVE ~ Claims(new[i], addr)
    <3>1. CASE i < p
      BY <1>1, <1>2, <1>3, <3>1
    <3>2. CASE i = p
      BY <1>1, <1>2, <3>2
    <3>3. CASE i > p
      <4>1. i - 1 \in DOMAIN devices /\ new[i] = devices[i - 1]
        BY <1>1, <1>2, <3>3
      <4>2. QED
        BY <1>3, <4>1
    <3>4. QED
      BY <1>2, <3>1, <3>2, <3>3
  <2>2. QED
    BY <1>3, <2>1 DEF GetDeviceOf, new
<1>4. CASE \E i \in DOMAIN devices : Claims(devices[i], addr)
  <2>1. PICK i \in DOMAIN devices :
          /\ Claims(devices[i], addr)
          /\ \A j \in 1 .. i - 1 : ~ Claims(devices[j], addr)
    BY <1>4, FirstExists
  <2>2. GetDeviceOf(devices, addr) = devices[i]
    BY <2>1, FirstIsFound
  <2> DEFINE k == IF i < p THEN i ELSE i + 1
  <2>3. k \in DOMAIN new /\ new[k] = devices[i]
    BY <1>1, <1>2, <2>1
  <2>4. ASSUME NEW j \in 1 .. k - 1 PROVE ~ Claims(new[j], addr)
    <3>1. j \in 1 .. Len(devices) + 1
      BY <1>2, <2>1
    <3>2. CASE j < p
      <4>1. j \in 1 .. i - 1 /\ new[j] = devices[j]
        BY <1>1, <1>2, <2>1, <3>1, <3>2
      <4>2. QED
        BY <2>1, <4>1
    <3>3. CASE j = p
      BY <1>1, <3>1, <3>3
    <3>4. CASE j > p
      <4>1. j - 1 \in 1 .. i - 1 /\ new[j] = devices[j - 1]
        BY <1>1, <1>2, <2>1, <3>1, <3>4
      <4>2. QED
        BY <2>1, <4>1
    <3>5. QED
      BY <3>1, <3>2, <3>3, <3>4
  <2> HIDE DEF k
  <2>5. GetDeviceOf(new, addr) = new[k]
    BY <1>1, <2>1, <2>3, <2>4, FirstIsFound
  <2>6. QED
    BY <2>2, <2>3, <2>5 DEF new
<1>5. QED
  BY <1>3, <1>4

\* The devices are those of one configuration, and the input device.
Provenance ==
  \E c \in Configurations : Range(todo) \union Devices \subseteq Range(c) \union {InputDevice}

\* Inserting a device behind the first one that claims the address neither.
LEMMA InsertionBehind ==
  ASSUME NEW devices \in Seq(Device), NEW p \in 1 .. Len(devices) + 1, NEW device \in Device,
         NEW addr, NEW i \in DOMAIN devices, i < p,
         Claims(devices[i], addr), \A j \in 1 .. i - 1 : ~ Claims(devices[j], addr)
  PROVE  GetDeviceOf(InsertAt(devices, p, device), addr) = GetDeviceOf(devices, addr)
<1> DEFINE new == InsertAt(devices, p, device)
<1>1. /\ new \in Seq(Device) /\ Len(new) = Len(devices) + 1 /\ Len(devices) \in Nat
      /\ \A j \in 1 .. Len(devices) + 1 :
           new[j] = IF j < p THEN devices[j] ELSE IF j = p THEN device ELSE devices[j - 1]
  <2>1. devices \in Seq(Device) /\ p \in 1 .. Len(devices) + 1 /\ Len(devices) \in Nat
    OBVIOUS
  <2>2. /\ new \in Seq(Device) /\ Len(new) = Len(devices) + 1
        /\ \A j \in 1 .. Len(devices) + 1 :
             new[j] = IF j < p THEN devices[j] ELSE IF j = p THEN device ELSE devices[j - 1]
    BY <2>1, InsertAtProperties
  <2>3. QED
    BY <2>1, <2>2
<1> HIDE DEF new
<1>2. DOMAIN new = 1 .. Len(devices) + 1 /\ DOMAIN devices = 1 .. Len(devices)
  BY <1>1
<1>3. i \in DOMAIN new /\ new[i] = devices[i]
  BY <1>1, <1>2
<1>4. ASSUME NEW j \in 1 .. i - 1 PROVE ~ Claims(new[j], addr)
  <2>1. j \in 1 .. Len(devices) + 1 /\ j < p
    BY <1>2
  <2>2. new[j] = devices[j]
    BY <1>1, <2>1
  <2>3. QED
    BY <2>2
<1>5. GetDeviceOf(new, addr) = new[i]
  BY <1>1, <1>3, <1>4, FirstIsFound
<1>6. GetDeviceOf(devices, addr) = devices[i]
  BY FirstIsFound
<1>7. QED
  BY <1>3, <1>5, <1>6 DEF new

\* The input device, which holds one byte, never takes the address from a device that
\* already claims it: it comes behind every device that begins at the address or before.
LEMMA InputTakesNothing ==
  ASSUME NEW devices \in Seq(Device), OrderedList(devices), NEW addr \in Address,
         GetDeviceOf(devices, addr) # NoDevice,
         NEW p, p = InsertPosition(devices, InputDevice)
  PROVE  GetDeviceOf(InsertAt(devices, p, InputDevice), addr) = GetDeviceOf(devices, addr)
<1>1. /\ p \in 1 .. Len(devices) + 1 /\ Len(devices) \in Nat
      /\ p <= Len(devices) => InputDevice.theAddress < devices[p].theAddress
      /\ DOMAIN devices = 1 .. Len(devices)
  BY InsertPositionProperties
<1>2. PICK i \in DOMAIN devices :
        /\ Claims(devices[i], addr)
        /\ \A j \in 1 .. i - 1 : ~ Claims(devices[j], addr)
  <2>1. \E i \in DOMAIN devices : Claims(devices[i], addr)
    BY DEF GetDeviceOf
  <2>2. QED
    BY <2>1, FirstExists
<1>3. CASE ~ Claims(InputDevice, addr)
  BY <1>1, <1>3, InsertionElsewhere
<1>4. CASE Claims(InputDevice, addr)
  <2>1. addr \in Int /\ InputDevice.theAddress \in Int /\ InputDevice.theSize = 1
    BY DeviceNumbers DEF Address
  <2>2. InputDevice.theAddress = addr
    BY <1>4, <2>1 DEF Claims
  <2>3. devices[i] \in Device /\ devices[i].theAddress \in Int /\ devices[i].theAddress <= addr
    BY <1>2, DeviceNumbers DEF Claims
  <2>4. i < p
    <3> SUFFICES ASSUME p <= i PROVE FALSE
      BY <1>1
    <3>1. p \in 1 .. Len(devices) /\ devices[p] \in Device /\ devices[p].theAddress \in Int
      BY <1>1, DeviceNumbers
    <3>2. devices[p].theAddress <= devices[i].theAddress
      <4>1. CASE p = i
        BY <2>3, <4>1
      <4>2. CASE p < i
        BY <1>1, <3>1, <4>2 DEF OrderedList
      <4>3. QED
        BY <1>1, <4>1, <4>2
    <3>3. QED
      BY <1>1, <2>1, <2>2, <2>3, <3>1, <3>2
  <2>5. QED
    BY <1>1, <1>2, <2>4, InsertionBehind
<1>5. QED
  BY <1>3, <1>4

\* Every mirror of the running emulator is resolved, to the device that answers at its
\* source.
MirrorsInv ==
  Started => \A m \in Mirrors : /\ theRealMemDev[m] = GetDevice(m.source)
                               /\ theRealMemDev[m] # NoDevice

PInv == IInv /\ Provenance /\ MirrorsInv

\* A step that leaves the list and the mirrors alone.
LEMMA UnmovedList ==
  ASSUME PInv, Started, UNCHANGED <<todo, theDevices, theRealMemDev>>
  PROVE  Provenance' /\ MirrorsInv'
<1>1. Devices' = Devices /\ Mirrors' = Mirrors /\ NoDevice' = NoDevice
  BY DEF Devices, Mirrors, NoDevice
<1>2. Provenance'
  BY <1>1 DEF PInv, Provenance
<1>3. \A addr : GetDevice(addr)' = GetDevice(addr)
  BY GetDeviceOfList
<1>4. MirrorsInv'
  BY <1>1, <1>3, GetDeviceOfList DEF PInv, MirrorsInv
<1>5. QED
  BY <1>2, <1>4

\* The input device enters a list whose mirrors are all resolved.
LEMMA InsertionKeepsMirrors ==
  ASSUME PInv, IInv', Started, AddNewDevice(InputDevice), UNCHANGED <<todo, theRealMemDev>>
  PROVE  Provenance' /\ MirrorsInv'
<1>1. /\ theDevices \in Seq(Device) /\ refused \subseteq Device /\ InputDevice \in Device
      /\ InputDevice.type = "Easy6502JsInputDevice" /\ OrderedList(theDevices)
  BY OrderedDisjointIsOrderedList DEF PInv, IInv, TypeOK
<1>2. Devices' \subseteq Devices \union {InputDevice}
  BY <1>1, AddNewDeviceProperties
<1>3. Provenance'
  BY <1>2 DEF PInv, Provenance
<1>4. Mirrors' \subseteq Mirrors
  BY <1>1, <1>2 DEF Mirrors
<1>5. ASSUME NEW m \in Mirrors
      PROVE  GetDeviceOf(theDevices', m.source) = GetDeviceOf(theDevices, m.source)
  <2> DEFINE source == m.source
  <2>1. source \in Address /\ GetDeviceOf(theDevices, source) # NoDevice
    <3>1. m \in Device
      BY <1>1, RangeOfSeq DEF Mirrors, Devices
    <3>2. GetDevice(source) # NoDevice
      BY DEF PInv, MirrorsInv
    <3>3. QED
      BY <3>1, <3>2, GetDeviceOfList, DeviceNumbers
  <2>2. CASE UNCHANGED theDevices
    BY <2>2
  <2>3. CASE theDevices' = InsertAt(theDevices, InsertPosition(theDevices, InputDevice), InputDevice)
    <3> HIDE DEF source
    <3>1. GetDeviceOf(theDevices', source) = GetDeviceOf(theDevices, source)
      BY <1>1, <2>1, <2>3, InputTakesNothing
    <3>2. QED
      BY <3>1 DEF source
  <2>4. QED
    BY <2>2, <2>3 DEF AddNewDevice
<1>6. \A m \in Mirrors : /\ theRealMemDev[m] = GetDevice(m.source)
                         /\ theRealMemDev[m] # NoDevice
  BY DEF PInv, MirrorsInv
<1>7. ASSUME NEW m \in Mirrors'
      PROVE  theRealMemDev'[m] = GetDevice(m.source)' /\ theRealMemDev'[m] # NoDevice
  <2>1. m \in Mirrors
    BY <1>4
  <2>2. GetDevice(m.source) = GetDeviceOf(theDevices, m.source)
    BY GetDeviceOfList
  <2>3. GetDevice(m.source)' = GetDeviceOf(theDevices', m.source)
    BY GetDeviceOfList
  <2>4. QED
    BY <1>5, <1>6, <2>1, <2>2, <2>3
<1>8. NoDevice' = NoDevice
  BY DEF NoDevice
<1>9. MirrorsInv'
  BY <1>7, <1>8 DEF MirrorsInv
<1>10. QED
  BY <1>3, <1>9

LEMMA InitProvenance == Init => PInv
<1> SUFFICES ASSUME Init PROVE PInv
  OBVIOUS
<1>1. IInv
  BY InitInvariant
<1>2. Devices = {}
  BY DEF Init, Devices, Range
<1>3. Provenance
  BY <1>2 DEF Init, Provenance
<1>4. MirrorsInv
  BY DEF Init, MirrorsInv, Started
<1>5. QED
  BY <1>1, <1>3, <1>4 DEF PInv

LEMMA NextProvenance == PInv /\ [Next]_vars => PInv'
<1> SUFFICES ASSUME PInv, [Next]_vars PROVE PInv'
  OBVIOUS
<1>1. IInv'
  BY NextInvariant DEF PInv
<1> SUFFICES Provenance' /\ MirrorsInv'
  BY <1>1 DEF PInv
<1>2. CASE ProcessSingleDevice
  <2>1. /\ todo \in Seq(Device) /\ todo # <<>> /\ theDevices \in Seq(Device)
        /\ refused \subseteq Device /\ OrderedList(theDevices)
        /\ AddNewDevice(Head(todo)) /\ todo' = Tail(todo)
        /\ phase' = "configure"
    BY <1>2, OrderedDisjointIsOrderedList DEF PInv, IInv, TypeOK, ProcessSingleDevice
  <2>2. /\ Head(todo) \in Device /\ Head(todo) \in Range(todo)
        /\ Range(todo') \subseteq Range(todo)
    <3>1. Head(todo) = todo[1] /\ 1 \in DOMAIN todo /\ Head(todo) \in Device
      BY <2>1
    <3>2. /\ Tail(todo) \in Seq(Device) /\ Len(Tail(todo)) = Len(todo) - 1
          /\ \A i \in 1 .. Len(Tail(todo)) : Tail(todo)[i] = todo[i + 1]
      BY <2>1, HeadTailProperties
    <3>3. \A i \in 1 .. Len(Tail(todo)) : i + 1 \in DOMAIN todo
      BY <2>1, <3>2
    <3>4. DOMAIN Tail(todo) = 1 .. Len(Tail(todo))
      BY <3>2
    <3>5. Range(Tail(todo)) \subseteq Range(todo)
      BY <3>2, <3>3, <3>4 DEF Range
    <3>6. QED
      BY <2>1, <3>1, <3>5 DEF Range
  <2>3. Devices' \subseteq Devices \union {Head(todo)}
    BY <2>1, <2>2, AddNewDeviceProperties
  <2>4. Provenance'
    BY <2>2, <2>3 DEF PInv, Provenance
  <2>5. MirrorsInv'
    BY <2>1 DEF MirrorsInv, Started
  <2>6. QED
    BY <2>4, <2>5
<1>3. CASE ResetAll
  <2>1. /\ UNCHANGED <<todo, theDevices>> /\ Devices' = Devices /\ Mirrors' = Mirrors
        /\ theRealMemDev' = [m \in Mirrors |-> GetDevice(m.source)]
        /\ phase' = IF NoDevice \in Range(theRealMemDev') THEN "ended" ELSE "starting"
        /\ NoDevice' = NoDevice
    BY <1>3 DEF ResetAll, Devices, Mirrors, NoDevice
  <2>2. Provenance'
    BY <2>1 DEF PInv, Provenance
  <2>3. ASSUME NEW m \in Mirrors
        PROVE  theRealMemDev'[m] = GetDevice(m.source)'
    <3>1. theRealMemDev'[m] = GetDevice(m.source)
      BY <2>1
    <3>2. QED
      BY <2>1, <3>1, GetDeviceOfList
  <2>4. ASSUME Started', NEW m \in Mirrors
        PROVE  theRealMemDev'[m] # NoDevice
    <3>1. NoDevice \notin Range(theRealMemDev')
      BY <2>1, <2>4 DEF Started
    <3>2. m \in DOMAIN theRealMemDev'
      BY <2>1
    <3>3. QED
      BY <3>1, <3>2 DEF Range
  <2>5. MirrorsInv'
    BY <2>1, <2>3, <2>4 DEF MirrorsInv
  <2>6. QED
    BY <2>2, <2>5
<1>4. CASE StartDisplay
  <2>1. /\ Started /\ AddNewDevice(InputDevice) /\ UNCHANGED <<todo, theRealMemDev>>
    BY <1>4 DEF StartDisplay, Started
  <2>2. QED
    BY <1>1, <2>1, InsertionKeepsMirrors
<1>5. CASE StartWithoutDisplay
  BY <1>5, UnmovedList DEF StartWithoutDisplay, Started
<1>6. ASSUME NEW addr \in Address,
             AccessNothing(addr) \/ AccessOutside(addr) \/ AccessPastEnd(addr) \/ AccessEndlessMirror(addr)
      PROVE  Provenance' /\ MirrorsInv'
  BY <1>6, UnmovedList DEF AccessNothing, AccessOutside, AccessPastEnd, AccessEndlessMirror
<1>7. ASSUME NEW addr \in Address, NEW val \in Values, EmulatorWrite(addr, val)
      PROVE  Provenance' /\ MirrorsInv'
  BY <1>7, UnmovedList DEF EmulatorWrite
<1>8. CASE UNCHANGED vars
  <2>1. UNCHANGED <<todo, theDevices, theRealMemDev, phase>>
    BY <1>8 DEF vars
  <2>2. CASE Started
    BY <2>1, <2>2, UnmovedList
  <2>3. CASE ~Started
    <3>1. Provenance'
      BY <2>1 DEF PInv, Provenance, Devices
    <3>2. MirrorsInv'
      BY <2>1, <2>3 DEF MirrorsInv, Started
    <3>3. QED
      BY <3>1, <3>2
  <2>4. QED
    BY <2>2, <2>3
<1>9. QED
  BY <1>2, <1>3, <1>4, <1>5, <1>6, <1>7, <1>8 DEF Next

LEMMA ProvenanceInvariance == Spec => []PInv
BY InitProvenance, NextProvenance, PTL DEF Spec

\* Whatever the configuration, the late insertion of the input device never makes a
\* mirror's pointer stale: it is always the device that answers at its source address.
THEOREM MirrorsAreFreshCorrect == Spec => []MirrorsAreFresh
<1>1. PInv => MirrorsAreFresh
  BY DEF PInv, MirrorsInv, MirrorsAreFresh
<1>2. QED
  BY <1>1, ProvenanceInvariance, PTL

-----------------------------------------------------------------------------
(* What addNewDevice leaves out.  The range of a device without a byte ends *)
(* before it begins, so it overlaps ranges it shares no address with; every *)
(* other refusal is for an address of both.                                 *)

\* Every device holds at least one byte.
NoEmptyDevice ==
  /\ InputDevice.theSize > 0
  /\ \A c \in Configurations : \A i \in DOMAIN c : c[i].theSize > 0

\* The overlap test refuses a device that fits for an address both claim, the higher of
\* the two first ones, even if the range of the other one wraps.
LEMMA OverlapIsShared ==
  ASSUME NEW d \in Device, NEW r \in Device, Fits(r), d.theSize > 0,
         RangesOverlap(RangeOf(d), RangeOf(r))
  PROVE  Footprint(d) \intersect Footprint(r) # {}
<1>1. /\ d.theAddress \in Address /\ d.theSize \in Address
      /\ r.theAddress \in Address /\ r.theSize \in Address
  BY DEF Device
<1>2. AddressLimit \in Nat /\ \A a \in Address : a \in Nat /\ a < AddressLimit
  BY DEF Address
<1>3. Wrapped(r.theAddress + r.theSize - 1) = r.theAddress + r.theSize - 1
  BY <1>1, <1>2 DEF Fits, Wrapped
<1>4. Wrapped(d.theAddress + d.theSize - 1) <= d.theAddress + d.theSize - 1
  BY <1>1, <1>2 DEF Wrapped
<1>5. Wrapped(d.theAddress + d.theSize - 1) \in Int
  BY <1>1, <1>2 DEF Wrapped
<1>6. /\ Wrapped(d.theAddress + d.theSize - 1) >= r.theAddress
      /\ r.theAddress + r.theSize - 1 >= d.theAddress
  BY <1>3 DEF RangesOverlap, RangeOf
<1>7. CASE d.theAddress <= r.theAddress
  <2>1. Claims(d, r.theAddress) /\ Claims(r, r.theAddress)
    BY SMTT(30), <1>1, <1>2, <1>4, <1>5, <1>6, <1>7 DEF Claims, Fits
  <2>2. QED
    BY <1>1, <2>1 DEF Footprint
<1>8. CASE r.theAddress < d.theAddress
  <2>1. Claims(d, d.theAddress) /\ Claims(r, d.theAddress)
    BY <1>1, <1>2, <1>6, <1>8 DEF Claims, Fits
  <2>2. QED
    BY <1>1, <2>1 DEF Footprint
<1>9. QED
  BY <1>1, <1>2, <1>7, <1>8

\* Why a device that fits was refused.
RefusedForReason ==
  \A r \in {d \in refused : Fits(d)} :
    \E d \in Devices : d.theSize = 0 \/ Footprint(d) \intersect Footprint(r) # {}

LEMMA AddNewDeviceRefuses ==
  ASSUME IInv, RefusedForReason, NEW device \in Device, AddNewDevice(device)
  PROVE  RefusedForReason'
<1>1. /\ theDevices \in Seq(Device) /\ refused \subseteq Device /\ OrderedList(theDevices)
      /\ Devices \subseteq Device
  BY OrderedDisjointIsOrderedList, RangeOfSeq DEF IInv, TypeOK, Devices
<1>2. Devices \subseteq Devices'
  BY <1>1, AddNewDeviceProperties
<1>3. ASSUME NEW r \in refused', Fits(r)
      PROVE  \E d \in Devices : d.theSize = 0 \/ Footprint(d) \intersect Footprint(r) # {}
  <2>1. CASE r \in refused
    BY <1>3, <2>1 DEF RefusedForReason
  <2>2. CASE r \notin refused
    <3>1. r = device /\ \E d \in Devices : RangesOverlap(RangeOf(d), RangeOf(device))
      BY <2>2, <1>3 DEF AddNewDevice
    <3>2. PICK d \in Devices : RangesOverlap(RangeOf(d), RangeOf(device))
      BY <3>1
    <3>3. d \in Device /\ d.theSize \in Nat
      BY <1>1, DeviceNumbers
    <3>4. d.theSize = 0 \/ d.theSize > 0
      BY <3>3
    <3>5. QED
      BY <1>3, <3>1, <3>2, <3>3, <3>4, OverlapIsShared
  <2>3. QED
    BY <2>1, <2>2
<1>4. QED
  BY <1>2, <1>3 DEF RefusedForReason

LEMMA NextRefusedForReason == PInv /\ RefusedForReason /\ [Next]_vars => RefusedForReason'
<1> SUFFICES ASSUME PInv, RefusedForReason, [Next]_vars PROVE RefusedForReason'
  OBVIOUS
<1>1. ASSUME UNCHANGED <<theDevices, refused>> PROVE RefusedForReason'
  BY <1>1 DEF RefusedForReason, Devices
<1>2. CASE ProcessSingleDevice
  <2>1. Head(todo) \in Device /\ AddNewDevice(Head(todo))
    BY <1>2 DEF PInv, IInv, TypeOK, ProcessSingleDevice
  <2>2. QED
    BY <2>1, AddNewDeviceRefuses DEF PInv
<1>3. CASE StartDisplay
  <2>1. InputDevice \in Device /\ AddNewDevice(InputDevice)
    BY <1>3 DEF StartDisplay
  <2>2. QED
    BY <2>1, AddNewDeviceRefuses DEF PInv
<1>4. CASE ResetAll
  BY <1>1, <1>4 DEF ResetAll
<1>5. CASE StartWithoutDisplay
  BY <1>1, <1>5 DEF StartWithoutDisplay
<1>6. CASE \E addr \in Address :
              AccessNothing(addr) \/ AccessOutside(addr) \/ AccessPastEnd(addr) \/ AccessEndlessMirror(addr)
  BY <1>1, <1>6 DEF AccessNothing, AccessOutside, AccessPastEnd, AccessEndlessMirror
<1>7. CASE \E addr \in Address, val \in Values : EmulatorWrite(addr, val)
  BY <1>1, <1>7 DEF EmulatorWrite
<1>8. CASE UNCHANGED vars
  BY <1>1, <1>8 DEF vars
<1>9. QED
  BY <1>2, <1>3, <1>4, <1>5, <1>6, <1>7, <1>8 DEF Next

\* No configuration without empty devices silently loses memory: a device that fits is
\* left out only for an address that another one holds.
THEOREM RefusedOnlyForOverlapCorrect ==
  ASSUME NoEmptyDevice
  PROVE  Spec => []RefusedOnlyForOverlap
<1>1. Init => RefusedForReason
  BY DEF Init, RefusedForReason
<1>2. PInv /\ RefusedForReason => RefusedOnlyForOverlap
  <2> SUFFICES ASSUME PInv, RefusedForReason, NEW r \in {d \in refused : Fits(d)}
               PROVE  \E d \in Devices : Footprint(d) \intersect Footprint(r) # {}
    BY DEF RefusedOnlyForOverlap
  <2>1. PICK c \in Configurations : Devices \subseteq Range(c) \union {InputDevice}
    BY DEF PInv, Provenance
  <2>2. \A d \in Devices : d.theSize > 0
    BY <2>1 DEF NoEmptyDevice, Range
  <2>3. PICK d \in Devices : d.theSize = 0 \/ Footprint(d) \intersect Footprint(r) # {}
    BY DEF RefusedForReason
  <2>4. QED
    BY <2>2, <2>3
<1>3. QED
  BY <1>1, <1>2, ProvenanceInvariance, NextRefusedForReason, PTL DEF Spec

-----------------------------------------------------------------------------
(* The mask of a mirror.  BitAnd is a recursive function: that it satisfies *)
(* its equation is proved by doing the recursion on the bits of the first   *)
(* operand AddressLimit times, after which it changes nothing any more.     *)

AndStep(g) ==
  [x \in Address |-> [y \in Address |->
     IF x = 0 \/ y = 0 THEN 0 ELSE (x % 2) * (y % 2) + 2 * g[x \div 2][y \div 2]]]

LEMMA HalfOfAddress ==
  ASSUME NEW x \in Address
  PROVE  /\ x \in Nat /\ x < AddressLimit /\ x \div 2 \in Address /\ x % 2 \in {0, 1}
         /\ x = 2 * (x \div 2) + (x % 2)
         /\ x # 0 => x \div 2 < x
<1>1. x \in Nat /\ x < AddressLimit
  BY DEF Address
<1>2. x \div 2 \in Nat /\ x \div 2 <= x /\ (x # 0 => x \div 2 < x)
  BY <1>1
<1>3. x = 2 * (x \div 2) + (x % 2) /\ x % 2 \in {0, 1}
  BY <1>1
<1>4. QED
  BY <1>1, <1>2, <1>3 DEF Address

LEMMA BitProduct ==
  ASSUME NEW x \in Address, NEW y \in Address
  PROVE  (x % 2) * (y % 2) \in {0, 1} /\ (x % 2) * (y % 2) <= y % 2
<1> DEFINE b == x % 2
           d == y % 2
<1>1. b \in {0, 1} /\ d \in {0, 1}
  BY HalfOfAddress
<1> HIDE DEF b, d
<1>2. b * d \in {0, 1} /\ b * d <= d
  <2>1. CASE b = 0
    BY <1>1, <2>1
  <2>2. CASE b = 1
    BY <1>1, <2>2
  <2>3. QED
    BY <1>1, <2>1, <2>2
<1>3. QED
  BY <1>2 DEF b, d

LEMMA AndStepAt ==
  ASSUME NEW g, NEW x \in Address, NEW y \in Address
  PROVE  AndStep(g)[x][y] =
           IF x = 0 \/ y = 0 THEN 0 ELSE (x % 2) * (y % 2) + 2 * g[x \div 2][y \div 2]
BY DEF AndStep

AndTables == [Address -> [Address -> Nat]]

LEMMA AndStepType ==
  ASSUME NEW g \in AndTables
  PROVE  AndStep(g) \in AndTables
<1>1. ASSUME NEW x \in Address, NEW y \in Address
      PROVE  (IF x = 0 \/ y = 0 THEN 0 ELSE (x % 2) * (y % 2) + 2 * g[x \div 2][y \div 2]) \in Nat
  <2>1. x \div 2 \in Address /\ y \div 2 \in Address
    BY HalfOfAddress
  <2>2. g[x \div 2][y \div 2] \in Nat
    BY <2>1 DEF AndTables
  <2> DEFINE rest == g[x \div 2][y \div 2]
             bit == (x % 2) * (y % 2)
  <2>3. bit \in Nat
    BY BitProduct
  <2> HIDE DEF rest, bit
  <2>4. rest \in Nat
    BY <2>2 DEF rest
  <2>5. bit + 2 * rest \in Nat
    BY <2>3, <2>4
  <2>6. QED
    BY <2>5 DEF rest, bit
<1>2. QED
  BY <1>1 DEF AndStep, AndTables

\* The recursion has a solution, so BitAnd is one.
LEMMA BitAndRecursion == BitAnd = AndStep(BitAnd)
<1> DEFINE V == AndTables
           k == AddressLimit + 1
           base == [x \in Address |-> [y \in Address |-> 0]]
           step == [v \in V \X (1 .. k) |-> AndStep(v[1])]
<1>1. k \in Nat /\ AddressLimit \in Nat /\ base \in V
  BY DEF AndTables
<1>2. step \in [V \X (1 .. k) -> V]
  BY AndStepType
<1>3. PICK f \in [0 .. k -> V] : IsRecursion(f, k, base, step)
  <2> HIDE DEF step, V, k, base
  <2>1. QED
    BY <1>1, <1>2, RecursionExists
<1>4. /\ f[0] = base
      /\ \A n \in 1 .. k : f[n] = AndStep(f[n - 1])
  <2>1. ASSUME NEW n \in 1 .. k PROVE f[n] = AndStep(f[n - 1])
    <3>1. n - 1 \in 0 .. k
      BY <1>1
    <3> DEFINE g == f[n - 1]
    <3>2. g \in V
      BY <1>3, <3>1
    <3>3. f[n] = step[<<g, n>>]
      BY <1>3 DEF IsRecursion
    <3> HIDE DEF g, k, V
    <3>4. step[<<g, n>>] = AndStep(g)
      BY <3>2
    <3>5. QED
      BY <3>3, <3>4 DEF g
  <2>2. QED
    BY <1>3, <2>1 DEF IsRecursion
<1> HIDE DEF step, base
<1> DEFINE Stable(n) == \A x, y \in Address : x <= n => f[n + 1][x][y] = f[n][x][y]
           S == {n \in 0 .. AddressLimit : Stable(n)}
<1>5. 0 \in S
  <2>1. ASSUME NEW x \in Address, NEW y \in Address, x <= 0
        PROVE  f[0 + 1][x][y] = f[0][x][y]
    <3>1. x = 0
      BY <2>1 DEF Address
    <3>2. f[1] = AndStep(f[0])
      <4>1. 1 \in 1 .. k /\ 1 - 1 = 0
        BY <1>1
      <4>2. QED
        BY <1>4, <4>1
    <3>3. f[1][x][y] = 0
      BY <3>1, <3>2, AndStepAt
    <3>4. f[0][x][y] = 0
      BY <1>4 DEF base
    <3>5. QED
      BY <3>3, <3>4
  <2>2. QED
    BY <1>1, <2>1
<1>6. ASSUME NEW n \in 1 .. AddressLimit, n - 1 \in S
      PROVE  n \in S
  <2>1. /\ n \in 1 .. k /\ n + 1 \in 1 .. k /\ (n + 1) - 1 = n /\ (n - 1) + 1 = n
        /\ n \in 0 .. AddressLimit
    BY <1>1
  <2>2. f[n + 1] = AndStep(f[n]) /\ f[n] = AndStep(f[n - 1])
    BY <1>4, <2>1
  <2>3. ASSUME NEW x \in Address, NEW y \in Address, x <= n
        PROVE  f[n + 1][x][y] = f[n][x][y]
    <3>1. CASE x = 0 \/ y = 0
      BY <2>2, <3>1, AndStepAt
    <3>2. CASE x # 0 /\ y # 0
      <4> DEFINE u == x \div 2
                 w == y \div 2
      <4>1. u \in Address /\ w \in Address /\ u <= n - 1
        BY <2>3, <3>2, HalfOfAddress
      <4> HIDE DEF u, w
      <4>2. f[n][u][w] = f[n - 1][u][w]
        BY <1>6, <2>1, <4>1
      <4>3. /\ f[n + 1][x][y] = (x % 2) * (y % 2) + 2 * f[n][u][w]
            /\ f[n][x][y] = (x % 2) * (y % 2) + 2 * f[n - 1][u][w]
        BY <2>2, <3>2, AndStepAt DEF u, w
      <4>4. QED
        BY <4>2, <4>3
    <3>3. QED
      BY <3>1, <3>2
  <2>4. QED
    BY <2>1, <2>3
<1>7. AddressLimit \in S
  <2>1. \A n \in 0 .. AddressLimit : n \in S
    <3> HIDE DEF S
    <3>1. QED
      BY <1>1, <1>5, <1>6, BoundedInduction
  <2> HIDE DEF S
  <2>2. QED
    BY <1>1, <2>1
<1> DEFINE g == f[AddressLimit]
           h == f[AddressLimit + 1]
<1>8. /\ AddressLimit + 1 \in 1 .. k /\ (AddressLimit + 1) - 1 = AddressLimit
      /\ AddressLimit \in 0 .. k /\ AddressLimit + 1 \in 0 .. k
  BY <1>1
<1>9. h = AndStep(g) /\ g \in AndTables /\ h \in AndTables
  BY <1>3, <1>4, <1>8
<1>10. \A x, y \in Address : h[x][y] = g[x][y]
  <2>1. \A x \in Address : x <= AddressLimit
    BY DEF Address
  <2>2. QED
    BY <1>7, <2>1
<1> HIDE DEF g, h
<1>11. h = g
  <2>1. ASSUME NEW x \in Address PROVE h[x] = g[x]
    BY <1>9, <1>10 DEF AndTables
  <2>2. QED
    BY <1>9, <2>1 DEF AndTables
<1>12. g = AndStep(g)
  BY <1>9, <1>11
<1>13. QED
  BY <1>12 DEF BitAnd, AndStep

\* One bit of the operands.
LEMMA BitAndAt ==
  ASSUME NEW x \in Address, NEW y \in Address
  PROVE  BitAnd[x][y] = IF x = 0 \/ y = 0 THEN 0
                        ELSE (x % 2) * (y % 2) + 2 * BitAnd[x \div 2][y \div 2]
<1>1. AndStep(BitAnd)[x][y] = IF x = 0 \/ y = 0 THEN 0
                              ELSE (x % 2) * (y % 2) + 2 * BitAnd[x \div 2][y \div 2]
  BY AndStepAt
<1>2. QED
  BY <1>1, BitAndRecursion

\* A mask keeps the result at most itself.
LEMMA BitAndBound ==
  ASSUME NEW x \in Address, NEW y \in Address
  PROVE  BitAnd[x][y] \in Nat /\ BitAnd[x][y] <= y
<1> DEFINE Bounded(u, w) == BitAnd[u][w] \in Nat /\ BitAnd[u][w] <= w
           S == {n \in 0 .. AddressLimit : \A u, w \in Address : u <= n => Bounded(u, w)}
<1>1. \A u, w \in Address :
        BitAnd[u][w] = IF u = 0 \/ w = 0 THEN 0
                       ELSE (u % 2) * (w % 2) + 2 * BitAnd[u \div 2][w \div 2]
  BY BitAndAt
<1>2. ASSUME NEW u \in Address, NEW w \in Address, u = 0 \/ w = 0
      PROVE  Bounded(u, w)
  <2>1. BitAnd[u][w] = 0
    BY <1>1, <1>2
  <2>2. w \in Nat
    BY HalfOfAddress
  <2>3. QED
    BY <2>1, <2>2
<1>3. 0 \in S
  <2>1. ASSUME NEW u \in Address, u <= 0 PROVE u = 0
    BY <2>1 DEF Address
  <2> HIDE DEF Bounded
  <2>2. QED
    BY <1>2, <2>1
<1>4. ASSUME NEW n \in 1 .. AddressLimit, n - 1 \in S
      PROVE  n \in S
  <2>1. ASSUME NEW u \in Address, NEW w \in Address, u <= n, u # 0, w # 0
        PROVE  Bounded(u, w)
    <3> DEFINE a == u \div 2
               b == w \div 2
               rest == BitAnd[a][b]
               bit == (u % 2) * (w % 2)
    <3>1. /\ a \in Address /\ b \in Address /\ a <= n - 1 /\ w = 2 * b + (w % 2)
          /\ b \in Nat /\ w % 2 \in {0, 1}
      BY <2>1, HalfOfAddress
    <3>2. bit \in {0, 1} /\ bit <= w % 2
      BY BitProduct
    <3>3. BitAnd[u][w] = bit + 2 * rest
      BY <1>1, <2>1
    <3> HIDE DEF a, b
    <3>4. rest \in Nat /\ rest <= b
      BY <1>4, <3>1
    <3> HIDE DEF rest, bit
    <3>5. QED
      BY <3>1, <3>2, <3>3, <3>4
  <2> HIDE DEF Bounded
  <2>2. QED
    BY <1>2, <2>1
<1>5. \A n \in 0 .. AddressLimit : n \in S
  <2> HIDE DEF S
  <2>1. QED
    BY <1>3, <1>4, BoundedInduction
<1>6. x \in 0 .. AddressLimit
  BY DEF Address
<1> HIDE DEF Bounded
<1>7. Bounded(x, y)
  BY <1>5, <1>6
<1>8. QED
  BY <1>7 DEF Bounded

\* The remainder by an even number, from that of the half.
LEMMA RemainderByDouble ==
  ASSUME NEW t \in Nat, t > 0, NEW x \in Nat
  PROVE  x % (2 * t) = (x % 2) + 2 * ((x \div 2) % t)
<1> DEFINE h == x \div 2
           b == x % 2
           q == h \div t
           r == h % t
<1>1. h \in Nat /\ b \in 0 .. 1 /\ x = 2 * h + b
  OBVIOUS
<1> HIDE DEF h, b
<1>2. h = t * q + r /\ r \in 0 .. t - 1 /\ q \in Nat
  BY <1>1, Division
<1> HIDE DEF q, r
<1> DEFINE p == t * q
<1>3. p \in Nat /\ h = p + r
  BY <1>2
<1>4. q * (2 * t) = 2 * p
  BY <1>2
<1> HIDE DEF p
<1>5. x = 2 * p + (b + 2 * r) /\ b + 2 * r \in 0 .. 2 * t - 1
  BY <1>1, <1>2, <1>3
<1> DEFINE s == 2 * t
           e == b + 2 * r
<1>6. s \in Nat /\ e \in 0 .. s - 1 /\ x = q * s + e
  BY <1>2, <1>4, <1>5
<1> HIDE DEF s, e
<1>7. x % s = e
  BY <1>2, <1>6, RemainderIs
<1>8. QED
  BY <1>7 DEF s, e, b, r, h

\* A power of two is 1 or twice another one.
LEMMA HalfOfPower ==
  ASSUME NEW s \in Nat, PowerOfTwo(s), s # 1
  PROVE  /\ s % 2 = 0 /\ s \div 2 \in Nat /\ s = 2 * (s \div 2) /\ s \div 2 < s
         /\ PowerOfTwo(s \div 2)
<1>1. s > 0 /\ \A d \in 2 .. s : s % d = 0 => d % 2 = 0
  BY DEF PowerOfTwo
<1>2. s % s = 0 /\ s \in 2 .. s
  <2>1. s \in 2 .. s /\ 0 \in 0 .. s - 1 /\ s = 1 * s + 0
    BY <1>1
  <2>2. s % s = 0
    BY <2>1, RemainderIs
  <2>3. QED
    BY <2>1, <2>2
<1>3. s % 2 = 0
  BY <1>1, <1>2
<1> DEFINE t == s \div 2
<1>4. t \in Nat /\ s = 2 * t /\ t < s /\ t > 0
  BY <1>1, <1>3
<1> HIDE DEF t
<1>5. ASSUME NEW d \in 2 .. t, t % d = 0
      PROVE  d % 2 = 0
  <2> DEFINE q == t \div d
  <2>1. d \in Nat /\ d > 0 /\ d \in 2 .. s
    BY <1>4
  <2>2. t = d * q + 0 /\ q \in Nat
    BY <1>4, <1>5, <2>1, Division
  <2> HIDE DEF q
  <2>3. s = (2 * q) * d + 0
    BY <1>4, <2>1, <2>2
  <2> DEFINE p == 2 * q
  <2>4. p \in Int /\ s = p * d + 0 /\ 0 \in 0 .. d - 1
    BY <2>1, <2>2, <2>3
  <2> HIDE DEF p
  <2>5. s % d = 0
    BY <2>1, <2>4, RemainderIs
  <2>6. QED
    BY <1>1, <2>1, <2>5
<1>6. PowerOfTwo(t)
  BY <1>4, <1>5 DEF PowerOfTwo
<1>7. QED
  BY <1>3, <1>4, <1>6 DEF t

\* Masking with a power of two less one is taking the remainder.
LEMMA MaskIsRemainder ==
  ASSUME NEW x \in Address, NEW s \in Address, PowerOfTwo(s)
  PROVE  BitAnd[x][s - 1] = x % s
<1> DEFINE Holds(u, w) == BitAnd[u][w - 1] = u % w
           S == {n \in 0 .. AddressLimit :
                   \A u, w \in Address : PowerOfTwo(w) /\ w <= n => Holds(u, w)}
<1>1. 0 \in S
  BY DEF PowerOfTwo, Address
<1>2. ASSUME NEW n \in 1 .. AddressLimit, n - 1 \in S
      PROVE  n \in S
  <2>1. ASSUME NEW u \in Address, NEW w \in Address, PowerOfTwo(w), w <= n
        PROVE  Holds(u, w)
    <3>1. /\ u \in Nat /\ w \in Nat /\ w > 0 /\ w < AddressLimit /\ w - 1 \in Address
          /\ AddressLimit \in Nat
      BY <2>1 DEF PowerOfTwo, Address
    <3>2. CASE w = 1
      <4>1. BitAnd[u][w - 1] = 0
        BY <3>1, <3>2, BitAndAt
      <4>2. u % 1 = 0
        BY <3>1
      <4>3. QED
        BY <3>2, <4>1, <4>2
    <3>3. CASE w # 1 /\ u = 0
      <4>1. BitAnd[u][w - 1] = 0
        BY <3>1, <3>3, BitAndAt
      <4>2. 0 % w = 0
        BY <3>1
      <4>3. QED
        BY <3>3, <4>1, <4>2
    <3>4. CASE w # 1 /\ u # 0
      <4> DEFINE t == w \div 2
                 h == u \div 2
                 y == w - 1
      <4>1. t \in Nat /\ w = 2 * t /\ t < w /\ PowerOfTwo(t)
        BY <2>1, <3>1, <3>4, HalfOfPower
      <4> HIDE DEF t
      <4>2. t > 0
        BY <4>1 DEF PowerOfTwo
      <4>3. y # 0 /\ y % 2 = 1 /\ y \div 2 = t - 1 /\ y \in Address
        BY <3>1, <4>1, <4>2
      <4> HIDE DEF y
      <4>4. BitAnd[u][y] = (u % 2) * (y % 2) + 2 * BitAnd[h][y \div 2]
        BY <3>4, <4>3, BitAndAt
      <4>5. h \in Address /\ u % 2 \in {0, 1}
        BY HalfOfAddress
      <4> HIDE DEF h
      <4>6. t \in Address /\ t <= n - 1
        BY <2>1, <3>1, <4>1 DEF Address
      <4>7. BitAnd[h][t - 1] = h % t
        BY <1>2, <4>1, <4>5, <4>6
      <4>8. BitAnd[u][y] = (u % 2) + 2 * (h % t)
        BY <4>3, <4>4, <4>5, <4>7
      <4>9. u % (2 * t) = (u % 2) + 2 * (h % t)
        BY <3>1, <4>1, <4>2, RemainderByDouble DEF h
      <4>10. QED
        BY <4>1, <4>8, <4>9 DEF y
    <3>5. QED
      BY <3>2, <3>3, <3>4
  <2> HIDE DEF Holds
  <2>2. QED
    BY <2>1
<1>3. \A n \in 0 .. AddressLimit : n \in S
  <2> HIDE DEF S
  <2>1. QED
    BY <1>1, <1>2, BoundedInduction
<1>4. s \in 0 .. AddressLimit
  BY DEF Address
<1> HIDE DEF Holds
<1>5. Holds(x, s)
  BY <1>3, <1>4
<1>6. QED
  BY <1>5 DEF Holds

-----------------------------------------------------------------------------
(* Accesses through mirrors.                                               *)

\* What a mirror mirrors.
LEMMA MirroredDevice ==
  ASSUME PInv, Started, NEW m \in Mirrors, NEW real, real = theRealMemDev[m]
  PROVE  /\ real = GetDevice(m.source) /\ real # NoDevice
         /\ real \in Devices /\ real \in Device /\ Claims(real, m.source)
<1>1. theDevices \in Seq(Device)
  BY DEF PInv, IInv, TypeOK
<1> DEFINE source == m.source
<1>2. real = GetDevice(source) /\ real # NoDevice
  BY DEF PInv, MirrorsInv
<1> HIDE DEF source
<1>3. real \in Devices /\ Claims(real, source)
  BY <1>1, <1>2, FoundClaims
<1>4. real \in Device
  BY <1>1, <1>3, RangeOfSeq DEF Devices
<1>5. QED
  BY <1>2, <1>3, <1>4 DEF source

\* Where accesses come: to no device, inside a device, or to what a mirror computes for
\* the device it mirrors.
Hops ==
  {v \in [device : Devices \union {NoDevice}, addr : Address] :
     v.device # NoDevice =>
       \/ Claims(v.device, v.addr)
       \/ \E m \in Mirrors, masked \in 0 .. v.device.theSize - 1 :
            theRealMemDev[m] = v.device /\ v.addr = Wrapped(masked + m.source)}

\* What a mirror computes, whatever it mirrors.
LEMMA MirrorAddressMasked ==
  ASSUME NEW m \in Device, NEW real \in Device, real.theSize > 0,
         NEW addr \in Address, m.theAddress <= addr
  PROVE  /\ MirrorAddress(m, real, addr) \in Address
         /\ \E masked \in 0 .. real.theSize - 1 :
              MirrorAddress(m, real, addr) = Wrapped(masked + m.source)
<1> DEFINE offset == addr - m.theAddress
           mask == real.theSize - 1
           masked == BitAnd[offset][mask]
<1>1. /\ m.theAddress \in Nat /\ real.theSize \in Nat /\ addr \in Nat
      /\ m.source \in Nat /\ m.source < AddressLimit
      /\ addr < AddressLimit /\ real.theSize < AddressLimit /\ AddressLimit \in Nat
  <2>1. real.theSize \in Address
    BY DEF Device
  <2>2. QED
    BY <2>1, DeviceNumbers DEF Address
<1>2. offset \in Address /\ mask \in Address
  BY <1>1 DEF Address
<1>3. MirrorAddress(m, real, addr) = Wrapped(masked + m.source)
  BY DEF MirrorAddress
<1> HIDE DEF offset
<1>4. masked \in Nat /\ masked <= mask
  <2> HIDE DEF mask
  <2>1. QED
    BY <1>2, BitAndBound
<1> HIDE DEF masked
<1>5. masked \in 0 .. real.theSize - 1 /\ Wrapped(masked + m.source) \in Address
  BY <1>1, <1>4 DEF Wrapped, Address
<1>6. QED
  BY <1>3, <1>5

\* Accesses that are inside the device they are at, or at none.
Inside ==
  {v \in [device : Devices \union {NoDevice}, addr : Address] :
     v.device # NoDevice => Claims(v.device, v.addr)}

\* A mirror's mask and its source stay inside what it mirrors.
LEMMA MirrorAddressInside ==
  ASSUME NEW m \in Device, NEW real \in Device, Fits(real), real.theAddress = m.source,
         NEW addr \in Address, Claims(m, addr)
  PROVE  /\ MirrorAddress(m, real, addr) \in Address
         /\ Claims(real, MirrorAddress(m, real, addr))
         /\ PowerOfTwo(real.theSize) =>
              MirrorAddress(m, real, addr) = m.source + ((addr - m.theAddress) % real.theSize)
<1> DEFINE offset == addr - m.theAddress
           mask == real.theSize - 1
           masked == BitAnd[offset][mask]
<1>1. /\ m.theAddress \in Nat /\ real.theSize \in Nat /\ real.theAddress \in Nat /\ addr \in Nat
      /\ addr < AddressLimit /\ real.theSize < AddressLimit /\ AddressLimit \in Nat
  <2>1. real.theSize \in Address
    BY DEF Device
  <2>2. QED
    BY <2>1, DeviceNumbers DEF Address
<1>2. /\ real.theSize > 0 /\ real.theAddress + real.theSize <= AddressLimit
      /\ m.theAddress <= addr
  BY DEF Fits, Claims
<1>3. offset \in Address /\ mask \in Address
  BY <1>1, <1>2 DEF Address
<1>4. MirrorAddress(m, real, addr) = Wrapped(masked + real.theAddress)
  BY DEF MirrorAddress
<1> HIDE DEF offset
<1>5. masked \in Nat /\ masked <= mask
  <2> HIDE DEF mask
  <2>1. QED
    BY <1>3, BitAndBound
<1> HIDE DEF masked
<1>6. Wrapped(masked + real.theAddress) = masked + real.theAddress
  BY <1>1, <1>2, <1>5 DEF Wrapped
<1>7. ASSUME PowerOfTwo(real.theSize)
      PROVE  masked = offset % real.theSize
  <2>1. real.theSize \in Address
    BY <1>1 DEF Address
  <2> DEFINE size == real.theSize
  <2> HIDE DEF size
  <2>2. size \in Address /\ PowerOfTwo(size) /\ mask = size - 1
    BY <2>1, <1>7 DEF size
  <2> HIDE DEF mask
  <2>3. BitAnd[offset][size - 1] = offset % size
    BY <1>3, <2>2, MaskIsRemainder
  <2>4. QED
    BY <2>2, <2>3 DEF size, masked
<1>8. PowerOfTwo(real.theSize) =>
        MirrorAddress(m, real, addr) = m.source + ((addr - m.theAddress) % real.theSize)
  BY <1>1, <1>3, <1>4, <1>5, <1>6, <1>7 DEF offset
<1>9. QED
  BY <1>1, <1>2, <1>4, <1>5, <1>6, <1>8 DEF Claims, Address

LEMMA ForwardIsHop ==
  ASSUME PInv, Started, NEW v \in Hops
  PROVE  Forward(v) \in Hops
<1>1. Mirrors \subseteq Devices /\ Devices \subseteq Device
  BY RangeOfSeq DEF PInv, IInv, TypeOK, Devices, Mirrors
<1>2. CASE v.device \notin Mirrors \/ ~ IsAbsAddressValid(v.device, v.addr)
  BY <1>2 DEF Forward
<1>3. CASE v.device \in Mirrors /\ IsAbsAddressValid(v.device, v.addr)
  <2> DEFINE m == v.device
             addr == v.addr
             real == theRealMemDev[m]
             to == MirrorAddress(m, real, addr)
  <2>1. m \in Mirrors /\ m \in Device /\ addr \in Address /\ m.theAddress <= addr
    BY <1>1, <1>3 DEF Hops, IsAbsAddressValid
  <2>2. Forward(v) = [device |-> real, addr |-> to]
    BY <1>3 DEF Forward
  <2> HIDE DEF m, addr
  <2>3. real # NoDevice /\ real \in Devices /\ real \in Device /\ Claims(real, m.source)
    BY <2>1, MirroredDevice
  <2>4. real.theSize > 0
    BY <2>1, <2>3, DeviceNumbers DEF Claims, Address
  <2> DEFINE other == real
  <2>5. other = theRealMemDev[m]
    OBVIOUS
  <2> HIDE DEF other
  <2>6. /\ MirrorAddress(m, other, addr) \in Address
        /\ \E masked \in 0 .. other.theSize - 1 :
             MirrorAddress(m, other, addr) = Wrapped(masked + m.source)
    BY <2>1, <2>3, <2>4, MirrorAddressMasked DEF other
  <2> DEFINE w == [device |-> other, addr |-> MirrorAddress(m, other, addr)]
  <2>7. w \in [device : Devices \union {NoDevice}, addr : Address]
    BY <2>3, <2>6 DEF other
  <2>8. w \in Hops
    BY <2>1, <2>5, <2>6, <2>7 DEF Hops
  <2>9. QED
    BY <2>2, <2>8 DEF other
<1>4. QED
  BY <1>2, <1>3

\* The hops of an access, by recursion as in Target, for any list and any mirrors.
MirrorsIn(devices) == {d \in Range(devices) : d.type = "MirrorMemory"}
ForwardIn(devices, mirrored, access) ==
  IF access.device \notin MirrorsIn(devices) \/ ~ IsAbsAddressValid(access.device, access.addr)
    THEN access
    ELSE LET real == mirrored[access.device]
         IN  [device |-> real, addr |-> MirrorAddress(access.device, real, access.addr)]
NextHops(devices, mirrored, addr, f) ==
  [n \in 0 .. Len(devices) |->
     IF n = 0 THEN [device |-> GetDeviceOf(devices, addr), addr |-> addr]
     ELSE ForwardIn(devices, mirrored, f[n - 1])]
HopsIn(devices, mirrored, addr) == CHOOSE f : f = NextHops(devices, mirrored, addr, f)

LEMMA ForwardIsForwardIn ==
  /\ Mirrors = MirrorsIn(theDevices) /\ Mirrors' = MirrorsIn(theDevices')
  /\ \A access : /\ Forward(access) = ForwardIn(theDevices, theRealMemDev, access)
                 /\ Forward(access)' = ForwardIn(theDevices', theRealMemDev', access)
<1>1. Mirrors = MirrorsIn(theDevices) /\ Mirrors' = MirrorsIn(theDevices')
  BY DEF Mirrors, MirrorsIn, Devices
<1>2. \A access : Forward(access) = ForwardIn(theDevices, theRealMemDev, access)
  BY <1>1, Zenon DEF Forward, ForwardIn
<1>3. \A access : Forward(access)' = ForwardIn(theDevices', theRealMemDev', access)
  BY <1>1, Zenon DEF Forward, ForwardIn, MirrorAddress, IsAbsAddressValid
<1>4. QED
  BY <1>1, <1>2, <1>3

LEMMA TargetIsLastHop ==
  \A addr : /\ Target(addr) = HopsIn(theDevices, theRealMemDev, addr)[Len(theDevices)]
            /\ Target(addr)' = HopsIn(theDevices', theRealMemDev', addr)[Len(theDevices')]
<1>1. \A addr : Target(addr) = HopsIn(theDevices, theRealMemDev, addr)[Len(theDevices)]
  BY ForwardIsForwardIn, GetDeviceOfList, Zenon DEF Target, HopsIn, NextHops
<1>2. \A addr : Target(addr)' = HopsIn(theDevices', theRealMemDev', addr)[Len(theDevices')]
  BY ForwardIsForwardIn, GetDeviceOfList, Zenon DEF Target, HopsIn, NextHops
<1>3. QED
  BY <1>1, <1>2

LEMMA HopsRecursion ==
  ASSUME PInv, Started, NEW addr \in Address,
         NEW hops, hops = HopsIn(theDevices, theRealMemDev, addr)
  PROVE  /\ hops = NextHops(theDevices, theRealMemDev, addr, hops)
         /\ hops[0] = [device |-> GetDevice(addr), addr |-> addr]
         /\ \A n \in 1 .. Len(theDevices) : hops[n] = Forward(hops[n - 1])
         /\ \A n \in 0 .. Len(theDevices) : hops[n] \in Hops
<1> DEFINE V == Hops
           k == Len(theDevices)
           base == [device |-> GetDevice(addr), addr |-> addr]
           step == [x \in V \X (1 .. k) |-> Forward(x[1])]
           Rec(f) == [n \in 0 .. k |-> IF n = 0 THEN base ELSE Forward(f[n - 1])]
<1>1. k \in Nat /\ theDevices \in Seq(Device)
  BY DEF PInv, IInv, TypeOK
<1>2. base \in V
  <2> DEFINE found == GetDevice(addr)
  <2>1. found \in Devices \union {NoDevice}
    BY <1>1, GetDeviceType
  <2>2. found # NoDevice => Claims(found, addr)
    BY <1>1, FoundClaims
  <2> HIDE DEF found
  <2>3. /\ [device |-> found, addr |-> addr] \in [device : Devices \union {NoDevice}, addr : Address]
        /\ [device |-> found, addr |-> addr].device = found
        /\ [device |-> found, addr |-> addr].addr = addr
    BY <2>1
  <2>4. [device |-> found, addr |-> addr] \in Hops
    BY <2>2, <2>3 DEF Hops
  <2>5. QED
    BY <2>4 DEF found
<1>3. step \in [V \X (1 .. k) -> V]
  <2>1. ASSUME NEW x \in V \X (1 .. k)
        PROVE  Forward(x[1]) \in V
    BY ForwardIsHop
  <2>2. QED
    BY <2>1
<1>4. \A v \in V, n \in 1 .. k : step[<<v, n>>] = Forward(v)
  OBVIOUS
<1>5. PICK f \in [0 .. k -> V] : IsRecursion(f, k, base, step)
  <2> HIDE DEF step, V, k, base
  <2>1. QED
    BY <1>1, <1>2, <1>3, RecursionExists
<1>6. f = Rec(f)
  <2>1. ASSUME NEW n \in 1 .. k
        PROVE  f[n] = Forward(f[n - 1])
    <3>1. n - 1 \in 0 .. k
      BY <1>1
    <3> HIDE DEF step, V, k
    <3>2. f[n - 1] \in V
      BY <1>5, <3>1
    <3>3. step[<<f[n - 1], n>>] = Forward(f[n - 1])
      BY <1>4, <3>2
    <3>4. QED
      BY <1>5, <3>3 DEF IsRecursion
  <2> HIDE DEF step, V, base
  <2>2. \A n \in 0 .. k : f[n] = Rec(f)[n]
    BY <1>1, <1>5, <2>1 DEF IsRecursion
  <2>3. QED
    BY <1>5, <2>2
<1>7. \A e : NextHops(theDevices, theRealMemDev, addr, e) = Rec(e)
  BY ForwardIsForwardIn, GetDeviceOfList DEF NextHops
<1> DEFINE g == hops
<1> HIDE DEF Rec
<1>8. g = Rec(g)
  BY <1>6, <1>7, Zenon DEF HopsIn
<1> USE DEF Rec
<1> HIDE DEF step, g, base
<1>9. g[0] = base
  BY <1>1, <1>8
<1>10. ASSUME NEW n \in 1 .. k
      PROVE  g[n] = Forward(g[n - 1])
  <2>1. n \in 0 .. k /\ n # 0
    BY <1>1
  <2> HIDE DEF k
  <2>2. Rec(g)[n] = Forward(g[n - 1])
    BY <2>1
  <2> HIDE DEF Rec
  <2>3. QED
    BY <1>8, <2>2
<1>11. \A n \in 0 .. k : g[n] \in Hops
  <2> DEFINE S == {n \in 0 .. k : g[n] \in Hops}
  <2>1. 0 \in S
    BY <1>1, <1>2, <1>9
  <2>2. ASSUME NEW n \in 1 .. k, n - 1 \in S
        PROVE  n \in S
    <3>1. g[n - 1] \in Hops /\ n \in 0 .. k
      BY <2>2
    <3>2. QED
      BY <1>10, <3>1, ForwardIsHop
  <2>3. \A n \in 0 .. k : n \in S
    <3> HIDE DEF S, k
    <3>1. QED
      BY <1>1, <2>1, <2>2, BoundedInduction
  <2>4. QED
    BY <2>3
<1> HIDE DEF Rec
<1>12. hops = NextHops(theDevices, theRealMemDev, addr, hops)
  BY <1>7, <1>8 DEF g
<1>13. QED
  BY <1>9, <1>10, <1>11, <1>12 DEF g, base

\* Whatever the configuration, and through any chain of mirrors: a device is asked for an
\* address that it accepts and does not have only by a mirror that names its middle.
THEOREM AccessesStayInsideCorrect == Spec => []AccessesStayInside
<1>1. PInv => AccessesStayInside
  <2> SUFFICES ASSUME PInv, Started, NEW addr \in Address, NEW t, t = Target(addr),
                      t.device # NoDevice, IsAbsAddressValid(t.device, t.addr),
                      \A m \in Mirrors :
                        theRealMemDev[m] = t.device => m.source = t.device.theAddress,
                      ~ Claims(t.device, t.addr)
               PROVE  FALSE
    BY DEF AccessesStayInside
  <2>1. Len(theDevices) \in 0 .. Len(theDevices) /\ Devices \subseteq Device
    BY RangeOfSeq DEF PInv, IInv, TypeOK, Devices
  <2>2. t \in Hops
    BY <2>1, HopsRecursion, TargetIsLastHop
  <2>3. t.device \in Device /\ t.addr \in Address
    BY <2>1, <2>2 DEF Hops
  <2>4. PICK m \in Mirrors, masked \in 0 .. t.device.theSize - 1 :
          theRealMemDev[m] = t.device /\ t.addr = Wrapped(masked + m.source)
    BY <2>2 DEF Hops
  <2> DEFINE d == t.device
             first == d.theAddress
             size == d.theSize
  <2>5. /\ first \in Nat /\ size \in Nat /\ size < AddressLimit /\ AddressLimit \in Nat
        /\ t.addr \in Nat /\ masked \in 0 .. size - 1
    BY <2>3, <2>4, DeviceNumbers DEF Address, Device
  <2>6. t.addr = Wrapped(masked + first) /\ first <= t.addr /\ ~ (t.addr - first < size)
    <3>1. m.source = d.theAddress
      BY <2>4
    <3>2. t.addr = Wrapped(masked + first)
      BY <2>4, <3>1
    <3>3. first <= t.addr /\ ~ (t.addr - first < size)
      BY DEF Claims, IsAbsAddressValid
    <3>4. QED
      BY <3>2, <3>3
  <2> HIDE DEF first, size
  <2>7. QED
    BY <2>5, <2>6 DEF Wrapped
<1>2. QED
  BY <1>1, ProvenanceInvariance, PTL

-----------------------------------------------------------------------------
(* What the program reads and writes.                                      *)

\* Every device holds a byte and ends inside the address space.
AllFit == Fits(InputDevice) /\ \A c \in Configurations : \A i \in DOMAIN c : Fits(c[i])

LEMMA DevicesFit ==
  ASSUME PInv, AllFit
  PROVE  \A d \in Devices : Fits(d)
<1>1. PICK c \in Configurations : Devices \subseteq Range(c) \union {InputDevice}
  BY DEF PInv, Provenance
<1>2. QED
  BY <1>1 DEF AllFit, Range

\* What regular mirrors compute is inside what they mirror.
LEMMA RegularHops ==
  ASSUME PInv, Started, AllFit, RegularMirrors, NEW v \in Hops
  PROVE  v \in Inside
<1>1. v \in [device : Devices \union {NoDevice}, addr : Address] /\ Devices \subseteq Device
  BY RangeOfSeq DEF Hops, PInv, IInv, TypeOK, Devices
<1>2. ASSUME NEW m \in Mirrors, NEW masked \in 0 .. v.device.theSize - 1,
             theRealMemDev[m] = v.device, v.addr = Wrapped(masked + m.source),
             v.device # NoDevice
      PROVE  Claims(v.device, v.addr)
  <2> DEFINE d == v.device
             first == d.theAddress
             size == d.theSize
  <2>1. d \in Devices /\ d \in Device
    BY <1>1, <1>2
  <2>2. first \in Nat /\ size \in Nat /\ masked \in 0 .. size - 1 /\ AddressLimit \in Nat
    BY <1>2, <2>1, DeviceNumbers
  <2>3. first + size <= AddressLimit
    BY <2>1, DevicesFit DEF Fits
  <2>4. v.addr = Wrapped(masked + first)
    BY <1>2 DEF RegularMirrors
  <2> HIDE DEF first, size
  <2>5. first <= v.addr /\ v.addr - first < size
    BY <2>2, <2>3, <2>4 DEF Wrapped
  <2>6. QED
    BY <2>5 DEF Claims, first, size
<1>3. QED
  BY <1>1, <1>2 DEF Hops, Inside

\* In an ordered list whose devices fit, a device that claims an address is the answer.
LEMMA OwnerIsFound ==
  ASSUME NEW devices \in Seq(Device), OrderedList(devices),
         \A i \in DOMAIN devices : Fits(devices[i]),
         NEW addr \in Address, NEW d \in Range(devices), Claims(d, addr)
  PROVE  GetDeviceOf(devices, addr) = d
<1>1. PICK i \in DOMAIN devices : d = devices[i]
  BY DEF Range
<1>2. DOMAIN devices = 1 .. Len(devices) /\ Len(devices) \in Nat /\ addr \in Nat
  BY DEF Address
<1>3. ASSUME NEW j \in 1 .. i - 1, Claims(devices[j], addr)
      PROVE  FALSE
  <2>1. j \in DOMAIN devices /\ j < i
    BY <1>2
  <2>2. devices[j].theAddress + devices[j].theSize <= devices[i].theAddress
    BY <1>2, <2>1 DEF OrderedList
  <2>3. devices[j] \in Device /\ devices[i] \in Device
    BY <2>1
  <2>4. /\ devices[j].theAddress \in Nat /\ devices[j].theSize \in Nat
        /\ devices[i].theAddress \in Nat
    BY <2>3, DeviceNumbers
  <2>5. QED
    BY <1>1, <1>2, <1>3, <2>2, <2>4 DEF Claims
<1>4. QED
  BY <1>1, <1>3, FirstIsFound

\* The devices that cover an address: the one getDevice finds.
LEMMA CoveringIsOwner ==
  ASSUME PInv, AllFit, NEW addr \in Address
  PROVE  Covering(addr) = IF GetDevice(addr) = NoDevice THEN {} ELSE {GetDevice(addr)}
<1>1. /\ theDevices \in Seq(Device) /\ OrderedList(theDevices)
      /\ \A i \in DOMAIN theDevices : Fits(theDevices[i])
      /\ Devices = Range(theDevices) /\ Devices \subseteq Device
  <2>1. theDevices \in Seq(Device) /\ OrderedList(theDevices)
    BY OrderedDisjointIsOrderedList DEF PInv, IInv, TypeOK
  <2>2. \A d \in Devices : Fits(d)
    BY DevicesFit
  <2>3. QED
    BY <2>1, <2>2, RangeOfSeq DEF Devices, Range
<1> DEFINE found == GetDevice(addr)
<1>2. found # NoDevice => found \in Devices /\ Claims(found, addr)
  BY <1>1, FoundClaims
<1>3. ASSUME NEW d \in Devices, Claims(d, addr)
      PROVE  found = d
  BY <1>1, <1>3, OwnerIsFound, GetDeviceOfList
<1>4. \A d \in Devices : d # NoDevice
  <2>1. \A d \in Devices : d.type \in Types
    BY <1>1 DEF Device
  <2>2. NoDevice.type \notin Types
    BY DEF NoDevice, Types
  <2>3. QED
    BY <2>1, <2>2
<1> HIDE DEF found
<1>5. Covering(addr) = IF found = NoDevice THEN {} ELSE {found}
  BY <1>2, <1>3, <1>4 DEF Covering, Footprint
<1>6. QED
  BY <1>5 DEF found

\* One step of CellOf.
NextCell(a) ==
  LET mirror == {m \in Covering(a) : m \in Mirrors /\ Covering(m.source) # {}}
  IN  IF mirror = {} THEN a
      ELSE LET m == CHOOSE m \in mirror : TRUE
               real == CHOOSE d \in Covering(m.source) : TRUE
           IN  m.source + ((a - m.theAddress) % real.theSize)
NextCells(addr, f) ==
  [n \in 0 .. Len(theDevices) |-> IF n = 0 THEN addr ELSE NextCell(f[n - 1])]
CellsOf(addr) == CHOOSE f : f = NextCells(addr, f)

LEMMA CellIsLastCell == \A addr : CellOf(addr) = CellsOf(addr)[Len(theDevices)]
BY Zenon DEF CellOf, CellsOf, NextCells, NextCell

\* It is the step of the access.
LEMMA NextCellIsForward ==
  ASSUME PInv, Started, AllFit, RegularMirrors, NEW a \in Address, NEW d, d = GetDevice(a)
  PROVE  /\ NextCell(a) \in Address
         /\ d \notin Mirrors => NextCell(a) = a
         /\ d \in Mirrors =>
              /\ NextCell(a) = MirrorAddress(d, theRealMemDev[d], a)
              /\ GetDevice(NextCell(a)) = theRealMemDev[d]
<1> DEFINE mirror == {m \in Covering(a) : m \in Mirrors /\ Covering(m.source) # {}}
<1>1. /\ theDevices \in Seq(Device) /\ OrderedList(theDevices)
      /\ \A i \in DOMAIN theDevices : Fits(theDevices[i])
      /\ Devices = Range(theDevices) /\ Devices \subseteq Device /\ Mirrors \subseteq Devices
  <2>1. theDevices \in Seq(Device) /\ OrderedList(theDevices)
    BY OrderedDisjointIsOrderedList DEF PInv, IInv, TypeOK
  <2>2. \A e \in Devices : Fits(e)
    BY DevicesFit
  <2>3. QED
    BY <2>1, <2>2, RangeOfSeq DEF Devices, Range, Mirrors
<1>2. d # NoDevice => d \in Devices /\ Claims(d, a)
  BY <1>1, FoundClaims
<1>3. NoDevice \notin Mirrors
  BY DEF NoDevice, Mirrors
<1>4. Covering(a) = IF d = NoDevice THEN {} ELSE {d}
  BY CoveringIsOwner
<1>5. CASE d \notin Mirrors
  <2>1. mirror = {}
    BY <1>4, <1>5
  <2>2. NextCell(a) = a
    BY <2>1 DEF NextCell
  <2>3. QED
    BY <1>5, <2>2
<1>6. CASE d \in Mirrors
  <2> DEFINE source == d.source
             real == theRealMemDev[d]
  <2>1. d \in Device /\ d # NoDevice /\ source \in Address /\ Claims(d, a)
    BY <1>1, <1>2, <1>3, <1>6, DeviceNumbers
  <2>2. /\ real = GetDevice(source) /\ real # NoDevice
        /\ real \in Devices /\ real \in Device
        /\ real.theAddress = source /\ Fits(real) /\ PowerOfTwo(real.theSize)
    BY <1>6, MirroredDevice, DevicesFit DEF RegularMirrors
  <2> HIDE DEF source, real
  <2>3. Covering(source) = {real}
    BY <2>1, <2>2, CoveringIsOwner
  <2>4. mirror = {d}
    BY <1>4, <1>6, <2>1, <2>3 DEF source
  <2>5. NextCell(a) = d.source + ((a - d.theAddress) % real.theSize)
    <3> HIDE DEF mirror
    <3>1. (CHOOSE m \in mirror : TRUE) = d /\ (CHOOSE e \in Covering(d.source) : TRUE) = real
      BY <2>3, <2>4 DEF source
    <3>2. QED
      BY <2>4, <3>1 DEF NextCell, mirror
  <2>6. /\ MirrorAddress(d, real, a) \in Address /\ Claims(real, MirrorAddress(d, real, a))
        /\ MirrorAddress(d, real, a) = d.source + ((a - d.theAddress) % real.theSize)
    BY <2>1, <2>2, MirrorAddressInside DEF source
  <2> DEFINE to == NextCell(a)
  <2>7. to = MirrorAddress(d, real, a) /\ to \in Address /\ Claims(real, to)
    BY <2>5, <2>6
  <2> HIDE DEF to
  <2>8. GetDeviceOf(theDevices, to) = real
    BY <1>1, <2>2, <2>7, OwnerIsFound
  <2>9. GetDevice(to) = real
    BY <2>8, GetDeviceOfList
  <2>10. QED
    BY <1>6, <2>7, <2>9 DEF to, real
<1>7. QED
  BY <1>5, <1>6

LEMMA CellsRecursion ==
  ASSUME PInv, Started, AllFit, RegularMirrors, NEW addr \in Address, NEW cells, cells = CellsOf(addr)
  PROVE  /\ cells[0] = addr
         /\ \A n \in 1 .. Len(theDevices) : cells[n] = NextCell(cells[n - 1])
         /\ \A n \in 0 .. Len(theDevices) : cells[n] \in Address
<1> DEFINE V == Address
           k == Len(theDevices)
           step == [x \in V \X (1 .. k) |-> NextCell(x[1])]
           Rec(f) == [n \in 0 .. k |-> IF n = 0 THEN addr ELSE NextCell(f[n - 1])]
<1>1. k \in Nat
  BY DEF PInv, IInv, TypeOK
<1>2. \A v \in V : NextCell(v) \in V
  BY NextCellIsForward
<1>3. step \in [V \X (1 .. k) -> V]
  <2> HIDE DEF V
  <2>1. QED
    BY <1>2
<1>4. \A v \in V, n \in 1 .. k : step[<<v, n>>] = NextCell(v)
  OBVIOUS
<1>5. PICK f \in [0 .. k -> V] : IsRecursion(f, k, addr, step)
  <2>1. addr \in V
    OBVIOUS
  <2> HIDE DEF step, V, k
  <2>2. QED
    BY <1>1, <1>3, <2>1, RecursionExists
<1>6. f = Rec(f)
  <2>1. ASSUME NEW n \in 1 .. k
        PROVE  f[n] = NextCell(f[n - 1])
    <3>1. n - 1 \in 0 .. k
      BY <1>1
    <3> HIDE DEF step, V, k
    <3>2. f[n - 1] \in V
      BY <1>5, <3>1
    <3>3. step[<<f[n - 1], n>>] = NextCell(f[n - 1])
      BY <1>4, <3>2
    <3>4. QED
      BY <1>5, <3>3 DEF IsRecursion
  <2> HIDE DEF step, V
  <2>2. \A n \in 0 .. k : f[n] = Rec(f)[n]
    BY <1>1, <1>5, <2>1 DEF IsRecursion
  <2>3. QED
    BY <1>5, <2>2
<1> DEFINE g == cells
<1>7. g = Rec(g)
  BY <1>6, Zenon DEF CellsOf, NextCells
<1> HIDE DEF step, g
<1>8. g[0] = addr
  BY <1>1, <1>7
<1>9. ASSUME NEW n \in 1 .. k
      PROVE  g[n] = NextCell(g[n - 1])
  <2>1. n \in 0 .. k /\ n # 0
    BY <1>1
  <2> HIDE DEF k
  <2>2. Rec(g)[n] = NextCell(g[n - 1])
    BY <2>1
  <2> HIDE DEF Rec
  <2>3. QED
    BY <1>7, <2>2
<1> HIDE DEF Rec
<1>10. \A n \in 0 .. k : g[n] \in V
  <2> DEFINE S == {n \in 0 .. k : g[n] \in V}
  <2>1. 0 \in S
    BY <1>1, <1>8
  <2>2. ASSUME NEW n \in 1 .. k, n - 1 \in S
        PROVE  n \in S
    <3>1. g[n - 1] \in V /\ n \in 0 .. k
      BY <2>2
    <3> HIDE DEF V
    <3>2. QED
      BY <1>2, <1>9, <3>1
  <2>3. \A n \in 0 .. k : n \in S
    <3> HIDE DEF S, k
    <3>1. QED
      BY <1>1, <2>1, <2>2, BoundedInduction
  <2>4. QED
    BY <2>3
<1>11. QED
  BY <1>8, <1>9, <1>10 DEF g

\* An access that ends at a device ends at the cell of its address, in the device that
\* answers there.
LEMMA TargetIsCell ==
  ASSUME PInv, Started, AllFit, RegularMirrors, NEW addr \in Address,
         NEW t, t = Target(addr), t.device # NoDevice
  PROVE  t \in Inside /\ t.addr = CellOf(addr) /\ t.device = GetDevice(CellOf(addr))
<1> DEFINE k == Len(theDevices)
           hops == HopsIn(theDevices, theRealMemDev, addr)
           cells == CellsOf(addr)
<1>1. k \in Nat /\ theDevices \in Seq(Device)
  BY DEF PInv, IInv, TypeOK
<1>2. /\ hops[0] = [device |-> GetDevice(addr), addr |-> addr]
      /\ \A n \in 1 .. k : hops[n] = Forward(hops[n - 1])
      /\ \A n \in 0 .. k : hops[n] \in Inside
  BY HopsRecursion, RegularHops
<1>3. /\ cells[0] = addr
      /\ \A n \in 1 .. k : cells[n] = NextCell(cells[n - 1])
      /\ \A n \in 0 .. k : cells[n] \in Address
  BY CellsRecursion
<1>4. t = hops[k] /\ CellOf(addr) = cells[k]
  BY TargetIsLastHop, CellIsLastCell
<1> HIDE DEF hops, cells
<1> DEFINE Agrees(n) == hops[n].device # NoDevice =>
                          /\ hops[n].addr = cells[n]
                          /\ hops[n].device = GetDevice(cells[n])
           S == {n \in 0 .. k : Agrees(n)}
<1>5. 0 \in S
  BY <1>1, <1>2, <1>3
<1>6. ASSUME NEW n \in 1 .. k, n - 1 \in S
      PROVE  n \in S
  <2> DEFINE h == hops[n - 1]
             c == cells[n - 1]
             d == GetDevice(c)
  <2>1. n \in 0 .. k /\ n - 1 \in 0 .. k
    BY <1>1
  <2>2. hops[n] = Forward(h) /\ cells[n] = NextCell(c) /\ h \in Inside /\ c \in Address
    BY <1>2, <1>3, <2>1
  <2>3. h.device # NoDevice => h.addr = c /\ h.device = d
    BY <1>6
  <2> HIDE DEF h, c, k
  <2>4. SUFFICES ASSUME Forward(h).device # NoDevice
                 PROVE  /\ Forward(h).addr = NextCell(c)
                        /\ Forward(h).device = GetDevice(NextCell(c))
    BY <2>1, <2>2
  <2>5. NoDevice \notin Mirrors
    BY DEF NoDevice, Mirrors
  <2>6. h.device # NoDevice
    BY <2>4, <2>5 DEF Forward
  <2>7. h.addr = c /\ h.device = d
    BY <2>3, <2>6
  <2>8. CASE d \notin Mirrors
    <3>1. Forward(h) = h
      BY <2>7, <2>8 DEF Forward
    <3>2. NextCell(c) = c
      BY <2>2, <2>8, NextCellIsForward
    <3>3. QED
      BY <2>7, <3>1, <3>2
  <2>9. CASE d \in Mirrors
    <3> DEFINE real == theRealMemDev[d]
    <3> HIDE DEF d
    <3>1. IsAbsAddressValid(d, c)
      <4>1. d \in Device /\ Claims(d, c)
        <5>1. Mirrors \subseteq Device
          BY <1>1, RangeOfSeq DEF Mirrors, Devices
        <5>2. QED
          BY <2>2, <2>6, <2>7, <2>9, <5>1 DEF Inside
      <4>2. c \in Int /\ d.theAddress \in Int /\ d.theSize \in Int
        BY <2>2, <4>1, DeviceNumbers DEF Address
      <4>3. QED
        BY <4>1, <4>2 DEF Claims, IsAbsAddressValid
    <3>2. Forward(h) = [device |-> real, addr |-> MirrorAddress(d, real, c)]
      BY <2>7, <2>9, <3>1 DEF Forward
    <3>3. NextCell(c) = MirrorAddress(d, real, c) /\ GetDevice(NextCell(c)) = real
      BY <2>2, <2>9, NextCellIsForward DEF d
    <3>4. QED
      BY <3>2, <3>3
  <2>10. QED
    BY <2>8, <2>9
<1>7. \A n \in 0 .. k : n \in S
  <2> HIDE DEF S, k
  <2>1. QED
    BY <1>1, <1>5, <1>6, BoundedInduction
<1>8. k \in 0 .. k
  BY <1>1
<1>9. t \in Inside /\ Agrees(k)
  BY <1>2, <1>4, <1>7, <1>8
<1>10. QED
  BY <1>4, <1>9

\* The recursion of the hops has one solution.
LEMMA HopsAreUnique ==
  ASSUME NEW devices \in Seq(Device), NEW mirrored, NEW addr,
         NEW f, f = NextHops(devices, mirrored, addr, f)
  PROVE  \A n \in 0 .. Len(devices) : HopsIn(devices, mirrored, addr)[n] = f[n]
<1> DEFINE k == Len(devices)
           g == HopsIn(devices, mirrored, addr)
           base == [device |-> GetDeviceOf(devices, addr), addr |-> addr]
<1>1. k \in Nat
  OBVIOUS
<1>2. g = NextHops(devices, mirrored, addr, g)
  BY Zenon DEF HopsIn
<1> HIDE DEF g
<1>3. ASSUME NEW e, e = NextHops(devices, mirrored, addr, e)
      PROVE  e[0] = base /\ \A n \in 1 .. k : e[n] = ForwardIn(devices, mirrored, e[n - 1])
  <2>1. \A n \in 0 .. k : NextHops(devices, mirrored, addr, e)[n] =
          IF n = 0 THEN base ELSE ForwardIn(devices, mirrored, e[n - 1])
    BY DEF NextHops
  <2>2. \A n \in 0 .. k : e[n] = IF n = 0 THEN base ELSE ForwardIn(devices, mirrored, e[n - 1])
    BY <1>3, <2>1, Zenon
  <2> HIDE DEF base, k
  <2>3. QED
    BY <1>1, <2>2
<1>4. /\ g[0] = base /\ \A n \in 1 .. k : g[n] = ForwardIn(devices, mirrored, g[n - 1])
      /\ f[0] = base /\ \A n \in 1 .. k : f[n] = ForwardIn(devices, mirrored, f[n - 1])
  <2> HIDE DEF base, k
  <2>1. QED
    BY <1>2, <1>3
<1> DEFINE S == {n \in 0 .. k : g[n] = f[n]}
<1> HIDE DEF base
<1>5. 0 \in S
  BY <1>1, <1>4
<1>6. ASSUME NEW n \in 1 .. k, n - 1 \in S PROVE n \in S
  BY <1>1, <1>4, <1>6
<1>7. \A n \in 0 .. k : n \in S
  <2> HIDE DEF S, k
  <2>1. QED
    BY <1>1, <1>5, <1>6, BoundedInduction
<1>8. QED
  BY <1>7 DEF g

\* A list that does not change forwards as before.
LEMMA SameTargets ==
  ASSUME UNCHANGED <<theDevices, theRealMemDev>>
  PROVE  \A b : Target(b)' = Target(b)
BY TargetIsLastHop

\* The late insertion takes no address from any device.
LEMMA InsertionKeepsTargets ==
  ASSUME PInv, IInv', Provenance', Started, AllFit, AddNewDevice(InputDevice),
         UNCHANGED theRealMemDev, NEW b \in Readable
  PROVE  Target(b)' = Target(b)
<1> DEFINE new == theDevices'
           k == Len(theDevices)
           f == HopsIn(theDevices, theRealMemDev, b)
<1>1. /\ theDevices \in Seq(Device) /\ refused \subseteq Device /\ OrderedList(theDevices)
      /\ k \in Nat /\ InputDevice \in Device /\ InputDevice.type = "Easy6502JsInputDevice"
      /\ \A d \in Devices : Fits(d)
  BY OrderedDisjointIsOrderedList, DevicesFit DEF PInv, IInv, TypeOK
<1>2. /\ new \in Seq(Device) /\ OrderedList(new)
      /\ Devices \subseteq Devices' /\ Devices' \subseteq Devices \union {InputDevice}
  BY <1>1, AddNewDeviceProperties
<1>3. b \in Address /\ HoldsData(Target(b).device)
  BY DEF Readable
<1>4. Target(b).device # NoDevice /\ Target(b).device \notin Mirrors
  <2>1. ~ HoldsData(NoDevice) /\ \A d \in Mirrors : ~ HoldsData(d)
    BY DEF HoldsData, NoDevice, Mirrors
  <2>2. QED
    BY <1>3, <2>1
<1>5. GetDevice(b) # NoDevice
  <2> SUFFICES ASSUME GetDevice(b) = NoDevice PROVE FALSE
    OBVIOUS
  <2> DEFINE S == {n \in 0 .. k : f[n].device = NoDevice}
  <2>1. /\ f[0] = [device |-> GetDevice(b), addr |-> b]
        /\ \A n \in 1 .. k : f[n] = Forward(f[n - 1])
    BY <1>3, HopsRecursion
  <2> HIDE DEF f
  <2>2. 0 \in S
    BY <1>1, <2>1
  <2>3. ASSUME NEW n \in 1 .. k, n - 1 \in S
        PROVE  n \in S
    <3>1. NoDevice \notin Mirrors
      BY DEF NoDevice, Mirrors
    <3>2. f[n] = Forward(f[n - 1]) /\ f[n - 1].device = NoDevice /\ n \in 0 .. k
      BY <2>1, <2>3
    <3>3. QED
      BY <3>1, <3>2 DEF Forward
  <2>4. \A n \in 0 .. k : n \in S
    <3> HIDE DEF S, k
    <3>1. QED
      BY <1>1, <2>2, <2>3, BoundedInduction
  <2>5. k \in 0 .. k /\ Target(b) = f[k]
    BY <1>1, TargetIsLastHop DEF f
  <2>6. QED
    BY <1>4, <2>4, <2>5
<1>6. GetDeviceOf(new, b) = GetDevice(b)
  <2> DEFINE d == GetDevice(b)
  <2>1. d \in Devices /\ Claims(d, b)
    BY <1>1, <1>5, FoundClaims
  <2> HIDE DEF d
  <2>2. d \in Range(new)
    BY <1>2, <2>1 DEF Devices
  <2>3. \A i \in DOMAIN new : new[i] \in Devices'
    BY DEF Devices, Range
  <2>4. \A e \in Devices' : Fits(e)
    BY <1>1, <1>2 DEF AllFit
  <2>5. \A i \in DOMAIN new : Fits(new[i])
    BY <2>3, <2>4
  <2> HIDE DEF new
  <2>6. GetDeviceOf(new, b) = d
    BY <1>2, <1>3, <2>1, <2>2, <2>5, OwnerIsFound
  <2>7. QED
    BY <2>6 DEF d
<1>7. MirrorsIn(new) = MirrorsIn(theDevices)
  BY <1>1, <1>2 DEF MirrorsIn, Devices
<1>8. /\ f[0] = [device |-> GetDevice(b), addr |-> b]
      /\ \A n \in 1 .. k : f[n] = ForwardIn(theDevices, theRealMemDev, f[n - 1])
  BY <1>3, HopsRecursion, ForwardIsForwardIn
<1>9. Target(b) = f[k] /\ Target(b)' = HopsIn(new, theRealMemDev, b)[Len(new)]
  BY TargetIsLastHop
<1>10. \A v : ForwardIn(new, theRealMemDev, v) = ForwardIn(theDevices, theRealMemDev, v)
  BY <1>7 DEF ForwardIn
<1>11. ForwardIn(theDevices, theRealMemDev, f[k]) = f[k]
  BY <1>4, <1>9, ForwardIsForwardIn DEF ForwardIn
<1> HIDE DEF f
<1>12. CASE UNCHANGED theDevices
  BY <1>12, SameTargets
<1>13. CASE theDevices' = InsertAt(theDevices, InsertPosition(theDevices, InputDevice), InputDevice)
  <2> DEFINE p == InsertPosition(theDevices, InputDevice)
             grown == InsertAt(theDevices, p, InputDevice)
             extended == [n \in 0 .. k + 1 |-> IF n <= k THEN f[n] ELSE f[k]]
  <2>1. Len(new) = k + 1
    <3>1. p \in 1 .. Len(theDevices) + 1
      BY <1>1, InsertPositionProperties
    <3>2. InputDevice \in Device /\ theDevices \in Seq(Device)
      BY <1>1
    <3> HIDE DEF p
    <3>3. Len(InsertAt(theDevices, p, InputDevice)) = Len(theDevices) + 1
      BY <3>1, <3>2, InsertAtProperties
    <3>4. QED
      BY <1>13, <3>3 DEF p
  <2> HIDE DEF new
  <2> DEFINE R(n) == IF n = 0 THEN [device |-> GetDeviceOf(new, b), addr |-> b]
                     ELSE ForwardIn(new, theRealMemDev, extended[n - 1])
  <2>2. ASSUME NEW n \in 0 .. k + 1
        PROVE  extended[n] = R(n)
    <3>1. CASE n = 0
      <4>1. extended[0] = f[0]
        BY <1>1
      <4>2. QED
        BY <1>6, <1>8, <3>1, <4>1
    <3>2. CASE n \in 1 .. k
      <4>1. n - 1 \in 0 .. k + 1 /\ n - 1 <= k /\ n <= k /\ n # 0
        BY <1>1, <3>2
      <4>2. extended[n] = f[n] /\ extended[n - 1] = f[n - 1]
        BY <4>1
      <4> HIDE DEF extended
      <4>3. QED
        BY <1>8, <1>10, <3>2, <4>1, <4>2
    <3>3. CASE n = k + 1
      <4>1. n - 1 = k /\ k \in 0 .. k + 1 /\ ~ (n <= k) /\ n # 0
        BY <1>1, <3>3
      <4>2. extended[n] = f[k] /\ extended[n - 1] = f[k]
        BY <4>1
      <4> HIDE DEF extended
      <4>3. QED
        BY <1>10, <1>11, <4>1, <4>2
    <3>4. QED
      BY <1>1, <3>1, <3>2, <3>3
  <2>3. extended = [n \in 0 .. k + 1 |-> R(n)]
    <3>1. extended = [n \in 0 .. k + 1 |-> extended[n]]
      OBVIOUS
    <3> HIDE DEF extended, R
    <3>2. QED
      BY <2>2, <3>1
  <2>4. extended = NextHops(new, theRealMemDev, b, extended)
    <3> HIDE DEF extended
    <3>1. QED
      BY <2>1, <2>3, Zenon DEF NextHops
  <2>5. extended[k + 1] = f[k]
    BY <1>1
  <2> HIDE DEF extended
  <2>6. HopsIn(new, theRealMemDev, b)[k + 1] = extended[k + 1]
    <3>1. k + 1 \in 0 .. Len(new)
      BY <1>1, <2>1
    <3>2. QED
      BY <1>2, <2>4, <3>1, HopsAreUnique
  <2>7. QED
    BY <1>9, <2>1, <2>5, <2>6 DEF new
<1>14. QED
  BY <1>12, <1>13 DEF AddNewDevice

\* Every RAM, ROM and display of the list has its bytes.
DataInv == phase # "configure" => DOMAIN theData = {d \in Devices : HoldsData(d)}
WInv == PInv /\ DataInv

LEMMA NextDataInv == WInv /\ [Next]_vars => WInv'
<1> SUFFICES ASSUME WInv, [Next]_vars PROVE WInv'
  OBVIOUS
<1>1. PInv'
  BY NextProvenance DEF WInv
<1> SUFFICES DataInv'
  BY <1>1 DEF WInv
<1>2. ASSUME UNCHANGED theDevices, DOMAIN theData' = DOMAIN theData,
             phase' # "configure" => phase # "configure"
      PROVE  DataInv'
  BY <1>2 DEF WInv, DataInv, Devices
<1>3. CASE ProcessSingleDevice
  BY <1>3 DEF ProcessSingleDevice, DataInv
<1>4. CASE ResetAll
  <2>1. Devices' = Devices
    BY <1>4 DEF ResetAll, Devices
  <2>2. DOMAIN theData' = {d \in Devices : HoldsData(d)}
    BY <1>4 DEF ResetAll
  <2>3. QED
    BY <2>1, <2>2 DEF DataInv
<1>5. CASE StartDisplay
  <2>1. /\ theDevices \in Seq(Device) /\ refused \subseteq Device /\ OrderedList(theDevices)
        /\ InputDevice \in Device /\ InputDevice.type = "Easy6502JsInputDevice"
        /\ phase = "starting" /\ theData' = theData /\ AddNewDevice(InputDevice)
    BY <1>5, OrderedDisjointIsOrderedList DEF WInv, PInv, IInv, TypeOK, StartDisplay
  <2>2. Devices \subseteq Devices' /\ Devices' \subseteq Devices \union {InputDevice}
    BY <2>1, AddNewDeviceProperties
  <2>3. {d \in Devices' : HoldsData(d)} = {d \in Devices : HoldsData(d)}
    BY <2>1, <2>2 DEF HoldsData
  <2>4. DOMAIN theData = {d \in Devices : HoldsData(d)}
    BY <2>1 DEF WInv, DataInv
  <2>5. QED
    BY <2>1, <2>3, <2>4 DEF DataInv
<1>6. CASE StartWithoutDisplay
  BY <1>2, <1>6 DEF StartWithoutDisplay
<1>7. CASE \E addr \in Address :
              AccessNothing(addr) \/ AccessOutside(addr) \/ AccessPastEnd(addr) \/ AccessEndlessMirror(addr)
  BY <1>2, <1>7
     DEF AccessNothing, AccessOutside, AccessPastEnd, AccessEndlessMirror, Started
<1>8. ASSUME NEW addr \in Address, NEW val \in Values, EmulatorWrite(addr, val)
      PROVE  DataInv'
  <2> DEFINE t == Target(addr)
  <2>1. theData' = [theData EXCEPT ![t.device][t.addr - t.device.theAddress] = val]
    BY <1>8 DEF EmulatorWrite
  <2> HIDE DEF t
  <2>2. DOMAIN theData' = DOMAIN theData
    BY <2>1
  <2>3. QED
    BY <1>2, <1>8, <2>2 DEF EmulatorWrite
<1>9. CASE UNCHANGED vars
  BY <1>2, <1>9 DEF vars
<1>10. QED
  BY <1>3, <1>4, <1>5, <1>6, <1>7, <1>8, <1>9 DEF Next

\* A step of the running program that writes nothing.
LEMMA OtherStepsKeepMemory ==
  ASSUME WInv, WInv', AllFit, Next, Started, writes' = writes, NEW b \in Readable
  PROVE  Read8(b)' = Read8(b)
<1>1. theData' = theData
  <2>1. ~ ProcessSingleDevice /\ ~ ResetAll
    BY DEF ProcessSingleDevice, ResetAll, Started
  <2>2. ~ \E addr \in Address, val \in Values : EmulatorWrite(addr, val)
    <3>1. writes \in Int
      BY DEF WInv, PInv, IInv, TypeOK
    <3>2. \A addr \in Address, val \in Values : EmulatorWrite(addr, val) => writes' = writes + 1
      BY DEF EmulatorWrite
    <3>3. QED
      BY <3>1, <3>2
  <2>3. QED
    BY <2>1, <2>2
       DEF Next, StartDisplay, StartWithoutDisplay, AccessNothing, AccessOutside,
           AccessPastEnd, AccessEndlessMirror
<1>2. Target(b)' = Target(b)
  <2>1. CASE StartDisplay
    <3>1. AddNewDevice(InputDevice) /\ UNCHANGED theRealMemDev
      BY <2>1 DEF StartDisplay
    <3>2. QED
      BY <3>1, InsertionKeepsTargets DEF WInv, PInv
  <2>2. CASE ~ StartDisplay
    <3>1. UNCHANGED <<theDevices, theRealMemDev>>
      <4>1. ~ ProcessSingleDevice /\ ~ ResetAll
        BY DEF ProcessSingleDevice, ResetAll, Started
      <4>2. QED
        BY <2>2, <4>1
           DEF Next, StartWithoutDisplay, AccessNothing, AccessOutside, AccessPastEnd,
               AccessEndlessMirror, EmulatorWrite
    <3>2. QED
      BY <3>1, SameTargets
  <2>3. QED
    BY <2>1, <2>2
<1>3. QED
  BY <1>1, <1>2 DEF Read8, HoldsData

\* A write, at the addresses of its cell and at all others.
LEMMA WriteReachesCell ==
  ASSUME WInv, AllFit, RegularMirrors, NEW addr \in Address, NEW val \in Values,
         EmulatorWrite(addr, val), NEW b \in Readable
  PROVE  Read8(b)' = IF CellOf(addr) = CellOf(b) THEN val ELSE Read8(b)
<1> DEFINE t == Target(addr)
           u == Target(b)
           i == t.addr - t.device.theAddress
           j == u.addr - u.device.theAddress
<1>1. /\ Started /\ HoldsData(t.device) /\ HoldsData(u.device) /\ b \in Address
      /\ theData' = [theData EXCEPT ![t.device][i] = val]
      /\ UNCHANGED <<theDevices, theRealMemDev>>
  BY DEF EmulatorWrite, Readable
<1>2. Target(b)' = u
  BY <1>1, SameTargets
<1>3. Read8(b) = theData[u.device][j] /\ Read8(b)' = theData'[u.device][j]
  BY <1>1, <1>2 DEF Read8, HoldsData
<1>4. t.device # NoDevice /\ u.device # NoDevice
  <2>1. ~ HoldsData(NoDevice)
    BY DEF HoldsData, NoDevice
  <2>2. QED
    BY <1>1, <2>1
<1>5. /\ t \in Inside /\ t.addr = CellOf(addr) /\ t.device = GetDevice(CellOf(addr))
      /\ u \in Inside /\ u.addr = CellOf(b) /\ u.device = GetDevice(CellOf(b))
  BY <1>1, <1>4, TargetIsCell DEF WInv
<1>6. /\ DOMAIN theData = {d \in Devices : HoldsData(d)} /\ Devices \subseteq Device
      /\ \A d \in DOMAIN theData : theData[d] \in [0 .. d.theSize - 1 -> Values]
  BY <1>1, RangeOfSeq DEF WInv, PInv, IInv, TypeOK, DataInv, Started, Devices
<1>7. /\ t.device \in Devices /\ t.addr \in Address /\ Claims(t.device, t.addr)
      /\ u.device \in Devices /\ u.addr \in Address /\ Claims(u.device, u.addr)
  <2> HIDE DEF t, u
  <2>1. QED
    BY <1>4, <1>5 DEF Inside
<1> HIDE DEF t, u
<1>8. /\ t.device \in DOMAIN theData /\ i \in 0 .. t.device.theSize - 1
      /\ u.device \in DOMAIN theData /\ j \in 0 .. u.device.theSize - 1
      /\ u.addr \in Int /\ t.addr \in Int /\ t.device.theAddress \in Int
  <2>1. /\ t.device \in Device /\ u.device \in Device
        /\ t.device \in DOMAIN theData /\ u.device \in DOMAIN theData
    BY <1>1, <1>6, <1>7
  <2>2. /\ t.device.theAddress \in Nat /\ t.device.theSize \in Nat
        /\ u.device.theAddress \in Nat /\ u.device.theSize \in Nat
    BY <2>1, DeviceNumbers
  <2>3. t.addr \in Nat /\ u.addr \in Nat
    BY <1>7 DEF Address
  <2>4. i \in 0 .. t.device.theSize - 1
    BY <1>7, <2>2, <2>3 DEF Claims
  <2>5. j \in 0 .. u.device.theSize - 1
    BY <1>7, <2>2, <2>3 DEF Claims
  <2>6. QED
    BY <2>1, <2>2, <2>3, <2>4, <2>5
<1> DEFINE d == t.device
           e == u.device
<1>9. theData[d] \in [0 .. d.theSize - 1 -> Values] /\ theData' = [theData EXCEPT ![d][i] = val]
  BY <1>1, <1>6, <1>8
<1>10. CASE CellOf(addr) = CellOf(b)
  <2>1. e = d /\ j = i
    BY <1>5, <1>10
  <2> HIDE DEF i, j, d, e
  <2>2. theData'[d][i] = val
    BY <1>8, <1>9 DEF d
  <2>3. QED
    BY <1>3, <1>10, <2>1, <2>2 DEF e
<1>11. CASE CellOf(addr) # CellOf(b)
  <2>1. u.addr # t.addr
    BY <1>5, <1>11
  <2>2. CASE e # d
    <3> HIDE DEF i, j, d
    <3>1. theData'[e] = theData[e]
      BY <1>8, <1>9, <2>2
    <3>2. QED
      BY <1>3, <1>11, <3>1
  <2>3. CASE e = d
    <3>1. j # i
      BY <1>8, <2>1, <2>3
    <3> HIDE DEF i, j, d, e
    <3>2. theData'[d][j] = theData[d][j]
      BY <1>8, <1>9, <2>3, <3>1 DEF d, e
    <3>3. QED
      BY <1>3, <1>11, <2>3, <3>2 DEF e
  <2>4. QED
    BY <2>2, <2>3
<1>12. QED
  BY <1>10, <1>11

\* Whatever the devices of a configuration, as long as all of them fit, no other step than a
\* write, the late insertion included, changes what memory reads, and with regular mirrors
\* every write is read at the addresses of its byte and nowhere else.
THEOREM WritesReachTheirCellCorrect ==
  ASSUME AllFit
  PROVE  Spec => WritesReachTheirCell
<1> DEFINE A == /\ Started /\ writes' = writes => \A b \in Readable : Read8(b)' = Read8(b)
                /\ \A addr \in Address, val \in Values :
                     EmulatorWrite(addr, val) /\ RegularMirrors =>
                       \A b \in Readable :
                         Read8(b)' = IF CellOf(addr) = CellOf(b) THEN val ELSE Read8(b)
<1>1. Init => WInv
  BY InitProvenance DEF WInv, DataInv, Init
<1>2. WInv /\ WInv' /\ [Next]_vars => [A]_vars
  <2> SUFFICES ASSUME WInv, WInv', Next PROVE A
    OBVIOUS
  <2>1. Started /\ writes' = writes => \A b \in Readable : Read8(b)' = Read8(b)
    BY OtherStepsKeepMemory
  <2>2. \A addr \in Address, val \in Values :
          EmulatorWrite(addr, val) /\ RegularMirrors =>
            \A b \in Readable :
              Read8(b)' = IF CellOf(addr) = CellOf(b) THEN val ELSE Read8(b)
    BY WriteReachesCell
  <2>3. QED
    BY <2>1, <2>2
<1>3. QED
  BY <1>1, <1>2, NextDataInv, PTL DEF Spec, WritesReachTheirCell
=============================================================================
