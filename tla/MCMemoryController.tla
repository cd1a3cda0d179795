------------------------ MODULE MCMemoryController ------------------------
(***************************************************************************)
(* MemoryController on 16 addresses.  The devices of a configuration come  *)
(* from a pool with RAM in places that collide with other devices, a       *)
(* ROM, the display, mirrors that start on and off a multiple of what they *)
(* mirror, mirrors of a mirror, of the middle of a device and of the       *)
(* address of the input device, and a device that passes the last address. *)
(***************************************************************************)
EXTENDS MemoryController
LOCAL INSTANCE Bitwise

NoImage == <<>>  \* the function with an empty domain
Dev(name, type, address, size, source, image) ==
  [theName |-> name, type |-> type, theAddress |-> address, theSize |-> size,
   source |-> source, image |-> image]

MCValues == {0, 1}
Ram(name, address, size) == Dev(name, "RAM", address, size, 0, NoImage)
Rom(name, address, image) == Dev(name, "ROM", address, Len(image), 0, [i \in 0 .. Len(image) - 1 |-> image[i + 1]])
Mirror(name, address, size, source) == Dev(name, "MirrorMemory", address, size, source, NoImage)

Pool ==
  {Ram("low", 0, 4), Ram("middle", 4, 4), Ram("passes the end", 7, 10),
   Rom("rom", 12, <<1, 0, 0, 1>>), Rom("inside display", 10, <<1>>),
   Mirror("of low", 5, 4, 0), Mirror("of mirror", 9, 7, 5), Mirror("of display", 12, 4, 8),
   Mirror("of itself", 4, 4, 4), Mirror("of the middle of low", 8, 4, 1), Mirror("of input", 3, 1, 7),
   Dev("display", "Easy6502JsDisplay", 8, 4, 0, NoImage)}

\* MemoryFactory builds one type after the other; within a type any order is possible.
FactoryOrder == [RAM |-> 1, ROM |-> 2, MirrorMemory |-> 3, Easy6502JsDisplay |-> 4]
InFactoryOrder(c) ==
  \A i, j \in DOMAIN c : i < j => /\ c[i] # c[j]
                                 /\ FactoryOrder[c[i].type] <= FactoryOrder[c[j].type]
Singles == {<<d>> : d \in Pool}
Longer(configurations) ==
  {c \in {Append(s, d) : s \in configurations, d \in Pool} : InFactoryOrder(c)}
MCConfigurations == Longer(Singles) \union Longer(Longer(Singles))

MCInputDevice == Dev("input", "Easy6502JsInputDevice", 7, 1, 0, NoImage)

\* The mask of a mirror is a bitwise and, and a wrapped sum is the sum modulo 2^16.
ASSUME ArithmeticAssumption ==
  /\ \A x, y \in Address : BitAnd[x][y] = (x & y)
  /\ \A n \in -1 .. 2 * AddressLimit - 2 : Wrapped(n) = n % AddressLimit
=============================================================================
