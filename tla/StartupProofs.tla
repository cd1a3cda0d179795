--------------------------- MODULE StartupProofs ---------------------------
(***************************************************************************)
(* Proofs about Startup, for every list of arguments, every disk, every    *)
(* block size and address width: the types; that the options the user      *)
(* wrote are the ones that are read; that the program starts where they    *)
(* say; and that it starts only on a whole map.                            *)
(***************************************************************************)
EXTENDS Startup, SequenceTheorems, SharedLemmas, TLAPS

-----------------------------------------------------------------------------
(* Numbers.                                                                *)

LEMMA Sizes ==
  /\ AddressLimit \in Nat /\ AddressLimit > 0
  /\ PRG_RAM_ADDR \in Nat /\ PRG_RAM_ADDR > 0 /\ PRG_RAM_ADDR < AddressLimit
<1>1. AddressLimit \in Nat /\ PRG_RAM_ADDR \in Address \ {0}
  BY StartupAssumption
<1>2. QED
  BY <1>1 DEF Address

\* The smaller of two numbers.
LEMMA MinOfTwo ==
  ASSUME NEW m \in Int, NEW n \in Int
  PROVE  Min({m, n}) = IF m <= n THEN m ELSE n
BY DEF Min

\* What text gives as a number.
LEMMA NumbersAreIntegers ==
  /\ \A value : ParseUInt32(value) \in Int
  /\ \A type, name, member : GetIntegerConfigValueOf(theConfigData, type, name, member) \in Int
  /\ \A type, member : GetIntegerConfigValue(theConfigData, type, member) \in Int
<1>1. \A value : ParseUInt32(value) \in Int
  <2>1. \A word \in DOMAIN Strtoul : Strtoul[word] \in Int
    BY StartupAssumption DEF OutOfRange
  <2>2. QED
    BY <2>1 DEF ParseUInt32
<1>2. QED
  <2>1. \A value, type, name, member : GetIntegerConfigValueOf(value, type, name, member) \in Int
    BY <1>1 DEF GetIntegerConfigValueOf
  <2>2. \A value, type, member : GetIntegerConfigValue(value, type, member) \in Int
    BY <1>1 DEF GetIntegerConfigValue
  <2>3. QED
    BY <1>1, <2>1, <2>2

LEMMA SixteenBits ==
  ASSUME NEW n \in Int
  PROVE  n % AddressLimit \in Address
BY Sizes DEF Address

-----------------------------------------------------------------------------
(* Parsing.                                                                *)

Text == Seq(STRING)
Entry == [theType : Text, theName : Text, theMember : Text, theValue : Text]

\* find returns the first position of a piece, if there is one.
LEMMA FindIsFirst ==
  ASSUME NEW arg \in Text, NEW piece, NEW from \in Nat
  PROVE  LET found == Find(arg, piece, from) IN
         \/ found = 0 /\ \A k \in from .. Len(arg) : arg[k] # piece
         \/ /\ found \in from .. Len(arg) /\ arg[found] = piece
            /\ \A k \in from .. found - 1 : arg[k] # piece
<1> DEFINE S == {k \in from .. Len(arg) : arg[k] = piece}
<1>1. Len(arg) \in Nat
  BY LenProperties DEF Text
<1>2. CASE S = {}
  BY <1>2 DEF Find
<1>3. CASE S # {}
  <2>1. S \in SUBSET Nat
    BY <1>1
  <2>2. PICK q \in S : \A r \in S : q <= r
    <3> HIDE DEF S
    <3>1. QED
      BY <1>3, <2>1, LeastNatural
  <2>3. Min(S) \in S /\ \A r \in S : Min(S) <= r
    <3> HIDE DEF S
    <3>1. QED
      BY <2>2 DEF Min
  <2> DEFINE found == Min(S)
  <2>4. found \in from .. Len(arg) /\ arg[found] = piece
    BY <2>3
  <2>5. \A k \in from .. found - 1 : arg[k] # piece
    <3> SUFFICES ASSUME NEW k \in from .. found - 1, arg[k] = piece PROVE FALSE
      OBVIOUS
    <3>1. found \in Int /\ Len(arg) \in Int /\ found <= Len(arg)
      BY <1>1, <2>4
    <3>2. k \in S /\ k < found
      BY <3>1
    <3>3. QED
      BY <2>3, <3>1, <3>2
  <2>6. Find(arg, piece, from) = found
    BY <1>3 DEF Find
  <2>7. QED
    BY <2>4, <2>5, <2>6
<1>4. QED
  BY <1>2, <1>3

\* A part of a text that lies inside it.
LEMMA PartOfText ==
  ASSUME NEW arg \in Text, NEW from \in 1 .. Len(arg) + 1, NEW length \in Int,
         from + length - 1 <= Len(arg)
  PROVE  LET count == IF length < 0 THEN Len(arg) - from + 1 ELSE length IN
         /\ SubStr(arg, from, length) \in Text
         /\ Len(SubStr(arg, from, length)) = count
         /\ SubStr(arg, from, length) = SubSeq(arg, from, from + count - 1)
         /\ count > 0 => SubStr(arg, from, length)[1] = arg[from]
<1> DEFINE count == IF length < 0 THEN Len(arg) - from + 1 ELSE length
           last == from + count - 1
<1>1. Len(arg) \in Nat /\ from \in Nat /\ from > 0 /\ from <= Len(arg) + 1
  BY LenProperties DEF Text
<1>2. count \in Nat /\ last \in from - 1 .. Len(arg) /\ last - from + 1 = count
  BY <1>1
<1>3. SubStr(arg, from, length) = SubSeq(arg, from, last)
  <2>1. last = IF length < 0 THEN Len(arg) ELSE from + length - 1
    BY <1>1
  <2>2. QED
    BY <2>1 DEF SubStr
<1> HIDE DEF count, last
<1>4. /\ SubSeq(arg, from, last) \in Seq(STRING)
      /\ Len(SubSeq(arg, from, last)) = last - from + 1
      /\ \A k \in 1 .. last - from + 1 : SubSeq(arg, from, last)[k] = arg[from + k - 1]
  BY <1>2, SubSeqProperties DEF Text
<1>5. count > 0 => SubSeq(arg, from, last)[1] = arg[from]
  BY <1>1, <1>2, <1>4
<1>6. QED
  BY <1>2, <1>3, <1>4, <1>5 DEF Text, count, last

\* What an argument is taken for: an option of the user if it has the form of one, ...
LEMMA OptionIsParsed ==
  ASSUME NEW configData, NEW arg \in Text, IsOption(arg)
  PROVE  /\ ProcessSingleArg(configData, arg) = Append(configData, Option(arg))
         /\ Option(arg) \in Entry /\ WellFormed(Option(arg))
<1> DEFINE firstPeriod == Find(arg, ".", 1)
           secondPeriod == Find(arg, ".", firstPeriod + 1)
           equals == Find(arg, "=", 1)
           length == Len(arg)
<1>1. length \in Nat /\ length >= 6
  BY LenProperties DEF IsOption, Text
<1>2. /\ arg[2] = "." /\ arg[4] = "." /\ arg[6] = "="
      /\ arg[1] # "." /\ arg[3] # "." /\ arg[1] # "=" /\ arg[3] # "=" /\ arg[5] # "="
      /\ arg[5] # "." /\ arg[2] # "=" /\ arg[4] # "="
  BY DEF IsOption
<1>3. firstPeriod = 2
  <2>1. \/ firstPeriod = 0 /\ \A k \in 1 .. length : arg[k] # "."
        \/ /\ firstPeriod \in 1 .. length /\ arg[firstPeriod] = "."
           /\ \A k \in 1 .. firstPeriod - 1 : arg[k] # "."
    BY FindIsFirst
  <2> HIDE DEF firstPeriod, length
  <2>2. QED
    BY <1>1, <1>2, <2>1
<1>4. secondPeriod = 4
  <2> HIDE DEF firstPeriod
  <2>1. \/ secondPeriod = 0 /\ \A k \in 3 .. length : arg[k] # "."
        \/ /\ secondPeriod \in 3 .. length /\ arg[secondPeriod] = "."
           /\ \A k \in 3 .. secondPeriod - 1 : arg[k] # "."
    BY <1>3, FindIsFirst
  <2> HIDE DEF secondPeriod, length
  <2>2. QED
    BY <1>1, <1>2, <2>1
<1>5. equals = 6
  <2>1. \/ equals = 0 /\ \A k \in 1 .. length : arg[k] # "="
        \/ /\ equals \in 1 .. length /\ arg[equals] = "="
           /\ \A k \in 1 .. equals - 1 : arg[k] # "="
    BY FindIsFirst
  <2> HIDE DEF equals, length
  <2>2. QED
    BY <1>1, <1>2, <2>1
<1>6. ProcessSingleArg(configData, arg) =
        Append(configData, [theType |-> SubStr(arg, 1, 1), theName |-> SubStr(arg, 3, 1),
                            theMember |-> SubStr(arg, 5, 1), theValue |-> SubStr(arg, 7, length - 6)])
  BY <1>3, <1>4, <1>5 DEF ProcessSingleArg
<1>7. \A p \in {1, 3, 5} : SubStr(arg, p, 1) = <<arg[p]>> /\ arg[p] \in STRING
  <2> SUFFICES ASSUME NEW p \in {1, 3, 5} PROVE SubStr(arg, p, 1) = <<arg[p]>> /\ arg[p] \in STRING
    OBVIOUS
  <2>1. p \in 1 .. length
    BY <1>1
  <2>2. arg[p] \in STRING
    BY <2>1, ElementOfSeq DEF Text
  <2>3. /\ SubStr(arg, p, 1) \in Text /\ Len(SubStr(arg, p, 1)) = 1
        /\ SubStr(arg, p, 1)[1] = arg[p]
    <3>1. p \in 1 .. Len(arg) + 1 /\ 1 \in Int /\ p + 1 - 1 <= Len(arg) /\ ~ (1 < 0) /\ 1 > 0
      BY <1>1
    <3>2. QED
      BY ONLY <3>1, arg \in Text, PartOfText
  <2>4. <<arg[p]>> \in Seq(STRING) /\ Len(<<arg[p]>>) = 1 /\ <<arg[p]>>[1] = arg[p]
    BY <2>2
  <2>5. QED
    BY <2>2, <2>3, <2>4, SeqEqual DEF Text
<1>8. /\ SubStr(arg, 7, length - 6) = SubSeq(arg, 7, length)
      /\ SubSeq(arg, 7, length) \in Text
  <2>1. /\ 7 \in 1 .. Len(arg) + 1 /\ Len(arg) - 6 \in Int /\ 7 + (Len(arg) - 6) - 1 <= Len(arg)
        /\ ~ (Len(arg) - 6 < 0) /\ 7 + (Len(arg) - 6) - 1 = Len(arg)
    BY <1>1
  <2>2. /\ SubStr(arg, 7, Len(arg) - 6) \in Text
        /\ SubStr(arg, 7, Len(arg) - 6) = SubSeq(arg, 7, 7 + (Len(arg) - 6) - 1)
    BY ONLY <2>1, arg \in Text, PartOfText
  <2>3. QED
    BY <2>1, <2>2
<1>9. ProcessSingleArg(configData, arg) = Append(configData, Option(arg))
  BY <1>6, <1>7, <1>8 DEF Option
<1>10. Option(arg) \in Entry
  BY <1>7, <1>8 DEF Option, Entry, Text
<1>11. WellFormed(Option(arg))
  BY <1>2 DEF Option, WellFormed, Single
<1>12. QED
  BY <1>9, <1>10, <1>11

\* ... and otherwise nothing, or something that no option of the user can be taken for.
LEMMA OtherIsParsed ==
  ASSUME NEW configData, NEW arg \in Text, ~ IsOption(arg)
  PROVE  \/ ProcessSingleArg(configData, arg) = configData
         \/ \E entry \in Entry : /\ ProcessSingleArg(configData, arg) = Append(configData, entry)
                                 /\ ~ WellFormed(entry)
<1> DEFINE firstPeriod == Find(arg, ".", 1)
           secondPeriod == Find(arg, ".", firstPeriod + 1)
           equals == Find(arg, "=", 1)
           length == Len(arg)
           entry == [theType |-> SubStr(arg, 1, firstPeriod - 1),
                     theName |-> SubStr(arg, firstPeriod + 1, secondPeriod - firstPeriod - 1),
                     theMember |-> SubStr(arg, secondPeriod + 1, equals - secondPeriod - 1),
                     theValue |-> SubStr(arg, equals + 1, length - equals)]
<1>1. CASE 0 \in {firstPeriod, secondPeriod, equals}
  BY <1>1 DEF ProcessSingleArg
<1>2. CASE 0 \notin {firstPeriod, secondPeriod, equals}
  <2>1. length \in Nat
    BY LenProperties DEF Text
  <2>2. firstPeriod \in 1 .. length /\ arg[firstPeriod] = "."
    BY <1>2, FindIsFirst
  <2>3. secondPeriod \in firstPeriod + 1 .. length /\ arg[secondPeriod] = "."
    <3> HIDE DEF firstPeriod
    <3>1. firstPeriod + 1 \in Nat
      BY <2>1, <2>2
    <3>2. QED
      BY <1>2, <3>1, FindIsFirst
  <2>4. equals \in 1 .. length /\ arg[equals] = "="
    BY <1>2, FindIsFirst
  <2>5. ProcessSingleArg(configData, arg) = Append(configData, entry)
    BY <1>2 DEF ProcessSingleArg
  <2> DEFINE type == SubStr(arg, 1, firstPeriod - 1)
             name == SubStr(arg, firstPeriod + 1, secondPeriod - firstPeriod - 1)
             member == SubStr(arg, secondPeriod + 1, equals - secondPeriod - 1)
             value == SubStr(arg, equals + 1, length - equals)
  <2> HIDE DEF firstPeriod, secondPeriod, equals
  <2>6. /\ type \in Text /\ Len(type) = firstPeriod - 1
        /\ firstPeriod - 1 > 0 => type[1] = arg[1]
    BY <2>1, <2>2, PartOfText
  <2>7. /\ name \in Text /\ Len(name) = secondPeriod - firstPeriod - 1
        /\ secondPeriod - firstPeriod - 1 > 0 => name[1] = arg[firstPeriod + 1]
    <3> DEFINE from == firstPeriod + 1
               count == secondPeriod - firstPeriod - 1
    <3>1. /\ from \in 1 .. Len(arg) + 1 /\ count \in Int /\ from + count - 1 <= Len(arg)
          /\ ~ (count < 0)
      BY <2>1, <2>2, <2>3
    <3> HIDE DEF from, count
    <3>2. /\ SubStr(arg, from, count) \in Text /\ Len(SubStr(arg, from, count)) = count
          /\ count > 0 => SubStr(arg, from, count)[1] = arg[from]
      BY ONLY <3>1, arg \in Text, PartOfText
    <3>3. QED
      BY ONLY <3>2 DEF from, count, name
  <2>8. /\ member \in Text
        /\ equals > secondPeriod => /\ Len(member) = equals - secondPeriod - 1
                                    /\ equals - secondPeriod - 1 > 0 => member[1] = arg[secondPeriod + 1]
    <3> DEFINE from == secondPeriod + 1
               count == equals - secondPeriod - 1
    <3>1. /\ from \in 1 .. Len(arg) + 1 /\ count \in Int /\ from + count - 1 <= Len(arg)
          /\ equals > secondPeriod => ~ (count < 0)
      BY <2>1, <2>2, <2>3, <2>4
    <3> HIDE DEF from, count
    <3>2. /\ SubStr(arg, from, count) \in Text
          /\ ~ (count < 0) => Len(SubStr(arg, from, count)) = count
          /\ ~ (count < 0) => (count > 0 => SubStr(arg, from, count)[1] = arg[from])
      BY ONLY <3>1, arg \in Text, PartOfText
    <3>3. /\ SubStr(arg, from, count) \in Text
          /\ equals > secondPeriod => /\ Len(SubStr(arg, from, count)) = count
                                      /\ count > 0 => SubStr(arg, from, count)[1] = arg[from]
      BY ONLY <3>1, <3>2
    <3>4. QED
      BY ONLY <3>3 DEF from, count, member
  <2>9. value \in Text
    BY <2>1, <2>4, PartOfText
  <2>10. entry \in Entry
    BY <2>6, <2>7, <2>8, <2>9 DEF Entry
  <2>11. ~ WellFormed(entry)
    <3> SUFFICES ASSUME Single(type), Single(name), Single(member) PROVE IsOption(arg)
      BY DEF WellFormed
    <3>1. /\ Len(type) = 1 /\ type[1] \notin {".", "="} /\ Len(name) = 1 /\ name[1] \notin {".", "="}
          /\ Len(member) = 1 /\ member[1] \notin {".", "="}
      BY DEF Single
    <3> HIDE DEF type, name, member
    <3>2. firstPeriod = 2 /\ arg[1] \notin {".", "="}
      <4>1. firstPeriod \in Int /\ firstPeriod - 1 = 1
        <5>1. firstPeriod \in Int
          BY ONLY <2>1, <2>2
        <5>2. QED
          BY ONLY <5>1, <2>6, <3>1
      <4>2. firstPeriod = 2
        BY ONLY <4>1
      <4>3. type[1] = arg[1]
        BY ONLY <2>6, <4>2
      <4>4. QED
        BY ONLY <3>1, <4>2, <4>3
    <3>3. secondPeriod = 4 /\ arg[3] \notin {".", "="}
      <4>1. secondPeriod \in Int /\ secondPeriod - firstPeriod - 1 = 1
        <5>1. secondPeriod \in Int
          BY ONLY <2>1, <2>2, <2>3
        <5>2. QED
          BY ONLY <5>1, <2>7, <3>1
      <4>2. secondPeriod = 4 /\ firstPeriod + 1 = 3
        BY ONLY <3>2, <4>1
      <4>3. name[1] = arg[3]
        BY ONLY <2>7, <3>2, <4>2
      <4>4. QED
        BY ONLY <3>1, <4>2, <4>3
    <3>4. equals > 4
      <4>1. equals \notin {1, 2, 3, 4}
        BY <2>2, <2>3, <2>4, <3>2, <3>3
      <4>2. QED
        BY <2>1, <2>4, <4>1
    <3>5. equals = 6 /\ arg[5] \notin {".", "="}
      BY <2>1, <2>4, <2>8, <3>1, <3>3, <3>4
    <3>6. QED
      BY <2>1, <2>2, <2>3, <2>4, <3>2, <3>3, <3>5 DEF IsOption
  <2>12. QED
    BY <2>5, <2>10, <2>11
<1>3. QED
  BY <1>1, <1>2

-----------------------------------------------------------------------------
(* Selections.                                                             *)

\* What is selected of the first elements of s, of one after the other.
Selects(selected, S, s, positions) ==
  /\ selected \in [0 .. Len(s) -> Seq(S)]
  /\ selected[0] = <<>>
  /\ \A n \in 1 .. Len(s) :
       selected[n] = IF n \in positions THEN Append(selected[n - 1], s[n]) ELSE selected[n - 1]

\* There is such a list of selections, and Selected is its last one.
LEMMA SelectedIs ==
  ASSUME NEW S, NEW s \in Seq(S), NEW positions
  PROVE  /\ Selected(s, positions) \in Seq(S)
         /\ \E selected : /\ Selects(selected, S, s, positions)
                          /\ Selected(s, positions) = selected[Len(s)]
<1> DEFINE V == Seq(S)
           k == Len(s)
           base == <<>>
           step == [x \in V \X (1 .. k) |-> IF x[2] \in positions THEN Append(x[1], s[x[2]]) ELSE x[1]]
           Rec(f) == [n \in 0 .. k |->
                        IF n = 0 THEN <<>>
                        ELSE IF n \in positions THEN Append(f[n - 1], s[n]) ELSE f[n - 1]]
<1>1. k \in Nat /\ \A n \in 1 .. k : s[n] \in S
  BY LenProperties, ElementOfSeq
<1>2. base \in V
  BY EmptySeq
<1>3. /\ step \in [V \X (1 .. k) -> V]
      /\ \A v \in V, n \in 1 .. k :
           step[<<v, n>>] = IF n \in positions THEN Append(v, s[n]) ELSE v
  <2>1. ASSUME NEW x \in V \X (1 .. k)
        PROVE  (IF x[2] \in positions THEN Append(x[1], s[x[2]]) ELSE x[1]) \in V
    BY <1>1, AppendProperties
  <2>2. QED
    BY <2>1
<1> HIDE DEF step, V, base, k
<1>4. PICK f \in [0 .. k -> V] : IsRecursion(f, k, base, step)
  BY <1>1, <1>2, <1>3, RecursionExists
<1>5. f = Rec(f)
  <2>1. ASSUME NEW n \in 1 .. k
        PROVE  f[n] = IF n \in positions THEN Append(f[n - 1], s[n]) ELSE f[n - 1]
    <3>1. f[n - 1] \in V
      BY <1>1, <1>4
    <3>2. f[n] = step[<<f[n - 1], n>>]
      BY <1>4 DEF IsRecursion
    <3>3. QED
      BY <1>3, <3>1, <3>2
  <2>2. f[0] = <<>>
    BY <1>4 DEF IsRecursion, base
  <2>3. \A n \in 0 .. k : f[n] = Rec(f)[n]
    BY <1>1, <2>1, <2>2
  <2>4. QED
    BY <1>4, <2>3
<1> DEFINE g == CHOOSE g : g = Rec(g)
<1> HIDE DEF Rec
<1>6. g = Rec(g)
  BY <1>5, Zenon
<1>7. Selected(s, positions) = g[k]
  BY Zenon DEF Selected, Rec, k
<1> HIDE DEF g
<1>8. /\ DOMAIN g = 0 .. k /\ g = [n \in DOMAIN g |-> g[n]] /\ g[0] = <<>>
      /\ \A n \in 1 .. k : g[n] = IF n \in positions THEN Append(g[n - 1], s[n]) ELSE g[n - 1]
  <2>1. /\ DOMAIN g = 0 .. k /\ g = [n \in 0 .. k |-> Rec(g)[n]]
        /\ \A n \in 0 .. k : g[n] =
             IF n = 0 THEN <<>>
             ELSE IF n \in positions THEN Append(g[n - 1], s[n]) ELSE g[n - 1]
    <3>1. /\ DOMAIN Rec(g) = 0 .. k /\ Rec(g) = [n \in 0 .. k |-> Rec(g)[n]]
          /\ \A n \in 0 .. k : Rec(g)[n] =
               IF n = 0 THEN <<>>
               ELSE IF n \in positions THEN Append(g[n - 1], s[n]) ELSE g[n - 1]
      BY DEF Rec
    <3>2. QED
      BY ONLY <1>6, <3>1
  <2>2. \A n \in 1 .. k : n \in 0 .. k /\ n # 0
    BY <1>1
  <2>3. 0 \in 0 .. k
    BY <1>1
  <2>4. QED
    BY <1>6, <2>1, <2>2, <2>3
<1>9. g \in [0 .. k -> V]
  <2> DEFINE R == {n \in 0 .. k : g[n] \in V}
  <2>1. 0 \in R
    BY <1>1, <1>2, <1>8 DEF base
  <2>2. ASSUME NEW n \in 1 .. k, n - 1 \in R
        PROVE  n \in R
    <3>1. g[n - 1] \in V /\ n \in 0 .. k
      BY <1>1, <2>2
    <3>2. (IF n \in positions THEN Append(g[n - 1], s[n]) ELSE g[n - 1]) \in V
      BY <1>1, <3>1, AppendProperties DEF V
    <3>3. QED
      BY <1>8, <3>1, <3>2
  <2>3. \A n \in 0 .. k : n \in R
    <3> HIDE DEF R
    <3>1. QED
      BY <1>1, <2>1, <2>2, BoundedInduction
  <2>4. QED
    BY <1>8, <2>3
<1>10. Selects(g, S, s, positions)
  BY <1>8, <1>9 DEF Selects, k, V
<1>11. g[k] \in V
  BY <1>1, <1>9
<1>12. QED
  BY <1>7, <1>10, <1>11 DEF k, V

\* One element more; only the positions inside s count.
LEMMA SelectedAppend ==
  ASSUME NEW S, NEW s \in Seq(S), NEW e \in S, NEW positions, NEW others,
         \A n \in 1 .. Len(s) : n \in positions <=> n \in others
  PROVE  Selected(Append(s, e), positions) =
           IF Len(s) + 1 \in positions THEN Append(Selected(s, others), e) ELSE Selected(s, others)
<1> DEFINE longer == Append(s, e)
<1>1. /\ longer \in Seq(S) /\ Len(s) \in Nat /\ Len(longer) = Len(s) + 1
      /\ longer[Len(s) + 1] = e /\ \A n \in 1 .. Len(s) : longer[n] = s[n]
  BY AppendProperties, LenProperties
<1> HIDE DEF longer
<1>2. PICK f : Selects(f, S, longer, positions) /\ Selected(longer, positions) = f[Len(longer)]
  BY <1>1, SelectedIs
<1>3. PICK g : Selects(g, S, s, others) /\ Selected(s, others) = g[Len(s)]
  BY SelectedIs
<1> DEFINE R == {n \in 0 .. Len(s) : f[n] = g[n]}
<1>4. 0 \in R
  BY <1>1, <1>2, <1>3 DEF Selects
<1>5. ASSUME NEW n \in 1 .. Len(s), n - 1 \in R
      PROVE  n \in R
  <2>1. n \in 1 .. Len(longer) /\ f[n - 1] = g[n - 1] /\ longer[n] = s[n] /\ n \in 0 .. Len(s)
    BY <1>1, <1>5
  <2>2. f[n] = IF n \in positions THEN Append(f[n - 1], longer[n]) ELSE f[n - 1]
    BY <1>2, <2>1 DEF Selects
  <2>3. g[n] = IF n \in others THEN Append(g[n - 1], s[n]) ELSE g[n - 1]
    BY <1>3 DEF Selects
  <2>4. QED
    BY <2>1, <2>2, <2>3
<1>6. f[Len(s)] = g[Len(s)]
  <2>1. \A n \in 0 .. Len(s) : n \in R
    <3> HIDE DEF R
    <3>1. QED
      BY <1>1, <1>4, <1>5, BoundedInduction
  <2>2. QED
    BY <1>1, <2>1
<1>7. f[Len(s) + 1] = IF Len(s) + 1 \in positions THEN Append(f[Len(s)], e) ELSE f[Len(s)]
  <2>1. /\ Len(s) + 1 \in 1 .. Len(longer) /\ (Len(s) + 1) - 1 = Len(s)
    BY <1>1
  <2>2. QED
    BY <1>1, <1>2, <2>1 DEF Selects
<1>8. QED
  BY <1>1, <1>2, <1>3, <1>6, <1>7 DEF longer

LEMMA SelectedOfEmpty ==
  ASSUME NEW positions
  PROVE  Selected(<<>>, positions) = <<>>
<1>1. <<>> \in Seq({}) /\ Len(<<>>) = 0
  BY EmptySeq
<1>2. PICK f : Selects(f, {}, <<>>, positions) /\ Selected(<<>>, positions) = f[0]
  BY <1>1, SelectedIs
<1>3. QED
  BY <1>2 DEF Selects

-----------------------------------------------------------------------------
(* Reading a file.                                                         *)

\* Block after block, each up to its byte 0, a file is a text again.
LEMMA FileIsText ==
  ASSUME NEW text \in Text
  PROVE  LoadFile(text) \in Text
<1> DEFINE count == (Len(text) + BlockSize - 1) \div BlockSize
           block(k) == SubSeq(text, (k - 1) * BlockSize + 1, Min({k * BlockSize, Len(text)}))
           blocks == [k \in 1 .. count |-> CString(block(k))]
<1>1. Len(text) \in Nat /\ \A n \in 1 .. Len(text) : text[n] \in STRING
  BY LenProperties, ElementOfSeq DEF Text
<1>2. BlockSize \in Nat /\ BlockSize > 0
  BY ConfigAssumption
<1>3. count \in Nat
  <2>1. Len(text) + BlockSize - 1 \in Int /\ Len(text) + BlockSize - 1 >= 0
    BY <1>1, <1>2
  <2>2. QED
    BY <1>2, <2>1, Division
<1>4. ASSUME NEW s \in Text
      PROVE  CString(s) \in Text
  <2> DEFINE nuls == {n \in DOMAIN s : s[n] = Nul}
  <2>1. CASE nuls = {}
    BY <2>1 DEF CString
  <2>2. CASE nuls # {}
    <3>1. /\ Len(s) \in Nat /\ DOMAIN s = 1 .. Len(s)
          /\ \A n \in 1 .. Len(s) : s[n] \in STRING
      BY LenProperties, ElementOfSeq DEF Text
    <3>2. PICK q \in nuls : \A r \in nuls : q <= r
      <4>1. nuls \in SUBSET Nat
        BY <3>1
      <4> HIDE DEF nuls
      <4>2. QED
        BY <2>2, <4>1, LeastNatural
    <3>3. Min(nuls) \in nuls
      <4> HIDE DEF nuls
      <4>1. QED
        BY <3>2 DEF Min
    <3>4. Min(nuls) \in 1 .. Len(s)
      BY <3>1, <3>3
    <3>5. CString(s) = SubSeq(s, 1, Min(nuls) - 1)
      BY <2>2 DEF CString
    <3> HIDE DEF nuls
    <3>6. Min(nuls) - 1 \in Int /\ \A n \in 1 .. Min(nuls) - 1 : s[n] \in STRING
      BY <3>1, <3>4
    <3>7. QED
      BY <3>5, <3>6, SubSeqProperties DEF Text
  <2>3. QED
    BY <2>1, <2>2
<1>5. ASSUME NEW k \in 1 .. count
      PROVE  block(k) \in Text
  <2> DEFINE first == (k - 1) * BlockSize
             next == k * BlockSize
             last == Min({next, Len(text)})
  <2>1. first \in Nat /\ next \in Nat
    <3>1. k - 1 \in Nat /\ k \in Nat
      BY <1>3
    <3>2. \A m \in Nat : m * BlockSize \in Nat
      BY <1>2
    <3>3. QED
      BY <3>1, <3>2
  <2> HIDE DEF first, next
  <2>2. last = IF next <= Len(text) THEN next ELSE Len(text)
    BY <1>1, <2>1, MinOfTwo
  <2> HIDE DEF last
  <2>3. first + 1 \in Int /\ last \in Int /\ \A n \in first + 1 .. last : text[n] \in STRING
    BY <1>1, <2>1, <2>2
  <2>4. SubSeq(text, first + 1, last) \in Text
    BY <2>3, SubSeqProperties DEF Text
  <2>5. QED
    BY <2>4 DEF first, next, last
<1> HIDE DEF block
<1>6. blocks \in Seq(Text)
  <2> HIDE DEF count
  <2>1. \A k \in 1 .. count : CString(block(k)) \in Text
    BY <1>4, <1>5
  <2>2. QED
    BY <1>3, <2>1, IsASeq
<1>7. LoadFile(text) = FlattenSeq(blocks)
  BY DEF LoadFile, block
<1> HIDE DEF blocks
<1>8. QED
  BY <1>6, <1>7, FlattenedIsSequence DEF Text

-----------------------------------------------------------------------------
(* The words of a text.                                                    *)

\* If a word begins at p and reaches up to q, then p is what Words takes for its beginning.
LEMMA BeginningOfWord ==
  ASSUME NEW text \in Text, NEW q \in 1 .. Len(text)
  PROVE  LET start == Max({p \in 1 .. q - 1 : text[p] = Blank} \union {0}) + 1 IN
         /\ start \in 1 .. q
         /\ \A p \in 1 .. q : (/\ \A n \in p .. q - 1 : text[n] # Blank
                               /\ p = 1 \/ text[p - 1] = Blank) => start = p
<1> DEFINE S == {p \in 1 .. q - 1 : text[p] = Blank} \union {0}
           D == {q - p : p \in S}
<1>1. q \in Nat /\ q > 0
  BY LenProperties DEF Text
<1>2. S \in SUBSET (0 .. q - 1) /\ 0 \in S
  BY <1>1
<1>3. D \in SUBSET Nat /\ D # {}
  <2> HIDE DEF S
  <2>1. QED
    BY <1>1, <1>2
<1>4. PICK d \in D : \A e \in D : d <= e
  <2> HIDE DEF D
  <2>1. QED
    BY <1>3, LeastNatural
<1>5. \E m \in S : \A p \in S : p <= m
  <2> HIDE DEF S
  <2>1. PICK m \in S : d = q - m
    BY <1>4
  <2>2. ASSUME NEW p \in S
        PROVE  p <= m
    <3>1. d <= q - p
      BY <1>4
    <3>2. p \in Int /\ m \in Int
      BY <1>1, <1>2
    <3>3. QED
      BY <1>1, <2>1, <3>1, <3>2
  <2>3. QED
    BY <2>2
<1>6. Max(S) \in S /\ \A p \in S : p <= Max(S)
  <2> HIDE DEF S
  <2>1. QED
    BY <1>5 DEF Max
<1> DEFINE m == Max(S)
<1>7. /\ m \in 0 .. q - 1 /\ (m # 0 => m \in 1 .. q - 1 /\ text[m] = Blank)
      /\ \A p \in 1 .. q - 1 : text[p] = Blank => p <= m
  <2>1. m \in S /\ \A p \in S : p <= m
    BY <1>6
  <2> HIDE DEF m
  <2>2. QED
    BY <1>1, <2>1
<1> HIDE DEF m
<1>8. m + 1 \in 1 .. q
  BY <1>1, <1>7
<1>9. ASSUME NEW p \in 1 .. q, \A n \in p .. q - 1 : text[n] # Blank, p = 1 \/ text[p - 1] = Blank
      PROVE  m + 1 = p
  <2>1. ~ m >= p
    BY <1>1, <1>7, <1>9
  <2>2. m >= p - 1
    <3>1. CASE p = 1
      BY <1>7, <3>1
    <3>2. CASE p # 1
      <4>1. p - 1 \in 1 .. q - 1 /\ text[p - 1] = Blank
        BY <1>1, <1>9, <3>2
      <4>2. QED
        BY <1>7, <4>1
    <3>3. QED
      BY <3>1, <3>2
  <2>3. QED
    BY <1>1, <1>7, <2>1, <2>2
<1>10. QED
  BY <1>8, <1>9 DEF m, S

\* What a scan has found when it has come to position n.
Scanned(text, s, n, words) ==
  /\ s.retVal = words
  /\ IF s.startToken = 0 THEN n = 0 \/ text[n] = Blank
     ELSE /\ s.startToken \in 1 .. n
          /\ \A k \in s.startToken .. n : text[k] # Blank
          /\ s.startToken = 1 \/ text[s.startToken - 1] = Blank

\* For every text tokenizeSting returns its words, each up to the blank behind it, in
\* their order; one without a blank behind it is lost.
THEOREM TokensAreWords ==
  ASSUME NEW text \in Text
  PROVE  TokenizeSting(text) \in Seq(Text) /\ TokenizeSting(text) = Words(text)
<1> DEFINE k == Len(text)
           V == [startToken : 0 .. k, retVal : Seq(Text)]
           base == [startToken |-> 0, retVal |-> <<>>]
           step == [x \in V \X (1 .. k) |-> Scan(text, x[1], x[2])]
           Rec(f) == [n \in 0 .. k |->
                        IF n = 0 THEN [startToken |-> 0, retVal |-> <<>>] ELSE Scan(text, f[n - 1], n)]
<1>1. k \in Nat /\ \A n \in 1 .. k : text[n] \in STRING
  BY LenProperties, ElementOfSeq DEF Text
<1> HIDE DEF k
<1>2. base \in V
  BY <1>1, EmptySeq
<1>3. ASSUME NEW p \in 1 .. k + 1, NEW n \in 0 .. k
      PROVE  SubSeq(text, p, n) \in Text
  <2>1. p \in Int /\ n \in Int /\ \A j \in p .. n : text[j] \in STRING
    BY <1>1
  <2>2. QED
    BY <2>1, SubSeqProperties DEF Text
<1>4. ASSUME NEW s \in V, NEW n \in 1 .. k
      PROVE  Scan(text, s, n) \in V
  <2>1. s.startToken \in 0 .. k /\ s.retVal \in Seq(Text) /\ n \in 0 .. k /\ 0 \in 0 .. k
    BY <1>1
  <2>2. CASE text[n] # Blank
    <3>1. Scan(text, s, n) = [s EXCEPT !.startToken = IF s.startToken = 0 THEN n ELSE s.startToken]
      BY <2>2 DEF Scan
    <3>2. QED
      BY <2>1, <3>1
  <2>3. CASE text[n] = Blank /\ s.startToken = 0
    BY <2>3 DEF Scan
  <2>4. CASE text[n] = Blank /\ s.startToken # 0
    <3> DEFINE token == SubSeq(text, s.startToken, n - 1)
    <3>1. token \in Text
      <4>1. s.startToken \in 1 .. k + 1 /\ n - 1 \in 0 .. k
        BY <1>1, <2>1, <2>4
      <4>2. QED
        BY <1>3, <4>1
    <3>2. Scan(text, s, n) = [startToken |-> 0, retVal |-> Append(s.retVal, token)]
      BY <2>4 DEF Scan
    <3> HIDE DEF token
    <3>3. Append(s.retVal, token) \in Seq(Text)
      BY <2>1, <3>1, AppendProperties
    <3>4. QED
      BY <2>1, <3>2, <3>3
  <2>5. QED
    BY <2>2, <2>3, <2>4
<1>5. step \in [V \X (1 .. k) -> V] /\ \A v \in V, n \in 1 .. k : step[<<v, n>>] = Scan(text, v, n)
  <2>1. \A x \in V \X (1 .. k) : Scan(text, x[1], x[2]) \in V
    BY <1>4
  <2> HIDE DEF V
  <2>2. QED
    BY <2>1
<1> HIDE DEF step, V, base
<1>6. PICK f \in [0 .. k -> V] : IsRecursion(f, k, base, step)
  BY <1>1, <1>2, <1>5, RecursionExists
<1>7. f = Rec(f)
  <2>1. ASSUME NEW n \in 1 .. k
        PROVE  f[n] = Scan(text, f[n - 1], n)
    <3>1. f[n - 1] \in V
      BY <1>1, <1>6
    <3>2. f[n] = step[<<f[n - 1], n>>]
      BY <1>6 DEF IsRecursion
    <3>3. QED
      BY <1>5, <3>1, <3>2
  <2>2. f[0] = [startToken |-> 0, retVal |-> <<>>]
    BY <1>6 DEF IsRecursion, base
  <2>3. \A n \in 0 .. k : f[n] = Rec(f)[n]
    BY <1>1, <2>1, <2>2
  <2>4. QED
    BY <1>6, <2>3
<1> DEFINE g == CHOOSE g : g = Rec(g)
<1> HIDE DEF Rec
<1>8. g = Rec(g)
  BY <1>7, Zenon
<1>9. TokenizeSting(text) = g[k].retVal
  BY Zenon DEF TokenizeSting, Rec, k
<1> HIDE DEF g
<1>10. g[0] = base /\ \A n \in 1 .. k : g[n] = Scan(text, g[n - 1], n)
  <2>1. \A n \in 0 .. k : Rec(g)[n] =
          IF n = 0 THEN [startToken |-> 0, retVal |-> <<>>] ELSE Scan(text, g[n - 1], n)
    BY DEF Rec
  <2>2. \A n \in 0 .. k : g[n] =
          IF n = 0 THEN [startToken |-> 0, retVal |-> <<>>] ELSE Scan(text, g[n - 1], n)
    BY ONLY <1>8, <2>1
  <2>3. 0 \in 0 .. k /\ \A n \in 1 .. k : n \in 0 .. k /\ n # 0
    BY <1>1
  <2>4. QED
    BY <2>2, <2>3 DEF base
<1> DEFINE Start(q) == Max({p \in 1 .. q - 1 : text[p] = Blank} \union {0}) + 1
           ends == {q \in DOMAIN text : text[q] = Blank /\ Start(q) < q}
           words == [q \in DOMAIN text |-> SubSeq(text, Start(q), q - 1)]
<1>11. Words(text) = Selected(words, ends)
  BY DEF Words
<1>12. ASSUME NEW q \in 1 .. k
       PROVE  /\ Start(q) \in 1 .. q
              /\ \A p \in 1 .. q : (/\ \A n \in p .. q - 1 : text[n] # Blank
                                    /\ p = 1 \/ text[p - 1] = Blank) => Start(q) = p
  BY BeginningOfWord DEF k
<1> HIDE DEF Start
<1>13. DOMAIN text = 1 .. k
  BY LenProperties DEF Text, k
<1>14. words \in Seq(Text) /\ Len(words) = k /\ \A q \in 1 .. k : words[q] = SubSeq(text, Start(q), q - 1)
  <2>1. ASSUME NEW q \in 1 .. k
        PROVE  SubSeq(text, Start(q), q - 1) \in Text
    <3>1. Start(q) \in 1 .. k + 1 /\ q - 1 \in 0 .. k
      BY <1>1, <1>12
    <3>2. QED
      BY <1>3, <3>1
  <2>2. words = [q \in 1 .. k |-> SubSeq(text, Start(q), q - 1)]
    BY <1>13
  <2>3. words \in Seq(Text)
    BY <1>1, <2>1, <2>2, IsASeq
  <2>4. DOMAIN words = 1 .. Len(words) /\ Len(words) \in Nat
    BY <2>3, LenProperties
  <2>5. Len(words) = k
    BY <1>1, <2>2, <2>4
  <2>6. QED
    BY <2>2, <2>3, <2>5
<1>15. \A q \in 1 .. k : q \in ends <=> text[q] = Blank /\ Start(q) < q
  BY <1>13
<1> HIDE DEF words, ends
<1>16. PICK selected : /\ Selects(selected, Text, words, ends)
                       /\ Selected(words, ends) = selected[k]
  BY <1>14, SelectedIs
<1> DEFINE R == {n \in 0 .. k : g[n] \in V /\ Scanned(text, g[n], n, selected[n])}
<1>17. 0 \in R
  <2>1. selected[0] = <<>>
    BY <1>16 DEF Selects
  <2>2. g[0].startToken = 0 /\ g[0].retVal = <<>>
    BY <1>10 DEF base
  <2>3. Scanned(text, g[0], 0, selected[0])
    BY <2>1, <2>2 DEF Scanned
  <2>4. QED
    BY <1>1, <1>2, <1>10, <2>3
<1>18. ASSUME NEW n \in 1 .. k, n - 1 \in R
       PROVE  n \in R
  <2> DEFINE s == g[n - 1]
             next == g[n]
  <2>1. s \in V /\ Scanned(text, s, n - 1, selected[n - 1]) /\ next = Scan(text, s, n)
    BY <1>10, <1>18
  <2>2. /\ s.startToken \in 0 .. k /\ s.retVal = selected[n - 1]
        /\ s.startToken = 0 => n - 1 = 0 \/ text[n - 1] = Blank
        /\ s.startToken # 0 => /\ s.startToken \in 1 .. n - 1
                               /\ \A j \in s.startToken .. n - 1 : text[j] # Blank
                               /\ s.startToken = 1 \/ text[s.startToken - 1] = Blank
    BY <2>1 DEF V, Scanned
  <2>3. selected[n] = IF text[n] = Blank /\ Start(n) < n
                      THEN Append(selected[n - 1], SubSeq(text, Start(n), n - 1))
                      ELSE selected[n - 1]
    <3>1. selected[n] = IF n \in ends THEN Append(selected[n - 1], words[n]) ELSE selected[n - 1]
      BY <1>14, <1>16 DEF Selects
    <3>2. QED
      BY <1>14, <1>15, <3>1
  <2> HIDE DEF s, next
  <2>4. Scanned(text, next, n, selected[n])
    <3>1. CASE text[n] # Blank
      <4>1. /\ next.startToken = IF s.startToken = 0 THEN n ELSE s.startToken
            /\ next.retVal = s.retVal
        <5>1. next = [s EXCEPT !.startToken = IF s.startToken = 0 THEN n ELSE s.startToken]
          BY <2>1, <3>1 DEF Scan
        <5>2. QED
          BY <2>1, <5>1 DEF V
      <4>2. selected[n] = selected[n - 1]
        BY <2>3, <3>1
      <4>3. CASE s.startToken = 0
        <5>1. next.startToken = n /\ n # 0 /\ n \in 1 .. n /\ (n = 1 \/ text[n - 1] = Blank)
          BY <1>1, <2>2, <4>1, <4>3
        <5>2. \A j \in n .. n : text[j] # Blank
          BY <1>1, <3>1
        <5>3. QED
          BY <2>2, <4>1, <4>2, <5>1, <5>2 DEF Scanned
      <4>4. CASE s.startToken # 0
        <5>1. /\ next.startToken = s.startToken /\ s.startToken \in 1 .. n
              /\ s.startToken = 1 \/ text[s.startToken - 1] = Blank
          BY <1>1, <2>2, <4>1, <4>4
        <5>2. \A j \in s.startToken .. n : text[j] # Blank
          <6>1. \A j \in s.startToken .. n : j \in s.startToken .. n - 1 \/ j = n
            BY <1>1, <5>1
          <6>2. QED
            BY <2>2, <3>1, <4>4, <6>1
        <5>3. QED
          BY <2>2, <4>1, <4>2, <4>4, <5>1, <5>2 DEF Scanned
      <4>5. QED
        BY <4>3, <4>4
    <3>2. CASE text[n] = Blank /\ s.startToken = 0
      <4>1. Start(n) = n
        <5>1. n \in 1 .. n /\ (n = 1 \/ text[n - 1] = Blank) /\ \A j \in n .. n - 1 : text[j] # Blank
          BY <1>1, <2>2, <3>2
        <5>2. QED
          BY <1>12, <5>1
      <4>2. ~ Start(n) < n
        BY <1>1, <4>1
      <4>3. next = s /\ selected[n] = selected[n - 1]
        BY <2>1, <2>3, <3>2, <4>2 DEF Scan
      <4>4. QED
        BY <2>2, <3>2, <4>3 DEF Scanned
    <3>3. CASE text[n] = Blank /\ s.startToken # 0
      <4>1. s.startToken \in 1 .. n /\ s.startToken < n
        BY <1>1, <2>2, <3>3
      <4>2. Start(n) = s.startToken
        BY <1>12, <2>2, <3>3, <4>1
      <4>3. next.startToken = 0 /\ next.retVal = Append(s.retVal, SubSeq(text, s.startToken, n - 1))
        <5>1. next = [startToken |-> 0, retVal |-> Append(s.retVal, SubSeq(text, s.startToken, n - 1))]
          BY <2>1, <3>3 DEF Scan
        <5>2. QED
          BY <5>1
      <4>4. selected[n] = Append(selected[n - 1], SubSeq(text, s.startToken, n - 1))
        BY <2>3, <3>3, <4>1, <4>2
      <4>5. QED
        BY <2>2, <3>3, <4>3, <4>4 DEF Scanned
    <3>4. QED
      BY <3>1, <3>2, <3>3
  <2>5. next \in V /\ n \in 0 .. k
    BY <1>1, <1>4, <2>1
  <2>6. QED
    BY <2>4, <2>5 DEF next
<1>19. \A n \in 0 .. k : n \in R
  <2> HIDE DEF R
  <2>1. QED
    BY <1>1, <1>17, <1>18, BoundedInduction
<1>20. g[k] \in V /\ g[k].retVal = selected[k]
  BY <1>1, <1>19 DEF Scanned
<1>21. QED
  BY <1>9, <1>11, <1>16, <1>20 DEF V

-----------------------------------------------------------------------------
(* The options that were read.                                             *)

\* The ones that have the form of an option of the user.
Kept(configData) == Selected(configData, {k \in DOMAIN configData : WellFormed(configData[k])})
Options == {Option(word) : word \in Text}

LEMMA KeptAppend ==
  ASSUME NEW configData \in Seq(Entry), NEW entry \in Entry
  PROVE  Kept(Append(configData, entry)) =
           IF WellFormed(entry) THEN Append(Kept(configData), entry) ELSE Kept(configData)
<1> DEFINE longer == Append(configData, entry)
           positions == {k \in DOMAIN longer : WellFormed(longer[k])}
           others == {k \in DOMAIN configData : WellFormed(configData[k])}
<1>1. /\ Len(configData) \in Nat /\ DOMAIN configData = 1 .. Len(configData)
      /\ DOMAIN longer = 1 .. Len(configData) + 1
      /\ longer[Len(configData) + 1] = entry
      /\ \A n \in 1 .. Len(configData) : longer[n] = configData[n]
  <2>1. longer \in Seq(Entry) /\ Len(longer) = Len(configData) + 1
    BY AppendProperties
  <2>2. DOMAIN longer = 1 .. Len(longer)
    BY <2>1, LenProperties
  <2>3. QED
    BY <2>1, <2>2, AppendProperties, LenProperties
<1> HIDE DEF longer
<1>2. \A n \in 1 .. Len(configData) : n \in positions <=> n \in others
  BY <1>1
<1>3. Len(configData) + 1 \in positions <=> WellFormed(entry)
  BY <1>1
<1> HIDE DEF positions, others
<1>4. Selected(Append(configData, entry), positions) =
        IF Len(configData) + 1 \in positions THEN Append(Selected(configData, others), entry)
        ELSE Selected(configData, others)
  BY <1>2, SelectedAppend
<1>5. QED
  BY <1>3, <1>4 DEF Kept, positions, others, longer

\* An argument leaves what was read, and adds itself if it is an option.
LEMMA ArgumentIsRead ==
  ASSUME NEW configData \in Seq(Entry), NEW arg \in Text
  PROVE  LET new == ProcessSingleArg(configData, arg) IN
         /\ new \in Seq(Entry)
         /\ Kept(new) = IF IsOption(arg) THEN Append(Kept(configData), Option(arg)) ELSE Kept(configData)
         /\ Len(configData) <= Len(new)
         /\ \A k \in 1 .. Len(configData) : new[k] = configData[k]
<1> DEFINE new == ProcessSingleArg(configData, arg)
<1>1. Len(configData) \in Nat
  BY LenProperties
<1>2. ASSUME NEW entry \in Entry, new = Append(configData, entry)
      PROVE  /\ new \in Seq(Entry) /\ Len(configData) <= Len(new)
             /\ \A k \in 1 .. Len(configData) : new[k] = configData[k]
             /\ Kept(new) = IF WellFormed(entry) THEN Append(Kept(configData), entry) ELSE Kept(configData)
  <2> HIDE DEF new
  <2>1. /\ new \in Seq(Entry) /\ Len(new) = Len(configData) + 1
        /\ \A k \in 1 .. Len(configData) : new[k] = configData[k]
    BY <1>2, AppendProperties
  <2>2. QED
    BY <1>1, <1>2, <2>1, KeptAppend
<1>3. CASE IsOption(arg)
  <2>1. new = Append(configData, Option(arg)) /\ Option(arg) \in Entry /\ WellFormed(Option(arg))
    BY <1>3, OptionIsParsed
  <2> HIDE DEF new
  <2>2. QED
    BY <1>2, <1>3, <2>1 DEF new
<1>4. CASE ~ IsOption(arg)
  <2>1. CASE new = configData
    BY <1>1, <1>4, <2>1
  <2>2. CASE \E entry \in Entry : new = Append(configData, entry) /\ ~ WellFormed(entry)
    <3> HIDE DEF new
    <3>1. PICK entry \in Entry : new = Append(configData, entry) /\ ~ WellFormed(entry)
      BY <2>2
    <3>2. QED
      BY <1>2, <1>4, <3>1 DEF new
  <2>3. QED
    BY <1>4, <2>1, <2>2, OtherIsParsed
<1>5. QED
  BY <1>3, <1>4

LEMMA KeptType ==
  ASSUME NEW configData \in Seq(Entry)
  PROVE  Kept(configData) \in Seq(Entry)
BY SelectedIs DEF Kept

\* The options of a sequence of words, word after word.
LEMMA OptionsOfWords ==
  /\ OptionsOf(<<>>) = <<>>
  /\ \A words \in Seq(Text) : OptionsOf(words) \in Seq(Options)
  /\ \A words \in Seq(Text), word \in Text :
       OptionsOf(Append(words, word)) =
         IF IsOption(word) THEN Append(OptionsOf(words), Option(word)) ELSE OptionsOf(words)
<1> DEFINE Chosen(words) == Selected(words, {k \in DOMAIN words : IsOption(words[k])})
           Map(s) == [k \in DOMAIN s |-> Option(s[k])]
<1>1. \A words : OptionsOf(words) = Map(Chosen(words))
  BY DEF OptionsOf
<1>2. ASSUME NEW s \in Seq(Text)
      PROVE  /\ Map(s) \in Seq(Options) /\ Len(Map(s)) = Len(s)
             /\ \A k \in 1 .. Len(s) : Map(s)[k] = Option(s[k])
  <2>1. DOMAIN s = 1 .. Len(s) /\ Len(s) \in Nat /\ \A k \in 1 .. Len(s) : s[k] \in Text
    BY LenProperties, ElementOfSeq
  <2>2. Map(s) = [k \in 1 .. Len(s) |-> Option(s[k])] /\ \A k \in 1 .. Len(s) : Option(s[k]) \in Options
    BY <2>1 DEF Options
  <2>3. Map(s) \in Seq(Options)
    <3> HIDE DEF Map
    <3>1. QED
      BY <2>1, <2>2, IsASeq
  <2> HIDE DEF Map
  <2>4. Len(Map(s)) = Len(s)
    <3>1. DOMAIN Map(s) = 1 .. Len(Map(s)) /\ Len(Map(s)) \in Nat
      BY <2>3, LenProperties
    <3>2. DOMAIN Map(s) = 1 .. Len(s)
      BY <2>2
    <3> DEFINE m == Len(Map(s))
               n == Len(s)
    <3>3. m \in Nat /\ n \in Nat /\ 1 .. m = 1 .. n
      BY <2>1, <3>1, <3>2
    <3> HIDE DEF m, n
    <3>4. m = n
      BY ONLY <3>3
    <3>5. QED
      BY <3>4 DEF m, n
  <2>5. QED
    BY <2>2, <2>3, <2>4
<1>3. ASSUME NEW s \in Seq(Text), NEW word \in Text
      PROVE  Map(Append(s, word)) = Append(Map(s), Option(word))
  <2> DEFINE longer == Append(s, word)
  <2>1. /\ longer \in Seq(Text) /\ Len(longer) = Len(s) + 1 /\ longer[Len(s) + 1] = word
        /\ \A k \in 1 .. Len(s) : longer[k] = s[k]
        /\ Len(s) \in Nat
    BY AppendProperties, LenProperties
  <2> HIDE DEF longer
  <2> DEFINE left == Map(longer)
             right == Append(Map(s), Option(word))
  <2>2. /\ left \in Seq(Options) /\ Len(left) = Len(s) + 1
        /\ \A k \in 1 .. Len(s) + 1 : left[k] = Option(longer[k])
    BY <1>2, <2>1
  <2>3. Option(word) \in Options
    BY DEF Options
  <2>4. /\ right \in Seq(Options) /\ Len(right) = Len(s) + 1 /\ right[Len(s) + 1] = Option(word)
        /\ \A k \in 1 .. Len(s) : right[k] = Option(s[k])
    <3> HIDE DEF Map
    <3>1. Map(s) \in Seq(Options) /\ Len(Map(s)) = Len(s) /\ \A k \in 1 .. Len(s) : Map(s)[k] = Option(s[k])
      BY <1>2
    <3>2. QED
      BY <2>3, <3>1, AppendProperties
  <2> HIDE DEF Map, left, right
  <2>5. ASSUME NEW k \in 1 .. Len(s) + 1
        PROVE  left[k] = right[k]
    <3>1. CASE k = Len(s) + 1
      BY <2>1, <2>2, <2>4, <3>1
    <3>2. CASE k \in 1 .. Len(s)
      BY <2>1, <2>2, <2>4, <3>2
    <3>3. QED
      BY <2>1, <3>1, <3>2
  <2>6. left = right
    BY <2>2, <2>4, <2>5, SeqEqual
  <2>7. QED
    BY <2>6 DEF left, right, longer
<1>4. ASSUME NEW words \in Seq(Text)
      PROVE  Chosen(words) \in Seq(Text)
  BY SelectedIs
<1>5. ASSUME NEW words \in Seq(Text), NEW word \in Text
      PROVE  Chosen(Append(words, word)) = IF IsOption(word) THEN Append(Chosen(words), word) ELSE Chosen(words)
  <2> DEFINE longer == Append(words, word)
             positions == {k \in DOMAIN longer : IsOption(longer[k])}
             others == {k \in DOMAIN words : IsOption(words[k])}
  <2>1. /\ Len(words) \in Nat /\ DOMAIN words = 1 .. Len(words)
        /\ DOMAIN longer = 1 .. Len(words) + 1
        /\ longer[Len(words) + 1] = word
        /\ \A n \in 1 .. Len(words) : longer[n] = words[n]
    <3>1. longer \in Seq(Text) /\ Len(longer) = Len(words) + 1
      BY AppendProperties
    <3>2. DOMAIN longer = 1 .. Len(longer)
      BY <3>1, LenProperties
    <3>3. QED
      BY <3>1, <3>2, AppendProperties, LenProperties
  <2> HIDE DEF longer
  <2>2. \A n \in 1 .. Len(words) : n \in positions <=> n \in others
    BY <2>1
  <2>3. Len(words) + 1 \in positions <=> IsOption(word)
    BY <2>1
  <2> HIDE DEF positions, others
  <2>4. Selected(Append(words, word), positions) =
          IF Len(words) + 1 \in positions THEN Append(Selected(words, others), word)
          ELSE Selected(words, others)
    BY <2>2, SelectedAppend
  <2>5. QED
    BY <2>3, <2>4 DEF positions, others, longer
<1>6. Map(Chosen(<<>>)) = <<>>
  <2>1. Chosen(<<>>) = <<>>
    BY SelectedOfEmpty
  <2> HIDE DEF Chosen
  <2>2. <<>> \in Seq(Text) /\ Len(<<>>) = 0
    BY EmptySeq
  <2>3. Map(<<>>) \in Seq(Options) /\ Len(Map(<<>>)) = 0
    BY <1>2, <2>2
  <2> HIDE DEF Map
  <2>4. QED
    BY <2>1, <2>3, EmptySeq
<1> HIDE DEF Chosen, Map
<1>7. \A words \in Seq(Text) : OptionsOf(words) \in Seq(Options)
  BY <1>1, <1>2, <1>4
<1>8. \A words \in Seq(Text), word \in Text :
       OptionsOf(Append(words, word)) =
         IF IsOption(word) THEN Append(OptionsOf(words), Option(word)) ELSE OptionsOf(words)
  BY <1>1, <1>3, <1>4, <1>5
<1>9. QED
  BY <1>1, <1>6, <1>7, <1>8

\* The words of a file are read behind what is there.
LEMMA FileIsRead ==
  ASSUME NEW configData \in Seq(Entry), NEW text \in Text
  PROVE  LET new == LoadConfigFile(configData, text) IN
         /\ new \in Seq(Entry)
         /\ Kept(configData) \in Seq(Options) =>
              Kept(new) = Kept(configData) \o OptionsOf(Words(LoadFile(text)))
         /\ Len(configData) <= Len(new)
         /\ \A k \in 1 .. Len(configData) : new[k] = configData[k]
<1> DEFINE tokens == TokenizeSting(LoadFile(text))
           length == Len(tokens)
           V == Seq(Entry)
           step == [x \in V \X (1 .. length) |-> ProcessSingleArg(x[1], tokens[x[2]])]
           Rec(f) == [k \in 0 .. length |->
                        IF k = 0 THEN configData ELSE ProcessSingleArg(f[k - 1], tokens[k])]
<1>1. tokens \in Seq(Text) /\ tokens = Words(LoadFile(text))
  BY FileIsText, TokensAreWords
<1> HIDE DEF tokens
<1>2. length \in Nat /\ \A n \in 1 .. length : tokens[n] \in Text
  BY <1>1, LenProperties, ElementOfSeq
<1> HIDE DEF length
<1>3. /\ step \in [V \X (1 .. length) -> V]
      /\ \A v \in V, n \in 1 .. length : step[<<v, n>>] = ProcessSingleArg(v, tokens[n])
  <2>1. \A x \in V \X (1 .. length) : ProcessSingleArg(x[1], tokens[x[2]]) \in V
    BY <1>2, ArgumentIsRead
  <2> HIDE DEF V
  <2>2. QED
    BY <2>1
<1> HIDE DEF step
<1>4. PICK f \in [0 .. length -> V] : IsRecursion(f, length, configData, step)
  <2>1. configData \in V
    OBVIOUS
  <2> HIDE DEF V
  <2>2. QED
    BY <1>2, <1>3, <2>1, RecursionExists
<1>5. f = Rec(f)
  <2>1. ASSUME NEW n \in 1 .. length
        PROVE  f[n] = ProcessSingleArg(f[n - 1], tokens[n])
    <3> HIDE DEF V
    <3>1. f[n - 1] \in V
      BY <1>2, <1>4
    <3>2. f[n] = step[<<f[n - 1], n>>]
      BY <1>4 DEF IsRecursion
    <3>3. QED
      BY <1>3, <3>1, <3>2
  <2>2. f[0] = configData
    BY <1>4 DEF IsRecursion
  <2> HIDE DEF V
  <2>3. \A n \in 0 .. length : f[n] = Rec(f)[n]
    BY <1>2, <2>1, <2>2
  <2>4. QED
    BY <1>4, <2>3
<1> DEFINE g == CHOOSE g : g = Rec(g)
<1> HIDE DEF Rec
<1>6. g = Rec(g)
  BY <1>5, Zenon
<1>7. LoadConfigFile(configData, text) = g[length]
  BY Zenon DEF LoadConfigFile, Rec, length, tokens
<1> HIDE DEF g
<1>8. g[0] = configData /\ \A n \in 1 .. length : g[n] = ProcessSingleArg(g[n - 1], tokens[n])
  <2>1. \A n \in 0 .. length : Rec(g)[n] =
          IF n = 0 THEN configData ELSE ProcessSingleArg(g[n - 1], tokens[n])
    BY DEF Rec
  <2>2. \A n \in 0 .. length : g[n] =
          IF n = 0 THEN configData ELSE ProcessSingleArg(g[n - 1], tokens[n])
    BY ONLY <1>6, <2>1
  <2>3. 0 \in 0 .. length /\ \A n \in 1 .. length : n \in 0 .. length /\ n # 0
    BY <1>2
  <2>4. QED
    BY <2>2, <2>3
<1> DEFINE FirstWords(n) == SubSeq(tokens, 1, n)
           Loaded(new, n) ==
             /\ new \in Seq(Entry)
             /\ Kept(configData) \in Seq(Options) => Kept(new) = Kept(configData) \o OptionsOf(FirstWords(n))
             /\ Len(configData) <= Len(new)
             /\ \A k \in 1 .. Len(configData) : new[k] = configData[k]
           R == {n \in 0 .. length : Loaded(g[n], n)}
<1>9. /\ FirstWords(0) = <<>> /\ FirstWords(length) = tokens
      /\ \A n \in 0 .. length : FirstWords(n) \in Seq(Text)
      /\ \A n \in 1 .. length : FirstWords(n) = Append(FirstWords(n - 1), tokens[n])
  BY <1>1, FrontGrows DEF length
<1> HIDE DEF FirstWords
<1>10. 0 \in R
  <2>1. OptionsOf(FirstWords(0)) = <<>>
    BY <1>9, OptionsOfWords
  <2>2. Kept(configData) \in Seq(Options) => Kept(configData) = Kept(configData) \o <<>>
    BY ConcatEmptySeq
  <2>3. Len(configData) \in Nat
    BY LenProperties
  <2>4. Loaded(configData, 0)
    BY <2>1, <2>2, <2>3
  <2>5. QED
    BY <1>2, <1>8, <2>4
<1>11. ASSUME NEW n \in 1 .. length, n - 1 \in R
       PROVE  n \in R
  <2> DEFINE old == g[n - 1]
             new == g[n]
  <2>1. Loaded(old, n - 1) /\ new = ProcessSingleArg(old, tokens[n]) /\ tokens[n] \in Text
    BY <1>2, <1>8, <1>11
  <2> HIDE DEF old, new
  <2>2. old \in Seq(Entry)
    BY <2>1
  <2>3. /\ new \in Seq(Entry)
        /\ Kept(new) = IF IsOption(tokens[n]) THEN Append(Kept(old), Option(tokens[n])) ELSE Kept(old)
        /\ Len(old) <= Len(new)
        /\ \A k \in 1 .. Len(old) : new[k] = old[k]
    BY <2>1, <2>2, ArgumentIsRead
  <2>4. /\ Len(configData) \in Nat /\ Len(old) \in Nat /\ Len(new) \in Nat
        /\ Len(configData) <= Len(old) /\ \A k \in 1 .. Len(configData) : old[k] = configData[k]
    BY <2>1, <2>2, <2>3, LenProperties
  <2>5. Len(configData) <= Len(new) /\ \A k \in 1 .. Len(configData) : new[k] = configData[k]
    BY <2>3, <2>4
  <2>6. ASSUME Kept(configData) \in Seq(Options)
        PROVE  Kept(new) = Kept(configData) \o OptionsOf(FirstWords(n))
    <3> DEFINE read == OptionsOf(FirstWords(n - 1))
               kept == Kept(configData)
               option == Option(tokens[n])
    <3>1. n - 1 \in 0 .. length
      BY <1>2
    <3>2. /\ read \in Seq(Options)
          /\ OptionsOf(FirstWords(n)) = IF IsOption(tokens[n]) THEN Append(read, option) ELSE read
      <4>1. FirstWords(n - 1) \in Seq(Text) /\ FirstWords(n) = Append(FirstWords(n - 1), tokens[n])
        BY <1>9, <3>1
      <4>2. QED
        BY <2>1, <4>1, OptionsOfWords
    <3>3. Kept(old) = kept \o read
      BY <2>1, <2>6
    <3>4. option \in Options
      BY <2>1 DEF Options
    <3> HIDE DEF read, option, kept
    <3>5. kept \o Append(read, option) = Append(kept \o read, option)
      <4>1. kept \in Seq(Options)
        BY <2>6 DEF kept
      <4>2. QED
        BY <3>2, <3>4, <4>1, AppendToSecond
    <3>6. Kept(new) = IF IsOption(tokens[n]) THEN Append(Kept(old), option) ELSE Kept(old)
      BY <2>3 DEF option
    <3>7. QED
      BY <3>2, <3>3, <3>5, <3>6 DEF kept
  <2>7. Loaded(new, n)
    BY <2>3, <2>5, <2>6
  <2> HIDE DEF Loaded
  <2>8. QED
    BY <1>2, <2>7 DEF new
<1>12. \A n \in 0 .. length : n \in R
  <2> HIDE DEF R
  <2>1. QED
    BY <1>2, <1>10, <1>11, BoundedInduction
<1>13. Loaded(g[length], length)
  <2>1. length \in 0 .. length
    BY <1>2
  <2> HIDE DEF Loaded
  <2>2. QED
    BY <1>12, <2>1
<1> HIDE DEF length
<1>14. QED
  BY <1>1, <1>7, <1>9, <1>13

\* The first of the positions that fit, if there is one.
LEMMA FirstEntry ==
  ASSUME NEW configData \in Seq(Entry), NEW E \in SUBSET (DOMAIN configData)
  PROVE  /\ E # {} => Min(E) \in E /\ IsFirst(Min(E), E)
         /\ \A k \in E : IsFirst(k, E) => k = Min(E)
<1>1. Len(configData) \in Nat /\ E \in SUBSET Nat
  BY LenProperties
<1>2. E # {} => Min(E) \in E /\ \A p \in E : Min(E) <= p
  <2> SUFFICES ASSUME E # {} PROVE Min(E) \in E /\ \A p \in E : Min(E) <= p
    OBVIOUS
  <2>1. PICK q \in E : \A r \in E : q <= r
    BY <1>1, LeastNatural
  <2>2. QED
    BY <2>1 DEF Min
<1>3. ASSUME NEW k \in E, IsFirst(k, E)
      PROVE  k = Min(E)
  <2>1. Min(E) \in E /\ Min(E) <= k /\ k <= Min(E)
    BY <1>2, <1>3 DEF IsFirst
  <2>2. k \in Int /\ Min(E) \in Int
    BY <1>1, <2>1
  <2>3. QED
    BY <2>1, <2>2
<1>4. QED
  BY <1>2, <1>3 DEF IsFirst

-----------------------------------------------------------------------------
(* The devices.                                                            *)

DeviceFits(d) ==
  /\ d.theAddress \in Address /\ d.theSize \in Address
  /\ d.theStartEmulationAddress \in Address \union {NotSet}
  /\ d.type = "iNES" => d.theAddress = PRG_RAM_ADDR /\ d.theSize = AddressLimit - PRG_RAM_ADDR

Types == {FactoryTypes[k] : k \in DOMAIN FactoryTypes}

LEMMA ConfiguredDeviceFits ==
  ASSUME disk \in Disks, NEW type \in Types, NEW name
  PROVE  DeviceFits(ConfiguredDevice(type, name)) /\ ConfiguredDevice(type, name).type = type
<1> DEFINE Uint16(member) == GetIntegerConfigValueOf(theConfigData, type, name, member) % AddressLimit
           Str(member) == GetStringConfigValueOf(theConfigData, type, name, member)
           d == ConfiguredDevice(type, name)
<1>1. \A member : Uint16(member) \in Address
  BY NumbersAreIntegers, SixteenBits
<1>2. ASSUME NEW file, NEW address \in Address
      PROVE  RomSize(file, address) \in Address
  <2>1. CASE file \notin DOMAIN disk
    BY <2>1, Sizes DEF RomSize, Address
  <2>2. CASE file \in DOMAIN disk
    <3>1. Len(disk[file]) \in Nat
      BY <2>2, StartupAssumption, LenProperties
    <3>2. QED
      BY <2>2, <3>1, Sizes DEF RomSize, Address
  <2>3. QED
    BY <2>1, <2>2
<1>3. /\ PRG_RAM_ADDR \in Address /\ AddressLimit - PRG_RAM_ADDR \in Address
      /\ ScreenAddress \in Address /\ ScreenSize \in Address
  <2>1. PRG_RAM_ADDR \in Address /\ AddressLimit - PRG_RAM_ADDR \in Address
    BY Sizes DEF Address
  <2>2. QED
    BY <2>1, StartupAssumption
<1> SUFFICES DeviceFits(d) /\ d.type = type
  OBVIOUS
<1> HIDE DEF d, Uint16, Str
<1>4. CASE type \in {"RAM", "RNG"}
  <2>1. /\ d.type = type /\ d.theAddress = Uint16("startAddress") /\ d.theSize = Uint16("size")
        /\ d.theStartEmulationAddress = NotSet
    BY <1>4 DEF ConfiguredDevice, d, Uint16, Str
  <2>2. QED
    BY <1>1, <1>4, <2>1 DEF DeviceFits
<1>5. CASE type = "ROM"
  <2>1. /\ d.type = type /\ d.theAddress = Uint16("startAddress")
        /\ d.theSize = RomSize(Str("filename"), Uint16("startAddress"))
        /\ \/ d.theStartEmulationAddress = Uint16("startEmulatorAddress")
           \/ d.theStartEmulationAddress = NotSet
    BY <1>5 DEF ConfiguredDevice, d, Uint16, Str
  <2>2. d.theAddress \in Address /\ d.theSize \in Address
    BY <1>1, <1>2, <2>1
  <2>3. QED
    BY <1>1, <1>5, <2>1, <2>2 DEF DeviceFits
<1>6. CASE type = "MirrorMemory"
  <2>1. /\ d.type = type /\ d.theAddress = Uint16("destAddress") /\ d.theSize = Uint16("destSize")
        /\ d.theStartEmulationAddress = NotSet
    BY <1>6 DEF ConfiguredDevice, d, Uint16, Str
  <2>2. QED
    BY <1>1, <1>6, <2>1 DEF DeviceFits
<1>7. CASE type = "Easy6502JsDisplay"
  <2>1. /\ d.type = type /\ d.theAddress = ScreenAddress /\ d.theSize = ScreenSize
        /\ d.theStartEmulationAddress = NotSet
    BY <1>7 DEF ConfiguredDevice, d, Uint16, Str
  <2>2. QED
    BY <1>3, <1>7, <2>1 DEF DeviceFits
<1>8. CASE type = "iNES"
  <2>1. /\ d.type = type /\ d.theAddress = PRG_RAM_ADDR /\ d.theSize = AddressLimit - PRG_RAM_ADDR
        /\ d.theStartEmulationAddress = NotSet
    BY <1>8 DEF ConfiguredDevice, d, Uint16, Str
  <2>2. QED
    BY <1>3, <1>8, <2>1 DEF DeviceFits
<1>9. type \in {"RAM", "ROM", "RNG", "MirrorMemory", "Easy6502JsDisplay", "iNES"}
  BY DEF Types, FactoryTypes
<1>10. QED
  BY <1>4, <1>5, <1>6, <1>7, <1>8, <1>9

\* The list is in the order of the addresses.
Ordered(devices) ==
  \A j, k \in 1 .. Len(devices) : j < k => devices[j].theAddress <= devices[k].theAddress

\* addNewDevice puts the device into the list, which stays in order, or refuses it and
\* leaves the list alone.
LEMMA NewDevice ==
  ASSUME theDevices \in Seq(Memory!Devices), NEW device, Memory!AddNewDevice(device),
         \A d \in Memory!Devices \union {device} : DeviceFits(d)
  PROVE  /\ theDevices' \in Seq(Memory!Devices')
         /\ Ordered(theDevices) => Ordered(theDevices')
         /\ \/ /\ Memory!Devices' = Memory!Devices
               /\ refused' = refused \union {device}
               /\ \E d \in Memory!Devices :
                    Memory!RangesOverlap(Memory!RangeOf(d), Memory!RangeOf(device))
            \/ /\ Memory!Devices' = Memory!Devices \union {device}
               /\ refused' = refused
<1>1. CASE /\ theDevices' = theDevices /\ refused' = refused \union {device}
           /\ \E d \in Memory!Devices :
                Memory!RangesOverlap(Memory!RangeOf(d), Memory!RangeOf(device))
  <2>1. Memory!Devices' = Memory!Devices
    BY <1>1 DEF Memory!Devices
  <2>2. QED
    BY <1>1, <2>1
<1>2. CASE /\ theDevices' = Memory!InsertAt(theDevices, Memory!InsertPosition(theDevices, device), device)
           /\ refused' = refused
  <2> DEFINE p == Memory!InsertPosition(theDevices, device)
             S == Memory!Devices \union {device}
             new == InsertAt(theDevices, p, device)
  <2>1. theDevices' = new
    BY <1>2 DEF Memory!InsertAt, InsertAt
  <2>2. /\ Len(theDevices) \in Nat /\ DOMAIN theDevices = 1 .. Len(theDevices)
        /\ \A k \in 1 .. Len(theDevices) : theDevices[k] \in Memory!Devices
        /\ theDevices \in Seq(S)
    OBVIOUS
  <2>3. /\ p \in 1 .. Len(theDevices) + 1
        /\ p <= Len(theDevices) => device.theAddress < theDevices[p].theAddress
        /\ \A k \in 1 .. p - 1 : device.theAddress >= theDevices[k].theAddress
    <3> DEFINE T == {q \in 1 .. Len(theDevices) + 1 :
                       q <= Len(theDevices) => device.theAddress < theDevices[q].theAddress}
    <3>1. /\ device.theAddress \in Int
          /\ \A k \in 1 .. Len(theDevices) : theDevices[k].theAddress \in Int
      BY <2>2, Sizes DEF DeviceFits, Address
    <3>2. T \in SUBSET Nat /\ Len(theDevices) + 1 \in T
      BY <2>2
    <3>3. PICK q \in T : \A r \in T : q <= r
      <4> HIDE DEF T
      <4>1. QED
        BY <3>2, LeastNatural
    <3>4. /\ q \in 1 .. Len(theDevices) + 1
          /\ q <= Len(theDevices) => device.theAddress < theDevices[q].theAddress
          /\ \A k \in 1 .. q - 1 : device.theAddress >= theDevices[k].theAddress
      BY <2>2, <3>1, <3>3
    <3>5. QED
      BY <3>4 DEF Memory!InsertPosition
  <2> HIDE DEF p
  <2>4. /\ new \in Seq(S) /\ Len(new) = Len(theDevices) + 1
        /\ \A k \in 1 .. Len(theDevices) + 1 :
             new[k] = IF k < p THEN theDevices[k] ELSE IF k = p THEN device ELSE theDevices[k - 1]
    <3> HIDE DEF S
    <3>1. device \in S
      BY DEF S
    <3>2. theDevices \in Seq(S)
      BY <2>2 DEF S
    <3>3. QED
      BY ONLY <2>3, <3>1, <3>2, InsertAtProperties
  <2> HIDE DEF new
  <2>5. Memory!Devices' = S
    <3>1. /\ Memory!Devices = {theDevices[k] : k \in 1 .. Len(theDevices)}
          /\ Memory!Devices' = {new[k] : k \in 1 .. Len(theDevices) + 1}
      <4>1. Memory!Devices = {theDevices[k] : k \in DOMAIN theDevices}
        BY DEF Memory!Devices, Memory!Range
      <4>2. Memory!Devices' = {theDevices'[k] : k \in DOMAIN theDevices'}
        BY DEF Memory!Devices, Memory!Range
      <4>3. DOMAIN new = 1 .. Len(theDevices) + 1
        BY <2>4
      <4>4. QED
        BY <2>1, <2>2, <4>1, <4>2, <4>3
    <3>2. ASSUME NEW k \in 1 .. Len(theDevices) + 1
          PROVE  new[k] \in S
      BY <2>4
    <3>3. device \in Memory!Devices'
      BY <2>3, <2>4, <3>1
    <3>4. ASSUME NEW k \in 1 .. Len(theDevices)
          PROVE  \E j \in 1 .. Len(theDevices) + 1 : new[j] = theDevices[k]
      <4>1. CASE k < p
        BY <2>2, <2>3, <2>4, <4>1
      <4>2. CASE k >= p
        <5>1. k + 1 \in 1 .. Len(theDevices) + 1 /\ new[k + 1] = theDevices[k]
          BY <2>2, <2>3, <2>4, <4>2
        <5>2. QED
          BY <5>1
      <4>3. QED
        BY <2>3, <4>1, <4>2
    <3>5. QED
      BY <3>1, <3>2, <3>3, <3>4
  <2>6. ASSUME Ordered(theDevices)
        PROVE  Ordered(new)
    <3> DEFINE At(k) == theDevices[k].theAddress
               next(k) == new[k].theAddress
               length == Len(theDevices)
               address == device.theAddress
    <3>1. length \in Nat /\ address \in Int /\ \A k \in 1 .. length : At(k) \in Int
      BY <2>2, Sizes DEF DeviceFits, Address
    <3>2. \A k \in 1 .. length + 1 :
            next(k) = IF k < p THEN At(k) ELSE IF k = p THEN address ELSE At(k - 1)
      BY <2>4
    <3>3. \A j, k \in 1 .. length : j < k => At(j) <= At(k)
      BY <2>6 DEF Ordered
    <3>4. /\ p \in 1 .. length + 1
          /\ p <= length => address < At(p)
          /\ \A k \in 1 .. p - 1 : address >= At(k)
      BY <2>3
    <3> HIDE DEF At, next, length, address
    <3>5. ASSUME NEW j \in 1 .. length + 1, NEW k \in 1 .. length + 1, j < k
          PROVE  next(j) <= next(k)
      <4>1. CASE k < p
        <5>1. j \in 1 .. length /\ k \in 1 .. length /\ j < p
          BY <3>1, <3>4, <3>5, <4>1
        <5>2. next(j) = At(j) /\ next(k) = At(k)
          BY <3>2, <4>1, <5>1
        <5>3. QED
          BY <3>3, <3>5, <5>1, <5>2
      <4>2. CASE k = p
        <5>1. j \in 1 .. p - 1 /\ j \in 1 .. length /\ next(j) = At(j) /\ next(k) = address
          BY <3>1, <3>2, <3>4, <3>5, <4>2
        <5>2. QED
          BY <3>1, <3>4, <5>1
      <4>3. CASE k > p
        <5> DEFINE l == k - 1
        <5>1. l \in 1 .. length /\ next(k) = At(l) /\ p <= l /\ p \in 1 .. length
          <6>1. ~ (k < p) /\ k # p /\ l \in 1 .. length /\ p <= l /\ p \in 1 .. length
            BY <3>1, <3>4, <4>3
          <6>2. next(k) = At(k - 1)
            BY <3>2, <6>1
          <6>3. QED
            BY <6>1, <6>2
        <5>2. j <= l
          BY <3>1, <3>5
        <5> HIDE DEF l
        <5>3. p = l \/ At(p) <= At(l)
          BY <3>3, <5>1
        <5>4. CASE j < p
          <6>1. j \in 1 .. length /\ j < l /\ next(j) = At(j)
            BY <3>1, <3>2, <3>4, <5>1, <5>4
          <6>2. QED
            BY <3>3, <5>1, <6>1
        <5>5. CASE j = p
          <6>1. next(j) = address /\ address < At(p) /\ At(p) \in Int /\ At(l) \in Int
            BY <3>1, <3>2, <3>4, <5>1, <5>5
          <6>2. QED
            BY <3>1, <5>1, <5>3, <6>1
        <5>6. CASE j > p
          <6>1. j - 1 \in 1 .. length /\ j - 1 < l /\ next(j) = At(j - 1)
            BY <3>1, <3>2, <3>4, <5>1, <5>2, <5>6
          <6>2. At(j - 1) <= At(l)
            BY <3>3, <5>1, <6>1
          <6>3. QED
            BY <5>1, <6>1, <6>2
        <5>7. QED
          BY <3>1, <3>4, <5>4, <5>5, <5>6
      <4>4. k \in Int /\ p \in Int
        BY <3>1, <3>4
      <4>5. QED
        BY <4>1, <4>2, <4>3, <4>4
    <3>6. Len(new) = length + 1
      BY <2>4 DEF length
    <3>7. QED
      BY <3>5, <3>6 DEF next, Ordered
  <2>7. QED
    BY <1>2, <2>1, <2>4, <2>5, <2>6
<1>3. QED
  BY <1>1, <1>2 DEF Memory!AddNewDevice

-----------------------------------------------------------------------------
(* The inductive invariant.                                                *)

ProgressInv ==
  /\ argv \in ArgLists /\ disk \in Disks /\ i \in 0 .. Len(argv)
  /\ pc \in {"processArgs", "initializeSdl", "build", "reset", "enableDebugger", "run", "ended"}
  /\ startAddress \in Address

\* The options are read before the first device is built from them.
DeviceInv ==
  /\ pc \in {"processArgs", "initializeSdl"} => built = {}
  /\ \A b \in built : b \in Instances(b[1])
  /\ theDevices \in Seq(Memory!Devices)
  /\ \A d \in Memory!Devices \union refused : DeviceFits(d)

IInv == ProgressInv /\ DeviceInv

LEMMA InitInv ==
  Init => IInv
<1> SUFFICES ASSUME Init PROVE IInv
  OBVIOUS
<1> USE DEF Init
<1>1. Memory!Devices = {}
  <2>1. DOMAIN theDevices = {}
    OBVIOUS
  <2>2. QED
    BY <2>1 DEF Memory!Devices, Memory!Range
<1>2. ProgressInv
  <2>1. argv \in Seq(Seq(STRING))
    BY StartupAssumption
  <2>2. Len(argv) \in Nat
    BY <2>1, LenProperties
  <2>3. 0 \in Address
    BY Sizes DEF Address
  <2>4. QED
    BY <2>2, <2>3 DEF ProgressInv
<1>3. DeviceInv
  BY <1>1 DEF DeviceInv
<1>4. QED
  BY <1>2, <1>3 DEF IInv

\* What a step leaves alone.
LEMMA SameDevices ==
  ASSUME IInv, UNCHANGED <<theDevices, refused, disk>>
  PROVE  /\ Memory!Devices' = Memory!Devices
         /\ theDevices' \in Seq(Memory!Devices')
         /\ \A d \in Memory!Devices' \union refused' : DeviceFits(d)
<1>1. Memory!Devices' = Memory!Devices
  BY DEF Memory!Devices
<1>2. QED
  BY <1>1 DEF IInv, DeviceInv

LEMMA ProcessArgInv ==
  ASSUME IInv, ProcessArg
  PROVE  IInv'
<1> USE DEF ProcessArg, configVars, deviceVars
<1>1. ProgressInv'
  <2>1. Len(argv) \in Nat
    BY StartupAssumption, LenProperties DEF IInv, ProgressInv
  <2>2. i' \in 0 .. Len(argv)
    BY <2>1 DEF IInv, ProgressInv
  <2>3. QED
    BY <2>2 DEF IInv, ProgressInv
<1>2. DeviceInv'
  <2>1. built' = {}
    BY DEF IInv, DeviceInv
  <2>2. QED
    BY <2>1, SameDevices DEF DeviceInv
<1>3. QED
  BY <1>1, <1>2 DEF IInv

LEMMA LoadConfigurationInv ==
  ASSUME IInv, LoadConfiguration
  PROVE  IInv'
<1> USE DEF LoadConfiguration, deviceVars
<1>1. UNCHANGED <<argv, i, disk, startAddress>> /\ pc' = "initializeSdl"
  OBVIOUS
<1>2. ProgressInv'
  BY <1>1 DEF IInv, ProgressInv
<1>3. DeviceInv'
  <2>1. built' = {}
    BY DEF IInv, DeviceInv
  <2>2. QED
    BY <2>1, SameDevices DEF DeviceInv
<1>4. QED
  BY <1>2, <1>3 DEF IInv

LEMMA InitializeSdlInv ==
  ASSUME IInv, InitializeSdl
  PROVE  IInv'
<1> USE DEF InitializeSdl, configVars, deviceVars
<1>1. ProgressInv'
  BY DEF IInv, ProgressInv
<1>2. DeviceInv'
  <2>1. built' = {}
    BY DEF IInv, DeviceInv
  <2>2. QED
    BY <2>1, SameDevices DEF DeviceInv
<1>3. QED
  BY <1>1, <1>2 DEF IInv

\* The instances whose devices are built are still configured ones.
LEMMA SameInstances ==
  ASSUME IInv, UNCHANGED <<built, theConfigData>>
  PROVE  \A b \in built' : b \in Instances(b[1])'
BY DEF IInv, DeviceInv, Instances

LEMMA ProcessSingleMemoryTypeInv ==
  ASSUME IInv, NEW k \in DOMAIN FactoryTypes, ProcessSingleMemoryType(k)
  PROVE  IInv'
<1>1. /\ pc = "build" /\ UNCHANGED <<argv, i, disk, theConfigData, pc, startAddress,
                                    debuggerPort, numSteps>>
  BY DEF ProcessSingleMemoryType, configVars
<1>2. PICK instance \in Pending(k) :
        /\ IF ConfigSelf(instance[1], instance[2])
           THEN Memory!AddNewDevice(ConfiguredDevice(instance[1], instance[2]))
           ELSE UNCHANGED <<theDevices, refused>>
        /\ built' = built \union {instance}
  BY DEF ProcessSingleMemoryType
<1>3. instance \in Instances(FactoryTypes[k]) /\ instance[1] = FactoryTypes[k]
  BY DEF Pending, Instances
<1>4. ProgressInv'
  BY <1>1 DEF IInv, ProgressInv
<1> DEFINE device == ConfiguredDevice(instance[1], instance[2])
<1>5. DeviceFits(device) /\ device.type = instance[1]
  <2>1. instance[1] \in Types
    BY <1>3 DEF Types
  <2>2. QED
    BY <2>1, ConfiguredDeviceFits DEF IInv, ProgressInv
<1> HIDE DEF device
<1>6. /\ theDevices' \in Seq(Memory!Devices')
      /\ \A d \in Memory!Devices' \union refused' : DeviceFits(d)
  <2>1. CASE UNCHANGED <<theDevices, refused>>
    BY <1>1, <2>1, SameDevices
  <2>2. CASE Memory!AddNewDevice(device)
    <3>1. theDevices \in Seq(Memory!Devices) /\ \A d \in Memory!Devices \union refused : DeviceFits(d)
      BY DEF IInv, DeviceInv
    <3>2. /\ theDevices' \in Seq(Memory!Devices')
          /\ \/ /\ Memory!Devices' = Memory!Devices
                /\ refused' = refused \union {device}
             \/ /\ Memory!Devices' = Memory!Devices \union {device}
                /\ refused' = refused
      BY <1>5, <2>2, <3>1, NewDevice
    <3>3. QED
      BY <1>5, <3>1, <3>2
  <2>3. QED
    BY <1>2, <2>1, <2>2 DEF device
<1>7. \A b \in built' : b \in Instances(b[1])'
  <2>1. \A b \in built \union {instance} : b \in Instances(b[1])
    BY <1>3 DEF IInv, DeviceInv
  <2>2. \A type : Instances(type)' = Instances(type)
    BY <1>1 DEF Instances
  <2>3. QED
    BY <1>2, <2>1, <2>2
<1>8. DeviceInv'
  BY <1>1, <1>6, <1>7 DEF DeviceInv
<1>9. QED
  BY <1>4, <1>8 DEF IInv

\* A ROM that names a start address names one of 16 bits.
LEMMA StartAddressOfDevice ==
  ASSUME IInv
  PROVE  GetStartAddress \in Address
<1> DEFINE specifying == {k \in DOMAIN theDevices : DeviceSpecifiesStart(theDevices[k])}
<1>1. CASE specifying = {}
  <2>1. 0 \in Address
    BY Sizes DEF Address
  <2>2. QED
    BY <1>1, <2>1 DEF GetStartAddress
<1>2. CASE specifying # {}
  <2>1. DOMAIN theDevices = 1 .. Len(theDevices) /\ Len(theDevices) \in Nat
    BY DEF IInv, DeviceInv
  <2>2. specifying \in SUBSET Nat
    BY <2>1
  <2>3. PICK q \in specifying : \A r \in specifying : q <= r
    <3> HIDE DEF specifying
    <3>1. QED
      BY <1>2, <2>2, LeastNatural
  <2> DEFINE first == theDevices[Min(specifying)]
  <2>4. Min(specifying) \in specifying
    <3> HIDE DEF specifying
    <3>1. QED
      BY <2>3 DEF Min
  <2>5. first \in Memory!Devices /\ DeviceSpecifiesStart(first)
    BY <2>1, <2>4 DEF IInv, DeviceInv
  <2>6. first.type = "ROM" /\ first.theStartEmulationAddress # NotSet
    <3> HIDE DEF first
    <3>1. QED
      BY <2>5 DEF DeviceSpecifiesStart
  <2>7. first.theStartEmulationAddress \in Address
    <3> HIDE DEF first
    <3>1. QED
      BY <2>5, <2>6 DEF IInv, DeviceInv, DeviceFits
  <2>8. GetStartAddress = first.theStartEmulationAddress
    BY <1>2, <2>6 DEF GetStartAddress
  <2>9. QED
    BY <2>7, <2>8
<1>3. QED
  BY <1>1, <1>2

LEMMA ChooseStartAddressInv ==
  ASSUME IInv, ChooseStartAddress
  PROVE  IInv'
<1>1. /\ pc = "build" /\ pc' = "reset"
      /\ UNCHANGED <<argv, i, disk, theConfigData, built, theDevices, refused>>
      /\ startAddress' = IF IsConfigPresent(theConfigData, "emulator", "startAddress")
                         THEN OptionalInteger("emulator", "startAddress") % AddressLimit
                         ELSE GetStartAddress
  BY DEF ChooseStartAddress, configVars, deviceVars
<1>2. startAddress' \in Address
  <2>1. CASE IsConfigPresent(theConfigData, "emulator", "startAddress")
    <3>1. OptionalInteger("emulator", "startAddress") \in Int
      BY <2>1, NumbersAreIntegers DEF OptionalInteger
    <3>2. QED
      BY <1>1, <2>1, <3>1, SixteenBits
  <2>2. CASE ~ IsConfigPresent(theConfigData, "emulator", "startAddress")
    BY <1>1, <2>2, StartAddressOfDevice
  <2>3. QED
    BY <2>1, <2>2
<1>3. ProgressInv'
  BY <1>1, <1>2 DEF IInv, ProgressInv
<1>4. DeviceInv'
  BY <1>1, SameDevices, SameInstances DEF DeviceInv
<1>5. QED
  BY <1>3, <1>4 DEF IInv

LEMMA ResetAllInv ==
  ASSUME IInv, ResetAll
  PROVE  IInv'
<1>1. /\ pc = "reset" /\ pc' \in {"enableDebugger", "ended"}
      /\ UNCHANGED <<argv, i, disk, theConfigData, built, theDevices, refused, startAddress>>
  BY DEF ResetAll, configVars, deviceVars
<1>2. ProgressInv'
  BY <1>1 DEF IInv, ProgressInv
<1>3. DeviceInv'
  BY <1>1, SameDevices, SameInstances DEF DeviceInv
<1>4. QED
  BY <1>2, <1>3 DEF IInv

LEMMA EnableDebuggerInv ==
  ASSUME IInv, EnableDebugger
  PROVE  IInv'
<1>1. /\ pc = "enableDebugger" /\ pc' \in {"run", "ended"}
      /\ UNCHANGED <<argv, i, disk, theConfigData, built, theDevices, refused, startAddress>>
  BY DEF EnableDebugger, configVars, deviceVars
<1>2. ProgressInv'
  BY <1>1 DEF IInv, ProgressInv
<1>3. DeviceInv'
  BY <1>1, SameDevices, SameInstances DEF DeviceInv
<1>4. QED
  BY <1>2, <1>3 DEF IInv

LEMMA NextInv ==
  IInv /\ [Next]_vars => IInv'
<1> SUFFICES ASSUME IInv, [Next]_vars PROVE IInv'
  OBVIOUS
<1>1. CASE UNCHANGED vars
  <2>1. /\ pc' = pc
        /\ UNCHANGED <<argv, i, disk, theConfigData, built, theDevices, refused, startAddress>>
    BY <1>1 DEF vars, configVars, deviceVars
  <2>2. ProgressInv'
    BY <2>1 DEF IInv, ProgressInv
  <2>3. DeviceInv'
    BY <2>1, SameDevices, SameInstances DEF IInv, DeviceInv
  <2>4. QED
    BY <2>2, <2>3 DEF IInv
<1>2. CASE Next
  BY <1>2, ProcessArgInv, LoadConfigurationInv, InitializeSdlInv, ProcessSingleMemoryTypeInv,
     ChooseStartAddressInv, ResetAllInv, EnableDebuggerInv DEF Next
<1>3. QED
  BY <1>1, <1>2

-----------------------------------------------------------------------------
(* The options that the user wrote.                                        *)

\* OptionsAreRead of any options.
OptionsRead(configData) ==
  LET names == Entries(configData, "config", "filename")
      files == {k \in names : IsFirst(k, names) /\ configData[k].theValue \in DOMAIN disk}
  IN  /\ files = {} => Kept(configData) = OptionsOf(argv)
      /\ \A k \in files :
           Kept(configData) = OptionsOf(argv) \o OptionsOf(Words(LoadFile(disk[configData[k].theValue])))

LEMMA OptionsAreReadIs ==
  OptionsAreRead <=> (pc # "processArgs" => OptionsRead(theConfigData))
<1>1. Read("config", "filename") = Entries(theConfigData, "config", "filename")
  BY DEF Read, Entries, Names
<1>2. QED
  BY <1>1 DEF OptionsAreRead, OptionsRead, Kept

LEMMA OptionsAreReadNext ==
  OptionsAreRead' <=> (pc' # "processArgs" => OptionsRead(theConfigData)')
<1>1. Read("config", "filename")' = Entries(theConfigData', "config", "filename")
  BY DEF Read, Entries, Names
<1>2. QED
  BY <1>1 DEF OptionsAreRead, OptionsRead, Kept

OptionsInv ==
  /\ theConfigData \in Seq(Entry)
  /\ pc = "processArgs" => Kept(theConfigData) = OptionsOf(SubSeq(argv, 1, i))
  /\ OptionsAreRead

LEMMA InitOptions ==
  Init => OptionsInv
<1> SUFFICES ASSUME Init PROVE OptionsInv
  OBVIOUS
<1>1. theConfigData = <<>> /\ i = 0 /\ pc = "processArgs"
  BY DEF Init
<1>2. theConfigData \in Seq(Entry)
  BY <1>1, EmptySeq
<1>3. Kept(theConfigData) = <<>>
  BY <1>1, SelectedOfEmpty DEF Kept
<1>4. OptionsOf(SubSeq(argv, 1, i)) = <<>>
  <2>1. SubSeq(argv, 1, 0) = <<>>
    BY SubSeqEmpty
  <2>2. QED
    BY <1>1, <2>1, OptionsOfWords
<1>5. QED
  BY <1>1, <1>2, <1>3, <1>4, OptionsAreReadIs DEF OptionsInv

LEMMA ProcessArgOptions ==
  ASSUME IInv, OptionsInv, ProcessArg
  PROVE  OptionsInv'
<1>1. /\ pc = "processArgs" /\ pc' = "processArgs" /\ i < Len(argv) /\ i' = i + 1 /\ argv' = argv
      /\ theConfigData' = ProcessSingleArg(theConfigData, argv[i + 1])
  BY DEF ProcessArg
<1>2. argv \in Seq(Text) /\ Len(argv) \in Nat /\ i \in 0 .. Len(argv)
  <2>1. argv \in Seq(Text) /\ i \in 0 .. Len(argv)
    BY StartupAssumption DEF IInv, ProgressInv, Text
  <2>2. QED
    BY <2>1, LenProperties
<1> DEFINE n == i + 1
<1>3. n \in 1 .. Len(argv) /\ n - 1 = i
  BY <1>1, <1>2
<1> HIDE DEF n
<1>4. argv[n] \in Text
  BY <1>2, <1>3, ElementOfSeq
<1>5. /\ theConfigData' \in Seq(Entry)
      /\ Kept(theConfigData') = IF IsOption(argv[n]) THEN Append(Kept(theConfigData), Option(argv[n]))
                                ELSE Kept(theConfigData)
  BY <1>1, <1>4, ArgumentIsRead DEF OptionsInv, n
<1>6. Kept(theConfigData') = OptionsOf(SubSeq(argv, 1, n))
  <2>1. SubSeq(argv, 1, n) = Append(SubSeq(argv, 1, i), argv[n]) /\ SubSeq(argv, 1, i) \in Seq(Text)
    BY <1>2, <1>3, FrontGrows
  <2>2. Kept(theConfigData) = OptionsOf(SubSeq(argv, 1, i))
    BY <1>1 DEF OptionsInv
  <2>3. QED
    BY <1>4, <1>5, <2>1, <2>2, OptionsOfWords
<1>7. Kept(theConfigData)' = OptionsOf(SubSeq(argv, 1, i))'
  BY <1>1, <1>6 DEF Kept, OptionsOf, n
<1>8. QED
  BY <1>1, <1>5, <1>7, OptionsAreReadNext DEF OptionsInv

LEMMA LoadConfigurationOptions ==
  ASSUME IInv, OptionsInv, LoadConfiguration
  PROVE  OptionsInv'
<1> DEFINE old == theConfigData
           new == theConfigData'
           names == Entries(old, "config", "filename")
           named == Entries(new, "config", "filename")
<1>1. /\ pc = "processArgs" /\ i = Len(argv) /\ pc' = "initializeSdl" /\ UNCHANGED <<argv, disk>>
      /\ IF names # {} /\ old[Min(names)].theValue \in DOMAIN disk
         THEN new = LoadConfigFile(old, disk[old[Min(names)].theValue])
         ELSE new = old
  BY DEF LoadConfiguration, IsConfigPresent, ConfigFile, GetStringConfigValue
<1>2. argv \in Seq(Text)
  BY StartupAssumption DEF IInv, ProgressInv, Text
<1>3. old \in Seq(Entry) /\ Kept(old) = OptionsOf(argv) /\ Kept(old) \in Seq(Options)
  <2>1. SubSeq(argv, 1, Len(argv)) = argv
    BY <1>2, FrontGrows
  <2>2. Kept(old) = OptionsOf(argv)
    BY <1>1, <2>1 DEF OptionsInv
  <2>3. QED
    BY <1>2, <2>2, OptionsOfWords DEF OptionsInv
<1>4. /\ names \in SUBSET (DOMAIN old) /\ Len(old) \in Nat /\ DOMAIN old = 1 .. Len(old)
      /\ names # {} => Min(names) \in names /\ IsFirst(Min(names), names)
      /\ \A k \in names : IsFirst(k, names) => k = Min(names)
  <2>1. names \in SUBSET (DOMAIN old)
    BY DEF Entries
  <2> HIDE DEF names
  <2>2. QED
    BY <1>3, <2>1, FirstEntry, LenProperties
<1>5. CASE names = {} \/ old[Min(names)].theValue \notin DOMAIN disk
  <2>1. new = old
    BY <1>1, <1>5
  <2>2. OptionsRead(old)
    <3>1. {k \in names : IsFirst(k, names) /\ old[k].theValue \in DOMAIN disk} = {}
      <4> HIDE DEF names
      <4>1. QED
        BY <1>4, <1>5
    <3>2. QED
      BY <1>3, <3>1 DEF OptionsRead
  <2>3. OptionsRead(theConfigData)'
    BY <1>1, <2>1, <2>2 DEF OptionsRead
  <2>4. QED
    BY <1>1, <1>3, <2>1, <2>3, OptionsAreReadNext DEF OptionsInv
<1>6. CASE names # {} /\ old[Min(names)].theValue \in DOMAIN disk
  <2> DEFINE first == Min(names)
             text == disk[old[first].theValue]
  <2>1. new = LoadConfigFile(old, text)
    BY <1>1, <1>6
  <2>2. text \in Text
    <3>1. disk \in Disks
      BY DEF IInv, ProgressInv
    <3>2. QED
      BY <1>6, <3>1, StartupAssumption DEF Text
  <2> HIDE DEF text
  <2>3. /\ new \in Seq(Entry)
        /\ Kept(new) = OptionsOf(argv) \o OptionsOf(Words(LoadFile(text)))
        /\ Len(old) <= Len(new) /\ \A k \in 1 .. Len(old) : new[k] = old[k]
    <3> HIDE DEF old, new
    <3>1. QED
      BY <1>3, <2>1, <2>2, FileIsRead
  <2>4. Len(new) \in Nat /\ DOMAIN new = 1 .. Len(new)
    <3> HIDE DEF new
    <3>1. QED
      BY <2>3, LenProperties
  <2>5. first \in names /\ first \in 1 .. Len(old) /\ first \in 1 .. Len(new) /\ new[first] = old[first]
    <3> HIDE DEF names, new, old
    <3>1. first \in names /\ first \in 1 .. Len(old)
      BY <1>4, <1>6
    <3> HIDE DEF first
    <3>2. QED
      BY <1>4, <2>3, <2>4, <3>1
  <2>6. first \in named
    BY <2>4, <2>5 DEF Entries
  <2>7. ASSUME NEW k \in named, IsFirst(k, named)
        PROVE  k = first
    <3> HIDE DEF first
    <3>1. k \in 1 .. Len(new) /\ k <= first /\ Names(new[k], "config", "filename")
      BY <2>4, <2>6, <2>7 DEF IsFirst, Entries
    <3>2. k \in 1 .. Len(old)
      BY <1>4, <2>4, <2>5, <3>1
    <3>3. k \in names
      BY <1>4, <2>3, <3>1, <3>2 DEF Entries
    <3>4. first <= k
      <4> HIDE DEF names
      <4>1. QED
        BY <1>4, <1>6, <3>3 DEF IsFirst, first
    <3>5. QED
      BY <1>4, <2>5, <3>1, <3>2, <3>4
  <2>8. IsFirst(first, named)
    <3>1. ASSUME NEW k \in named PROVE first <= k
      <4> HIDE DEF first
      <4>1. k \in 1 .. Len(new) /\ Names(new[k], "config", "filename")
        BY <2>4 DEF Entries
      <4>2. CASE k <= Len(old)
        <5>1. k \in names
          BY <1>4, <2>3, <4>1, <4>2 DEF Entries
        <5>2. QED
          <6> HIDE DEF names
          <6>1. QED
            BY <1>4, <1>6, <5>1 DEF IsFirst, first
      <4>3. CASE ~ k <= Len(old)
        BY <1>4, <2>4, <2>5, <4>1, <4>3
      <4>4. QED
        BY <4>2, <4>3
    <3>2. QED
      BY <2>6, <3>1 DEF IsFirst
  <2> DEFINE files == {k \in named : IsFirst(k, named) /\ new[k].theValue \in DOMAIN disk}
  <2>9. files = {first} /\ disk[new[first].theValue] = text
    <3>1. new[first].theValue = old[first].theValue
      BY <2>5
    <3>2. new[first].theValue \in DOMAIN disk
      BY <1>6, <3>1
    <3> HIDE DEF named, names, first, new, old
    <3>3. QED
      BY <2>6, <2>7, <2>8, <3>1, <3>2 DEF text
  <2>10. /\ files = {} => Kept(new) = OptionsOf(argv)
         /\ \A k \in files :
              Kept(new) = OptionsOf(argv) \o OptionsOf(Words(LoadFile(disk[new[k].theValue])))
    <3> HIDE DEF files, first, named, names, new, old
    <3>1. QED
      BY <2>3, <2>9
  <2>11. OptionsRead(theConfigData)'
    BY <1>1, <2>10 DEF OptionsRead
  <2>12. QED
    BY <1>1, <2>3, <2>11, OptionsAreReadNext DEF OptionsInv
<1>7. QED
  BY <1>5, <1>6

LEMMA OtherStepsOptions ==
  ASSUME OptionsInv, UNCHANGED <<argv, i, disk, theConfigData>>, pc' = "processArgs" <=> pc = "processArgs"
  PROVE  OptionsInv'
<1>1. OptionsRead(theConfigData)' <=> OptionsRead(theConfigData)
  BY DEF OptionsRead, Kept
<1>2. Kept(theConfigData)' = Kept(theConfigData) /\ OptionsOf(SubSeq(argv, 1, i))' = OptionsOf(SubSeq(argv, 1, i))
  BY DEF Kept
<1>3. QED
  BY <1>1, <1>2, OptionsAreReadIs, OptionsAreReadNext DEF OptionsInv

LEMMA NextOptions ==
  IInv /\ OptionsInv /\ [Next]_vars => OptionsInv'
<1> SUFFICES ASSUME IInv, OptionsInv, [Next]_vars PROVE OptionsInv'
  OBVIOUS
<1>1. CASE UNCHANGED vars
  BY <1>1, OtherStepsOptions DEF vars, configVars
<1>2. CASE ProcessArg
  BY <1>2, ProcessArgOptions
<1>3. CASE LoadConfiguration
  BY <1>3, LoadConfigurationOptions
<1>4. CASE InitializeSdl
  BY <1>4, OtherStepsOptions DEF InitializeSdl, configVars
<1>5. CASE \E k \in DOMAIN FactoryTypes : ProcessSingleMemoryType(k)
  BY <1>5, OtherStepsOptions DEF ProcessSingleMemoryType, configVars
<1>6. CASE ChooseStartAddress
  BY <1>6, OtherStepsOptions DEF ChooseStartAddress, configVars
<1>7. CASE ResetAll
  BY <1>7, OtherStepsOptions DEF ResetAll, configVars
<1>8. CASE EnableDebugger
  BY <1>8, OtherStepsOptions DEF EnableDebugger, configVars
<1>9. QED
  BY <1>1, <1>2, <1>3, <1>4, <1>5, <1>6, <1>7, <1>8 DEF Next

-----------------------------------------------------------------------------
(* The start address.                                                      *)

\* The start address that the options give a ROM, of the first of them that is one.
RomStart(configData, name) ==
  IF EntriesOf(configData, "ROM", name, "startEmulatorAddress") = {} THEN NotSet
  ELSE GetIntegerConfigValueOf(configData, "ROM", name, "startEmulatorAddress") % AddressLimit

LEMMA RomOfOptions ==
  ASSUME NEW type \in Types, NEW name, ConfiguredDevice(type, name).type = "ROM"
  PROVE  LET rom == ConfiguredDevice(type, name) IN
         rom.theStartEmulationAddress = RomStart(theConfigData, rom.theName)
<1>1. type = "ROM"
  BY DEF ConfiguredDevice, Types, FactoryTypes
<1> DEFINE rom == ConfiguredDevice(type, name)
<1>2. /\ rom.theName = name
      /\ rom.theStartEmulationAddress =
           IF IsConfigPresentOf(theConfigData, type, name, "startEmulatorAddress")
           THEN GetIntegerConfigValueOf(theConfigData, type, name, "startEmulatorAddress") % AddressLimit
           ELSE NotSet
  BY <1>1 DEF ConfiguredDevice
<1>3. QED
  BY <1>1, <1>2 DEF RomStart, IsConfigPresentOf

\* What StartsWhereTold says of a start address.
StartOf(d) == EntriesOf(theConfigData, "ROM", d.theName, "startEmulatorAddress")
Told == Entries(theConfigData, "emulator", "startAddress")
Readable == {k \in Told : Parsed(k) # OutOfRange}
StartingRoms == {d \in Memory!Devices : d.type = "ROM" /\ StartOf(d) # {}}
StartTold(start) ==
  \/ Told # {} /\ Readable = {} /\ start = 0
  \/ \E k \in Readable : IsFirst(k, Readable) /\ start = Number(k)
  \/ Told = {} /\ StartingRoms = {} /\ start = 0
  \/ /\ Told = {}
     /\ \E d \in StartingRoms : /\ \A e \in StartingRoms : d.theAddress <= e.theAddress
                                /\ \E k \in StartOf(d) : IsFirst(k, StartOf(d)) /\ start = Number(k)

LEMMA StartsWhereToldIs ==
  StartsWhereTold <=> (pc \in {"reset", "enableDebugger", "run"} => StartTold(startAddress))
<1>1. Read("emulator", "startAddress") = Told
  BY DEF Read, Told, Entries, Names
<1>2. \A d : d.type = "ROM" => ReadOf(d, "startEmulatorAddress") = StartOf(d)
  BY DEF Read, ReadOf, StartOf, EntriesOf, NamesOf, Names
<1>3. QED
  BY <1>1, <1>2 DEF StartsWhereTold, StartTold, Readable, StartingRoms, Number, Parsed

LEMMA StartsWhereToldNext ==
  ASSUME UNCHANGED <<theConfigData, theDevices>>
  PROVE  StartsWhereTold' <=> (pc' \in {"reset", "enableDebugger", "run"} => StartTold(startAddress'))
<1>1. Read("emulator", "startAddress")' = Told'
  BY DEF Read, Told, Entries, Names
<1>2. \A d : d.type = "ROM" => ReadOf(d, "startEmulatorAddress")' = StartOf(d)'
  BY DEF Read, ReadOf, StartOf, EntriesOf, NamesOf, Names
<1>3. StartsWhereTold' <=> (pc' \in {"reset", "enableDebugger", "run"} => StartTold(startAddress)')
  BY <1>1, <1>2 DEF StartsWhereTold, StartTold, Readable, StartingRoms, Number, Parsed
<1>4. StartTold(startAddress)' <=> StartTold(startAddress')
  BY DEF StartTold, Told, Readable, StartingRoms, StartOf, Number, Parsed, Memory!Devices
<1>5. QED
  BY <1>3, <1>4

\* Every ROM of the map has the start address that the options give it, and the first
\* device of the list that names one is the one that lies lowest.
StartInv ==
  /\ pc \in {"processArgs", "initializeSdl"} => theDevices = <<>>
  /\ \A d \in Memory!Devices :
       d.type = "ROM" => d.theStartEmulationAddress = RomStart(theConfigData, d.theName)
  /\ Ordered(theDevices)
  /\ StartsWhereTold

LEMMA InitStart ==
  Init => StartInv
<1> SUFFICES ASSUME Init PROVE StartInv
  OBVIOUS
<1>1. theDevices = <<>> /\ pc = "processArgs"
  BY DEF Init
<1>2. DOMAIN theDevices = {} /\ Len(theDevices) = 0
  BY <1>1
<1>3. Memory!Devices = {}
  BY <1>2 DEF Memory!Devices, Memory!Range
<1>4. Ordered(theDevices)
  BY <1>2 DEF Ordered
<1>5. QED
  BY <1>1, <1>3, <1>4, StartsWhereToldIs DEF StartInv

\* A device of the options, or none.
LEMMA ProcessSingleMemoryTypeStart ==
  ASSUME IInv, StartInv, NEW k \in DOMAIN FactoryTypes, ProcessSingleMemoryType(k)
  PROVE  StartInv'
<1>1. pc = "build" /\ pc' = "build" /\ UNCHANGED <<disk, theConfigData>>
  BY DEF ProcessSingleMemoryType, configVars
<1>2. PICK instance \in Pending(k) :
        IF ConfigSelf(instance[1], instance[2])
        THEN Memory!AddNewDevice(ConfiguredDevice(instance[1], instance[2]))
        ELSE UNCHANGED <<theDevices, refused>>
  BY DEF ProcessSingleMemoryType
<1> DEFINE device == ConfiguredDevice(instance[1], instance[2])
<1>3. instance[1] \in Types
  BY DEF Pending, Instances, Types
<1>4. DeviceFits(device)
  BY <1>3, ConfiguredDeviceFits DEF IInv, ProgressInv
<1>5. device.type = "ROM" => device.theStartEmulationAddress = RomStart(theConfigData, device.theName)
  BY <1>3, RomOfOptions
<1> HIDE DEF device
<1>6. /\ Ordered(theDevices')
      /\ Memory!Devices' = Memory!Devices \/ Memory!Devices' = Memory!Devices \union {device}
  <2>1. CASE UNCHANGED <<theDevices, refused>>
    BY <2>1 DEF Memory!Devices, StartInv
  <2>2. CASE Memory!AddNewDevice(device)
    <3>1. theDevices \in Seq(Memory!Devices) /\ \A d \in Memory!Devices \union {device} : DeviceFits(d)
      BY <1>4 DEF IInv, DeviceInv
    <3>2. QED
      BY <2>2, <3>1, NewDevice DEF StartInv
  <2>3. QED
    BY <1>2, <2>1, <2>2 DEF device
<1>7. \A d \in Memory!Devices' :
        d.type = "ROM" => d.theStartEmulationAddress = RomStart(theConfigData', d.theName)
  BY <1>1, <1>5, <1>6 DEF StartInv
<1>8. StartsWhereTold'
  BY <1>1 DEF StartsWhereTold
<1>9. QED
  <2>1. \A d \in Memory!Devices' :
          (d.type = "ROM" => d.theStartEmulationAddress = RomStart(theConfigData, d.theName)')
    BY <1>7 DEF RomStart
  <2>2. Ordered(theDevices)'
    BY <1>6 DEF Ordered
  <2>3. QED
    BY <1>1, <1>8, <2>1, <2>2 DEF StartInv

\* The option decides, ...
LEMMA ToldByOption ==
  ASSUME IInv, OptionsInv, Told # {}
  PROVE  StartTold(OptionalInteger("emulator", "startAddress") % AddressLimit)
<1> DEFINE parsed == {k \in Told : ParseUInt32(theConfigData[k].theValue) # OutOfRange}
           told == GetIntegerConfigValue(theConfigData, "emulator", "startAddress")
<1>1. OptionalInteger("emulator", "startAddress") = told
  BY DEF OptionalInteger, IsConfigPresent, Told
<1>2. told = IF Readable = {} THEN 0 ELSE Parsed(Min(Readable))
  BY DEF GetIntegerConfigValue, Told, Readable, Parsed
<1> HIDE DEF told
<1>3. CASE Readable = {}
  <2>1. told % AddressLimit = 0
    BY <1>2, <1>3, Sizes
  <2>2. QED
    BY <1>1, <1>3, <2>1 DEF StartTold
<1>4. CASE Readable # {}
  <2> DEFINE first == Min(Readable)
  <2>1. first \in Readable /\ IsFirst(first, Readable)
    <3>1. Readable \in SUBSET (DOMAIN theConfigData)
      BY DEF Readable, Told, Entries
    <3>2. QED
      BY <1>4, <3>1, FirstEntry DEF OptionsInv
  <2>2. told % AddressLimit = Number(first)
    BY <1>2, <1>4, <2>1 DEF Readable, Number
  <2> HIDE DEF first
  <2>3. QED
    BY <1>1, <2>1, <2>2 DEF StartTold
<1>5. QED
  BY <1>3, <1>4

\* ... and without one the lowest ROM that the options give a start address.
LEMMA ToldByDevice ==
  ASSUME IInv, OptionsInv, StartInv, Told = {}
  PROVE  StartTold(GetStartAddress)
<1> DEFINE specifying == {k \in DOMAIN theDevices : DeviceSpecifiesStart(theDevices[k])}
<1>1. /\ DOMAIN theDevices = 1 .. Len(theDevices) /\ Len(theDevices) \in Nat
      /\ Memory!Devices = {theDevices[k] : k \in DOMAIN theDevices}
  BY DEF IInv, DeviceInv, Memory!Devices, Memory!Range
<1>2. ASSUME NEW d, d \in Memory!Devices
      PROVE  DeviceSpecifiesStart(d) <=> d \in StartingRoms
  <2>1. CASE d.type = "ROM"
    <3>1. RomStart(theConfigData, d.theName) = NotSet <=> StartOf(d) = {}
      <4> DEFINE n == GetIntegerConfigValueOf(theConfigData, "ROM", d.theName, "startEmulatorAddress")
      <4>1. n \in Int
        BY NumbersAreIntegers
      <4> HIDE DEF n
      <4>2. n % AddressLimit # NotSet
        BY <4>1, SixteenBits, Sizes DEF Address, NotSet
      <4>3. RomStart(theConfigData, d.theName) = IF StartOf(d) = {} THEN NotSet ELSE n % AddressLimit
        BY DEF RomStart, StartOf, n
      <4>4. QED
        BY <4>2, <4>3
    <3>2. d.theStartEmulationAddress = RomStart(theConfigData, d.theName)
      BY <1>2, <2>1 DEF StartInv
    <3>3. QED
      BY <1>2, <2>1, <3>1, <3>2 DEF DeviceSpecifiesStart, StartingRoms
  <2>2. CASE d.type # "ROM"
    BY <2>2 DEF DeviceSpecifiesStart, StartingRoms
  <2>3. QED
    BY <2>1, <2>2
<1>3. CASE specifying = {}
  <2>1. StartingRoms = {}
    BY <1>1, <1>2, <1>3 DEF StartingRoms
  <2>2. GetStartAddress = 0
    BY <1>3 DEF GetStartAddress
  <2>3. QED
    BY <2>1, <2>2 DEF StartTold
<1>4. CASE specifying # {}
  <2> DEFINE lowest == Min(specifying)
             d == theDevices[lowest]
  <2>1. lowest \in specifying /\ \A k \in specifying : lowest <= k
    <3>1. specifying \in SUBSET Nat
      BY <1>1
    <3> HIDE DEF specifying
    <3>2. PICK q \in specifying : \A r \in specifying : q <= r
      BY <1>4, <3>1, LeastNatural
    <3>3. QED
      BY <3>2 DEF Min
  <2>2. d = theDevices[Min(specifying)]
    OBVIOUS
  <2>3. GetStartAddress = d.theStartEmulationAddress
    BY <1>4 DEF GetStartAddress
  <2> HIDE DEF lowest
  <2>4. lowest \in 1 .. Len(theDevices) /\ d \in Memory!Devices /\ d \in StartingRoms
    BY <1>1, <1>2, <2>1
  <2>5. d.type = "ROM" /\ StartOf(d) # {}
    BY <2>4 DEF StartingRoms
  <2>6. ASSUME NEW e \in StartingRoms
        PROVE  d.theAddress <= e.theAddress
    <3>1. e \in Memory!Devices
      BY DEF StartingRoms
    <3>2. PICK k \in DOMAIN theDevices : e = theDevices[k]
      BY <1>1, <3>1
    <3>3. k \in specifying
      BY <1>2, <3>1, <3>2
    <3>4. k \in 1 .. Len(theDevices) /\ lowest <= k
      BY <1>1, <2>1, <3>3
    <3>5. CASE lowest = k
      <4>1. d.theAddress \in Int
        BY <2>4, Sizes DEF IInv, DeviceInv, DeviceFits, Address
      <4>2. QED
        BY <3>2, <3>5, <4>1
    <3>6. CASE lowest < k
      BY <2>4, <3>2, <3>4, <3>6 DEF StartInv, Ordered
    <3>7. QED
      BY <1>1, <2>4, <3>4, <3>5, <3>6
  <2> DEFINE first == Min(StartOf(d))
  <2>7. first \in StartOf(d) /\ IsFirst(first, StartOf(d))
    <3>1. StartOf(d) \in SUBSET (DOMAIN theConfigData)
      BY DEF StartOf, EntriesOf
    <3>2. QED
      BY <2>5, <3>1, FirstEntry DEF OptionsInv
  <2>8. GetStartAddress = Number(first)
    <3>1. GetStartAddress = RomStart(theConfigData, d.theName)
      BY <2>3, <2>4, <2>5 DEF StartInv
    <3>2. RomStart(theConfigData, d.theName) =
            (IF Parsed(first) = OutOfRange THEN 0 ELSE Parsed(first)) % AddressLimit
      BY <2>5 DEF RomStart, StartOf, GetIntegerConfigValueOf, GetStringConfigValueOf, Parsed
    <3> HIDE DEF first
    <3>3. 0 % AddressLimit = 0
      BY Sizes
    <3>4. QED
      BY <3>1, <3>2, <3>3 DEF Number
  <2> HIDE DEF d, first
  <2>9. QED
    BY <2>4, <2>6, <2>7, <2>8 DEF StartTold
<1>5. QED
  BY <1>3, <1>4

\* A step that builds nothing and changes no option.
LEMMA OtherStepsStart ==
  ASSUME StartInv, UNCHANGED <<theConfigData, theDevices>>, StartsWhereTold',
         pc' \in {"processArgs", "initializeSdl"} => pc \in {"processArgs", "initializeSdl"}
  PROVE  StartInv'
<1>1. Memory!Devices' = Memory!Devices /\ \A name : RomStart(theConfigData, name)' = RomStart(theConfigData, name)
  BY DEF Memory!Devices, RomStart
<1>2. QED
  BY <1>1 DEF StartInv, Ordered

LEMMA NextStart ==
  IInv /\ OptionsInv /\ StartInv /\ [Next]_vars => StartInv'
<1> SUFFICES ASSUME IInv, OptionsInv, StartInv, [Next]_vars PROVE StartInv'
  OBVIOUS
<1>1. CASE UNCHANGED vars \/ InitializeSdl \/ ResetAll \/ EnableDebugger
  <2>1. /\ UNCHANGED <<theConfigData, theDevices, startAddress>>
        /\ pc' \in {"processArgs", "initializeSdl"} => pc \in {"processArgs", "initializeSdl"}
        /\ pc' \in {"reset", "enableDebugger", "run"} => pc \in {"reset", "enableDebugger", "run"}
    BY <1>1 DEF vars, InitializeSdl, ResetAll, EnableDebugger, configVars, deviceVars
  <2>2. StartsWhereTold'
    BY <2>1, StartsWhereToldIs, StartsWhereToldNext DEF StartInv
  <2>3. QED
    BY <2>1, <2>2, OtherStepsStart
<1>2. CASE ProcessArg \/ LoadConfiguration
  <2>1. /\ theDevices = <<>> /\ theDevices' = <<>>
        /\ pc' \in {"processArgs", "initializeSdl"}
    BY <1>2 DEF ProcessArg, LoadConfiguration, deviceVars, StartInv
  <2>2. Memory!Devices' = {} /\ Ordered(theDevices)'
    <3>1. DOMAIN theDevices' = {} /\ Len(theDevices') = 0
      BY <2>1
    <3>2. QED
      BY <3>1 DEF Memory!Devices, Memory!Range, Ordered
  <2>3. StartsWhereTold'
    BY <2>1 DEF StartsWhereTold
  <2>4. QED
    BY <2>1, <2>2, <2>3 DEF StartInv
<1>3. CASE \E k \in DOMAIN FactoryTypes : ProcessSingleMemoryType(k)
  BY <1>3, ProcessSingleMemoryTypeStart
<1>4. CASE ChooseStartAddress
  <2>1. /\ pc = "build" /\ pc' = "reset" /\ UNCHANGED <<theConfigData, theDevices>>
        /\ startAddress' = IF Told # {} THEN OptionalInteger("emulator", "startAddress") % AddressLimit
                           ELSE GetStartAddress
    BY <1>4 DEF ChooseStartAddress, configVars, deviceVars, IsConfigPresent, Told
  <2>2. StartTold(startAddress')
    BY <2>1, ToldByOption, ToldByDevice
  <2>3. StartsWhereTold'
    BY <2>1, <2>2, StartsWhereToldNext
  <2>4. QED
    BY <2>1, <2>3, OtherStepsStart
<1>5. QED
  BY <1>1, <1>2, <1>3, <1>4 DEF Next

-----------------------------------------------------------------------------
(* The map that the threads start on.                                      *)

MirrorSources(name) == EntriesOf(theConfigData, "MirrorMemory", name, "sourceAddress")
MirrorSource(name) ==
  GetIntegerConfigValueOf(theConfigData, "MirrorMemory", name, "sourceAddress") % AddressLimit

Refuses(d, device) == Memory!RangesOverlap(Memory!RangeOf(d), Memory!RangeOf(device))

\* A mirror has the source that its options say; a cartridge that was built is on the map, or
\* some device of the map is in its way.
BuiltInv ==
  /\ pc \in {"processArgs", "initializeSdl"} => theDevices = <<>>
  /\ \A d \in Mirrors : MirrorSources(d.theName) # {} /\ d.source = MirrorSource(d.theName)
  /\ \A b \in built : b[1] = "iNES" /\ ConfigSelf(b[1], b[2]) =>
       \E d \in Memory!Devices \union refused : d.type = "iNES"
  /\ \A d \in refused : \E e \in Memory!Devices : Refuses(e, d)

\* All devices are built before the reset, which ends the process unless the map is whole.
WholeInv ==
  /\ pc \in {"reset", "enableDebugger", "run"} => \A k \in DOMAIN FactoryTypes : Pending(k) = {}
  /\ pc \in {"enableDebugger", "run"} =>
       Cartridges = {} /\ \A d \in Mirrors : Memory!GetDevice(d.source) # Memory!NoDevice

MapInv == BuiltInv /\ WholeInv

LEMMA InitMap ==
  Init => MapInv
<1> SUFFICES ASSUME Init PROVE MapInv
  OBVIOUS
<1>1. pc = "processArgs" /\ theDevices = <<>> /\ refused = {} /\ built = {}
  BY DEF Init
<1>2. Memory!Devices = {}
  <2>1. DOMAIN theDevices = {}
    BY <1>1
  <2>2. QED
    BY <2>1 DEF Memory!Devices, Memory!Range
<1>3. QED
  BY <1>1, <1>2 DEF MapInv, BuiltInv, WholeInv, Mirrors

\* What a step keeps that neither builds a device nor reads an option.
LEMMA SameMap ==
  ASSUME UNCHANGED <<theConfigData, theDevices, refused, built>>
  PROVE  /\ Memory!Devices' = Memory!Devices /\ Mirrors' = Mirrors /\ Cartridges' = Cartridges
         /\ BuiltInv /\ (pc' \in {"processArgs", "initializeSdl"} => pc \in {"processArgs", "initializeSdl"})
              => BuiltInv'
         /\ \A k \in DOMAIN FactoryTypes : Pending(k)' = Pending(k)
         /\ \A addr : Memory!GetDevice(addr)' = Memory!GetDevice(addr)
<1>1. Memory!Devices' = Memory!Devices
  BY DEF Memory!Devices
<1>2. Mirrors' = Mirrors /\ Cartridges' = Cartridges
  BY <1>1 DEF Mirrors, Cartridges
<1>3. /\ \A name : MirrorSources(name)' = MirrorSources(name) /\ MirrorSource(name)' = MirrorSource(name)
      /\ \A type, name : ConfigSelf(type, name)' = ConfigSelf(type, name)
  BY DEF MirrorSources, MirrorSource, ConfigSelf
<1>4. \A k \in DOMAIN FactoryTypes : Pending(k)' = Pending(k)
  BY DEF Pending, Instances
<1>5. \A addr : Memory!GetDevice(addr)' = Memory!GetDevice(addr)
  BY DEF Memory!GetDevice
<1>6. QED
  BY <1>1, <1>2, <1>3, <1>4, <1>5 DEF BuiltInv

\* A device is built from its options, and refused only for one of the map.
LEMMA ProcessSingleMemoryTypeMap ==
  ASSUME IInv, MapInv, NEW k \in DOMAIN FactoryTypes, ProcessSingleMemoryType(k)
  PROVE  MapInv'
<1>1. pc = "build" /\ pc' = "build" /\ UNCHANGED <<disk, theConfigData>>
  BY DEF ProcessSingleMemoryType, configVars
<1>2. PICK instance \in Pending(k) :
        /\ IF ConfigSelf(instance[1], instance[2])
           THEN Memory!AddNewDevice(ConfiguredDevice(instance[1], instance[2]))
           ELSE UNCHANGED <<theDevices, refused>>
        /\ built' = built \union {instance}
  BY DEF ProcessSingleMemoryType
<1> DEFINE device == ConfiguredDevice(instance[1], instance[2])
<1>3. instance[1] \in Types
  BY DEF Pending, Instances, Types
<1>4. DeviceFits(device) /\ device.type = instance[1]
  BY <1>3, ConfiguredDeviceFits DEF IInv, ProgressInv
<1>5. ASSUME ConfigSelf(instance[1], instance[2]), device.type = "MirrorMemory"
      PROVE  MirrorSources(device.theName) # {} /\ device.source = MirrorSource(device.theName)
  <2>1. instance[1] = "MirrorMemory"
    BY <1>4, <1>5
  <2>2. device.theName = instance[2] /\ device.source = MirrorSource(instance[2])
    BY <2>1 DEF ConfiguredDevice, MirrorSource
  <2>3. MirrorSources(instance[2]) # {}
    BY <1>5, <2>1 DEF ConfigSelf, ConfigParams, IsConfigPresentOf, MirrorSources
  <2>4. QED
    BY <2>2, <2>3
<1> HIDE DEF device
<1>6. /\ \A name : MirrorSources(name)' = MirrorSources(name) /\ MirrorSource(name)' = MirrorSource(name)
      /\ \A type, name : ConfigSelf(type, name)' = ConfigSelf(type, name)
  BY <1>1 DEF MirrorSources, MirrorSource, ConfigSelf
<1>7. BuiltInv
  BY DEF MapInv
<1>8. BuiltInv'
  <2>1. CASE ~ ConfigSelf(instance[1], instance[2])
    <3>1. UNCHANGED <<theDevices, refused>>
      BY <1>2, <2>1
    <3>2. Memory!Devices' = Memory!Devices
      BY <3>1 DEF Memory!Devices
    <3>3. QED
      BY <1>1, <1>2, <1>6, <1>7, <2>1, <3>1, <3>2 DEF BuiltInv, Mirrors
  <2>2. CASE ConfigSelf(instance[1], instance[2])
    <3>1. theDevices \in Seq(Memory!Devices) /\ \A d \in Memory!Devices \union {device} : DeviceFits(d)
      BY <1>4 DEF IInv, DeviceInv
    <3>2. \/ /\ Memory!Devices' = Memory!Devices
             /\ refused' = refused \union {device}
             /\ \E d \in Memory!Devices : Refuses(d, device)
          \/ /\ Memory!Devices' = Memory!Devices \union {device}
             /\ refused' = refused
      <4>1. Memory!AddNewDevice(device)
        BY <1>2, <2>2 DEF device
      <4>2. QED
        BY <3>1, <4>1, NewDevice DEF Refuses
    <3>3. \A d \in Mirrors' : MirrorSources(d.theName)' # {} /\ d.source = MirrorSource(d.theName)'
      BY <1>5, <1>6, <1>7, <2>2, <3>2 DEF BuiltInv, Mirrors
    <3>4. ASSUME NEW b \in built', b[1] = "iNES", ConfigSelf(b[1], b[2])
          PROVE  \E d \in Memory!Devices' \union refused' : d.type = "iNES"
      <4>1. CASE b \in built
        BY <1>7, <3>2, <3>4, <4>1 DEF BuiltInv
      <4>2. CASE b = instance
        BY <1>4, <3>2, <3>4, <4>2
      <4>3. QED
        BY <1>2, <4>1, <4>2
    <3>5. \A d \in refused' : \E e \in Memory!Devices' : Refuses(e, d)
      BY <1>7, <3>2 DEF BuiltInv
    <3>6. QED
      BY <1>1, <1>6, <3>3, <3>4, <3>5 DEF BuiltInv, Refuses
  <2>3. QED
    BY <2>1, <2>2
<1>9. QED
  BY <1>1, <1>8 DEF MapInv, WholeInv

LEMMA NextMap ==
  IInv /\ MapInv /\ [Next]_vars => MapInv'
<1> SUFFICES ASSUME IInv, MapInv, [Next]_vars PROVE MapInv'
  OBVIOUS
<1>1. CASE UNCHANGED vars \/ InitializeSdl \/ EnableDebugger
  <2>1. /\ UNCHANGED <<theConfigData, theDevices, refused, built>>
        /\ pc' \in {"processArgs", "initializeSdl"} => pc \in {"processArgs", "initializeSdl"}
        /\ pc' \in {"reset", "enableDebugger", "run"} => pc \in {"reset", "enableDebugger", "run"}
        /\ pc' \in {"enableDebugger", "run"} => pc \in {"enableDebugger", "run"}
    BY <1>1 DEF vars, InitializeSdl, EnableDebugger, configVars, deviceVars
  <2>2. QED
    BY <2>1, SameMap DEF MapInv, WholeInv
<1>2. CASE ProcessArg \/ LoadConfiguration
  <2>1. /\ theDevices = <<>> /\ theDevices' = <<>> /\ built' = {} /\ refused' = refused
        /\ pc' \in {"processArgs", "initializeSdl"}
    BY <1>2 DEF ProcessArg, LoadConfiguration, deviceVars, MapInv, BuiltInv, IInv, DeviceInv
  <2>2. Memory!Devices = {} /\ Memory!Devices' = {}
    <3>1. DOMAIN theDevices = {} /\ DOMAIN theDevices' = {}
      BY <2>1
    <3>2. QED
      BY <3>1 DEF Memory!Devices, Memory!Range
  <2>3. refused' = {}
    BY <2>1, <2>2 DEF MapInv, BuiltInv
  <2>4. QED
    BY <2>1, <2>2, <2>3 DEF MapInv, BuiltInv, WholeInv, Mirrors
<1>3. CASE \E k \in DOMAIN FactoryTypes : ProcessSingleMemoryType(k)
  BY <1>3, ProcessSingleMemoryTypeMap
<1>4. CASE ChooseStartAddress
  <2>1. /\ UNCHANGED <<theConfigData, theDevices, refused, built>> /\ pc' = "reset"
        /\ \A k \in DOMAIN FactoryTypes : Pending(k) = {}
    BY <1>4 DEF ChooseStartAddress, configVars, deviceVars
  <2>2. QED
    BY <2>1, SameMap DEF MapInv, WholeInv
<1>5. CASE ResetAll
  <2>1. /\ UNCHANGED <<theConfigData, theDevices, refused, built>>
        /\ pc = "reset" /\ pc' \in {"enableDebugger", "ended"}
        /\ pc' = "enableDebugger" =>
             Cartridges = {} /\ \A d \in Mirrors : Memory!GetDevice(d.source) # Memory!NoDevice
    BY <1>5 DEF ResetAll, configVars, deviceVars
  <2>2. QED
    BY <2>1, SameMap DEF MapInv, WholeInv
<1>6. QED
  BY <1>1, <1>2, <1>3, <1>4, <1>5 DEF Next

\* What is in a cartridge's way reaches its addresses, or is empty and at 0.
LEMMA InTheWayOfCartridge ==
  ASSUME NEW d, NEW cartridge, DeviceFits(d), DeviceFits(cartridge), cartridge.type = "iNES",
         Refuses(d, cartridge)
  PROVE  d.theAddress + d.theSize > PRG_RAM_ADDR \/ d.theAddress + d.theSize = 0
<1> DEFINE address == d.theAddress
           size == d.theSize
<1>1. /\ address \in Nat /\ size \in Nat /\ address < AddressLimit /\ size < AddressLimit
  BY Sizes DEF DeviceFits, Address
<1>2. Memory!Wrapped(address + size - 1) >= PRG_RAM_ADDR
  <2>1. cartridge.theAddress = PRG_RAM_ADDR
    BY DEF DeviceFits
  <2>2. QED
    BY <2>1 DEF Refuses, Memory!RangesOverlap, Memory!RangeOf
<1> HIDE DEF address, size
<1>3. address + size > PRG_RAM_ADDR \/ address + size = 0
  BY <1>1, <1>2, Sizes DEF Memory!Wrapped
<1>4. QED
  BY <1>3 DEF address, size

LEMMA MapIsWhole ==
  ASSUME IInv, OptionsInv, MapInv
  PROVE  RunsOnAWholeMap
<1> SUFFICES ASSUME pc \in {"enableDebugger", "run"} PROVE
      /\ \A d \in Mirrors : \E k \in DOMAIN theConfigData :
           /\ IsFirst(k, ReadOf(d, "sourceAddress"))
           /\ \E e \in Memory!Devices : Memory!Claims(e, Number(k))
      /\ Read("iNES", "filename") # {} =>
           \E d \in Memory!Devices \ Cartridges :
             d.theAddress + d.theSize > PRG_RAM_ADDR \/ d.theAddress + d.theSize = 0
  BY DEF RunsOnAWholeMap
<1>1. Cartridges = {} /\ \A d \in Mirrors : Memory!GetDevice(d.source) # Memory!NoDevice
  BY DEF MapInv, WholeInv
<1>2. ASSUME NEW d \in Mirrors
      PROVE  \E k \in DOMAIN theConfigData :
               /\ IsFirst(k, ReadOf(d, "sourceAddress"))
               /\ \E e \in Memory!Devices : Memory!Claims(e, Number(k))
  <2>1. ReadOf(d, "sourceAddress") = MirrorSources(d.theName)
    BY DEF Mirrors, ReadOf, Read, MirrorSources, EntriesOf, NamesOf, Names
  <2>2. MirrorSources(d.theName) # {} /\ d.source = MirrorSource(d.theName)
    BY DEF MapInv, BuiltInv
  <2> DEFINE first == Min(MirrorSources(d.theName))
  <2>3. first \in MirrorSources(d.theName) /\ IsFirst(first, MirrorSources(d.theName))
    <3>1. MirrorSources(d.theName) \in SUBSET (DOMAIN theConfigData)
      BY DEF MirrorSources, EntriesOf
    <3>2. QED
      BY <2>2, <3>1, FirstEntry DEF OptionsInv
  <2>4. d.source = Number(first)
    <3>1. d.source = (IF Parsed(first) = OutOfRange THEN 0 ELSE Parsed(first)) % AddressLimit
      BY <2>2 DEF MirrorSource, MirrorSources, GetIntegerConfigValueOf, GetStringConfigValueOf, Parsed
    <3> HIDE DEF first
    <3>2. 0 % AddressLimit = 0
      BY Sizes
    <3>3. QED
      BY <3>1, <3>2 DEF Number
  <2>5. \E e \in Memory!Devices : Memory!Claims(e, d.source)
    <3>1. PICK j \in DOMAIN theDevices : Memory!Claims(theDevices[j], d.source)
      BY <1>1 DEF Memory!GetDevice
    <3>2. theDevices[j] \in Memory!Devices
      BY DEF IInv, DeviceInv
    <3>3. QED
      BY <3>1, <3>2
  <2>6. first \in DOMAIN theConfigData
    BY <2>3 DEF MirrorSources, EntriesOf
  <2> HIDE DEF first
  <2>7. QED
    BY <2>1, <2>3, <2>4, <2>5, <2>6
<1>3. ASSUME NEW k \in Read("iNES", "filename")
      PROVE  \E d \in Memory!Devices \ Cartridges :
               d.theAddress + d.theSize > PRG_RAM_ADDR \/ d.theAddress + d.theSize = 0
  <2> DEFINE entry == theConfigData[k]
  <2>1. k \in DOMAIN theConfigData /\ entry.theType = <<"iNES">> /\ entry.theMember = <<"filename">>
    BY DEF Read
  <2>2. entry \in {c \in Range(theConfigData) : c.theType = <<"iNES">>}
    BY <2>1 DEF Range
  <2>3. <<"iNES", entry.theName>> \in Instances("iNES")
    BY <2>2 DEF Instances, GetConfigTypeInstanceNames
  <2>4. <<"iNES", entry.theName>> \in built
    <3>1. 6 \in DOMAIN FactoryTypes /\ FactoryTypes[6] = "iNES"
      BY DEF FactoryTypes
    <3>2. Pending(6) = {}
      BY <3>1 DEF MapInv, WholeInv
    <3>3. QED
      BY <2>3, <3>1, <3>2 DEF Pending
  <2>5. ConfigSelf("iNES", entry.theName)
    <3>1. k \in EntriesOf(theConfigData, "iNES", entry.theName, "filename")
      BY <2>1 DEF EntriesOf, NamesOf, Names
    <3>2. ConfigParams("iNES") = {"filename"}
      BY DEF ConfigParams
    <3>3. QED
      BY <3>1, <3>2 DEF ConfigSelf, IsConfigPresentOf
  <2> HIDE DEF entry
  <2>6. PICK cartridge \in Memory!Devices \union refused : cartridge.type = "iNES"
    BY <2>4, <2>5 DEF MapInv, BuiltInv
  <2>7. cartridge \in refused
    BY <1>1, <2>6 DEF Cartridges
  <2>8. PICK d \in Memory!Devices : Refuses(d, cartridge)
    BY <2>7 DEF MapInv, BuiltInv
  <2>9. d.theAddress + d.theSize > PRG_RAM_ADDR \/ d.theAddress + d.theSize = 0
    BY <2>6, <2>8, InTheWayOfCartridge DEF IInv, DeviceInv
  <2>10. QED
    BY <1>1, <2>9
<1>4. QED
  BY <1>2, <1>3

-----------------------------------------------------------------------------
(* The theorems.                                                           *)

\* Addresses and sizes have 16 bits however long the numbers of the options are, and every
\* device that was built belongs to an instance that the options still name.
THEOREM TypeCorrect ==
  Spec => []TypeOK
<1>1. IInv => TypeOK
  <2> SUFFICES ASSUME IInv PROVE TypeOK
    OBVIOUS
  <2>1. \A d \in Memory!Devices \union refused : {d.theAddress, d.theSize} \subseteq Address
    BY DEF IInv, DeviceInv, DeviceFits
  <2>2. \A t \in DOMAIN FactoryTypes : \A b \in built : b[1] = FactoryTypes[t] => b \in Instances(b[1])
    BY DEF IInv, DeviceInv
  <2>3. QED
    BY <2>1, <2>2 DEF IInv, ProgressInv, TypeOK
<1>2. QED
  BY <1>1, InitInv, NextInv, PTL DEF Spec

\* Every option of the arguments and of the configuration file is there when the devices
\* are built from them, in the order that decides between two of them.
THEOREM OptionsAreReadCorrect ==
  Spec => []OptionsAreRead
<1>1. OptionsInv => OptionsAreRead
  BY DEF OptionsInv
<1>2. QED
  BY <1>1, InitInv, NextInv, InitOptions, NextOptions, PTL DEF Spec

\* The program starts where the option says, or where the lowest ROM that names an address
\* says, or at 0, and never where a cartridge says.
THEOREM StartsWhereToldCorrect ==
  Spec => []StartsWhereTold
<1>1. StartInv => StartsWhereTold
  BY DEF StartInv
<1>2. QED
  BY <1>1, InitInv, NextInv, InitOptions, NextOptions, InitStart, NextStart, PTL DEF Spec

\* The threads start only with a device behind every mirror, where its options say, and
\* without a cartridge: one that the options name was refused for a device in its way.
THEOREM RunsOnAWholeMapCorrect ==
  Spec => []RunsOnAWholeMap
<1>1. IInv /\ OptionsInv /\ MapInv => RunsOnAWholeMap
  BY MapIsWhole
<1>2. QED
  BY <1>1, InitInv, NextInv, InitOptions, NextOptions, InitMap, NextMap, PTL DEF Spec
=============================================================================
