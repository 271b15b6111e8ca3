-------------------------- MODULE DeviceQueryProofs --------------------------
(***************************************************************************)
(* The safety of DeviceQuery, for any clients, devices, ports and block    *)
(* devices.                                                                *)
(*                                                                         *)
(* That a path belongs to its device rests on three facts of the bus: no   *)
(* two devices are at one port, a block device goes before its device, and *)
(* what is gone does not come back. So whatever was at the port of the     *)
(* device when the thread looked was the device itself, or the device is   *)
(* gone and nothing will compare equal to it.                              *)
(*                                                                         *)
(* What a lookup has passed over and what a list has so far are invariants *)
(* of their own, Told. The walk and the texts come first: recursions over  *)
(* numbers, which are solved explicitly.                                   *)
(***************************************************************************)
EXTENDS DeviceQuery, FiniteSetTheorems, WellFoundedInduction, TLAPS

-----------------------------------------------------------------------------
(* A lemma about the natural numbers.                                      *)

\* A set of natural numbers has a least element: of the intervals from 0 up to its
\* elements, which are finite sets, one has none of the others within it.
LEMMA LeastNatural == ASSUME NEW T, T \subseteq Nat, T # {}
                      PROVE  \E m \in T : \A k \in T : m <= k
<1> DEFINE Upto(m) == 0..m - 1
           F == {Upto(m) : m \in T}
<1>1. \A m \in T : Upto(m) \in FiniteSubsetsOf(Int)
  BY FS_Interval DEF FiniteSubsetsOf
<1>2. F \subseteq FiniteSubsetsOf(Int) /\ F # {}
  BY <1>1
<1>3. PICK x \in F : \A y \in F : <<y, x>> \notin StrictSubsetOrdering(Int)
  BY <1>2, FS_StrictSubsetOrderingWellFounded, WFMin
<1>4. PICK m \in T : x = Upto(m)
  OBVIOUS
<1>5. ASSUME NEW k \in T, k < m PROVE FALSE
  <2>1. Upto(k) \in F /\ Upto(k) \subseteq Int /\ Upto(m) \subseteq Int
    OBVIOUS
  <2>2. Upto(k) \subseteq Upto(m) /\ k \in Upto(m) /\ k \notin Upto(k)
    BY <1>5
  <2> QED
    BY <1>3, <1>4, <2>1, <2>2 DEF StrictSubsetOrdering
<1> QED
  BY <1>5

-----------------------------------------------------------------------------
(* The walk of findUsbAddressFiles.                                        *)

\* What the recursion of the walk makes of a function.
WalkOnce(chain, w) ==
    [i \in 1..Len(chain) |-> IF chain[i] = Files THEN i
                             ELSE IF i = Len(chain) \/ i = MaxTraversalDepth THEN 0
                             ELSE w[i + 1]]

\* Where the walk which has come to place i may end.
Stops(chain, i) ==
    {k \in i..Len(chain) : chain[k] = Files \/ k = Len(chain) \/ k = MaxTraversalDepth}

\* The recursion has a solution.
LEMMA WalkExists ==
    ASSUME NEW chain \in Seq(SUBSET Files)
    PROVE  \E w : w = WalkOnce(chain, w)
<1> DEFINE n == Len(chain)
           Nearest(i) == CHOOSE m \in Stops(chain, i) : \A k \in Stops(chain, i) : m <= k
           g == [i \in 1..n |-> IF chain[Nearest(i)] = Files THEN Nearest(i) ELSE 0]
<1>1. ASSUME NEW i \in 1..n
      PROVE  /\ Nearest(i) \in Stops(chain, i)
             /\ \A k \in Stops(chain, i) : Nearest(i) <= k
  <2>1. n \in Stops(chain, i) /\ Stops(chain, i) \subseteq Nat
    BY DEF Stops
  <2>2. \E m \in Stops(chain, i) : \A k \in Stops(chain, i) : m <= k
    BY <2>1, LeastNatural
  <2> QED
    BY <2>2
<1> HIDE DEF Nearest
<1>2. ASSUME NEW i \in 1..n, i \in Stops(chain, i) PROVE Nearest(i) = i
  BY <1>1, <1>2 DEF Stops
<1>3. ASSUME NEW i \in 1..n, i \notin Stops(chain, i)
      PROVE  i + 1 \in 1..n /\ Nearest(i) = Nearest(i + 1)
  <2>1. i + 1 \in 1..n
    BY <1>3 DEF Stops
  <2>2. Stops(chain, i) = Stops(chain, i + 1)
    BY <1>3 DEF Stops
  <2> QED
    BY <2>1, <2>2 DEF Nearest
<1>4. ASSUME NEW i \in 1..n PROVE g[i] = WalkOnce(chain, g)[i]
  <2>1. CASE i \in Stops(chain, i)
    BY <1>2, <2>1 DEF Stops, WalkOnce
  <2>2. CASE i \notin Stops(chain, i)
    <3>1. chain[i] # Files /\ i # n /\ i # MaxTraversalDepth
      BY <2>2 DEF Stops
    <3> QED
      BY <1>3, <2>2, <3>1 DEF WalkOnce
  <2> QED
    BY <2>1, <2>2
<1>5. g = WalkOnce(chain, g)
  BY <1>4 DEF WalkOnce
<1> QED
  BY <1>5

\* So the program's walk is one.
LEMMA WalkIsOne ==
    ASSUME NEW chain \in Seq(SUBSET Files), chain # <<>>
    PROVE  \E w : w = WalkOnce(chain, w) /\ FindUsbAddressFiles(chain) = w[1]
<1> DEFINE Once(w) == [i \in 1..Len(chain) |->
                         IF chain[i] = Files THEN i
                         ELSE IF i = Len(chain) \/ i = MaxTraversalDepth THEN 0
                         ELSE w[i + 1]]
           walk == CHOOSE w : w = Once(w)
<1>1. FindUsbAddressFiles(chain) = walk[1]
  BY DEF FindUsbAddressFiles
<1>2. \E w : w = Once(w)
  BY WalkExists DEF WalkOnce
<1> HIDE DEF Once
<1>3. walk = Once(walk)
  BY <1>2
<1> HIDE DEF walk
<1>4. walk = WalkOnce(chain, walk)
  BY <1>3 DEF Once, WalkOnce
<1> QED
  BY <1>1, <1>4

\* The walk passes every place where it need not stop, and ends at the first where it
\* must.
LEMMA WalkEnds ==
    ASSUME NEW chain \in Seq(SUBSET Files), chain # <<>>,
           NEW m \in Stops(chain, 1), \A k \in Stops(chain, 1) : m <= k
    PROVE  FindUsbAddressFiles(chain) = IF chain[m] = Files THEN m ELSE 0
<1>1. PICK w : w = WalkOnce(chain, w) /\ FindUsbAddressFiles(chain) = w[1]
  BY WalkIsOne
<1>2. m \in 1..Len(chain) /\ w[m] = IF chain[m] = Files THEN m ELSE 0
  BY <1>1 DEF Stops, WalkOnce
<1>3. ASSUME NEW i \in 1..m, i # m PROVE w[i] = w[i + 1]
  <2>1. i \in 1..Len(chain) /\ i \notin Stops(chain, 1)
    BY <1>2, <1>3
  <2>2. chain[i] # Files /\ i # Len(chain) /\ i # MaxTraversalDepth
    BY <2>1 DEF Stops
  <2> QED
    BY <1>1, <2>1, <2>2 DEF WalkOnce
<1>4. w[1] = w[m]
  <2> DEFINE T == {k \in 0..m - 1 : w[m - k] # w[m]}
  <2> SUFFICES ASSUME T # {} PROVE FALSE
    <3>1. m - 1 \in 0..m - 1 /\ m - (m - 1) = 1
      BY <1>2
    <3> QED
      BY <3>1
  <2>1. PICK k \in T : \A j \in T : k <= j
    <3>1. T \subseteq Nat
      BY <1>2
    <3> QED
      BY <3>1, LeastNatural
  <2>2. k # 0 /\ k - 1 \in 0..m - 1 /\ k - 1 \notin T
    BY <1>2, <2>1, SMTT(40)
  <2>3. m - k \in 1..m /\ m - k # m /\ (m - k) + 1 = m - (k - 1)
    BY <1>2, <2>1, <2>2
  <2> QED
    BY <1>3, <2>1, <2>2, <2>3
<1> QED
  BY <1>1, <1>2, <1>4

\* The walk of findUsbAddressFiles ends at the nearest directory with both files, for
\* any depth it is bounded by and chains of any length.
THEOREM WalkCorrect == WalkFindsNearest /\ WalkIsRight
<1> SUFFICES ASSUME NEW n \in 0..MaxChain, NEW chain \in [1..n -> SUBSET Files]
             PROVE  LET r == FindUsbAddressFiles(chain)
                        near == {i \in 1..n : i <= MaxTraversalDepth /\ chain[i] = Files}
                    IN  IF near = {} THEN r = 0
                                     ELSE r \in near /\ \A i \in near : r <= i
  BY DEF WalkFindsNearest, WalkIsRight
<1> USE SysfsWalkAssumption
<1> DEFINE near == {i \in 1..n : i <= MaxTraversalDepth /\ chain[i] = Files}
           r == FindUsbAddressFiles(chain)
<1>1. n \in Nat /\ chain \in Seq(SUBSET Files) /\ Len(chain) = n
  OBVIOUS
<1>2. CASE n = 0
  BY <1>1, <1>2 DEF FindUsbAddressFiles
<1>3. CASE n # 0
  <2>1. n \in Stops(chain, 1) /\ Stops(chain, 1) \subseteq Nat /\ chain # <<>>
    BY <1>1, <1>3 DEF Stops
  <2>2. PICK m \in Stops(chain, 1) : \A k \in Stops(chain, 1) : m <= k
    BY <2>1, LeastNatural
  <2>3. r = IF chain[m] = Files THEN m ELSE 0
    BY <1>1, <2>1, <2>2, WalkEnds
  <2>4. m \in 1..n /\ (chain[m] = Files \/ m = n \/ m = MaxTraversalDepth)
    BY <1>1 DEF Stops
  <2>5. m <= MaxTraversalDepth
    <3>1. MaxTraversalDepth \in 1..n => MaxTraversalDepth \in Stops(chain, 1)
      BY <1>1 DEF Stops
    <3> QED
      BY <2>2, <2>4, <3>1
  <2>6. near \subseteq Stops(chain, 1)
    BY <1>1 DEF Stops
  <2> HIDE DEF r
  <2>7. CASE chain[m] = Files
    BY <2>2, <2>3, <2>4, <2>5, <2>6, <2>7 DEF r
  <2>8. CASE chain[m] # Files
    <3>1. \A i \in near : m <= i /\ i # m
      BY <2>2, <2>6, <2>8
    <3>2. near = {}
      BY <2>4, <3>1
    <3> QED
      BY <2>3, <2>8, <3>2 DEF r
  <2> QED
    BY <2>7, <2>8
<1> QED
  BY <1>2, <1>3

-----------------------------------------------------------------------------
(* Texts and languages.                                                    *)

\* A code unit is two bytes.
LEMMA TwoBytes ==
    \A x \in CodeUnits : x % 256 \in 0..255 /\ (x % 256) + 256 * (x \div 256) = x
  BY SMTT(40) DEF CodeUnits

\* A text is a function on its places, and what its units are cut to is of bytes: it is
\* not taken for a string which could not be read.
LEMMA TextUnits ==
    ASSUME NEW text \in Texts
    PROVE  /\ \E n \in 0..126 : Len(text) = n /\ text \in [1..n -> CodeUnits]
           /\ Narrowed(text) # Failed
<1>1. PICK n \in 0..MaxText : text \in [1..n -> Letters]
  BY DEF Texts
<1>2. n \in 0..126 /\ Letters \subseteq CodeUnits
  BY StringDescriptorsAssumption
<1>3. \A k \in 1..n : text[k] \in CodeUnits
  BY <1>1, <1>2, ZenonT(40)
<1>4. text \in [1..n -> CodeUnits]
  BY <1>1, <1>3
<1>5. Len(text) = n
  BY <1>2, <1>4
<1>6. Narrowed(text) # Failed
  <2>1. DOMAIN text = 1..n
    BY <1>4
  <2>2. Narrowed(text) = [k \in 1..n |-> text[k] % 256]
    BY <2>1 DEF Narrowed
  <2>3. \A k \in 1..n : text[k] % 256 \in 0..255
    BY <1>3, TwoBytes, ZenonT(40)
  <2>4. Narrowed(text) \in [1..n -> 0..255]
    BY <2>2, <2>3, ZenonT(40)
  <2>5. Narrowed(text) \in Seq(0..255)
    BY <1>2, <2>4, SMTT(40)
  <2> QED
    BY <2>5, StringDescriptorsAssumption
<1> QED
  BY <1>2, <1>4, <1>5, <1>6

\* What the descriptor of a text of n characters is made of.
Describes(sent, text, n) ==
    /\ sent = [i \in 0..255 |-> sent[i]]
    /\ sent[0] = 2 * n + 2 /\ sent[1] = DT_STRING
    /\ \A k \in 1..n : sent[2 * k] = text[k] % 256 /\ sent[2 * k + 1] = text[k] \div 256
    /\ \A i \in 0..255 : i > 2 * n + 1 => sent[i] = 0

LEMMA DescriptorBytes ==
    ASSUME NEW n \in 0..126, NEW text \in [1..n -> CodeUnits], Len(text) = n
    PROVE  Describes(Descriptor(text), text, n)
<1> DEFINE sent == Descriptor(text)
           Byte(i) == IF i = 0 THEN 2 * n + 2
                      ELSE IF i = 1 THEN DT_STRING
                      ELSE IF i > 2 * n + 1 THEN 0
                      ELSE IF i % 2 = 0 THEN text[i \div 2] % 256
                      ELSE text[i \div 2] \div 256
<1>1. sent = [i \in 0..255 |-> Byte(i)]
  BY StringDescriptorsAssumption DEF Descriptor
<1>2. Byte(0) = 2 * n + 2 /\ Byte(1) = DT_STRING
  OBVIOUS
<1>3. ASSUME NEW k \in 1..n
      PROVE  Byte(2 * k) = text[k] % 256 /\ Byte(2 * k + 1) = text[k] \div 256
  <2>1. /\ (2 * k) % 2 = 0 /\ (2 * k + 1) % 2 = 1
        /\ (2 * k) \div 2 = k /\ (2 * k + 1) \div 2 = k
    OBVIOUS
  <2>2. /\ 2 * k # 0 /\ 2 * k # 1 /\ ~(2 * k > 2 * n + 1)
        /\ 2 * k + 1 # 0 /\ 2 * k + 1 # 1 /\ ~(2 * k + 1 > 2 * n + 1)
    OBVIOUS
  <2> QED
    BY <2>1, <2>2
<1>4. ASSUME NEW i \in 0..255, i > 2 * n + 1 PROVE Byte(i) = 0
  <2>1. i # 0 /\ i # 1
    BY <1>4
  <2> QED
    BY <1>4, <2>1
<1> HIDE DEF sent, Byte
<1>5. \A i \in 0..255 : sent[i] = Byte(i)
  BY <1>1
<1>6. ASSUME NEW i \in 0..255, i > 2 * n + 1 PROVE sent[i] = 0
  BY <1>4, <1>5, <1>6
<1>7. ASSUME NEW k \in 1..n
      PROVE  sent[2 * k] = text[k] % 256 /\ sent[2 * k + 1] = text[k] \div 256
  <2>1. 2 * k \in 0..255 /\ 2 * k + 1 \in 0..255
    OBVIOUS
  <2>2. sent[2 * k] = Byte(2 * k) /\ sent[2 * k + 1] = Byte(2 * k + 1)
    BY <1>5, <2>1, ZenonT(40)
  <2> QED
    BY <1>3, <2>2, ZenonT(40)
<1>8. sent = [i \in 0..255 |-> sent[i]]
  BY <1>1, <1>5
<1>9. sent[0] = 2 * n + 2 /\ sent[1] = DT_STRING
  <2>1. 0 \in 0..255 /\ 1 \in 0..255
    OBVIOUS
  <2> QED
    BY <1>2, <1>5, <2>1, Zenon
<1> QED
  BY <1>6, <1>7, <1>8, <1>9 DEF Describes, sent

LEMMA WholeIsDecoded ==
    ASSUME NEW n \in 0..126, NEW text \in [1..n -> CodeUnits], NEW sent,
           Describes(sent, text, n)
    PROVE  Decode(sent) = Narrowed(text)
<1>1. /\ sent[0] = 2 * n + 2
      /\ \A k \in 1..n : sent[2 * k] = text[k] % 256 /\ sent[2 * k + 1] = text[k] \div 256
  BY DEF Describes
<1>2. Rounds(sent[0]) = n
  <2>1. (2 * n + 2 - 1) \div 2 = n
    OBVIOUS
  <2> QED
    BY <1>1, <2>1 DEF Rounds
<1>3. ASSUME NEW k \in 1..n
      PROVE  (sent[2 * k] + 256 * sent[2 * k + 1]) % 256 = text[k] % 256
  <2>1. sent[2 * k] = text[k] % 256 /\ sent[2 * k + 1] = text[k] \div 256
    BY <1>1
  <2>2. text[k] \in CodeUnits
    OBVIOUS
  <2>3. (text[k] % 256) + 256 * (text[k] \div 256) = text[k]
    BY <2>2, TwoBytes, ZenonT(40)
  <2> QED
    BY <2>1, <2>3, Zenon
<1>4. Decode(sent) = [k \in 1..n |-> text[k] % 256]
  BY <1>2, <1>3 DEF Decode
<1>5. DOMAIN text = 1..n
  OBVIOUS
<1> QED
  BY <1>4, <1>5 DEF Narrowed

LEMMA WholeOrRefused ==
    ASSUME NEW n \in 0..126, NEW text \in [1..n -> CodeUnits], NEW sent,
           Describes(sent, text, n), NEW ret \in 0..2 * n + 2
    PROVE  DescriptorValue(1, [ret |-> ret, buf |-> Received(sent, ret)], Failed)
             = IF ret = 2 * n + 2 THEN Narrowed(text) ELSE Failed
<1> DEFINE buf == Received(sent, ret)
<1>0. buf = [i \in 0..255 |-> IF i < ret THEN sent[i] ELSE 0]
  BY SMTT(40), StringDescriptorsAssumption DEF Received
<1> HIDE DEF buf
<1>1. /\ sent = [i \in 0..255 |-> sent[i]]
      /\ sent[0] = 2 * n + 2 /\ sent[1] = 3
      /\ \A i \in 0..255 : i > 2 * n + 1 => sent[i] = 0
  BY DEF Describes, DT_STRING
<1>2. /\ buf[0] = IF 0 < ret THEN 2 * n + 2 ELSE 0
      /\ buf[1] = IF 1 < ret THEN 3 ELSE 0
  BY <1>0, <1>1
<1>3. DescriptorValue(1, [ret |-> ret, buf |-> buf], Failed)
        = IF buf[1] # 3 \/ buf[0] > ret THEN Failed ELSE Decode(buf)
  BY SMTT(40) DEF DescriptorValue, DT_STRING
<1>4. CASE ret = 2 * n + 2
  <2>1. ASSUME NEW i \in 0..255 PROVE buf[i] = sent[i]
    <3>1. CASE i < ret
      BY <1>0, <3>1, SMTT(40)
    <3>2. CASE ~(i < ret)
      <4>1. i > 2 * n + 1
        BY <1>4, <3>2
      <4> QED
        BY <1>0, <1>1, <3>2, <4>1, ZenonT(40)
    <3> QED
      BY <3>1, <3>2
  <2>2. buf = sent
    BY <1>0, <1>1, <2>1, ZenonT(40)
  <2>3. 0 < ret /\ 1 < ret /\ ~(2 * n + 2 > ret)
    BY <1>4
  <2>4. buf[1] = 3 /\ ~(buf[0] > ret)
    BY <1>2, <2>3
  <2> QED
    BY <1>3, <1>4, <2>2, <2>4, WholeIsDecoded DEF buf
<1>5. CASE ret # 2 * n + 2
  <2>1. 2 * n + 2 > ret
    BY <1>5
  <2>2. buf[1] # 3 \/ buf[0] > ret
    BY <1>2, <2>1
  <2> QED
    BY <1>3, <1>5, <2>2 DEF buf
<1> QED
  BY <1>4, <1>5

\* A text which comes whole is decoded, each of its units to its low byte, one which
\* comes short is refused, for all units and for texts as long as a descriptor holds.
THEOREM TextsCorrect == TextsArriveWhole /\ TextsAreRight
<1>1. ASSUME NEW text \in Texts, NEW ret \in 0..2 * Len(text) + 2
      PROVE  DescriptorValue(1, [ret |-> ret, buf |-> Received(Descriptor(text), ret)], Failed)
               = IF ret = 2 * Len(text) + 2 THEN Narrowed(text) ELSE Failed
  <2>1. PICK n \in 0..126 : Len(text) = n /\ text \in [1..n -> CodeUnits]
    BY TextUnits, ZenonT(40)
  <2>2. Describes(Descriptor(text), text, n)
    BY <2>1, DescriptorBytes
  <2> QED
    BY <2>1, <2>2, WholeOrRefused, ZenonT(40)
<1> QED
  BY <1>1 DEF TextsArriveWhole, TextsAreRight

\* The only string of a language which is read is that of the language, and there is
\* no other whose text is empty because it could not be read.
LEMMA OneLanguage ==
    ASSUME NEW id \in LanguageIds, NEW missing \in SUBSET Fields,
           NEW text \in [Fields -> Strings]
    PROVE  ExtInfo([ret |-> 4, buf |-> Languages(<<id>>)], OnlyIn(id, missing, text))
             = [status |-> "ERROR_NONE", numLanguageIds |-> 1,
                products |-> <<[languageId |-> id, text |-> ToShow(missing, text)]>>]
<1> DEFINE strings == OnlyIn(id, missing, text)
           shown == ToShow(missing, text)
<1> DEFINE buf == Languages(<<id>>)
<1>1. buf[0] = 4 /\ buf[2] = id % 256 /\ buf[3] = id \div 256
  BY StringDescriptorsAssumption, SMTT(40) DEF Languages
<1> HIDE DEF buf
<1>2. LanguageCount(buf[0]) = 1 /\ LanguageId(buf, 1) = id
  <2>1. LanguageCount(4) = 1
    BY DEF LanguageCount
  <2>2. \A x \in 0..65535 : (x % 256) + 256 * (x \div 256) = x
    BY SMTT(40)
  <2>3. LanguageId(buf, 1) = buf[2] + 256 * buf[3]
    BY DEF LanguageId
  <2> QED
    BY <1>1, <2>1, <2>2, <2>3, SMTT(40) DEF LanguageIds
<1>3. ASSUME NEW f \in Fields PROVE Shown(strings[id][f]) = shown[f]
  <2>1. strings[id][f] = IF f \in missing THEN Failed ELSE text[f]
    BY DEF OnlyIn
  <2>2. text[f] # Failed
    BY TextUnits DEF Strings
  <2> QED
    BY <2>1, <2>2 DEF Shown, ToShow
<1>4. Product(id, strings) = [languageId |-> id, text |-> shown]
  <2>1. shown = [f \in Fields |-> shown[f]]
    BY DEF ToShow
  <2> HIDE DEF shown
  <2> QED
    BY <1>3, <2>1 DEF Product
<1> HIDE DEF strings, shown
<1>5. ExtInfo([ret |-> 4, buf |-> buf], strings)
        = [status |-> "ERROR_NONE", numLanguageIds |-> 1,
           products |-> [k \in 1..1 |-> Product(LanguageId(buf, k), strings)]]
  BY <1>2 DEF ExtInfo
<1>6. [k \in 1..1 |-> Product(LanguageId(buf, k), strings)] = <<Product(id, strings)>>
  BY <1>2
<1> QED
  BY <1>4, <1>5, <1>6 DEF buf, strings, shown

\* A device with one language is described in it, whichever of the 65536 it is.
THEOREM AnyLanguageDescribed ==
    OneLanguageDescribed /\ ProductIsRight /\ \A id \in LanguageIds : DescribedIn(id)
<1>1. \A id \in LanguageIds : DescribedIn(id)
  BY OneLanguage DEF DescribedIn
<1>2. {7, 1033} \subseteq LanguageIds
  BY DEF LanguageIds
<1> QED
  BY <1>1, <1>2 DEF OneLanguageDescribed, ProductIsRight

-----------------------------------------------------------------------------
(* The invariant.                                                          *)

Describing == {"describe", "scan", "resolve", "compare", "sleep", "described"}

BusFacts ==
    /\ bus \cap gone = {}
    /\ \A d, e \in bus : Port[d] = Port[e] => d = e
    /\ \A b \in Blocks : block[b] # None => block[b] \in bus

\* The device of thread t, and the list it is taken from.
Device(t) ==
    /\ pc[t] \in Describing <=> dev[t] # None
    /\ dev[t] # None => dev[t] \in bus \cup gone
    /\ \A i \in DOMAIN devs[t] : devs[t][i] \in bus \cup gone
    /\ pc[t] \in {"scan", "resolve", "compare"} => tries[t] > 0

\* The resources of thread t.
Holds(t) ==
    /\ pc[t] = "idle" <=> call[t] = NoCall
    /\ pc[t] \in {"lock", "strings", "close"} => call[t].op = "GetDeviceInfo"
    /\ t = EventThread => /\ call[t].op # "GetDeviceInfo" /\ devs[t] = <<>>
                          /\ pc[t] \in Describing \cup {"idle", "done"}
    /\ pc[t] \in {"idle", "lock", "list", "done"} => devs[t] = <<>>
    /\ handle[t] # None => pc[t] \in {"strings", "close"}
    /\ adminLock = t <=> call[t].op = "GetDeviceInfo" /\ pc[t] # "lock"

\* What thread t knows of block devices.
Knows(t) ==
    /\ dev[t] # None => BlocksOf(dev[t]) \subseteq owned[t]
    /\ path[t] # None => path[t] \in owned[t]
    /\ pc[t] = "compare" =>
          entry[t] \in owned[t] \/ dir[t] # Port[dev[t]] \/ dev[t] \in gone

Inv == /\ TypeOK /\ BusFacts
       /\ \A t \in Threads : Device(t) /\ Holds(t) /\ Knows(t)

-----------------------------------------------------------------------------

LEMMA BusFinite == ASSUME TypeOK PROVE IsFiniteSet(bus) /\ Cardinality(bus) \in Nat
<1>1. IsFiniteSet(bus)
  BY DeviceQueryAssumption, FS_Subset DEF TypeOK
<1> QED
  BY <1>1, FS_CardinalityType

LEMMA InitInv == Init => Inv
<1> SUFFICES ASSUME Init PROVE Inv
  OBVIOUS
<1> USE DeviceQueryAssumption
<1>1. TypeOK
  BY DEF Init, TypeOK, Places, Outcomes, Threads
<1>2. BusFacts
  BY DEF Init, BusFacts
<1>3. ASSUME NEW t \in Threads PROVE Device(t) /\ Knows(t)
  BY <1>3 DEF Init, Device, Knows, Describing
<1>4. ASSUME NEW t \in Threads PROVE Holds(t)
  BY <1>4 DEF Init, Holds, NoCall, Threads
<1> QED
  BY <1>1, <1>2, <1>3, <1>4 DEF Inv

-----------------------------------------------------------------------------
(* The bus.                                                                *)

LEMMA PlugInv == ASSUME Inv, NEW d \in Devices, Plug(d) PROVE Inv'
<1> USE DEF lookupVars, historyVars
<1>1. TypeOK' /\ BusFacts'
  BY DEF Plug, Inv, TypeOK, BusFacts
<1>2. ASSUME NEW t \in Threads PROVE (Device(t) /\ Holds(t) /\ Knows(t))'
  BY <1>2 DEF Plug, Inv, TypeOK, Device, Holds, Knows, BlocksOf
<1> QED
  BY <1>1, <1>2 DEF Inv

LEMMA UnplugInv == ASSUME Inv, NEW d \in Devices, Unplug(d) PROVE Inv'
<1> USE DEF lookupVars
<1>1. TypeOK'
  BY DEF Unplug, Inv, TypeOK
<1>2. BusFacts'
  BY DeviceQueryAssumption DEF Unplug, Inv, TypeOK, BusFacts
<1>3. ASSUME NEW t \in Threads PROVE (Device(t) /\ Holds(t))'
  BY <1>3 DEF Unplug, Inv, TypeOK, Device, Holds
<1>4. ASSUME NEW t \in Threads PROVE Knows(t)'
  BY <1>4, DeviceQueryAssumption DEF Unplug, Inv, TypeOK, Knows, BlocksOf
<1> QED
  BY <1>1, <1>2, <1>3, <1>4 DEF Inv

LEMMA AddBlockInv == ASSUME Inv, NEW d \in Devices, NEW b \in Blocks, AddBlock(d, b) PROVE Inv'
<1> USE DEF lookupVars
<1>1. TypeOK'
  BY DEF AddBlock, Inv, TypeOK
<1>2. BusFacts'
  BY DEF AddBlock, Inv, TypeOK, BusFacts
<1>3. ASSUME NEW t \in Threads PROVE (Device(t) /\ Holds(t))'
  BY <1>3 DEF AddBlock, Inv, TypeOK, Device, Holds
<1>4. ASSUME NEW t \in Threads PROVE Knows(t)'
  BY <1>4 DEF AddBlock, Inv, TypeOK, Knows, BlocksOf
<1> QED
  BY <1>1, <1>2, <1>3, <1>4 DEF Inv

LEMMA RemoveBlockInv == ASSUME Inv, NEW b \in Blocks, RemoveBlock(b) PROVE Inv'
<1> USE DEF lookupVars
<1>1. TypeOK'
  BY DEF RemoveBlock, Inv, TypeOK
<1>2. BusFacts'
  BY DEF RemoveBlock, Inv, TypeOK, BusFacts
<1>3. ASSUME NEW t \in Threads PROVE (Device(t) /\ Holds(t))'
  BY <1>3 DEF RemoveBlock, Inv, TypeOK, Device, Holds
<1>4. ASSUME NEW t \in Threads PROVE Knows(t)'
  BY <1>4, DeviceQueryAssumption DEF RemoveBlock, Inv, TypeOK, Knows, BlocksOf
<1> QED
  BY <1>1, <1>2, <1>3, <1>4 DEF Inv

-----------------------------------------------------------------------------
(* The threads.                                                            *)

LEMMA BusFrame == ASSUME BusFacts, UNCHANGED worldVars PROVE BusFacts'
  BY DEF BusFacts, worldVars

LEMMA BlocksFrame == ASSUME UNCHANGED block, NEW d PROVE BlocksOf(d)' = BlocksOf(d)
  BY DEF BlocksOf

\* A block device which is not there has no directory.
LEMMA NothingAboveNothing == FindUsbAddressFiles(<<>>) = 0
  BY DEF FindUsbAddressFiles

Locals(u) == <<pc[u], call[u], devs[u], dev[u], tries[u], entry[u], dir[u], path[u],
               handle[u], owned[u], adminLock = u>>

\* A step of another thread leaves what is said of thread u.
LEMMA OtherThread ==
    ASSUME Inv, NEW u \in Threads, UNCHANGED <<worldVars, Locals(u)>>
    PROVE  (Device(u) /\ Holds(u) /\ Knows(u))'
<1>1. Device(u) /\ Holds(u) /\ Knows(u)
  BY DEF Inv
<1>2. Device(u)'
  BY <1>1 DEF Device, Locals, worldVars
<1>3. Holds(u)'
  BY <1>1 DEF Holds, Locals
<1>4. Knows(u)'
  BY <1>1, BlocksFrame DEF Knows, Locals, worldVars
<1> QED
  BY <1>2, <1>3, <1>4

\* What the end of a device's description does to the thread.
LEMMA OnwardsEffect ==
    ASSUME Inv, NEW t \in Threads, NEW here \in Places, Onwards(t, here)
    PROVE  /\ pc[t] = here /\ pc' \in [Threads -> Places]
           /\ index' \in [Threads -> Nat \ {0}]
           /\ dev' \in [Threads -> Devices \cup {None}] /\ path' \in [Threads -> Blocks \cup {None}]
           /\ owned' \in [Threads -> SUBSET Blocks]
           /\ \A u \in Threads : u # t => /\ pc'[u] = pc[u] /\ dev'[u] = dev[u]
                                         /\ path'[u] = path[u] /\ owned'[u] = owned[u]
           /\ path'[t] = None
           /\ \/ /\ pc'[t] = "describe" /\ call[t].op = "GetDeviceList" /\ t # EventThread
                 /\ dev'[t] \in bus \cup gone /\ owned'[t] = {b \in Blocks : block[b] = dev'[t]}
              \/ pc'[t] = (IF t = EventThread THEN "done" ELSE "free") /\ dev'[t] = None
<1> USE DeviceQueryAssumption
<1>1. CASE call[t].op = "GetDeviceList" /\ index[t] < Len(devs[t])
  <2> DEFINE d == devs[t][index[t] + 1]
  <2>1. devs[t] \in Seq(Devices) /\ index[t] + 1 \in 1..Len(devs[t]) /\ index[t] + 1 \in Nat \ {0}
    BY <1>1 DEF Inv, TypeOK
  <2>2. d \in Devices /\ d \in bus \cup gone /\ d # None
    BY <2>1 DEF Inv, Device
  <2>3. t # EventThread
    BY <2>1 DEF Inv, Holds
  <2>4. BlocksOf(d) \in SUBSET Blocks
    BY DEF BlocksOf
  <2>5. TurnTo(t, d) /\ Goto(t, here, "describe") /\ index' = [index EXCEPT ![t] = @ + 1]
    BY <1>1 DEF Onwards
  <2> HIDE DEF d
  <2>6. index' \in [Threads -> Nat \ {0}]
    BY <2>1, <2>5 DEF Inv, TypeOK
  <2> QED
    BY <1>1, <2>2, <2>3, <2>4, <2>5, <2>6 DEF TurnTo, Goto, BlocksOf, Inv, TypeOK, Places
<1>2. CASE ~(call[t].op = "GetDeviceList" /\ index[t] < Len(devs[t]))
  <2>1. /\ TurnAway(t) /\ UNCHANGED index
        /\ Goto(t, here, IF t = EventThread THEN "done" ELSE "free")
    BY <1>2 DEF Onwards
  <2> QED
    BY <2>1 DEF TurnAway, Goto, Inv, TypeOK, Places
<1> QED
  BY <1>1, <1>2

LEMMA EnterInv == ASSUME Inv, NEW c \in Clients, Enter(c) PROVE Inv'
<1> USE DeviceQueryAssumption DEF Goto, worldVars, lookupVars, historyVars
<1>1. TypeOK'
  <2>1. PICK r \in Uses[c] : Begin(c, r, IF r.op = "GetDeviceInfo" THEN "lock" ELSE "list")
    BY DEF Enter
  <2>2. r \in Calls /\ c \in Threads
    BY DEF Threads
  <2>4. work + Weight(r) \in Nat
    BY DEF Weight, Inv, TypeOK
  <2>3. pc' \in [Threads -> Places] /\ call' \in [Threads -> Calls \cup Events \cup {NoCall}]
    BY <2>1, <2>2 DEF Begin, Inv, TypeOK, Places
  <2> QED
    BY <2>1, <2>2, <2>3, <2>4 DEF Enter, Begin, Inv, TypeOK
<1>2. BusFacts'
  BY BusFrame DEF Enter, Begin, Weight, Inv
<1>3. ASSUME NEW u \in Threads, u # c PROVE (Device(u) /\ Holds(u) /\ Knows(u))'
  BY <1>3, OtherThread DEF Enter, Begin, Weight, Inv, TypeOK, Locals, Threads
<1>4. Device(c)'
  BY DEF Enter, Begin, Weight, Inv, TypeOK, Device, Describing, Threads
<1>5. Holds(c)'
  <2>1. PICK r \in Uses[c] : Begin(c, r, IF r.op = "GetDeviceInfo" THEN "lock" ELSE "list")
    BY DEF Enter
  <2>2. r \in Calls /\ r # NoCall
    BY DEF Calls, NoCall
  <2>3. c \in Threads /\ call'[c] = r /\ pc'[c] = IF r.op = "GetDeviceInfo" THEN "lock" ELSE "list"
    BY <2>1 DEF Begin, Inv, TypeOK, Threads
  <2>4. adminLock # c /\ devs[c] = <<>> /\ handle[c] = None
    BY <2>1, <2>3 DEF Begin, Inv, Holds, NoCall
  <2> QED
    BY <2>1, <2>2, <2>3, <2>4 DEF Begin, Holds, Describing
<1>6. Knows(c)'
  BY BlocksFrame DEF Enter, Begin, Weight, Inv, TypeOK, Knows, Device, Describing, Threads
<1> QED
  BY <1>1, <1>2, <1>3, <1>4, <1>5, <1>6 DEF Inv

LEMMA HotPlugInv == ASSUME Inv, HotPlug PROVE Inv'
<1> USE DeviceQueryAssumption DEF Goto, worldVars, lookupVars, historyVars
<1>1. TypeOK'
  <2>1. PICK r \in Events : /\ r.dev \in bus \cup gone
                             /\ Begin(EventThread, r, "describe") /\ TurnTo(EventThread, r.dev)
    BY DEF HotPlug
  <2>2. r.dev \in Devices /\ EventThread \in Threads /\ work + Weight(r) \in Nat
    BY DEF Weight, Inv, TypeOK, Threads, Events
  <2>3. BlocksOf(r.dev) \in SUBSET Blocks
    BY DEF BlocksOf
  <2>4. pc' \in [Threads -> Places] /\ call' \in [Threads -> Calls \cup Events \cup {NoCall}]
    BY <2>1, <2>2 DEF Begin, Inv, TypeOK, Places
  <2>5. /\ dev' \in [Threads -> Devices \cup {None}] /\ path' \in [Threads -> Blocks \cup {None}]
        /\ owned' \in [Threads -> SUBSET Blocks]
    BY <2>1, <2>2, <2>3 DEF TurnTo, Inv, TypeOK
  <2> QED
    BY <2>1, <2>2, <2>4, <2>5 DEF Begin, Inv, TypeOK
<1>2. BusFacts'
  BY BusFrame DEF HotPlug, Begin, TurnTo, Weight, Inv
<1>3. ASSUME NEW u \in Threads, u # EventThread PROVE (Device(u) /\ Holds(u) /\ Knows(u))'
  BY <1>3, OtherThread DEF HotPlug, Begin, TurnTo, Weight, Inv, TypeOK, Locals, Threads
<1>4. Device(EventThread)'
  BY DEF HotPlug, Begin, TurnTo, Weight, Inv, TypeOK, Device, Describing, Threads
<1>5. Holds(EventThread)'
  <2>1. PICK r \in Events : Begin(EventThread, r, "describe")
    BY DEF HotPlug
  <2>2. r # NoCall /\ r.op \in {"ARRIVED", "LEFT"}
    BY DEF Events, NoCall
  <2>3. EventThread \in Threads /\ call'[EventThread] = r /\ pc'[EventThread] = "describe"
    BY <2>1 DEF Begin, Inv, TypeOK, Threads
  <2>4. adminLock # EventThread /\ devs[EventThread] = <<>> /\ handle[EventThread] = None
    BY <2>1, <2>3 DEF Begin, Inv, Holds, NoCall
  <2> QED
    BY <2>1, <2>2, <2>3, <2>4 DEF Begin, Holds, Describing
<1>6. Knows(EventThread)'
  BY BlocksFrame DEF HotPlug, Begin, TurnTo, Weight, Inv, TypeOK, Knows, Device, Describing,
                     Threads
<1> QED
  BY <1>1, <1>2, <1>3, <1>4, <1>5, <1>6 DEF Inv

LEMMA LockInv == ASSUME Inv, NEW c \in Clients, Lock(c) PROVE Inv'
<1> USE DeviceQueryAssumption DEF Goto, worldVars, lookupVars, historyVars
<1>1. TypeOK'
  BY DEF Lock, Inv, TypeOK, Places
<1>2. BusFacts'
  BY BusFrame DEF Lock, Inv
<1>3. ASSUME NEW u \in Threads, u # c PROVE (Device(u) /\ Holds(u) /\ Knows(u))'
  BY <1>3, OtherThread DEF Lock, Inv, TypeOK, Locals, Threads
<1>4. Device(c)'
  BY DEF Lock, Inv, TypeOK, Device, Describing, Threads
<1>5. Holds(c)'
  BY DEF Lock, Inv, TypeOK, Holds, Device, Describing, Threads
<1>6. Knows(c)'
  BY BlocksFrame DEF Lock, Inv, TypeOK, Knows, Device, Describing, Threads
<1> QED
  BY <1>1, <1>2, <1>3, <1>4, <1>5, <1>6 DEF Inv

LEMMA GetListInv == ASSUME Inv, NEW c \in Clients, GetList(c) PROVE Inv'
<1> USE DeviceQueryAssumption DEF Goto, worldVars, lookupVars, historyVars
<1>a. c \in Threads /\ pc[c] = "list" /\ devs[c] = <<>> /\ dev[c] = None /\ c # EventThread
  BY DEF GetList, Threads, Inv, Holds, Device, Describing
<1>b. \/ \E l \in Seq(bus), d \in bus :
            /\ devs' = [devs EXCEPT ![c] = l] /\ pc' = [pc EXCEPT ![c] = "describe"]
            /\ TurnTo(c, d) /\ UNCHANGED status
      \/ \E l \in Seq(bus) :
            /\ devs' = [devs EXCEPT ![c] = l] /\ pc' = [pc EXCEPT ![c] = "free"]
            /\ TurnAway(c) /\ UNCHANGED status
      \/ /\ status' = [status EXCEPT ![c] = IF call[c].op = "GetDeviceList" THEN "ERROR_NONE" ELSE @]
         /\ pc' = [pc EXCEPT ![c] = "done"] /\ UNCHANGED <<devs, dev, path, owned>>
  <2>1. \A l \in Lists(bus) : l \in Seq(bus)
    BY BusFinite DEF Lists, Inv
  <2> QED
    BY <2>1 DEF GetList
<1>c. /\ devs' \in [Threads -> Seq(Devices)] /\ pc' \in [Threads -> Places]
      /\ status' \in [Threads -> Outcomes]
      /\ dev' \in [Threads -> Devices \cup {None}] /\ path' \in [Threads -> Blocks \cup {None}]
      /\ owned' \in [Threads -> SUBSET Blocks]
      /\ \A i \in DOMAIN devs'[c] : devs'[c][i] \in bus
      /\ pc'[c] = "done" => devs'[c] = <<>>
      /\ path'[c] # None => path'[c] \in owned'[c]
      /\ \/ pc'[c] = "describe" /\ dev'[c] \in bus /\ owned'[c] = {b \in Blocks : block[b] = dev'[c]}
         \/ pc'[c] \in {"free", "done"} /\ dev'[c] = None
      /\ \A u \in Threads : u # c => /\ pc'[u] = pc[u] /\ dev'[u] = dev[u] /\ path'[u] = path[u]
                                    /\ owned'[u] = owned[u] /\ devs'[u] = devs[u]
  <2>1. bus \subseteq Devices /\ (path[c] # None => path[c] \in owned[c])
    BY <1>a DEF Inv, TypeOK, Knows
  <2>2. \A l \in Seq(bus) : l \in Seq(Devices) /\ \A i \in DOMAIN l : l[i] \in bus
    BY <2>1
  <2>3. \A d : BlocksOf(d) = {b \in Blocks : block[b] = d}
    BY DEF BlocksOf
  <2>4. CASE \E l \in Seq(bus), d \in bus :
            /\ devs' = [devs EXCEPT ![c] = l] /\ pc' = [pc EXCEPT ![c] = "describe"]
            /\ TurnTo(c, d) /\ UNCHANGED status
    <3>1. PICK l \in Seq(bus), d \in bus :
            /\ devs' = [devs EXCEPT ![c] = l] /\ pc' = [pc EXCEPT ![c] = "describe"]
            /\ TurnTo(c, d) /\ UNCHANGED status
      BY <2>4
    <3>2. l \in Seq(Devices) /\ d \in Devices /\ BlocksOf(d) \in SUBSET Blocks
      BY <2>1, <2>2, <2>3
    <3> QED
      BY <1>a, <2>2, <2>3, <3>1, <3>2 DEF TurnTo, Inv, TypeOK, Places
  <2>5. CASE \E l \in Seq(bus) :
            /\ devs' = [devs EXCEPT ![c] = l] /\ pc' = [pc EXCEPT ![c] = "free"]
            /\ TurnAway(c) /\ UNCHANGED status
    BY <1>a, <2>2, <2>5 DEF TurnAway, Inv, TypeOK, Places
  <2>6. CASE /\ status' = [status EXCEPT ![c] = IF call[c].op = "GetDeviceList" THEN "ERROR_NONE" ELSE @]
             /\ pc' = [pc EXCEPT ![c] = "done"] /\ UNCHANGED <<devs, dev, path, owned>>
    BY <1>a, <2>1, <2>6 DEF Inv, TypeOK, Places, Outcomes
  <2> QED
    BY <1>b, <2>4, <2>5, <2>6
<1>d. UNCHANGED <<call, tries, entry, dir, handle, adminLock, bus, gone, block>>
  BY DEF GetList
<1>1. TypeOK'
  BY <1>c DEF GetList, Inv, TypeOK
<1>2. BusFacts'
  BY BusFrame DEF GetList, Inv
<1>3. ASSUME NEW u \in Threads, u # c PROVE (Device(u) /\ Holds(u) /\ Knows(u))'
  BY <1>3, <1>c, <1>d, OtherThread DEF Locals
<1>4. Device(c)'
  BY <1>c, <1>d DEF Device, Describing, Inv, TypeOK
<1>5. Holds(c)'
  BY <1>a, <1>c, <1>d DEF Inv, Holds, Describing
<1>6. Knows(c)'
  BY <1>c, <1>d DEF Knows, BlocksOf
<1> QED
  BY <1>1, <1>2, <1>3, <1>4, <1>5, <1>6 DEF Inv

LEMMA UnreadableInv == ASSUME Inv, NEW t \in Threads, Unreadable(t) PROVE Inv'
<1> USE DeviceQueryAssumption DEF Goto, worldVars, lookupVars, historyVars
<1> DEFINE here == "describe"
<1>a. Onwards(t, here) /\ here \in Places
  BY DEF Unreadable, Places
<1>b. UNCHANGED <<call, devs, tries, entry, dir, handle, adminLock, bus, gone, block>>
  BY DEF Unreadable
<1> HIDE DEF here
<1>c. pc[t] \in Describing /\ pc'[t] \in {"describe", "free", "done"}
  BY <1>a, OnwardsEffect DEF Describing, here
<1>d. dev[t] \in Devices
  BY <1>c DEF Inv, TypeOK, Device
<1>1. TypeOK'
  BY <1>a, <1>d, OnwardsEffect, SMTT(40) DEF Unreadable, Inv, TypeOK, Outcomes
<1>2. BusFacts'
  BY BusFrame DEF Unreadable, Inv
<1>3. ASSUME NEW u \in Threads, u # t PROVE (Device(u) /\ Holds(u) /\ Knows(u))'
  <2>1. pc'[u] = pc[u] /\ dev'[u] = dev[u] /\ path'[u] = path[u] /\ owned'[u] = owned[u]
    BY <1>3, <1>a, OnwardsEffect
  <2> QED
    BY <1>3, <1>b, <2>1, OtherThread DEF Locals
<1>4. Device(t)'
  <2>1. \/ pc'[t] = "describe" /\ dev'[t] \in bus \cup gone /\ dev'[t] # None
        \/ pc'[t] \in {"free", "done"} /\ dev'[t] = None
    BY <1>a, OnwardsEffect DEF Inv, TypeOK
  <2> QED
    BY <1>b, <2>1 DEF Inv, Device, Describing
<1>5. Holds(t)'
  <2>1. t = EventThread => pc'[t] = "done"
    BY <1>a, OnwardsEffect
  <2>2. pc'[t] = "done" => t = EventThread
    BY <1>a, OnwardsEffect
  <2> QED
    BY <1>b, <1>c, <2>1, <2>2 DEF Inv, Holds, Describing
<1>6. Knows(t)'
  <2>1. path'[t] = None /\ pc'[t] # "compare"
    BY <1>a, <1>c, OnwardsEffect
  <2>2. dev'[t] # None => owned'[t] = {b \in Blocks : block'[b] = dev'[t]}
    BY <1>a, <1>b, OnwardsEffect
  <2> QED
    BY <2>1, <2>2 DEF Knows, BlocksOf
<1> QED
  BY <1>1, <1>2, <1>3, <1>4, <1>5, <1>6 DEF Inv

LEMMA DescribeInv == ASSUME Inv, NEW t \in Threads, Describe(t) PROVE Inv'
<1> USE DeviceQueryAssumption DEF Goto, worldVars, lookupVars, historyVars
<1>a. \/ /\ tries' = [tries EXCEPT ![t] = IF call[t].op = "GetDeviceInfo" THEN 1 ELSE Attempts]
         /\ pc' = [pc EXCEPT ![t] = "scan"]
      \/ UNCHANGED tries /\ pc' = [pc EXCEPT ![t] = "described"]
  BY DEF Describe
<1>b. /\ pc[t] = "describe" /\ tries' \in [Threads -> 0..Attempts] /\ pc' \in [Threads -> Places]
      /\ pc'[t] = "scan" => tries'[t] > 0
      /\ pc'[t] \in {"scan", "described"}
  <2>1. pc[t] = "describe" /\ pc \in [Threads -> Places] /\ tries \in [Threads -> 0..Attempts]
    BY DEF Describe, Inv, TypeOK
  <2>2. \A n \in 1..Attempts : tries' = [tries EXCEPT ![t] = n] =>
          tries' \in [Threads -> 0..Attempts] /\ tries'[t] > 0
    BY <2>1
  <2>3. CASE pc' = [pc EXCEPT ![t] = "described"] /\ UNCHANGED tries
    BY <2>1, <2>3 DEF Places
  <2>4. CASE pc' = [pc EXCEPT ![t] = "scan"] /\ \E n \in 1..Attempts : tries' = [tries EXCEPT ![t] = n]
    BY <2>1, <2>2, <2>4 DEF Places
  <2> QED
    BY <1>a, <2>3, <2>4
<1>c. \A u \in Threads : u # t => pc'[u] = pc[u] /\ tries'[u] = tries[u]
  BY <1>a DEF Inv, TypeOK
<1>1. TypeOK'
  BY <1>b DEF Describe, Inv, TypeOK
<1>2. BusFacts'
  BY BusFrame DEF Describe, Inv
<1>3. ASSUME NEW u \in Threads, u # t PROVE (Device(u) /\ Holds(u) /\ Knows(u))'
  BY <1>3, <1>c, OtherThread DEF Describe, Locals
<1>4. Device(t)'
  BY <1>b DEF Describe, Inv, Device, Describing
<1>5. Holds(t)'
  <2>1. UNCHANGED <<call, devs, handle, adminLock>>
    BY DEF Describe
  <2> QED
    BY <1>b, <2>1 DEF Inv, Holds, Describing
<1>6. Knows(t)'
  <2>1. UNCHANGED <<dev, owned, path, block>>
    BY DEF Describe
  <2>2. BlocksOf(dev[t])' = BlocksOf(dev[t])
    BY <2>1, BlocksFrame
  <2> QED
    BY <1>b, <2>1, <2>2 DEF Inv, Knows
<1> QED
  BY <1>1, <1>2, <1>3, <1>4, <1>5, <1>6 DEF Inv

LEMMA DescribedInv == ASSUME Inv, NEW t \in Threads, Described(t) PROVE Inv'
<1> USE DeviceQueryAssumption DEF Goto, worldVars, lookupVars, historyVars
<1> DEFINE here == "described"
<1>a. Onwards(t, here) /\ here \in Places
  BY DEF Described, Places
<1>b. UNCHANGED <<call, devs, tries, entry, dir, handle, adminLock, bus, gone, block>>
  BY DEF Described
<1> HIDE DEF here
<1>c. pc[t] \in Describing /\ pc'[t] \in {"describe", "free", "done"}
  BY <1>a, OnwardsEffect DEF Describing, here
<1>d. dev[t] \in Devices
  BY <1>c DEF Inv, TypeOK, Device
<1>1. TypeOK'
  <2>1. Append(answer[t], dev[t]) \in Seq(Devices)
    BY <1>d DEF Inv, TypeOK
  <2>2. answer' \in [Threads -> Seq(Devices)] /\ status' \in [Threads -> Outcomes]
    BY <2>1 DEF Described, Inv, TypeOK, Outcomes
  <2> QED
    BY <1>a, <2>2, OnwardsEffect DEF Described, Inv, TypeOK
<1>2. BusFacts'
  BY BusFrame DEF Described, Inv
<1>3. ASSUME NEW u \in Threads, u # t PROVE (Device(u) /\ Holds(u) /\ Knows(u))'
  <2>1. pc'[u] = pc[u] /\ dev'[u] = dev[u] /\ path'[u] = path[u] /\ owned'[u] = owned[u]
    BY <1>3, <1>a, OnwardsEffect
  <2> QED
    BY <1>3, <1>b, <2>1, OtherThread DEF Locals
<1>4. Device(t)'
  <2>1. \/ pc'[t] = "describe" /\ dev'[t] \in bus \cup gone /\ dev'[t] # None
        \/ pc'[t] \in {"free", "done"} /\ dev'[t] = None
    BY <1>a, OnwardsEffect DEF Inv, TypeOK
  <2> QED
    BY <1>b, <2>1 DEF Inv, Device, Describing
<1>5. Holds(t)'
  <2>1. t = EventThread => pc'[t] = "done"
    BY <1>a, OnwardsEffect
  <2>2. pc'[t] = "done" => t = EventThread
    BY <1>a, OnwardsEffect
  <2> QED
    BY <1>b, <1>c, <2>1, <2>2 DEF Inv, Holds, Describing
<1>6. Knows(t)'
  <2>1. path'[t] = None /\ pc'[t] # "compare"
    BY <1>a, <1>c, OnwardsEffect
  <2>2. dev'[t] # None => owned'[t] = {b \in Blocks : block'[b] = dev'[t]}
    BY <1>a, <1>b, OnwardsEffect
  <2> QED
    BY <2>1, <2>2 DEF Knows, BlocksOf
<1> QED
  BY <1>1, <1>2, <1>3, <1>4, <1>5, <1>6 DEF Inv

LEMMA OpenDirInv == ASSUME Inv, NEW t \in Threads, OpenDir(t) PROVE Inv'
<1> USE DeviceQueryAssumption DEF Goto, worldVars, lookupVars, historyVars
<1>1. TypeOK'
  <2>1. {b \in Blocks : block[b] # None} \in SUBSET Blocks
    OBVIOUS
  <2>2. Findable(dev[t]) \in SUBSET Blocks
    BY DEF Findable
  <2>3. \E S \in SUBSET Blocks : todo' = [todo EXCEPT ![t] = S]
    BY <2>1 DEF OpenDir
  <2>4. \E S \in SUBSET Blocks : steady' = [steady EXCEPT ![t] = S]
    BY <2>2 DEF OpenDir
  <2>5. todo' \in [Threads -> SUBSET Blocks] /\ steady' \in [Threads -> SUBSET Blocks]
    BY <2>3, <2>4 DEF Inv, TypeOK
  <2> QED
    BY <2>5 DEF OpenDir, Inv, TypeOK, Places
<1>2. BusFacts'
  BY BusFrame DEF OpenDir, Inv
<1>3. ASSUME NEW u \in Threads, u # t PROVE (Device(u) /\ Holds(u) /\ Knows(u))'
  BY <1>3, OtherThread DEF OpenDir, Inv, TypeOK, Locals, Threads
<1>4. Device(t)'
  BY DEF OpenDir, Inv, TypeOK, Device, Describing, Threads
<1>5. Holds(t)'
  BY DEF OpenDir, Inv, TypeOK, Holds, Device, Describing, Threads
<1>6. Knows(t)'
  BY BlocksFrame DEF OpenDir, Inv, TypeOK, Knows, Device, Describing, Threads
<1> QED
  BY <1>1, <1>2, <1>3, <1>4, <1>5, <1>6 DEF Inv

\* A thread finds a directory only of a block device which is there, and whose device is on the bus.
LEMMA ResolveInv == ASSUME Inv, NEW t \in Threads, Resolve(t) PROVE Inv'
<1> USE DeviceQueryAssumption DEF Goto, worldVars, lookupVars, historyVars
<1>a. PICK b \in todo[t] :
        /\ todo' = [todo EXCEPT ![t] = @ \ {b}]
        /\ \/ /\ FindUsbAddressFiles(Above(b)) # 0
              /\ entry' = [entry EXCEPT ![t] = b]
              /\ dir' = [dir EXCEPT ![t] = Port[block[b]]]
              /\ pc' = [pc EXCEPT ![t] = "compare"]
           \/ UNCHANGED <<entry, dir, pc>>
        /\ UNCHANGED steady \/ steady' = [steady EXCEPT ![t] = @ \ {b}]
  BY DEF Resolve
<1>b. b \in Blocks /\ pc[t] = "resolve" /\ UNCHANGED <<call, devs, dev, tries, path, handle, owned, adminLock, bus, gone, block>>
  BY DEF Resolve, Inv, TypeOK
<1>c. FindUsbAddressFiles(Above(b)) # 0 => block[b] \in bus /\ block[b] \in Devices
  <2>1. CASE block[b] = None
    BY <2>1, NothingAboveNothing DEF Above
  <2>2. CASE block[b] # None
    BY <1>b, <2>2 DEF Inv, TypeOK, BusFacts
  <2> QED
    BY <2>1, <2>2
<1>d. \/ /\ entry' = [entry EXCEPT ![t] = b] /\ dir' = [dir EXCEPT ![t] = Port[block[b]]]
         /\ pc' = [pc EXCEPT ![t] = "compare"] /\ block[b] \in bus /\ block[b] \in Devices
      \/ UNCHANGED <<entry, dir, pc>>
  BY <1>a, <1>c
<1>e. todo' \in [Threads -> SUBSET Blocks]
  BY <1>a DEF Inv, TypeOK
<1>f. steady' \in [Threads -> SUBSET Blocks]
  <2>1. steady \in [Threads -> SUBSET Blocks] /\ steady[t] \ {b} \in SUBSET Blocks
    BY DEF Inv, TypeOK
  <2>2. CASE UNCHANGED steady
    BY <2>1, <2>2
  <2>3. CASE steady' = [steady EXCEPT ![t] = @ \ {b}]
    BY <2>1, <2>3
  <2> QED
    BY <1>a, <2>2, <2>3
<1>1. TypeOK'
  <2>1. CASE UNCHANGED <<entry, dir, pc>>
    BY <1>e, <1>f, <2>1 DEF Resolve, Inv, TypeOK
  <2>2. CASE /\ entry' = [entry EXCEPT ![t] = b] /\ dir' = [dir EXCEPT ![t] = Port[block[b]]]
             /\ pc' = [pc EXCEPT ![t] = "compare"] /\ block[b] \in Devices
    BY <1>b, <1>e, <1>f, <2>2 DEF Resolve, Inv, TypeOK, Places
  <2> QED
    BY <1>d, <2>1, <2>2
<1>2. BusFacts'
  BY BusFrame DEF Resolve, Inv
<1>3. ASSUME NEW u \in Threads, u # t PROVE (Device(u) /\ Holds(u) /\ Knows(u))'
  BY <1>3, <1>b, <1>d, OtherThread DEF Locals, Inv, TypeOK
<1>4. Device(t)'
  BY <1>b, <1>d DEF Inv, TypeOK, Device, Describing
<1>5. Holds(t)'
  BY <1>b, <1>d DEF Inv, TypeOK, Holds, Describing
<1>6. Knows(t)'
  <2>1. Knows(t) /\ dev[t] \in bus \cup gone /\ bus \cap gone = {} /\ dev[t] # None
    BY <1>b, DeviceQueryAssumption DEF Inv, BusFacts, Device, Describing
  <2>2. CASE UNCHANGED <<entry, dir, pc>>
    BY <1>b, <2>1, <2>2, BlocksFrame DEF Knows
  <2>3. CASE /\ entry'[t] = b /\ dir'[t] = Port[block[b]] /\ block[b] \in bus
    <3>1. block[b] = dev[t] => b \in owned[t]
      BY <1>b, <2>1 DEF Knows, BlocksOf
    <3>2. block[b] # dev[t] /\ Port[block[b]] = Port[dev[t]] => dev[t] \in gone
      BY <2>1, <2>3 DEF Inv, BusFacts
    <3> QED
      BY <1>b, <2>1, <2>3, <3>1, <3>2, BlocksFrame DEF Knows
  <2> QED
    BY <1>d, <2>2, <2>3 DEF Inv, TypeOK
<1> QED
  BY <1>1, <1>2, <1>3, <1>4, <1>5, <1>6 DEF Inv

\* A device which compares equal is on the bus, so what was found at its port is its own.
LEMMA CompareInv == ASSUME Inv, NEW t \in Threads, Compare(t) PROVE Inv'
<1> USE DeviceQueryAssumption DEF Goto, worldVars, lookupVars, historyVars
<1>a. pc[t] = "compare"
  BY DEF Compare, Matched, PassedOver
<1>b. UNCHANGED <<call, devs, index, dev, tries, status, answer, handle, adminLock, work,
                  unreadable, owned, bus, gone, block>>
      /\ entry' = [entry EXCEPT ![t] = None] /\ dir' = [dir EXCEPT ![t] = None]
  BY DEF Compare, LeaveEntry
<1>c. \/ /\ dev[t] \in bus /\ Port[dev[t]] = dir[t] /\ path' = [path EXCEPT ![t] = entry[t]]
         /\ todo' = [todo EXCEPT ![t] = {}] /\ steady' = [steady EXCEPT ![t] = {}]
         /\ pc' = [pc EXCEPT ![t] = "described"]
      \/ /\ \E S : steady' = [steady EXCEPT ![t] = @ \ S]
         /\ pc' = [pc EXCEPT ![t] = "resolve"] /\ UNCHANGED <<path, todo>>
  BY DEF Compare, Matched, PassedOver
<1>d. pc'[t] \in {"described", "resolve"} /\ \A u \in Threads : u # t => pc'[u] = pc[u]
  BY <1>c DEF Inv, TypeOK
<1>1. TypeOK'
  <2>1. pc' \in [Threads -> Places] /\ path' \in [Threads -> Blocks \cup {None}]
    BY <1>c DEF Inv, TypeOK, Places
  <2>2. todo' \in [Threads -> SUBSET Blocks]
    BY <1>c DEF Inv, TypeOK
  <2>3. \A S : steady[t] \ S \in SUBSET Blocks /\ {} \in SUBSET Blocks
    BY DEF Inv, TypeOK
  <2>4. \E S \in SUBSET Blocks : steady' = [steady EXCEPT ![t] = S]
    BY <1>c, <2>3
  <2>5. steady' \in [Threads -> SUBSET Blocks]
    BY <2>4 DEF Inv, TypeOK
  <2> QED
    BY <1>b, <2>1, <2>2, <2>5 DEF Inv, TypeOK
<1>2. BusFacts'
  BY <1>b, BusFrame DEF Inv
<1>3. ASSUME NEW u \in Threads, u # t PROVE (Device(u) /\ Holds(u) /\ Knows(u))'
  <2>1. UNCHANGED <<pc[u], entry[u], dir[u], path[u]>>
    BY <1>3, <1>b, <1>c DEF Inv, TypeOK
  <2> QED
    BY <1>b, <2>1, OtherThread DEF Locals
<1>4. Device(t)'
  BY <1>a, <1>b, <1>d DEF Inv, Device, Describing
<1>5. Holds(t)'
  BY <1>a, <1>b, <1>d DEF Inv, Holds, Describing
<1>6. Knows(t)'
  <2>1. Knows(t) /\ bus \cap gone = {}
    BY DEF Inv, BusFacts
  <2>2. path'[t] # None => path'[t] \in owned[t]
    BY <1>a, <1>c, <2>1 DEF Knows, Inv, TypeOK
  <2> QED
    BY <1>b, <1>d, <2>1, <2>2, BlocksFrame DEF Knows
<1> QED
  BY <1>1, <1>2, <1>3, <1>4, <1>5, <1>6 DEF Inv

LEMMA NotFoundInv == ASSUME Inv, NEW t \in Threads, NotFound(t) PROVE Inv'
<1> USE DeviceQueryAssumption DEF Goto, worldVars, lookupVars, historyVars
<1>a. tries[t] \in 0..Attempts /\ tries[t] > 0
  BY DEF NotFound, Inv, TypeOK, Device
<1>b. tries' \in [Threads -> 0..Attempts]
  BY <1>a DEF NotFound, Inv, TypeOK
<1>1. TypeOK'
  <2>1. pc' \in [Threads -> Places]
    BY DEF NotFound, Inv, TypeOK, Places
  <2> QED
    BY <1>b, <2>1 DEF NotFound, Inv, TypeOK
<1>2. BusFacts'
  BY BusFrame DEF NotFound, Inv
<1>3. ASSUME NEW u \in Threads, u # t PROVE (Device(u) /\ Holds(u) /\ Knows(u))'
  BY <1>3, OtherThread DEF NotFound, Inv, TypeOK, Locals, Threads
<1>4. Device(t)'
  BY DEF NotFound, Inv, TypeOK, Device, Describing, Threads
<1>5. Holds(t)'
  BY DEF NotFound, Inv, TypeOK, Holds, Device, Describing, Threads
<1>6. Knows(t)'
  BY BlocksFrame DEF NotFound, Inv, TypeOK, Knows, Device, Describing, Threads
<1> QED
  BY <1>1, <1>2, <1>3, <1>4, <1>5, <1>6 DEF Inv

LEMMA WakeInv == ASSUME Inv, NEW t \in Threads, Wake(t) PROVE Inv'
<1> USE DeviceQueryAssumption DEF Goto, worldVars, lookupVars, historyVars
<1>1. TypeOK'
  BY DEF Wake, Inv, TypeOK, Places
<1>2. BusFacts'
  BY BusFrame DEF Wake, Inv
<1>3. ASSUME NEW u \in Threads, u # t PROVE (Device(u) /\ Holds(u) /\ Knows(u))'
  BY <1>3, OtherThread DEF Wake, Inv, TypeOK, Locals, Threads
<1>4. Device(t)'
  BY DEF Wake, Inv, TypeOK, Device, Describing, Threads
<1>5. Holds(t)'
  BY DEF Wake, Inv, TypeOK, Holds, Device, Describing, Threads
<1>6. Knows(t)'
  BY BlocksFrame DEF Wake, Inv, TypeOK, Knows, Device, Describing, Threads
<1> QED
  BY <1>1, <1>2, <1>3, <1>4, <1>5, <1>6 DEF Inv

LEMMA OpenInv == ASSUME Inv, NEW c \in Clients, Open(c) PROVE Inv'
<1> USE DeviceQueryAssumption DEF Goto, worldVars, lookupVars, historyVars
<1>1. TypeOK'
  BY DEF Open, TurnAway, Inv, TypeOK, Places
<1>2. BusFacts'
  BY BusFrame DEF Open, TurnAway, Inv
<1>3. ASSUME NEW u \in Threads, u # c PROVE (Device(u) /\ Holds(u) /\ Knows(u))'
  BY <1>3, OtherThread DEF Open, TurnAway, Inv, TypeOK, Locals, Threads
<1>4. Device(c)'
  BY SMTT(40) DEF Open, TurnAway, Inv, TypeOK, Device, Describing, Threads
<1>5. Holds(c)'
  BY ZenonT(80) DEF Open, TurnAway, Inv, TypeOK, Holds, Device, Describing, Threads
<1>6. Knows(c)'
  BY BlocksFrame DEF Open, TurnAway, Inv, TypeOK, Knows, Device, Describing, Threads
<1> QED
  BY <1>1, <1>2, <1>3, <1>4, <1>5, <1>6 DEF Inv

LEMMA ReadStringsInv == ASSUME Inv, NEW c \in Clients, ReadStrings(c) PROVE Inv'
<1> USE DeviceQueryAssumption DEF Goto, worldVars, lookupVars, historyVars
<1>1. TypeOK'
  <2>1. PICK outcome \in Outcomes : status' = [status EXCEPT ![c] = outcome]
    BY DEF ReadStrings
  <2>2. status' \in [Threads -> Outcomes]
    BY <2>1 DEF Inv, TypeOK
  <2>3. pc' \in [Threads -> Places]
    BY DEF ReadStrings, Inv, TypeOK, Places
  <2> QED
    BY <2>2, <2>3 DEF ReadStrings, Inv, TypeOK
<1>2. BusFacts'
  BY BusFrame DEF ReadStrings, Inv
<1>3. ASSUME NEW u \in Threads, u # c PROVE (Device(u) /\ Holds(u) /\ Knows(u))'
  BY <1>3, OtherThread DEF ReadStrings, Inv, TypeOK, Locals, Threads
<1>4. Device(c)'
  BY DEF ReadStrings, Inv, TypeOK, Device, Describing, Threads
<1>5. Holds(c)'
  BY DEF ReadStrings, Inv, TypeOK, Holds, Device, Describing, Threads
<1>6. Knows(c)'
  BY BlocksFrame DEF ReadStrings, Inv, TypeOK, Knows, Device, Describing, Threads
<1> QED
  BY <1>1, <1>2, <1>3, <1>4, <1>5, <1>6 DEF Inv

LEMMA CloseInv == ASSUME Inv, NEW c \in Clients, Close(c) PROVE Inv'
<1> USE DeviceQueryAssumption DEF Goto, worldVars, lookupVars, historyVars
<1>1. TypeOK'
  BY DEF Close, Inv, TypeOK, Places
<1>2. BusFacts'
  BY BusFrame DEF Close, Inv
<1>3. ASSUME NEW u \in Threads, u # c PROVE (Device(u) /\ Holds(u) /\ Knows(u))'
  BY <1>3, OtherThread DEF Close, Inv, TypeOK, Locals, Threads
<1>4. Device(c)'
  BY DEF Close, Inv, TypeOK, Device, Describing, Threads
<1>5. Holds(c)'
  BY DEF Close, Inv, TypeOK, Holds, Device, Describing, Threads
<1>6. Knows(c)'
  BY BlocksFrame DEF Close, Inv, TypeOK, Knows, Device, Describing, Threads
<1> QED
  BY <1>1, <1>2, <1>3, <1>4, <1>5, <1>6 DEF Inv

LEMMA FreeInv == ASSUME Inv, NEW c \in Clients, Free(c) PROVE Inv'
<1> USE DeviceQueryAssumption DEF Goto, worldVars, lookupVars, historyVars
<1>a. c \in Threads /\ devs' = [devs EXCEPT ![c] = <<>>] /\ <<>> \in Seq(Devices)
  BY DEF Free, Threads
<1>b. devs' \in [Threads -> Seq(Devices)] /\ devs'[c] = <<>> /\ DOMAIN devs'[c] = {}
  BY <1>a DEF Inv, TypeOK
<1>1. TypeOK'
  BY <1>a, <1>b DEF Free, Inv, TypeOK, Places
<1>2. BusFacts'
  BY BusFrame DEF Free, Inv
<1>3. ASSUME NEW u \in Threads, u # c PROVE (Device(u) /\ Holds(u) /\ Knows(u))'
  BY <1>3, OtherThread DEF Free, Inv, TypeOK, Locals, Threads
<1>4. Device(c)'
  <2>1. pc[c] = "free" /\ pc'[c] = "done" /\ UNCHANGED <<dev, bus, gone, tries>>
    BY <1>a DEF Free, Inv, TypeOK
  <2> QED
    BY <1>a, <1>b, <2>1 DEF Inv, Device, Describing
<1>5. Holds(c)'
  BY DEF Free, Inv, TypeOK, Holds, Device, Describing, Threads
<1>6. Knows(c)'
  BY BlocksFrame DEF Free, Inv, TypeOK, Knows, Device, Describing, Threads
<1> QED
  BY <1>1, <1>2, <1>3, <1>4, <1>5, <1>6 DEF Inv

LEMMA DoneInv == ASSUME Inv, NEW t \in Threads, Done(t) PROVE Inv'
<1> USE DeviceQueryAssumption DEF Goto, worldVars, lookupVars, historyVars
<1>1. TypeOK'
  BY DEF Done, Return, NoCall, Outcomes, Inv, TypeOK, Places
<1>2. BusFacts'
  BY BusFrame DEF Done, Return, NoCall, Outcomes, Inv
<1>3. ASSUME NEW u \in Threads, u # t PROVE (Device(u) /\ Holds(u) /\ Knows(u))'
  BY <1>3, OtherThread DEF Done, Return, NoCall, Outcomes, Inv, TypeOK, Locals, Threads
<1>4. Device(t)'
  BY DEF Done, Return, NoCall, Outcomes, Inv, TypeOK, Device, Describing, Threads
<1>5. Holds(t)'
  BY DEF Done, Return, NoCall, Outcomes, Inv, TypeOK, Holds, Device, Describing, Threads
<1>6. Knows(t)'
  BY BlocksFrame DEF Done, Return, NoCall, Outcomes, Inv, TypeOK, Knows, Device, Describing,
                     Threads
<1> QED
  BY <1>1, <1>2, <1>3, <1>4, <1>5, <1>6 DEF Inv

-----------------------------------------------------------------------------
(* What a lookup has found.                                                *)

\* A block device whose device is near enough has a directory with its files above it.
LEMMA BlockHasDirectory ==
    ASSUME NEW b \in Blocks, block[b] \in Devices, Below[block[b]] < MaxTraversalDepth
    PROVE  FindUsbAddressFiles(Above(b)) # 0
<1> DEFINE n == Below[block[b]] + 1
           chain == [i \in 1..n |-> IF i = n THEN Files ELSE {}]
<1>1. Above(b) = chain
  BY DeviceQueryAssumption DEF Above
<1>2. n \in Nat \ {0} /\ n <= MaxTraversalDepth
  BY DeviceQueryAssumption, SysfsWalkAssumption
<1> HIDE DEF n
<1>3. chain \in Seq(SUBSET Files) /\ Len(chain) = n /\ chain # <<>>
  BY <1>2
<1>4. chain[n] = Files /\ \A k \in 1..n : k # n => chain[k] # Files
  BY <1>2 DEF Files
<1> HIDE DEF chain
<1>5. n \in Stops(chain, 1) /\ \A k \in Stops(chain, 1) : n <= k
  BY <1>2, <1>3, <1>4, SysfsWalkAssumption DEF Stops
<1>6. FindUsbAddressFiles(chain) = n
  BY <1>3, <1>4, <1>5, WalkEnds
<1> QED
  BY <1>1, <1>2, <1>6

LEMMA FindableFrame == ASSUME UNCHANGED block, NEW d PROVE Findable(d)' = Findable(d)
  BY DEF Findable

\* What thread t has yet to find of the block devices which have been there all along.
Found(t) ==
    /\ pc[t] = "resolve" => steady[t] \subseteq Findable(dev[t]) \cap todo[t]
    /\ pc[t] = "compare" =>
          /\ steady[t] \subseteq Findable(dev[t]) \cap (todo[t] \cup {entry[t]})
          /\ entry[t] \in steady[t] => dir[t] = Port[dev[t]]

Seeks(u) == <<dev[u], todo[u], entry[u], dir[u], steady[u]>>

\* A step leaves what is said of the lookup of u if it leaves its variables, or if u
\* does not read the directory any more.
LEMMA FoundFrame ==
    ASSUME NEW u \in Threads, Found(u),
           \/ pc'[u] = pc[u] /\ UNCHANGED <<block, Seeks(u)>>
           \/ pc'[u] \notin {"resolve", "compare"}
    PROVE  Found(u)'
  BY FindableFrame DEF Found, Seeks

AllFound == \A u \in Threads : Found(u)

\* The block devices of a device which is unplugged, and one which is removed, are no
\* longer steady; one which appears was not.
LEMMA WorldFound == ASSUME Inv, AllFound, World PROVE AllFound'
<1> USE DEF lookupVars, historyVars, Findable
<1>1. ASSUME NEW d \in Devices, Plug(d), NEW u \in Threads PROVE Found(u)'
  BY <1>1 DEF Plug, AllFound, Found
<1>2. ASSUME NEW d \in Devices, Unplug(d), NEW u \in Threads PROVE Found(u)'
  <2>1. /\ UNCHANGED <<pc, dev, todo, entry, dir>> /\ steady'[u] = {b \in steady[u] : block[b] # d}
        /\ block' = [b \in Blocks |-> IF block[b] = d THEN None ELSE block[b]]
    BY <1>2 DEF Unplug
  <2> QED
    BY <2>1 DEF AllFound, Found
<1>3. ASSUME NEW d \in Devices, NEW b \in Blocks, AddBlock(d, b), NEW u \in Threads
      PROVE  Found(u)'
  <2>1. /\ UNCHANGED <<pc, dev, todo, entry, dir, steady>> /\ block[b] = None
        /\ block' = [block EXCEPT ![b] = d]
    BY <1>3 DEF AddBlock
  <2>2. pc[u] \in {"resolve", "compare"} => dev[u] # None
    BY DEF Inv, Device, Describing
  <2> QED
    BY <2>1, <2>2 DEF AllFound, Found, Inv, TypeOK
<1>4. ASSUME NEW b \in Blocks, RemoveBlock(b), NEW u \in Threads PROVE Found(u)'
  <2>1. /\ UNCHANGED <<pc, dev, todo, entry, dir>> /\ steady'[u] = steady[u] \ {b}
        /\ block' = [block EXCEPT ![b] = None]
    BY <1>4 DEF RemoveBlock
  <2> QED
    BY <2>1 DEF AllFound, Found, Inv, TypeOK
<1> QED
  BY <1>1, <1>2, <1>3, <1>4 DEF World, AllFound

LEMMA OpenDirFound == ASSUME Inv, AllFound, NEW t \in Threads, OpenDir(t) PROVE Found(t)'
<1>1. pc'[t] = "resolve" /\ UNCHANGED <<dev, block>>
  BY DEF OpenDir, Goto, worldVars, Inv, TypeOK
<1>2. dev[t] # None
  BY DEF OpenDir, Goto, Inv, Device, Describing
<1>3. \/ /\ todo'[t] = {b \in Blocks : block[b] # None}
         /\ steady'[t] = Findable(dev[t])
      \/ todo'[t] = {} /\ steady'[t] = {}
  BY DEF OpenDir, Inv, TypeOK
<1>4. Findable(dev[t]) \subseteq {b \in Blocks : block[b] # None}
  BY <1>2, DeviceQueryAssumption DEF Findable
<1> QED
  BY <1>1, <1>3, <1>4, FindableFrame DEF Found

\* A steady block device has its directory, so it is passed over only when a read fails.
LEMMA ResolveFound == ASSUME Inv, AllFound, NEW t \in Threads, Resolve(t) PROVE Found(t)'
<1>a. PICK b \in todo[t] :
        /\ todo' = [todo EXCEPT ![t] = @ \ {b}]
        /\ \/ /\ entry' = [entry EXCEPT ![t] = b]
              /\ dir' = [dir EXCEPT ![t] = Port[block[b]]]
              /\ pc' = [pc EXCEPT ![t] = "compare"] /\ UNCHANGED steady
           \/ /\ b \notin Disks \/ FindUsbAddressFiles(Above(b)) = 0
              /\ UNCHANGED <<pc, steady>>
           \/ steady' = [steady EXCEPT ![t] = @ \ {b}] /\ UNCHANGED pc
  BY DEF Resolve, Goto
<1>b. pc[t] = "resolve" /\ UNCHANGED <<dev, block>>
  BY DEF Resolve, worldVars
<1>c. steady[t] \subseteq Findable(dev[t]) \cap todo[t] /\ todo'[t] = todo[t] \ {b}
  BY <1>a, <1>b DEF AllFound, Found, Inv, TypeOK
<1>d. dev[t] \in Devices /\ b \in Blocks
  BY <1>a, <1>b DEF Inv, TypeOK, Device, Describing
<1>e. Findable(dev[t])' = Findable(dev[t])
  BY <1>b, FindableFrame
<1>1. CASE /\ entry' = [entry EXCEPT ![t] = b] /\ dir' = [dir EXCEPT ![t] = Port[block[b]]]
           /\ pc' = [pc EXCEPT ![t] = "compare"] /\ UNCHANGED steady
  <2>1. pc'[t] = "compare" /\ entry'[t] = b /\ dir'[t] = Port[block[b]]
    BY <1>1 DEF Inv, TypeOK
  <2>2. b \in steady[t] => block[b] = dev[t]
    BY <1>c DEF Findable
  <2> QED
    BY <1>b, <1>c, <1>e, <1>1, <2>1, <2>2 DEF Found
<1>2. CASE /\ b \notin Disks \/ FindUsbAddressFiles(Above(b)) = 0
           /\ UNCHANGED <<pc, steady>>
  <2>1. b \notin steady[t]
    BY <1>c, <1>d, <1>2, BlockHasDirectory DEF Findable
  <2> QED
    BY <1>b, <1>c, <1>e, <1>2, <2>1 DEF Found
<1>3. CASE steady' = [steady EXCEPT ![t] = @ \ {b}] /\ UNCHANGED pc
  <2>1. steady'[t] = steady[t] \ {b}
    BY <1>3 DEF Inv, TypeOK
  <2> QED
    BY <1>b, <1>c, <1>e, <1>3, <2>1 DEF Found
<1> QED
  BY <1>a, <1>1, <1>2, <1>3

\* A steady block device compares equal, as its device is on the bus and at the port
\* whose directory was found: an entry which does not match was not steady, and one
\* whose files could not be read is not any more.
LEMMA CompareFound == ASSUME Inv, AllFound, NEW t \in Threads, Compare(t) PROVE Found(t)'
<1>a. pc[t] = "compare" /\ UNCHANGED <<dev, block>>
  BY DEF Compare, Matched, PassedOver, LeaveEntry, Goto, worldVars
<1>1. CASE Matched(t)
  BY <1>1 DEF Matched, Goto, Found, Inv, TypeOK
<1>2. ASSUME NEW S, PassedOver(t, S), entry[t] \in steady[t] => entry[t] \in S
      PROVE  Found(t)'
  <2>1. pc'[t] = "resolve" /\ UNCHANGED todo /\ steady'[t] = steady[t] \ S
    BY <1>2 DEF PassedOver, Goto, Inv, TypeOK
  <2>2. steady[t] \subseteq Findable(dev[t]) \cap (todo[t] \cup {entry[t]})
    BY <1>a DEF AllFound, Found
  <2>3. Findable(dev[t])' = Findable(dev[t])
    BY <1>a, FindableFrame
  <2> QED
    BY <1>a, <1>2, <2>1, <2>2, <2>3 DEF Found
<1>3. CASE PassedOver(t, {entry[t]})
  BY <1>2, <1>3
<1>4. CASE PassedOver(t, {}) /\ ~\E d \in bus : Port[d] = dir[t] /\ d = dev[t]
  <2>1. ASSUME entry[t] \in steady[t] PROVE FALSE
    <3>1. entry[t] \in Blocks /\ block[entry[t]] = dev[t] /\ dir[t] = Port[dev[t]]
      BY <1>a, <2>1, DeviceQueryAssumption DEF AllFound, Found, Findable
    <3>2. dev[t] \in bus
      BY <1>a, <3>1 DEF Inv, BusFacts, Device, Describing
    <3> QED
      BY <1>4, <3>1, <3>2
  <2> QED
    BY <1>2, <1>4, <2>1
<1> QED
  BY <1>1, <1>3, <1>4 DEF Compare

\* No step of thread t, but those three, has to do with a directory.
LEMMA ThreadFound ==
    ASSUME Inv, AllFound, NEW t \in Threads,
           \/ DescribeDevice(t)
           \/ t \in Clients /\ (Enter(t) \/ Serve(t))
           \/ t = EventThread /\ HotPlug
    PROVE  AllFound'
<1> USE DEF Goto, worldVars, lookupVars, historyVars, Seeks
<1> DEFINE Elsewhere == \A u \in Threads : u # t => pc'[u] = pc[u] /\ UNCHANGED <<block, Seeks(u)>>
           Stays == Elsewhere /\ pc'[t] \notin {"resolve", "compare"}
<1>1. CASE Onwards(t, "describe") /\ UNCHANGED <<block, todo, entry, dir, steady>>
  <2>1. Stays
    BY <1>1, OnwardsEffect, DeviceQueryAssumption DEF Places
  <2> QED
    BY <2>1, FoundFrame DEF AllFound
<1>2. CASE Onwards(t, "described") /\ UNCHANGED <<block, todo, entry, dir, steady>>
  <2>1. Stays
    BY <1>2, OnwardsEffect, DeviceQueryAssumption DEF Places
  <2> QED
    BY <2>1, FoundFrame DEF AllFound
<1>3. CASE Describe(t) \/ NotFound(t) \/ Wake(t) \/ Done(t)
  <2>1. Stays
    BY <1>3 DEF Describe, NotFound, Wake, Done, Inv, TypeOK
  <2> QED
    BY <2>1, FoundFrame DEF AllFound
<1>4. CASE t \in Clients /\ (Enter(t) \/ Lock(t))
  <2>1. Stays
    BY <1>4 DEF Enter, Begin, Lock, Inv, TypeOK
  <2> QED
    BY <2>1, FoundFrame DEF AllFound
<1>5. CASE HotPlug /\ t = EventThread
  <2>1. Stays
    BY <1>5 DEF HotPlug, Begin, TurnTo, Inv, TypeOK
  <2> QED
    BY <2>1, FoundFrame DEF AllFound
<1>6. CASE t \in Clients /\ GetList(t)
  <2>1. Stays
    BY <1>6 DEF GetList, TurnTo, TurnAway, Inv, TypeOK
  <2> QED
    BY <2>1, FoundFrame DEF AllFound
<1>7. CASE t \in Clients /\ (Open(t) \/ ReadStrings(t) \/ Close(t) \/ Free(t))
  <2>1. Stays
    BY <1>7 DEF Open, TurnAway, ReadStrings, Close, Free, Inv, TypeOK
  <2> QED
    BY <2>1, FoundFrame DEF AllFound
<1>8. CASE OpenDir(t)
  <2>1. Elsewhere
    BY <1>8 DEF OpenDir, Inv, TypeOK
  <2> QED
    BY <1>8, <2>1, FoundFrame, OpenDirFound DEF AllFound
<1>9. CASE Resolve(t)
  <2>1. Elsewhere
    BY <1>9 DEF Resolve, Inv, TypeOK
  <2> QED
    BY <1>9, <2>1, FoundFrame, ResolveFound DEF AllFound
<1>10. CASE Compare(t)
  <2>1. Elsewhere
    BY <1>10 DEF Compare, Matched, PassedOver, LeaveEntry, Inv, TypeOK
  <2> QED
    BY <1>10, <2>1, FoundFrame, CompareFound DEF AllFound
<1>11. CASE Unreadable(t) \/ Described(t)
  BY <1>1, <1>2, <1>11 DEF Unreadable, Described
<1> QED
  BY <1>3, <1>4, <1>5, <1>6, <1>7, <1>8, <1>9, <1>10, <1>11
     DEF DescribeDevice, Lookup, Serve

-----------------------------------------------------------------------------
(* What a list has.                                                        *)

\* The list out has the first n devices of in which are not in S, once and in their order,
\* and S has no other.
Covers(out, in, n, S) ==
    /\ \A k \in 1..n : in[k] \notin S => \E i \in DOMAIN out : out[i] = in[k]
    /\ \A i \in DOMAIN out : out[i] \notin S /\ \E k \in 1..n : out[i] = in[k]
    /\ \A d \in S : \E k \in 1..n : d = in[k]
    /\ \A i, j \in DOMAIN out, k, l \in 1..n :
          out[i] = in[k] /\ out[j] = in[l] => (i < j <=> k < l)

Distinct(in) == \A k, l \in DOMAIN in : in[k] = in[l] => k = l

LEMMA CoversNone == ASSUME NEW in PROVE Covers(<<>>, in, 0, {})
  BY DEF Covers

LEMMA CoversUnreadable ==
    ASSUME NEW D, NEW out \in Seq(D), NEW in \in Seq(D), Distinct(in),
           NEW n \in DOMAIN in, NEW S, Covers(out, in, n - 1, S)
    PROVE  Covers(out, in, n, S \cup {in[n]})
<1>1. n \in Nat \ {0} /\ 1..n \subseteq DOMAIN in /\ 1..n = 1..(n - 1) \cup {n}
      /\ n \notin 1..(n - 1)
  OBVIOUS
<1>2. \A k \in 1..(n - 1) : in[k] # in[n]
  BY <1>1 DEF Distinct
<1>3. \A k \in 1..n : in[k] \notin S \cup {in[n]} => \E i \in DOMAIN out : out[i] = in[k]
  BY <1>1 DEF Covers
<1>4. \A i \in DOMAIN out : out[i] \notin S \cup {in[n]} /\ \E k \in 1..n : out[i] = in[k]
  BY <1>1, <1>2 DEF Covers
<1>5. \A d \in S \cup {in[n]} : \E k \in 1..n : d = in[k]
  BY <1>1 DEF Covers
<1>6. \A i, j \in DOMAIN out, k, l \in 1..n :
         out[i] = in[k] /\ out[j] = in[l] => (i < j <=> k < l)
  BY <1>1, <1>4 DEF Covers
<1> QED
  BY <1>3, <1>4, <1>5, <1>6 DEF Covers

LEMMA CoversDescribed ==
    ASSUME NEW D, NEW out \in Seq(D), NEW in \in Seq(D), Distinct(in),
           NEW n \in DOMAIN in, NEW S, Covers(out, in, n - 1, S)
    PROVE  Covers(Append(out, in[n]), in, n, S) /\ in[n] \notin S
<1> DEFINE m == Len(out) + 1
           app == Append(out, in[n])
<1>1. /\ n \in Nat \ {0} /\ 1..n \subseteq DOMAIN in /\ 1..n = 1..(n - 1) \cup {n}
      /\ n \notin 1..(n - 1) /\ \A k \in 1..(n - 1) : k < n
  OBVIOUS
<1>2. \A k \in 1..(n - 1) : in[k] # in[n]
  BY <1>1 DEF Distinct
<1>3. in[n] \notin S
  BY <1>2 DEF Covers
<1>4. in[n] \in D
  OBVIOUS
<1>5. /\ m \in Nat /\ DOMAIN app = DOMAIN out \cup {m} /\ m \notin DOMAIN out
      /\ app[m] = in[n] /\ \A i \in DOMAIN out : app[i] = out[i] /\ i < m /\ i \in Nat
  BY <1>4
<1> HIDE DEF m, app
<1>6. \A k \in 1..n : in[k] \notin S => \E i \in DOMAIN app : app[i] = in[k]
  BY <1>1, <1>5, SMTT(40) DEF Covers
<1>7. \A i \in DOMAIN app : app[i] \notin S /\ \E k \in 1..n : app[i] = in[k]
  BY <1>1, <1>3, <1>5 DEF Covers
<1>8. \A d \in S : \E k \in 1..n : d = in[k]
  BY <1>1 DEF Covers
<1>9. ASSUME NEW i \in DOMAIN app, NEW k \in 1..n, app[i] = in[k] PROVE i = m <=> k = n
  <2>1. CASE i = m
    BY <1>1, <1>2, <1>5, <1>9, <2>1
  <2>2. CASE i # m
    <3>1. i \in DOMAIN out /\ app[i] = out[i]
      BY <1>5, <2>2
    <3>2. PICK x \in 1..(n - 1) : out[i] = in[x]
      BY <3>1 DEF Covers
    <3> QED
      BY <1>2, <1>9, <2>2, <3>1, <3>2
  <2> QED
    BY <2>1, <2>2
<1>10. ASSUME NEW i \in DOMAIN app, NEW j \in DOMAIN app, NEW k \in 1..n, NEW l \in 1..n,
             app[i] = in[k], app[j] = in[l]
      PROVE  i < j <=> k < l
  <2>1. (i = m <=> k = n) /\ (j = m <=> l = n)
    BY <1>9, <1>10
  <2>2. CASE i = m \/ j = m
    BY <1>1, <1>5, <2>1, <2>2
  <2>3. CASE i # m /\ j # m
    BY <1>1, <1>5, <1>10, <2>1, <2>3 DEF Covers
  <2> QED
    BY <2>2, <2>3
<1> QED
  BY <1>3, <1>6, <1>7, <1>8, <1>10 DEF Covers, app

LEMMA CoversAll ==
    ASSUME NEW D, NEW out, NEW in \in Seq(D), NEW S, Covers(out, in, Len(in), S)
    PROVE  ListsWithout(out, in, S)
<1>1. DOMAIN in = 1..Len(in)
  OBVIOUS
<1>2. {out[i] : i \in DOMAIN out} = {in[k] : k \in DOMAIN in} \ S
  BY <1>1 DEF Covers
<1> QED
  BY <1>1, <1>2 DEF Covers, ListsWithout

\* What client c has said of the first n devices of its list.
Sofar(c, n) ==
    /\ Covers(answer[c], devs[c], n, unreadable[c])
    /\ n > 0 => (status[c] = "ERROR_NONE" <=> devs[c][n] \notin unreadable[c])

\* The list of client c, and how far it is.
Listing(c) ==
    /\ Distinct(devs[c])
    /\ pc[c] \in {"idle", "lock", "list"} =>
          answer[c] = <<>> /\ unreadable[c] = {} /\ index[c] = 1
    /\ call[c].op = "GetDeviceList" /\ pc[c] \in Describing =>
          /\ index[c] \in DOMAIN devs[c] /\ dev[c] = devs[c][index[c]]
          /\ Sofar(c, index[c] - 1)
    /\ call[c].op = "GetDeviceList" /\ pc[c] = "free" =>
          devs[c] # <<>> /\ Sofar(c, Len(devs[c]))

AllListing == \A c \in Clients : Listing(c)

Tells(c) == <<call[c], devs[c], index[c], dev[c], answer[c], unreadable[c]>>

\* A step leaves what is said of the list of c if it leaves its variables, and does not
\* take c to another stage of it.
LEMMA ListingFrame ==
    ASSUME NEW c \in Clients, Listing(c), UNCHANGED Tells(c),
           UNCHANGED status[c] \/ call[c].op # "GetDeviceList",
           \/ pc'[c] = pc[c]
           \/ pc[c] \in Describing /\ pc'[c] \in Describing
           \/ call[c].op # "GetDeviceList" /\ pc'[c] \notin {"idle", "lock", "list"}
           \/ pc[c] \in {"idle", "lock"} /\ pc'[c] \in {"lock", "list"}
    PROVE  Listing(c)'
  BY DEF Listing, Tells, Sofar, Describing

\* libusb_get_device_list has each device once: it is as long as there are devices.
LEMMA ListsDistinct ==
    ASSUME Inv, NEW l \in Lists(bus)
    PROVE  l \in Seq(Devices) /\ Distinct(l) /\ (bus # {} => Len(l) > 0 /\ l[1] \in bus)
<1> DEFINE n == Cardinality(bus)
<1>1. IsFiniteSet(bus) /\ n \in Nat /\ bus \subseteq Devices
  BY BusFinite DEF Inv, TypeOK
<1>2. l \in [1..n -> bus] /\ {l[i] : i \in DOMAIN l} = bus
  BY DEF Lists
<1>3. Cardinality(1..n) = n /\ IsFiniteSet(1..n)
  BY <1>1, FS_Interval
<1>4. l \in Surjection(1..n, bus)
  BY <1>2 DEF Surjection
<1>5. l \in Injection(1..n, bus)
  BY <1>3, <1>4, FS_SurjSameCardinalityImpliesInj
<1>6. Distinct(l)
  BY <1>2, <1>5 DEF Injection, IsInjective, Distinct
<1>7. bus # {} => n > 0
  BY <1>1, FS_EmptySet
<1> QED
  BY <1>1, <1>2, <1>6, <1>7

LEMMA GetListListing ==
    ASSUME Inv, AllListing, NEW c \in Clients, GetList(c) PROVE Listing(c)'
<1> USE DeviceQueryAssumption DEF Goto
<1>1. /\ c \in Threads /\ pc[c] = "list" /\ UNCHANGED <<call, index, answer, unreadable>>
      /\ Listing(c)
  BY DEF GetList, AllListing, Threads
<1>2. CASE pc'[c] = "done" /\ UNCHANGED devs
  BY <1>1, <1>2 DEF Listing, Describing
<1>3. ASSUME NEW l \in Lists(bus), bus # {}, devs' = [devs EXCEPT ![c] = l],
             call[c].op = "GetDeviceList", TurnTo(c, l[1]), pc'[c] = "describe"
      PROVE  Listing(c)'
  <2>1. devs'[c] = l /\ dev'[c] = l[1]
    BY <1>1, <1>3 DEF TurnTo, Inv, TypeOK
  <2>2. Distinct(l) /\ 1 \in DOMAIN l
    BY <1>3, ListsDistinct
  <2>3. index'[c] = 1 /\ answer'[c] = <<>> /\ unreadable'[c] = {}
    BY <1>1 DEF Listing
  <2>4. Sofar(c, 0)'
    BY <2>1, <2>3, CoversNone DEF Sofar
  <2>5. index'[c] - 1 = 0
    BY <2>3
  <2> QED
    BY <1>3, <2>1, <2>2, <2>3, <2>4, <2>5 DEF Listing
<1>4. ASSUME NEW l \in Lists(bus), devs' = [devs EXCEPT ![c] = l],
             call[c].op # "GetDeviceList", pc'[c] \in {"describe", "free"}
      PROVE  Listing(c)'
  <2>1. devs'[c] = l /\ Distinct(l)
    BY <1>1, <1>4, ListsDistinct DEF Inv, TypeOK
  <2> QED
    BY <1>1, <1>4, <2>1 DEF Listing
<1>5. CASE /\ status' = [status EXCEPT ![c] = IF call[c].op = "GetDeviceList" THEN "ERROR_NONE" ELSE @]
           /\ Goto(c, "list", "done") /\ UNCHANGED <<devs, dev, path, owned>>
  BY <1>1, <1>2, <1>5 DEF Inv, TypeOK
<1>6. ASSUME NEW l \in Lists(bus), bus # {}, devs' = [devs EXCEPT ![c] = l],
             NEW first, first = IF call[c].op = "GetDeviceList" THEN l[1] ELSE call[c].dev,
             IF first \in bus THEN TurnTo(c, first) /\ Goto(c, "list", "describe")
                              ELSE TurnAway(c) /\ Goto(c, "list", "free")
      PROVE  Listing(c)'
  <2>1. pc'[c] \in {"describe", "free"}
    BY <1>1, <1>6 DEF Inv, TypeOK
  <2>2. CASE call[c].op = "GetDeviceList"
    <3>1. first = l[1] /\ first \in bus
      BY <1>6, <2>2, ListsDistinct
    <3>2. TurnTo(c, l[1]) /\ pc'[c] = "describe"
      BY <1>1, <1>6, <3>1 DEF Inv, TypeOK
    <3> QED
      BY <1>3, <1>6, <2>2, <3>2
  <2> QED
    BY <1>4, <1>6, <2>1, <2>2
<1> QED
  BY <1>5, <1>6 DEF GetList

\* After a device the list goes on with the next, or is at its end.
LEMMA OnwardsListing ==
    ASSUME Inv, NEW c \in Clients, Listing(c), NEW here \in Describing, Onwards(c, here),
           UNCHANGED <<call, devs>>,
           call[c].op = "GetDeviceList" =>
             /\ Covers(answer'[c], devs[c], index[c], unreadable'[c])
             /\ status'[c] = "ERROR_NONE" <=> devs[c][index[c]] \notin unreadable'[c]
    PROVE  Listing(c)'
<1> USE DeviceQueryAssumption DEF Goto
<1>1. /\ c \in Threads /\ c # EventThread /\ pc[c] = here /\ Distinct(devs[c])
      /\ devs[c] \in Seq(Devices) /\ UNCHANGED <<call[c], devs[c]>>
  BY DEF Onwards, Threads, Listing, Inv, TypeOK
<1>2. PICK n \in Nat \ {0} : n = index[c]
  BY <1>1 DEF Inv, TypeOK
<1>3. call[c].op = "GetDeviceList" => n \in DOMAIN devs[c] /\ Sofar(c, n)'
  BY <1>1, <1>2 DEF Listing, Sofar
<1>4. CASE call[c].op = "GetDeviceList" /\ n < Len(devs[c])
  <2>1. pc'[c] = "describe" /\ index'[c] = n + 1 /\ dev'[c] = devs[c][n + 1]
    BY <1>1, <1>2, <1>4 DEF Onwards, TurnTo, Inv, TypeOK
  <2>2. n + 1 \in DOMAIN devs[c] /\ (n + 1) - 1 = n
    BY <1>1, <1>4
  <2> QED
    BY <1>1, <1>3, <1>4, <2>1, <2>2 DEF Listing
<1>5. CASE ~(call[c].op = "GetDeviceList" /\ n < Len(devs[c]))
  <2>1. pc'[c] = "free"
    BY <1>1, <1>2, <1>5 DEF Onwards, Inv, TypeOK
  <2>2. call[c].op = "GetDeviceList" => n = Len(devs[c]) /\ devs[c] # <<>>
    BY <1>1, <1>3, <1>5
  <2> QED
    BY <1>1, <1>3, <2>1, <2>2 DEF Listing, Describing
<1> QED
  BY <1>4, <1>5

\* What describing a device adds to the list, and what an unreadable one does.
LEMMA UnreadableListing ==
    ASSUME Inv, AllListing, NEW c \in Clients, Unreadable(c) PROVE Listing(c)'
<1>1. c \in Threads /\ pc[c] = "describe" /\ Listing(c) /\ "describe" \in Describing
  BY OnwardsEffect DEF Unreadable, Threads, AllListing, Places, Describing
<1>2. UNCHANGED <<call, devs>> /\ Onwards(c, "describe")
  BY DEF Unreadable
<1>3. answer'[c] = answer[c] /\ status'[c] = "ERROR_GENERAL" /\ unreadable'[c] = unreadable[c] \cup {dev[c]}
  BY <1>1 DEF Unreadable, Inv, TypeOK
<1>4. ASSUME call[c].op = "GetDeviceList"
      PROVE  /\ Covers(answer'[c], devs[c], index[c], unreadable'[c])
             /\ status'[c] = "ERROR_NONE" <=> devs[c][index[c]] \notin unreadable'[c]
  <2>1. /\ index[c] \in DOMAIN devs[c] /\ dev[c] = devs[c][index[c]] /\ Distinct(devs[c])
        /\ Covers(answer[c], devs[c], index[c] - 1, unreadable[c])
    BY <1>1, <1>4 DEF Listing, Sofar
  <2>2. answer[c] \in Seq(Devices) /\ devs[c] \in Seq(Devices)
    BY <1>1 DEF Inv, TypeOK
  <2>3. Covers(answer[c], devs[c], index[c], unreadable[c] \cup {devs[c][index[c]]})
    BY <2>1, <2>2, CoversUnreadable
  <2> QED
    BY <1>3, <2>1, <2>3
<1> QED
  BY <1>1, <1>2, <1>4, OnwardsListing

LEMMA DescribedListing ==
    ASSUME Inv, AllListing, NEW c \in Clients, Described(c) PROVE Listing(c)'
<1>1. c \in Threads /\ pc[c] = "described" /\ Listing(c) /\ "described" \in Describing
  BY OnwardsEffect DEF Described, Threads, AllListing, Places, Describing
<1>2. UNCHANGED <<call, devs>> /\ Onwards(c, "described")
  BY DEF Described
<1>3. answer'[c] = Append(answer[c], dev[c]) /\ status'[c] = "ERROR_NONE" /\ unreadable'[c] = unreadable[c]
  BY <1>1 DEF Described, Inv, TypeOK
<1>4. ASSUME call[c].op = "GetDeviceList"
      PROVE  /\ Covers(answer'[c], devs[c], index[c], unreadable'[c])
             /\ status'[c] = "ERROR_NONE" <=> devs[c][index[c]] \notin unreadable'[c]
  <2>1. /\ index[c] \in DOMAIN devs[c] /\ dev[c] = devs[c][index[c]] /\ Distinct(devs[c])
        /\ Covers(answer[c], devs[c], index[c] - 1, unreadable[c])
    BY <1>1, <1>4 DEF Listing, Sofar
  <2>2. answer[c] \in Seq(Devices) /\ devs[c] \in Seq(Devices)
    BY <1>1 DEF Inv, TypeOK
  <2>3. /\ Covers(Append(answer[c], devs[c][index[c]]), devs[c], index[c], unreadable[c])
        /\ devs[c][index[c]] \notin unreadable[c]
    BY <2>1, <2>2, CoversDescribed
  <2> QED
    BY <1>3, <2>1, <2>3
<1> QED
  BY <1>1, <1>2, <1>4, OnwardsListing

\* The bus is no matter of a list which was taken, and no step of thread t is of the
\* list of another.
LEMMA ThreadListing ==
    ASSUME Inv, AllListing, NEW t \in Threads,
           \/ DescribeDevice(t)
           \/ t \in Clients /\ (Enter(t) \/ Serve(t))
           \/ t = EventThread /\ HotPlug
    PROVE  AllListing'
<1> USE DeviceQueryAssumption DEF Goto, worldVars, lookupVars, historyVars, Tells
<1> DEFINE Elsewhere == \A c \in Clients : c # t =>
                          pc'[c] = pc[c] /\ status'[c] = status[c] /\ UNCHANGED Tells(c)
<1>a. \A c \in Clients : c \in Threads /\ Listing(c)
  BY DEF AllListing, Threads
<1>b. ASSUME Elsewhere, t \in Clients => Listing(t)' PROVE AllListing'
  BY <1>a, <1>b, ListingFrame DEF AllListing
<1>1. CASE Unreadable(t)
  <2>1. Elsewhere
    BY <1>1, <1>a, OnwardsEffect, SMTT(40)
    DEF Unreadable, Onwards, TurnTo, TurnAway, Places, Inv, TypeOK
  <2> QED
    BY <1>1, <1>b, <2>1, UnreadableListing, SMTT(40)
<1>2. CASE Described(t)
  <2>1. Elsewhere
    BY <1>2, <1>a, OnwardsEffect DEF Described, Onwards, TurnTo, TurnAway, Places, Inv, TypeOK
  <2> QED
    BY <1>2, <1>b, <2>1, DescribedListing
<1>3. CASE Describe(t) \/ Lookup(t)
  <2> DEFINE Onto == /\ pc[t] \in Describing /\ pc'[t] \in Describing
                     /\ UNCHANGED Tells(t) /\ UNCHANGED status[t]
  <2> SUFFICES Elsewhere /\ Onto
    BY <1>a, <1>b, ListingFrame
  <2>1. CASE Describe(t)
    BY <1>a, <2>1 DEF Describe, Describing, Inv, TypeOK
  <2>2. CASE OpenDir(t)
    BY <1>a, <2>2 DEF OpenDir, Describing, Inv, TypeOK
  <2>3. CASE Resolve(t)
    BY <1>a, <2>3 DEF Resolve, Describing, Inv, TypeOK
  <2>4. CASE Compare(t)
    BY <1>a, <2>4 DEF Compare, Matched, PassedOver, LeaveEntry, Describing, Inv, TypeOK
  <2>5. CASE NotFound(t)
    BY <1>a, <2>5 DEF NotFound, Describing, Inv, TypeOK
  <2>6. CASE Wake(t)
    BY <1>a, <2>6 DEF Wake, Describing, Inv, TypeOK
  <2> QED
    BY <1>3, <2>1, <2>2, <2>3, <2>4, <2>5, <2>6 DEF Lookup
<1>4. CASE Done(t)
  <2>1. Elsewhere
    BY <1>4, <1>a DEF Done, Return, Inv, TypeOK
  <2>2. /\ pc'[t] = "idle" /\ devs'[t] = devs[t] /\ answer'[t] = <<>>
        /\ unreadable'[t] = {} /\ index'[t] = 1
    BY <1>4 DEF Done, Return, Inv, TypeOK
  <2> QED
    BY <1>a, <1>b, <2>1, <2>2 DEF Listing, Describing
<1>5. CASE t \in Clients /\ (Enter(t) \/ Lock(t))
  <2>1. Elsewhere
    BY <1>5, <1>a DEF Enter, Begin, Lock, Inv, TypeOK
  <2>2. /\ pc[t] \in {"idle", "lock"} /\ pc'[t] \in {"lock", "list"}
        /\ UNCHANGED <<devs[t], answer[t], unreadable[t], index[t]>>
    BY <1>5 DEF Enter, Begin, Lock, Inv, TypeOK
  <2> QED
    BY <1>a, <1>b, <1>5, <2>1, <2>2 DEF Listing, Describing
<1>6. CASE t \in Clients /\ GetList(t)
  <2>1. Elsewhere
    BY <1>6, <1>a, SMTT(40) DEF GetList, TurnTo, TurnAway, Inv, TypeOK
  <2> QED
    BY <1>6, <1>b, <2>1, GetListListing
<1>7. CASE t \in Clients /\ (Open(t) \/ ReadStrings(t) \/ Close(t))
  <2>1. Elsewhere
    BY <1>7, <1>a, SMTT(40) DEF Open, TurnAway, ReadStrings, Close, Inv, TypeOK
  <2>2. /\ call'[t].op # "GetDeviceList" /\ pc'[t] \notin {"idle", "lock", "list"}
        /\ devs'[t] = devs[t]
    <3>1. call[t].op = "GetDeviceInfo"
      BY <1>7 DEF Open, ReadStrings, Close, Inv, Holds
    <3> QED
      BY <1>7, <3>1 DEF Open, ReadStrings, Close, Inv, TypeOK
  <2> QED
    BY <1>a, <1>b, <2>1, <2>2 DEF Listing
<1>8. CASE t \in Clients /\ Free(t)
  <2>1. Elsewhere
    BY <1>8, <1>a DEF Free, Inv, TypeOK
  <2>2. pc'[t] = "done" /\ devs'[t] = <<>>
    BY <1>8 DEF Free, Inv, TypeOK
  <2> QED
    BY <1>b, <2>1, <2>2 DEF Listing, Distinct, Describing
<1>9. CASE HotPlug /\ t = EventThread
  <2>1. Elsewhere
    BY <1>9, <1>a DEF HotPlug, Begin, TurnTo, Inv, TypeOK
  <2> QED
    BY <1>9, <1>b, <2>1
<1> QED
  BY <1>1, <1>2, <1>3, <1>4, <1>5, <1>6, <1>7, <1>8, <1>9 DEF DescribeDevice, Serve

LEMMA WorldListing == ASSUME Inv, AllListing, World PROVE AllListing'
<1>1. UNCHANGED <<pc, call, devs, index, dev, answer, unreadable, status>>
  BY DEF World, Plug, Unplug, AddBlock, RemoveBlock, historyVars
<1>2. ASSUME NEW c \in Clients PROVE Listing(c)'
  <2>1. Listing(c) /\ UNCHANGED <<Tells(c), status[c], pc[c]>>
    BY <1>1 DEF AllListing, Tells
  <2> QED
    BY <2>1, ListingFrame
<1> QED
  BY <1>2 DEF AllListing

-----------------------------------------------------------------------------
(* What follows.                                                           *)

LEMMA NextInv == ASSUME Inv, [Next]_vars PROVE Inv'
<1>1. CASE World
  BY <1>1, PlugInv, UnplugInv, AddBlockInv, RemoveBlockInv DEF World
<1>2. ASSUME NEW t \in Threads, DescribeDevice(t) PROVE Inv'
  BY <1>2, UnreadableInv, DescribeInv, OpenDirInv, ResolveInv, CompareInv, NotFoundInv,
     WakeInv, DescribedInv, DoneInv DEF DescribeDevice, Lookup
<1>3. ASSUME NEW c \in Clients, Enter(c) \/ Serve(c) PROVE Inv'
  BY <1>2, <1>3, EnterInv, LockInv, GetListInv, OpenInv, ReadStringsInv, CloseInv, FreeInv
     DEF Serve, Threads
<1>4. CASE HotPlug \/ DescribeDevice(EventThread)
  BY <1>2, <1>4, HotPlugInv DEF Threads
<1>5. CASE Quiescent \/ UNCHANGED vars
  <2>1. TypeOK' /\ BusFacts' /\ UNCHANGED vars
    BY <1>5, BusFrame DEF Quiescent, vars, worldVars, lookupVars, historyVars, Inv, TypeOK
  <2>2. ASSUME NEW t \in Threads PROVE (Device(t) /\ Holds(t) /\ Knows(t))'
    BY <2>1, <2>2, OtherThread DEF Locals, vars, worldVars, lookupVars, historyVars
  <2> QED
    BY <2>1, <2>2 DEF Inv
<1> QED
  BY <1>1, <1>3, <1>4, <1>5 DEF Next

\* Inv holds in every state, for any devices, ports and block devices.
THEOREM Invariance == Spec => []Inv
<1> QED
  BY InitInv, NextInv, PTL DEF Spec

\* Beside Inv, what the lookups have found and what the lists have.
Told == AllFound /\ AllListing

LEMMA InitTold == Init => Told
<1> SUFFICES ASSUME Init PROVE Told
  OBVIOUS
<1>1. AllFound
  BY DEF Init, AllFound, Found
<1>2. ASSUME NEW c \in Clients PROVE Listing(c)
  BY DEF Init, Listing, Distinct, Describing, NoCall, Threads
<1> QED
  BY <1>1, <1>2 DEF Told, AllListing

LEMMA NextTold == ASSUME Inv, Told, [Next]_vars PROVE Told'
<1>1. CASE World
  BY <1>1, WorldFound, WorldListing DEF Told
<1>2. ASSUME NEW c \in Clients, Enter(c) \/ Serve(c) PROVE Told'
  <2>1. c \in Threads
    BY DEF Threads
  <2>2. AllFound'
    BY <1>2, <2>1, ThreadFound DEF Told
  <2>3. AllListing'
    BY <1>2, <2>1, ThreadListing DEF Told
  <2> QED
    BY <2>2, <2>3 DEF Told
<1>3. CASE HotPlug \/ DescribeDevice(EventThread)
  <2>1. EventThread \in Threads
    BY DEF Threads
  <2>2. AllFound'
    BY <1>3, <2>1, ThreadFound DEF Told
  <2>3. AllListing'
    BY <1>3, <2>1, ThreadListing DEF Told
  <2> QED
    BY <2>2, <2>3 DEF Told
<1>4. CASE Quiescent \/ UNCHANGED vars
  <2>1. UNCHANGED vars
    BY <1>4 DEF Quiescent
  <2>2. ASSUME NEW u \in Threads PROVE Found(u)'
    BY <2>1, FoundFrame DEF vars, worldVars, lookupVars, historyVars, Seeks, Told, AllFound
  <2>3. ASSUME NEW c \in Clients PROVE Listing(c)'
    BY <2>1, ListingFrame DEF vars, worldVars, lookupVars, historyVars, Tells, Told, AllListing
  <2> QED
    BY <2>2, <2>3 DEF Told, AllFound, AllListing
<1> QED
  BY <1>1, <1>2, <1>3, <1>4 DEF Next

\* Told holds in every state, with Inv.
THEOREM ToldInvariance == Spec => []Told
<1> QED
  BY InitTold, NextTold, Invariance, PTL DEF Spec

\* What the threads hold is of the right kind; retryCount stays within its bounds.
THEOREM TypeCorrect == Spec => []TypeOK
<1>1. Inv => TypeOK
  BY DEF Inv
<1> QED
  BY <1>1, Invariance, PTL

\* A reported path was the block device of its device, however the bus changed.
THEOREM PathsBelong == Spec => []PathBelongs
<1>1. Inv => PathBelongs
  BY DEF Inv, Knows, PathBelongs
<1> QED
  BY <1>1, Invariance, PTL

\* A lookup which ends without a path has not missed a block device named sd... which its
\* device had from the opening of the directory on, near enough for the walk, unless a
\* read failed on it: whatever happened to the other devices and block devices.
THEOREM NothingMissed == Spec => []NoMiss
<1>1. Told => NoMiss
  BY DEF Told, AllFound, Found, NoMiss
<1> QED
  BY <1>1, ToldInvariance, PTL

\* GetDeviceList, when it has been through them, has the devices which could be read,
\* each once and in their order, for any number of devices.
THEOREM ListsExact == Spec => []ListExact
<1>1. ASSUME Inv, Told, NEW c \in Clients, pc[c] = "free", call[c].op = "GetDeviceList"
      PROVE  ListsWithout(answer[c], devs[c], unreadable[c])
  <2>1. Sofar(c, Len(devs[c])) /\ devs[c] \in Seq(Devices)
    BY <1>1 DEF Told, AllListing, Listing, Inv, TypeOK, Threads
  <2> QED
    BY <2>1, CoversAll DEF Sofar
<1>2. Inv /\ Told => ListExact
  BY <1>1 DEF ListExact
<1> QED
  BY <1>2, Invariance, ToldInvariance, PTL

\* Whether GetDeviceList answers with that list is decided by its last device alone: one
\* which cannot be read costs the caller all the others, and one which can hides that
\* others could not. This is why the code does not keep PartialInfoReturned.
LastDecides ==
    \A c \in Clients :
        pc[c] = "free" /\ call[c].op = "GetDeviceList" =>
            (status[c] = "ERROR_NONE" <=> devs[c][Len(devs[c])] \notin unreadable[c])

THEOREM LastDeviceDecides == Spec => []LastDecides
<1>1. ASSUME Inv, Told, NEW c \in Clients, pc[c] = "free", call[c].op = "GetDeviceList"
      PROVE  status[c] = "ERROR_NONE" <=> devs[c][Len(devs[c])] \notin unreadable[c]
  <2>1. Sofar(c, Len(devs[c])) /\ devs[c] # <<>> /\ devs[c] \in Seq(Devices)
    BY <1>1 DEF Told, AllListing, Listing, Inv, TypeOK, Threads
  <2>2. Len(devs[c]) > 0
    BY <2>1
  <2> QED
    BY <2>1, <2>2 DEF Sofar
<1>2. Inv /\ Told => LastDecides
  BY <1>1 DEF LastDecides
<1> QED
  BY <1>2, Invariance, ToldInvariance, PTL

\* Every way through a call closes the handle, frees the list and gives back the lock,
\* and a handle is open only under the lock.
THEOREM NothingKept == Spec => []ResourcesReturned
<1>1. ASSUME Inv, NEW t \in Threads
      PROVE  /\ pc[t] = "idle" => handle[t] = None /\ devs[t] = <<>> /\ adminLock # t
             /\ handle[t] # None => adminLock = t
  BY <1>1 DEF Inv, Holds, NoCall
<1>2. Inv => ResourcesReturned
  BY <1>1 DEF ResourcesReturned
<1> QED
  BY <1>2, Invariance, PTL
=============================================================================
