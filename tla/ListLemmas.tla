----------------------------- MODULE ListLemmas -----------------------------
(* Lemmas about sequences without duplicates, as std::list holds them.     *)
EXTENDS SequencesExt, SequenceTheorems, TLAPS

LEMMA EraseProperties ==
    ASSUME NEW S, NEW l \in Seq(S), NEW i \in DOMAIN l
    PROVE  /\ RemoveAt(l, i) \in Seq(S)
           /\ Len(RemoveAt(l, i)) = Len(l) - 1
           /\ \A k \in 1..(Len(l) - 1) :
                RemoveAt(l, i)[k] = IF k < i THEN l[k] ELSE l[k + 1]
<1> DEFINE a == SubSeq(l, 1, i - 1)
           b == SubSeq(l, i + 1, Len(l))
<1>1. i \in 1..Len(l) /\ Len(l) \in Nat /\ \A k \in 1..Len(l) : l[k] \in S
  OBVIOUS
<1>2. /\ a \in Seq(S) /\ Len(a) = i - 1
      /\ \A k \in 1..(i - 1) : a[k] = l[k]
  <2>1. \A k \in 1..(i - 1) : l[k] \in S
    BY <1>1
  <2>2. /\ a \in Seq(S)
        /\ Len(a) = IF 1 <= i - 1 THEN (i - 1) - 1 + 1 ELSE 0
        /\ \A k \in 1..((i - 1) - 1 + 1) : a[k] = l[1 + k - 1]
    BY <1>1, <2>1, SubSeqProperties
  <2> QED
    BY <1>1, <2>2
<1>3. /\ b \in Seq(S) /\ Len(b) = Len(l) - i
      /\ \A k \in 1..(Len(l) - i) : b[k] = l[k + i]
  <2>1. \A k \in (i + 1)..Len(l) : l[k] \in S
    BY <1>1
  <2>2. /\ b \in Seq(S)
        /\ Len(b) = IF i + 1 <= Len(l) THEN Len(l) - (i + 1) + 1 ELSE 0
        /\ \A k \in 1..(Len(l) - (i + 1) + 1) : b[k] = l[(i + 1) + k - 1]
    BY <1>1, <2>1, SubSeqProperties
  <2> QED
    BY <1>1, <2>2
<1> HIDE DEF a, b
<1>4. /\ a \o b \in Seq(S)
      /\ Len(a \o b) = Len(a) + Len(b)
      /\ \A k \in 1..(Len(a) + Len(b)) :
            (a \o b)[k] = IF k <= Len(a) THEN a[k] ELSE b[k - Len(a)]
  BY <1>2, <1>3, ConcatProperties
<1>5. RemoveAt(l, i) = a \o b
  BY DEF RemoveAt, a, b
<1>6. \A k \in 1..(Len(l) - 1) :
         (a \o b)[k] = IF k < i THEN l[k] ELSE l[k + 1]
  <2> TAKE k \in 1..(Len(l) - 1)
  <2>1. CASE k < i
    <3>1. k \in 1..(i - 1) /\ k <= Len(a) /\ k \in 1..(Len(a) + Len(b))
      BY <1>1, <1>2, <1>3, <2>1
    <3> QED
      BY <1>2, <1>4, <2>1, <3>1
  <2>2. CASE ~(k < i)
    <3> DEFINE m == k - (i - 1)
    <3>1. /\ m \in 1..(Len(l) - i) /\ ~(k <= Len(a)) /\ k \in 1..(Len(a) + Len(b))
          /\ k - Len(a) = m /\ m + i = k + 1
      BY <1>1, <1>2, <1>3, <2>2, SMTT(40)
    <3> HIDE DEF m
    <3>2. (a \o b)[k] = b[m]
      BY <1>4, <3>1
    <3> QED
      BY <1>3, <2>2, <3>1, <3>2
  <2> QED
    BY <2>1, <2>2
<1> QED
  <2>1. Len(a \o b) = Len(l) - 1
    BY <1>1, <1>2, <1>3, <1>4
  <2> QED
    BY <1>4, <1>5, <1>6, <2>1

LEMMA EraseNoDuplicates ==
    ASSUME NEW S, NEW l \in Seq(S), IsInjective(l), NEW i \in DOMAIN l
    PROVE  /\ IsInjective(RemoveAt(l, i))
           /\ ToSet(RemoveAt(l, i)) = ToSet(l) \ {l[i]}
<1> DEFINE r == RemoveAt(l, i)
<1>1. /\ r \in Seq(S) /\ Len(r) = Len(l) - 1 /\ Len(l) \in Nat /\ i \in 1..Len(l)
      /\ \A k \in 1..(Len(l) - 1) : r[k] = IF k < i THEN l[k] ELSE l[k + 1]
  BY EraseProperties
<1>2. DOMAIN r = 1..(Len(l) - 1) /\ DOMAIN l = 1..Len(l)
  BY <1>1
<1>3. \A j, k \in 1..Len(l) : l[j] = l[k] => j = k
  BY <1>2 DEF IsInjective
<1> HIDE DEF r
<1>4. IsInjective(r)
  BY <1>1, <1>2, <1>3 DEF IsInjective
<1>5. ASSUME NEW x \in ToSet(r) PROVE x \in ToSet(l) \ {l[i]}
  BY <1>1, <1>2, <1>3 DEF ToSet
<1>6. ASSUME NEW x \in ToSet(l) \ {l[i]} PROVE x \in ToSet(r)
  <2>1. PICK k \in 1..Len(l) : x = l[k] /\ k # i
    BY <1>2 DEF ToSet
  <2>2. CASE k < i
    BY <1>1, <1>2, <2>1, <2>2 DEF ToSet
  <2>3. CASE k > i
    <3>1. k - 1 \in DOMAIN r /\ r[k - 1] = x
      BY <1>1, <1>2, <2>1, <2>3
    <3> QED
      BY <3>1 DEF ToSet
  <2> QED
    BY <1>1, <2>1, <2>2, <2>3
<1> QED
  BY <1>4, <1>5, <1>6 DEF r

LEMMA AppendNoDuplicates ==
    ASSUME NEW S, NEW l \in Seq(S), IsInjective(l), NEW x \in S, x \notin ToSet(l)
    PROVE  /\ IsInjective(Append(l, x))
           /\ ToSet(Append(l, x)) = ToSet(l) \cup {x}
<1> DEFINE r == Append(l, x)
<1>1. /\ Len(r) = Len(l) + 1 /\ Len(l) \in Nat /\ r \in Seq(S)
      /\ \A k \in 1..Len(l) : r[k] = l[k]
      /\ r[Len(l) + 1] = x
  BY AppendProperties
<1>2. DOMAIN r = 1..(Len(l) + 1) /\ DOMAIN l = 1..Len(l)
  BY <1>1
<1>3. \A k \in 1..Len(l) : l[k] # x /\ \A j \in 1..Len(l) : l[j] = l[k] => j = k
  BY <1>2 DEF ToSet, IsInjective
<1> HIDE DEF r
<1>4. IsInjective(r)
  BY <1>1, <1>2, <1>3 DEF IsInjective
<1>5. ASSUME NEW y \in ToSet(r) PROVE y \in ToSet(l) \cup {x}
  BY <1>1, <1>2 DEF ToSet
<1>6. ASSUME NEW y \in ToSet(l) \cup {x} PROVE y \in ToSet(r)
  BY <1>1, <1>2 DEF ToSet
<1> QED
  BY <1>4, <1>5, <1>6 DEF r

LEMMA TailNoDuplicates ==
    ASSUME NEW S, NEW l \in Seq(S), IsInjective(l), l # <<>>
    PROVE  /\ IsInjective(Tail(l))
           /\ ToSet(Tail(l)) = ToSet(l) \ {Head(l)}
           /\ Head(l) \in ToSet(l)
<1> DEFINE r == Tail(l)
<1>1. /\ r \in Seq(S) /\ Len(r) = Len(l) - 1 /\ Len(l) \in Nat \ {0}
      /\ \A k \in 1..Len(r) : r[k] = l[k + 1]
      /\ Head(l) = l[1]
  BY HeadTailProperties, EmptySeq
<1>2. DOMAIN r = 1..(Len(l) - 1) /\ DOMAIN l = 1..Len(l)
  BY <1>1
<1>3. \A j, k \in 1..Len(l) : l[j] = l[k] => j = k
  BY <1>2 DEF IsInjective
<1> HIDE DEF r
<1>4. IsInjective(r)
  BY <1>1, <1>2, <1>3 DEF IsInjective
<1>5. ASSUME NEW x \in ToSet(r) PROVE x \in ToSet(l) \ {Head(l)}
  BY <1>1, <1>2, <1>3, SMTT(40) DEF ToSet
<1>6. ASSUME NEW x \in ToSet(l) \ {Head(l)} PROVE x \in ToSet(r)
  <2>1. PICK k \in 1..Len(l) : x = l[k] /\ k # 1
    BY <1>1, <1>2 DEF ToSet
  <2>2. k - 1 \in DOMAIN r /\ r[k - 1] = x
    BY <1>1, <1>2, <2>1
  <2> QED
    BY <2>2 DEF ToSet
<1>7. Head(l) \in ToSet(l)
  BY <1>1, <1>2 DEF ToSet
<1> QED
  BY <1>4, <1>5, <1>6, <1>7 DEF r
=============================================================================
