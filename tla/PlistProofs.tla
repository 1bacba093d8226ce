----------------------------- MODULE PlistProofs -----------------------------
(* What plist_add and plist_del do to a list, for any elements.            *)
EXTENDS Plist, SequenceTheorems, WellFoundedInduction, TLAPS

-----------------------------------------------------------------------------
(* Facts about the lists.                                                  *)

\* What InsertAt returns, element by element (list_add_tail in plist_add).
LEMMA InsertAtIsSeq ==
    ASSUME NEW S, NEW s \in Seq(S), NEW e \in S, NEW i \in 1 .. Len(s) + 1
    PROVE  /\ InsertAt(s, i, e) \in Seq(S)
           /\ Len(InsertAt(s, i, e)) = Len(s) + 1
           /\ \A j \in 1 .. Len(s) + 1 : InsertAt(s, i, e)[j] =
                 IF j < i THEN s[j] ELSE IF j = i THEN e ELSE s[j - 1]
<1> DEFINE a == SubSeq(s, 1, i - 1)
           b == SubSeq(s, i, Len(s))
<1>1. /\ a \in Seq(S) /\ Len(a) = i - 1
      /\ \A j \in 1 .. i - 1 : a[j] = s[j]
  BY SubSeqProperties, SMT
<1>2. /\ b \in Seq(S) /\ Len(b) = Len(s) - i + 1
      /\ \A j \in 1 .. Len(b) : b[j] = s[i + j - 1]
  BY SubSeqProperties, SMT
<1> HIDE DEF a, b
<1>3. /\ a \o <<e>> \in Seq(S) /\ Len(a \o <<e>>) = i
      /\ \A j \in 1 .. i : (a \o <<e>>)[j] = IF j < i THEN s[j] ELSE e
  BY <1>1, ConcatProperties, <<e>> \in Seq(S), Len(<<e>>) = 1, <<e>>[1] = e
<1> DEFINE c == a \o <<e>>
<1>c. c \in Seq(S) /\ Len(c) = i
  BY <1>3
<1> HIDE DEF c
<1>4. /\ c \o b \in Seq(S) /\ Len(c \o b) = Len(s) + 1
      /\ \A j \in 1 .. Len(s) + 1 : (c \o b)[j] =
            IF j <= i THEN c[j] ELSE b[j - i]
  BY <1>2, <1>c, ConcatProperties
<1>5. \A j \in 1 .. Len(s) + 1 : j > i => b[j - i] = s[j - 1]
  BY <1>2, SMT
<1>6. InsertAt(s, i, e) = c \o b
  BY DEF InsertAt, c, a, b
<1> QED
  BY <1>3, <1>4, <1>5, <1>6, SMT DEF c

\* What RemoveAt returns, element by element (list_del_init in plist_del).
LEMMA RemoveAtIsSeq ==
    ASSUME NEW S, NEW s \in Seq(S), NEW i \in 1 .. Len(s)
    PROVE  /\ RemoveAt(s, i) \in Seq(S)
           /\ Len(RemoveAt(s, i)) = Len(s) - 1
           /\ \A j \in 1 .. Len(s) - 1 : RemoveAt(s, i)[j] =
                 IF j < i THEN s[j] ELSE s[j + 1]
<1> DEFINE a == SubSeq(s, 1, i - 1)
           b == SubSeq(s, i + 1, Len(s))
<1>1. /\ a \in Seq(S) /\ Len(a) = i - 1
      /\ \A j \in 1 .. i - 1 : a[j] = s[j]
  BY SubSeqProperties, SMT
<1>2. /\ b \in Seq(S) /\ Len(b) = Len(s) - i
      /\ \A j \in 1 .. Len(b) : b[j] = s[i + j]
  BY SubSeqProperties, SMT
<1> HIDE DEF a, b
<1>3. /\ a \o b \in Seq(S) /\ Len(a \o b) = Len(s) - 1
      /\ \A j \in 1 .. Len(s) - 1 : (a \o b)[j] =
            IF j <= Len(a) THEN a[j] ELSE b[j - Len(a)]
  <2>1. Len(a) + Len(b) = Len(s) - 1
    BY <1>1, <1>2
  <2>2. /\ a \o b \in Seq(S)
        /\ Len(a \o b) = Len(a) + Len(b)
        /\ \A j \in 1 .. Len(a) + Len(b) : (a \o b)[j] =
              IF j <= Len(a) THEN a[j] ELSE b[j - Len(a)]
    <3>1. a \in Seq(S) /\ b \in Seq(S)
      BY <1>1, <1>2
    <3> QED
      BY ONLY <3>1, ConcatProperties, Zenon
  <2> QED
    BY <2>1, <2>2, Zenon
<1>4. ASSUME NEW j \in 1 .. Len(s) - 1, ~(j <= Len(a))
      PROVE  b[j - Len(a)] = s[j + 1]
  <2>1. j - Len(a) \in 1 .. Len(b)
    BY <1>1, <1>2, <1>4
  <2>2. i + (j - Len(a)) = j + 1
    BY <1>1
  <2> QED
    BY <1>2, <2>1, <2>2
<1>5. RemoveAt(s, i) = a \o b
  BY DEF RemoveAt, a, b
<1>6. ASSUME NEW j \in 1 .. Len(s) - 1
      PROVE  (a \o b)[j] = IF j < i THEN s[j] ELSE s[j + 1]
  <2>1. CASE j <= Len(a)
    BY <1>1, <1>3, <2>1
  <2>2. CASE ~(j <= Len(a))
    <3>1. (a \o b)[j] = s[j + 1]
      BY <1>3, <1>4, <2>2, Zenon
    <3>2. ~(j < i)
      BY <1>1, <2>2
    <3> QED
      BY <3>1, <3>2, Zenon
  <2> QED
    BY <2>1, <2>2, Zenon
<1> QED
  BY <1>3, <1>5, <1>6, Zenon

\* A non-empty set of naturals has a least element.
LEMMA MinIsLeast ==
    ASSUME NEW T \in SUBSET Nat, T # {}
    PROVE  Min(T) \in T /\ \A y \in T : Min(T) <= y
<1>1. \E x \in T : \A y \in T : ~(<<y, x>> \in OpToRel(<, Nat))
  BY WFMin, NatLessThanWellFounded
<1>2. PICK x \in T : \A y \in T : ~(<<y, x>> \in OpToRel(<, Nat))
  BY <1>1
<1>3. \A y \in T : ~(y < x)
  BY <1>2 DEF OpToRel
<1>4. \E z \in T : \A y \in T : z <= y
  BY <1>3
<1> QED
  BY <1>4, Zenon DEF Min

\* plist_add keeps a list of threads, adds exactly the thread, and does not
\* introduce duplicates.
LEMMA PlistAddFacts ==
    ASSUME NEW Elt, NEW list \in Seq(Elt), NEW t \in Elt, NEW p \in [Elt -> Int]
    PROVE  /\ PlistAdd(list, t, p) \in Seq(Elt)
           /\ ToSet(PlistAdd(list, t, p)) = ToSet(list) \cup {t}
           /\ IsInjective(list) /\ t \notin ToSet(list)
                => IsInjective(PlistAdd(list, t, p))
<1> DEFINE behind == {i \in 1 .. Len(list) : p[t] < p[list[i]]}
           at == Min(behind \cup {Len(list) + 1})
           res == InsertAt(list, at, t)
<1>0. Len(list) \in Nat
  BY LenProperties
<1>1. at \in 1 .. Len(list) + 1
  <2>1. behind \cup {Len(list) + 1} \in SUBSET Nat
    OBVIOUS
  <2>2. at \in behind \cup {Len(list) + 1}
    BY <2>1, MinIsLeast
  <2> QED
    BY <2>2
<1>2. PlistAdd(list, t, p) = res
  BY DEF PlistAdd
<1> HIDE DEF at
<1>3. /\ res \in Seq(Elt)
      /\ Len(res) = Len(list) + 1
      /\ \A j \in 1 .. Len(list) + 1 : res[j] =
            IF j < at THEN list[j] ELSE IF j = at THEN t ELSE list[j - 1]
  BY <1>1, InsertAtIsSeq
<1> HIDE DEF res, behind
<1>7. /\ \A j \in 1 .. Len(list) : j < at => res[j] = list[j]
      /\ \A j \in 1 .. Len(list) : ~(j < at) => res[j + 1] = list[j]
      /\ res[at] = t
  BY <1>0, <1>1, <1>3
<1>4. DOMAIN res = 1 .. Len(list) + 1 /\ DOMAIN list = 1 .. Len(list)
  BY <1>3, LenProperties
<1>5. ToSet(res) = ToSet(list) \cup {t}
  <2>1. ASSUME NEW j \in 1 .. Len(list) + 1
        PROVE  res[j] = t \/ \E k \in 1 .. Len(list) : res[j] = list[k]
    <3>1. CASE j < at
      BY <1>0, <1>1, <1>7, <3>1
    <3>2. CASE j > at
      <4>1. j - 1 \in 1 .. Len(list) /\ ~(j - 1 < at) /\ (j - 1) + 1 = j
        BY <1>0, <1>1, <3>2
      <4> QED
        BY <1>7, <4>1
    <3> QED
      BY <1>0, <1>1, <1>7, <3>1, <3>2
  <2>2. ASSUME NEW k \in 1 .. Len(list)
        PROVE  \E j \in 1 .. Len(list) + 1 : res[j] = list[k]
    <3>1. k \in 1 .. Len(list) + 1 /\ k + 1 \in 1 .. Len(list) + 1
      BY <1>0
    <3> QED
      BY <1>7, <3>1
  <2>3. \E j \in 1 .. Len(list) + 1 : res[j] = t
    BY <1>1, <1>7
  <2>4. ASSUME NEW x PROVE x \in ToSet(res) <=> x \in ToSet(list) \cup {t}
    <3>1. x \in ToSet(res) <=> \E j \in 1 .. Len(list) + 1 : x = res[j]
      BY <1>4, Zenon DEF ToSet
    <3>2. x \in ToSet(list) <=> \E k \in 1 .. Len(list) : x = list[k]
      BY <1>4, Zenon DEF ToSet
    <3> QED
      BY <2>1, <2>2, <2>3, <3>1, <3>2, Zenon
  <2> QED
    BY <2>4, Zenon
<1>6. ASSUME IsInjective(list), t \notin ToSet(list)
      PROVE  IsInjective(res)
  <2>1. \A j \in 1 .. Len(list) : list[j] # t
    BY <1>4, <1>6 DEF ToSet
  <2>2. \A i, j \in 1 .. Len(list) : list[i] = list[j] => i = j
    BY <1>4, <1>6 DEF IsInjective
  <2>3. \A j \in 1 .. Len(list) + 1 :
           \/ j = at /\ res[j] = t
           \/ j < at /\ j \in 1 .. Len(list) /\ res[j] = list[j]
           \/ j > at /\ j - 1 \in 1 .. Len(list) /\ res[j] = list[j - 1]
    <3> TAKE j \in 1 .. Len(list) + 1
    <3>1. CASE j = at
      BY <1>7, <3>1
    <3>2. CASE j < at
      BY <1>0, <1>1, <1>7, <3>2
    <3>3. CASE j > at
      <4>1. j - 1 \in 1 .. Len(list) /\ ~(j - 1 < at) /\ (j - 1) + 1 = j
        BY <1>0, <1>1, <3>3
      <4> QED
        BY <1>7, <3>3, <4>1
    <3> QED
      BY <1>0, <1>1, <3>1, <3>2, <3>3
  <2>4. ASSUME NEW i \in 1 .. Len(list) + 1, NEW j \in 1 .. Len(list) + 1,
               res[i] = res[j]
        PROVE  i = j
    <3> DEFINE Cases(k) ==
           \/ k = at /\ res[k] = t
           \/ k < at /\ k \in 1 .. Len(list) /\ res[k] = list[k]
           \/ k > at /\ k - 1 \in 1 .. Len(list) /\ res[k] = list[k - 1]
    <3>1. Cases(i) /\ Cases(j)
      BY <2>3
    <3>2. CASE i < at /\ i \in 1 .. Len(list) /\ res[i] = list[i]
      <4>1. \A k \in 1 .. Len(list) : list[i] = list[k] => i = k
        BY <2>2, <3>2
      <4> QED
        BY <1>0, <1>1, <2>1, <2>4, <3>1, <3>2, <4>1
    <3>3. CASE i > at /\ i - 1 \in 1 .. Len(list) /\ res[i] = list[i - 1]
      <4>1. \A k \in 1 .. Len(list) : list[i - 1] = list[k] => i - 1 = k
        BY <2>2, <3>3
      <4> QED
        BY <1>0, <1>1, <2>1, <2>4, <3>1, <3>3, <4>1
    <3>4. CASE i = at /\ res[i] = t
      BY <1>0, <1>1, <2>1, <2>4, <3>1, <3>4
    <3> QED
      BY <3>1, <3>2, <3>3, <3>4
  <2> QED
    BY <1>4, <2>4 DEF IsInjective
<1> QED
  BY <1>2, <1>3, <1>5, <1>6

\* plist_del keeps a list of threads and removes exactly the thread.
LEMMA PlistDelFacts ==
    ASSUME NEW Elt, NEW list \in Seq(Elt), NEW t \in Elt
    PROVE  /\ PlistDel(list, t) \in Seq(Elt)
           /\ IsInjective(list)
                => /\ IsInjective(PlistDel(list, t))
                   /\ ToSet(PlistDel(list, t)) = ToSet(list) \ {t}
<1>0. DOMAIN list = 1 .. Len(list) /\ Len(list) \in Nat
  BY LenProperties
<1>1. CASE ~\E i \in 1 .. Len(list) : list[i] = t
  <2>1. PlistDel(list, t) = list
    BY <1>1 DEF PlistDel, RemoveFirst
  <2>2. t \notin ToSet(list)
    BY <1>0, <1>1 DEF ToSet
  <2> QED
    BY <2>1, <2>2
<1>2. CASE \E i \in 1 .. Len(list) : list[i] = t
  <2> DEFINE I == {i \in 1 .. Len(list) : list[i] = t}
             at == Min(I)
             res == RemoveAt(list, at)
  <2>1. at \in I
    <3>1. I \in SUBSET Nat /\ I # {}
      BY <1>2
    <3> QED
      BY <3>1, MinIsLeast
  <2>2. PlistDel(list, t) = res
    BY <1>2 DEF PlistDel, RemoveFirst, SelectInSeq
  <2>3. at \in 1 .. Len(list) /\ list[at] = t
    BY <2>1
  <2> HIDE DEF at
  <2>4. /\ res \in Seq(Elt)
        /\ Len(res) = Len(list) - 1
        /\ \A j \in 1 .. Len(list) - 1 : res[j] =
              IF j < at THEN list[j] ELSE list[j + 1]
    BY <2>3, RemoveAtIsSeq
  <2> HIDE DEF res
  <2>5. DOMAIN res = 1 .. Len(list) - 1
    BY <2>4, LenProperties
  <2>6. ASSUME IsInjective(list)
        PROVE  IsInjective(res) /\ ToSet(res) = ToSet(list) \ {t}
    <3>1. \A i, j \in 1 .. Len(list) : list[i] = list[j] => i = j
      BY <1>0, <2>6 DEF IsInjective
    <3>2. ASSUME NEW i \in 1 .. Len(list) - 1, NEW j \in 1 .. Len(list) - 1,
                 res[i] = res[j]
          PROVE  i = j
      BY <2>3, <2>4, <3>1, <3>2
    <3>3. ASSUME NEW i \in 1 .. Len(list) - 1
          PROVE  res[i] \in ToSet(list) \ {t}
      <4>1. \/ i < at /\ i \in 1 .. Len(list) /\ res[i] = list[i]
            \/ i + 1 > at /\ i + 1 \in 1 .. Len(list) /\ res[i] = list[i + 1]
        BY <1>0, <2>3, <2>4
      <4>2. res[i] # t
        BY <1>0, <2>3, <3>1, <4>1
      <4> QED
        BY <1>0, <4>1, <4>2, Zenon DEF ToSet
    <3>4. ASSUME NEW i \in 1 .. Len(list), list[i] # t
          PROVE  list[i] \in ToSet(res)
      <4>1. CASE i < at
        BY <2>3, <2>4, <2>5, <4>1 DEF ToSet
      <4>2. CASE ~(i < at)
        <5>1. i - 1 \in 1 .. Len(list) - 1 /\ res[i - 1] = list[i]
          BY <2>3, <2>4, <3>4, <4>2
        <5> QED
          BY <2>5, <5>1 DEF ToSet
      <4> QED
        BY <4>1, <4>2
    <3>5. ToSet(res) = ToSet(list) \ {t}
      BY <1>0, <2>5, <3>3, <3>4 DEF ToSet
    <3> QED
      BY <2>5, <3>2, <3>5 DEF IsInjective
  <2> QED
    BY <2>2, <2>4, <2>6
<1> QED
  BY <1>1, <1>2

=============================================================================
