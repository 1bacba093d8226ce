------------------------- MODULE CircularBufferProofs -------------------------
(***************************************************************************)
(* The ring implements the bounded queue, for every size and every byte.   *)
(***************************************************************************)
EXTENDS CircularBuffer, SequenceTheorems, TLAPS

\* The step of an index around the ring, without the division.
LEMMA WrapOne ==
    ASSUME NEW x \in 0 .. Max - 1
    PROVE  (x + 1) % Max = IF x + 1 = Max THEN 0 ELSE x + 1
<1> USE SizeAssumption
<1>1. CASE x + 1 = Max
  <2>1. Max % Max = 0
    OBVIOUS
  <2> QED
    BY <1>1, <2>1
<1>2. CASE x + 1 # Max
  <2>1. x + 1 \in 0 .. Max - 1
    BY <1>2
  <2>2. \A y \in 0 .. Max - 1 : y % Max = y
    OBVIOUS
  <2> QED
    BY <1>2, <2>1, <2>2
<1> QED
  BY <1>1, <1>2

\* Both pointer moves stay inside the ring.
LEMMA PointersStay ==
    ASSUME TypeOK
    PROVE  /\ Advance => head' \in 0 .. Max - 1 /\ tail' \in 0 .. Max - 1
           /\ Retreat => tail' \in 0 .. Max - 1
<1>1. /\ head \in 0 .. Max - 1 /\ (head + 1) % Max \in 0 .. Max - 1
      /\ tail \in 0 .. Max - 1 /\ (tail + 1) % Max \in 0 .. Max - 1
  BY SizeAssumption, WrapOne DEF TypeOK
<1> QED
  BY <1>1, Zenon DEF Advance, Retreat

RingInv == TypeOK /\ FullMeansMet

\* Every call keeps the pointers inside the ring, and marks it full only
\* when they meet.
THEOREM RingInvariant == Spec => []RingInv
<1>1. Init => RingInv
  <2>1. 0 \in 0 .. Max - 1
    BY SizeAssumption
  <2> QED
    BY <2>1, Zenon DEF Init, TypeOK, RingInv, FullMeansMet
<1>2. RingInv /\ [Next]_vars => RingInv'
  <2> SUFFICES ASSUME RingInv, [Next]_vars PROVE RingInv'
    OBVIOUS
  <2>0. TypeOK /\ FullMeansMet /\ 0 \in 0 .. Max - 1
    BY SizeAssumption DEF RingInv
  <2>1. CASE Reset
    BY <2>0, <2>1, Zenon DEF Reset, TypeOK, RingInv, FullMeansMet
  <2>2. CASE Get
    <3>1. buffer[tail] \in Byte
      BY <2>0 DEF TypeOK
    <3> QED
      BY <2>0, <2>2, <3>1, PointersStay, Zenon
      DEF Get, Retreat, TypeOK, RingInv, FullMeansMet
  <2>3. ASSUME NEW d \in Byte, Put(d) \/ Put2(d) PROVE RingInv'
    <3>1. [buffer EXCEPT ![head] = d] \in [0 .. Max - 1 -> Byte]
      BY <2>0 DEF TypeOK
    <3>2. CASE UNCHANGED vars
      BY <2>0, <3>2, Zenon DEF vars, TypeOK, RingInv, FullMeansMet
    <3>3. CASE buffer' = [buffer EXCEPT ![head] = d] /\ Advance /\ got' = got
      BY <2>0, <3>1, <3>3, PointersStay, Zenon
      DEF Advance, TypeOK, RingInv, FullMeansMet
    <3> QED
      BY <2>3, <3>2, <3>3, Zenon DEF Put, Put2
  <2>4. CASE UNCHANGED vars
    BY <2>0, <2>4, Zenon DEF TypeOK, vars, RingInv, FullMeansMet
  <2> QED
    BY <2>1, <2>2, <2>3, <2>4 DEF Next
<1> QED
  BY <1>1, <1>2, PTL DEF Spec

-----------------------------------------------------------------------------
(* The positions of the bytes around the ring.                             *)

SlotAt(t, i) == IF t + i <= Max THEN t + i - 1 ELSE t + i - 1 - Max

\* Slots are positions of the ring and different for different bytes; a read
\* shifts them by one.
LEMMA SlotFacts ==
    ASSUME NEW t \in 0 .. Max - 1
    PROVE  /\ SlotAt(t, 1) = t
           /\ \A i \in 1 .. Max : SlotAt(t, i) \in 0 .. Max - 1
           /\ \A i, j \in 1 .. Max : SlotAt(t, i) = SlotAt(t, j) => i = j
           /\ \A i \in 1 .. Max - 1 : SlotAt((t + 1) % Max, i) = SlotAt(t, i + 1)
           /\ SlotAt((t + 1) % Max, Max) = t
<1> USE SizeAssumption
<1>1. (t + 1) % Max = IF t + 1 = Max THEN 0 ELSE t + 1
  BY WrapOne
<1>2. \A i \in 1 .. Max - 1 : SlotAt((t + 1) % Max, i) = SlotAt(t, i + 1)
  BY <1>1 DEF SlotAt
<1>3. SlotAt((t + 1) % Max, Max) = t
  BY <1>1 DEF SlotAt
<1>4. /\ SlotAt(t, 1) = t
      /\ \A i \in 1 .. Max : SlotAt(t, i) \in 0 .. Max - 1
  BY DEF SlotAt
<1>5. \A i, j \in 1 .. Max : SlotAt(t, i) = SlotAt(t, j) => i = j
  BY DEF SlotAt
<1> QED
  BY <1>2, <1>3, <1>4, <1>5

\* circular_buf_size counts the bytes between the pointers.
LEMMA SizeFacts ==
    ASSUME RingInv
    PROVE  /\ Size \in 0 .. Max
           /\ full => Size = Max
           /\ ~full => Size < Max
           /\ Empty => Size = 0
           /\ ~Empty => Size > 0
           /\ ~full => SlotAt(tail, Size + 1) = head
<1>0. /\ head \in 0 .. Max - 1 /\ tail \in 0 .. Max - 1 /\ Max \in Nat /\ Max > 0
      /\ (full => head = tail)
  BY SizeAssumption DEF RingInv, TypeOK, FullMeansMet
<1>1. CASE full
  <2>1. Size = Max /\ ~Empty
    BY <1>1 DEF Size, Empty
  <2> QED
    BY <1>0, <1>1, <2>1
<1>2. CASE ~full
  <2>1. Size = IF head >= tail THEN head - tail ELSE Max + head - tail
    BY <1>2, Zenon DEF Size
  <2>2. Empty <=> head = tail
    BY <1>2, Zenon DEF Empty
  <2>3. /\ Size \in 0 .. Max /\ Size < Max
        /\ (head = tail => Size = 0) /\ (head # tail => Size > 0)
    BY <1>0, <2>1
  <2>4. SlotAt(tail, Size + 1) = head
    BY <1>0, <2>1 DEF SlotAt
  <2> QED
    BY <1>2, <2>2, <2>3, <2>4
<1> QED
  BY <1>1, <1>2

\* The content is a sequence of bytes as long as the size.
LEMMA ContentFacts ==
    ASSUME RingInv
    PROVE  /\ Content \in Seq(Byte)
           /\ Len(Content) = Size
           /\ \A i \in 1 .. Size : Content[i] = buffer[SlotAt(tail, i)]
<1>1. Size \in Nat /\ Size <= Max /\ Max \in Nat
  BY SizeFacts, SizeAssumption
<1>2. \A i \in 1 .. Size : Slot(i) = SlotAt(tail, i) /\ buffer[Slot(i)] \in Byte
  BY <1>1, SlotFacts DEF Slot, SlotAt, RingInv, TypeOK
<1> QED
  BY <1>1, <1>2 DEF Content

Shaped == /\ Size \in 0 .. Max
          /\ full => Size = Max
          /\ ~full => Size < Max /\ SlotAt(tail, Size + 1) = head
          /\ Empty => Size = 0
          /\ ~Empty => Size > 0
          /\ Content \in Seq(Byte)
          /\ Len(Content) = Size
          /\ \A i \in 1 .. Size : Content[i] = buffer[SlotAt(tail, i)]

\* The same facts, in a form that can be primed.
LEMMA RingShaped == RingInv => Shaped
BY SizeFacts, ContentFacts DEF Shaped

\* They hold after a step as well.
LEMMA RingShapedNext == RingInv' => Shaped'
BY RingShaped, PTL

-----------------------------------------------------------------------------
(* The refinement.                                                         *)

\* Two sequences of bytes are equal when their lengths and elements are.
LEMMA SameSeq ==
    ASSUME NEW s \in Seq(Byte), NEW u \in Seq(Byte), Len(s) = Len(u),
           \A i \in 1 .. Len(s) : s[i] = u[i]
    PROVE  s = u
BY SeqEqual

\* A byte stored in a full ring replaces the oldest one.
LEMMA PutFull ==
    ASSUME RingInv, RingInv', NEW d \in Byte, full,
           buffer' = [buffer EXCEPT ![head] = d], Advance
    PROVE  Content' = Append(Tail(Content), d)
<1>0. /\ head \in 0 .. Max - 1 /\ tail \in 0 .. Max - 1 /\ head = tail
      /\ buffer \in [0 .. Max - 1 -> Byte] /\ Max \in Nat /\ Max > 0
  BY SizeAssumption DEF RingInv, TypeOK, FullMeansMet
<1>1. /\ Content \in Seq(Byte) /\ Len(Content) = Max
      /\ \A i \in 1 .. Max : Content[i] = buffer[SlotAt(tail, i)]
  BY RingShaped DEF Shaped
<1>2. tail' = (tail + 1) % Max /\ head' = tail' /\ full'
  BY <1>0, Zenon DEF Advance
<1>3. /\ Content' \in Seq(Byte) /\ Len(Content') = Max
      /\ \A i \in 1 .. Max : Content'[i] = buffer'[SlotAt(tail', i)]
  BY <1>2, RingShapedNext DEF Shaped
<1> DEFINE new == Append(Tail(Content), d)
<1>4. /\ new \in Seq(Byte) /\ Len(new) = Max
      /\ \A i \in 1 .. Max - 1 : new[i] = Content[i + 1]
      /\ new[Max] = d
  BY <1>0, <1>1
<1>5. ASSUME NEW i \in 1 .. Max - 1
      PROVE  Content'[i] = new[i]
  <2>1. SlotAt(tail', i) = SlotAt(tail, i + 1)
    BY <1>0, <1>2, SlotFacts
  <2>2. SlotAt(tail, i + 1) \in 0 .. Max - 1 /\ SlotAt(tail, i + 1) # tail
    <3>1. i + 1 \in 1 .. Max /\ 1 \in 1 .. Max /\ i + 1 # 1
      BY <1>0
    <3>2. /\ SlotAt(tail, 1) = tail
          /\ \A k \in 1 .. Max : SlotAt(tail, k) \in 0 .. Max - 1
          /\ \A j, k \in 1 .. Max : SlotAt(tail, j) = SlotAt(tail, k) => j = k
      BY <1>0, SlotFacts
    <3> QED
      BY <3>1, <3>2, Zenon
  <2>3. buffer'[SlotAt(tail, i + 1)] = buffer[SlotAt(tail, i + 1)]
    BY <1>0, <2>2
  <2> QED
    BY <1>0, <1>1, <1>3, <1>4, <2>1, <2>3
<1>6. Content'[Max] = new[Max]
  BY <1>0, <1>2, <1>3, <1>4, SlotFacts
<1> HIDE DEF new
<1>7. \A i \in 1 .. Max : Content'[i] = new[i]
  BY <1>0, <1>5, <1>6
<1> QED
  BY <1>3, <1>4, <1>7, SameSeq DEF new

\* A byte stored in a ring with room goes behind the others.
LEMMA PutRoom ==
    ASSUME RingInv, RingInv', NEW d \in Byte, ~full,
           buffer' = [buffer EXCEPT ![head] = d], Advance
    PROVE  Content' = Append(Content, d)
<1>0. /\ head \in 0 .. Max - 1 /\ tail \in 0 .. Max - 1
      /\ buffer \in [0 .. Max - 1 -> Byte] /\ Max \in Nat /\ Max > 0
  BY SizeAssumption DEF RingInv, TypeOK
<1>1. /\ Content \in Seq(Byte) /\ Len(Content) = Size /\ Size \in 0 .. Max - 1
      /\ SlotAt(tail, Size + 1) = head
      /\ \A i \in 1 .. Size : Content[i] = buffer[SlotAt(tail, i)]
  BY <1>0, RingShaped DEF Shaped
<1>2. tail' = tail /\ head' = (head + 1) % Max
  BY Zenon DEF Advance
<1>3. Size' = Size + 1
  <2>1. head' = IF head + 1 = Max THEN 0 ELSE head + 1
    BY <1>0, <1>2, WrapOne
  <2>2. Size = IF head >= tail THEN head - tail ELSE Max + head - tail
    BY Zenon DEF Size
  <2>3. CASE full'
    <3>1. head' = tail' /\ Size' = Max
      BY <2>3, Zenon DEF Advance, Size
    <3> QED
      BY <1>0, <1>2, <2>1, <2>2, <3>1
  <2>4. CASE ~full'
    <3>1. head' # tail'
      BY <2>4, Zenon DEF Advance
    <3>2. Size' = IF head' >= tail' THEN head' - tail' ELSE Max + head' - tail'
      BY <2>4, Zenon DEF Size
    <3> QED
      BY <1>0, <1>2, <2>1, <2>2, <3>1, <3>2
  <2> QED
    BY <2>3, <2>4
<1>4. /\ Content' \in Seq(Byte) /\ Len(Content') = Size + 1
      /\ \A i \in 1 .. Size + 1 : Content'[i] = buffer'[SlotAt(tail, i)]
  BY <1>2, <1>3, RingShapedNext DEF Shaped
<1> DEFINE new == Append(Content, d)
<1>5. /\ new \in Seq(Byte) /\ Len(new) = Size + 1
      /\ \A i \in 1 .. Size : new[i] = Content[i]
      /\ new[Size + 1] = d
  BY <1>1
<1>6. ASSUME NEW i \in 1 .. Size
      PROVE  Content'[i] = new[i]
  <2>1. SlotAt(tail, i) \in 0 .. Max - 1 /\ SlotAt(tail, i) # head
    <3>1. i \in 1 .. Max /\ Size + 1 \in 1 .. Max /\ i # Size + 1
      BY <1>0, <1>1
    <3>2. /\ SlotAt(tail, Size + 1) = head
          /\ \A k \in 1 .. Max : SlotAt(tail, k) \in 0 .. Max - 1
          /\ \A j, k \in 1 .. Max : SlotAt(tail, j) = SlotAt(tail, k) => j = k
      BY <1>0, <1>1, SlotFacts
    <3> QED
      BY <3>1, <3>2, Zenon
  <2>2. buffer'[SlotAt(tail, i)] = buffer[SlotAt(tail, i)]
    BY <1>0, <2>1
  <2> QED
    BY <1>1, <1>4, <1>5, <2>2
<1>7. Content'[Size + 1] = new[Size + 1]
  BY <1>0, <1>1, <1>4, <1>5
<1> HIDE DEF new
<1>8. \A i \in 1 .. Size + 1 : Content'[i] = new[i]
  BY <1>1, <1>6, <1>7
<1> QED
  BY <1>4, <1>5, <1>8, SameSeq DEF new

\* A read takes the oldest byte.
LEMMA GetOldest ==
    ASSUME RingInv, RingInv', ~Empty, Retreat, UNCHANGED <<buffer, head>>
    PROVE  /\ Content # <<>>
           /\ Content' = Tail(Content)
           /\ buffer[tail] = Head(Content)
<1>0. /\ head \in 0 .. Max - 1 /\ tail \in 0 .. Max - 1
      /\ buffer \in [0 .. Max - 1 -> Byte] /\ Max \in Nat /\ Max > 0
      /\ (full => head = tail)
  BY SizeAssumption DEF RingInv, TypeOK, FullMeansMet
<1>1. /\ Content \in Seq(Byte) /\ Len(Content) = Size /\ Size \in 1 .. Max
      /\ \A i \in 1 .. Size : Content[i] = buffer[SlotAt(tail, i)]
  BY <1>0, RingShaped DEF Shaped
<1>2. tail' = (tail + 1) % Max /\ ~full' /\ head' = head /\ buffer' = buffer
  BY Zenon DEF Retreat
<1>3. Size' = Size - 1
  <2>1. tail' = IF tail + 1 = Max THEN 0 ELSE tail + 1
    BY <1>0, <1>2, WrapOne
  <2>2. Size' = IF head >= tail' THEN head - tail' ELSE Max + head - tail'
    BY <1>2, Zenon DEF Size
  <2>3. CASE full
    <3>1. Size = Max
      BY <2>3, Zenon DEF Size
    <3> QED
      BY <1>0, <2>1, <2>2, <2>3, <3>1
  <2>4. CASE ~full
    <3>1. Size = IF head >= tail THEN head - tail ELSE Max + head - tail
      BY <2>4, Zenon DEF Size
    <3>2. head # tail
      BY <2>4, Zenon DEF Empty
    <3> QED
      BY <1>0, <2>1, <2>2, <3>1, <3>2
  <2> QED
    BY <2>3, <2>4
<1>4. /\ Content' \in Seq(Byte) /\ Len(Content') = Size - 1
      /\ \A i \in 1 .. Size - 1 : Content'[i] = buffer[SlotAt(tail', i)]
  BY <1>2, <1>3, RingShapedNext DEF Shaped
<1>5. /\ Tail(Content) \in Seq(Byte) /\ Len(Tail(Content)) = Size - 1
      /\ \A i \in 1 .. Size - 1 : Tail(Content)[i] = Content[i + 1]
  BY <1>1
<1>6. ASSUME NEW i \in 1 .. Size - 1
      PROVE  Content'[i] = Tail(Content)[i]
  <2>1. i \in 1 .. Max - 1 /\ i + 1 \in 1 .. Size
    BY <1>0, <1>1
  <2>2. SlotAt(tail', i) = SlotAt(tail, i + 1)
    BY <1>0, <1>2, <2>1, SlotFacts
  <2> QED
    BY <1>1, <1>4, <1>5, <2>1, <2>2
<1>7. Content' = Tail(Content)
  BY <1>4, <1>5, <1>6, SameSeq
<1>8. SlotAt(tail, 1) = tail /\ 1 \in 1 .. Size
  BY <1>0, <1>1, SlotFacts
<1>9. Content # <<>> /\ Head(Content) = Content[1]
  BY <1>1
<1> QED
  BY <1>1, <1>7, <1>8, <1>9

\* An empty ring has no content.
LEMMA EmptyContent ==
    ASSUME RingInv
    PROVE  /\ Empty => Content = <<>>
           /\ full => Len(Content) = Max
           /\ ~full => Len(Content) # Max
<1>1. /\ Content \in Seq(Byte) /\ Len(Content) = Size /\ Size \in 0 .. Max
      /\ (Empty => Size = 0) /\ (full => Size = Max) /\ (~full => Size < Max)
  BY RingShaped DEF Shaped
<1>2. ASSUME Size = 0 PROVE Content = <<>>
  BY <1>1, <1>2, EmptySeq
<1>3. Max \in Nat
  BY SizeAssumption
<1> QED
  BY <1>1, <1>2, <1>3

\* An empty ring still has no content after a step.
Emptied == Empty => Content = <<>>

LEMMA EmptyContentNext == RingInv' => Emptied'
<1>1. RingInv => Emptied
  BY EmptyContent DEF Emptied
<1> QED
  BY <1>1, PTL

\* circular_buffer.c implements the bounded queue of circular_buffer.h.
THEOREM RingImplementsFifo == Spec => ImplementsFifo
<1>1. Init => Abstract!Init
  <2> SUFFICES ASSUME Init PROVE Abstract!Init
    OBVIOUS
  <2>1. RingInv
    <3>1. 0 \in 0 .. Max - 1
      BY SizeAssumption
    <3> QED
      BY <3>1, Zenon DEF Init, TypeOK, RingInv, FullMeansMet
  <2>2. Empty
    BY Zenon DEF Init, Empty
  <2> QED
    BY <2>1, <2>2, EmptyContent DEF Init, Abstract!Init
<1>2. RingInv /\ RingInv' /\ [Next]_vars => [Abstract!Next]_<<Content, got>>
  <2> SUFFICES ASSUME RingInv, RingInv', [Next]_vars
               PROVE  [Abstract!Next]_<<Content, got>>
    OBVIOUS
  <2>0. ASSUME UNCHANGED <<buffer, head, tail, full>> PROVE Content' = Content
    BY <2>0 DEF Content, Size, Slot
  <2>1. CASE Reset
    <3>1. Empty' /\ got' = got
      BY <2>1, Zenon DEF Reset, Empty
    <3> QED
      BY <3>1, EmptyContentNext DEF Emptied, Abstract!Next, Abstract!Reset
  <2>2. CASE Get
    <3>1. CASE Empty
      <4>1. got' = NoByte /\ Content' = Content
        BY <2>0, <2>2, <3>1 DEF Get
      <4> QED
        BY <3>1, <4>1, EmptyContent DEF Abstract!Next, Abstract!Get
    <3>2. CASE ~Empty
      <4>1. got' = buffer[tail] /\ Retreat /\ UNCHANGED <<buffer, head>>
        BY <2>2, <3>2 DEF Get
      <4> QED
        BY <3>2, <4>1, GetOldest DEF Abstract!Next, Abstract!Get
    <3> QED
      BY <3>1, <3>2
  <2>3. ASSUME NEW d \in Byte, Put(d) PROVE Abstract!Put(d)
    <3>1. buffer' = [buffer EXCEPT ![head] = d] /\ Advance /\ got' = got
      BY <2>3 DEF Put
    <3>2. CASE full
      BY <3>1, <3>2, PutFull, EmptyContent DEF Abstract!Put
    <3>3. CASE ~full
      BY <3>1, <3>3, PutRoom, EmptyContent DEF Abstract!Put
    <3> QED
      BY <3>2, <3>3
  <2>4. ASSUME NEW d \in Byte, Put2(d) PROVE Abstract!Put2(d)
    <3>2. CASE full
      <4>1. UNCHANGED vars
        BY <2>4, <3>2 DEF Put2
      <4> QED
        BY <2>0, <3>2, <4>1, EmptyContent DEF Abstract!Put2, vars
    <3>3. CASE ~full
      <4>1. buffer' = [buffer EXCEPT ![head] = d] /\ Advance /\ got' = got
        BY <2>4, <3>3 DEF Put2
      <4> QED
        BY <3>3, <4>1, PutRoom, EmptyContent DEF Abstract!Put2
    <3> QED
      BY <3>2, <3>3
  <2>5. CASE UNCHANGED vars
    BY <2>0, <2>5 DEF vars
  <2> QED
    BY <2>1, <2>2, <2>3, <2>4, <2>5 DEF Next, Abstract!Next
<1> QED
  BY <1>1, <1>2, RingInvariant, PTL DEF Spec, ImplementsFifo, Abstract!Spec

=============================================================================
