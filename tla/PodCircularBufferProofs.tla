---------------------- MODULE PodCircularBufferProofs ----------------------
(***************************************************************************)
(* The ring of pod_circularbuffer.h for every element type, capacity,      *)
(* buffer and count: its positions and flags agree (RingSound), and it     *)
(* implements a bounded FIFO queue (RingIsFifo).  TypeOK and               *)
(* PositionsAgree are inductive together.  The branches of write and read  *)
(* are first shown to have one effect each, WriteEffect and ReadEffect, in *)
(* which the wrap-around is hidden; everything else follows from those.    *)
(***************************************************************************)
EXTENDS PodCircularBuffer, SequenceTheorems, TLAPS

IInv == TypeOK /\ PositionsAgree

(* What element k of the array holds after n elements of data were put in at *)
(* the write position, going on at the front of the array.                   *)
Spliced(data, n, k) ==
  IF m_nWritePos <= k /\ k < m_nWritePos + n THEN data[k - m_nWritePos + 1]
  ELSE IF k + Capacity < m_nWritePos + n THEN data[k + Capacity - m_nWritePos + 1]
  ELSE m_pBuf[k]

WriteEffect(data, n) ==
  /\ n \in 1 .. Len(data)
  /\ n <= Capacity - Size
  /\ n = Len(data) \/ n = Capacity - Size
  /\ m_pBuf' \in [Index -> T]
  /\ \A k \in Index : m_pBuf'[k] = Spliced(data, n, k)
  /\ m_nReadPos' = m_nReadPos
  /\ m_nWritePos' = Around(m_nWritePos + n)
  /\ m_bEmpty' = FALSE
  /\ m_bFull' = (n = Capacity - Size)
  /\ ret' = n
  /\ out' = <<>>

ReadEffect(count, n) ==
  /\ n \in 1 .. count
  /\ n <= Size
  /\ n = count \/ n = Size
  /\ m_pBuf' = m_pBuf
  /\ m_nReadPos' = Around(m_nReadPos + n)
  /\ m_nWritePos' = m_nWritePos
  /\ m_bEmpty' = (n = Size)
  /\ m_bFull' = FALSE
  /\ ret' = n
  /\ out' \in Seq(T)
  /\ Len(out') = n
  /\ \A i \in 1 .. n : out'[i] = m_pBuf[Around(m_nReadPos + i - 1)]

-----------------------------------------------------------------------------
(* The ranges in the form the arithmetic below needs them in.                *)
LEMMA Ranges ==
  ASSUME IInv
  PROVE  /\ Capacity \in Nat /\ Capacity > 0
         /\ m_nReadPos \in Nat /\ m_nReadPos < Capacity
         /\ m_nWritePos \in Nat /\ m_nWritePos < Capacity
         /\ m_pBuf \in [Index -> T]
         /\ m_bEmpty \in BOOLEAN /\ m_bFull \in BOOLEAN
BY RingAssumption DEF IInv, TypeOK, PositionsAgree, Index

LEMMA SizeRange ==
  ASSUME IInv
  PROVE  /\ Size \in 0 .. Capacity
         /\ Size = 0 <=> m_bEmpty
         /\ Size = Capacity <=> m_bFull
BY Ranges DEF IInv, PositionsAgree, Size

LEMMA SizeCases ==
  ASSUME IInv
  PROVE  \/ m_nReadPos = m_nWritePos /\ (Size = 0 \/ Size = Capacity)
         \/ m_nReadPos < m_nWritePos /\ Size = m_nWritePos - m_nReadPos
         \/ m_nReadPos > m_nWritePos /\ Size = Capacity - m_nReadPos + m_nWritePos
BY Ranges DEF IInv, PositionsAgree, Size

LEMMA CopyOutElements ==
  ASSUME IInv, NEW at \in Index, NEW n \in Nat, at + n <= Capacity
  PROVE  /\ CopyOut(at, n) \in Seq(T)
         /\ Len(CopyOut(at, n)) = n
         /\ \A i \in 1 .. n : CopyOut(at, n)[i] = m_pBuf[at + i - 1]
<1>1. \A i \in 1 .. n : at + i - 1 \in Index
  BY Ranges DEF Index
<1>2. CopyOut(at, n) \in [1 .. n -> T]
  BY <1>1, Ranges DEF CopyOut
<1>3. CopyOut(at, n) \in Seq(T)
  BY <1>2, SeqDef
<1>4. Len(CopyOut(at, n)) = n
  BY <1>2, <1>3, LenProperties DEF CopyOut
<1> QED
  BY <1>3, <1>4 DEF CopyOut

LEMMA CopyInElements ==
  ASSUME NEW ring \in [Index -> T], NEW at \in Nat, NEW n \in Nat,
         NEW data \in Seq(T), NEW from \in Nat, from + n <= Len(data)
  PROVE  /\ CopyIn(ring, at, data, from, n) \in [Index -> T]
         /\ \A i \in Index : CopyIn(ring, at, data, from, n)[i] =
              IF at <= i /\ i < at + n THEN data[from + i - at + 1] ELSE ring[i]
<1>1. \A i \in Index : at <= i /\ i < at + n => data[from + i - at + 1] \in T
  <2> SUFFICES ASSUME NEW i \in Index, at <= i, i < at + n
               PROVE  data[from + i - at + 1] \in T
    OBVIOUS
  <2>1. from + i - at + 1 \in 1 .. Len(data)
    BY LenProperties, RingAssumption DEF Index
  <2> QED
    BY <2>1, ElementOfSeq
<1> QED
  BY <1>1 DEF CopyIn

-----------------------------------------------------------------------------
LEMMA FirstCopy ==
  ASSUME IInv, NEW data \in Seq(T), NEW n \in Nat, n <= Len(data)
  PROVE  /\ CopyIn(m_pBuf, m_nWritePos, data, 0, n) \in [Index -> T]
         /\ \A k \in Index : CopyIn(m_pBuf, m_nWritePos, data, 0, n)[k] =
              IF m_nWritePos <= k /\ k < m_nWritePos + n
                THEN data[k - m_nWritePos + 1] ELSE m_pBuf[k]
<1>1. 0 + n <= Len(data)
  BY LenProperties
<1>2. \A k \in Index : CopyIn(m_pBuf, m_nWritePos, data, 0, n)[k] =
        IF m_nWritePos <= k /\ k < m_nWritePos + n
          THEN data[0 + k - m_nWritePos + 1] ELSE m_pBuf[k]
  BY <1>1, Ranges, CopyInElements
<1>3. \A k \in Index : 0 + k - m_nWritePos + 1 = k - m_nWritePos + 1
  BY Ranges DEF Index
<1> QED
  BY <1>1, <1>2, <1>3, Ranges, CopyInElements

(* A write that does not wrap.                                               *)
LEMMA StraightSplice ==
  ASSUME IInv, NEW data \in Seq(T), NEW n \in Nat, n <= Len(data),
         m_nWritePos + n <= Capacity, PutStraight(data, n)
  PROVE  /\ m_pBuf' \in [Index -> T]
         /\ \A k \in Index : m_pBuf'[k] = Spliced(data, n, k)
BY FirstCopy, Ranges DEF PutStraight, Spliced, Index

(* A write that goes on at the front of the array.                           *)
LEMMA WrappedSplice ==
  ASSUME IInv, NEW data \in Seq(T), NEW left \in Nat, NEW back \in Nat,
         m_nWritePos + left = Capacity, left + back <= Len(data),
         back <= m_nWritePos, PutWrapped(data, left, back)
  PROVE  /\ m_pBuf' \in [Index -> T]
         /\ \A k \in Index : m_pBuf'[k] = Spliced(data, left + back, k)
<1> DEFINE tail == CopyIn(m_pBuf, m_nWritePos, data, 0, left)
<1>0. Len(data) \in Nat /\ left <= Len(data)
  BY LenProperties
<1>1. /\ tail \in [Index -> T]
      /\ \A k \in Index : tail[k] =
           IF m_nWritePos <= k /\ k < m_nWritePos + left
             THEN data[k - m_nWritePos + 1] ELSE m_pBuf[k]
  BY <1>0, FirstCopy
<1>2. m_pBuf' = CopyIn(tail, 0, data, left, back)
  BY DEF PutWrapped
<1> HIDE DEF tail
<1>3. m_pBuf' \in [Index -> T]
  BY <1>1, <1>2, CopyInElements
<1>4. \A k \in Index : m_pBuf'[k] =
        IF 0 <= k /\ k < 0 + back THEN data[left + k - 0 + 1] ELSE tail[k]
  BY <1>1, <1>2, CopyInElements
<1>5. ASSUME NEW k \in Index
      PROVE  m_pBuf'[k] = Spliced(data, left + back, k)
  <2>1. /\ k \in Nat /\ k < Capacity
        /\ m_pBuf'[k] = IF k < back THEN data[left + k + 1] ELSE tail[k]
        /\ tail[k] = IF m_nWritePos <= k THEN data[k - m_nWritePos + 1] ELSE m_pBuf[k]
    BY <1>1, <1>4, Ranges DEF Index
  <2>2. CASE k < back
    <3>1. k + Capacity - m_nWritePos + 1 = left + k + 1
      BY <2>1, Ranges
    <3> QED
      BY <2>1, <2>2, <3>1, Ranges DEF Spliced
  <2>3. CASE ~(k < back)
    BY <2>1, <2>3, Ranges DEF Spliced
  <2> QED
    BY <2>2, <2>3
<1> QED
  BY <1>3, <1>5

-----------------------------------------------------------------------------
(* Every branch of write that stores something has the effect WriteEffect.   *)
LEMMA WriteHasEffect ==
  ASSUME IInv, NEW data \in Seq(T), Write(data), Len(data) # 0, ~m_bFull
  PROVE  \E n \in Nat : WriteEffect(data, n)
<1> DEFINE count == Len(data)
           left == Capacity - m_nWritePos
<1>1. /\ count \in Nat /\ count > 0
      /\ ~m_bFull /\ m_bEmpty' = FALSE /\ out' = <<>> /\ m_nReadPos' = m_nReadPos
  BY LenProperties DEF Write
<1>2. left \in Nat /\ left > 0 /\ m_nWritePos + left = Capacity
  BY Ranges
<1>3. CASE WriteToEmpty(data, left)
  <2> DEFINE back == StopWhenEqual(m_nReadPos, count - left, m_nWritePos)
  <2>1. m_nReadPos = m_nWritePos /\ Size = 0
    BY <1>1, <1>3, Ranges DEF WriteToEmpty, IInv, PositionsAgree, Size
  <2>2. CASE left > count /\ PutStraight(data, count) /\ m_bFull' = m_bFull
    <3>1. m_nWritePos' = Around(m_nWritePos + count) /\ ret' = count
      BY <1>1, <1>2, <2>2, Ranges DEF PutStraight, Around
    <3>2. m_bFull' = (count = Capacity - Size) /\ count <= Capacity - Size
      BY <1>1, <1>2, <2>1, <2>2, Ranges
    <3> QED
      BY <1>1, <1>2, <2>2, <3>1, <3>2, Ranges, StraightSplice DEF WriteEffect
  <2>3. CASE left <= count /\ PutWrapped(data, left, back)
    <3>1. left <= count /\ back = IF m_nReadPos > count - left THEN count - left ELSE m_nWritePos
      BY <2>3 DEF StopWhenEqual
    <3> HIDE DEF back, left, count
    <3>2. /\ back \in Nat /\ left + back <= count /\ back <= m_nWritePos
          /\ left + back = count \/ left + back = Capacity - Size
      BY <1>1, <1>2, <2>1, <3>1, Ranges
    <3>3. m_nWritePos' = Around(m_nWritePos + (left + back)) /\ ret' = left + back
      BY <1>2, <2>3, <3>2, Ranges DEF PutWrapped, Around
    <3>4. m_bFull' = (left + back = Capacity - Size) /\ left + back <= Capacity - Size
      BY <1>2, <2>1, <2>3, <3>1, <3>2, Ranges DEF PutWrapped
    <3>5. /\ m_pBuf' \in [Index -> T]
          /\ \A k \in Index : m_pBuf'[k] = Spliced(data, left + back, k)
      BY <1>2, <2>3, <3>2, WrappedSplice DEF count
    <3>6. left + back \in 1 .. count /\ left + back \in Nat
      BY <1>1, <1>2, <3>2
    <3> QED
      BY <1>1, <3>2, <3>3, <3>4, <3>5, <3>6 DEF WriteEffect, count
  <2> QED
    BY <1>3, <2>2, <2>3 DEF WriteToEmpty
<1>4. CASE WriteBehindReader(data, left)
  <2> DEFINE back == StopWhenApart(m_nReadPos, count - left)
  <2>1. m_nReadPos < m_nWritePos /\ Size = m_nWritePos - m_nReadPos
    BY <1>1, <1>4, Ranges DEF WriteBehindReader, IInv, PositionsAgree, Size
  <2>2. CASE /\ left > count /\ PutStraight(data, count)
             /\ m_bFull' = (m_nReadPos = m_nWritePos + count)
    <3>1. m_nWritePos' = Around(m_nWritePos + count) /\ ret' = count
      BY <1>1, <1>2, <2>2, Ranges DEF PutStraight, Around
    <3>2. m_bFull' = (count = Capacity - Size) /\ count <= Capacity - Size
      BY <1>1, <1>2, <2>1, <2>2, Ranges
    <3> QED
      BY <1>1, <1>2, <2>2, <3>1, <3>2, Ranges, StraightSplice DEF WriteEffect
  <2>3. CASE left <= count /\ PutWrapped(data, left, back)
    <3>1. left <= count /\ back = IF m_nReadPos >= count - left THEN count - left ELSE m_nReadPos
      BY <2>3 DEF StopWhenApart
    <3> HIDE DEF back, left, count
    <3>2. /\ back \in Nat /\ left + back <= count /\ back <= m_nWritePos
          /\ left + back = count \/ left + back = Capacity - Size
      BY <1>1, <1>2, <2>1, <3>1, Ranges
    <3>3. m_nWritePos' = Around(m_nWritePos + (left + back)) /\ ret' = left + back
      BY <1>2, <2>3, <3>2, Ranges DEF PutWrapped, Around
    <3>4. m_bFull' = (left + back = Capacity - Size) /\ left + back <= Capacity - Size
      BY SMTT(30), <1>2, <2>1, <2>3, <3>1, <3>2, Ranges DEF PutWrapped
    <3>5. /\ m_pBuf' \in [Index -> T]
          /\ \A k \in Index : m_pBuf'[k] = Spliced(data, left + back, k)
      BY <1>2, <2>3, <3>2, WrappedSplice DEF count
    <3>6. left + back \in 1 .. count /\ left + back \in Nat
      BY <1>1, <1>2, <3>2
    <3> QED
      BY <1>1, <3>2, <3>3, <3>4, <3>5, <3>6 DEF WriteEffect, count
  <2> QED
    BY <1>4, <2>2, <2>3 DEF WriteBehindReader
<1>5. CASE WriteIntoGap(data, m_nReadPos - m_nWritePos)
  <2> DEFINE gap == m_nReadPos - m_nWritePos
             n == IF gap > count THEN count ELSE gap
  <2>1. m_nReadPos > m_nWritePos /\ Capacity - Size = gap
    BY <1>1, <1>5, Ranges DEF WriteIntoGap, IInv, PositionsAgree, Size
  <2>2. PutStraight(data, n) /\ m_bFull' = (m_nReadPos = m_nWritePos')
    BY <1>5 DEF WriteIntoGap
  <2>3. n \in Nat /\ n \in 1 .. count /\ n <= gap /\ (n = count \/ n = gap)
    BY <1>1, <2>1, Ranges
  <2> HIDE DEF n
  <2>4. m_nWritePos' = Around(m_nWritePos + n) /\ ret' = n
    BY <2>1, <2>2, <2>3, Ranges DEF PutStraight, Around
  <2>5. m_bFull' = (n = Capacity - Size)
    BY <2>1, <2>2, <2>3, Ranges DEF PutStraight
  <2>6. /\ m_pBuf' \in [Index -> T]
        /\ \A k \in Index : m_pBuf'[k] = Spliced(data, n, k)
    BY <1>1, <2>1, <2>2, <2>3, Ranges, StraightSplice
  <2> QED
    BY <1>1, <2>1, <2>3, <2>4, <2>5, <2>6 DEF WriteEffect
<1> QED
  BY <1>3, <1>4, <1>5 DEF Write

(* A read that does not wrap, and one that goes on at the front.             *)
LEMMA StraightCopy ==
  ASSUME IInv, NEW n \in Nat, m_nReadPos + n <= Capacity, GetStraight(n)
  PROVE  /\ out' \in Seq(T) /\ Len(out') = n
         /\ \A i \in 1 .. n : out'[i] = m_pBuf[Around(m_nReadPos + i - 1)]
<1>1. m_nReadPos \in Index
  BY DEF IInv, PositionsAgree
<1>2. \A i \in 1 .. n : Around(m_nReadPos + i - 1) = m_nReadPos + i - 1
  BY Ranges DEF Around
<1> QED
  BY <1>1, <1>2, CopyOutElements DEF GetStraight

LEMMA WrappedCopy ==
  ASSUME IInv, NEW left \in Nat, NEW back \in Nat,
         m_nReadPos + left = Capacity, back <= m_nReadPos, GetWrapped(left, back)
  PROVE  /\ out' \in Seq(T) /\ Len(out') = left + back
         /\ \A i \in 1 .. left + back : out'[i] = m_pBuf[Around(m_nReadPos + i - 1)]
<1> DEFINE head == CopyOut(m_nReadPos, left)
           rest == CopyOut(0, back)
<1>0. m_nReadPos \in Index /\ 0 \in Index
  BY Ranges DEF Index
<1>1. /\ head \in Seq(T) /\ Len(head) = left
      /\ \A i \in 1 .. left : head[i] = m_pBuf[m_nReadPos + i - 1]
  BY <1>0, Ranges, CopyOutElements
<1>2. /\ rest \in Seq(T) /\ Len(rest) = back
      /\ \A i \in 1 .. back : rest[i] = m_pBuf[0 + i - 1]
  BY <1>0, Ranges, CopyOutElements
<1>3. out' = head \o rest
  BY DEF GetWrapped
<1> HIDE DEF head, rest
<1>4. /\ out' \in Seq(T) /\ Len(out') = left + back
      /\ \A i \in 1 .. left + back :
           out'[i] = IF i <= left THEN head[i] ELSE rest[i - left]
  <2>1. /\ head \o rest \in Seq(T)
        /\ Len(head \o rest) = Len(head) + Len(rest)
        /\ \A i \in 1 .. Len(head) + Len(rest) :
             (head \o rest)[i] = IF i <= Len(head) THEN head[i] ELSE rest[i - Len(head)]
    BY <1>1, <1>2, ConcatProperties
  <2> QED
    BY <1>1, <1>2, <1>3, <2>1, Zenon
<1>5. ASSUME NEW i \in 1 .. left + back
      PROVE  out'[i] = m_pBuf[Around(m_nReadPos + i - 1)]
  <2>1. CASE i <= left
    <3>1. i \in 1 .. left /\ Around(m_nReadPos + i - 1) = m_nReadPos + i - 1
      BY <2>1, Ranges DEF Around
    <3> QED
      BY <1>1, <1>4, <2>1, <3>1
  <2>2. CASE ~(i <= left)
    <3>1. i - left \in 1 .. back /\ Around(m_nReadPos + i - 1) = 0 + (i - left) - 1
      BY <2>2, Ranges DEF Around
    <3> QED
      BY <1>2, <1>4, <2>2, <3>1
  <2> QED
    BY <2>1, <2>2
<1> QED
  BY <1>4, <1>5

(* Every branch of read that finds something has the effect ReadEffect.      *)
LEMMA ReadHasEffect ==
  ASSUME IInv, NEW count \in Nat, Read(count), count # 0, ~m_bEmpty
  PROVE  \E n \in Nat : ReadEffect(count, n)
<1> DEFINE left == Capacity - m_nReadPos
<1>1. /\ count > 0 /\ ~m_bEmpty /\ m_bFull' = FALSE
      /\ m_pBuf' = m_pBuf /\ m_nWritePos' = m_nWritePos
  BY DEF Read
<1>2. left \in Nat /\ left > 0 /\ m_nReadPos + left = Capacity
  BY Ranges
<1>3. CASE ReadFromFull(count, left)
  <2> DEFINE back == StopWhenEqual(m_nWritePos, count - left, m_nWritePos)
  <2>1. m_nReadPos = m_nWritePos /\ Size = Capacity
    BY <1>1, <1>3, Ranges DEF ReadFromFull, IInv, PositionsAgree, Size
  <2>2. CASE left > count /\ GetStraight(count)
    <3>1. m_nReadPos' = Around(m_nReadPos + count) /\ ret' = count
      BY <1>2, <2>2, Ranges DEF GetStraight, Around
    <3>2. m_bEmpty' = (count = Size) /\ count <= Size
      BY <1>1, <1>2, <2>1, <2>2, Ranges DEF GetStraight
    <3> QED
      BY <1>1, <1>2, <2>2, <3>1, <3>2, Ranges, StraightCopy DEF ReadEffect
  <2>3. CASE left <= count /\ GetWrapped(left, back)
    <3>1. left <= count /\ back = IF m_nWritePos > count - left THEN count - left ELSE m_nWritePos
      BY <2>3 DEF StopWhenEqual
    <3> HIDE DEF back, left
    <3>2. /\ back \in Nat /\ left + back <= count /\ back <= m_nReadPos
          /\ left + back = count \/ left + back = Size
      BY <1>1, <1>2, <2>1, <3>1, Ranges
    <3>3. m_nReadPos' = Around(m_nReadPos + (left + back)) /\ ret' = left + back
      BY <1>2, <2>3, <3>2, Ranges DEF GetWrapped, Around
    <3>4. m_bEmpty' = (left + back = Size) /\ left + back <= Size
      BY <1>2, <2>1, <2>3, <3>1, <3>2, Ranges DEF GetWrapped
    <3>5. /\ out' \in Seq(T) /\ Len(out') = left + back
          /\ \A i \in 1 .. left + back : out'[i] = m_pBuf[Around(m_nReadPos + i - 1)]
      BY <1>2, <2>3, <3>2, WrappedCopy
    <3>6. left + back \in 1 .. count /\ left + back \in Nat
      BY <1>1, <1>2, <3>2
    <3> QED
      BY <1>1, <3>2, <3>3, <3>4, <3>5, <3>6 DEF ReadEffect
  <2> QED
    BY <1>3, <2>2, <2>3 DEF ReadFromFull
<1>4. CASE ReadContiguous(count, m_nWritePos - m_nReadPos)
  <2> DEFINE used == m_nWritePos - m_nReadPos
             n == IF used > count THEN count ELSE used
  <2>1. m_nReadPos < m_nWritePos /\ Size = used
    BY <1>1, <1>4, Ranges DEF ReadContiguous, IInv, PositionsAgree, Size
  <2>2. GetStraight(n)
    BY <1>4 DEF ReadContiguous
  <2>3. n \in Nat /\ n \in 1 .. count /\ n <= used /\ (n = count \/ n = used)
    BY <1>1, <2>1, Ranges
  <2> HIDE DEF n
  <2>4. m_nReadPos' = Around(m_nReadPos + n) /\ ret' = n
    BY <2>1, <2>2, <2>3, Ranges DEF GetStraight, Around
  <2>5. m_bEmpty' = (n = Size)
    BY <2>1, <2>2, <2>3, Ranges DEF GetStraight
  <2>6. /\ out' \in Seq(T) /\ Len(out') = n
        /\ \A i \in 1 .. n : out'[i] = m_pBuf[Around(m_nReadPos + i - 1)]
    BY <2>1, <2>2, <2>3, Ranges, StraightCopy
  <2> QED
    BY <1>1, <2>1, <2>3, <2>4, <2>5, <2>6 DEF ReadEffect
<1>5. CASE ReadAround(count, left)
  <2> DEFINE back == StopWhenApart(m_nWritePos, count - left)
  <2>1. m_nReadPos > m_nWritePos /\ Size = left + m_nWritePos
    BY <1>1, <1>5, Ranges DEF ReadAround, IInv, PositionsAgree, Size
  <2>2. CASE left > count /\ GetStraight(count)
    <3>1. m_nReadPos' = Around(m_nReadPos + count) /\ ret' = count
      BY <1>2, <2>2, Ranges DEF GetStraight, Around
    <3>2. m_bEmpty' = (count = Size) /\ count <= Size
      BY <1>1, <1>2, <2>1, <2>2, Ranges DEF GetStraight
    <3> QED
      BY <1>1, <1>2, <2>2, <3>1, <3>2, Ranges, StraightCopy DEF ReadEffect
  <2>3. CASE left <= count /\ GetWrapped(left, back)
    <3>1. left <= count /\ back = IF m_nWritePos >= count - left THEN count - left ELSE m_nWritePos
      BY <2>3 DEF StopWhenApart
    <3> HIDE DEF back, left
    <3>2. /\ back \in Nat /\ left + back <= count /\ back <= m_nReadPos
          /\ left + back = count \/ left + back = Size
      BY <1>1, <1>2, <2>1, <3>1, Ranges
    <3>3. m_nReadPos' = Around(m_nReadPos + (left + back)) /\ ret' = left + back
      BY <1>2, <2>3, <3>2, Ranges DEF GetWrapped, Around
    <3>4. m_bEmpty' = (left + back = Size) /\ left + back <= Size
      BY <1>2, <2>1, <2>3, <3>1, <3>2, Ranges DEF GetWrapped
    <3>5. /\ out' \in Seq(T) /\ Len(out') = left + back
          /\ \A i \in 1 .. left + back : out'[i] = m_pBuf[Around(m_nReadPos + i - 1)]
      BY <1>2, <2>3, <3>2, WrappedCopy
    <3>6. left + back \in 1 .. count /\ left + back \in Nat
      BY <1>1, <1>2, <3>2
    <3> QED
      BY <1>1, <3>2, <3>3, <3>4, <3>5, <3>6 DEF ReadEffect
  <2> QED
    BY <1>5, <2>2, <2>3 DEF ReadAround
<1> QED
  BY <1>3, <1>4, <1>5 DEF Read

-----------------------------------------------------------------------------
(* The two effects preserve the agreement of positions and flags.            *)
LEMMA WriteEffectInv ==
  ASSUME IInv, NEW data \in Seq(T), NEW n \in Nat, WriteEffect(data, n)
  PROVE  IInv' /\ Size' = Size + n
<1>1. n > 0 /\ n <= Capacity - Size
  BY LenProperties DEF WriteEffect
<1>2. /\ m_pBuf' \in [Index -> T]
      /\ m_nReadPos' = m_nReadPos /\ m_nWritePos' = Around(m_nWritePos + n)
      /\ m_bEmpty' = FALSE /\ m_bFull' = (n = Capacity - Size)
      /\ ret' = n /\ out' = <<>>
  BY DEF WriteEffect
<1>3. Around(m_nWritePos + n) \in Index
  BY <1>1, Ranges, SizeRange DEF Around, Index
<1>4. (m_nReadPos = Around(m_nWritePos + n)) <=> (n = Capacity - Size)
  BY SMTT(30), <1>1, Ranges, SizeRange, SizeCases DEF Around
<1>5. TypeOK'
  <2>1. m_bEmpty' \in BOOLEAN /\ m_bFull' \in BOOLEAN
    BY <1>2
  <2>2. ret' \in 0 .. Capacity
    BY <1>1, <1>2, Ranges, SizeRange
  <2>3. m_nReadPos' \in 0 .. Capacity /\ m_nWritePos' \in 0 .. Capacity
    BY <1>2, <1>3, Ranges DEF Index
  <2>4. m_pBuf' \in [Index -> T] /\ out' \in Seq(T)
    BY <1>2, EmptySeq
  <2> QED
    BY <2>1, <2>2, <2>3, <2>4 DEF TypeOK, Index
<1>6. PositionsAgree'
  <2>1. m_nReadPos' \in Index /\ m_nWritePos' \in Index
    BY <1>2, <1>3, Ranges DEF Index
  <2>2. (m_nReadPos' = m_nWritePos') <=> m_bFull'
    BY <1>2, <1>4
  <2> QED
    BY <1>2, <2>1, <2>2 DEF PositionsAgree, Index
<1>7. Size' = Size + n
  <2>1. Size' = IF n = Capacity - Size THEN Capacity
                ELSE IF m_nReadPos < Around(m_nWritePos + n)
                THEN Around(m_nWritePos + n) - m_nReadPos
                ELSE Capacity - m_nReadPos + Around(m_nWritePos + n)
    <3>1. Size' = IF m_bEmpty' THEN 0
                  ELSE IF m_bFull' THEN Capacity
                  ELSE IF m_nReadPos' < m_nWritePos' THEN m_nWritePos' - m_nReadPos'
                  ELSE Capacity - m_nReadPos' + m_nWritePos'
      BY DEF Size
    <3> QED
      BY <1>2, <3>1
  <2> QED
    BY <1>1, <1>4, <2>1, Ranges, SizeRange, SizeCases DEF Around
<1> QED
  BY <1>5, <1>6, <1>7 DEF IInv

LEMMA ReadEffectInv ==
  ASSUME IInv, NEW count \in Nat, NEW n \in Nat, ReadEffect(count, n)
  PROVE  IInv' /\ Size' = Size - n
<1>1. n > 0 /\ n <= Size
  BY DEF ReadEffect
<1>2. /\ m_pBuf' = m_pBuf
      /\ m_nReadPos' = Around(m_nReadPos + n) /\ m_nWritePos' = m_nWritePos
      /\ m_bEmpty' = (n = Size) /\ m_bFull' = FALSE
      /\ ret' = n /\ out' \in Seq(T)
  BY DEF ReadEffect
<1>3. Around(m_nReadPos + n) \in Index
  BY <1>1, Ranges, SizeRange DEF Around, Index
<1>4. (Around(m_nReadPos + n) = m_nWritePos) <=> (n = Size)
  BY <1>1, Ranges, SizeRange, SizeCases DEF Around
<1>5. TypeOK'
  <2>1. m_bEmpty' \in BOOLEAN /\ m_bFull' \in BOOLEAN
    BY <1>2
  <2>2. ret' \in 0 .. Capacity
    BY <1>1, <1>2, Ranges, SizeRange
  <2>3. m_nReadPos' \in 0 .. Capacity /\ m_nWritePos' \in 0 .. Capacity
    BY <1>2, <1>3, Ranges DEF Index
  <2> QED
    BY <1>2, <2>1, <2>2, <2>3, Ranges DEF TypeOK, Index
<1>6. PositionsAgree'
  <2>1. m_nReadPos' \in Index /\ m_nWritePos' \in Index
    BY <1>2, <1>3, Ranges DEF Index
  <2>2. (m_nReadPos' = m_nWritePos') <=> m_bEmpty'
    BY <1>2, <1>4
  <2> QED
    BY <1>2, <2>1, <2>2 DEF PositionsAgree, Index
<1>7. Size' = Size - n
  <2>1. Size' = IF n = Size THEN 0
                ELSE IF Around(m_nReadPos + n) < m_nWritePos
                THEN m_nWritePos - Around(m_nReadPos + n)
                ELSE Capacity - Around(m_nReadPos + n) + m_nWritePos
    <3>1. Size' = IF m_bEmpty' THEN 0
                  ELSE IF m_bFull' THEN Capacity
                  ELSE IF m_nReadPos' < m_nWritePos' THEN m_nWritePos' - m_nReadPos'
                  ELSE Capacity - m_nReadPos' + m_nWritePos'
      BY DEF Size
    <3> QED
      BY <1>2, <3>1
  <2> QED
    BY <1>1, <1>4, <2>1, Ranges, SizeRange, SizeCases DEF Around
<1> QED
  BY <1>5, <1>6, <1>7 DEF IInv

LEMMA UnchangedInv ==
  ASSUME IInv, UNCHANGED <<m_pBuf, pos, flags>>, ret' \in 0 .. Capacity, out' \in Seq(T)
  PROVE  IInv' /\ Size' = Size /\ Unread' = Unread
<1>1. IInv'
  BY DEF IInv, TypeOK, PositionsAgree, Index, pos, flags
<1> QED
  BY <1>1 DEF Size, Unread, pos, flags

LEMMA RefuseStep ==
  ASSUME IInv, Refuse
  PROVE  IInv' /\ Size' = Size /\ Unread' = Unread
<1>1. ret' \in 0 .. Capacity
  BY Ranges DEF Refuse
<1>2. out' \in Seq(T)
  BY EmptySeq DEF Refuse
<1> QED
  BY <1>1, <1>2, UnchangedInv DEF Refuse

LEMMA StepInv ==
  IInv /\ [Next]_vars => IInv'
<1> SUFFICES ASSUME IInv, [Next]_vars PROVE IInv'
  OBVIOUS
<1>1. ASSUME NEW data \in Inputs, Write(data) PROVE IInv'
  <2>0. data \in Seq(T)
    BY RingAssumption
  <2>1. CASE Len(data) = 0 \/ m_bFull
    BY <1>1, <2>1, RefuseStep DEF Write
  <2>2. CASE ~(Len(data) = 0 \/ m_bFull)
    BY <1>1, <2>0, <2>2, WriteHasEffect, WriteEffectInv
  <2> QED
    BY <2>1, <2>2
<1>2. ASSUME NEW n \in Counts, Read(n) PROVE IInv'
  <2>0. n \in Nat
    BY RingAssumption
  <2>1. CASE n = 0 \/ m_bEmpty
    BY <1>2, <2>1, RefuseStep DEF Read
  <2>2. CASE ~(n = 0 \/ m_bEmpty)
    BY <1>2, <2>0, <2>2, ReadHasEffect, ReadEffectInv
  <2> QED
    BY <2>1, <2>2
<1>3. CASE Clear
  BY <1>3, Ranges, EmptySeq DEF Clear, IInv, TypeOK, PositionsAgree, Index
<1>4. CASE UNCHANGED vars
  BY <1>4, UnchangedInv DEF vars, IInv, TypeOK
<1> QED
  BY <1>1, <1>2, <1>3, <1>4 DEF Next

(* Whatever is written and read, the members keep their types and the        *)
(* positions of the ring agree with its flags.                               *)
THEOREM RingSound == Spec => []TypeOK /\ []PositionsAgree
<1>1. Init => IInv
  <2> SUFFICES ASSUME Init PROVE IInv
    OBVIOUS
  <2>1. 0 \in Index /\ 0 \in 0 .. Capacity
    BY RingAssumption DEF Index
  <2>2. <<>> \in Seq(T)
    BY EmptySeq
  <2> QED
    BY <2>1, <2>2, Zenon DEF Init, IInv, TypeOK, PositionsAgree
<1> QED
  BY <1>1, StepInv, PTL DEF Spec, IInv

-----------------------------------------------------------------------------
(* The queue a ring stands for, before a step and after it.                  *)
UnreadOK ==
  /\ Unread \in Seq(T)
  /\ Len(Unread) = Size
  /\ \A i \in 1 .. Size : Unread[i] = m_pBuf[Around(m_nReadPos + i - 1)]

LEMMA UnreadElements == IInv => UnreadOK
<1> SUFFICES ASSUME IInv PROVE UnreadOK
  OBVIOUS
<1>0. Size \in Nat /\ Size <= Capacity
  BY Ranges, SizeRange
<1>1. \A i \in 1 .. Size : Around(m_nReadPos + i - 1) \in Index
  BY <1>0, Ranges DEF Around, Index
<1> HIDE DEF Size, Around
<1>2. Unread \in [1 .. Size -> T]
  BY <1>1, Ranges DEF Unread
<1>3. Unread \in Seq(T)
  BY <1>0, <1>2, SeqDef
<1>4. Len(Unread) = Size
  BY <1>0, <1>2, <1>3, LenProperties
<1> QED
  BY <1>3, <1>4 DEF Unread, UnreadOK

LEMMA UnreadElementsNext ==
  ASSUME IInv'
  PROVE  /\ Unread' \in Seq(T)
         /\ Len(Unread') = Size'
         /\ \A i \in 1 .. Size' : Unread'[i] = m_pBuf'[Around(m_nReadPos' + i - 1)]
<1>1. UnreadOK'
  BY UnreadElements, PTL
<1> QED
  BY <1>1 DEF UnreadOK, Around

(* A write appends its first n elements to the queue.                        *)
LEMMA WriteAppends ==
  ASSUME IInv, NEW data \in Seq(T), NEW n \in Nat, WriteEffect(data, n)
  PROVE  Unread' = Unread \o SubSeq(data, 1, n)
<1> DEFINE added == SubSeq(data, 1, n)
<1>1. IInv' /\ Size' = Size + n /\ Size \in Nat /\ Size + n <= Capacity
  <2>1. IInv' /\ Size' = Size + n
    BY WriteEffectInv
  <2>2. n <= Capacity - Size /\ Size \in 0 .. Capacity
    BY SizeRange DEF WriteEffect
  <2> QED
    BY <2>1, <2>2, Ranges
<1>2. /\ added \in Seq(T) /\ Len(added) = n
      /\ \A i \in 1 .. n : added[i] = data[i]
  <2>1. n <= Len(data) /\ Len(data) \in Nat
    BY LenProperties DEF WriteEffect
  <2>2. \A i \in 1 .. n : data[i] \in T
    BY <2>1, ElementOfSeq
  <2>3. /\ added \in Seq(T) /\ Len(added) = IF 1 <= n THEN n - 1 + 1 ELSE 0
        /\ \A i \in 1 .. n - 1 + 1 : added[i] = data[1 + i - 1]
    BY <2>2, SubSeqProperties
  <2> HIDE DEF added
  <2>4. n - 1 + 1 = n /\ (1 <= n <=> n # 0)
    OBVIOUS
  <2>5. ASSUME NEW i \in 1 .. n PROVE added[i] = data[i]
    <3>1. 1 + i - 1 = i
      OBVIOUS
    <3> QED
      BY <2>3, <2>4, <3>1
  <2>6. Len(added) = n
    BY <2>3, <2>4
  <2> QED
    BY <2>3, <2>5, <2>6
<1> HIDE DEF added
<1>3. /\ Unread \o added \in Seq(T)
      /\ Len(Unread \o added) = Size + n
      /\ \A i \in 1 .. Size + n :
           (Unread \o added)[i] = IF i <= Size THEN Unread[i] ELSE added[i - Size]
  <2>1. Unread \in Seq(T) /\ Len(Unread) = Size
    BY UnreadElements DEF UnreadOK
  <2>2. /\ Unread \o added \in Seq(T)
        /\ Len(Unread \o added) = Len(Unread) + Len(added)
        /\ \A i \in 1 .. Len(Unread) + Len(added) : (Unread \o added)[i] =
             IF i <= Len(Unread) THEN Unread[i] ELSE added[i - Len(Unread)]
    BY <1>2, <2>1, ConcatProperties
  <2> QED
    BY <1>2, <2>1, <2>2, Zenon
<1>4. /\ Unread' \in Seq(T) /\ Len(Unread') = Size + n
      /\ \A i \in 1 .. Size + n : Unread'[i] = m_pBuf'[Around(m_nReadPos + i - 1)]
  BY <1>1, UnreadElementsNext DEF WriteEffect
<1>5. ASSUME NEW i \in 1 .. Size + n
      PROVE  Unread'[i] = (Unread \o added)[i]
  <2> DEFINE k == Around(m_nReadPos + i - 1)
  <2>1. k \in Index /\ m_pBuf'[k] = Spliced(data, n, k)
    BY <1>1, Ranges DEF WriteEffect, Around, Index
  <2>2. CASE i <= Size
    <3>1. Spliced(data, n, k) = m_pBuf[k]
      BY SMTT(30), <1>1, <2>2, Ranges, SizeCases DEF Spliced, Around
    <3>2. Unread[i] = m_pBuf[k]
      BY <1>1, <2>2, UnreadElements DEF UnreadOK
    <3> QED
      BY <1>3, <1>4, <2>1, <2>2, <3>1, <3>2
  <2>3. CASE ~(i <= Size)
    <3>1. i - Size \in 1 .. n
      BY <1>1, <2>3
    <3>2. \/ /\ m_nWritePos <= k /\ k < m_nWritePos + n
             /\ k - m_nWritePos + 1 = i - Size
          \/ /\ ~(m_nWritePos <= k) /\ k + Capacity < m_nWritePos + n
             /\ k + Capacity - m_nWritePos + 1 = i - Size
      <4>1. m_nReadPos + Size = m_nWritePos \/ m_nReadPos + Size = m_nWritePos + Capacity
        BY Ranges, SizeCases
      <4>2. PICK j \in 1 .. n : i = Size + j
        BY <1>1, <3>1
      <4> HIDE DEF Size
      <4>3. CASE m_nReadPos + Size = m_nWritePos
        <5>1. k = IF m_nWritePos + j - 1 >= Capacity
                  THEN m_nWritePos + j - 1 - Capacity ELSE m_nWritePos + j - 1
          BY <1>1, <4>2, <4>3, Ranges DEF Around
        <5> HIDE DEF k
        <5>2. i - Size = j /\ j <= Capacity /\ j <= n /\ j >= 1 /\ j \in Nat
          BY <1>1, <4>2, Ranges
        <5>3. CASE m_nWritePos + j - 1 >= Capacity
          <6>1. k = m_nWritePos + j - 1 - Capacity
            BY <5>1, <5>3
          <6> QED
            BY <5>2, <5>3, <6>1, Ranges
        <5>4. CASE ~(m_nWritePos + j - 1 >= Capacity)
          <6>1. k = m_nWritePos + j - 1
            BY <5>1, <5>4
          <6> QED
            BY <5>2, <5>4, <6>1, Ranges
        <5> QED
          BY <5>3, <5>4
      <4>4. CASE m_nReadPos + Size = m_nWritePos + Capacity
        <5>1. k = m_nWritePos + j - 1
          BY <1>1, <4>2, <4>4, Ranges DEF Around
        <5> HIDE DEF k
        <5>2. i - Size = j /\ j <= Capacity /\ j <= n /\ j >= 1 /\ j \in Nat
          BY <1>1, <4>2, Ranges
        <5> QED
          BY <5>1, <5>2, Ranges
      <4> QED
        BY <4>1, <4>3, <4>4
    <3> HIDE DEF k
    <3>3. Spliced(data, n, k) = data[i - Size]
      <4>1. CASE m_nWritePos <= k /\ k < m_nWritePos + n /\ k - m_nWritePos + 1 = i - Size
        <5>1. Spliced(data, n, k) = data[k - m_nWritePos + 1]
          BY <4>1, Zenon DEF Spliced
        <5> QED
          BY <4>1, <5>1, Zenon
      <4>2. CASE /\ ~(m_nWritePos <= k) /\ k + Capacity < m_nWritePos + n
                 /\ k + Capacity - m_nWritePos + 1 = i - Size
        <5>1. Spliced(data, n, k) = data[k + Capacity - m_nWritePos + 1]
          BY <4>2, Zenon DEF Spliced
        <5> QED
          BY <4>2, <5>1, Zenon
      <4> QED
        BY <3>2, <4>1, <4>2
    <3> QED
      BY <1>2, <1>3, <1>4, <2>1, <2>3, <3>1, <3>3 DEF k
  <2> QED
    BY <2>2, <2>3
<1> QED
  BY <1>3, <1>4, <1>5, SeqEqual DEF added

(* A read takes its n elements off the front of the queue, in order.         *)
LEMMA ReadTakes ==
  ASSUME IInv, NEW count \in Nat, NEW n \in Nat, ReadEffect(count, n)
  PROVE  /\ out' = SubSeq(Unread, 1, n)
         /\ Unread' = SubSeq(Unread, n + 1, Size)
<1>1. IInv' /\ Size' = Size - n /\ Size \in Nat /\ n \in 1 .. Size /\ Size <= Capacity
  <2>1. IInv' /\ Size' = Size - n
    BY ReadEffectInv
  <2>2. n > 0 /\ n <= Size /\ Size \in 0 .. Capacity
    BY SizeRange DEF ReadEffect
  <2> QED
    BY <2>1, <2>2, Ranges
<1>2. /\ Unread \in Seq(T) /\ Len(Unread) = Size
      /\ \A i \in 1 .. Size : Unread[i] = m_pBuf[Around(m_nReadPos + i - 1)]
  BY UnreadElements DEF UnreadOK
<1>3. \A i \in 1 .. Size : Unread[i] \in T
  BY <1>2, ElementOfSeq
<1>4. out' = SubSeq(Unread, 1, n)
  <2> DEFINE taken == SubSeq(Unread, 1, n)
  <2>1. /\ taken \in Seq(T) /\ Len(taken) = IF 1 <= n THEN n - 1 + 1 ELSE 0
        /\ \A i \in 1 .. n - 1 + 1 : taken[i] = Unread[1 + i - 1]
    BY <1>1, <1>3, SubSeqProperties
  <2> HIDE DEF taken
  <2>2. ASSUME NEW i \in 1 .. n
        PROVE  out'[i] = taken[i]
    <3>1. out'[i] = m_pBuf[Around(m_nReadPos + i - 1)]
      BY DEF ReadEffect
    <3>2. i \in 1 .. Size /\ i \in 1 .. n - 1 + 1 /\ 1 + i - 1 = i
      BY <1>1
    <3> QED
      BY <1>2, <2>1, <3>1, <3>2
  <2>3. Len(taken) = n /\ Len(out') = n /\ out' \in Seq(T)
    BY <1>1, <2>1 DEF ReadEffect
  <2>4. out' = taken
    BY <2>1, <2>2, <2>3, SeqEqual
  <2> QED
    BY <2>4 DEF taken
<1>5. Unread' = SubSeq(Unread, n + 1, Size)
  <2> DEFINE rest == SubSeq(Unread, n + 1, Size)
  <2>1. /\ rest \in Seq(T)
        /\ Len(rest) = IF n + 1 <= Size THEN Size - (n + 1) + 1 ELSE 0
        /\ \A i \in 1 .. Size - (n + 1) + 1 : rest[i] = Unread[n + 1 + i - 1]
    BY <1>1, <1>3, SubSeqProperties
  <2> HIDE DEF rest
  <2>2. /\ Unread' \in Seq(T) /\ Len(Unread') = Size - n
        /\ \A i \in 1 .. Size - n :
             Unread'[i] = m_pBuf[Around(Around(m_nReadPos + n) + i - 1)]
    BY <1>1, UnreadElementsNext DEF ReadEffect
  <2>3. ASSUME NEW i \in 1 .. Size - n
        PROVE  Unread'[i] = rest[i]
    <3>1. Around(Around(m_nReadPos + n) + i - 1) = Around(m_nReadPos + (n + i) - 1)
      BY <1>1, Ranges DEF Around
    <3>2. n + i \in 1 .. Size /\ n + 1 + i - 1 = n + i
      BY <1>1
    <3>3. rest[i] = Unread[n + i]
      BY <1>1, <2>1, <3>2
    <3> QED
      BY <1>2, <2>2, <3>1, <3>2, <3>3
  <2>4. Len(rest) = Size - n
    BY <1>1, <2>1
  <2>5. Unread' = rest
    BY <2>1, <2>2, <2>3, <2>4, SeqEqual
  <2> QED
    BY <2>5 DEF rest
<1> QED
  BY <1>4, <1>5

-----------------------------------------------------------------------------
(* Every call of the ring is the same call of the queue.                     *)
LEMMA WriteIsFifoWrite ==
  ASSUME IInv, NEW data \in Seq(T), Write(data)
  PROVE  Fifo!Write(data)
<1>1. Unread \in Seq(T) /\ Len(Unread) = Size /\ Size \in 0 .. Capacity /\ Len(data) \in Nat
  BY UnreadElements, SizeRange, LenProperties DEF UnreadOK
<1>2. CASE Len(data) = 0 \/ m_bFull
  <2>1. Refuse /\ Unread' = Unread /\ ret' = 0 /\ out' = <<>>
    BY <1>2, RefuseStep DEF Write, Refuse
  <2>2. Fifo!Accepted(Unread, data) = 0
    BY <1>1, <1>2, Ranges, SizeRange DEF Fifo!Accepted, Fifo!Room, Fifo!Least
  <2>3. SubSeq(data, 1, 0) = <<>>
    BY SubSeqEmpty
  <2>4. Fifo!AfterWrite(Unread, data) = Unread
    BY <1>1, <2>2, <2>3, ConcatEmptySeq DEF Fifo!AfterWrite
  <2> QED
    BY <2>1, <2>2, <2>4 DEF Fifo!Write
<1>3. CASE ~(Len(data) = 0 \/ m_bFull)
  <2>1. PICK n \in Nat : WriteEffect(data, n)
    BY <1>3, WriteHasEffect
  <2>2. Fifo!Accepted(Unread, data) = n
    BY <1>1, <2>1, Ranges DEF WriteEffect, Fifo!Accepted, Fifo!Room, Fifo!Least
  <2>3. Unread' = Fifo!AfterWrite(Unread, data)
    BY <2>1, <2>2, WriteAppends DEF Fifo!AfterWrite
  <2> QED
    BY <2>1, <2>2, <2>3 DEF Fifo!Write, WriteEffect
<1> QED
  BY <1>2, <1>3

LEMMA ReadIsFifoRead ==
  ASSUME IInv, NEW count \in Nat, Read(count)
  PROVE  Fifo!Read(count)
<1>1. Unread \in Seq(T) /\ Len(Unread) = Size /\ Size \in 0 .. Capacity
  BY UnreadElements, SizeRange DEF UnreadOK
<1>2. CASE count = 0 \/ m_bEmpty
  <2>1. Refuse /\ Unread' = Unread /\ ret' = 0 /\ out' = <<>>
    BY <1>2, RefuseStep DEF Read, Refuse
  <2>2. Fifo!Taken(Unread, count) = 0
    BY <1>1, <1>2, SizeRange DEF Fifo!Taken, Fifo!Least
  <2>3. SubSeq(Unread, 1, 0) = <<>> /\ SubSeq(Unread, 0 + 1, Len(Unread)) = Unread
    BY <1>1, SubSeqEmpty, SubSeqFull
  <2> QED
    BY <2>1, <2>2, <2>3 DEF Fifo!Read, Fifo!AfterRead, Fifo!FirstOf
<1>3. CASE ~(count = 0 \/ m_bEmpty)
  <2>1. PICK n \in Nat : ReadEffect(count, n)
    BY <1>3, ReadHasEffect
  <2>2. Fifo!Taken(Unread, count) = n
    BY <1>1, <2>1 DEF ReadEffect, Fifo!Taken, Fifo!Least
  <2>3. out' = SubSeq(Unread, 1, n) /\ Unread' = SubSeq(Unread, n + 1, Len(Unread))
    BY <1>1, <2>1, ReadTakes
  <2> QED
    BY <2>1, <2>2, <2>3 DEF Fifo!Read, Fifo!AfterRead, Fifo!FirstOf, ReadEffect
<1> QED
  BY <1>2, <1>3

LEMMA EmptyIsFifoEmpty == m_bEmpty = TRUE => Unread = <<>>
<1> SUFFICES ASSUME m_bEmpty = TRUE PROVE Unread = <<>>
  OBVIOUS
<1>1. Size = 0
  BY DEF Size
<1>2. Unread = [i \in 1 .. 0 |-> m_pBuf[Around(m_nReadPos + i - 1)]]
  BY <1>1 DEF Unread
<1> QED
  BY <1>2

(* The ring implements the bounded queue, for every capacity, element type,  *)
(* buffer and count: nothing is lost, duplicated or reordered by write and   *)
(* read, and each returns the number of elements it moved.                   *)
THEOREM RingIsFifo == Spec => RefinesFifo
<1>1. Init => IInv /\ Fifo!Init
  <2> SUFFICES ASSUME Init PROVE IInv /\ Fifo!Init
    OBVIOUS
  <2>1. 0 \in Index /\ 0 \in 0 .. Capacity
    BY RingAssumption DEF Index
  <2>2. <<>> \in Seq(T)
    BY EmptySeq
  <2>3. Unread = <<>>
    BY EmptyIsFifoEmpty DEF Init
  <2> QED
    BY <2>1, <2>2, <2>3, Zenon DEF Init, IInv, TypeOK, PositionsAgree, Fifo!Init
<1>2. IInv /\ [Next]_vars => [Fifo!Next]_(Fifo!vars)
  <2> SUFFICES ASSUME IInv, [Next]_vars PROVE [Fifo!Next]_(Fifo!vars)
    OBVIOUS
  <2>1. ASSUME NEW data \in Inputs, Write(data) PROVE Fifo!Next
    BY <2>1, RingAssumption, WriteIsFifoWrite DEF Fifo!Next
  <2>2. ASSUME NEW n \in Counts, Read(n) PROVE Fifo!Next
    BY <2>2, RingAssumption, ReadIsFifoRead DEF Fifo!Next
  <2>3. CASE Clear
    <3>1. (m_bEmpty = TRUE)'
      BY <2>3 DEF Clear
    <3>2. (Unread = <<>>)'
      BY <3>1, EmptyIsFifoEmpty, PTL
    <3> QED
      BY <2>3, <3>2 DEF Clear, Fifo!Next, Fifo!Clear
  <2>4. CASE UNCHANGED vars
    BY <2>4, UnchangedInv DEF vars, Fifo!vars, IInv, TypeOK
  <2> QED
    BY <2>1, <2>2, <2>3, <2>4 DEF Next
<1> QED
  BY <1>1, <1>2, StepInv, PTL DEF Spec, RefinesFifo, Fifo!Spec
=============================================================================
