------------------------- MODULE PodCircularBuffer -------------------------
(***************************************************************************)
(* The ring of pod_circularbuffer.h: an array of m_nBufSize elements, a    *)
(* read and a write position, and two flags that tell the full ring from   *)
(* the empty one when the positions coincide.  Every member function of    *)
(* the class that changes state is an action.  The only user of the class, *)
(* TCPClient, calls it under _mutex_writebuf, so a call is one step.       *)
(***************************************************************************)
EXTENDS Integers, Sequences

CONSTANTS T,         \* the element type
          Capacity,  \* m_nBufSize
          Inputs,    \* the buffers passed to write (count is their length)
          Counts     \* the counts passed to read

ASSUME RingAssumption ==
  /\ Capacity \in Nat \ {0}
  /\ Inputs \subseteq Seq(T)
  /\ Counts \subseteq Nat

VARIABLES m_pBuf, m_nReadPos, m_nWritePos, m_bEmpty, m_bFull,
          ret,  \* the return value of the last call
          out   \* what the last read copied into its caller's buffer

pos == <<m_nReadPos, m_nWritePos>>
flags == <<m_bEmpty, m_bFull>>
vars == <<m_pBuf, pos, flags, ret, out>>

Index == 0 .. Capacity - 1

(* new T[n] leaves the array uninitialised: any contents are possible.       *)
Init ==
  /\ m_pBuf \in [Index -> T]
  /\ m_nReadPos = 0
  /\ m_nWritePos = 0
  /\ m_bEmpty = TRUE
  /\ m_bFull = FALSE
  /\ ret = 0
  /\ out = <<>>

-----------------------------------------------------------------------------
(* size()                                                                    *)
Size ==
  IF m_bEmpty THEN 0
  ELSE IF m_bFull THEN Capacity
  ELSE IF m_nReadPos < m_nWritePos THEN m_nWritePos - m_nReadPos
  ELSE Capacity - m_nReadPos + m_nWritePos

(* memcpy(&ring[at], &src[from], n): the ring with n elements replaced.      *)
CopyIn(ring, at, src, from, n) ==
  [i \in Index |-> IF at <= i /\ i < at + n THEN src[from + i - at + 1] ELSE ring[i]]

(* memcpy(dst, &m_pBuf[at], n): the elements copied out.                     *)
CopyOut(at, n) == [i \in 1 .. n |-> m_pBuf[at + i - 1]]

(* Where a copy that runs to the end of the array stops after it started     *)
(* again at the front: "over" elements are left, "limit" is the other        *)
(* position, "stay" the value the code keeps when the ring becomes full      *)
(* (write) or empty (read).                                                  *)
StopWhenEqual(limit, over, stay) == IF limit > over THEN over ELSE stay
StopWhenApartMut(limit, over) == over
StopWhenApart(limit, over) == IF limit >= over THEN over ELSE limit

(* Copy n elements in at the write position without wrapping.                *)
PutStraight(data, n) ==
  /\ m_pBuf' = CopyIn(m_pBuf, m_nWritePos, data, 0, n)
  /\ m_nWritePos' = m_nWritePos + n
  /\ ret' = n

(* Fill the array to its end, then put "back" elements at its front.         *)
PutWrapped(data, left, back) ==
  /\ m_pBuf' = CopyIn(CopyIn(m_pBuf, m_nWritePos, data, 0, left), 0, data, left, back)
  /\ m_nWritePos' = back
  /\ m_bFull' = (back = m_nReadPos)
  /\ ret' = left + back

GetStraight(n) ==
  /\ out' = CopyOut(m_nReadPos, n)
  /\ m_nReadPos' = m_nReadPos + n
  /\ m_bEmpty' = (m_nReadPos + n = m_nWritePos)
  /\ ret' = n

GetWrapped(left, back) ==
  /\ out' = CopyOut(m_nReadPos, left) \o CopyOut(0, back)
  /\ m_nReadPos' = back
  /\ m_bEmpty' = (back = m_nWritePos)
  /\ ret' = left + back

-----------------------------------------------------------------------------
(* A call that finds nothing to do: count <= 0, a write into a full ring, a  *)
(* read from an empty one.                                                   *)
Refuse ==
  /\ ret' = 0
  /\ out' = <<>>
  /\ UNCHANGED <<m_pBuf, pos, flags>>

(* write() when the positions coincide and the ring is not full              *)
WriteToEmpty(data, left) ==
  /\ m_nReadPos = m_nWritePos
  /\ \/ /\ left > Len(data)
        /\ PutStraight(data, Len(data))
        /\ UNCHANGED m_bFull
     \/ /\ left <= Len(data)
        /\ PutWrapped(data, left,
                      StopWhenEqual(m_nReadPos, Len(data) - left, m_nWritePos))

(* write() when the data lies between the read and the write position        *)
WriteBehindReader(data, left) ==
  /\ m_nReadPos < m_nWritePos
  /\ \/ /\ left > Len(data)
        /\ PutStraight(data, Len(data))
        /\ m_bFull' = (m_nReadPos = m_nWritePos + Len(data))
     \/ /\ left <= Len(data)
        /\ PutWrapped(data, left, StopWhenApart(m_nReadPos, Len(data) - left))

(* write() when the free space lies between the two: what does not fit is    *)
(* discarded.                                                                *)
WriteIntoGapMut(data, left) ==
  /\ m_nReadPos > m_nWritePos
  /\ PutStraight(data, IF left > Len(data) THEN Len(data) ELSE left)
  /\ UNCHANGED m_bFull
WriteIntoGap(data, left) ==
  /\ m_nReadPos > m_nWritePos
  /\ PutStraight(data, IF left > Len(data) THEN Len(data) ELSE left)
  /\ m_bFull' = (m_nReadPos = m_nWritePos')

Write(data) ==
  \/ (Len(data) = 0 \/ m_bFull) /\ Refuse
  \/ /\ Len(data) > 0
     /\ ~m_bFull
     /\ m_bEmpty' = FALSE
     /\ out' = <<>>
     /\ UNCHANGED m_nReadPos
     /\ \/ WriteToEmpty(data, Capacity - m_nWritePos)
        \/ WriteBehindReader(data, Capacity - m_nWritePos)
        \/ WriteIntoGap(data, m_nReadPos - m_nWritePos)

-----------------------------------------------------------------------------
(* read() when the positions coincide and the ring is not empty              *)
ReadFromFull(n, left) ==
  /\ m_nReadPos = m_nWritePos
  /\ \/ left > n /\ GetStraight(n)
     \/ /\ left <= n
        /\ GetWrapped(left, StopWhenEqual(m_nWritePos, n - left, m_nWritePos))

(* read() when the unread data is contiguous                                 *)
ReadContiguous(n, left) ==
  /\ m_nReadPos < m_nWritePos
  /\ GetStraight(IF left > n THEN n ELSE left)

(* read() when the unread data may wrap around                               *)
ReadAround(n, left) ==
  /\ m_nReadPos > m_nWritePos
  /\ \/ left > n /\ GetStraight(n)
     \/ left <= n /\ GetWrapped(left, StopWhenApart(m_nWritePos, n - left))

Read(n) ==
  \/ (n = 0 \/ m_bEmpty) /\ Refuse
  \/ /\ n > 0
     /\ ~m_bEmpty
     /\ m_bFull' = FALSE
     /\ UNCHANGED <<m_pBuf, m_nWritePos>>
     /\ \/ ReadFromFull(n, Capacity - m_nReadPos)
        \/ ReadContiguous(n, m_nWritePos - m_nReadPos)
        \/ ReadAround(n, Capacity - m_nReadPos)

Clear ==
  /\ m_nReadPos' = 0
  /\ m_nWritePos' = 0
  /\ m_bEmpty' = TRUE
  /\ m_bFull' = FALSE
  /\ ret' = 0
  /\ out' = <<>>
  /\ UNCHANGED m_pBuf

Next ==
  \/ \E data \in Inputs : Write(data)
  \/ \E n \in Counts : Read(n)
  \/ Clear

Spec == Init /\ [][Next]_vars

-----------------------------------------------------------------------------
(* Types of the members; the positions as the asserts of the class bound     *)
(* them.                                                                     *)
TypeOK ==
  /\ m_pBuf \in [Index -> T]
  /\ m_nReadPos \in 0 .. Capacity
  /\ m_nWritePos \in 0 .. Capacity
  /\ m_bEmpty \in BOOLEAN
  /\ m_bFull \in BOOLEAN
  /\ ret \in 0 .. Capacity
  /\ out \in Seq(T)

(* The positions stay inside the array -- the code only asserts <=, one more *)
(* than an index may be -- and coincide exactly when one of the flags is     *)
(* set, never both: what lets every branch of read and write tell full from  *)
(* empty.                                                                    *)
PositionsAgree ==
  /\ m_nReadPos \in Index
  /\ m_nWritePos \in Index
  /\ ~(m_bEmpty /\ m_bFull)
  /\ (m_nReadPos = m_nWritePos) <=> (m_bEmpty \/ m_bFull)

(* The queue a ring stands for: its Size unread elements from the read       *)
(* position on, going back to the front of the array at its end.             *)
Around(i) == IF i >= Capacity THEN i - Capacity ELSE i
Unread == [i \in 1 .. Size |-> m_pBuf[Around(m_nReadPos + i - 1)]]

Fifo == INSTANCE BoundedFifo WITH queue <- Unread

(* The ring is a bounded FIFO queue: no call loses, duplicates or reorders   *)
(* an element, whatever the positions and however the copies wrap, and each  *)
(* returns the count it really moved (pod_circularbuffer.h, write and read). *)
RefinesFifo == Fifo!Spec
=============================================================================
