------------------------------ MODULE FifoOps ------------------------------
(***************************************************************************)
(* The two operations of a bounded FIFO queue as operators on sequences.   *)
(***************************************************************************)
EXTENDS Naturals, Sequences

CONSTANT Capacity  \* m_nBufSize

Least(a, b) == IF a <= b THEN a ELSE b

Room(q) == Capacity - Len(q)

(* How many elements of data a write into q accepts, and the queue after it. *)
Accepted(q, data) == Least(Len(data), Room(q))
AfterWrite(q, data) == q \o SubSeq(data, 1, Accepted(q, data))

(* How many elements a read of up to n takes from q, which ones they are,    *)
(* and the queue after it.                                                   *)
Taken(q, n) == Least(n, Len(q))
FirstOf(q, n) == SubSeq(q, 1, Taken(q, n))
AfterRead(q, n) == SubSeq(q, Taken(q, n) + 1, Len(q))
=============================================================================
