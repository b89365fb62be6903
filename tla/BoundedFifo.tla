---------------------------- MODULE BoundedFifo ----------------------------
(***************************************************************************)
(* What pod_circularbuffer.h promises its callers: a queue of at most      *)
(* Capacity elements.  write appends as much of the data as fits and       *)
(* returns how much that was; read removes up to count elements from the   *)
(* front and hands them out in the order in which they were written.       *)
(* PodCircularBuffer is shown to implement this module, and ClientSend     *)
(* uses the operators of FifoOps in place of the ring.                     *)
(***************************************************************************)
EXTENDS FifoOps

CONSTANTS T,         \* the element type of the buffer
          Inputs,    \* the sequences a caller may pass to write
          Counts     \* the counts a caller may pass to read

VARIABLES queue,  \* the elements stored, oldest first
          ret,    \* the value returned by the last call
          out     \* the elements the last call copied to its caller

vars == <<queue, ret, out>>

Init ==
  /\ queue = <<>>
  /\ ret = 0
  /\ out = <<>>

Write(data) ==
  /\ queue' = AfterWrite(queue, data)
  /\ ret' = Accepted(queue, data)
  /\ out' = <<>>

Read(n) ==
  /\ queue' = AfterRead(queue, n)
  /\ ret' = Taken(queue, n)
  /\ out' = FirstOf(queue, n)

Clear ==
  /\ queue' = <<>>
  /\ ret' = 0
  /\ out' = <<>>

Next ==
  \/ \E data \in Inputs : Write(data)
  \/ \E n \in Counts : Read(n)
  \/ Clear

Spec == Init /\ [][Next]_vars
=============================================================================
