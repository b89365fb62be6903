------------------------ MODULE MCPodCircularBuffer ------------------------
(* A ring of Capacity elements and every buffer of up to MaxInput of them.   *)
EXTENDS PodCircularBuffer, SequencesExt

CONSTANT MaxInput

MCInputs == BoundedSeq(T, MaxInput)
MCCounts == 0 .. MaxInput
=============================================================================
