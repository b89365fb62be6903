---------------------------- MODULE FrameStream ----------------------------
(***************************************************************************)
(* What PacketSync promises its user: of a stream of bytes, however it is  *)
(* cut into pieces, exactly the well-formed frames, in order.  Where no    *)
(* frame can begin, one byte is skipped.                                   *)
(***************************************************************************)
EXTENDS Frames

CONSTANT Chunks  \* what one read from the socket may bring

VARIABLES pending,  \* bytes received and not yet decided upon
          frame     \* what the last step handed to the user

Init ==
  /\ pending = <<>>
  /\ frame = NoFrame

Receive(chunk) ==
  /\ pending' = pending \o chunk
  /\ frame' = NoFrame

Skip(n) ==
  /\ \A k \in 0 .. n - 1 : Hopeless(Drop(pending, k))
  /\ pending' = Drop(pending, n)
  /\ frame' = NoFrame

Deliver ==
  /\ Good(pending)
  /\ frame' = [header |-> HeaderOf(pending), data |-> DataOf(pending)]
  /\ pending' = Drop(pending, FrameLen(pending))

Next ==
  \/ \E chunk \in Chunks : Receive(chunk)
  \/ \E n \in 0 .. Len(pending) : Skip(n)
  \/ Deliver

Spec == Init /\ [][Next]_<<pending, frame>>
=============================================================================
