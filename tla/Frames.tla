------------------------------- MODULE Frames -------------------------------
(***************************************************************************)
(* The frames of packet_sync.h and net_base.h, as operators on sequences   *)
(* of bytes.  A frame is                                                   *)
(*                                                                         *)
(*     HEAD  header of HEADLEN bytes  data  TAIL                           *)
(*                                                                         *)
(* where the header tells the length of the data and a check value for it. *)
(***************************************************************************)
EXTENDS Integers, Sequences

CONSTANTS Byte,
          HEAD, TAIL,
          HEADLEN,         \* NET_PACKAGE_HEADLEN
          Legal(_),        \* the header repeats HEAD and TAIL, its length is not negative
          DataLen(_),      \* the length of the data it announces
          Intact(_, _)     \* its check value is that of the data

Headers == [1 .. HEADLEN -> Byte]

ASSUME FrameAssumption ==
  /\ HEAD \in Byte
  /\ TAIL \in Byte
  /\ HEADLEN \in Nat \ {0}
  /\ \A h \in Headers : Legal(h) => DataLen(h) \in Nat

NoFrame == [header |-> <<>>, data |-> <<>>]

Drop(s, n) == SubSeq(s, n + 1, Len(s))
HeaderOf(s) == SubSeq(s, 2, HEADLEN + 1)

(* The frame that s begins with: its length, its data, its last byte.        *)
FrameLen(s) == HEADLEN + DataLen(HeaderOf(s)) + 2
DataOf(s) == SubSeq(s, HEADLEN + 2, FrameLen(s) - 1)

Headed(s) == Len(s) > HEADLEN /\ s[1] = HEAD
Complete(s) == Headed(s) /\ Legal(HeaderOf(s)) /\ Len(s) >= FrameLen(s)
WellFormed(s) == s[FrameLen(s)] = TAIL /\ Intact(HeaderOf(s), DataOf(s))

Good(s) == Complete(s) /\ WellFormed(s)

(* Whatever follows, s does not begin with a frame.                          *)
Hopeless(s) ==
  /\ s # <<>>
  /\ \/ s[1] # HEAD
     \/ Headed(s) /\ ~Legal(HeaderOf(s))
     \/ Complete(s) /\ ~WellFormed(s)

(* A frame lies in s behind bytes at which none can begin.                   *)
HoldsFrame(s) ==
  \E n \in 0 .. Len(s) :
    /\ \A k \in 0 .. n - 1 : Hopeless(Drop(s, k))
    /\ Good(Drop(s, n))
=============================================================================
