------------------------ MODULE ClientSendProperties ------------------------
(***************************************************************************)
(* What the sending side of TCPClient promises its callers: properties of  *)
(* ClientSend over the histories of bytes accepted, written and lost.      *)
(***************************************************************************)
EXTENDS ClientSend, SequencesExt

(* Where an accepted byte can be, unless its write failed: on the wire, in   *)
(* one of the writes libuv owns, oldest first, or in the ring.               *)
Places == 0 .. Len(inflight) + 1
Place(i) ==
  IF i = 0 THEN wire
  ELSE IF i = Len(inflight) + 1 THEN ring
  ELSE buf[inflight[i]]

(* seq has a before b.                                                       *)
Before(seq, a, b) == \E i, j \in DOMAIN seq : i < j /\ seq[i] = a /\ seq[j] = b

(* Every byte taken from a caller is taken once and is in exactly one place  *)
(* unless it was lost; and through all the places the bytes are in the order *)
(* in which they were accepted: no param is used again while libuv owns it   *)
(* (tcpclient.cpp, _send, OnSend, _fetch_one_param, _recycle_one_param).     *)
Conservation ==
  /\ IsInjective(accepted)
  /\ UNION {Seen(Place(i)) : i \in Places} = Seen(accepted) \ lost
  /\ \A i, j \in Places :
       \A m \in DOMAIN Place(i), n \in DOMAIN Place(j) :
         i < j \/ (i = j /\ m < n) => Before(accepted, Place(i)[m], Place(j)[n])

(* The bytes of s's messages that Send has written.                          *)
Written(s, m) == IF m = Current(s) THEN iret[s] ELSE msgs[s][m]
WrittenBytes(s) == UNION {Seen(Message(s, m, Written(s, m))) : m \in DOMAIN msgs[s]}

(* A message enters the ring whole, in order and once, however often Send    *)
(* had to come back for the rest of it, and the messages of one thread in    *)
(* the order of its calls.  Only a Close cuts a message short.               *)
Precedes(a, b) == a.msg < b.msg \/ (a.msg = b.msg /\ a.at < b.at)
EachSenderInOrder ==
  \A s \in Senders :
    /\ \A i, j \in DOMAIN accepted :
         i < j /\ accepted[i].from = s /\ accepted[j].from = s =>
           Precedes(accepted[i], accepted[j])
    /\ is_user_closed \/ {b \in Seen(accepted) : b.from = s} = WrittenBytes(s)

(* The idle params and those in flight are different pieces of memory, and   *)
(* the idle ones are at most one more than MAXLISTSIZE: the list is only     *)
(* found too long once it is (_recycle_one_param).                           *)
ParamsOwned ==
  /\ IsInjective(avail_params \o inflight)
  /\ Len(avail_params) <= MAXLISTSIZE + 1

(* No frame is torn by another: between two bytes of a message there are     *)
(* only bytes of that message.  Send holds _mutex_writebuf for one write     *)
(* only, not for the message.                                                *)
FramesContiguous ==
  \A i, j, k \in DOMAIN accepted :
    LET of(n) == <<accepted[n].from, accepted[n].msg>>
    IN  i < j /\ j < k /\ of(i) = of(k) => of(j) = of(i)

-----------------------------------------------------------------------------
(* A sender on the loop thread waits for room that only it could make.       *)
LoopWaitsForItself == \E s \in LoopSenders : pc[s] = "writing" /\ Len(ring) = BUFFER_SIZE

(* Every call of Send returns, also on the loop thread, from Process: only   *)
(* that thread's waiting for itself can prevent it (tcpclient.cpp, the loop  *)
(* in Send).                                                                 *)
SendReturnsUnlessLoopWaits ==
  \A s \in Senders : pc[s] # "idle" ~> (pc[s] = "idle" \/ LoopWaitsForItself)

(* Once the user has called Close the loop thread ends (Close, AsyncCB,      *)
(* _close, _run), even if it is itself inside a Send.                        *)
CloseCompletes == is_user_closed ~> is_closed
=============================================================================
