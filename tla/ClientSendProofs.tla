-------------------------- MODULE ClientSendProofs --------------------------
(***************************************************************************)
(* The sending side of TCPClient for any number of senders, inside the     *)
(* loop thread or outside it, and any sizes.                               *)
(*                                                                         *)
(* First that no wake-up is lost, provided that every message fits into    *)
(* the ring: whoever writes into an empty ring writes all that was left of *)
(* its message, hence is about to signal.                                  *)
(*                                                                         *)
(* Then that no byte is lost, doubled or overtaken, whatever the lengths   *)
(* of the messages.  The places a byte can be in are a row -- the wire,    *)
(* the writes in flight, the ring -- and each step moves bytes between     *)
(* neighbours without changing their order (PlacesGrow, PlacesSplit,       *)
(* PlacesRefuse, PlacesDeliver, PlacesFail).                               *)
(***************************************************************************)
EXTENDS ClientSendProperties, SequenceTheorems, TLAPS

(* The callers' side of the bargain.                                         *)
MessagesFit == \A len \in MsgLens : len <= BUFFER_SIZE

(* What the argument needs to know of the state besides the invariant        *)
(* itself: a sender in its loop has something left to write.                 *)
RingOK ==
  /\ ring \in Seq(Byte)
  /\ Len(ring) <= BUFFER_SIZE

SendersOK ==
  /\ pc \in [Senders -> {"idle", "writing", "signal"}]
  /\ iret \in [Senders -> Nat]
  /\ msgs \in [Senders -> Seq(MsgLens)]
  /\ \A s \in Senders : pc[s] = "writing" => msgs[s] # <<>> /\ iret[s] < Length(s)

IInv == RingOK /\ SendersOK /\ NoLostWakeup

-----------------------------------------------------------------------------
(* The queue operations keep the ring within its size, and a write into the  *)
(* empty ring is complete if the ring is large enough.                       *)
LEMMA WriteQueue ==
  ASSUME NEW S, NEW q \in Seq(S), Len(q) <= BUFFER_SIZE, NEW data \in Seq(S)
  PROVE  /\ Fifo!Accepted(q, data) \in 0 .. Len(data)
         /\ q = <<>> /\ Len(data) <= BUFFER_SIZE => Fifo!Accepted(q, data) = Len(data)
         /\ Fifo!AfterWrite(q, data) \in Seq(S)
         /\ Len(Fifo!AfterWrite(q, data)) <= BUFFER_SIZE
<1> DEFINE n == Fifo!Accepted(q, data)
<1>0. Len(q) \in Nat /\ Len(data) \in Nat /\ BUFFER_SIZE \in Nat
  BY LenProperties, SendAssumption
<1>1. n \in 0 .. Len(data) /\ n <= BUFFER_SIZE - Len(q)
  BY <1>0 DEF Fifo!Accepted, Fifo!Room, Fifo!Least
<1>2. ASSUME q = <<>>, Len(data) <= BUFFER_SIZE
      PROVE  n = Len(data)
  <2>1. Len(q) = 0
    BY <1>2, EmptySeq
  <2> QED
    BY <1>0, <1>2, <2>1 DEF Fifo!Accepted, Fifo!Room, Fifo!Least
<1> HIDE DEF n
<1>3. \A i \in 1 .. n : data[i] \in S
  BY <1>0, <1>1, ElementOfSeq
<1>4. SubSeq(data, 1, n) \in Seq(S) /\ Len(SubSeq(data, 1, n)) = IF 1 <= n THEN n - 1 + 1 ELSE 0
  BY <1>1, <1>3, SubSeqProperties
<1>5. Len(SubSeq(data, 1, n)) = n
  BY <1>0, <1>1, <1>4
<1>6. q \o SubSeq(data, 1, n) \in Seq(S) /\ Len(q \o SubSeq(data, 1, n)) = Len(q) + n
  BY <1>4, <1>5, ConcatProperties
<1>7. Len(q) + n <= BUFFER_SIZE
  BY <1>0, <1>1
<1> QED
  BY <1>1, <1>2, <1>6, <1>7 DEF Fifo!AfterWrite, n

LEMMA ReadQueue ==
  ASSUME NEW S, NEW q \in Seq(S), Len(q) <= BUFFER_SIZE, NEW k \in Nat
  PROVE  /\ Fifo!AfterRead(q, k) \in Seq(S)
         /\ Len(Fifo!AfterRead(q, k)) <= BUFFER_SIZE
<1> DEFINE n == Fifo!Taken(q, k)
<1>0. Len(q) \in Nat /\ BUFFER_SIZE \in Nat
  BY LenProperties, SendAssumption
<1>1. n \in 0 .. Len(q)
  BY <1>0 DEF Fifo!Taken, Fifo!Least
<1> HIDE DEF n
<1>2. \A i \in n + 1 .. Len(q) : q[i] \in S
  BY <1>0, <1>1, ElementOfSeq
<1>3. /\ SubSeq(q, n + 1, Len(q)) \in Seq(S)
      /\ Len(SubSeq(q, n + 1, Len(q))) = IF n + 1 <= Len(q) THEN Len(q) - (n + 1) + 1 ELSE 0
  BY <1>0, <1>1, <1>2, SubSeqProperties
<1>4. Len(SubSeq(q, n + 1, Len(q))) <= BUFFER_SIZE
  BY <1>0, <1>1, <1>3
<1> QED
  BY <1>3, <1>4 DEF Fifo!AfterRead, n

(* What a sender in its loop has left to write.                              *)
LEMMA RestOfMessage ==
  ASSUME SendersOK, NEW s \in Senders, pc[s] = "writing"
  PROVE  /\ Length(s) \in MsgLens /\ Length(s) \in Nat
         /\ iret[s] \in Nat /\ iret[s] < Length(s)
         /\ Rest(s) \in Seq(Byte)
         /\ Len(Rest(s)) = Length(s) - iret[s]
<1> DEFINE c == Current(s)
           msg == Message(s, c, Length(s))
<1>1. msgs[s] \in Seq(MsgLens) /\ msgs[s] # <<>>
  BY DEF SendersOK
<1>2. c \in 1 .. Len(msgs[s])
  BY <1>1, EmptySeq DEF Current
<1>3. Length(s) \in MsgLens
  BY <1>1, <1>2, ElementOfSeq DEF Length
<1>4. Length(s) \in Nat /\ iret[s] \in Nat /\ iret[s] < Length(s)
  BY <1>3, SendAssumption DEF SendersOK
<1>5. c \in Nat \ {0}
  BY <1>1, <1>2, LenProperties, SendAssumption
<1> HIDE DEF c
<1>6. \A k \in iret[s] + 1 .. Length(s) : msg[k] \in Byte
  BY <1>4, <1>5 DEF Message, Byte
<1> HIDE DEF msg
<1>7. /\ SubSeq(msg, iret[s] + 1, Length(s)) \in Seq(Byte)
      /\ Len(SubSeq(msg, iret[s] + 1, Length(s))) =
           IF iret[s] + 1 <= Length(s) THEN Length(s) - (iret[s] + 1) + 1 ELSE 0
  BY <1>4, <1>6, SubSeqProperties
<1>8. Len(SubSeq(msg, iret[s] + 1, Length(s))) = Length(s) - iret[s]
  BY <1>4, <1>7
<1> QED
  BY <1>3, <1>4, <1>7, <1>8 DEF Rest, msg, c

-----------------------------------------------------------------------------
(* Steps that leave the ring and the senders alone keep what is known of     *)
(* them.                                                                     *)
LEMMA Aside ==
  ASSUME RingOK, SendersOK, UNCHANGED <<ring, userVars>>
  PROVE  RingOK' /\ SendersOK'
BY DEF RingOK, SendersOK, userVars, Length, Current

LEMMA SendStep ==
  ASSUME IInv, NEW s \in Senders, NEW len \in MsgLens, Send(s, len)
  PROVE  IInv'
<1>1. async_pending' /\ ring' = ring
  BY DEF Send
<1>2. SendersOK'
  <2>1. /\ msgs[s] \in Seq(MsgLens) /\ Len(msgs[s]) \in Nat
        /\ msgs' = [msgs EXCEPT ![s] = Append(msgs[s], len)]
        /\ iret' = [iret EXCEPT ![s] = 0]
        /\ pc' = [pc EXCEPT ![s] = "writing"]
    BY LenProperties DEF Send, IInv, SendersOK
  <2>2. /\ Append(msgs[s], len) \in Seq(MsgLens)
        /\ Len(Append(msgs[s], len)) = Len(msgs[s]) + 1
        /\ Append(msgs[s], len)[Len(msgs[s]) + 1] = len
        /\ Append(msgs[s], len) # <<>>
    BY <2>1, AppendProperties
  <2>3. /\ pc' \in [Senders -> {"idle", "writing", "signal"}]
        /\ iret' \in [Senders -> Nat]
        /\ msgs' \in [Senders -> Seq(MsgLens)]
    BY <2>1, <2>2 DEF IInv, SendersOK
  <2>4. ASSUME NEW t \in Senders, pc'[t] = "writing"
        PROVE  msgs'[t] # <<>> /\ iret'[t] < Length(t)'
    <3>1. CASE t = s
      <4>1. msgs'[s] = Append(msgs[s], len) /\ iret'[s] = 0
        BY <2>1 DEF IInv, SendersOK
      <4>2. Length(s)' = len
        BY <2>2, <4>1 DEF Length, Current
      <4>3. len > 0
        BY SendAssumption
      <4> QED
        BY <2>2, <3>1, <4>1, <4>2, <4>3
    <3>2. CASE t # s
      BY <2>1, <2>4, <3>2 DEF IInv, SendersOK, Length, Current
    <3> QED
      BY <3>1, <3>2
  <2> QED
    BY <2>3, <2>4 DEF SendersOK
<1> QED
  BY <1>1, <1>2 DEF IInv, RingOK, NoLostWakeup

(* The step the invariant turns on.                                          *)
LEMMA WriteRingStep ==
  ASSUME MessagesFit, IInv, NEW s \in Senders, WriteRing(s)
  PROVE  IInv'
<1> DEFINE n == Fifo!Accepted(ring, Rest(s))
<1>1. /\ pc[s] = "writing"
      /\ ring' = Fifo!AfterWrite(ring, Rest(s))
      /\ iret' = [iret EXCEPT ![s] = iret[s] + n]
      /\ pc' = [pc EXCEPT ![s] = IF iret'[s] < Length(s) THEN "writing" ELSE "signal"]
      /\ msgs' = msgs
      /\ UNCHANGED <<async_pending, doing, is_user_closed>>
  BY DEF WriteRing, loopVars, closeVars
<1>2. /\ Length(s) \in MsgLens /\ Length(s) \in Nat
      /\ iret[s] \in Nat /\ iret[s] < Length(s)
      /\ Rest(s) \in Seq(Byte) /\ Len(Rest(s)) = Length(s) - iret[s]
  BY <1>1, RestOfMessage DEF IInv
<1>3. /\ n \in 0 .. Len(Rest(s))
      /\ ring = <<>> /\ Len(Rest(s)) <= BUFFER_SIZE => n = Len(Rest(s))
      /\ RingOK'
  BY <1>1, <1>2, WriteQueue DEF IInv, RingOK
<1> HIDE DEF n
<1>4. iret'[s] = iret[s] + n /\ iret'[s] \in Nat
  BY <1>1, <1>2, <1>3 DEF IInv, SendersOK
<1>5. SendersOK'
  <2>1. /\ pc' \in [Senders -> {"idle", "writing", "signal"}]
        /\ iret' \in [Senders -> Nat]
    BY <1>1, <1>4 DEF IInv, SendersOK
  <2>2. ASSUME NEW t \in Senders, pc'[t] = "writing"
        PROVE  msgs'[t] # <<>> /\ iret'[t] < Length(t)'
    <3>1. Length(t)' = Length(t)
      BY <1>1 DEF Length, Current
    <3>2. CASE t = s
      BY <1>1, <2>2, <3>1, <3>2 DEF IInv, SendersOK
    <3>3. CASE t # s
      BY <1>1, <2>2, <3>1, <3>3 DEF IInv, SendersOK
    <3> QED
      BY <3>2, <3>3
  <2> QED
    BY <1>1, <2>1, <2>2 DEF IInv, SendersOK
<1>6. NoLostWakeup'
  <2>1. CASE ring = <<>>
    <3>1. Len(Rest(s)) <= BUFFER_SIZE
      BY <1>2, SendAssumption DEF MessagesFit
    <3>2. iret'[s] = Length(s)
      BY <1>2, <1>3, <1>4, <2>1, <3>1
    <3>3. pc'[s] = "signal"
      BY <1>1, <1>2, <3>2 DEF IInv, SendersOK
    <3> QED
      BY <3>3 DEF NoLostWakeup
  <2>2. CASE ring # <<>>
    <3>1. ASSUME NEW t \in Senders, pc[t] = "signal"
          PROVE  pc'[t] = "signal"
      BY <1>1, <3>1 DEF IInv, SendersOK
    <3> QED
      BY <1>1, <2>2, <3>1 DEF IInv, NoLostWakeup, Draining, BackFrom
  <2> QED
    BY <2>1, <2>2
<1> QED
  BY <1>3, <1>5, <1>6 DEF IInv

LEMMA LeaveSendStep ==
  ASSUME IInv, NEW s \in Senders, GiveUp(s) \/ Signal(s)
  PROVE  IInv'
<1>1. /\ ring' = ring /\ iret' = iret /\ msgs' = msgs /\ doing' = doing
      /\ is_user_closed' = is_user_closed
      /\ \/ pc' = [pc EXCEPT ![s] = "signal"] /\ is_user_closed /\ async_pending' = async_pending
         \/ pc' = [pc EXCEPT ![s] = "idle"] /\ async_pending'
  BY DEF GiveUp, Signal, loopVars, closeVars
<1>2. SendersOK'
  <2>1. pc' \in [Senders -> {"idle", "writing", "signal"}]
    BY <1>1 DEF IInv, SendersOK
  <2>2. ASSUME NEW t \in Senders, pc'[t] = "writing"
        PROVE  pc[t] = "writing" /\ Length(t)' = Length(t)
    BY <1>1, <2>2 DEF IInv, SendersOK, Length, Current
  <2> QED
    BY <1>1, <2>1, <2>2 DEF IInv, SendersOK
<1>3. NoLostWakeup'
  BY <1>1 DEF NoLostWakeup
<1> QED
  BY <1>1, <1>2, <1>3 DEF IInv, RingOK

LEMMA CloseStep ==
  ASSUME IInv, Close \/ CloseSignal
  PROVE  IInv'
<1>1. /\ UNCHANGED <<ring, userVars>>
      /\ is_user_closed' \/ async_pending'
  BY DEF Close, CloseSignal
<1> QED
  BY <1>1, Aside DEF IInv, NoLostWakeup

LEMMA SendOneStep ==
  ASSUME IInv, SendOne
  PROVE  IInv'
<1>1. /\ doing' = doing /\ doing \in DOMAIN BackFrom
      /\ ring' = Fifo!AfterRead(ring, BUFFER_SIZE) /\ UNCHANGED userVars
  BY DEF SendOne, Draining
<1>2. RingOK'
  BY <1>1, ReadQueue, SendAssumption DEF IInv, RingOK
<1>3. SendersOK'
  BY <1>1 DEF IInv, SendersOK, userVars, Length, Current
<1>4. NoLostWakeup'
  BY <1>1 DEF NoLostWakeup, Draining, BackFrom
<1> QED
  BY <1>2, <1>3, <1>4 DEF IInv

(* The other steps of the loop thread: it starts draining whenever it takes  *)
(* a signal, and stops only on an empty ring.                                *)
LEMMA LoopStep ==
  ASSUME IInv, SendDone \/ AsyncCB \/ OnSend \/ OnSendError \/ OnRecv \/ Processed \/ RunEnds
  PROVE  IInv'
<1>1. UNCHANGED <<ring, userVars>> /\ pc' = pc /\ is_user_closed' = is_user_closed
  BY DEF SendDone, AsyncCB, OnSend, OnSendError, OnRecv, Processed, RunEnds, userVars, closeVars
<1>2. RingOK' /\ SendersOK'
  BY <1>1, Aside DEF IInv
<1> SUFFICES NoLostWakeup'
  BY <1>2 DEF IInv
<1>3. CASE SendDone
  BY <1>1, <1>3 DEF SendDone, NoLostWakeup
<1>4. CASE AsyncCB
  <2>1. is_user_closed \/ doing' = "drain"
    BY <1>4 DEF AsyncCB
  <2>2. "drain" \in DOMAIN BackFrom
    BY DEF BackFrom
  <2> QED
    BY <1>1, <2>1, <2>2 DEF NoLostWakeup, Draining, BackFrom
<1>5. CASE OnSend \/ OnSendError \/ OnRecv \/ Processed \/ RunEnds
  <2>1. async_pending' = async_pending /\ doing \notin DOMAIN BackFrom
    BY <1>5 DEF OnSend, OnSendError, OnRecv, Processed, RunEnds, BackFrom
  <2> QED
    BY <1>1, <2>1 DEF IInv, NoLostWakeup, Draining
<1> QED
  BY <1>3, <1>4, <1>5

(* While a message may have to wait for room in the ring, the ring is never  *)
(* left with data and nobody to empty it: Send (tcpclient.cpp) signals only  *)
(* before its loop and after it, and that is enough for messages that fit.   *)
THEOREM SendWakesLoop == MessagesFit /\ Spec => []NoLostWakeup
<1> SUFFICES ASSUME MessagesFit PROVE Spec => []NoLostWakeup
  OBVIOUS
<1>1. Init => IInv
  <2> SUFFICES ASSUME Init PROVE IInv
    OBVIOUS
  <2>1. <<>> \in Seq(Byte) /\ Len(<<>>) = 0 /\ <<>> \in Seq(MsgLens)
    BY EmptySeq
  <2>2. RingOK
    BY <2>1, SendAssumption DEF Init, RingOK
  <2>3. SendersOK
    BY <2>1, SendAssumption DEF Init, SendersOK
  <2> QED
    BY <2>2, <2>3 DEF Init, IInv, NoLostWakeup
<1>2. IInv /\ [Next]_vars => IInv'
  <2> SUFFICES ASSUME IInv, [Next]_vars PROVE IInv'
    OBVIOUS
  <2>1. ASSUME NEW s \in Senders, NEW len \in MsgLens, Send(s, len) PROVE IInv'
    BY <2>1, SendStep
  <2>2. ASSUME NEW s \in Senders, WriteRing(s) PROVE IInv'
    BY <2>2, WriteRingStep
  <2>3. ASSUME NEW s \in Senders, GiveUp(s) \/ Signal(s) PROVE IInv'
    BY <2>3, LeaveSendStep
  <2>4. CASE Close \/ CloseSignal
    BY <2>4, CloseStep
  <2>5. CASE Loop
    BY <2>5, SendOneStep, LoopStep DEF Loop
  <2>6. CASE UNCHANGED vars
    <3>1. UNCHANGED <<ring, userVars, async_pending, doing, pc, is_user_closed>>
      BY <2>6 DEF vars, loopVars, userVars, closeVars
    <3> QED
      BY <3>1, Aside DEF IInv, NoLostWakeup, Draining, BackFrom
  <2> QED
    BY <2>1, <2>2, <2>3, <2>4, <2>5, <2>6 DEF Next
<1> QED
  BY <1>1, <1>2, PTL DEF Spec, IInv

-----------------------------------------------------------------------------
(* The rest of this module follows the bytes and the params, with or without *)
(* messages that fit, provided that memory for a param can be had.           *)
MemoryLeft == avail_params = <<>> => \E p \in Params : p \notin Seen(inflight)

(* Each param has one owner.                                                 *)
Apart(idle, busy) ==
  /\ \A i, j \in DOMAIN idle : idle[i] = idle[j] => i = j
  /\ \A i, j \in DOMAIN busy : busy[i] = busy[j] => i = j
  /\ \A i \in DOMAIN idle, j \in DOMAIN busy : idle[i] # busy[j]

Owned == Apart(avail_params, inflight) /\ Len(avail_params) <= MAXLISTSIZE + 1

(* A sender outside its loop has written its message, unless it gave up.     *)
Whole ==
  \A s \in Senders :
    IF msgs[s] = <<>>
    THEN iret[s] = 0 /\ pc[s] # "writing"
    ELSE /\ iret[s] <= Length(s)
         /\ pc[s] = "writing" => iret[s] < Length(s)
         /\ pc[s] # "writing" => is_user_closed \/ iret[s] = Length(s)

(* The bytes of s taken so far are before those s has still to write.        *)
TakenBefore(b) ==
  LET s == b.from
  IN  b.msg <= Current(s) /\ (b.msg = Current(s) => b.at <= iret[s])

Taken == \A i \in DOMAIN accepted : TakenBefore(accepted[i])

(* The places as a function, and the three parts of Conservation that each   *)
(* step keeps, of the bytes acc and the lost ones of them, gone.             *)
Stages == [i \in Places |-> Place(i)]

OrderedIn(P, acc) ==
  \A i, j \in DOMAIN P :
    \A m \in DOMAIN P[i], n \in DOMAIN P[j] :
      i < j \/ (i = j /\ m < n) => Before(acc, P[i][m], P[j][n])

KnownIn(P, acc, gone) ==
  /\ gone \subseteq Seen(acc)
  /\ \A i \in DOMAIN P : \A m \in DOMAIN P[i] : P[i][m] \in Seen(acc) \ gone

KeptIn(P, acc, gone) ==
  \A b \in Seen(acc) \ gone : \E i \in DOMAIN P : \E m \in DOMAIN P[i] : P[i][m] = b

Sound(P, acc, gone) == OrderedIn(P, acc) /\ KnownIn(P, acc, gone) /\ KeptIn(P, acc, gone)

BytesInv ==
  TypeOK /\ Owned /\ Whole /\ Taken /\ EachSenderInOrder /\ Sound(Stages, accepted, lost)

-----------------------------------------------------------------------------
(* The params.                                                               *)
LEMMA ApartTogether ==
  ASSUME NEW idle \in Seq(Params), NEW busy \in Seq(Params), Apart(idle, busy)
  PROVE  IsInjective(idle \o busy)
<1>1. /\ Len(idle \o busy) = Len(idle) + Len(busy) /\ DOMAIN (idle \o busy) = 1 .. Len(idle \o busy)
      /\ \A i \in 1 .. Len(idle) : (idle \o busy)[i] = idle[i]
      /\ \A i \in Len(idle) + 1 .. Len(idle) + Len(busy) :
           (idle \o busy)[i] = busy[i - Len(idle)] /\ i - Len(idle) \in 1 .. Len(busy)
  OBVIOUS
<1>2. ASSUME NEW i \in DOMAIN (idle \o busy), NEW j \in DOMAIN (idle \o busy),
             (idle \o busy)[i] = (idle \o busy)[j]
      PROVE  i = j
  <2>1. CASE i <= Len(idle) /\ j <= Len(idle)
    BY <1>1, <1>2, <2>1 DEF Apart
  <2>2. CASE i <= Len(idle) /\ ~(j <= Len(idle))
    BY <1>1, <1>2, <2>2 DEF Apart
  <2>3. CASE ~(i <= Len(idle)) /\ j <= Len(idle)
    BY <1>1, <1>2, <2>3 DEF Apart
  <2>4. CASE ~(i <= Len(idle)) /\ ~(j <= Len(idle))
    <3>1. i - Len(idle) = j - Len(idle)
      BY <1>1, <1>2, <2>4 DEF Apart
    <3> QED
      BY <1>1, <1>2, <3>1
  <2> QED
    BY <2>1, <2>2, <2>3, <2>4
<1> QED
  BY <1>2 DEF IsInjective

(* A fetched param has no owner.                                             *)
LEMMA Fetching ==
  ASSUME TypeOK, Owned, MemoryLeft
  PROVE  /\ FetchedParam \in Params
         /\ AfterFetch \in Seq(Params) /\ Len(AfterFetch) <= MAXLISTSIZE
         /\ Apart(AfterFetch, inflight)
         /\ FetchedParam \notin Seen(AfterFetch)
         /\ FetchedParam \notin Seen(inflight)
<1>0. avail_params \in Seq(Params) /\ inflight \in Seq(Params) /\ MAXLISTSIZE \in Nat
  BY SendAssumption DEF TypeOK
<1>1. CASE avail_params = <<>>
  <2>1. FetchedParam = FreshParam /\ AfterFetch = <<>>
    BY <1>1 DEF FetchedParam, AfterFetch
  <2>2. \E p \in Params : p \notin Seen(avail_params) \cup Seen(inflight)
    <3>1. Seen(avail_params) = {}
      BY <1>1 DEF Seen
    <3> QED
      BY <1>1, <3>1 DEF MemoryLeft
  <2>3. FreshParam \in Params /\ FreshParam \notin Seen(inflight)
    BY <2>2, Zenon DEF FreshParam
  <2>4. Apart(<<>>, inflight) /\ Seen(<<>>) = {}
    BY DEF Apart, Owned, Seen
  <2>5. <<>> \in Seq(Params) /\ Len(<<>>) = 0
    OBVIOUS
  <2>6. FetchedParam \notin Seen(AfterFetch) /\ Len(AfterFetch) <= MAXLISTSIZE
    BY <1>0, <2>1, <2>4, <2>5
  <2> QED
    BY <2>1, <2>3, <2>4, <2>5, <2>6
<1>2. CASE avail_params # <<>>
  <2>1. FetchedParam = avail_params[1] /\ AfterFetch = Tail(avail_params)
    BY <1>0, <1>2 DEF FetchedParam, AfterFetch
  <2>2. /\ Len(avail_params) >= 1 /\ 1 \in DOMAIN avail_params /\ avail_params[1] \in Params
        /\ Tail(avail_params) \in Seq(Params)
        /\ Len(Tail(avail_params)) = Len(avail_params) - 1
        /\ \A i \in DOMAIN Tail(avail_params) :
             i + 1 \in DOMAIN avail_params /\ i + 1 # 1
             /\ Tail(avail_params)[i] = avail_params[i + 1]
    BY <1>0, <1>2
  <2>3. Apart(Tail(avail_params), inflight)
    BY <1>0, <2>2 DEF Owned, Apart
  <2>4. \A i \in DOMAIN Tail(avail_params) : Tail(avail_params)[i] # avail_params[1]
    BY <2>2 DEF Owned, Apart
  <2>5. \A j \in DOMAIN inflight : inflight[j] # avail_params[1]
    BY <2>2 DEF Owned, Apart
  <2> QED
    BY <1>0, <2>1, <2>2, <2>3, <2>4, <2>5 DEF Owned, Seen
<1> QED
  BY <1>1, <1>2

(* Recycling a param that has no owner, and sending one.                     *)
LEMMA Recycling ==
  ASSUME NEW idle \in Seq(Params), NEW busy \in Seq(Params), NEW p \in Params,
         Len(idle) <= MAXLISTSIZE + 1, Apart(idle, busy), p \notin Seen(idle), p \notin Seen(busy)
  PROVE  /\ Recycled(idle, p) \in Seq(Params)
         /\ Apart(Recycled(idle, p), busy) /\ Len(Recycled(idle, p)) <= MAXLISTSIZE + 1
<1>0. MAXLISTSIZE \in Nat
  BY SendAssumption
<1>1. CASE Len(idle) > MAXLISTSIZE
  BY <1>1 DEF Recycled
<1>2. CASE ~(Len(idle) > MAXLISTSIZE)
  <2>1. Recycled(idle, p) = Append(idle, p)
    BY <1>2 DEF Recycled
  <2>2. /\ Append(idle, p) \in Seq(Params) /\ Len(Append(idle, p)) = Len(idle) + 1
        /\ \A i \in DOMAIN idle : Append(idle, p)[i] = idle[i]
        /\ \A i \in DOMAIN Append(idle, p) : i \in DOMAIN idle \/ i = Len(idle) + 1
        /\ Append(idle, p)[Len(idle) + 1] = p
    OBVIOUS
  <2>3. Apart(Append(idle, p), busy)
    BY <2>2 DEF Apart, Seen
  <2> QED
    BY <1>0, <1>2, <2>1, <2>2, <2>3
<1> QED
  BY <1>1, <1>2

LEMMA Sending ==
  ASSUME NEW idle \in Seq(Params), NEW busy \in Seq(Params), NEW p \in Params,
         Apart(idle, busy), p \notin Seen(idle), p \notin Seen(busy)
  PROVE  Append(busy, p) \in Seq(Params) /\ Apart(idle, Append(busy, p))
<1>1. /\ Append(busy, p) \in Seq(Params) /\ Len(Append(busy, p)) = Len(busy) + 1
      /\ \A i \in DOMAIN busy : Append(busy, p)[i] = busy[i]
      /\ \A i \in DOMAIN Append(busy, p) : i \in DOMAIN busy \/ i = Len(busy) + 1
      /\ Append(busy, p)[Len(busy) + 1] = p
  OBVIOUS
<1>2. Apart(idle, Append(busy, p))
  BY <1>1 DEF Apart, Seen
<1> QED
  BY <1>1, <1>2

(* The oldest write is answered.                                             *)
LEMMA Answering ==
  ASSUME TypeOK, Owned, inflight # <<>>
  PROVE  LET p == Head(inflight)
         IN  /\ p = inflight[1] /\ p \in Params
             /\ Tail(inflight) \in Seq(Params) /\ Len(Tail(inflight)) = Len(inflight) - 1
             /\ \A i \in DOMAIN Tail(inflight) : Tail(inflight)[i] = inflight[i + 1]
             /\ Recycled(avail_params, p) \in Seq(Params)
             /\ Apart(Recycled(avail_params, p), Tail(inflight))
             /\ Len(Recycled(avail_params, p)) <= MAXLISTSIZE + 1
<1> DEFINE p == inflight[1]
<1>0. avail_params \in Seq(Params) /\ inflight \in Seq(Params)
  BY DEF TypeOK
<1>1. /\ Head(inflight) = p /\ p \in Params
      /\ Tail(inflight) \in Seq(Params) /\ Len(Tail(inflight)) = Len(inflight) - 1
      /\ \A i \in DOMAIN Tail(inflight) :
           i + 1 \in DOMAIN inflight /\ i + 1 # 1 /\ Tail(inflight)[i] = inflight[i + 1]
      /\ 1 \in DOMAIN inflight
  BY <1>0
<1>2. Apart(avail_params, Tail(inflight))
  BY <1>0, <1>1 DEF Owned, Apart
<1>3. p \notin Seen(avail_params) /\ p \notin Seen(Tail(inflight))
  BY <1>1 DEF Owned, Apart, Seen
<1>4. Len(avail_params) <= MAXLISTSIZE + 1
  BY DEF Owned
<1> HIDE DEF p
<1>5. /\ Recycled(avail_params, p) \in Seq(Params)
      /\ Apart(Recycled(avail_params, p), Tail(inflight))
      /\ Len(Recycled(avail_params, p)) <= MAXLISTSIZE + 1
  BY <1>0, <1>1, <1>2, <1>3, <1>4, Recycling
<1> QED
  BY <1>1, <1>5 DEF p
-----------------------------------------------------------------------------
(* The senders.                                                              *)
LEMMA WritingSenders == BytesInv => SendersOK
BY DEF BytesInv, TypeOK, Whole, SendersOK

(* The bytes written of the messages ms of s, done of them of the last.      *)
ByteOf(s, ms, done, b) ==
  \E m \in DOMAIN ms :
    \E k \in 1 .. (IF m = Len(ms) THEN done ELSE ms[m]) :
      b = [from |-> s, msg |-> m, at |-> k]

LEMMA WrittenAre ==
  \A s : \A b : b \in WrittenBytes(s) <=> ByteOf(s, msgs[s], iret[s], b)
<1>1. \A s, n, m : Seen(Message(s, m, n)) = {[from |-> s, msg |-> m, at |-> k] : k \in 1 .. n}
  BY DEF Seen, Message
<1> QED
  BY <1>1 DEF WrittenBytes, Written, Current, ByteOf

LEMMA WrittenAreNext ==
  \A s : \A b : b \in WrittenBytes(s)' <=> ByteOf(s, msgs'[s], iret'[s], b)
<1>1. \A s, n, m : Seen(Message(s, m, n)) = {[from |-> s, msg |-> m, at |-> k] : k \in 1 .. n}
  BY DEF Seen, Message
<1>2. \A s : WrittenBytes(s)' =
        UNION {Seen(Message(s, m, IF m = Len(msgs'[s]) THEN iret'[s] ELSE msgs'[s][m])) :
                 m \in DOMAIN msgs'[s]}
  BY DEF WrittenBytes, Written, Current, Seen, Message
<1> QED
  BY <1>1, <1>2 DEF ByteOf

(* More of the last message, and one more message.                           *)
LEMMA MoreWritten ==
  ASSUME NEW s, NEW ms, ms \in Seq(MsgLens), ms # <<>>, NEW d, d \in Nat, NEW n, n \in Nat, NEW b
  PROVE  ByteOf(s, ms, d + n, b) <=>
           \/ ByteOf(s, ms, d, b)
           \/ \E k \in 1 .. n : b = [from |-> s, msg |-> Len(ms), at |-> d + k]
<1>1. Len(ms) \in DOMAIN ms /\ Len(ms) \in Nat
  OBVIOUS
<1>2. ASSUME ByteOf(s, ms, d, b) PROVE ByteOf(s, ms, d + n, b)
  BY <1>2 DEF ByteOf
<1>3. ASSUME NEW k \in 1 .. n, b = [from |-> s, msg |-> Len(ms), at |-> d + k]
      PROVE  ByteOf(s, ms, d + n, b)
  <2>1. d + k \in 1 .. d + n
    OBVIOUS
  <2> QED
    BY <1>1, <1>3, <2>1 DEF ByteOf
<1>4. ASSUME ByteOf(s, ms, d + n, b), ~ByteOf(s, ms, d, b)
      PROVE  \E k \in 1 .. n : b = [from |-> s, msg |-> Len(ms), at |-> d + k]
  <2>1. PICK m \in DOMAIN ms :
          \E k \in 1 .. (IF m = Len(ms) THEN d + n ELSE ms[m]) :
            b = [from |-> s, msg |-> m, at |-> k]
    BY <1>4 DEF ByteOf
  <2>2. PICK k \in 1 .. (IF m = Len(ms) THEN d + n ELSE ms[m]) :
          b = [from |-> s, msg |-> m, at |-> k]
    BY <2>1
  <2>3. m = Len(ms) /\ k \in 1 .. d + n /\ ~(k \in 1 .. d)
    BY <1>4, <2>2 DEF ByteOf
  <2>4. k - d \in 1 .. n /\ d + (k - d) = k
    BY <2>3
  <2> QED
    BY <2>2, <2>3, <2>4
<1> QED
  BY <1>2, <1>3, <1>4

LEMMA NoneWritten ==
  ASSUME NEW s, NEW ms \in Seq(MsgLens), NEW len \in MsgLens, NEW d,
         ms # <<>> => d = ms[Len(ms)], NEW b
  PROVE  ByteOf(s, Append(ms, len), 0, b) <=> ByteOf(s, ms, d, b)
<1>1. /\ Len(ms) \in Nat /\ DOMAIN ms = 1 .. Len(ms)
      /\ DOMAIN Append(ms, len) = 1 .. Len(ms) + 1 /\ Len(Append(ms, len)) = Len(ms) + 1
      /\ \A m \in DOMAIN ms : Append(ms, len)[m] = ms[m] /\ m # Len(ms) + 1
  OBVIOUS
<1>2. ASSUME ByteOf(s, Append(ms, len), 0, b) PROVE ByteOf(s, ms, d, b)
  <2>1. PICK m \in 1 .. Len(ms) + 1 :
          \E k \in 1 .. (IF m = Len(ms) + 1 THEN 0 ELSE Append(ms, len)[m]) :
            b = [from |-> s, msg |-> m, at |-> k]
    BY <1>1, <1>2 DEF ByteOf
  <2>2. m \in DOMAIN ms
    BY <1>1, <2>1
  <2>3. ms # <<>>
    BY <2>2
  <2>4. (IF m = Len(ms) THEN d ELSE ms[m]) = ms[m]
    BY <2>3
  <2> QED
    BY <1>1, <2>1, <2>2, <2>4 DEF ByteOf
<1>3. ASSUME ByteOf(s, ms, d, b) PROVE ByteOf(s, Append(ms, len), 0, b)
  <2>1. PICK m \in DOMAIN ms :
          \E k \in 1 .. (IF m = Len(ms) THEN d ELSE ms[m]) : b = [from |-> s, msg |-> m, at |-> k]
    BY <1>3 DEF ByteOf
  <2>2. ms # <<>>
    BY <2>1
  <2>3. (IF m = Len(ms) THEN d ELSE ms[m]) = ms[m]
    BY <2>2
  <2>4. m \in DOMAIN Append(ms, len) /\ m # Len(Append(ms, len)) /\ Append(ms, len)[m] = ms[m]
    BY <1>1, <2>1
  <2> QED
    BY <2>1, <2>3, <2>4 DEF ByteOf
<1> QED
  BY <1>2, <1>3

LEMMA ByteOfFrom ==
  ASSUME NEW s, NEW ms, NEW d, NEW b, ByteOf(s, ms, d, b)
  PROVE  b.from = s
BY DEF ByteOf

(* The bytes taken, with some more.                                          *)
LEMMA Joined ==
  ASSUME NEW q \in Seq(Byte), NEW new \in Seq(Byte)
  PROVE  /\ q \o new \in Seq(Byte) /\ Len(q \o new) = Len(q) + Len(new)
         /\ \A i \in DOMAIN q : (q \o new)[i] = q[i] /\ i \in DOMAIN (q \o new)
         /\ \A i \in DOMAIN (q \o new) :
              i \notin DOMAIN q =>
                i - Len(q) \in DOMAIN new /\ (q \o new)[i] = new[i - Len(q)]
         /\ \A k \in DOMAIN new :
              Len(q) + k \in DOMAIN (q \o new) /\ (q \o new)[Len(q) + k] = new[k]
         /\ Seen(q \o new) = Seen(q) \cup Seen(new)
<1>1. /\ q \o new \in Seq(Byte) /\ Len(q \o new) = Len(q) + Len(new)
      /\ \A i \in DOMAIN q : (q \o new)[i] = q[i] /\ i \in DOMAIN (q \o new)
  OBVIOUS
<1>2. ASSUME NEW i \in DOMAIN (q \o new), i \notin DOMAIN q
      PROVE  i - Len(q) \in DOMAIN new /\ (q \o new)[i] = new[i - Len(q)]
  BY <1>2
<1>3. ASSUME NEW k \in DOMAIN new
      PROVE  Len(q) + k \in DOMAIN (q \o new) /\ (q \o new)[Len(q) + k] = new[k]
  <2>1. Len(q) + k - Len(q) = k /\ Len(q) + k \in 1 .. Len(q) + Len(new) /\ ~(Len(q) + k <= Len(q))
    OBVIOUS
  <2> QED
    BY <2>1
<1>4. ASSUME NEW b \in Seen(q \o new) PROVE b \in Seen(q) \cup Seen(new)
  <2>1. PICK i \in DOMAIN (q \o new) : (q \o new)[i] = b
    BY DEF Seen
  <2> QED
    BY <1>1, <1>2, <2>1 DEF Seen
<1>5. ASSUME NEW b \in Seen(q) \cup Seen(new) PROVE b \in Seen(q \o new)
  <2>1. CASE b \in Seen(q)
    BY <1>1, <2>1 DEF Seen
  <2>2. CASE b \in Seen(new)
    BY <1>3, <2>2 DEF Seen
  <2> QED
    BY <2>1, <2>2
<1>6. Seen(q \o new) = Seen(q) \cup Seen(new)
  BY <1>4, <1>5
<1> QED
  BY <1>1, <1>2, <1>3, <1>6

(* What one turn of Send's loop does: it adds the next bytes of its message. *)
NextBytes(s, new) ==
  /\ Len(new) <= Length(s) - iret[s]
  /\ \A k \in DOMAIN new : new[k] = [from |-> s, msg |-> Current(s), at |-> iret[s] + k]

LEMMA WriteRingEffect ==
  ASSUME BytesInv, NEW s \in Senders, WriteRing(s)
  PROVE  \E new \in Seq(Byte) :
           /\ NextBytes(s, new)
           /\ ring' = ring \o new /\ Len(ring \o new) <= BUFFER_SIZE
           /\ accepted' = accepted \o new
           /\ iret' = [iret EXCEPT ![s] = iret[s] + Len(new)]
<1> DEFINE n == Fifo!Accepted(ring, Rest(s))
           new == SubSeq(Rest(s), 1, n)
<1>1. /\ pc[s] = "writing" /\ ring \in Seq(Byte) /\ Len(ring) <= BUFFER_SIZE /\ SendersOK
      /\ ring' = ring \o new /\ accepted' = accepted \o new
      /\ iret' = [iret EXCEPT ![s] = iret[s] + n]
  BY WritingSenders DEF WriteRing, BytesInv, TypeOK, Fifo!AfterWrite
<1>2. /\ Length(s) \in Nat /\ iret[s] \in Nat /\ iret[s] < Length(s)
      /\ Rest(s) \in Seq(Byte) /\ Len(Rest(s)) = Length(s) - iret[s]
  BY <1>1, RestOfMessage
<1>3. n \in 0 .. Len(Rest(s)) /\ Len(ring \o new) <= BUFFER_SIZE
  BY <1>1, <1>2, WriteQueue DEF Fifo!AfterWrite
<1>4. \A k \in 1 .. Len(Rest(s)) :
        Rest(s)[k] = [from |-> s, msg |-> Current(s), at |-> iret[s] + k]
  <2>1. ASSUME NEW k \in 1 .. Length(s) - iret[s]
        PROVE  Rest(s)[k] = Message(s, Current(s), Length(s))[iret[s] + 1 + k - 1]
    BY <1>2 DEF Rest
  <2>2. ASSUME NEW k \in 1 .. Length(s) - iret[s]
        PROVE  /\ iret[s] + 1 + k - 1 = iret[s] + k
               /\ Message(s, Current(s), Length(s))[iret[s] + k] =
                    [from |-> s, msg |-> Current(s), at |-> iret[s] + k]
    BY <1>2 DEF Message
  <2> QED
    BY <1>2, <2>1, <2>2
<1> HIDE DEF n
<1>5. /\ new \in Seq(Byte) /\ Len(new) = n
      /\ \A k \in DOMAIN new : new[k] = Rest(s)[k] /\ k \in 1 .. Len(Rest(s))
  BY <1>2, <1>3
<1>6. NextBytes(s, new)
  BY <1>2, <1>3, <1>4, <1>5 DEF NextBytes
<1> QED
  BY <1>1, <1>3, <1>5, <1>6

LEMMA WriteRingSenders ==
  ASSUME BytesInv, NEW s \in Senders, WriteRing(s)
  PROVE  TypeOK' /\ Whole' /\ Taken' /\ EachSenderInOrder'
<1>1. PICK new \in Seq(Byte) :
        /\ NextBytes(s, new)
        /\ ring' = ring \o new /\ Len(ring \o new) <= BUFFER_SIZE
        /\ accepted' = accepted \o new
        /\ iret' = [iret EXCEPT ![s] = iret[s] + Len(new)]
  BY WriteRingEffect
<1>2. /\ pc[s] = "writing" /\ msgs' = msgs
      /\ pc' = [pc EXCEPT ![s] = IF iret'[s] < Length(s) THEN "writing" ELSE "signal"]
      /\ UNCHANGED <<async_pending, loopVars, closeVars>>
  BY DEF WriteRing
<1>3. /\ Length(s) \in Nat /\ iret[s] \in Nat /\ iret[s] < Length(s)
  BY <1>2, RestOfMessage, WritingSenders
<1>4. /\ TypeOK /\ accepted \in Seq(Byte) /\ Len(accepted) \in Nat /\ Len(new) \in Nat
      /\ \A t \in Senders : msgs[t] \in Seq(MsgLens) /\ iret[t] \in Nat
      /\ \A t \in Senders : Len(msgs[t]) \in Nat
  BY DEF BytesInv, TypeOK
<1>5. /\ iret'[s] = iret[s] + Len(new) /\ iret'[s] \in Nat /\ iret'[s] <= Length(s)
      /\ \A t \in Senders : t # s => iret'[t] = iret[t] /\ pc'[t] = pc[t]
      /\ pc'[s] = IF iret'[s] < Length(s) THEN "writing" ELSE "signal"
  BY <1>1, <1>2, <1>3, <1>4 DEF NextBytes, TypeOK
<1>6. /\ \A t : Length(t)' = Length(t) /\ Current(t)' = Current(t)
  BY <1>2 DEF Length, Current
<1>7. /\ accepted' \in Seq(Byte) /\ Len(accepted') = Len(accepted) + Len(new)
      /\ \A i \in DOMAIN accepted : accepted'[i] = accepted[i] /\ i \in DOMAIN accepted'
      /\ \A i \in DOMAIN accepted' : i \notin DOMAIN accepted =>
           i - Len(accepted) \in DOMAIN new /\ accepted'[i] = new[i - Len(accepted)]
      /\ Seen(accepted') = Seen(accepted) \cup Seen(new)
  <2>1. accepted \o new = accepted'
    BY <1>1
  <2> QED
    BY <1>4, <2>1, Joined
<1>8. ASSUME NEW i \in DOMAIN accepted', i \notin DOMAIN accepted
      PROVE  /\ accepted'[i] = [from |-> s, msg |-> Current(s), at |-> iret[s] + (i - Len(accepted))]
             /\ i - Len(accepted) \in 1 .. Len(new)
  <2>1. i - Len(accepted) \in DOMAIN new /\ accepted'[i] = new[i - Len(accepted)]
    BY <1>7, <1>8
  <2>2. DOMAIN new = 1 .. Len(new)
    OBVIOUS
  <2> QED
    BY <1>1, <2>1, <2>2 DEF NextBytes
<1>9. TypeOK'
  <2>1. ring' \in Seq(Byte) /\ Len(ring') <= BUFFER_SIZE
    BY <1>1, <1>4 DEF TypeOK
  <2>2. pc' \in [Senders -> {"idle", "writing", "signal"}] /\ iret' \in [Senders -> Nat]
    BY <1>1, <1>2, <1>4, <1>5 DEF TypeOK
  <2> QED
    BY <1>2, <1>4, <1>7, <2>1, <2>2 DEF TypeOK, loopVars, closeVars
<1>10. Whole'
  <2>1. \A t \in Senders : msgs'[t] = msgs[t]
    BY <1>2
  <2>2. is_user_closed' = is_user_closed
    BY <1>2 DEF closeVars
  <2>3. msgs[s] # <<>>
    BY <1>2 DEF BytesInv, Whole
  <2>4. ASSUME NEW t \in Senders
        PROVE  IF msgs'[t] = <<>>
               THEN iret'[t] = 0 /\ pc'[t] # "writing"
               ELSE /\ iret'[t] <= Length(t)
                    /\ pc'[t] = "writing" => iret'[t] < Length(t)
                    /\ pc'[t] # "writing" => is_user_closed' \/ iret'[t] = Length(t)
    <3>1. CASE t = s
      BY <1>3, <1>5, <2>1, <2>3, <3>1
    <3>2. CASE t # s
      BY <1>5, <2>1, <2>2, <3>2 DEF BytesInv, Whole
    <3> QED
      BY <3>1, <3>2
  <2> QED
    BY <1>6, <2>4 DEF Whole
<1>11. Taken'
  <2>1. ASSUME NEW i \in DOMAIN accepted' PROVE TakenBefore(accepted[i])'
    <3>1. CASE i \in DOMAIN accepted
      <4>1. accepted'[i] = accepted[i] /\ TakenBefore(accepted[i]) /\ accepted[i] \in Byte
        BY <1>4, <1>7, <3>1 DEF BytesInv, Taken
      <4>2. \A t \in Senders : iret'[t] >= iret[t]
        BY <1>4, <1>5
      <4>3. accepted[i].from \in Senders /\ accepted[i].at \in Nat
        BY <4>1 DEF Byte
      <4>4. iret[accepted[i].from] \in Nat /\ iret'[accepted[i].from] \in Nat
        BY <1>4, <1>5, <4>3
      <4> QED
        BY <1>6, <4>1, <4>2, <4>3, <4>4 DEF TakenBefore
    <3>2. CASE i \notin DOMAIN accepted
      <4>1. accepted'[i] = [from |-> s, msg |-> Current(s), at |-> iret[s] + (i - Len(accepted))]
            /\ i - Len(accepted) \in 1 .. Len(new)
        BY <1>8, <3>2
      <4>2. Current(s) \in Nat
        BY <1>4 DEF Current
      <4> QED
        BY <1>3, <1>4, <1>5, <1>6, <4>1, <4>2 DEF TakenBefore
    <3> QED
      BY <3>1, <3>2
  <2> QED
    BY <2>1 DEF Taken
<1>12. EachSenderInOrder'
  <2>1. ASSUME NEW t \in Senders, NEW i \in DOMAIN accepted', NEW j \in DOMAIN accepted',
               i < j, accepted'[i].from = t, accepted'[j].from = t
        PROVE  Precedes(accepted'[i], accepted'[j])
    <3>1. CASE j \in DOMAIN accepted
      <4>1. i \in DOMAIN accepted
        BY <1>4, <1>7, <2>1, <3>1
      <4> QED
        BY <1>7, <2>1, <3>1, <4>1 DEF BytesInv, EachSenderInOrder
    <3>2. CASE i \in DOMAIN accepted /\ j \notin DOMAIN accepted
      <4>1. /\ accepted'[j] = [from |-> s, msg |-> Current(s), at |-> iret[s] + (j - Len(accepted))]
            /\ j - Len(accepted) \in 1 .. Len(new)
        BY <1>8, <3>2
      <4>2. t = s /\ TakenBefore(accepted[i]) /\ accepted'[i] = accepted[i]
        BY <1>7, <2>1, <3>2, <4>1 DEF BytesInv, Taken
      <4>3. accepted[i] \in Byte /\ Current(s) \in Nat
        BY <1>4, <3>2 DEF Current
      <4>4. accepted[i].msg \in Nat /\ accepted[i].at \in Nat /\ accepted[i].from = s
        BY <2>1, <4>2, <4>3 DEF Byte
      <4>5. /\ accepted[i].msg <= Current(s)
            /\ accepted[i].msg = Current(s) => accepted[i].at <= iret[s]
        BY <4>2, <4>4 DEF TakenBefore
      <4>6. CASE accepted[i].msg = Current(s)
        <5>1. accepted[i].at < iret[s] + (j - Len(accepted))
          BY <1>3, <1>4, <4>1, <4>4, <4>5, <4>6
        <5> QED
          BY <4>1, <4>2, <4>6, <5>1 DEF Precedes
      <4>7. CASE accepted[i].msg # Current(s)
        BY <4>1, <4>2, <4>3, <4>4, <4>5, <4>7 DEF Precedes
      <4> QED
        BY <4>6, <4>7
    <3>3. CASE i \notin DOMAIN accepted /\ j \notin DOMAIN accepted
      <4>1. /\ accepted'[j] = [from |-> s, msg |-> Current(s), at |-> iret[s] + (j - Len(accepted))]
            /\ accepted'[i] = [from |-> s, msg |-> Current(s), at |-> iret[s] + (i - Len(accepted))]
        BY <1>8, <3>3
      <4>2. iret[s] + (i - Len(accepted)) < iret[s] + (j - Len(accepted))
        BY <1>3, <1>4, <1>7, <2>1
      <4> QED
        BY <4>1, <4>2 DEF Precedes
    <3> QED
      BY <3>1, <3>2, <3>3
  <2>2. ASSUME NEW t \in Senders, ~is_user_closed
        PROVE  {b \in Seen(accepted') : b.from = t} = WrittenBytes(t)'
    <3>1. {b \in Seen(accepted) : b.from = t} = WrittenBytes(t)
      BY <2>2 DEF BytesInv, EachSenderInOrder
    <3>2. ASSUME NEW b
          PROVE  b \in WrittenBytes(t)' <=> ByteOf(t, msgs[t], iret'[t], b)
      BY <1>2, WrittenAreNext
    <3>3. ASSUME NEW b
          PROVE  ByteOf(t, msgs[t], iret'[t], b) <=>
                   ByteOf(t, msgs[t], iret[t], b) \/ (b.from = t /\ b \in Seen(new))
      <4>1. CASE t # s
        <5>1. b \in Seen(new) => b.from = s
          BY <1>1 DEF NextBytes, Seen
        <5> QED
          BY <1>5, <4>1, <5>1
      <4>2. CASE t = s
        <5>1. msgs[s] # <<>> /\ msgs[s] \in Seq(MsgLens)
          BY <1>2, <1>4 DEF BytesInv, Whole
        <5>2. ByteOf(s, msgs[s], iret[s] + Len(new), b) <=>
                \/ ByteOf(s, msgs[s], iret[s], b)
                \/ \E k \in 1 .. Len(new) : b = [from |-> s, msg |-> Len(msgs[s]), at |-> iret[s] + k]
          <6>1. iret[s] \in Nat /\ Len(new) \in Nat
            BY <1>3, <1>4
          <6> QED
            BY <5>1, <6>1, MoreWritten
        <5>3. b \in Seen(new) <=>
                \E k \in 1 .. Len(new) : b = [from |-> s, msg |-> Len(msgs[s]), at |-> iret[s] + k]
          BY <1>1 DEF NextBytes, Current, Seen
        <5>4. b \in Seen(new) => b.from = s
          BY <1>1 DEF NextBytes, Seen
        <5> QED
          BY <1>5, <4>2, <5>2, <5>3, <5>4
      <4> QED
        BY <4>1, <4>2
    <3>4. ASSUME NEW b
          PROVE  b \in WrittenBytes(t) <=> ByteOf(t, msgs[t], iret[t], b)
      BY WrittenAre
    <3>5. \A b : b \in WrittenBytes(t)' <=> b.from = t /\ b \in Seen(accepted')
      BY <1>7, <3>1, <3>2, <3>3, <3>4
    <3> QED
      BY <3>5
  <2>3. is_user_closed' = is_user_closed
    BY <1>2 DEF closeVars
  <2> QED
    BY <2>1, <2>2, <2>3 DEF EachSenderInOrder
<1> QED
  BY <1>9, <1>10, <1>11, <1>12
(* Nothing taken and nothing more to send.                                   *)
LEMMA SendersAside ==
  ASSUME BytesInv, UNCHANGED <<iret, msgs, accepted>>, is_user_closed => is_user_closed',
         \A s \in Senders : pc'[s] = pc[s] \/ (pc'[s] # "writing" /\ (is_user_closed \/ pc[s] # "writing"))
  PROVE  Whole' /\ Taken' /\ EachSenderInOrder'
<1>1. \A s : Length(s)' = Length(s) /\ Current(s)' = Current(s)
  BY DEF Length, Current
<1>2. Whole'
  BY <1>1 DEF BytesInv, Whole
<1>3. Taken'
  BY <1>1 DEF BytesInv, Taken, TakenBefore
<1>4. \A s : WrittenBytes(s)' = WrittenBytes(s)
  <2>1. \A s : \A b : b \in WrittenBytes(s)' <=> b \in WrittenBytes(s)
    BY WrittenAre, WrittenAreNext
  <2> QED
    BY <2>1
<1>5. EachSenderInOrder'
  BY <1>4 DEF BytesInv, EachSenderInOrder
<1> QED
  BY <1>2, <1>3, <1>5

LEMMA SendSenders ==
  ASSUME BytesInv, NEW s \in Senders, NEW len \in MsgLens, Send(s, len)
  PROVE  TypeOK' /\ Whole' /\ Taken' /\ EachSenderInOrder'
<1>1. /\ pc[s] = "idle"
      /\ msgs' = [msgs EXCEPT ![s] = Append(msgs[s], len)]
      /\ iret' = [iret EXCEPT ![s] = 0] /\ pc' = [pc EXCEPT ![s] = "writing"]
      /\ async_pending' = TRUE
      /\ UNCHANGED <<ring, loopVars, closeVars, accepted>>
  BY DEF Send
<1>2. /\ TypeOK /\ accepted \in Seq(Byte) /\ len \in Nat \ {0}
      /\ msgs \in [Senders -> Seq(MsgLens)] /\ iret \in [Senders -> Nat]
      /\ pc \in [Senders -> {"idle", "writing", "signal"}]
      /\ \A t \in Senders : Len(msgs[t]) \in Nat
  BY SendAssumption DEF BytesInv, TypeOK
<1>3. /\ Append(msgs[s], len) \in Seq(MsgLens) /\ Append(msgs[s], len) # <<>>
      /\ Len(Append(msgs[s], len)) = Len(msgs[s]) + 1
      /\ Append(msgs[s], len)[Len(msgs[s]) + 1] = len
  <2>1. msgs[s] \in Seq(MsgLens)
    BY <1>2
  <2> QED
    BY <2>1, AppendProperties
<1>4. /\ msgs'[s] = Append(msgs[s], len) /\ iret'[s] = 0 /\ pc'[s] = "writing"
      /\ \A t \in Senders : t # s => msgs'[t] = msgs[t] /\ iret'[t] = iret[t] /\ pc'[t] = pc[t]
  BY <1>1, <1>2
<1>5. /\ Length(s)' = len /\ Current(s)' = Current(s) + 1
      /\ \A t \in Senders : t # s => Length(t)' = Length(t) /\ Current(t)' = Current(t)
  BY <1>3, <1>4 DEF Length, Current
<1>6. accepted' = accepted /\ is_user_closed' = is_user_closed
  BY <1>1 DEF closeVars
<1>7. TypeOK'
  <2>1. /\ msgs' \in [Senders -> Seq(MsgLens)] /\ iret' \in [Senders -> Nat]
        /\ pc' \in [Senders -> {"idle", "writing", "signal"}]
    BY <1>1, <1>2, <1>3
  <2>2. async_pending' \in BOOLEAN
    BY <1>1, Zenon
  <2> QED
    BY <1>1, <1>2, <2>1, <2>2 DEF TypeOK, loopVars, closeVars
<1>8. Whole'
  <2>1. ASSUME NEW t \in Senders
        PROVE  IF msgs'[t] = <<>>
               THEN iret'[t] = 0 /\ pc'[t] # "writing"
               ELSE /\ iret'[t] <= Length(t)'
                    /\ pc'[t] = "writing" => iret'[t] < Length(t)'
                    /\ pc'[t] # "writing" => is_user_closed' \/ iret'[t] = Length(t)'
    <3>1. CASE t = s
      BY <1>2, <1>3, <1>4, <1>5, <3>1
    <3>2. CASE t # s
      BY <1>4, <1>5, <1>6, <3>2 DEF BytesInv, Whole
    <3> QED
      BY <3>1, <3>2
  <2> QED
    BY <2>1 DEF Whole
<1>9. Taken'
  <2>1. ASSUME NEW i \in DOMAIN accepted PROVE TakenBefore(accepted[i])'
    <3>1. TakenBefore(accepted[i]) /\ accepted[i] \in Byte
      BY <1>2 DEF BytesInv, Taken
    <3>2. accepted[i].from \in Senders /\ accepted[i].msg \in Nat
      BY <3>1 DEF Byte
    <3>3. CASE accepted[i].from = s
      <4>1. Current(s) \in Nat /\ accepted[i].msg <= Current(s)
        BY <1>2, <3>1, <3>3 DEF TakenBefore, Current
      <4>2. accepted[i].msg <= Current(s) + 1 /\ accepted[i].msg # Current(s) + 1
        BY <3>2, <4>1
      <4> QED
        BY <1>5, <1>6, <3>3, <4>2 DEF TakenBefore
    <3>4. CASE accepted[i].from # s
      BY <1>4, <1>5, <1>6, <3>1, <3>2, <3>4 DEF TakenBefore
    <3> QED
      BY <3>3, <3>4
  <2> QED
    BY <1>6, <2>1 DEF Taken
<1>10. EachSenderInOrder'
  <2>1. ASSUME NEW t \in Senders, ~is_user_closed
        PROVE  WrittenBytes(t)' = WrittenBytes(t)
    <3>1. ASSUME NEW b
          PROVE  ByteOf(t, msgs'[t], iret'[t], b) <=> ByteOf(t, msgs[t], iret[t], b)
      <4>1. CASE t = s
        <5>1. msgs[s] # <<>> => iret[s] = msgs[s][Len(msgs[s])]
          BY <1>1, <2>1 DEF BytesInv, Whole, Length, Current
        <5>2. msgs[s] \in Seq(MsgLens)
          BY <1>2
        <5>3. ByteOf(s, Append(msgs[s], len), 0, b) <=> ByteOf(s, msgs[s], iret[s], b)
          BY <5>1, <5>2, NoneWritten
        <5> QED
          BY <1>4, <4>1, <5>3
      <4>2. CASE t # s
        BY <1>4, <4>2
      <4> QED
        BY <4>1, <4>2
    <3>2. \A b : b \in WrittenBytes(t)' <=> b \in WrittenBytes(t)
      BY <3>1, WrittenAre, WrittenAreNext
    <3> QED
      BY <3>2
  <2> QED
    BY <1>6, <2>1 DEF BytesInv, EachSenderInOrder
<1> QED
  BY <1>7, <1>8, <1>9, <1>10

(* The other steps of the senders and of Close.                              *)
LEMMA LeaveSenders ==
  ASSUME BytesInv,
         \/ \E s \in Senders : GiveUp(s) \/ Signal(s)
         \/ Close \/ CloseSignal
  PROVE  TypeOK' /\ Whole' /\ Taken' /\ EachSenderInOrder'
<1>1. CASE \E s \in Senders : GiveUp(s) \/ Signal(s)
  <2>1. PICK s \in Senders : GiveUp(s) \/ Signal(s)
    BY <1>1
  <2>2. /\ UNCHANGED <<ring, loopVars, closeVars, iret, msgs, accepted>>
        /\ \/ pc' = [pc EXCEPT ![s] = "signal"] /\ is_user_closed
           \/ pc' = [pc EXCEPT ![s] = "idle"] /\ pc[s] = "signal"
        /\ async_pending' = async_pending \/ async_pending' = TRUE
    BY <2>1 DEF GiveUp, Signal
  <2>3. pc \in [Senders -> {"idle", "writing", "signal"}]
    BY DEF BytesInv, TypeOK
  <2>4. \A t \in Senders :
          pc'[t] = pc[t] \/ (pc'[t] # "writing" /\ (is_user_closed \/ pc[t] # "writing"))
    BY <2>2, <2>3
  <2>5. async_pending' \in BOOLEAN /\ pc' \in [Senders -> {"idle", "writing", "signal"}]
    <3>1. async_pending' \in BOOLEAN
      BY <2>2, Zenon DEF BytesInv, TypeOK
    <3> QED
      BY <2>2, <2>3, <3>1
  <2>6. TypeOK'
    BY <2>2, <2>5 DEF BytesInv, TypeOK, loopVars, closeVars
  <2> QED
    BY <2>2, <2>4, <2>6, SendersAside DEF closeVars
<1>2. CASE Close \/ CloseSignal
  <2>1. /\ UNCHANGED <<ring, loopVars, userVars, is_closed>>
        /\ is_user_closed' = is_user_closed \/ is_user_closed' = TRUE
        /\ async_pending' = async_pending \/ async_pending' = TRUE
        /\ closer' \in {"out", "signal"}
    BY <1>2 DEF Close, CloseSignal
  <2>2. is_user_closed' \in BOOLEAN /\ async_pending' \in BOOLEAN
    BY <2>1, Zenon DEF BytesInv, TypeOK
  <2>3. TypeOK'
    BY <2>1, <2>2 DEF BytesInv, TypeOK, loopVars, userVars
  <2> QED
    BY <2>1, <2>3, SendersAside DEF userVars
<1> QED
  BY <1>1, <1>2

(* The steps of the loop thread.                                             *)
LEMMA SendersOfLoop ==
  ASSUME BytesInv, Loop \/ UNCHANGED vars
  PROVE  Whole' /\ Taken' /\ EachSenderInOrder'
<1>1. UNCHANGED userVars /\ is_user_closed' = is_user_closed
  BY DEF Loop, SendOne, SendDone, AsyncCB, OnSend, OnSendError, OnRecv, Processed, RunEnds,
         vars, userVars, closeVars
<1> QED
  BY <1>1, SendersAside DEF userVars

-----------------------------------------------------------------------------
(* The places.  P is a function from the places to the bytes in them; in Q   *)
(* they are after a step.                                                    *)
LEMMA BeforeDiffers ==
  ASSUME NEW acc, IsInjective(acc), NEW a, NEW b, Before(acc, a, b), DOMAIN acc \subseteq Int
  PROVE  a # b
BY DEF IsInjective, Before

(* New bytes at the end of the last place.                                   *)
LEMMA PlacesGrow ==
  ASSUME NEW L \in Nat, NEW P \in [0 .. L + 1 -> Seq(Byte)], NEW Q,
         DOMAIN Q = 0 .. L + 1, \A i \in 0 .. L : Q[i] = P[i],
         NEW acc \in Seq(Byte), NEW new \in Seq(Byte), NEW gone,
         Q[L + 1] = P[L + 1] \o new,
         Seen(new) \cap Seen(acc) = {},
         Sound(P, acc, gone)
  PROVE  Sound(Q, acc \o new, gone)
<1> DEFINE last == P[L + 1]
<1>0. /\ last \in Seq(Byte) /\ L + 1 \in DOMAIN P /\ L + 1 \in DOMAIN Q
      /\ DOMAIN acc = 1 .. Len(acc) /\ DOMAIN new = 1 .. Len(new) /\ Len(acc) \in Nat
      /\ DOMAIN last = 1 .. Len(last) /\ Len(last) \in Nat /\ Len(new) \in Nat
  <2>1. last \in Seq(Byte) /\ L + 1 \in DOMAIN P /\ L + 1 \in DOMAIN Q
    OBVIOUS
  <2> HIDE DEF last
  <2> QED
    BY <2>1
<1> HIDE DEF last
<1>1. /\ \A i \in DOMAIN acc : (acc \o new)[i] = acc[i] /\ i \in DOMAIN (acc \o new)
      /\ \A k \in DOMAIN new :
           Len(acc) + k \in DOMAIN (acc \o new) /\ (acc \o new)[Len(acc) + k] = new[k]
      /\ Seen(acc \o new) = Seen(acc) \cup Seen(new)
  BY Joined
<1>2. /\ \A m \in DOMAIN last : Q[L + 1][m] = last[m] /\ m \in DOMAIN Q[L + 1]
      /\ \A m \in DOMAIN Q[L + 1] : m \notin DOMAIN last =>
           m - Len(last) \in DOMAIN new /\ Q[L + 1][m] = new[m - Len(last)]
      /\ \A k \in DOMAIN new :
           Len(last) + k \in DOMAIN Q[L + 1] /\ Q[L + 1][Len(last) + k] = new[k]
      /\ DOMAIN Q[L + 1] = 1 .. Len(last) + Len(new)
  <2>1. Q[L + 1] = last \o new
    BY DEF last
  <2>2. /\ \A m \in DOMAIN last : (last \o new)[m] = last[m] /\ m \in DOMAIN (last \o new)
        /\ \A m \in DOMAIN (last \o new) : m \notin DOMAIN last =>
             m - Len(last) \in DOMAIN new /\ (last \o new)[m] = new[m - Len(last)]
        /\ \A k \in DOMAIN new :
             Len(last) + k \in DOMAIN (last \o new) /\ (last \o new)[Len(last) + k] = new[k]
    BY <1>0, Joined
  <2>3. DOMAIN (last \o new) = 1 .. Len(last) + Len(new)
    BY <1>0
  <2> QED
    BY <2>1, <2>2, <2>3
(* A byte of Q is a byte of P in the same place, or a new one at the end.    *)
<1>3. ASSUME NEW i \in DOMAIN Q, NEW m \in DOMAIN Q[i]
      PROVE  \/ m \in DOMAIN P[i] /\ Q[i][m] = P[i][m]
             \/ /\ i = L + 1 /\ m - Len(last) \in DOMAIN new
                /\ Q[i][m] = new[m - Len(last)] /\ ~(m <= Len(last))
  <2>1. CASE i = L + 1
    <3>1. m \in DOMAIN Q[L + 1] /\ m \in Nat
      BY <1>0, <1>2, <1>3, <2>1
    <3>2. CASE m \in DOMAIN last
      BY <1>2, <2>1, <3>2 DEF last
    <3>3. CASE m \notin DOMAIN last
      <4>1. ~(m <= Len(last))
        BY <1>0, <1>2, <3>1, <3>3
      <4> QED
        BY <1>2, <2>1, <3>1, <3>3, <4>1
    <3> QED
      BY <3>2, <3>3
  <2>2. CASE i # L + 1
    BY <2>2
  <2> QED
    BY <2>1, <2>2
<1>4. \A a, b : Before(acc, a, b) => Before(acc \o new, a, b)
  BY <1>1 DEF Before
<1>5. ASSUME NEW a \in Seen(acc), NEW k \in DOMAIN new
      PROVE  Before(acc \o new, a, new[k])
  <2>1. PICK i \in DOMAIN acc : acc[i] = a
    BY DEF Seen
  <2>2. i < Len(acc) + k
    BY <1>1, <2>1
  <2> QED
    BY <1>1, <2>1, <2>2 DEF Before
<1>6. ASSUME NEW k \in DOMAIN new, NEW l \in DOMAIN new, k < l
      PROVE  Before(acc \o new, new[k], new[l])
  <2>1. Len(acc) + k < Len(acc) + l
    BY <1>1, <1>6
  <2> QED
    BY <1>1, <2>1 DEF Before
<1>7. OrderedIn(Q, acc \o new)
  <2>1. ASSUME NEW i \in DOMAIN Q, NEW j \in DOMAIN Q, NEW m \in DOMAIN Q[i], NEW n \in DOMAIN Q[j],
               i < j \/ (i = j /\ m < n)
        PROVE  Before(acc \o new, Q[i][m], Q[j][n])
    <3>1. i \in DOMAIN P /\ j \in DOMAIN P /\ i <= L + 1 /\ j <= L + 1
      OBVIOUS
    <3>2. CASE m \in DOMAIN P[i] /\ Q[i][m] = P[i][m] /\ n \in DOMAIN P[j] /\ Q[j][n] = P[j][n]
      BY <1>4, <2>1, <3>1, <3>2 DEF Sound, OrderedIn
    <3>3. CASE /\ m \in DOMAIN P[i] /\ Q[i][m] = P[i][m]
               /\ n - Len(last) \in DOMAIN new /\ Q[j][n] = new[n - Len(last)]
      <4>1. P[i][m] \in Seen(acc)
        BY <3>1, <3>3 DEF Sound, KnownIn
      <4> QED
        BY <1>5, <3>3, <4>1
    <3>4. CASE /\ i = L + 1 /\ m - Len(last) \in DOMAIN new
               /\ Q[i][m] = new[m - Len(last)] /\ ~(m <= Len(last))
      <4>1. j = L + 1 /\ m < n
        BY <2>1, <3>1, <3>4
      <4>2. m \in Nat /\ n \in Nat
        <5>1. m \in DOMAIN Q[L + 1] /\ n \in DOMAIN Q[L + 1]
          BY <3>4, <4>1
        <5>2. m \in 1 .. Len(last) + Len(new) /\ n \in 1 .. Len(last) + Len(new)
          BY <1>2, <5>1
        <5> QED
          BY <1>0, <5>2
      <4>3. ~(n <= Len(last))
        BY <1>2, <3>4, <4>1, <4>2
      <4>4. n - Len(last) \in DOMAIN new /\ Q[j][n] = new[n - Len(last)]
        BY <1>0, <1>2, <4>1, <4>3
      <4>5. m - Len(last) < n - Len(last)
        BY <1>2, <4>1, <4>2
      <4> QED
        BY <1>6, <3>4, <4>4, <4>5
    <3> QED
      BY <1>3, <3>2, <3>3, <3>4
  <2> QED
    BY <2>1 DEF OrderedIn
<1>8. KnownIn(Q, acc \o new, gone)
  <2>1. ASSUME NEW i \in DOMAIN Q, NEW m \in DOMAIN Q[i]
        PROVE  Q[i][m] \in Seen(acc \o new) \ gone
    <3>1. CASE m \in DOMAIN P[i] /\ Q[i][m] = P[i][m]
      BY <1>1, <3>1 DEF Sound, KnownIn
    <3>2. CASE m - Len(last) \in DOMAIN new /\ Q[i][m] = new[m - Len(last)]
      <4>1. Q[i][m] \in Seen(new)
        BY <3>2 DEF Seen
      <4> QED
        BY <1>1, <4>1 DEF Sound, KnownIn
    <3> QED
      BY <1>3, <3>1, <3>2
  <2> QED
    BY <1>1, <2>1 DEF Sound, KnownIn
<1>9. KeptIn(Q, acc \o new, gone)
  <2>1. ASSUME NEW b \in Seen(acc \o new), b \notin gone
        PROVE  \E i \in DOMAIN Q : \E m \in DOMAIN Q[i] : Q[i][m] = b
    <3>1. CASE b \in Seen(acc)
      <4>1. PICK i \in DOMAIN P : \E m \in DOMAIN P[i] : P[i][m] = b
        BY <2>1, <3>1 DEF Sound, KeptIn
      <4>2. PICK m \in DOMAIN P[i] : P[i][m] = b
        BY <4>1
      <4>3. i \in DOMAIN Q /\ m \in DOMAIN Q[i] /\ Q[i][m] = P[i][m]
        <5>1. CASE i = L + 1
          BY <1>0, <1>2, <4>2, <5>1 DEF last
        <5>2. CASE i # L + 1
          BY <4>2, <5>2
        <5> QED
          BY <5>1, <5>2
      <4> QED
        BY <4>2, <4>3
    <3>2. CASE b \in Seen(new)
      <4>1. PICK k \in DOMAIN new : new[k] = b
        BY <3>2 DEF Seen
      <4>2. Len(last) + k \in DOMAIN Q[L + 1] /\ Q[L + 1][Len(last) + k] = b
        BY <1>2, <4>1
      <4> QED
        BY <1>0, <4>2
    <3> QED
      BY <1>1, <2>1, <3>1, <3>2
  <2> QED
    BY <2>1 DEF KeptIn
<1> QED
  BY <1>7, <1>8, <1>9 DEF Sound

(* The first n bytes of the last place move into a place of their own.       *)
SplitAt(n, P, Q, L) ==
  /\ L \in Nat /\ P \in [0 .. L + 1 -> Seq(Byte)]
  /\ DOMAIN Q = 0 .. L + 2 /\ \A i \in 0 .. L : Q[i] = P[i]
  /\ n \in Nat /\ n <= Len(P[L + 1])
  /\ DOMAIN Q[L + 1] = 1 .. n /\ \A m \in 1 .. n : Q[L + 1][m] = P[L + 1][m]
  /\ DOMAIN Q[L + 2] = 1 .. Len(P[L + 1]) - n
  /\ \A m \in 1 .. Len(P[L + 1]) - n : Q[L + 2][m] = P[L + 1][n + m]

LEMMA PlacesSplit ==
  ASSUME NEW L, NEW P, NEW Q, NEW n, SplitAt(n, P, Q, L), NEW acc, NEW gone, Sound(P, acc, gone)
  PROVE  Sound(Q, acc, gone)
<1> SUFFICES ASSUME L \in Nat, P \in [0 .. L + 1 -> Seq(Byte)],
                    DOMAIN Q = 0 .. L + 2, \A i \in 0 .. L : Q[i] = P[i],
                    n \in Nat, n <= Len(P[L + 1]),
                    DOMAIN Q[L + 1] = 1 .. n, \A m \in 1 .. n : Q[L + 1][m] = P[L + 1][m],
                    DOMAIN Q[L + 2] = 1 .. Len(P[L + 1]) - n,
                    \A m \in 1 .. Len(P[L + 1]) - n : Q[L + 2][m] = P[L + 1][n + m]
             PROVE  Sound(Q, acc, gone)
  BY DEF SplitAt
<1> DEFINE oi(i) == IF i = L + 2 THEN L + 1 ELSE i
           om(i, m) == IF i = L + 2 THEN n + m ELSE m
<1>0. /\ DOMAIN P = 0 .. L + 1 /\ L + 1 \in DOMAIN P /\ L + 1 \in DOMAIN Q
      /\ Len(P[L + 1]) \in Nat /\ DOMAIN P[L + 1] = 1 .. Len(P[L + 1])
      /\ \A i \in 0 .. L + 1 : DOMAIN P[i] \subseteq Nat
  <2>1. ASSUME NEW i \in 0 .. L + 1
        PROVE  DOMAIN P[i] = 1 .. Len(P[i]) /\ Len(P[i]) \in Nat
    <3>1. P[i] \in Seq(Byte)
      OBVIOUS
    <3> QED
      BY <3>1
  <2>2. /\ DOMAIN P = 0 .. L + 1 /\ L + 1 \in DOMAIN P /\ L + 1 \in DOMAIN Q
    OBVIOUS
  <2> QED
    BY <2>1, <2>2
<1>1. ASSUME NEW i \in DOMAIN Q, NEW m \in DOMAIN Q[i]
      PROVE  /\ oi(i) \in DOMAIN P /\ om(i, m) \in DOMAIN P[oi(i)] /\ m \in Nat
             /\ Q[i][m] = P[oi(i)][om(i, m)]
  <2>1. CASE i = L + 2
    <3>1. oi(i) = L + 1 /\ om(i, m) = n + m /\ m \in 1 .. Len(P[L + 1]) - n
      BY <2>1
    <3>2. n + m \in 1 .. Len(P[L + 1]) /\ m \in Nat
      BY <1>0, <3>1
    <3>3. Q[i][m] = P[L + 1][n + m]
      BY <2>1, <3>1
    <3> HIDE DEF oi, om
    <3> QED
      BY <1>0, <3>1, <3>2, <3>3
  <2>2. CASE i # L + 2
    <3>1. oi(i) = i /\ om(i, m) = m /\ (i \in 0 .. L \/ i = L + 1) /\ i \in DOMAIN P
      BY <1>0, <2>2
    <3> HIDE DEF oi, om
    <3>2. CASE i = L + 1
      BY <1>0, <3>1, <3>2
    <3>3. CASE i \in 0 .. L
      <4>1. Q[i] = P[i]
        BY <3>3
      <4> QED
        BY <1>0, <1>1, <3>1, <4>1
    <3> QED
      BY <3>1, <3>2, <3>3
  <2> QED
    BY <2>1, <2>2
<1>2. OrderedIn(Q, acc)
  <2>1. ASSUME NEW i \in DOMAIN Q, NEW j \in DOMAIN Q, NEW m \in DOMAIN Q[i], NEW k \in DOMAIN Q[j],
               i < j \/ (i = j /\ m < k)
        PROVE  Before(acc, Q[i][m], Q[j][k])
    <3>1. m \in Nat /\ k \in Nat
      BY <1>1
    <3>2. oi(i) < oi(j) \/ (oi(i) = oi(j) /\ om(i, m) < om(j, k))
      <4>1. CASE i = L + 1 /\ j = L + 2
        <5>1. m \in 1 .. n /\ k \in 1 .. Len(P[L + 1]) - n
          BY <4>1
        <5> QED
          BY <1>0, <4>1, <5>1
      <4>2. CASE i = L + 2 /\ j = L + 2
        BY <2>1, <3>1, <4>2
      <4>3. CASE i # L + 2 /\ ~(i = L + 1 /\ j = L + 2)
        <5>1. oi(i) = i /\ om(i, m) = m
          BY <4>3
        <5>2. CASE j = L + 2
          <6>1. i < L + 1 /\ oi(j) = L + 1
            BY <4>3, <5>2
          <6> QED
            BY <5>1, <6>1
        <5>3. CASE j # L + 2
          BY <2>1, <5>1, <5>3
        <5> QED
          BY <5>2, <5>3
      <4>4. ~(i = L + 2 /\ j # L + 2)
        BY <2>1
      <4> QED
        BY <4>1, <4>2, <4>3, <4>4
    <3>3. /\ oi(i) \in DOMAIN P /\ om(i, m) \in DOMAIN P[oi(i)] /\ Q[i][m] = P[oi(i)][om(i, m)]
          /\ oi(j) \in DOMAIN P /\ om(j, k) \in DOMAIN P[oi(j)] /\ Q[j][k] = P[oi(j)][om(j, k)]
      BY <1>1
    <3> HIDE DEF oi, om
    <3> QED
      BY <3>2, <3>3 DEF Sound, OrderedIn
  <2> QED
    BY <2>1 DEF OrderedIn
<1>3. KnownIn(Q, acc, gone)
  <2> HIDE DEF oi, om
  <2> QED
    BY <1>1 DEF Sound, KnownIn
<1>4. KeptIn(Q, acc, gone)
  <2>1. ASSUME NEW i \in DOMAIN P, NEW m \in DOMAIN P[i]
        PROVE  \E j \in DOMAIN Q : \E k \in DOMAIN Q[j] : Q[j][k] = P[i][m]
    <3>1. CASE i \in 0 .. L
      <4>1. Q[i] = P[i] /\ i \in DOMAIN Q
        BY <3>1
      <4> QED
        BY <4>1
    <3>2. CASE i = L + 1 /\ m <= n
      <4>1. m \in DOMAIN Q[L + 1] /\ Q[L + 1][m] = P[L + 1][m]
        BY <1>0, <3>2
      <4> QED
        BY <1>0, <3>2, <4>1
    <3>3. CASE i = L + 1 /\ ~(m <= n)
      <4>1. m - n \in 1 .. Len(P[L + 1]) - n /\ n + (m - n) = m /\ L + 2 \in DOMAIN Q
        BY <1>0, <3>3
      <4>2. m - n \in DOMAIN Q[L + 2] /\ Q[L + 2][m - n] = P[L + 1][m]
        BY <4>1
      <4> QED
        BY <3>3, <4>1, <4>2
    <3> QED
      BY <1>0, <3>1, <3>2, <3>3
  <2>2. ASSUME NEW b \in Seen(acc), b \notin gone
        PROVE  \E j \in DOMAIN Q : \E k \in DOMAIN Q[j] : Q[j][k] = b
    <3>1. PICK i \in DOMAIN P : \E m \in DOMAIN P[i] : P[i][m] = b
      BY <2>2 DEF Sound, KeptIn
    <3>2. PICK m \in DOMAIN P[i] : P[i][m] = b
      BY <3>1
    <3>3. \E j \in DOMAIN Q : \E k \in DOMAIN Q[j] : Q[j][k] = P[i][m]
      BY <2>1, <2>2, <3>2
    <3> QED
      BY <3>2, <3>3
  <2> QED
    BY <2>2 DEF KeptIn
<1> QED
  BY <1>2, <1>3, <1>4 DEF Sound

(* The first n bytes of the last place are lost.                             *)
LEMMA PlacesRefuse ==
  ASSUME NEW L \in Nat, NEW P \in [0 .. L + 1 -> Seq(Byte)], NEW Q,
         DOMAIN Q = 0 .. L + 1, \A i \in 0 .. L : Q[i] = P[i],
         NEW n \in Nat, n <= Len(P[L + 1]),
         DOMAIN Q[L + 1] = 1 .. Len(P[L + 1]) - n,
         \A m \in 1 .. Len(P[L + 1]) - n : Q[L + 1][m] = P[L + 1][n + m],
         NEW acc, IsInjective(acc), DOMAIN acc \subseteq Int, NEW gone, Sound(P, acc, gone)
  PROVE  Sound(Q, acc, gone \cup {P[L + 1][m] : m \in 1 .. n})
<1> DEFINE om(i, m) == IF i = L + 1 THEN n + m ELSE m
           more == {P[L + 1][m] : m \in 1 .. n}
<1>0. /\ DOMAIN P = 0 .. L + 1 /\ L + 1 \in DOMAIN P /\ L + 1 \in DOMAIN Q
      /\ Len(P[L + 1]) \in Nat /\ DOMAIN P[L + 1] = 1 .. Len(P[L + 1])
      /\ \A i \in 0 .. L + 1 : DOMAIN P[i] \subseteq Nat
  <2>1. ASSUME NEW i \in 0 .. L + 1
        PROVE  DOMAIN P[i] = 1 .. Len(P[i]) /\ Len(P[i]) \in Nat
    <3>1. P[i] \in Seq(Byte)
      OBVIOUS
    <3> QED
      BY <3>1
  <2>2. /\ DOMAIN P = 0 .. L + 1 /\ L + 1 \in DOMAIN P /\ L + 1 \in DOMAIN Q
    OBVIOUS
  <2> QED
    BY <2>1, <2>2
<1>1. ASSUME NEW i \in DOMAIN Q, NEW m \in DOMAIN Q[i]
      PROVE  /\ i \in DOMAIN P /\ om(i, m) \in DOMAIN P[i] /\ m \in Nat
             /\ Q[i][m] = P[i][om(i, m)]
  <2>1. CASE i = L + 1
    <3>1. om(i, m) = n + m /\ m \in 1 .. Len(P[L + 1]) - n
      BY <2>1
    <3>2. n + m \in 1 .. Len(P[L + 1]) /\ m \in Nat
      BY <1>0, <3>1
    <3>3. Q[i][m] = P[L + 1][n + m]
      BY <2>1, <3>1
    <3> HIDE DEF om
    <3> QED
      BY <1>0, <2>1, <3>1, <3>2, <3>3
  <2>2. CASE i # L + 1
    <3>1. om(i, m) = m /\ Q[i] = P[i] /\ i \in DOMAIN P
      BY <1>0, <2>2
    <3> HIDE DEF om
    <3> QED
      BY <1>0, <1>1, <3>1
  <2> QED
    BY <2>1, <2>2
<1>2. OrderedIn(Q, acc)
  <2>1. ASSUME NEW i \in DOMAIN Q, NEW j \in DOMAIN Q, NEW m \in DOMAIN Q[i], NEW k \in DOMAIN Q[j],
               i < j \/ (i = j /\ m < k)
        PROVE  Before(acc, Q[i][m], Q[j][k])
    <3>1. m \in Nat /\ k \in Nat
      BY <1>1
    <3>2. i < j \/ (i = j /\ om(i, m) < om(j, k))
      BY <2>1, <3>1
    <3>3. /\ i \in DOMAIN P /\ om(i, m) \in DOMAIN P[i] /\ Q[i][m] = P[i][om(i, m)]
          /\ j \in DOMAIN P /\ om(j, k) \in DOMAIN P[j] /\ Q[j][k] = P[j][om(j, k)]
      BY <1>1
    <3> HIDE DEF om
    <3> QED
      BY <3>2, <3>3 DEF Sound, OrderedIn
  <2> QED
    BY <2>1 DEF OrderedIn
<1>3. KnownIn(Q, acc, gone \cup more)
  <2>1. more \subseteq Seen(acc)
    <3>1. ASSUME NEW m \in 1 .. n PROVE P[L + 1][m] \in Seen(acc)
      <4>1. m \in DOMAIN P[L + 1]
        BY <1>0
      <4> QED
        BY <1>0, <4>1 DEF Sound, KnownIn
    <3> QED
      BY <3>1
  <2>2. ASSUME NEW i \in DOMAIN Q, NEW m \in DOMAIN Q[i], NEW k \in 1 .. n
        PROVE  Q[i][m] # P[L + 1][k]
    <3>1. /\ i \in DOMAIN P /\ om(i, m) \in DOMAIN P[i] /\ Q[i][m] = P[i][om(i, m)] /\ m \in Nat
      BY <1>1
    <3>2. L + 1 \in DOMAIN P /\ k \in DOMAIN P[L + 1]
      BY <1>0
    <3>3. CASE i \in 0 .. L
      <4>1. Before(acc, P[i][om(i, m)], P[L + 1][k])
        <5>1. i < L + 1
          BY <3>3
        <5> HIDE DEF om
        <5> QED
          BY <3>1, <3>2, <5>1 DEF Sound, OrderedIn
      <4> QED
        BY <3>1, <4>1, BeforeDiffers
    <3>4. CASE i = L + 1
      <4>1. k < om(i, m)
        BY <2>2, <3>4
      <4>2. Before(acc, P[L + 1][k], P[i][om(i, m)])
        <5> HIDE DEF om
        <5> QED
          BY <3>1, <3>2, <3>4, <4>1 DEF Sound, OrderedIn
      <4>3. P[L + 1][k] # P[i][om(i, m)]
        <5> HIDE DEF om
        <5> QED
          BY <4>2, BeforeDiffers
      <4> QED
        BY <3>1, <4>3
    <3> QED
      BY <1>0, <3>1, <3>3, <3>4
  <2>3. ASSUME NEW i \in DOMAIN Q, NEW m \in DOMAIN Q[i]
        PROVE  Q[i][m] \in Seen(acc) \ (gone \cup more)
    <3>1. Q[i][m] \in Seen(acc) \ gone
      BY <1>1 DEF Sound, KnownIn
    <3> QED
      BY <2>2, <3>1
  <2> QED
    BY <2>1, <2>3 DEF Sound, KnownIn
<1>4. KeptIn(Q, acc, gone \cup more)
  <2>1. ASSUME NEW i \in DOMAIN P, NEW m \in DOMAIN P[i], P[i][m] \notin more
        PROVE  \E j \in DOMAIN Q : \E k \in DOMAIN Q[j] : Q[j][k] = P[i][m]
    <3>1. CASE i \in 0 .. L
      <4>1. Q[i] = P[i] /\ i \in DOMAIN Q
        BY <3>1
      <4> QED
        BY <4>1
    <3>2. CASE i = L + 1
      <4>1. ~(m <= n)
        BY <1>0, <2>1, <3>2
      <4>2. m - n \in 1 .. Len(P[L + 1]) - n /\ n + (m - n) = m
        BY <1>0, <3>2, <4>1
      <4>3. m - n \in DOMAIN Q[L + 1] /\ Q[L + 1][m - n] = P[L + 1][m]
        BY <4>2
      <4> QED
        BY <1>0, <3>2, <4>3
    <3> QED
      BY <1>0, <3>1, <3>2
  <2>2. ASSUME NEW b \in Seen(acc), b \notin gone \cup more
        PROVE  \E j \in DOMAIN Q : \E k \in DOMAIN Q[j] : Q[j][k] = b
    <3>1. PICK i \in DOMAIN P : \E m \in DOMAIN P[i] : P[i][m] = b
      BY <2>2 DEF Sound, KeptIn
    <3>2. PICK m \in DOMAIN P[i] : P[i][m] = b
      BY <3>1
    <3>3. \E j \in DOMAIN Q : \E k \in DOMAIN Q[j] : Q[j][k] = P[i][m]
      BY <2>1, <2>2, <3>2
    <3> QED
      BY <3>2, <3>3
  <2> QED
    BY <2>2 DEF KeptIn
<1> QED
  BY <1>2, <1>3, <1>4 DEF Sound

(* The bytes of the first write go to the end of the wire.                   *)
LEMMA PlacesDeliver ==
  ASSUME NEW L \in Nat, NEW P \in [0 .. L + 2 -> Seq(Byte)], NEW Q,
         DOMAIN Q = 0 .. L + 1, \A i \in 1 .. L + 1 : Q[i] = P[i + 1],
         Q[0] = P[0] \o P[1],
         NEW acc, NEW gone, Sound(P, acc, gone)
  PROVE  Sound(Q, acc, gone)
<1> DEFINE out == Len(P[0])
           oi(i, m) == IF i = 0 THEN IF m \in DOMAIN P[0] THEN 0 ELSE 1 ELSE i + 1
           om(i, m) == IF i = 0 THEN IF m \in DOMAIN P[0] THEN m ELSE m - out ELSE m
<1>0. /\ P[0] \in Seq(Byte) /\ P[1] \in Seq(Byte)
      /\ 0 \in DOMAIN P /\ 1 \in DOMAIN P /\ 0 \in DOMAIN Q
      /\ \A i \in 1 .. L + 1 : i + 1 \in DOMAIN P /\ DOMAIN P[i + 1] \subseteq Nat
  <2>1. ASSUME NEW i \in 1 .. L + 1
        PROVE  i + 1 \in DOMAIN P /\ DOMAIN P[i + 1] \subseteq Nat
    <3>1. i + 1 \in DOMAIN P /\ P[i + 1] \in Seq(Byte)
      OBVIOUS
    <3> QED
      BY <3>1
  <2>2. /\ P[0] \in Seq(Byte) /\ P[1] \in Seq(Byte)
        /\ 0 \in DOMAIN P /\ 1 \in DOMAIN P /\ 0 \in DOMAIN Q
    OBVIOUS
  <2> QED
    BY <2>1, <2>2
<1>a. /\ DOMAIN P[0] = 1 .. out /\ out \in Nat /\ DOMAIN P[1] = 1 .. Len(P[1]) /\ Len(P[1]) \in Nat
      /\ DOMAIN Q[0] = 1 .. out + Len(P[1])
  <2>1. DOMAIN (P[0] \o P[1]) = 1 .. out + Len(P[1])
    BY <1>0
  <2> QED
    BY <1>0, <2>1
<1>b. /\ \A m \in DOMAIN P[0] : Q[0][m] = P[0][m] /\ m \in DOMAIN Q[0]
      /\ \A m \in DOMAIN Q[0] : m \notin DOMAIN P[0] =>
           m - out \in DOMAIN P[1] /\ Q[0][m] = P[1][m - out]
      /\ \A k \in DOMAIN P[1] : out + k \in DOMAIN Q[0] /\ Q[0][out + k] = P[1][k]
  <2>1. Q[0] = P[0] \o P[1]
    OBVIOUS
  <2>2. /\ \A m \in DOMAIN P[0] : (P[0] \o P[1])[m] = P[0][m] /\ m \in DOMAIN (P[0] \o P[1])
        /\ \A m \in DOMAIN (P[0] \o P[1]) : m \notin DOMAIN P[0] =>
             m - out \in DOMAIN P[1] /\ (P[0] \o P[1])[m] = P[1][m - out]
        /\ \A k \in DOMAIN P[1] :
             out + k \in DOMAIN (P[0] \o P[1]) /\ (P[0] \o P[1])[out + k] = P[1][k]
    BY <1>0, Joined
  <2> QED
    BY <2>1, <2>2
<1> HIDE DEF out
<1>1. ASSUME NEW i \in DOMAIN Q, NEW m \in DOMAIN Q[i]
      PROVE  /\ oi(i, m) \in DOMAIN P /\ om(i, m) \in DOMAIN P[oi(i, m)] /\ m \in Nat
             /\ Q[i][m] = P[oi(i, m)][om(i, m)]
  <2>1. CASE i = 0 /\ m \in DOMAIN P[0]
    <3>1. oi(i, m) = 0 /\ om(i, m) = m
      BY <2>1
    <3> HIDE DEF oi, om
    <3> QED
      BY <1>0, <1>a, <1>b, <2>1, <3>1
  <2>2. CASE i = 0 /\ m \notin DOMAIN P[0]
    <3>1. oi(i, m) = 1 /\ om(i, m) = m - out
      BY <2>2
    <3> HIDE DEF oi, om
    <3>2. m \in DOMAIN Q[0] /\ m \in Nat
      <4>1. m \in DOMAIN Q[0]
        BY <2>2
      <4>2. m \in 1 .. out + Len(P[1])
        BY <1>a, <4>1
      <4> QED
        BY <1>a, <4>1, <4>2
    <3> QED
      BY <1>0, <1>b, <2>2, <3>1, <3>2
  <2>3. CASE i # 0
    <3>1. oi(i, m) = i + 1 /\ om(i, m) = m /\ i \in 1 .. L + 1 /\ Q[i] = P[i + 1]
      BY <2>3
    <3> HIDE DEF oi, om
    <3> QED
      BY <1>0, <1>1, <3>1
  <2> QED
    BY <2>1, <2>2, <2>3
<1>2. OrderedIn(Q, acc)
  <2>1. ASSUME NEW i \in DOMAIN Q, NEW j \in DOMAIN Q, NEW m \in DOMAIN Q[i], NEW k \in DOMAIN Q[j],
               i < j \/ (i = j /\ m < k)
        PROVE  Before(acc, Q[i][m], Q[j][k])
    <3>1. m \in Nat /\ k \in Nat
      BY <1>1
    <3>2. oi(i, m) < oi(j, k) \/ (oi(i, m) = oi(j, k) /\ om(i, m) < om(j, k))
      <4>1. CASE i = 0 /\ j = 0
        <5>1. m < k
          BY <2>1, <4>1
        <5>2. k \in DOMAIN P[0] => m \in DOMAIN P[0]
          <6>1. m \in DOMAIN Q[0]
            BY <4>1
          <6>2. m \in 1 .. out + Len(P[1])
            BY <1>a, <6>1
          <6> HIDE DEF oi, om
          <6> QED
            BY <1>a, <3>1, <5>1, <6>2
        <5> QED
          BY <1>a, <3>1, <4>1, <5>1, <5>2
      <4>2. CASE i = 0 /\ j # 0
        <5>1. oi(j, k) = j + 1 /\ j >= 1
          BY <4>2
        <5>2. oi(i, m) \in {0, 1}
          BY <4>2
        <5> HIDE DEF oi, om
        <5> QED
          BY <5>1, <5>2
      <4>3. CASE i # 0
        <5>1. j # 0 /\ i \in Nat /\ j \in Nat
          BY <2>1, <4>3
        <5>2. oi(i, m) = i + 1 /\ oi(j, k) = j + 1 /\ om(i, m) = m /\ om(j, k) = k
          BY <4>3, <5>1
        <5> HIDE DEF oi, om
        <5> QED
          BY <2>1, <5>1, <5>2
      <4> QED
        BY <4>1, <4>2, <4>3
    <3>3. /\ oi(i, m) \in DOMAIN P /\ om(i, m) \in DOMAIN P[oi(i, m)]
          /\ Q[i][m] = P[oi(i, m)][om(i, m)]
          /\ oi(j, k) \in DOMAIN P /\ om(j, k) \in DOMAIN P[oi(j, k)]
          /\ Q[j][k] = P[oi(j, k)][om(j, k)]
      BY <1>1
    <3> HIDE DEF oi, om
    <3> QED
      BY <3>2, <3>3 DEF Sound, OrderedIn
  <2> QED
    BY <2>1 DEF OrderedIn
<1>3. KnownIn(Q, acc, gone)
  <2> HIDE DEF oi, om
  <2> QED
    BY <1>1 DEF Sound, KnownIn
<1>4. KeptIn(Q, acc, gone)
  <2>1. ASSUME NEW i \in DOMAIN P, NEW m \in DOMAIN P[i]
        PROVE  \E j \in DOMAIN Q : \E k \in DOMAIN Q[j] : Q[j][k] = P[i][m]
    <3>1. CASE i = 0
      BY <1>0, <1>b, <3>1
    <3>2. CASE i = 1
      <4>1. out + m \in DOMAIN Q[0] /\ Q[0][out + m] = P[1][m]
        BY <1>b, <3>2
      <4> QED
        BY <1>0, <3>2, <4>1
    <3>3. CASE i \in 2 .. L + 2
      <4>1. i - 1 \in 1 .. L + 1 /\ i - 1 + 1 = i /\ i - 1 \in DOMAIN Q
        BY <3>3
      <4>2. Q[i - 1] = P[i]
        BY <4>1
      <4> QED
        BY <4>1, <4>2
    <3> QED
      BY <3>1, <3>2, <3>3
  <2>2. ASSUME NEW b \in Seen(acc), b \notin gone
        PROVE  \E j \in DOMAIN Q : \E k \in DOMAIN Q[j] : Q[j][k] = b
    <3>1. PICK i \in DOMAIN P : \E m \in DOMAIN P[i] : P[i][m] = b
      BY <2>2 DEF Sound, KeptIn
    <3>2. PICK m \in DOMAIN P[i] : P[i][m] = b
      BY <3>1
    <3>3. \E j \in DOMAIN Q : \E k \in DOMAIN Q[j] : Q[j][k] = P[i][m]
      BY <2>1, <3>2
    <3> QED
      BY <3>2, <3>3
  <2> QED
    BY <2>2 DEF KeptIn
<1> QED
  BY <1>2, <1>3, <1>4 DEF Sound

(* The bytes of the first write are lost.                                    *)
LEMMA PlacesFail ==
  ASSUME NEW L \in Nat, NEW P \in [0 .. L + 2 -> Seq(Byte)], NEW Q,
         DOMAIN Q = 0 .. L + 1, \A i \in 1 .. L + 1 : Q[i] = P[i + 1], Q[0] = P[0],
         NEW acc, IsInjective(acc), DOMAIN acc \subseteq Int, NEW gone, Sound(P, acc, gone)
  PROVE  Sound(Q, acc, gone \cup Seen(P[1]))
<1> DEFINE oi(i) == IF i = 0 THEN 0 ELSE i + 1
<1>0. /\ 0 \in DOMAIN P /\ 1 \in DOMAIN P
      /\ \A i \in DOMAIN Q : oi(i) \in DOMAIN P /\ oi(i) # 1 /\ Q[i] = P[oi(i)]
      /\ \A i, j \in DOMAIN Q : i < j => oi(i) < oi(j)
  <2>1. 0 \in DOMAIN P /\ 1 \in DOMAIN P /\ 0 \in DOMAIN Q
    OBVIOUS
  <2>2. ASSUME NEW i \in DOMAIN Q
        PROVE  oi(i) \in DOMAIN P /\ oi(i) # 1 /\ Q[i] = P[oi(i)]
    <3>1. CASE i = 0
      BY <2>1, <3>1
    <3>2. CASE i # 0
      <4>1. i \in 1 .. L + 1
        BY <3>2
      <4>2. oi(i) = i + 1 /\ i + 1 # 1 /\ i + 1 \in DOMAIN P /\ Q[i] = P[i + 1]
        BY <3>2, <4>1
      <4> HIDE DEF oi
      <4> QED
        BY <4>2
    <3> QED
      BY <3>1, <3>2
  <2>3. ASSUME NEW i \in DOMAIN Q, NEW j \in DOMAIN Q, i < j
        PROVE  oi(i) < oi(j)
    BY <2>3
  <2> HIDE DEF oi
  <2> QED
    BY <2>1, <2>2, <2>3
<1> HIDE DEF oi
<1>1. OrderedIn(Q, acc)
  BY <1>0 DEF Sound, OrderedIn
<1>2. KnownIn(Q, acc, gone \cup Seen(P[1]))
  <2>1. Seen(P[1]) \subseteq Seen(acc)
    BY <1>0 DEF Sound, KnownIn, Seen
  <2>2. ASSUME NEW i \in DOMAIN P, i # 1, NEW m \in DOMAIN P[i], NEW k \in DOMAIN P[1]
        PROVE  P[i][m] # P[1][k]
    <3>1. CASE i < 1
      <4>1. Before(acc, P[i][m], P[1][k])
        BY <1>0, <3>1 DEF Sound, OrderedIn
      <4> QED
        BY <4>1, BeforeDiffers
    <3>2. CASE 1 < i
      <4>1. Before(acc, P[1][k], P[i][m])
        BY <1>0, <3>2 DEF Sound, OrderedIn
      <4> QED
        BY <4>1, BeforeDiffers
    <3> QED
      BY <2>2, <3>1, <3>2
  <2>3. ASSUME NEW i \in DOMAIN Q, NEW m \in DOMAIN Q[i]
        PROVE  Q[i][m] \in Seen(acc) \ (gone \cup Seen(P[1]))
    <3>1. oi(i) \in DOMAIN P /\ oi(i) # 1 /\ m \in DOMAIN P[oi(i)] /\ Q[i][m] = P[oi(i)][m]
      BY <1>0
    <3>2. Q[i][m] \in Seen(acc) \ gone
      BY <3>1 DEF Sound, KnownIn
    <3>3. Q[i][m] \notin Seen(P[1])
      BY <2>2, <3>1 DEF Seen
    <3> QED
      BY <3>2, <3>3
  <2> QED
    BY <2>1, <2>3 DEF Sound, KnownIn
<1>3. KeptIn(Q, acc, gone \cup Seen(P[1]))
  <2>1. ASSUME NEW b \in Seen(acc), b \notin gone, b \notin Seen(P[1])
        PROVE  \E j \in DOMAIN Q : \E k \in DOMAIN Q[j] : Q[j][k] = b
    <3>1. PICK i \in DOMAIN P : \E m \in DOMAIN P[i] : P[i][m] = b
      BY <2>1 DEF Sound, KeptIn
    <3>2. i # 1
      BY <2>1, <3>1 DEF Seen
    <3>3. PICK j \in DOMAIN Q : Q[j] = P[i]
      <4>1. CASE i = 0
        <5>1. 0 \in DOMAIN Q /\ Q[0] = P[0]
          OBVIOUS
        <5> QED
          BY <4>1, <5>1
      <4>2. CASE i # 0
        <5>1. i - 1 \in 1 .. L + 1 /\ i - 1 + 1 = i /\ i - 1 \in DOMAIN Q
          BY <3>2, <4>2
        <5> QED
          BY <5>1
      <4> QED
        BY <4>1, <4>2
    <3> QED
      BY <3>1, <3>3
  <2> QED
    BY <2>1 DEF KeptIn
<1> QED
  BY <1>1, <1>2, <1>3 DEF Sound

-----------------------------------------------------------------------------
(* The steps, as they move the bytes.                                        *)
StagesOf(out, busy, mem, queue) ==
  [i \in 0 .. Len(busy) + 1 |->
     IF i = 0 THEN out ELSE IF i = Len(busy) + 1 THEN queue ELSE mem[busy[i]]]

LEMMA StagesAre ==
  /\ Stages = StagesOf(wire, inflight, buf, ring)
  /\ Stages' = StagesOf(wire', inflight', buf', ring')
BY DEF Stages, Places, Place, StagesOf

Fitting(out, busy, mem, queue) ==
  /\ out \in Seq(Byte) /\ busy \in Seq(Params)
  /\ mem \in [Params -> Seq(Byte)] /\ queue \in Seq(Byte)

Shape(P, out, busy, mem, queue) ==
  /\ Len(busy) \in Nat
  /\ P \in [0 .. Len(busy) + 1 -> Seq(Byte)]
  /\ P[0] = out /\ P[Len(busy) + 1] = queue
  /\ \A i \in 1 .. Len(busy) : P[i] = mem[busy[i]] /\ busy[i] \in Params

LEMMA StagesShape ==
  ASSUME NEW out, NEW busy, NEW mem, NEW queue, Fitting(out, busy, mem, queue)
  PROVE  Shape(StagesOf(out, busy, mem, queue), out, busy, mem, queue)
<1>0. /\ out \in Seq(Byte) /\ busy \in Seq(Params)
      /\ mem \in [Params -> Seq(Byte)] /\ queue \in Seq(Byte)
  BY DEF Fitting
<1>1. Len(busy) \in Nat /\ \A i \in 1 .. Len(busy) : busy[i] \in Params
  BY <1>0
<1>2. \A i \in 1 .. Len(busy) : mem[busy[i]] \in Seq(Byte)
  BY <1>0, <1>1
<1>3. Len(busy) + 1 # 0 /\ Len(busy) + 1 \in 0 .. Len(busy) + 1 /\ 0 \in 0 .. Len(busy) + 1
  BY <1>1
<1>4. \A i \in 1 .. Len(busy) : i # 0 /\ i # Len(busy) + 1 /\ i \in 0 .. Len(busy) + 1
  BY <1>1
<1>5. \A i \in 0 .. Len(busy) + 1 : i = 0 \/ i = Len(busy) + 1 \/ i \in 1 .. Len(busy)
  BY <1>1
<1> QED
  BY <1>0, <1>1, <1>2, <1>3, <1>4, <1>5 DEF StagesOf, Shape

LEMMA AcceptedOnce ==
  ASSUME TypeOK, EachSenderInOrder
  PROVE  IsInjective(accepted) /\ DOMAIN accepted \subseteq Int
<1>1. accepted \in Seq(Byte) /\ DOMAIN accepted \subseteq Int
  BY DEF TypeOK
<1>2. ASSUME NEW i \in DOMAIN accepted, NEW j \in DOMAIN accepted, accepted[i] = accepted[j], i < j
      PROVE  FALSE
  <2>1. /\ accepted[i].from \in Senders /\ accepted[i].msg \in Nat /\ accepted[i].at \in Nat
    <3>1. accepted[i] \in Byte
      BY <1>1
    <3> QED
      BY <3>1 DEF Byte
  <2>2. Precedes(accepted[i], accepted[i])
    BY <1>2, <2>1 DEF EachSenderInOrder
  <2> QED
    BY <2>1, <2>2 DEF Precedes
<1>3. ASSUME NEW i \in DOMAIN accepted, NEW j \in DOMAIN accepted, accepted[i] = accepted[j]
      PROVE  i = j
  BY <1>1, <1>2, <1>3
<1> QED
  BY <1>1, <1>3 DEF IsInjective

LEMMA WriteRingPlaces ==
  ASSUME BytesInv, NEW s \in Senders, WriteRing(s)
  PROVE  Sound(Stages, accepted, lost)'
<1>1. PICK new \in Seq(Byte) :
        /\ NextBytes(s, new)
        /\ ring' = ring \o new /\ accepted' = accepted \o new
  BY WriteRingEffect
<1>2. wire' = wire /\ inflight' = inflight /\ buf' = buf /\ lost' = lost
  BY DEF WriteRing, loopVars
<1>3. /\ wire \in Seq(Byte) /\ inflight \in Seq(Params) /\ buf \in [Params -> Seq(Byte)]
      /\ ring \in Seq(Byte) /\ accepted \in Seq(Byte) /\ iret \in [Senders -> Nat]
  BY DEF BytesInv, TypeOK
<1>4. Seen(new) \cap Seen(accepted) = {}
  <2>1. ASSUME NEW k \in DOMAIN new, NEW i \in DOMAIN accepted, new[k] = accepted[i]
        PROVE  FALSE
    <3>1. accepted[i] = [from |-> s, msg |-> Current(s), at |-> iret[s] + k] /\ k \in Nat \ {0}
      BY <1>1, <2>1 DEF NextBytes
    <3>2. iret[s] + k <= iret[s]
      BY <3>1 DEF BytesInv, Taken, TakenBefore
    <3> QED
      BY <1>3, <3>1, <3>2
  <2> QED
    BY <2>1 DEF Seen
<1> DEFINE L == Len(inflight)
<1>5. ring \o new \in Seq(Byte)
  BY <1>3
<1>p. PICK P : P = StagesOf(wire, inflight, buf, ring)
  OBVIOUS
<1>q. PICK Q : Q = StagesOf(wire, inflight, buf, ring \o new)
  OBVIOUS
<1>6. /\ L \in Nat /\ P \in [0 .. L + 1 -> Seq(Byte)] /\ P[0] = wire /\ P[L + 1] = ring
      /\ \A i \in 1 .. L : P[i] = buf[inflight[i]]
  <2>1. Fitting(wire, inflight, buf, ring)
    BY <1>3 DEF Fitting
  <2>2. Shape(P, wire, inflight, buf, ring)
    BY <1>p, <2>1, StagesShape
  <2> QED
    BY <2>2 DEF Shape
<1>7. /\ Q \in [0 .. L + 1 -> Seq(Byte)] /\ Q[0] = wire /\ Q[L + 1] = ring \o new
      /\ \A i \in 1 .. L : Q[i] = buf[inflight[i]]
  <2>1. Fitting(wire, inflight, buf, ring \o new)
    BY <1>3, <1>5 DEF Fitting
  <2>2. Shape(Q, wire, inflight, buf, ring \o new)
    BY <1>q, <2>1, StagesShape
  <2> QED
    BY <2>2 DEF Shape
<1>8. Sound(P, accepted, lost)
  BY <1>p, StagesAre DEF BytesInv
<1> HIDE DEF L
<1>9. DOMAIN Q = 0 .. L + 1 /\ (\A i \in 0 .. L : Q[i] = P[i]) /\ Q[L + 1] = P[L + 1] \o new
  BY <1>6, <1>7
<1>10. Sound(Q, accepted \o new, lost)
  BY <1>3, <1>4, <1>6, <1>8, <1>9, PlacesGrow
<1>11. Stages' = Q
  BY <1>1, <1>2, <1>q, StagesAre
<1> QED
  BY <1>1, <1>2, <1>10, <1>11

(* What a turn of the loop of _send takes from the ring.                     *)
LEMMA TakeFromRing ==
  ASSUME ring \in Seq(Byte), Len(ring) <= BUFFER_SIZE
  PROVE  LET first == Fifo!FirstOf(ring, BUFFER_SIZE)
             rest == Fifo!AfterRead(ring, BUFFER_SIZE)
         IN  \E n \in Nat :
               /\ n <= Len(ring)
               /\ first \in Seq(Byte) /\ DOMAIN first = 1 .. n
               /\ \A m \in 1 .. n : first[m] = ring[m]
               /\ rest \in Seq(Byte) /\ Len(rest) <= BUFFER_SIZE
               /\ DOMAIN rest = 1 .. Len(ring) - n
               /\ \A m \in 1 .. Len(ring) - n : rest[m] = ring[n + m]
<1> DEFINE n == Fifo!Taken(ring, BUFFER_SIZE)
<1>1. n \in Nat /\ n <= Len(ring) /\ BUFFER_SIZE \in Nat /\ Len(ring) \in Nat
  BY SendAssumption DEF Fifo!Taken, Fifo!Least
<1> HIDE DEF n
<1>2. /\ SubSeq(ring, 1, n) \in Seq(Byte) /\ DOMAIN SubSeq(ring, 1, n) = 1 .. n
      /\ \A m \in 1 .. n : SubSeq(ring, 1, n)[m] = ring[m]
  BY <1>1
<1>3. /\ SubSeq(ring, n + 1, Len(ring)) \in Seq(Byte)
      /\ Len(SubSeq(ring, n + 1, Len(ring))) = Len(ring) - n
  BY <1>1
<1>4. ASSUME NEW m \in 1 .. Len(ring) - n
      PROVE  SubSeq(ring, n + 1, Len(ring))[m] = ring[n + m]
  <2>1. n + 1 + m - 1 = n + m
    BY <1>1
  <2>2. SubSeq(ring, n + 1, Len(ring))[m] = ring[n + 1 + m - 1]
    BY <1>1
  <2> QED
    BY <2>1, <2>2
<1>5. DOMAIN SubSeq(ring, n + 1, Len(ring)) = 1 .. Len(ring) - n
  BY <1>3
<1>6. Len(ring) - n <= BUFFER_SIZE
  BY <1>1
<1> QED
  BY <1>1, <1>2, <1>3, <1>4, <1>5, <1>6 DEF Fifo!FirstOf, Fifo!AfterRead, n

LEMMA SendOneBytes ==
  ASSUME BytesInv, MemoryLeft, SendOne
  PROVE  TypeOK' /\ Owned' /\ Sound(Stages, accepted, lost)'
<1> DEFINE first == Fifo!FirstOf(ring, BUFFER_SIZE)
           rest == Fifo!AfterRead(ring, BUFFER_SIZE)
           L == Len(inflight)
<1>1. /\ wire \in Seq(Byte) /\ inflight \in Seq(Params) /\ buf \in [Params -> Seq(Byte)]
      /\ ring \in Seq(Byte) /\ accepted \in Seq(Byte) /\ avail_params \in Seq(Params)
      /\ Len(ring) <= BUFFER_SIZE /\ TypeOK /\ Owned
  BY DEF BytesInv, TypeOK
<1>2. PICK p : p = FetchedParam
  OBVIOUS
<1>3. /\ p \in Params /\ p \notin Seen(AfterFetch) /\ p \notin Seen(inflight)
      /\ AfterFetch \in Seq(Params) /\ Len(AfterFetch) <= MAXLISTSIZE
      /\ Apart(AfterFetch, inflight)
  BY <1>1, <1>2, Fetching
<1>4. /\ buf' = [buf EXCEPT ![p] = first]
      /\ ring' = rest
      /\ \/ inflight' = Append(inflight, p) /\ avail_params' = AfterFetch /\ lost' = lost
         \/ /\ inflight' = inflight /\ avail_params' = Recycled(AfterFetch, p)
            /\ lost' = lost \cup Seen(buf'[p])
      /\ UNCHANGED <<async_pending, doing, wire, userVars, closeVars>>
  BY <1>2 DEF SendOne
<1>5. PICK n \in Nat :
        /\ n <= Len(ring)
        /\ first \in Seq(Byte) /\ DOMAIN first = 1 .. n
        /\ \A m \in 1 .. n : first[m] = ring[m]
        /\ rest \in Seq(Byte) /\ Len(rest) <= BUFFER_SIZE
        /\ DOMAIN rest = 1 .. Len(ring) - n
        /\ \A m \in 1 .. Len(ring) - n : rest[m] = ring[n + m]
  BY <1>1, TakeFromRing
<1> HIDE DEF first, rest, L
<1>6. buf' \in [Params -> Seq(Byte)] /\ buf'[p] = first
  BY <1>1, <1>3, <1>4, <1>5
<1>7. inflight' \in Seq(Params) /\ avail_params' \in Seq(Params) /\ Owned'
  <2>0. MAXLISTSIZE \in Nat
    BY SendAssumption
  <2>1. CASE inflight' = Append(inflight, p) /\ avail_params' = AfterFetch
    <3>1. Append(inflight, p) \in Seq(Params) /\ Apart(AfterFetch, Append(inflight, p))
      BY <1>1, <1>3, Sending
    <3> QED
      BY <1>3, <2>0, <2>1, <3>1 DEF Owned
  <2>2. CASE inflight' = inflight /\ avail_params' = Recycled(AfterFetch, p)
    <3>1. Len(AfterFetch) <= MAXLISTSIZE + 1
      BY <1>3, <2>0
    <3>2. /\ Recycled(AfterFetch, p) \in Seq(Params)
          /\ Apart(Recycled(AfterFetch, p), inflight)
          /\ Len(Recycled(AfterFetch, p)) <= MAXLISTSIZE + 1
      BY <1>1, <1>3, <3>1, Recycling
    <3> QED
      BY <1>1, <2>2, <3>2 DEF Owned
  <2> QED
    BY <1>4, <2>1, <2>2
<1>8. PICK P : P = StagesOf(wire, inflight, buf, ring)
  OBVIOUS
<1>9. /\ L \in Nat /\ P \in [0 .. L + 1 -> Seq(Byte)] /\ P[0] = wire /\ P[L + 1] = ring
      /\ \A i \in 1 .. L : P[i] = buf[inflight[i]]
  <2>1. Fitting(wire, inflight, buf, ring)
    BY <1>1 DEF Fitting
  <2>2. Shape(P, wire, inflight, buf, ring)
    BY <1>8, <2>1, StagesShape
  <2> QED
    BY <2>2 DEF Shape, L
<1>10. Sound(P, accepted, lost)
  BY <1>8, StagesAre DEF BytesInv
<1>11. \A i \in 1 .. L : buf'[inflight[i]] = buf[inflight[i]]
  <2>1. ASSUME NEW i \in 1 .. L PROVE buf'[inflight[i]] = buf[inflight[i]]
    <3>1. i \in DOMAIN inflight /\ inflight[i] \in Params
      BY <1>1 DEF L
    <3>2. inflight[i] # p
      BY <1>3, <3>1 DEF Seen
    <3> QED
      BY <1>1, <1>4, <3>1, <3>2
  <2> QED
    BY <2>1
<1>12. PICK Q : Q = StagesOf(wire, inflight', buf', rest)
  OBVIOUS
<1>13. Shape(Q, wire, inflight', buf', rest)
  <2>1. Fitting(wire, inflight', buf', rest)
    BY <1>1, <1>5, <1>6, <1>7 DEF Fitting
  <2> QED
    BY <1>12, <2>1, StagesShape
<1>14. Sound(Q, accepted, lost')
  <2>1. CASE inflight' = Append(inflight, p) /\ lost' = lost
    <3>1. /\ Len(inflight') = L + 1 /\ inflight'[L + 1] = p
          /\ \A i \in 1 .. L : inflight'[i] = inflight[i]
      BY <1>1, <2>1 DEF L
    <3>2. L + 1 + 1 = L + 2 /\ L + 1 \in 1 .. L + 1 /\ \A i \in 1 .. L : i \in 1 .. L + 1
      BY <1>9
    <3>3. /\ Q \in [0 .. L + 2 -> Seq(Byte)] /\ Q[0] = wire /\ Q[L + 2] = rest
          /\ \A i \in 1 .. L + 1 : Q[i] = buf'[inflight'[i]]
      BY <1>13, <3>1, <3>2 DEF Shape
    <3>4. \A i \in 0 .. L : Q[i] = P[i]
      <4>1. \A i \in 1 .. L : Q[i] = P[i]
        <5>1. ASSUME NEW i \in 1 .. L PROVE Q[i] = P[i]
          <6>1. Q[i] = buf'[inflight'[i]] /\ inflight'[i] = inflight[i]
            BY <3>1, <3>2, <3>3
          <6>2. P[i] = buf[inflight[i]] /\ buf'[inflight[i]] = buf[inflight[i]]
            BY <1>9, <1>11
          <6> QED
            BY <6>1, <6>2
        <5> QED
          BY <5>1
      <4> QED
        BY <1>9, <3>3, <4>1
    <3>5. Q[L + 1] = first
      BY <1>6, <3>1, <3>2, <3>3
    <3>6. /\ DOMAIN Q = 0 .. L + 2 /\ n <= Len(P[L + 1])
          /\ DOMAIN Q[L + 1] = 1 .. n /\ \A m \in 1 .. n : Q[L + 1][m] = P[L + 1][m]
          /\ DOMAIN Q[L + 2] = 1 .. Len(P[L + 1]) - n
          /\ \A m \in 1 .. Len(P[L + 1]) - n : Q[L + 2][m] = P[L + 1][n + m]
      BY <1>5, <1>9, <3>3, <3>5
    <3>7. Sound(Q, accepted, lost)
      <4>1. SplitAt(n, P, Q, L)
        BY <1>9, <3>4, <3>6 DEF SplitAt
      <4> QED
        BY <1>10, <4>1, PlacesSplit
    <3> QED
      BY <2>1, <3>7
  <2>2. CASE inflight' = inflight /\ lost' = lost \cup Seen(buf'[p])
    <3>1. /\ Q \in [0 .. L + 1 -> Seq(Byte)] /\ Q[0] = wire /\ Q[L + 1] = rest
          /\ \A i \in 1 .. L : Q[i] = buf'[inflight[i]]
      BY <1>13, <2>2 DEF Shape, L
    <3>2. \A i \in 0 .. L : Q[i] = P[i]
      <4>1. \A i \in 1 .. L : Q[i] = P[i]
        BY <1>9, <1>11, <3>1
      <4> QED
        BY <1>9, <3>1, <4>1
    <3>3. /\ DOMAIN Q = 0 .. L + 1 /\ n <= Len(P[L + 1])
          /\ DOMAIN Q[L + 1] = 1 .. Len(P[L + 1]) - n
          /\ \A m \in 1 .. Len(P[L + 1]) - n : Q[L + 1][m] = P[L + 1][n + m]
      BY <1>5, <1>9, <3>1
    <3>4. IsInjective(accepted) /\ DOMAIN accepted \subseteq Int
      BY AcceptedOnce DEF BytesInv
    <3>5. Sound(Q, accepted, lost \cup {P[L + 1][m] : m \in 1 .. n})
      BY <1>9, <1>10, <3>2, <3>3, <3>4, PlacesRefuse
    <3>6. Seen(buf'[p]) = {P[L + 1][m] : m \in 1 .. n}
      <4>1. Seen(buf'[p]) = {first[m] : m \in 1 .. n}
        BY <1>5, <1>6 DEF Seen
      <4>2. \A m \in 1 .. n : first[m] = P[L + 1][m]
        BY <1>5, <1>9
      <4> QED
        BY <4>1, <4>2
    <3> QED
      BY <2>2, <3>5, <3>6
  <2> QED
    BY <1>4, <2>1, <2>2
<1>15. Sound(Stages, accepted, lost)'
  <2>1. Stages' = Q /\ accepted' = accepted
    BY <1>4, <1>12, StagesAre DEF userVars
  <2> QED
    BY <1>14, <2>1
<1>16. TypeOK'
  <2>1. lost' \subseteq Byte
    <3>1. accepted' = accepted
      BY <1>4 DEF userVars
    <3>2. lost' \subseteq Seen(accepted)
      BY <1>14 DEF Sound, KnownIn
    <3>3. Seen(accepted) \subseteq Byte
      BY <1>1 DEF Seen
    <3> QED
      BY <3>2, <3>3
  <2> QED
    BY <1>1, <1>4, <1>5, <1>6, <1>7, <2>1 DEF TypeOK, userVars, closeVars
<1> QED
  BY <1>7, <1>15, <1>16

LEMMA AnswerBytes ==
  ASSUME BytesInv, OnSend \/ OnSendError
  PROVE  TypeOK' /\ Owned' /\ Sound(Stages, accepted, lost)'
<1> DEFINE L == Len(inflight) - 1
           rest == Tail(inflight)
           b == buf[inflight[1]]
<1>1. /\ wire \in Seq(Byte) /\ inflight \in Seq(Params) /\ buf \in [Params -> Seq(Byte)]
      /\ ring \in Seq(Byte) /\ accepted \in Seq(Byte) /\ TypeOK /\ Owned
      /\ inflight # <<>>
  BY DEF BytesInv, TypeOK, OnSend, OnSendError
<1>2. /\ Head(inflight) = inflight[1] /\ inflight[1] \in Params
      /\ rest \in Seq(Params) /\ Len(rest) = L
      /\ \A i \in DOMAIN rest : rest[i] = inflight[i + 1]
      /\ Recycled(avail_params, inflight[1]) \in Seq(Params)
      /\ Apart(Recycled(avail_params, inflight[1]), rest)
      /\ Len(Recycled(avail_params, inflight[1])) <= MAXLISTSIZE + 1
  BY <1>1, Answering
<1>3. L \in Nat /\ Len(inflight) = L + 1 /\ DOMAIN rest = 1 .. L
  BY <1>1, <1>2
<1>4. /\ inflight' = rest /\ buf' = buf /\ ring' = ring /\ accepted' = accepted
      /\ avail_params' = Recycled(avail_params, inflight[1])
      /\ UNCHANGED <<async_pending, userVars, closeVars>>
      /\ \/ wire' = wire \o b /\ lost' = lost /\ doing' \in {"drain", "drain_closing"}
         \/ wire' = wire /\ lost' = lost \cup Seen(b) /\ doing' = doing
  BY <1>2 DEF OnSend, OnSendError, userVars
<1>5. Owned'
  BY <1>2, <1>4 DEF Owned
<1>6. b \in Seq(Byte)
  BY <1>1, <1>2
<1> HIDE DEF L, rest, b
<1>7. wire' \in Seq(Byte)
  <2>1. wire \o b \in Seq(Byte)
    BY <1>1, <1>6
  <2> QED
    BY <1>1, <1>4, <2>1
<1>8. PICK P : P = StagesOf(wire, inflight, buf, ring)
  OBVIOUS
<1>9. /\ P \in [0 .. L + 2 -> Seq(Byte)] /\ P[0] = wire /\ P[L + 2] = ring
      /\ \A i \in 1 .. L + 1 : P[i] = buf[inflight[i]]
  <2>1. Fitting(wire, inflight, buf, ring)
    BY <1>1 DEF Fitting
  <2>2. Shape(P, wire, inflight, buf, ring)
    BY <1>8, <2>1, StagesShape
  <2>3. L + 1 + 1 = L + 2
    BY <1>3
  <2> QED
    BY <1>3, <2>2, <2>3 DEF Shape
<1>10. PICK Q : Q = StagesOf(wire', rest, buf, ring)
  OBVIOUS
<1>11. /\ Q \in [0 .. L + 1 -> Seq(Byte)] /\ Q[0] = wire' /\ Q[L + 1] = ring
       /\ \A i \in 1 .. L : Q[i] = buf[rest[i]]
  <2>1. Fitting(wire', rest, buf, ring)
    BY <1>1, <1>2, <1>7 DEF Fitting
  <2>2. Shape(Q, wire', rest, buf, ring)
    BY <1>10, <2>1, StagesShape
  <2> QED
    BY <1>2, <2>2 DEF Shape
<1>12. Sound(P, accepted, lost)
  BY <1>8, StagesAre DEF BytesInv
<1>13. P[1] = b
  BY <1>3, <1>9 DEF b
<1>14. /\ DOMAIN Q = 0 .. L + 1
       /\ \A i \in 1 .. L + 1 : Q[i] = P[i + 1]
  <2>1. ASSUME NEW i \in 1 .. L + 1 PROVE Q[i] = P[i + 1]
    <3>1. CASE i = L + 1
      <4>1. i + 1 = L + 2
        BY <1>3, <3>1
      <4> QED
        BY <1>9, <1>11, <3>1, <4>1
    <3>2. CASE i # L + 1
      <4>1. i \in 1 .. L /\ i + 1 \in 1 .. L + 1
        BY <1>3, <3>2
      <4>2. rest[i] = inflight[i + 1]
        BY <1>2, <1>3, <4>1
      <4> QED
        BY <1>9, <1>11, <4>1, <4>2
    <3> QED
      BY <3>1, <3>2
  <2> QED
    BY <1>11, <2>1
<1>15. Sound(Q, accepted, lost')
  <2>1. CASE wire' = wire \o b /\ lost' = lost
    <3>1. Q[0] = P[0] \o P[1]
      BY <1>9, <1>11, <1>13, <2>1
    <3>2. Sound(Q, accepted, lost)
      BY <1>3, <1>9, <1>12, <1>14, <3>1, PlacesDeliver
    <3> QED
      BY <2>1, <3>2
  <2>2. CASE wire' = wire /\ lost' = lost \cup Seen(b)
    <3>1. Q[0] = P[0]
      BY <1>9, <1>11, <2>2
    <3>2. IsInjective(accepted) /\ DOMAIN accepted \subseteq Int
      BY AcceptedOnce DEF BytesInv
    <3>3. Sound(Q, accepted, lost \cup Seen(P[1]))
      BY <1>3, <1>9, <1>12, <1>14, <3>1, <3>2, PlacesFail
    <3> QED
      BY <1>13, <2>2, <3>3
  <2> QED
    BY <1>4, <2>1, <2>2
<1>16. Sound(Stages, accepted, lost)'
  <2>1. Stages' = Q
    BY <1>4, <1>10, StagesAre
  <2> QED
    BY <1>4, <1>15, <2>1
<1>17. TypeOK'
  <2>1. lost' \subseteq Byte
    <3>1. lost' \subseteq Seen(accepted)
      BY <1>15 DEF Sound, KnownIn
    <3>2. Seen(accepted) \subseteq Byte
      BY <1>1 DEF Seen
    <3> QED
      BY <3>1, <3>2
  <2>2. doing' \in {"poll", "process", "closing", "ended"} \cup DOMAIN BackFrom
    BY <1>1, <1>4 DEF TypeOK, BackFrom
  <2> QED
    BY <1>1, <1>2, <1>4, <1>7, <2>1, <2>2 DEF TypeOK, userVars, closeVars
<1> QED
  BY <1>5, <1>16, <1>17

(* Steps that leave the bytes where they are.                                *)
LEMMA PlacesAside ==
  ASSUME BytesInv, UNCHANGED <<avail_params, inflight, buf, ring, wire, accepted, lost>>
  PROVE  Owned' /\ Sound(Stages, accepted, lost)'
<1>1. Stages' = Stages
  BY StagesAre
<1> QED
  BY <1>1 DEF BytesInv, Owned

LEMMA OtherLoopBytes ==
  ASSUME BytesInv, SendDone \/ AsyncCB \/ OnRecv \/ Processed \/ RunEnds \/ UNCHANGED vars
  PROVE  TypeOK' /\ Owned' /\ Sound(Stages, accepted, lost)'
<1>1. /\ UNCHANGED <<avail_params, inflight, buf, ring, wire, lost, userVars, is_user_closed, closer>>
      /\ \/ is_closed' = is_closed \/ is_closed' = TRUE
      /\ \/ async_pending' = async_pending \/ async_pending' = FALSE
      /\ doing' \in {"poll", "process", "closing", "ended"} \cup DOMAIN BackFrom
  <2>1. CASE SendDone
    <3>1. doing' \in {"poll", "process", "closing"}
      BY <2>1 DEF SendDone, Draining, BackFrom
    <3> QED
      BY <2>1, <3>1 DEF SendDone, closeVars
  <2>2. CASE AsyncCB \/ OnRecv
    <3>1. doing' \in {"closing", "drain", "drain_recv"}
      BY <2>2 DEF AsyncCB, OnRecv
    <3>2. doing' \in {"poll", "process", "closing", "ended"} \cup DOMAIN BackFrom
      BY <3>1 DEF BackFrom
    <3> QED
      BY <2>2, <3>2 DEF AsyncCB, OnRecv, closeVars
  <2>3. CASE Processed \/ RunEnds
    BY <2>3 DEF Processed, RunEnds, closeVars
  <2>4. CASE UNCHANGED vars
    BY <2>4 DEF BytesInv, TypeOK, vars, loopVars, closeVars
  <2> QED
    BY <2>1, <2>2, <2>3, <2>4
<1>2. async_pending' \in BOOLEAN /\ is_closed' \in BOOLEAN
  BY <1>1, Zenon DEF BytesInv, TypeOK
<1>3. TypeOK'
  BY <1>1, <1>2 DEF BytesInv, TypeOK, userVars
<1> QED
  BY <1>1, <1>3, PlacesAside DEF userVars

LEMMA BytesStep == BytesInv /\ MemoryLeft /\ [Next]_vars => BytesInv'
<1> SUFFICES ASSUME BytesInv, MemoryLeft, [Next]_vars PROVE BytesInv'
  OBVIOUS
<1>1. ASSUME NEW s \in Senders, NEW len \in MsgLens, Send(s, len) PROVE BytesInv'
  <2>1. TypeOK' /\ Whole' /\ Taken' /\ EachSenderInOrder'
    BY <1>1, SendSenders
  <2>2. UNCHANGED <<avail_params, inflight, buf, ring, wire, accepted, lost>>
    BY <1>1 DEF Send, loopVars
  <2> QED
    BY <2>1, <2>2, PlacesAside DEF BytesInv
<1>2. ASSUME NEW s \in Senders, WriteRing(s) PROVE BytesInv'
  <2>1. TypeOK' /\ Whole' /\ Taken' /\ EachSenderInOrder' /\ Sound(Stages, accepted, lost)'
    BY <1>2, WriteRingSenders, WriteRingPlaces
  <2>2. Owned'
    BY <1>2 DEF WriteRing, loopVars, BytesInv, Owned
  <2> QED
    BY <2>1, <2>2 DEF BytesInv
<1>3. CASE (\E s \in Senders : GiveUp(s) \/ Signal(s)) \/ Close \/ CloseSignal
  <2>1. TypeOK' /\ Whole' /\ Taken' /\ EachSenderInOrder'
    BY <1>3, LeaveSenders
  <2>2. UNCHANGED <<avail_params, inflight, buf, ring, wire, accepted, lost>>
    BY <1>3 DEF GiveUp, Signal, Close, CloseSignal, loopVars, userVars
  <2> QED
    BY <2>1, <2>2, PlacesAside DEF BytesInv
<1>4. CASE Loop \/ UNCHANGED vars
  <2>1. Whole' /\ Taken' /\ EachSenderInOrder'
    BY <1>4, SendersOfLoop
  <2>2. TypeOK' /\ Owned' /\ Sound(Stages, accepted, lost)'
    BY <1>4, SendOneBytes, AnswerBytes, OtherLoopBytes DEF Loop
  <2> QED
    BY <2>1, <2>2 DEF BytesInv
<1> QED
  BY <1>1, <1>2, <1>3, <1>4 DEF Next

LEMMA BytesInit == Init => BytesInv
<1> SUFFICES ASSUME Init PROVE BytesInv
  OBVIOUS
<1>1. /\ <<>> \in Seq(Byte) /\ <<>> \in Seq(Params) /\ <<>> \in Seq(MsgLens) /\ Len(<<>>) = 0
      /\ Seen(<<>>) = {} /\ DOMAIN <<>> = {}
  BY DEF Seen
<1>2. TypeOK
  <2>1. /\ ring \in Seq(Byte) /\ Len(ring) <= BUFFER_SIZE
        /\ avail_params \in Seq(Params) /\ inflight \in Seq(Params)
        /\ accepted \in Seq(Byte) /\ wire \in Seq(Byte) /\ lost \subseteq Byte
    BY <1>1, SendAssumption DEF Init
  <2>2. /\ buf \in [Params -> Seq(Byte)] /\ iret \in [Senders -> Nat]
        /\ msgs \in [Senders -> Seq(MsgLens)] /\ pc \in [Senders -> {"idle", "writing", "signal"}]
    BY <1>1 DEF Init
  <2>3. /\ async_pending \in BOOLEAN /\ is_user_closed \in BOOLEAN /\ is_closed \in BOOLEAN
        /\ doing \in {"poll", "process", "closing", "ended"} \cup DOMAIN BackFrom
        /\ closer \in {"out", "signal"}
    BY DEF Init
  <2> QED
    BY <2>1, <2>2, <2>3 DEF TypeOK
<1>3. Owned
  BY SendAssumption DEF Init, Owned, Apart
<1>4. Whole /\ Taken
  BY DEF Init, Whole, Taken
<1>5. EachSenderInOrder
  <2>1. ASSUME NEW s \in Senders PROVE WrittenBytes(s) = {}
    <3>1. DOMAIN msgs[s] = {}
      BY <1>1 DEF Init
    <3> QED
      BY <3>1 DEF WrittenBytes
  <2> QED
    BY <1>1, <2>1 DEF Init, EachSenderInOrder
<1>6. Sound(Stages, accepted, lost)
  <2>1. \A i \in DOMAIN Stages : Stages[i] = <<>>
    BY DEF Init, Stages, Places, Place
  <2>2. accepted = <<>> /\ lost = {}
    BY DEF Init
  <2> QED
    BY <1>1, <2>1, <2>2 DEF Sound, OrderedIn, KnownIn, KeptIn
<1> QED
  BY <1>2, <1>3, <1>4, <1>5, <1>6 DEF BytesInv

LEMMA BytesConserved ==
  ASSUME BytesInv
  PROVE  Conservation /\ ParamsOwned
<1>1. /\ DOMAIN Stages = Places /\ \A i \in Places : Stages[i] = Place(i)
      /\ Sound(Stages, accepted, lost)
  BY DEF BytesInv, Stages
<1>2. IsInjective(accepted)
  BY AcceptedOnce DEF BytesInv
<1>3. UNION {Seen(Place(i)) : i \in Places} = Seen(accepted) \ lost
  <2>1. ASSUME NEW i \in Places, NEW b \in Seen(Place(i)) PROVE b \in Seen(accepted) \ lost
    BY <1>1 DEF Sound, KnownIn, Seen
  <2>2. ASSUME NEW b \in Seen(accepted) \ lost
        PROVE  \E i \in Places : b \in Seen(Place(i))
    <3>1. PICK i \in Places : \E m \in DOMAIN Place(i) : Place(i)[m] = b
      BY <1>1 DEF Sound, KeptIn
    <3> QED
      BY <3>1 DEF Seen
  <2> QED
    BY <2>1, <2>2
<1>4. ASSUME NEW i \in Places, NEW j \in Places,
             NEW m \in DOMAIN Place(i), NEW n \in DOMAIN Place(j), i < j \/ (i = j /\ m < n)
      PROVE  Before(accepted, Place(i)[m], Place(j)[n])
  BY <1>1, <1>4 DEF Sound, OrderedIn
<1>5. ParamsOwned
  BY ApartTogether DEF BytesInv, Owned, TypeOK, ParamsOwned
<1> QED
  BY <1>2, <1>3, <1>4, <1>5 DEF Conservation

LEMMA BytesAlways == Spec /\ []MemoryLeft => []BytesInv
BY BytesInit, BytesStep, PTL DEF Spec

(* While memory for a param can be had, every variable of the sending side   *)
(* keeps its range, and the ring its size.                                   *)
THEOREM BytesTyped == Spec /\ []MemoryLeft => []TypeOK
<1>1. BytesInv => TypeOK
  BY DEF BytesInv
<1> QED
  BY <1>1, BytesAlways, PTL

(* Any number of threads write messages of any lengths into a ring of any    *)
(* size: each message enters it whole, in order and once (Send).             *)
THEOREM SendersKeepOrder == Spec /\ []MemoryLeft => []EachSenderInOrder
<1>1. BytesInv => EachSenderInOrder
  BY DEF BytesInv
<1> QED
  BY <1>1, BytesAlways, PTL

(* No write param is in use twice, however many there are and however many   *)
(* writes fail (_fetch_one_param, _recycle_one_param).                       *)
THEOREM ParamsHaveOneOwner == Spec /\ []MemoryLeft => []ParamsOwned
<1>1. BytesInv => ParamsOwned
  BY BytesConserved
<1> QED
  BY <1>1, BytesAlways, PTL

(* So no accepted byte is overwritten while libuv has it, sent twice,        *)
(* dropped unless its write failed, or overtaken (_send, OnSend).            *)
THEOREM BytesArrive == Spec /\ []MemoryLeft => []Conservation
<1>1. BytesInv => Conservation
  BY BytesConserved
<1> QED
  BY <1>1, BytesAlways, PTL

(* In particular all this holds if memory does not run out.                  *)
THEOREM EnoughMemory ==
  ~IsFiniteSet(Params) /\ Spec =>
    [](TypeOK /\ EachSenderInOrder /\ Conservation /\ ParamsOwned)
<1> SUFFICES ASSUME ~IsFiniteSet(Params)
             PROVE  Spec => [](TypeOK /\ EachSenderInOrder /\ Conservation /\ ParamsOwned)
  OBVIOUS
<1>1. BytesInv => MemoryLeft
  <2> SUFFICES ASSUME BytesInv, \A p \in Params : p \in Seen(inflight) PROVE FALSE
    BY DEF MemoryLeft
  <2>1. inflight \in Seq(Params)
    BY DEF BytesInv, TypeOK
  <2>2. \A p \in Params : \E n \in 1 .. Len(inflight) : inflight[n] = p
    BY <2>1 DEF Seen
  <2> QED
    BY <2>1, <2>2 DEF IsFiniteSet
<1>2. BytesInv /\ [Next]_vars => BytesInv'
  BY <1>1, BytesStep
<1>3. BytesInv => TypeOK /\ EachSenderInOrder /\ Conservation /\ ParamsOwned
  BY BytesConserved DEF BytesInv
<1> QED
  BY <1>2, <1>3, BytesInit, PTL DEF Spec
=============================================================================
