----------------------------- MODULE ClientSend -----------------------------
(***************************************************************************)
(* The sending side of a connected TCPClient (tcpclient.cpp).  Any thread  *)
(* may call Send: it copies its message into the ring under                *)
(* _mutex_writebuf, sleeping and retrying while the ring is full, and      *)
(* wakes the loop thread with uv_async_send.  The loop thread empties the  *)
(* ring with _send -- called from AsyncCB, from OnRecv and from OnSend --  *)
(* into pooled write requests that libuv owns until OnSend.  Close sets a  *)
(* flag and wakes the loop, which then closes every handle.                *)
(*                                                                         *)
(* A step is a stretch of code between two points where another thread can *)
(* interfere: a critical section, an uv_async_send, a callback's start.    *)
(* The ring is the FIFO queue that PodCircularBuffer is shown to be.       *)
(* Network failures are the error returns of uv_write and OnSend; the      *)
(* connection's own life is not part of this module.                       *)
(***************************************************************************)
EXTENDS Integers, Sequences

CONSTANTS Senders,       \* the threads that call Send
          LoopSenders,   \* those that are the loop thread itself, inside Process
          Params,        \* the memory write params are allocated from
          BUFFER_SIZE,   \* the size of the ring and of a param's buffer
          MAXLISTSIZE,   \* the limit of the list of idle params
          MsgLens,       \* the lengths a caller passes to Send
          MaxMsgs        \* bound: how many messages each sender sends

ASSUME SendAssumption ==
  /\ LoopSenders \subseteq Senders
  /\ BUFFER_SIZE \in Nat \ {0}
  /\ MAXLISTSIZE \in Nat
  /\ MsgLens \subseteq Nat \ {0}
  /\ MaxMsgs \in [Senders -> Nat]

VARIABLES ring,            \* _write_circularbuf: the bytes to be sent
          avail_params,    \* _avail_params: the idle params
          inflight,        \* the params libuv owns, in the order of uv_write
          buf,             \* the contents of each param's buffer
          async_pending,   \* the async handle was signalled, AsyncCB is due
          is_user_closed, is_closed,
          doing,           \* what the loop thread is doing
          pc,              \* where each sender is inside Send
          iret,            \* how much of its message a sender has written
          closer,          \* whether Close still has to signal
          msgs,            \* history: the lengths of each sender's messages
          accepted,        \* history: every byte put into the ring
          wire,            \* history: every byte written to the socket
          lost             \* history: the bytes of failed writes

loopVars == <<avail_params, inflight, buf, doing, wire, lost>>
userVars == <<pc, iret, msgs, accepted>>
closeVars == <<is_user_closed, is_closed, closer>>
vars == <<ring, async_pending, loopVars, userVars, closeVars>>

Fifo == INSTANCE FifoOps WITH Capacity <- BUFFER_SIZE

-----------------------------------------------------------------------------
(* The n first bytes of message m of s.  A byte is known by its place.       *)
Message(s, m, n) == [k \in 1 .. n |-> [from |-> s, msg |-> m, at |-> k]]

Current(s) == Len(msgs[s])
Length(s) == msgs[s][Current(s)]
Rest(s) == SubSeq(Message(s, Current(s), Length(s)), iret[s] + 1, Length(s))

Seen(seq) == {seq[i] : i \in DOMAIN seq}

(* The loop thread inside _send, and what it goes back to: waiting for       *)
(* events, recvdata, or closing its handles.                                 *)
BackFrom == [drain |-> "poll", drain_recv |-> "process", drain_closing |-> "closing"]
Draining == doing \in DOMAIN BackFrom

Init ==
  /\ ring = <<>>
  /\ avail_params = <<>>
  /\ inflight = <<>>
  /\ buf = [p \in Params |-> <<>>]
  /\ async_pending = FALSE
  /\ is_user_closed = FALSE
  /\ is_closed = FALSE
  /\ doing = "poll"
  /\ pc = [s \in Senders |-> "idle"]
  /\ iret = [s \in Senders |-> 0]
  /\ closer = "out"
  /\ msgs = [s \in Senders |-> <<>>]
  /\ accepted = <<>>
  /\ wire = <<>>
  /\ lost = {}

-----------------------------------------------------------------------------
(* Send, up to its loop: the first uv_async_send.  The loop thread sends     *)
(* only from a Process it is in.                                             *)
Send(s, len) ==
  /\ pc[s] = "idle"
  /\ Len(msgs[s]) < MaxMsgs[s]
  /\ s \in LoopSenders => doing = "process"
  /\ msgs' = [msgs EXCEPT ![s] = Append(@, len)]
  /\ iret' = [iret EXCEPT ![s] = 0]
  /\ pc' = [pc EXCEPT ![s] = "writing"]
  /\ async_pending' = TRUE
  /\ UNCHANGED <<ring, loopVars, closeVars, accepted>>

(* One turn of Send's loop: write what fits; if that was not all, sleep and  *)
(* come back.                                                                *)
WriteRingNoRoomMut(s) ==
  /\ pc[s] = "writing"
  /\ ~is_user_closed
  /\ ring' = ring \o Rest(s)
  /\ accepted' = accepted \o Rest(s)
  /\ iret' = [iret EXCEPT ![s] = Length(s)]
  /\ pc' = [pc EXCEPT ![s] = "signal"]
  /\ UNCHANGED <<async_pending, loopVars, closeVars, msgs>>
WriteRingMut(s) ==
  /\ pc[s] = "writing"
  /\ ~is_user_closed
  /\ LET n == Fifo!Accepted(ring, Rest(s))
     IN  /\ ring' = Fifo!AfterWrite(ring, Rest(s))
         /\ accepted' = accepted \o SubSeq(Rest(s), 1, n)
         /\ iret' = [iret EXCEPT ![s] = n]
         /\ pc' = [pc EXCEPT ![s] = IF iret'[s] < Length(s) THEN "writing" ELSE "signal"]
  /\ UNCHANGED <<async_pending, loopVars, closeVars, msgs>>
WriteRing(s) ==
  /\ pc[s] = "writing"
  /\ ~is_user_closed
  /\ LET n == Fifo!Accepted(ring, Rest(s))
     IN  /\ ring' = Fifo!AfterWrite(ring, Rest(s))
         /\ accepted' = accepted \o SubSeq(Rest(s), 1, n)
         /\ iret' = [iret EXCEPT ![s] = @ + n]
         /\ pc' = [pc EXCEPT ![s] = IF iret'[s] < Length(s) THEN "writing" ELSE "signal"]
  /\ UNCHANGED <<async_pending, loopVars, closeVars, msgs>>

(* The loop ends early when the user closes the client.                      *)
GiveUpMut(s) ==
  /\ pc[s] = "writing"
  /\ is_closed
  /\ pc' = [pc EXCEPT ![s] = "signal"]
  /\ UNCHANGED <<ring, async_pending, loopVars, closeVars, iret, msgs, accepted>>
GiveUp(s) ==
  /\ pc[s] = "writing"
  /\ is_user_closed
  /\ pc' = [pc EXCEPT ![s] = "signal"]
  /\ UNCHANGED <<ring, async_pending, loopVars, closeVars, iret, msgs, accepted>>

(* The second uv_async_send, and Send returns iret.                          *)
SignalMut(s) ==
  /\ pc[s] = "signal"
  /\ pc' = [pc EXCEPT ![s] = "idle"]
  /\ UNCHANGED <<ring, async_pending, loopVars, closeVars, iret, msgs, accepted>>
Signal(s) ==
  /\ pc[s] = "signal"
  /\ async_pending' = TRUE
  /\ pc' = [pc EXCEPT ![s] = "idle"]
  /\ UNCHANGED <<ring, loopVars, closeVars, iret, msgs, accepted>>

-----------------------------------------------------------------------------
(* Close: the flag, then the signal.                                         *)
Close ==
  /\ closer = "out"
  /\ ~is_closed
  /\ is_user_closed' = TRUE
  /\ closer' = "signal"
  /\ UNCHANGED <<ring, async_pending, loopVars, userVars, is_closed>>

CloseSignal ==
  /\ closer = "signal"
  /\ closer' = "out"
  /\ async_pending' = TRUE
  /\ UNCHANGED <<ring, loopVars, userVars, is_user_closed, is_closed>>

-----------------------------------------------------------------------------
(* _fetch_one_param: the first idle param, or a new one.                     *)
FreshParam == CHOOSE p \in Params : p \notin Seen(avail_params) \cup Seen(inflight)
FetchedParam == IF avail_params = <<>> THEN FreshParam ELSE Head(avail_params)
AfterFetch == IF avail_params = <<>> THEN <<>> ELSE Tail(avail_params)

(* _recycle_one_param: onto the list, or freed if the list is over its limit.*)
Recycled(idle, p) == IF Len(idle) > MAXLISTSIZE THEN idle ELSE Append(idle, p)

(* One turn of the loop of _send.  uv_write takes the param or refuses it;   *)
(* on a closing stream it refuses.                                           *)
SendOneMut ==
  /\ Draining
  /\ ring # <<>>
  /\ LET p == FetchedParam
     IN  /\ buf' = [buf EXCEPT ![p] = Fifo!FirstOf(ring, BUFFER_SIZE)]
         /\ \/ /\ doing # "drain_closing"
               /\ inflight' = Append(inflight, p)
               /\ avail_params' = Recycled(AfterFetch, p)
               /\ UNCHANGED lost
            \/ /\ avail_params' = Recycled(AfterFetch, p)
               /\ lost' = lost \cup Seen(buf'[p])
               /\ UNCHANGED inflight
  /\ ring' = Fifo!AfterRead(ring, BUFFER_SIZE)
  /\ UNCHANGED <<async_pending, doing, wire, userVars, closeVars>>
SendOne ==
  /\ Draining
  /\ ring # <<>>
  /\ LET p == FetchedParam
     IN  /\ buf' = [buf EXCEPT ![p] = Fifo!FirstOf(ring, BUFFER_SIZE)]
         /\ \/ /\ doing # "drain_closing"
               /\ inflight' = Append(inflight, p)
               /\ avail_params' = AfterFetch
               /\ UNCHANGED lost
            \/ /\ avail_params' = Recycled(AfterFetch, p)
               /\ lost' = lost \cup Seen(buf'[p])
               /\ UNCHANGED inflight
  /\ ring' = Fifo!AfterRead(ring, BUFFER_SIZE)
  /\ UNCHANGED <<async_pending, doing, wire, userVars, closeVars>>

SendDone ==
  /\ Draining
  /\ ring = <<>>
  /\ doing' = BackFrom[doing]
  /\ UNCHANGED <<ring, async_pending, avail_params, inflight, buf, wire, lost, userVars, closeVars>>

(* AsyncCB: close the handles if the user asked for it, or send.             *)
AsyncCBMut ==
  /\ doing = "poll"
  /\ async_pending
  /\ async_pending' = FALSE
  /\ doing' = IF is_user_closed THEN "closing" ELSE "poll"
  /\ UNCHANGED <<ring, avail_params, inflight, buf, wire, lost, userVars, closeVars>>
AsyncCB ==
  /\ doing = "poll"
  /\ async_pending
  /\ async_pending' = FALSE
  /\ doing' = IF is_user_closed THEN "closing" ELSE "drain"
  /\ UNCHANGED <<ring, avail_params, inflight, buf, wire, lost, userVars, closeVars>>

(* OnSend of the oldest write: its bytes are out, and _send starts by        *)
(* recycling its param.  When the stream is being closed libuv still reports *)
(* the writes that had finished.                                             *)
OnSend ==
  /\ doing \in {"poll", "closing"}
  /\ inflight # <<>>
  /\ wire' = wire \o buf[Head(inflight)]
  /\ avail_params' = Recycled(avail_params, Head(inflight))
  /\ inflight' = Tail(inflight)
  /\ doing' = IF doing = "poll" THEN "drain" ELSE "drain_closing"
  /\ UNCHANGED <<ring, async_pending, buf, lost, userVars, closeVars>>

(* OnSend with an error: nothing is sent again.                              *)
OnSendError ==
  /\ doing \in {"poll", "closing"}
  /\ inflight # <<>>
  /\ lost' = lost \cup Seen(buf[Head(inflight)])
  /\ avail_params' = Recycled(avail_params, Head(inflight))
  /\ inflight' = Tail(inflight)
  /\ UNCHANGED <<ring, async_pending, buf, doing, wire, userVars, closeVars>>

(* OnRecv with data calls _send and then recvdata, where the user's Process  *)
(* runs, which returns when the Send it may be in has returned.              *)
OnRecv ==
  /\ doing = "poll"
  /\ doing' = "drain_recv"
  /\ UNCHANGED <<ring, async_pending, avail_params, inflight, buf, wire, lost, userVars, closeVars>>

Processed ==
  /\ doing = "process"
  /\ \A s \in LoopSenders : pc[s] = "idle"
  /\ doing' = "poll"
  /\ UNCHANGED <<ring, async_pending, avail_params, inflight, buf, wire, lost, userVars, closeVars>>

(* uv_run returns once the last handle is closed: _run.                      *)
RunEnds ==
  /\ doing = "closing"
  /\ inflight = <<>>
  /\ doing' = "ended"
  /\ is_closed' = TRUE
  /\ UNCHANGED <<ring, async_pending, avail_params, inflight, buf, wire, lost, userVars,
                 is_user_closed, closer>>

-----------------------------------------------------------------------------
Loop == SendOne \/ SendDone \/ AsyncCB \/ OnSend \/ OnSendError \/ OnRecv \/ Processed \/ RunEnds

Next ==
  \/ \E s \in Senders, len \in MsgLens : Send(s, len)
  \/ \E s \in Senders : WriteRing(s) \/ GiveUp(s) \/ Signal(s)
  \/ Close
  \/ CloseSignal
  \/ Loop

Spec == Init /\ [][Next]_vars

(* A thread inside Send or Close goes on, and so does the loop thread.       *)
(* libuv serves all ready handles in each turn of the loop, so a signal is   *)
(* not overtaken by other events for ever; it answers every write once the   *)
(* stream is closing, but before that only as the peer reads.  Nobody has to *)
(* call Send or Close, nor does data have to arrive.                         *)
Fairness ==
  /\ \A s \in Senders :
       WF_vars(WriteRing(s)) /\ WF_vars(GiveUp(s)) /\ WF_vars(Signal(s))
  /\ WF_vars(CloseSignal)
  /\ WF_vars(SendOne) /\ WF_vars(SendDone) /\ WF_vars(Processed) /\ WF_vars(RunEnds)
  /\ SF_vars(AsyncCB)
  /\ WF_vars(doing = "closing" /\ (OnSend \/ OnSendError))

FairSpec == Spec /\ Fairness

-----------------------------------------------------------------------------
Byte == [from : Senders, msg : Nat \ {0}, at : Nat]

TypeOK ==
  /\ ring \in Seq(Byte) /\ Len(ring) <= BUFFER_SIZE
  /\ avail_params \in Seq(Params)
  /\ inflight \in Seq(Params)
  /\ buf \in [Params -> Seq(Byte)]
  /\ async_pending \in BOOLEAN
  /\ is_user_closed \in BOOLEAN
  /\ is_closed \in BOOLEAN
  /\ doing \in {"poll", "process", "closing", "ended"} \cup DOMAIN BackFrom
  /\ pc \in [Senders -> {"idle", "writing", "signal"}]
  /\ iret \in [Senders -> Nat]
  /\ closer \in {"out", "signal"}
  /\ msgs \in [Senders -> Seq(MsgLens)]
  /\ accepted \in Seq(Byte)
  /\ wire \in Seq(Byte)
  /\ lost \subseteq Byte

(* No wake-up is lost: whenever the ring holds data, the loop thread is      *)
(* emptying it, or will be told to -- a signal is pending or a sender is     *)
(* about to give it -- unless the user has closed the client.  Send relies   *)
(* on it: a sender whose message did not fit does not signal before it       *)
(* sleeps, so another one must have (tcpclient.cpp, Send and AsyncCB).       *)
NoLostWakeup ==
  \/ ring = <<>>
  \/ async_pending
  \/ Draining
  \/ \E s \in Senders : pc[s] = "signal"
  \/ is_user_closed
=============================================================================
