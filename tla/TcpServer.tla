----------------------------- MODULE TcpServer -----------------------------
(***************************************************************************)
(* The sessions of a started TCPServer (tcpserver.cpp): connections,       *)
(* writes, and the shutdown.  Everything but Close runs on the thread of   *)
(* the event loop, one callback at a time, and a callback is one step.     *)
(*                                                                         *)
(* A connection lives in a SessionCtx, which holds the libuv handle and is *)
(* pooled in _avail_ctxs, and in a Session object, which the map _sessions *)
(* owns.  The handle's data field points to the ctx while the connection   *)
(* is read from and to the Session while it is being closed.               *)
(*                                                                         *)
(* The step of libuv between an uv_close and the close callback is where   *)
(* the other callbacks come in between.  libuv runs the close callbacks at *)
(* the end of a turn of the loop; here they come at any later time, which  *)
(* includes those orders.  What peers send and what a frame holds is left  *)
(* open: data received lets Process answer any number of times.            *)
(***************************************************************************)
EXTENDS Integers, Sequences, Functions

CONSTANTS Ctxs,           \* the memory SessionCtxs are allocated from
          MAXLISTSIZE,    \* the limit of both idle lists
          MaxSid,         \* bound: sessions in the life of the server
          MaxWrites       \* bound: writes in flight per connection

NoCtx == "no ctx"
OwnHandles == {"_tcp_handle", "_async_close_handle"}
Handles == Ctxs \cup OwnHandles  \* a ctx stands for the handle in it

Sids == 1 .. MaxSid
NULL == 0
ServerEnd == -1  \* what TcpCloseCB is called with when the server has ended

ASSUME ServerAssumption ==
  /\ Ctxs \cap OwnHandles = {}
  /\ NoCtx \notin Ctxs
  /\ MAXLISTSIZE \in Nat
  /\ MaxSid \in Nat \ {0}
  /\ MaxWrites \in Nat \ {0}

VARIABLES alloc,           \* the SessionCtxs that are allocated
          avail_ctxs,      \* _avail_ctxs: the idle ones
          handle,          \* the state of each handle in libuv
          close_cb,        \* the callback it is being closed with
          data,            \* tcp_handle.data of each ctx: a Session by its id, or NULL
                           \* for the ctx itself
          sid,             \* SessionCtx::sid
          parent_session,  \* SessionCtx::parent_session, by its id
          writes,          \* writes of each ctx that libuv has not answered
          sessions,        \* _sessions: the ctx of the Session of each id, if any
          last_sid,        \* GenerateSessionID's counter
          avail_params,    \* the length of _avail_params
          params,          \* how many WriteParams are allocated
          async_pending,   \* _async_close_handle was signalled
          is_user_closed, is_closed,
          closer,          \* where a caller is inside Close
          announced, told, \* history: the arguments of NewConnectCB and TcpCloseCB
          aborted          \* an assertion of libuv has ended the program

handleVars == <<handle, close_cb>>
ctxVars == <<data, sid, parent_session, writes>>
poolVars == <<alloc, avail_ctxs>>
paramVars == <<avail_params, params>>
sessionVars == <<sessions, last_sid>>
closeVars == <<async_pending, is_user_closed, is_closed, closer>>
eventVars == <<announced, told>>
vars == <<handleVars, ctxVars, poolVars, paramVars, sessionVars, closeVars, eventVars, aborted>>

Live == {s \in Sids : sessions[s] # NoCtx}

Init ==
  /\ alloc = {}
  /\ avail_ctxs = <<>>
  /\ handle = [h \in Handles |-> IF h \in OwnHandles THEN "open" ELSE "none"]
  /\ close_cb = [h \in Handles |-> "none"]
  /\ data = [c \in Ctxs |-> NULL]
  /\ sid = [c \in Ctxs |-> NULL]
  /\ parent_session = [c \in Ctxs |-> NULL]
  /\ writes = [c \in Ctxs |-> 0]
  /\ sessions = [s \in Sids |-> NoCtx]
  /\ last_sid = 0
  /\ avail_params = 0
  /\ params = 0
  /\ async_pending = FALSE
  /\ is_user_closed = FALSE
  /\ is_closed = FALSE
  /\ closer = "out"
  /\ announced = <<>>
  /\ told = <<>>
  /\ aborted = FALSE

-----------------------------------------------------------------------------
(* _fetch_one_ctx: the first idle ctx, or a new one.                         *)
Fetchable == IF avail_ctxs = <<>> THEN Ctxs \ alloc ELSE {Head(avail_ctxs)}
AfterFetchMut == avail_ctxs
AfterFetch == IF avail_ctxs = <<>> THEN <<>> ELSE Tail(avail_ctxs)

(* _recycle_one_ctx: onto the list, or freed if the list is over its limit.  *)
Recycled(idle, c) == IF Len(idle) > MAXLISTSIZE THEN idle ELSE Append(idle, c)
Kept(idle, a, c) == IF Len(idle) > MAXLISTSIZE THEN a \ {c} ELSE a

(* _recycle_one_param, n times: the list takes params until it is over its   *)
(* limit, the others are freed.                                              *)
RecycledParamsMut(idle, n) == idle + n
RecycledParams(idle, n) == IF idle + n > MAXLISTSIZE + 1 THEN MAXLISTSIZE + 1 ELSE idle + n
RecycleParams(n) ==
  /\ avail_params' = RecycledParams(avail_params, n)
  /\ params' = params - (avail_params + n - avail_params')

Running == ~aborted /\ ~is_closed

-----------------------------------------------------------------------------
(* OnConnection fetches a ctx and initialises its handle.  If uv_tcp_init    *)
(* fails, the ctx goes back.                                                 *)
TcpInitFails(c) ==
  /\ Running
  /\ handle["_tcp_handle"] = "open"
  /\ c \in Fetchable
  /\ avail_ctxs' = Recycled(AfterFetch, c)
  /\ alloc' = Kept(AfterFetch, alloc \cup {c}, c)
  /\ parent_session' = [parent_session EXCEPT ![c] = NULL]
  /\ UNCHANGED <<handleVars, data, sid, writes, sessionVars, paramVars, closeVars, eventVars,
                 aborted>>

(* Otherwise a session id is drawn, and the connection accepted: libuv       *)
(* guarantees that uv_accept succeeds here.                                  *)
Accept(c) ==
  /\ Running
  /\ handle["_tcp_handle"] = "open"
  /\ c \in Fetchable
  /\ last_sid < MaxSid
  /\ last_sid' = last_sid + 1
  /\ alloc' = alloc \cup {c}
  /\ avail_ctxs' = AfterFetch
  /\ data' = [data EXCEPT ![c] = NULL]
  /\ sid' = [sid EXCEPT ![c] = last_sid']

(* If uv_read_start fails, the handle is closed, and its callback gives the  *)
(* ctx back.                                                                 *)
ReadStartFails(c) ==
  /\ Accept(c)
  /\ handle' = [handle EXCEPT ![c] = "closing"]
  /\ close_cb' = [close_cb EXCEPT ![c] = "RecycleSessionCtx"]
  /\ parent_session' = [parent_session EXCEPT ![c] = NULL]
  /\ UNCHANGED <<writes, sessions, paramVars, closeVars, eventVars, aborted>>

(* If all goes well a Session is made, put into the map and announced.       *)
OnConnection(c) ==
  /\ Accept(c)
  /\ handle' = [handle EXCEPT ![c] = "open"]
  /\ parent_session' = [parent_session EXCEPT ![c] = last_sid']
  /\ sessions' = [sessions EXCEPT ![last_sid'] = c]
  /\ announced' = Append(announced, last_sid')
  /\ UNCHANGED <<close_cb, writes, paramVars, closeVars, told, aborted>>

-----------------------------------------------------------------------------
(* OnRecv with data, and what Process may do in it: _send.  uv_write takes   *)
(* the param ...                                                             *)
SendTaken(c) ==
  /\ Running
  /\ handle[c] = "open"
  /\ writes[c] < MaxWrites
  /\ writes' = [writes EXCEPT ![c] = @ + 1]
  /\ IF avail_params = 0
     THEN params' = params + 1 /\ UNCHANGED avail_params
     ELSE avail_params' = avail_params - 1 /\ UNCHANGED params
  /\ UNCHANGED <<handleVars, data, sid, parent_session, poolVars, sessionVars, closeVars,
                 eventVars, aborted>>

(* ... or refuses it, and it is recycled, which changes something only if    *)
(* it had to be allocated.                                                   *)
SendRefused(c) ==
  /\ Running
  /\ handle[c] = "open"
  /\ avail_params = 0
  /\ params' = params + 1
  /\ avail_params' = 1
  /\ UNCHANGED <<handleVars, ctxVars, poolVars, sessionVars, closeVars, eventVars, aborted>>

(* OnSend, whatever the status: the param is recycled.                       *)
OnSendMut(c) ==
  /\ Running
  /\ handle[c] = "open"
  /\ writes[c] > 0
  /\ writes' = [writes EXCEPT ![c] = @ - 1]
  /\ UNCHANGED paramVars
  /\ UNCHANGED <<handleVars, data, sid, parent_session, poolVars, sessionVars, closeVars,
                 eventVars, aborted>>
OnSend(c) ==
  /\ Running
  /\ handle[c] = "open"
  /\ writes[c] > 0
  /\ writes' = [writes EXCEPT ![c] = @ - 1]
  /\ RecycleParams(1)
  /\ UNCHANGED <<handleVars, data, sid, parent_session, poolVars, sessionVars, closeVars,
                 eventVars, aborted>>

(* OnRecv with an error closes the session: Session::Close.                  *)
OnRecvErrorMut(c) ==
  /\ Running
  /\ handle[c] = "open"
  /\ LET s == parent_session[c]
     IN  /\ UNCHANGED data
         /\ handle' = [handle EXCEPT ![sessions[s]] = "closing"]
         /\ close_cb' = [close_cb EXCEPT ![sessions[s]] = "_session_close"]
  /\ UNCHANGED <<sid, parent_session, writes, poolVars, sessionVars, paramVars, closeVars,
                 eventVars, aborted>>
OnRecvError(c) ==
  /\ Running
  /\ handle[c] = "open"
  /\ LET s == parent_session[c]
     IN  /\ data' = [data EXCEPT ![sessions[s]] = s]
         /\ handle' = [handle EXCEPT ![sessions[s]] = "closing"]
         /\ close_cb' = [close_cb EXCEPT ![sessions[s]] = "_session_close"]
  /\ UNCHANGED <<sid, parent_session, writes, poolVars, sessionVars, paramVars, closeVars,
                 eventVars, aborted>>

-----------------------------------------------------------------------------
(* libuv finishes the closing of a handle: it answers the writes that are    *)
(* left, then calls the callback.                                            *)
HandleCloses(h, cb) ==
  /\ Running
  /\ handle[h] = "closing"
  /\ close_cb[h] = cb
  /\ handle' = [handle EXCEPT ![h] = "none"]
  /\ close_cb' = [close_cb EXCEPT ![h] = "none"]
  /\ writes' = [c \in Ctxs |-> IF c = h THEN 0 ELSE writes[c]]
  /\ RecycleParams(IF h \in Ctxs THEN writes[h] ELSE 0)
  /\ UNCHANGED <<data, sid, parent_session, last_sid, closeVars, announced, aborted>>

(* _session_close, and SessionClosed, which looks the session up by its id.  *)
SessionClosedMut(c) ==
  /\ HandleCloses(c, "_session_close")
  /\ sessions[data[c]] = c
  /\ LET s == sid[c]
         gone == sessions[s]
     IN  /\ UNCHANGED told
         /\ avail_ctxs' = Recycled(avail_ctxs, gone)
         /\ alloc' = Kept(avail_ctxs, alloc, gone)
         /\ sessions' = [sessions EXCEPT ![s] = NoCtx]
SessionClosed(c) ==
  /\ HandleCloses(c, "_session_close")
  /\ sessions[data[c]] = c
  /\ LET s == sid[c]
         gone == sessions[s]
     IN  /\ told' = Append(told, s)
         /\ avail_ctxs' = Recycled(avail_ctxs, gone)
         /\ alloc' = Kept(avail_ctxs, alloc, gone)
         /\ sessions' = [sessions EXCEPT ![s] = NoCtx]

RecycleSessionCtx(c) ==
  /\ HandleCloses(c, "RecycleSessionCtx")
  /\ avail_ctxs' = Recycled(avail_ctxs, c)
  /\ alloc' = Kept(avail_ctxs, alloc, c)
  /\ UNCHANGED <<sessions, told>>

AfterServerClose(h) ==
  /\ HandleCloses(h, "AfterServerClose")
  /\ UNCHANGED <<poolVars, sessions, told>>

-----------------------------------------------------------------------------
(* Close: the test of _is_closed, the flag, the signal.                      *)
Close ==
  /\ ~aborted
  /\ closer = "out"
  /\ ~is_closed
  /\ closer' = "flag"
  /\ UNCHANGED <<handleVars, ctxVars, poolVars, sessionVars, paramVars, async_pending,
                 is_user_closed, is_closed, eventVars, aborted>>

CloseFlag ==
  /\ ~aborted
  /\ closer = "flag"
  /\ is_user_closed' = TRUE
  /\ closer' = "signal"
  /\ UNCHANGED <<handleVars, ctxVars, poolVars, sessionVars, paramVars, async_pending,
                 is_closed, eventVars, aborted>>

CloseSignalMut ==
  /\ ~aborted
  /\ closer = "signal"
  /\ closer' = "out"
  /\ UNCHANGED async_pending
  /\ UNCHANGED <<handleVars, ctxVars, poolVars, sessionVars, paramVars, is_user_closed,
                 is_closed, eventVars, aborted>>
CloseSignal ==
  /\ ~aborted
  /\ closer = "signal"
  /\ closer' = "out"
  /\ async_pending' = TRUE
  /\ UNCHANGED <<handleVars, ctxVars, poolVars, sessionVars, paramVars, is_user_closed,
                 is_closed, eventVars, aborted>>

(* AsyncCloseCB: if the user asked for it, _close closes every session, then *)
(* CloseWalkCB the handles that are left.  uv_close asserts that the handle  *)
(* is not being closed already; Session::Close does not ask.                 *)
SessionOf(c) == CHOOSE s \in Live : sessions[s] = c

AsyncCloseCBMut ==
  LET theirs == {}
      walked == IF is_user_closed THEN {h \in Handles \ theirs : handle[h] = "open"} ELSE {}
  IN  /\ Running
      /\ handle["_async_close_handle"] = "open"
      /\ async_pending
      /\ async_pending' = FALSE
      /\ IF \E c \in theirs : handle[c] = "closing"
         THEN aborted' = TRUE /\ UNCHANGED <<handleVars, data>>
         ELSE /\ data' = [c \in Ctxs |-> IF c \in theirs THEN SessionOf(c) ELSE data[c]]
              /\ handle' = [h \in Handles |->
                              IF h \in theirs \cup walked THEN "closing" ELSE handle[h]]
              /\ close_cb' = [h \in Handles |-> IF h \in theirs THEN "_session_close"
                                                ELSE IF h \in walked THEN "AfterServerClose"
                                                ELSE close_cb[h]]
              /\ UNCHANGED aborted
      /\ UNCHANGED <<sid, parent_session, writes, poolVars, sessionVars, paramVars,
                     is_user_closed, is_closed, closer, eventVars>>
AsyncCloseCB ==
  LET theirs == IF is_user_closed THEN {sessions[s] : s \in Live} ELSE {}
      walked == IF is_user_closed THEN {h \in Handles \ theirs : handle[h] = "open"} ELSE {}
  IN  /\ Running
      /\ handle["_async_close_handle"] = "open"
      /\ async_pending
      /\ async_pending' = FALSE
      /\ IF \E c \in theirs : handle[c] = "closing"
         THEN aborted' = TRUE /\ UNCHANGED <<handleVars, data>>
         ELSE /\ data' = [c \in Ctxs |-> IF c \in theirs THEN SessionOf(c) ELSE data[c]]
              /\ handle' = [h \in Handles |->
                              IF h \in theirs \cup walked THEN "closing" ELSE handle[h]]
              /\ close_cb' = [h \in Handles |-> IF h \in theirs THEN "_session_close"
                                                ELSE IF h \in walked THEN "AfterServerClose"
                                                ELSE close_cb[h]]
              /\ UNCHANGED aborted
      /\ UNCHANGED <<sid, parent_session, writes, poolVars, sessionVars, paramVars,
                     is_user_closed, is_closed, closer, eventVars>>

(* uv_run returns when no handle is left, and _start_thread tells the user.  *)
LoopEndsMut ==
  /\ Running
  /\ \A h \in OwnHandles : handle[h] = "none"
  /\ is_closed' = TRUE
  /\ is_user_closed' = FALSE
  /\ told' = Append(told, ServerEnd)
  /\ UNCHANGED <<handleVars, ctxVars, poolVars, sessionVars, paramVars, async_pending,
                 closer, announced, aborted>>
LoopEnds ==
  /\ Running
  /\ \A h \in Handles : handle[h] = "none"
  /\ is_closed' = TRUE
  /\ is_user_closed' = FALSE
  /\ told' = Append(told, ServerEnd)
  /\ UNCHANGED <<handleVars, ctxVars, poolVars, sessionVars, paramVars, async_pending,
                 closer, announced, aborted>>

-----------------------------------------------------------------------------
CloseCallback ==
  \/ \E c \in Ctxs : SessionClosed(c) \/ RecycleSessionCtx(c)
  \/ \E h \in Handles : AfterServerClose(h)

Next ==
  \/ \E c \in Ctxs :
       \/ TcpInitFails(c) \/ ReadStartFails(c) \/ OnConnection(c)
       \/ SendTaken(c) \/ SendRefused(c) \/ OnSend(c) \/ OnRecvError(c)
  \/ CloseCallback
  \/ Close \/ CloseFlag \/ CloseSignal \/ AsyncCloseCB
  \/ LoopEnds

Spec == Init /\ [][Next]_vars

(* libuv calls every close callback and serves a signalled handle; a thread  *)
(* inside Close goes on.  Peers and the user need not do anything.           *)
Fairness ==
  /\ WF_vars(CloseFlag)
  /\ WF_vars(CloseSignal)
  /\ WF_vars(AsyncCloseCB)
  /\ WF_vars(CloseCallback)
  /\ WF_vars(LoopEnds)

FairSpec == Spec /\ Fairness

-----------------------------------------------------------------------------
TypeOK ==
  /\ alloc \subseteq Ctxs
  /\ avail_ctxs \in Seq(Ctxs)
  /\ handle \in [Handles -> {"none", "open", "closing"}]
  /\ close_cb \in [Handles ->
                     {"none", "_session_close", "RecycleSessionCtx", "AfterServerClose"}]
  /\ data \in [Ctxs -> Sids \cup {NULL}]
  /\ sid \in [Ctxs -> Sids \cup {NULL}]
  /\ parent_session \in [Ctxs -> Sids \cup {NULL}]
  /\ writes \in [Ctxs -> Nat]
  /\ sessions \in [Sids -> Ctxs \cup {NoCtx}]
  /\ last_sid \in 0 .. MaxSid
  /\ avail_params \in 0 .. MAXLISTSIZE + 1
  /\ params \in Int
  /\ async_pending \in BOOLEAN
  /\ is_user_closed \in BOOLEAN
  /\ is_closed \in BOOLEAN
  /\ closer \in {"out", "flag", "signal"}
  /\ announced \in Seq(Sids)
  /\ told \in Seq(Sids \cup {ServerEnd})
  /\ aborted \in BOOLEAN

-----------------------------------------------------------------------------
(* Every SessionCtx has one owner.  It is free, or idle in the list once, or *)
(* its handle is known to libuv -- and then nothing is missing that will     *)
(* give it back.  So none is freed or handed out while libuv may still call  *)
(* back with it, and none leaks (_fetch_one_ctx, _recycle_one_ctx and all    *)
(* the callbacks that hold a ctx).                                           *)
IdleOnce == IsInjective(avail_ctxs)
CtxsAccountedFor ==
  {c \in Ctxs : handle[c] # "none"} = alloc \ Range(avail_ctxs)
IdleAllocated == Range(avail_ctxs) \subseteq alloc
NothingPending == \A c \in Ctxs : handle[c] = "none" => writes[c] = 0

CtxsOwned == IdleOnce /\ IdleAllocated /\ CtxsAccountedFor /\ NothingPending

(* The data field of a handle points to what the next callback takes it for: *)
(* the ctx in OnRecv, whose Session is alive; a live Session, that of this   *)
(* very handle, in _session_close, under the id by which SessionClosed will  *)
(* find it; the ctx in RecycleSessionCtx.                                    *)
CallbacksFindTheirs ==
  \A c \in Ctxs :
    /\ handle[c] = "open" =>
         data[c] = NULL /\ parent_session[c] \in Live /\ sessions[parent_session[c]] = c
    /\ handle[c] = "closing" =>
         \/ /\ close_cb[c] = "_session_close"
            /\ data[c] \in Live /\ sessions[data[c]] = c /\ sid[c] = data[c]
         \/ /\ close_cb[c] = "RecycleSessionCtx"
            /\ data[c] = NULL
=============================================================================
