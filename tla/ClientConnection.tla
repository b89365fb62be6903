-------------------------- MODULE ClientConnection --------------------------
(***************************************************************************)
(* The connection of a TCPClient (tcpclient.cpp): Connect, which starts    *)
(* the thread of the event loop and waits for the outcome; the loss of the *)
(* connection and the timer that tries again; and Close.  What Send does   *)
(* is ClientSend's subject: here it is the signal it gives the loop.       *)
(*                                                                         *)
(* The user's thread and the loop thread share flags without a lock.  A    *)
(* step of the loop thread is one callback, a step of a user's thread the  *)
(* code between two accesses to those flags.  The user calls Connect only  *)
(* while the client is closed: on an open one it would work on the loop's  *)
(* handles from a foreign thread.                                          *)
(***************************************************************************)
EXTENDS Integers, Sequences

CONSTANTS MaxConnects,  \* bound: calls of Connect
          MaxEvents     \* bound: calls of ConnectCB per Connect

ASSUME ConnectionAssumption == MaxConnects \in Nat /\ MaxEvents \in Nat

VARIABLES is_closed, is_user_closed, connect_status, is_connecting,
          handle,         \* the state of _ctx->tcp_handle in libuv
          data,           \* its data field: the TcpClientCtx or the TCPClient
          on_close,       \* the callback it is being closed with
          connect_req,    \* uv_tcp_connect has not been answered
          timer,          \* _connect_timer
          async,          \* _async_handle
          async_pending,  \* it was signalled
          running,        \* the loop thread runs
          user,           \* where the caller of Connect is
          closer,         \* where a caller is inside Close
          result,         \* what the last Connect returned
          connects,       \* calls of Connect so far
          established,    \* history: connected since the last Connect
          events,         \* history: what ConnectCB was called with since then
          corrupted       \* a handle was initialised while libuv still knew it

flagVars == <<is_closed, is_user_closed, connect_status, is_connecting>>
tcpVars == <<handle, data, on_close, connect_req>>
loopVars == <<timer, async, async_pending, running, corrupted>>
userVars == <<user, closer, result, connects>>
historyVars == <<established, events>>
vars == <<flagVars, tcpVars, loopVars, userVars, historyVars>>

Init ==
  /\ is_closed = TRUE
  /\ is_user_closed = FALSE
  /\ connect_status = "CONNECT_DIS"
  /\ is_connecting = FALSE
  /\ handle = "none"
  /\ data = "ctx"
  /\ on_close = "none"
  /\ connect_req = FALSE
  /\ timer = "none"
  /\ async = "none"
  /\ async_pending = FALSE
  /\ running = FALSE
  /\ user = "idle"
  /\ closer = "out"
  /\ result = "none"
  /\ connects = 0
  /\ established = FALSE
  /\ events = <<>>
  /\ corrupted = FALSE

-----------------------------------------------------------------------------
(* Connect on a closed client, which leaves nothing for its _close to do.    *)
Called ==
  /\ ~corrupted
  /\ user = "idle"
  /\ is_closed
  /\ ~running
  /\ connects < MaxConnects
  /\ connects' = connects + 1
  /\ established' = FALSE
  /\ events' = <<>>
  /\ UNCHANGED <<is_user_closed, connect_status, is_connecting, on_close, closer, corrupted>>

(* _init fails.  Only uv_async_init can, its first call: uv_tcp_init and     *)
(* uv_timer_init make no system call.                                        *)
InitFails ==
  /\ Called
  /\ result' = "false"
  /\ UNCHANGED <<is_closed, handle, data, connect_req, timer, async, async_pending, running, user>>

(* _init makes the handles.                                                  *)
Opened ==
  /\ Called
  /\ is_closed' = FALSE
  /\ handle' = "open"
  /\ data' = "ctx"
  /\ timer' = "stopped"
  /\ async' = "open"
  /\ async_pending' = FALSE

(* uv_tcp_connect starts, the loop thread too, and the caller waits.         *)
Connect ==
  /\ Opened
  /\ connect_req' = TRUE
  /\ running' = TRUE
  /\ user' = "waiting"
  /\ result' = "none"

(* The address is bad or uv_tcp_connect fails at once; or it has started,    *)
(* and the thread is not created.  Connect returns with the handles open and *)
(* nobody who could close them.                                              *)
ConnectFails ==
  /\ Opened
  /\ result' = "false"
  /\ connect_req' \in BOOLEAN
  /\ UNCHANGED <<running, user>>

(* The wait ends when the status is set, by OnConnect or in an earlier life. *)
(* A status once set is never DIS again, and the reading of it that Connect  *)
(* returns is one with the reading that ends the wait: FINISH may come       *)
(* between the two as well as before them.                                   *)
ConnectReturnsMut ==
  /\ user = "waiting"
  /\ connect_status # "CONNECT_DIS"
  /\ user' = "idle"
  /\ result' = "true"
  /\ UNCHANGED <<flagVars, tcpVars, loopVars, historyVars, closer, connects>>
ConnectReturns ==
  /\ user = "waiting"
  /\ connect_status # "CONNECT_DIS"
  /\ user' = "idle"
  /\ result' = IF connect_status = "CONNECT_FINISH" THEN "true" ELSE "false"
  /\ UNCHANGED <<flagVars, tcpVars, loopVars, historyVars, closer, connects>>

(* It also ends after the last sleep, which began with the status unset:     *)
(* what has come since is overwritten, and what comes before Connect looks   *)
(* again (ConnectReturns) is returned.                                       *)
LastSleep ==
  /\ user = "waiting"
  /\ connect_status = "CONNECT_DIS"
  /\ user' = "timeout"
  /\ UNCHANGED <<flagVars, tcpVars, loopVars, historyVars, closer, result, connects>>

ConnectTimesOut ==
  /\ user = "timeout"
  /\ user' = "waiting"
  /\ connect_status' = "CONNECT_TIMEOUT"
  /\ UNCHANGED <<is_closed, is_user_closed, is_connecting, tcpVars, loopVars, historyVars,
                 closer, result, connects>>

-----------------------------------------------------------------------------
(* Close: the test of _is_closed, the flag, the signal.                      *)
Close ==
  /\ ~corrupted
  /\ closer = "out"
  /\ ~is_closed
  /\ closer' = "flag"
  /\ UNCHANGED <<flagVars, tcpVars, loopVars, historyVars, user, result, connects>>

CloseFlagMut ==
  /\ \/ closer = "flag" /\ closer' = "signal" /\ async_pending' = TRUE /\ UNCHANGED is_user_closed
     \/ closer = "signal" /\ closer' = "out" /\ is_user_closed' = TRUE /\ UNCHANGED async_pending
  /\ UNCHANGED <<is_closed, connect_status, is_connecting, tcpVars, timer, async, running,
                 corrupted, historyVars, user, result, connects>>
CloseFlag ==
  /\ closer = "flag"
  /\ is_user_closed' = TRUE
  /\ closer' = "signal"
  /\ UNCHANGED <<is_closed, connect_status, is_connecting, tcpVars, loopVars, historyVars,
                 user, result, connects>>

CloseSignal ==
  /\ closer = "signal"
  /\ closer' = "out"
  /\ async_pending' = TRUE
  /\ UNCHANGED <<flagVars, tcpVars, timer, async, running, corrupted, historyVars, user,
                 result, connects>>

(* Send's uv_async_send.                                                     *)
SendSignal ==
  /\ ~corrupted
  /\ ~is_closed
  /\ ~async_pending
  /\ async_pending' = TRUE
  /\ UNCHANGED <<flagVars, tcpVars, timer, async, running, corrupted, userVars, historyVars>>
-----------------------------------------------------------------------------
Looping == running /\ ~corrupted

(* _stop_reconnect, with the timer left as t.                                *)
StopReconnect(t) ==
  /\ is_connecting' = FALSE
  /\ data' = "ctx"
  /\ timer' = t

(* OnConnect after a connection was made: reading starts, which may fail;    *)
(* either way an attempt to reconnect is over, and the user is told.         *)
OnConnected(state, status) ==
  /\ Looping
  /\ handle = "open"
  /\ connect_req
  /\ Len(events) < MaxEvents
  /\ connect_req' = FALSE
  /\ handle' = state
  /\ connect_status' = status
  /\ IF is_connecting THEN StopReconnect("stopped") ELSE UNCHANGED <<is_connecting, data, timer>>
  /\ established' = TRUE
  /\ events' = Append(events, "CONNECT")
  /\ UNCHANGED <<is_closed, is_user_closed, on_close, async, async_pending, running, corrupted,
                 userVars>>

OnConnect == OnConnected("reading", "CONNECT_FINISH")
ReadStartFails == OnConnected("open", "CONNECT_ERROR")

(* OnConnect with an error: while reconnecting, the timer is set again, to   *)
(* twice the time.                                                           *)
OnConnectErrorMut ==
  /\ Looping
  /\ handle = "open"
  /\ connect_req
  /\ connect_req' = FALSE
  /\ connect_status' = "CONNECT_ERROR"
  /\ Len(events) < MaxEvents
  /\ events' = Append(events, "DISCONNECT")
  /\ timer' = IF is_connecting THEN "armed" ELSE timer
  /\ UNCHANGED <<is_closed, is_user_closed, is_connecting, handle, data, on_close, async,
                 async_pending, running, corrupted, userVars, established>>
OnConnectError ==
  /\ Looping
  /\ handle = "open"
  /\ connect_req
  /\ connect_req' = FALSE
  /\ connect_status' = "CONNECT_ERROR"
  /\ timer' = IF is_connecting THEN "armed" ELSE timer
  /\ UNCHANGED <<is_closed, is_user_closed, is_connecting, handle, data, on_close, async,
                 async_pending, running, corrupted, userVars, historyVars>>

(* OnRecv with an error: the user is told, _start_reconnect, and the handle  *)
(* is closed.                                                                *)
OnRecvErrorMut ==
  /\ Looping
  /\ handle = "reading"
  /\ Len(events) < MaxEvents
  /\ events' = Append(events, "DISCONNECT")
  /\ is_connecting' = TRUE
  /\ UNCHANGED data
  /\ handle' = "closing"
  /\ on_close' = "OnClientClose"
  /\ UNCHANGED <<is_closed, is_user_closed, connect_status, connect_req, loopVars, userVars,
                 established>>
OnRecvError ==
  /\ Looping
  /\ handle = "reading"
  /\ Len(events) < MaxEvents
  /\ events' = Append(events, "DISCONNECT")
  /\ is_connecting' = TRUE
  /\ data' = "client"
  /\ handle' = "closing"
  /\ on_close' = "OnClientClose"
  /\ UNCHANGED <<is_closed, is_user_closed, connect_status, connect_req, loopVars, userVars,
                 established>>

(* libuv finishes the closing of the tcp handle: a connect in flight is      *)
(* answered with an error (OnConnect), then the callback is called.          *)
(* OnClientClose takes data for the TCPClient; when it is the TcpClientCtx,  *)
(* the pointer it compares with the handle is not that handle's, and nothing *)
(* happens.                                                                  *)
OnClientClose ==
  /\ Looping
  /\ handle = "closing"
  /\ handle' = "none"
  /\ on_close' = "none"
  /\ connect_req' = FALSE
  /\ connect_status' = IF connect_req THEN "CONNECT_ERROR" ELSE connect_status
  /\ timer' = IF on_close = "OnClientClose" /\ data = "client" /\ is_connecting
              THEN "armed" ELSE timer
  /\ UNCHANGED <<is_closed, is_user_closed, is_connecting, data, async, async_pending, running,
                 corrupted, userVars, historyVars>>

(* ReconnectTimer: the handle is initialised and connects, or is closed      *)
(* again at once; the timer goes on either way.  It is not due in the turn   *)
(* of the loop that finishes a closing.  To initialise a handle libuv still  *)
(* knows puts it twice into the loop's queue: what follows is undefined.     *)
ReconnectTimerMut ==
  /\ Looping
  /\ timer = "armed"
  /\ is_connecting
  /\ handle # "closing"
  /\ UNCHANGED data
  /\ \/ /\ handle = "none"
        /\ handle' = "open"
        /\ connect_req' = TRUE
        /\ UNCHANGED <<on_close, corrupted>>
     \/ /\ handle = "none"
        /\ handle' = "closing"
        /\ on_close' = "NULL"
        /\ UNCHANGED <<connect_req, corrupted>>
     \/ /\ handle # "none"
        /\ corrupted' = TRUE
        /\ UNCHANGED <<handle, connect_req, on_close>>
  /\ UNCHANGED <<flagVars, timer, async, async_pending, running, userVars, historyVars>>
ReconnectTimer ==
  /\ Looping
  /\ timer = "armed"
  /\ is_connecting
  /\ handle # "closing"
  /\ data' = "ctx"
  /\ \/ /\ handle = "none"
        /\ handle' = "open"
        /\ connect_req' = TRUE
        /\ UNCHANGED <<on_close, corrupted>>
     \/ /\ handle = "none"
        /\ handle' = "closing"
        /\ on_close' = "NULL"
        /\ UNCHANGED <<connect_req, corrupted>>
     \/ /\ handle # "none"
        /\ corrupted' = TRUE
        /\ UNCHANGED <<handle, connect_req, on_close>>
  /\ UNCHANGED <<flagVars, timer, async, async_pending, running, userVars, historyVars>>

(* AsyncCB: _send, or _close if the user asked for it, which stops the       *)
(* reconnecting and closes every handle that is not being closed already.    *)
AsyncCBMut ==
  /\ Looping
  /\ async = "open"
  /\ async_pending
  /\ async_pending' = FALSE
  /\ IF is_user_closed
     THEN /\ StopReconnect("closing")
          /\ handle' = IF handle = "none" THEN "none" ELSE "closing"
          /\ on_close' = IF handle \in {"open", "reading"} THEN "OnClientClose" ELSE on_close
          /\ UNCHANGED async
     ELSE UNCHANGED <<is_connecting, data, timer, handle, on_close, async>>
  /\ UNCHANGED <<is_closed, is_user_closed, connect_status, connect_req, running, corrupted,
                 userVars, historyVars>>
AsyncCBReconnectsMut ==
  /\ Looping
  /\ async = "open"
  /\ async_pending
  /\ async_pending' = FALSE
  /\ IF is_user_closed
     THEN /\ timer' = "closing"
          /\ UNCHANGED <<is_connecting, data>>
          /\ handle' = IF handle = "none" THEN "none" ELSE "closing"
          /\ on_close' = IF handle \in {"open", "reading"} THEN "OnClientClose" ELSE on_close
          /\ async' = "closing"
     ELSE UNCHANGED <<is_connecting, data, timer, handle, on_close, async>>
  /\ UNCHANGED <<is_closed, is_user_closed, connect_status, connect_req, running, corrupted,
                 userVars, historyVars>>
AsyncCB ==
  /\ Looping
  /\ async = "open"
  /\ async_pending
  /\ async_pending' = FALSE
  /\ IF is_user_closed
     THEN /\ StopReconnect("closing")
          /\ handle' = IF handle = "none" THEN "none" ELSE "closing"
          /\ on_close' = IF handle \in {"open", "reading"} THEN "OnClientClose" ELSE on_close
          /\ async' = "closing"
     ELSE UNCHANGED <<is_connecting, data, timer, handle, on_close, async>>
  /\ UNCHANGED <<is_closed, is_user_closed, connect_status, connect_req, running, corrupted,
                 userVars, historyVars>>

(* The closing of the other two handles, on which OnClientClose does nothing.*)
AsyncCloses ==
  /\ Looping
  /\ async = "closing"
  /\ async' = "none"
  /\ UNCHANGED <<flagVars, tcpVars, timer, async_pending, running, corrupted, userVars,
                 historyVars>>

TimerCloses ==
  /\ Looping
  /\ timer = "closing"
  /\ timer' = "none"
  /\ UNCHANGED <<flagVars, tcpVars, async, async_pending, running, corrupted, userVars,
                 historyVars>>

(* uv_run returns when no handle is left: _run.                              *)
RunEndsMut ==
  /\ Looping
  /\ handle = "none" /\ async = "none"
  /\ is_closed' = TRUE
  /\ running' = FALSE
  /\ UNCHANGED <<is_user_closed, connect_status, is_connecting, tcpVars, timer, async,
                 async_pending, corrupted, userVars, historyVars>>
RunEnds ==
  /\ Looping
  /\ handle = "none" /\ timer = "none" /\ async = "none"
  /\ is_closed' = TRUE
  /\ running' = FALSE
  /\ UNCHANGED <<is_user_closed, connect_status, is_connecting, tcpVars, timer, async,
                 async_pending, corrupted, userVars, historyVars>>

-----------------------------------------------------------------------------
Next ==
  \/ InitFails \/ Connect \/ ConnectFails \/ ConnectReturns \/ LastSleep
  \/ ConnectTimesOut \/ Close \/ CloseFlag \/ CloseSignal \/ SendSignal
  \/ OnConnect \/ ReadStartFails \/ OnConnectError \/ OnRecvError
  \/ OnClientClose \/ ReconnectTimer \/ AsyncCB \/ AsyncCloses \/ TimerCloses
  \/ RunEnds

Spec == Init /\ [][Next]_vars

(* A thread goes on inside Close; libuv serves a signalled handle and calls  *)
(* the close callbacks.  The network owes nothing.                           *)
Fairness ==
  /\ WF_vars(CloseFlag) /\ WF_vars(CloseSignal)
  /\ WF_vars(AsyncCB)
  /\ WF_vars(OnClientClose) /\ WF_vars(AsyncCloses) /\ WF_vars(TimerCloses)
  /\ WF_vars(RunEnds)

FairSpec == Spec /\ Fairness

-----------------------------------------------------------------------------
TypeOK ==
  /\ is_closed \in BOOLEAN
  /\ is_user_closed \in BOOLEAN
  /\ connect_status \in {"CONNECT_DIS", "CONNECT_FINISH", "CONNECT_ERROR", "CONNECT_TIMEOUT"}
  /\ is_connecting \in BOOLEAN
  /\ handle \in {"none", "open", "reading", "closing"}
  /\ data \in {"ctx", "client"}
  /\ on_close \in {"none", "OnClientClose", "NULL"}
  /\ connect_req \in BOOLEAN
  /\ timer \in {"none", "stopped", "armed", "closing"}
  /\ async \in {"none", "open", "closing"}
  /\ async_pending \in BOOLEAN
  /\ running \in BOOLEAN
  /\ user \in {"idle", "waiting", "timeout"}
  /\ closer \in {"out", "flag", "signal"}
  /\ result \in {"none", "true", "false"}
  /\ connects \in 0 .. MaxConnects
  /\ established \in BOOLEAN
  /\ events \in Seq({"CONNECT", "DISCONNECT"})
  /\ corrupted \in BOOLEAN
  /\ on_close # "none" <=> handle = "closing"
  /\ connect_req => handle \in {"open", "closing"}
  /\ is_closed => ~running /\ handle = "none" /\ timer = "none" /\ async = "none"

(* What its user heard of last is a loss.                                    *)
Lost == events # <<>> /\ events[Len(events)] = "DISCONNECT"

(* Reconnecting never peters out: a client whose user was told of a loss,    *)
(* and not yet of a new connection, has the timer running, or the callback   *)
(* that will start it is due and will recognise the client, through any      *)
(* number of attempts that fail -- until the loop thread serves a Close      *)
(* (OnRecv, OnClientClose, ReconnectTimer, OnConnect, _close).  A first      *)
(* attempt that fails, and a connection on which uv_read_start fails, are    *)
(* not losses the user is told of, and are not tried again.                  *)
ReconnectGoesOn ==
  Lost /\ running /\ async = "open" =>
    \/ timer = "armed"
    \/ handle = "closing" /\ on_close = "OnClientClose" /\ data = "client"

(* The data field, which changes hands between the context and the client    *)
(* when reconnecting starts and stops, is the context whenever OnConnect,    *)
(* AllocBufferForRecv or OnRecv may be called.                               *)
ReadersFindCtx == handle \in {"open", "reading"} => data = "ctx"

(* The user hears of a loss only after a connection, of a connection only    *)
(* after a loss: ConnectCB's events alternate (OnConnect, OnRecv).           *)
EventsAlternate ==
  \A i \in DOMAIN events :
    events[i] = "CONNECT" <=> (i = 1 \/ events[i - 1] = "DISCONNECT")

(* The first Connect of a client returns true only if it made a connection,  *)
(* whichever of its last sleep, OnConnect, a failed read start, a loss and a *)
(* reconnect comes when.  (A later Connect finds the status of the first one *)
(* still set, since only the constructor clears it.)                         *)
FirstConnectTold == connects = 1 /\ result = "true" => established

(* An attempt to reconnect starts with a closed handle, whatever became of   *)
(* the one before (OnConnect, ReconnectTimer).                               *)
RetryStartsAfresh == ~corrupted

-----------------------------------------------------------------------------
(* A Close is not forgotten: the flag is set before the signal is given, so  *)
(* that the loop thread either has the signal still to serve or is the one   *)
(* that closes.  This is so in the first life only, as the flag stays set in *)
(* the next one, whose first signal then closes it (Close, AsyncCB,          *)
(* _is_user_closed).                                                         *)
CloseIsRemembered ==
  connects = 1 /\ is_user_closed /\ running /\ async = "open" =>
    async_pending \/ closer = "signal"

(* A Close that the loop thread has served is final: until the client is    *)
(* closed no attempt to connect starts or succeeds, the user hears of        *)
(* nothing more, and handles only go, wherever the Close found the           *)
(* connection (AsyncCB, _close, _stop_reconnect, OnClientClose).             *)
Leaving == running /\ async # "open"

OnlyCloses ==
  Leaving =>
    /\ Leaving' \/ is_closed'
    /\ ~is_connecting'
    /\ events' = events /\ established' = established
    /\ handle' \in {handle, "none"} /\ timer' \in {timer, "none"} /\ async' \in {async, "none"}

ServedCloseIsFinal == [][OnlyCloses]_vars

(* Once a loop thread runs, Close ends it, wherever it finds the connection  *)
(* -- connecting, lost, between two attempts -- or the loop's queue was      *)
(* destroyed before (Close, AsyncCB, _close, OnClientClose, _run).           *)
CloseCompletes == closer = "signal" /\ running ~> (is_closed \/ corrupted)
=============================================================================
