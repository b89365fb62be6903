----------------------------- MODULE ServerStart -----------------------------
(***************************************************************************)
(* The life of a TCPServer (tcpserver.cpp): Start, which opens the two     *)
(* handles of the server and a thread that runs the event loop, and waits  *)
(* for it; Close from any thread; a restart; the destructor.  Sessions are *)
(* TcpServer's subject: here the loop has the server's own handles only.   *)
(*                                                                         *)
(* The owner's thread, a thread inside Close and the start threads of this *)
(* and of earlier lives share flags without a lock; a step is the code     *)
(* between two accesses to them.  The owner calls Start when IsClosed()    *)
(* says so, or after a Start that failed: on a running server, Start would *)
(* work on the loop's handles from a foreign thread.  It destroys a server *)
(* only when its last Start has made a thread that can be joined.          *)
(***************************************************************************)
EXTENDS Integers

CONSTANT MaxStarts  \* bound: calls of Start

ASSUME StartAssumption == MaxStarts \in Nat \ {0}

Lives == 1 .. MaxStarts

VARIABLES is_closed, is_user_closed, start_status,
          tcp, async,     \* _tcp_handle and _async_close_handle in libuv
          async_pending,  \* _async_close_handle was signalled
          thread,         \* where the start thread of each life is
          owner,          \* where the owner is inside Start or the destructor
          closer,         \* where a thread is inside Close
          starts,         \* calls of Start so far: the last one's life
          result,         \* what the last Start returned
          hasty,          \* history: some Start came before the end of an earlier
                          \* life was told
          corrupted       \* handles were used in a way libuv leaves undefined

flagVars == <<is_closed, is_user_closed, start_status>>
loopVars == <<tcp, async, async_pending, corrupted>>
ownerVars == <<owner, starts, result, hasty>>
vars == <<flagVars, loopVars, thread, ownerVars, closer>>

Init ==
  /\ is_closed = TRUE
  /\ is_user_closed = FALSE
  /\ start_status = "START_DIS"
  /\ tcp = "none"
  /\ async = "none"
  /\ async_pending = FALSE
  /\ thread = [l \in Lives |-> "none"]
  /\ owner = "idle"
  /\ closer = "out"
  /\ starts = 0
  /\ result = "none"
  /\ hasty = FALSE
  /\ corrupted = FALSE

(* A start thread inside _run or before it, and one that has left the loop   *)
(* and is still to do something.                                             *)
Serving(l) == thread[l] \in {"created", "running", "ended"}
Leaving(l) == thread[l] \in {"closed", "cleared"}

-----------------------------------------------------------------------------
(* Start begins with _close, "to make sure that the server is closed".  It   *)
(* has something to do only after a Start that failed: no loop runs, and the *)
(* handles it closes stay closing.                                           *)
Start ==
  /\ ~corrupted
  /\ owner = "idle"
  /\ starts < MaxStarts
  /\ is_closed \/ \A l \in Lives : ~Serving(l)
  /\ starts' = starts + 1
  /\ owner' = "init"
  /\ result' = "none"
  /\ hasty' = (hasty \/ \E l \in Lives : Leaving(l))
  /\ IF is_closed THEN UNCHANGED <<tcp, async>>
                  ELSE tcp' = "closing" /\ async' = "closing"
  /\ UNCHANGED <<flagVars, async_pending, corrupted, thread, closer>>

(* _init does nothing on a server that is not closed.  To initialise a       *)
(* handle libuv still knows is undefined.                                    *)
InitHandlesMut ==
  /\ ~corrupted
  /\ owner = "init"
  /\ owner' = "listen"
  /\ IF is_closed
     THEN /\ corrupted' = (tcp # "none" \/ async # "none")
          /\ tcp' = "open"
          /\ async' = "open"
          /\ async_pending' = FALSE
     ELSE UNCHANGED loopVars
  /\ UNCHANGED <<flagVars, thread, starts, result, hasty, closer>>
InitHandles ==
  /\ ~corrupted
  /\ owner = "init"
  /\ owner' = "listen"
  /\ IF is_closed
     THEN /\ corrupted' = (tcp # "none" \/ async # "none")
          /\ tcp' = "open"
          /\ async' = "open"
          /\ async_pending' = FALSE
          /\ is_closed' = FALSE
     ELSE UNCHANGED <<loopVars, is_closed>>
  /\ UNCHANGED <<is_user_closed, start_status, thread, starts, result, hasty, closer>>

(* _bind and _listen.  On a handle that is being closed they fail, or libuv  *)
(* gives it a new socket and what follows is undefined.                      *)
Listen ==
  /\ ~corrupted
  /\ owner = "listen"
  /\ owner' = "spawn"
  /\ corrupted' = (tcp # "open")
  /\ tcp' = "listening"
  /\ UNCHANGED <<flagVars, async, async_pending, thread, starts, result, hasty, closer>>

Spawn ==
  /\ ~corrupted
  /\ owner = "spawn"
  /\ owner' = "wait"
  /\ thread' = [thread EXCEPT ![starts] = "created"]
  /\ UNCHANGED <<flagVars, loopVars, starts, result, hasty, closer>>

(* Start returns: _init, _bind, _listen or uv_thread_create failed, and what *)
(* was done before stays.  Of _init only uv_async_init can fail, its first   *)
(* call: uv_tcp_init and uv_tcp_nodelay make no system call on a handle that *)
(* has no socket yet.                                                        *)
Returns(value) ==
  /\ owner' = "idle"
  /\ result' = value
  /\ UNCHANGED <<starts, hasty>>

StartFails ==
  /\ ~corrupted
  /\ owner \in {"listen", "spawn"} \/ (owner = "init" /\ is_closed)
  /\ Returns("false")
  /\ UNCHANGED <<flagVars, loopVars, thread, closer>>

(* The wait ends when the status is set, be it by an earlier life ...        *)
StartReturns ==
  /\ owner = "wait"
  /\ start_status # "START_DIS"
  /\ Returns(IF start_status = "START_FINISH" THEN "true" ELSE "false")
  /\ UNCHANGED <<flagVars, loopVars, thread, closer>>

(* ... or by Start itself after the last sleep, before which it was unset.   *)
LastSleep ==
  /\ owner = "wait"
  /\ start_status = "START_DIS"
  /\ owner' = "timeout"
  /\ UNCHANGED <<flagVars, loopVars, thread, starts, result, hasty, closer>>

StartTimesOut ==
  /\ owner = "timeout"
  /\ start_status' = "START_TIMEOUT"
  /\ owner' = "wait"
  /\ UNCHANGED <<is_closed, is_user_closed, loopVars, thread, starts, result, hasty, closer>>

-----------------------------------------------------------------------------
(* Close: the test of _is_closed, the flag, the signal.                      *)
Close ==
  /\ ~corrupted
  /\ owner \notin {"join", "destroyed"}
  /\ closer = "out"
  /\ ~is_closed
  /\ closer' = "flag"
  /\ UNCHANGED <<flagVars, loopVars, thread, ownerVars>>

CloseFlag ==
  /\ closer = "flag"
  /\ closer' = "signal"
  /\ is_user_closed' = TRUE
  /\ UNCHANGED <<is_closed, start_status, loopVars, thread, ownerVars>>

CloseSignalMut ==
  /\ closer = "signal"
  /\ closer' = "out"
  /\ UNCHANGED <<flagVars, loopVars, thread, ownerVars>>
CloseSignal ==
  /\ closer = "signal"
  /\ closer' = "out"
  /\ async_pending' = TRUE
  /\ UNCHANGED <<flagVars, tcp, async, corrupted, thread, ownerVars>>

(* The destructor: Close, then the last start thread is joined, and the loop *)
(* and everything else is freed.                                             *)
DestroyMut ==
  /\ ~corrupted
  /\ owner = "idle"
  /\ closer = "out"
  /\ starts > 0
  /\ thread[starts] # "none"
  /\ owner' = "join"
  /\ UNCHANGED <<flagVars, loopVars, thread, starts, result, hasty, closer>>
Destroy ==
  /\ ~corrupted
  /\ owner = "idle"
  /\ closer = "out"
  /\ starts > 0
  /\ thread[starts] # "none"
  /\ owner' = "join"
  /\ closer' = IF is_closed THEN "out" ELSE "flag"
  /\ UNCHANGED <<flagVars, loopVars, thread, starts, result, hasty>>

JoinedMut ==
  /\ owner = "join"
  /\ closer = "out"
  /\ owner' = "destroyed"
  /\ UNCHANGED <<flagVars, loopVars, thread, starts, result, hasty, closer>>
Joined ==
  /\ owner = "join"
  /\ closer = "out"
  /\ thread[starts] = "done"
  /\ owner' = "destroyed"
  /\ UNCHANGED <<flagVars, loopVars, thread, starts, result, hasty, closer>>

-----------------------------------------------------------------------------
(* _start_thread, step by step.                                              *)
Goes(l, from, to) ==
  /\ ~corrupted
  /\ thread[l] = from
  /\ thread' = [thread EXCEPT ![l] = to]
  /\ UNCHANGED <<ownerVars, closer>>

ThreadEnters(l) ==
  /\ Goes(l, "created", "running")
  /\ start_status' = "START_FINISH"
  /\ UNCHANGED <<is_closed, is_user_closed, loopVars>>

(* The loop: AsyncCloseCB, and the end of the closing of a handle.           *)
AsyncCloseCB(l) ==
  /\ Goes(l, "running", "running")
  /\ async = "open"
  /\ async_pending
  /\ async_pending' = FALSE
  /\ IF is_user_closed /\ ~is_closed THEN tcp' = "closing" /\ async' = "closing"
                                     ELSE UNCHANGED <<tcp, async>>
  /\ UNCHANGED <<flagVars, corrupted>>

TcpCloses(l) ==
  /\ Goes(l, "running", "running")
  /\ tcp = "closing"
  /\ tcp' = "none"
  /\ UNCHANGED <<flagVars, async, async_pending, corrupted>>

AsyncCloses(l) ==
  /\ Goes(l, "running", "running")
  /\ async = "closing"
  /\ async' = "none"
  /\ UNCHANGED <<flagVars, tcp, async_pending, corrupted>>

(* uv_run returns when no handle is left; the flags; the user is told.       *)
RunEndsMut(l) ==
  /\ Goes(l, "running", "ended")
  /\ async = "none"
  /\ UNCHANGED <<flagVars, loopVars>>
RunEnds(l) ==
  /\ Goes(l, "running", "ended")
  /\ tcp = "none" /\ async = "none"
  /\ UNCHANGED <<flagVars, loopVars>>

SetClosed(l) ==
  /\ Goes(l, "ended", "closed")
  /\ is_closed' = TRUE
  /\ UNCHANGED <<is_user_closed, start_status, loopVars>>

ClearUserClosed(l) ==
  /\ Goes(l, "closed", "cleared")
  /\ is_user_closed' = FALSE
  /\ UNCHANGED <<is_closed, start_status, loopVars>>

TellEnd(l) ==
  /\ Goes(l, "cleared", "done")
  /\ UNCHANGED <<flagVars, loopVars>>

-----------------------------------------------------------------------------
ThreadStep(l) ==
  \/ ThreadEnters(l) \/ AsyncCloseCB(l) \/ TcpCloses(l) \/ AsyncCloses(l)
  \/ RunEnds(l) \/ SetClosed(l) \/ ClearUserClosed(l) \/ TellEnd(l)

OwnerStep == InitHandles \/ Listen \/ Spawn \/ StartReturns \/ LastSleep \/ StartTimesOut

Next ==
  \/ Start \/ OwnerStep \/ StartFails
  \/ Close \/ CloseFlag \/ CloseSignal
  \/ Destroy \/ Joined
  \/ \E l \in Lives : ThreadStep(l)

Spec == Init /\ [][Next]_vars

-----------------------------------------------------------------------------
(* The values of the variables; where the owner is inside Start, the thread  *)
(* of this life is not created and the server no longer says it is closed.   *)
TypeOK ==
  /\ is_closed \in BOOLEAN
  /\ is_user_closed \in BOOLEAN
  /\ start_status \in {"START_DIS", "START_FINISH", "START_TIMEOUT"}
  /\ tcp \in {"none", "open", "listening", "closing"}
  /\ async \in {"none", "open", "closing"}
  /\ async_pending \in BOOLEAN
  /\ thread \in [Lives ->
       {"none", "created", "running", "ended", "closed", "cleared", "done"}]
  /\ owner \in {"idle", "init", "listen", "spawn", "wait", "timeout", "join", "destroyed"}
  /\ closer \in {"out", "flag", "signal"}
  /\ starts \in 0 .. MaxStarts
  /\ result \in {"none", "true", "false"}
  /\ hasty \in BOOLEAN
  /\ corrupted \in BOOLEAN
  /\ \A l \in Lives : thread[l] # "none" => l <= starts
  /\ owner \in {"init", "listen", "spawn"} => thread[starts] = "none"
  /\ owner \in {"listen", "spawn"} => ~is_closed

(* What IsClosed() promises the owner: when it is true, no thread is in the  *)
(* loop or on its way there, and libuv knows neither handle; so a Start may  *)
(* initialise them again, however hasty it is (_init, _start_thread).        *)
ClosedIsQuiet ==
  is_closed /\ ~corrupted =>
    /\ tcp = "none" /\ async = "none"
    /\ \A l \in Lives : ~Serving(l)

(* Through any number of restarts and failures, one thread at most is in the *)
(* loop: uv_run is not re-entrant (Start, _start_thread).                    *)
OneLoop == \A k, l \in Lives : Serving(k) /\ Serving(l) => k = l

(* When the destructor has freed the server, no start thread will touch it   *)
(* any more, provided that every restart waited for the callback that tells  *)
(* the end of the life before: only the last thread is joined.               *)
DestroyedIsQuiet ==
  owner = "destroyed" /\ ~hasty =>
    /\ tcp = "none" /\ async = "none"
    /\ \A l \in Lives : thread[l] \in {"none", "done"}
=============================================================================
