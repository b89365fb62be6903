------------------------ MODULE TcpServerProperties ------------------------
(***************************************************************************)
(* What TCPServer promises: properties of TcpServer beyond the ownership   *)
(* of its memory.                                                          *)
(***************************************************************************)
EXTENDS TcpServer, FiniteSets

(* The writes libuv has not answered.                                        *)
Unanswered == UNION {{c} \X (1 .. writes[c]) : c \in Ctxs}

(* Every WriteParam is idle or in one write libuv has not answered: none is  *)
(* lost in a failed or a cancelled write, and none recycled twice (_send,    *)
(* OnSend, _fetch_one_param, _recycle_one_param).                            *)
ParamsConserved == params = avail_params + Cardinality(Unanswered)

(* When the user is told that the server has ended, it has: no session, no   *)
(* write, and nothing allocated but what the idle lists hold (LoopEnds after *)
(* _close).                                                                  *)
EndIsClean ==
  is_closed =>
    /\ Live = {}
    /\ alloc = Range(avail_ctxs)
    /\ params = avail_params

(* The callbacks come in the order the user may rely on.                     *)
Events == INSTANCE SessionEvents
CallbacksInOrder == Events!Spec

-----------------------------------------------------------------------------
(* A Close that found the server running leads to its end, or to the failed  *)
(* assertion of uv_close (Close, AsyncCloseCB, _close, _start_thread).       *)
CloseCompletes == closer = "signal" ~> (is_closed \/ aborted)

(* Close closes the server: "close every session and every handle of the     *)
(* loop", says the comment on _close.                                        *)
CloseClosesAll == closer = "signal" ~> is_closed

(* A connection whose peer is gone is reported to the user, however the rest *)
(* of the server goes on (OnRecv, Session::Close, _session_close).           *)
LossIsTold ==
  \A s \in Sids :
    (s \in Live /\ handle[sessions[s]] = "closing") ~> (s \in Range(told) \/ aborted)
=============================================================================
