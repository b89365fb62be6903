------------------------ MODULE ClientConnectionProofs ------------------------
(***************************************************************************)
(* The invariants of ClientConnection, for any number of Connects and      *)
(* events.                                                                 *)
(*                                                                         *)
(* Beside the values of the variables five facts carry them.  A client     *)
(* that is reconnecting has its timer running or about to be (Retrying).   *)
(* It reconnects only while _async_handle is open, for _close, which       *)
(* begins the closing of that handle, ends it (Ending): so a loop that has *)
(* ended leaves none to the next Connect, which would stop its timer.  The *)
(* last event tells what the handle is at (Heard): reading after CONNECT,  *)
(* connecting before the first one or after DISCONNECT, when the client is *)
(* reconnecting.  And the status of a client that was never connected is   *)
(* the constructor's (Fresh), so that the first Connect finds only its own *)
(* (Told).                                                                 *)
(***************************************************************************)
EXTENDS ClientConnection, TLAPS

Retrying ==
  is_connecting =>
    \/ timer = "armed"
    \/ handle = "closing" /\ on_close = "OnClientClose" /\ data = "client"

Ending ==
  /\ is_connecting => running /\ async = "open"
  /\ running /\ async # "open" => handle \in {"none", "closing"} /\ timer \in {"none", "closing"}

Last(event) == events # <<>> /\ events[Len(events)] = event

Heard ==
  /\ handle = "reading" => Last("CONNECT")
  /\ is_connecting => Last("DISCONNECT")
  /\ Last("DISCONNECT") /\ running /\ async = "open" => is_connecting
  /\ handle = "open" /\ connect_req => events = <<>> \/ Last("DISCONNECT")

Fresh ==
  connects = 0 =>
    /\ is_closed
    /\ connect_status = "CONNECT_DIS"
    /\ user = "idle" /\ result = "none"

Told == connects = 1 /\ connect_status = "CONNECT_FINISH" => established

IInv ==
  /\ TypeOK /\ Retrying /\ ReadersFindCtx /\ EventsAlternate /\ FirstConnectTold
  /\ Ending /\ Heard /\ Fresh /\ Told
-----------------------------------------------------------------------------
(* One more event, of the kind that is due.                                  *)
LEMMA NextEvent ==
  ASSUME NEW old \in Seq({"CONNECT", "DISCONNECT"}), NEW e \in {"CONNECT", "DISCONNECT"},
         \A i \in DOMAIN old : old[i] = "CONNECT" <=> (i = 1 \/ old[i - 1] = "DISCONNECT"),
         e = "CONNECT" <=> (old = <<>> \/ old[Len(old)] = "DISCONNECT"),
         NEW new, new = Append(old, e)
  PROVE  /\ new \in Seq({"CONNECT", "DISCONNECT"})
         /\ new # <<>> /\ new[Len(new)] = e
         /\ \A i \in DOMAIN new : new[i] = "CONNECT" <=> (i = 1 \/ new[i - 1] = "DISCONNECT")
<1>1. new \in Seq({"CONNECT", "DISCONNECT"}) /\ Len(new) = Len(old) + 1 /\ Len(old) \in Nat
  OBVIOUS
<1>2. new[Len(new)] = e /\ \A i \in 1 .. Len(old) : new[i] = old[i]
  OBVIOUS
<1>3. ASSUME NEW i \in DOMAIN new
      PROVE  new[i] = "CONNECT" <=> (i = 1 \/ new[i - 1] = "DISCONNECT")
  <2>1. CASE i = Len(old) + 1
    <3>1. old = <<>> <=> i = 1
      BY <2>1
    <3>2. i # 1 => new[i - 1] = old[Len(old)]
      BY <1>1, <1>2, <2>1
    <3> QED  BY <1>1, <1>2, <2>1, <3>1, <3>2
  <2>2. CASE i # Len(old) + 1
    <3>1. i \in DOMAIN old /\ (i # 1 => i - 1 \in 1 .. Len(old))
      BY <1>1, <2>2
    <3> QED  BY <1>1, <1>2, <3>1
  <2> QED  BY <2>1, <2>2
<1> QED
  BY <1>1, <1>2, <1>3

(* Each action keeps the invariant.                                          *)
LEMMA ConnectionStep ==
  ASSUME IInv, [Next]_vars
  PROVE  IInv'
<1>0. TypeOK /\ Retrying /\ ReadersFindCtx /\ EventsAlternate /\ FirstConnectTold
      /\ Ending /\ Heard /\ Fresh /\ Told
  BY DEF IInv
<1>1. CASE Connect
  <2>1. events' \in Seq({"CONNECT", "DISCONNECT"}) /\ EventsAlternate'
    BY <1>0, <1>1, SMT DEF Connect, Called, Opened, TypeOK, EventsAlternate
  <2>2. is_closed' \in BOOLEAN /\ async_pending' \in BOOLEAN /\ established' \in BOOLEAN
        /\ connect_req' \in BOOLEAN /\ running' \in BOOLEAN
    BY <1>0, <1>1, Zenon DEF Connect, Called, Opened, TypeOK
  <2>3. TypeOK'
    BY <1>0, <1>1, <2>1, <2>2, ConnectionAssumption, SMT DEF Connect, Called, Opened,
       TypeOK
  <2>4. Ending' /\ Retrying' /\ ReadersFindCtx'
    BY <1>0, <1>1, SMT DEF Connect, Called, Opened, TypeOK, Ending, Retrying,
       ReadersFindCtx
  <2>5. Heard'
    BY <1>0, <1>1, SMT DEF Connect, Called, Opened, TypeOK, Heard, Ending, Last
  <2>6. FirstConnectTold' /\ Fresh' /\ Told'
    BY <1>0, <1>1, ConnectionAssumption, SMT DEF Connect, Called, Opened, TypeOK,
       FirstConnectTold, Fresh, Told
  <2> QED  BY <2>1, <2>3, <2>4, <2>5, <2>6 DEF IInv
<1>2. CASE ConnectFails
  <2>1. events' \in Seq({"CONNECT", "DISCONNECT"}) /\ EventsAlternate'
    BY <1>0, <1>2, SMT DEF ConnectFails, Called, Opened, TypeOK, EventsAlternate
  <2>2. is_closed' \in BOOLEAN /\ async_pending' \in BOOLEAN /\ established' \in BOOLEAN
    BY <1>0, <1>2, Zenon DEF ConnectFails, Called, Opened, TypeOK
  <2>3. TypeOK'
    BY <1>0, <1>2, <2>1, <2>2, ConnectionAssumption, SMT DEF ConnectFails,
       Called, Opened, TypeOK
  <2>4. Ending' /\ Retrying' /\ ReadersFindCtx'
    BY <1>0, <1>2, SMT DEF ConnectFails, Called, Opened, TypeOK, Ending,
       Retrying, ReadersFindCtx
  <2>5. Heard'
    BY <1>0, <1>2, SMT DEF ConnectFails, Called, Opened, TypeOK, Heard, Ending, Last
  <2>6. FirstConnectTold' /\ Fresh' /\ Told'
    BY <1>0, <1>2, ConnectionAssumption, SMT DEF ConnectFails, Called, Opened,
       TypeOK, FirstConnectTold, Fresh, Told
  <2> QED  BY <2>1, <2>3, <2>4, <2>5, <2>6 DEF IInv
<1>3. CASE ConnectReturns
  BY <1>0, <1>3, SMTT(20) DEF ConnectReturns, flagVars, tcpVars, loopVars,
     historyVars, IInv, TypeOK, Retrying, ReadersFindCtx,
     EventsAlternate, FirstConnectTold, Ending, Heard, Last, Fresh, Told
<1>4. CASE LastSleep
  BY <1>0, <1>4, SMTT(20) DEF LastSleep, flagVars, tcpVars, loopVars,
     historyVars, IInv, TypeOK, Retrying, ReadersFindCtx,
     EventsAlternate, FirstConnectTold, Ending, Heard, Last, Fresh, Told
<1>5. CASE ConnectTimesOut
  BY <1>0, <1>5, SMTT(20) DEF ConnectTimesOut, tcpVars, loopVars,
     historyVars, IInv, TypeOK, Retrying, ReadersFindCtx,
     EventsAlternate, FirstConnectTold, Ending, Heard, Last, Fresh, Told
<1>6. CASE Close
  BY <1>0, <1>6, SMTT(20) DEF Close, flagVars, tcpVars, loopVars,
     historyVars, IInv, TypeOK, Retrying, ReadersFindCtx,
     EventsAlternate, FirstConnectTold, Ending, Heard, Last, Fresh, Told
<1>7. CASE CloseFlag
  BY <1>0, <1>7, SMTT(20) DEF CloseFlag, tcpVars, loopVars, historyVars,
     IInv, TypeOK, Retrying, ReadersFindCtx, EventsAlternate,
     FirstConnectTold, Ending, Heard, Last, Fresh, Told
<1>8. CASE CloseSignal
  BY <1>0, <1>8, SMTT(20) DEF CloseSignal, flagVars, tcpVars, historyVars,
     IInv, TypeOK, Retrying, ReadersFindCtx, EventsAlternate,
     FirstConnectTold, Ending, Heard, Last, Fresh, Told
<1>9. CASE SendSignal
  BY <1>0, <1>9, SMTT(20) DEF SendSignal, flagVars, tcpVars, userVars,
     historyVars, IInv, TypeOK, Retrying, ReadersFindCtx,
     EventsAlternate, FirstConnectTold, Ending, Heard, Last, Fresh, Told
<1>10. CASE OnConnect
  <2>1. /\ events \in Seq({"CONNECT", "DISCONNECT"})
        /\ events' = Append(events, "CONNECT")
    BY <1>0, <1>10 DEF OnConnect, OnConnected, StopReconnect, Looping,
       userVars, TypeOK
  <2>2. events = <<>> \/ events[Len(events)] = "DISCONNECT"
    BY <1>0, <1>10, SMT DEF OnConnect, OnConnected, StopReconnect, Looping,
       userVars, TypeOK, ReadersFindCtx, Heard, Last
  <2>3. events' \in Seq({"CONNECT", "DISCONNECT"}) /\ Last("CONNECT")' /\ EventsAlternate'
    BY <1>0, <2>1, <2>2, NextEvent DEF EventsAlternate, Last
  <2>4. connect_req' \in BOOLEAN /\ is_connecting' \in BOOLEAN /\ established' \in BOOLEAN
    BY <1>0, <1>10, Zenon DEF OnConnect, OnConnected, StopReconnect, Looping,
       userVars, TypeOK
  <2>5. TypeOK'
    BY <1>0, <1>10, <2>3, <2>4, SMT DEF OnConnect, OnConnected,
       StopReconnect, Looping, userVars, TypeOK
  <2>6. Ending' /\ Retrying' /\ ReadersFindCtx'
    BY <1>0, <1>10, SMT DEF OnConnect, OnConnected, StopReconnect, Looping,
       userVars, TypeOK, Ending, Retrying, ReadersFindCtx
  <2>7. Heard'
    <3>1. ~Last("DISCONNECT")'
      BY <2>3 DEF Last
    <3> QED
      BY <1>0, <1>10, <2>3, <3>1, SMT DEF OnConnect, OnConnected, StopReconnect,
         Looping, userVars, TypeOK, Heard, Ending
  <2>8. FirstConnectTold' /\ Fresh' /\ Told'
    BY <1>0, <1>10, SMT DEF OnConnect, OnConnected, StopReconnect, Looping,
       userVars, TypeOK, FirstConnectTold, Fresh, Told
  <2> QED  BY <2>3, <2>5, <2>6, <2>7, <2>8 DEF IInv
<1>11. CASE ReadStartFails
  <2>1. /\ events \in Seq({"CONNECT", "DISCONNECT"})
        /\ events' = Append(events, "CONNECT")
    BY <1>0, <1>11 DEF ReadStartFails, OnConnected, StopReconnect, Looping,
       userVars, TypeOK
  <2>2. events = <<>> \/ events[Len(events)] = "DISCONNECT"
    BY <1>0, <1>11, SMT DEF ReadStartFails, OnConnected, StopReconnect,
       Looping, userVars, TypeOK, ReadersFindCtx, Heard, Last
  <2>3. events' \in Seq({"CONNECT", "DISCONNECT"}) /\ Last("CONNECT")' /\ EventsAlternate'
    BY <1>0, <2>1, <2>2, NextEvent DEF EventsAlternate, Last
  <2>4. connect_req' \in BOOLEAN /\ is_connecting' \in BOOLEAN /\ established' \in BOOLEAN
    BY <1>0, <1>11, Zenon DEF ReadStartFails, OnConnected, StopReconnect,
       Looping, userVars, TypeOK
  <2>5. TypeOK'
    BY <1>0, <1>11, <2>3, <2>4, SMT DEF ReadStartFails, OnConnected,
       StopReconnect, Looping, userVars, TypeOK
  <2>6. Ending' /\ Retrying' /\ ReadersFindCtx'
    BY <1>0, <1>11, SMT DEF ReadStartFails, OnConnected, StopReconnect,
       Looping, userVars, TypeOK, Ending, Retrying, ReadersFindCtx
  <2>7. Heard'
    <3>1. ~Last("DISCONNECT")'
      BY <2>3 DEF Last
    <3> QED
      BY <1>0, <1>11, <2>3, <3>1, SMT DEF ReadStartFails, OnConnected, StopReconnect,
         Looping, userVars, TypeOK, Heard, Ending
  <2>8. FirstConnectTold' /\ Fresh' /\ Told'
    BY <1>0, <1>11, SMT DEF ReadStartFails, OnConnected, StopReconnect,
       Looping, userVars, TypeOK, FirstConnectTold, Fresh, Told
  <2> QED  BY <2>3, <2>5, <2>6, <2>7, <2>8 DEF IInv
<1>12. CASE OnConnectError
  <2>1. events' \in Seq({"CONNECT", "DISCONNECT"}) /\ EventsAlternate'
    BY <1>0, <1>12, SMT DEF OnConnectError, Looping, userVars, historyVars,
       TypeOK, EventsAlternate
  <2>2. connect_req' \in BOOLEAN
    BY <1>0, <1>12, Zenon DEF OnConnectError, Looping, userVars, historyVars,
       TypeOK
  <2>3. TypeOK'
    BY <1>0, <1>12, <2>1, <2>2, SMT DEF OnConnectError, Looping, userVars,
       historyVars, TypeOK
  <2>4. Ending' /\ Retrying' /\ ReadersFindCtx'
    BY <1>0, <1>12, SMT DEF OnConnectError, Looping, userVars, historyVars,
       TypeOK, Ending, Retrying, ReadersFindCtx
  <2>5. Heard'
    BY <1>0, <1>12, SMT DEF OnConnectError, Looping, userVars, historyVars,
       TypeOK, Heard, Ending, Last
  <2>6. FirstConnectTold' /\ Fresh' /\ Told'
    BY <1>0, <1>12, SMT DEF OnConnectError, Looping, userVars, historyVars,
       TypeOK, FirstConnectTold, Fresh, Told
  <2> QED  BY <2>1, <2>3, <2>4, <2>5, <2>6 DEF IInv
<1>13. CASE OnRecvError
  <2>1. /\ events \in Seq({"CONNECT", "DISCONNECT"})
        /\ events' = Append(events, "DISCONNECT")
    BY <1>0, <1>13 DEF OnRecvError, Looping, loopVars, userVars, TypeOK
  <2>2. ~(events = <<>> \/ events[Len(events)] = "DISCONNECT")
    BY <1>0, <1>13, SMT DEF OnRecvError, Looping, loopVars, userVars, TypeOK,
       ReadersFindCtx, Heard, Last
  <2>3. events' \in Seq({"CONNECT", "DISCONNECT"}) /\ Last("DISCONNECT")' /\ EventsAlternate'
    BY <1>0, <2>1, <2>2, NextEvent DEF EventsAlternate, Last
  <2>4. TypeOK'
    BY <1>0, <1>13, <2>3, SMT DEF OnRecvError, Looping, loopVars, userVars,
       TypeOK
  <2>5. Ending' /\ Retrying' /\ ReadersFindCtx'
    BY <1>0, <1>13, SMT DEF OnRecvError, Looping, loopVars, userVars, TypeOK,
       Ending, Retrying, ReadersFindCtx
  <2>6. Heard'
    BY <1>0, <1>13, <2>3, SMT DEF OnRecvError, Looping, loopVars, userVars,
       TypeOK, Heard, Ending
  <2>7. FirstConnectTold' /\ Fresh' /\ Told'
    BY <1>0, <1>13, SMT DEF OnRecvError, Looping, loopVars, userVars, TypeOK,
       FirstConnectTold, Fresh, Told
  <2> QED  BY <2>3, <2>4, <2>5, <2>6, <2>7 DEF IInv
<1>14. CASE OnClientClose
  <2>1. events' \in Seq({"CONNECT", "DISCONNECT"}) /\ EventsAlternate'
    BY <1>0, <1>14, SMT DEF OnClientClose, Looping, userVars, historyVars,
       TypeOK, EventsAlternate
  <2>2. connect_req' \in BOOLEAN
    BY <1>0, <1>14, Zenon DEF OnClientClose, Looping, userVars, historyVars,
       TypeOK
  <2>3. TypeOK'
    BY <1>0, <1>14, <2>1, <2>2, SMT DEF OnClientClose, Looping, userVars,
       historyVars, TypeOK, Retrying
  <2>4. Ending' /\ Retrying' /\ ReadersFindCtx'
    BY <1>0, <1>14, SMT DEF OnClientClose, Looping, userVars, historyVars,
       TypeOK, Ending, Retrying, ReadersFindCtx
  <2>5. Heard'
    BY <1>0, <1>14, SMT DEF OnClientClose, Looping, userVars, historyVars,
       TypeOK, Heard, Ending, Last
  <2>6. FirstConnectTold' /\ Fresh' /\ Told'
    BY <1>0, <1>14, SMT DEF OnClientClose, Looping, userVars, historyVars,
       TypeOK, FirstConnectTold, Fresh, Told
  <2> QED  BY <2>1, <2>3, <2>4, <2>5, <2>6 DEF IInv
<1>15. CASE ReconnectTimer
  <2>1. events' \in Seq({"CONNECT", "DISCONNECT"}) /\ EventsAlternate'
    BY <1>0, <1>15, SMT DEF ReconnectTimer, Looping, flagVars, userVars,
       historyVars, TypeOK, EventsAlternate
  <2>2. connect_req' \in BOOLEAN /\ corrupted' \in BOOLEAN
    BY <1>0, <1>15, Zenon DEF ReconnectTimer, Looping, flagVars, userVars,
       historyVars, TypeOK
  <2>3. TypeOK'
    BY <1>0, <1>15, <2>1, <2>2, SMT DEF ReconnectTimer, Looping, flagVars,
       userVars, historyVars, TypeOK, Ending
  <2>4. Ending' /\ Retrying' /\ ReadersFindCtx'
    BY <1>0, <1>15, SMT DEF ReconnectTimer, Looping, flagVars, userVars,
       historyVars, TypeOK, Ending, Retrying, ReadersFindCtx
  <2>5. Heard'
    BY <1>0, <1>15, SMT DEF ReconnectTimer, Looping, flagVars, userVars,
       historyVars, TypeOK, Heard, Ending, Last
  <2>6. FirstConnectTold' /\ Fresh' /\ Told'
    BY <1>0, <1>15, SMT DEF ReconnectTimer, Looping, flagVars, userVars,
       historyVars, TypeOK, FirstConnectTold, Fresh, Told
  <2> QED  BY <2>1, <2>3, <2>4, <2>5, <2>6 DEF IInv
<1>16. CASE AsyncCB
  <2>1. events' \in Seq({"CONNECT", "DISCONNECT"}) /\ EventsAlternate'
    BY <1>0, <1>16, SMT DEF AsyncCB, StopReconnect, Looping, userVars,
       historyVars, TypeOK, EventsAlternate
  <2>2. async_pending' \in BOOLEAN /\ is_connecting' \in BOOLEAN
    BY <1>0, <1>16, Zenon DEF AsyncCB, StopReconnect, Looping, userVars,
       historyVars, TypeOK
  <2>3. TypeOK'
    BY <1>0, <1>16, <2>1, <2>2, SMT DEF AsyncCB, StopReconnect, Looping,
       userVars, historyVars, TypeOK
  <2>4. Ending' /\ Retrying' /\ ReadersFindCtx'
    BY <1>0, <1>16, SMT DEF AsyncCB, StopReconnect, Looping, userVars,
       historyVars, TypeOK, Ending, Retrying, ReadersFindCtx
  <2>5. Heard'
    BY <1>0, <1>16, SMT DEF AsyncCB, StopReconnect, Looping, userVars,
       historyVars, TypeOK, Heard, Ending, Last
  <2>6. FirstConnectTold' /\ Fresh' /\ Told'
    BY <1>0, <1>16, SMT DEF AsyncCB, StopReconnect, Looping, userVars,
       historyVars, TypeOK, FirstConnectTold, Fresh, Told
  <2> QED  BY <2>1, <2>3, <2>4, <2>5, <2>6 DEF IInv
<1>17. CASE AsyncCloses
  BY <1>0, <1>17, SMTT(20) DEF AsyncCloses, Looping, flagVars, tcpVars,
     userVars, historyVars, IInv, TypeOK, Retrying, ReadersFindCtx,
     EventsAlternate, FirstConnectTold, Ending, Heard, Last, Fresh, Told
<1>18. CASE TimerCloses
  BY <1>0, <1>18, SMTT(20) DEF TimerCloses, Looping, flagVars, tcpVars,
     userVars, historyVars, IInv, TypeOK, Retrying, ReadersFindCtx,
     EventsAlternate, FirstConnectTold, Ending, Heard, Last, Fresh, Told
<1>19. CASE RunEnds
  <2>1. events' \in Seq({"CONNECT", "DISCONNECT"}) /\ EventsAlternate'
    BY <1>0, <1>19, SMT DEF RunEnds, Looping, tcpVars, userVars, historyVars,
       TypeOK, EventsAlternate
  <2>2. is_closed' \in BOOLEAN /\ running' \in BOOLEAN
    BY <1>0, <1>19, Zenon DEF RunEnds, Looping, tcpVars, userVars,
       historyVars, TypeOK
  <2>3. TypeOK'
    BY <1>0, <1>19, <2>1, <2>2, SMT DEF RunEnds, Looping, tcpVars, userVars,
       historyVars, TypeOK, Ending
  <2>4. Ending' /\ Retrying' /\ ReadersFindCtx'
    BY <1>0, <1>19, SMT DEF RunEnds, Looping, tcpVars, userVars, historyVars,
       TypeOK, Ending, Retrying, ReadersFindCtx
  <2>5. Heard'
    BY <1>0, <1>19, SMT DEF RunEnds, Looping, tcpVars, userVars, historyVars,
       TypeOK, Heard, Ending, Last
  <2>6. FirstConnectTold' /\ Fresh' /\ Told'
    BY <1>0, <1>19, SMT DEF RunEnds, Looping, tcpVars, userVars, historyVars,
       TypeOK, FirstConnectTold, Fresh, Told
  <2> QED  BY <2>1, <2>3, <2>4, <2>5, <2>6 DEF IInv
<1>20. CASE UNCHANGED vars
  BY <1>0, <1>20 DEF vars, flagVars, tcpVars, loopVars, userVars,
     historyVars, IInv, TypeOK, Retrying, ReadersFindCtx,
     EventsAlternate, FirstConnectTold, Ending, Heard, Last, Fresh, Told
<1>21. CASE InitFails
  <2>1. events' \in Seq({"CONNECT", "DISCONNECT"}) /\ EventsAlternate'
    BY <1>0, <1>21, SMT DEF InitFails, Called, TypeOK, EventsAlternate
  <2>2. established' \in BOOLEAN
    BY <1>0, <1>21, Zenon DEF InitFails, Called, TypeOK
  <2>3. TypeOK'
    BY <1>0, <1>21, <2>1, <2>2, ConnectionAssumption, SMT DEF InitFails, Called, TypeOK
  <2>4. Ending' /\ Retrying' /\ ReadersFindCtx'
    BY <1>0, <1>21, SMT DEF InitFails, Called, TypeOK, Ending, Retrying, ReadersFindCtx
  <2>5. Heard'
    BY <1>0, <1>21, SMT DEF InitFails, Called, TypeOK, Heard, Ending, Last
  <2>6. FirstConnectTold' /\ Fresh' /\ Told'
    BY <1>0, <1>21, ConnectionAssumption, SMT DEF InitFails, Called, TypeOK,
       FirstConnectTold, Fresh, Told
  <2> QED  BY <2>1, <2>3, <2>4, <2>5, <2>6 DEF IInv
<1> QED
  BY <1>1, <1>2, <1>3, <1>4, <1>5, <1>6, <1>7, <1>8, <1>9, <1>10, <1>11,
     <1>12, <1>13, <1>14, <1>15, <1>16, <1>17, <1>18, <1>19, <1>20, <1>21 DEF Next

LEMMA ConnectionInit == Init => IInv
<1> SUFFICES ASSUME Init PROVE IInv
  OBVIOUS
<1>1. /\ is_closed \in BOOLEAN /\ is_user_closed \in BOOLEAN /\ is_connecting \in BOOLEAN
      /\ connect_req \in BOOLEAN /\ async_pending \in BOOLEAN /\ running \in BOOLEAN
      /\ established \in BOOLEAN /\ corrupted \in BOOLEAN
  BY Zenon DEF Init
<1>2. TypeOK
  BY <1>1, ConnectionAssumption, SMT DEF Init, TypeOK
<1> QED
  BY <1>2 DEF Init, IInv, Retrying, ReadersFindCtx, EventsAlternate, FirstConnectTold,
     Ending, Heard, Last, Fresh, Told

-----------------------------------------------------------------------------
(* The client's flags and the states of its handles go together, for any     *)
(* number of Connects: in particular a closed client has no handle and no    *)
(* loop (_run, _init).                                                       *)
THEOREM ConnectionTypes == Spec => []TypeOK
<1>1. IInv => TypeOK
  BY DEF IInv
<1> QED
  BY ConnectionInit, ConnectionStep, <1>1, PTL DEF Spec

(* A client whose user was told of a loss is on its way to the next attempt  *)
(* until it is connected again or serves a Close, however many attempts fail *)
(* (OnRecv, OnClientClose, ReconnectTimer, OnConnect, _close).               *)
THEOREM ReconnectNeverStops == Spec => []ReconnectGoesOn
<1>1. IInv => ReconnectGoesOn
  BY DEF IInv, Heard, Last, Retrying, ReconnectGoesOn, Lost
<1> QED
  BY ConnectionInit, ConnectionStep, <1>1, PTL DEF Spec

(* The callbacks that read from the handle's data field a TcpClientCtx find  *)
(* one (OnConnect, AllocBufferForRecv, OnRecv, OnClientClose).               *)
THEOREM ReadersAlwaysFindCtx == Spec => []ReadersFindCtx
<1>1. IInv => ReadersFindCtx
  BY DEF IInv
<1> QED
  BY ConnectionInit, ConnectionStep, <1>1, PTL DEF Spec

(* ConnectCB tells of connections and losses by turns (OnConnect, OnRecv).   *)
THEOREM EventsAlwaysAlternate == Spec => []EventsAlternate
<1>1. IInv => EventsAlternate
  BY DEF IInv
<1> QED
  BY ConnectionInit, ConnectionStep, <1>1, PTL DEF Spec

(* The first Connect returns true only after a connection (Connect,          *)
(* OnConnect).                                                               *)
THEOREM FirstConnectIsTold == Spec => []FirstConnectTold
<1>1. IInv => FirstConnectTold
  BY DEF IInv
<1> QED
  BY ConnectionInit, ConnectionStep, <1>1, PTL DEF Spec

-----------------------------------------------------------------------------
(* What a Close leads to, step by step.  None came before the first Connect. *)
Untouched == connects = 0 => ~is_user_closed /\ closer = "out"

LEMMA UntouchedStep ==
  ASSUME IInv, Untouched, [Next]_vars
  PROVE  Untouched'
<1>1. connects \in Nat /\ (connects = 0 => is_closed)
  BY ConnectionAssumption DEF IInv, TypeOK, Fresh
<1> QED
  BY <1>1 DEF Untouched, Next, InitFails, Connect, ConnectFails, Called, Opened, ConnectReturns,
     LastSleep, ConnectTimesOut, Close, CloseFlag, CloseSignal, SendSignal, OnConnect, ReadStartFails,
     OnConnected, OnConnectError, OnRecvError, OnClientClose, ReconnectTimer, AsyncCB,
     AsyncCloses, TimerCloses, RunEnds, StopReconnect, vars, flagVars, tcpVars, loopVars, userVars,
     historyVars

LEMMA RememberedStep ==
  ASSUME IInv, Untouched, CloseIsRemembered, [Next]_vars
  PROVE  CloseIsRemembered'
<1>1. connects \in Nat /\ closer \in {"out", "flag", "signal"}
  BY ConnectionAssumption DEF IInv, TypeOK
<1> USE <1>1 DEF CloseIsRemembered, Untouched, flagVars, tcpVars, loopVars, userVars, historyVars
<1>2. CASE Connect
  BY <1>2 DEF Connect, Called, Opened
<1>3. CASE ConnectFails \/ InitFails
  <2>1. running' = running /\ ~running
    BY <1>3 DEF ConnectFails, InitFails, Called, Opened
  <2> QED  BY <2>1
<1>4. CASE ConnectReturns \/ LastSleep \/ ConnectTimesOut \/ Close
  BY <1>4 DEF ConnectReturns, LastSleep, ConnectTimesOut, Close
<1>5. CASE CloseFlag \/ CloseSignal \/ SendSignal
  BY <1>5 DEF CloseFlag, CloseSignal, SendSignal
<1>6. CASE AsyncCB
  BY <1>6 DEF AsyncCB
<1>7. CASE OnConnect \/ ReadStartFails \/ OnConnectError \/ OnRecvError \/ OnClientClose
             \/ ReconnectTimer \/ AsyncCloses \/ TimerCloses \/ RunEnds
  BY <1>7 DEF OnConnect, ReadStartFails, OnConnected, OnConnectError, OnRecvError, OnClientClose,
     ReconnectTimer, AsyncCloses, TimerCloses, RunEnds, StopReconnect
<1>8. CASE UNCHANGED vars
  BY <1>8 DEF vars
<1> QED
  BY <1>2, <1>3, <1>4, <1>5, <1>6, <1>7, <1>8 DEF Next

(* Until the loop thread has served a Close of the client's first life, its  *)
(* signal is set, or about to be (Close, AsyncCB).                           *)
THEOREM FirstCloseIsRemembered == Spec => []CloseIsRemembered
<1>1. Init => Untouched /\ CloseIsRemembered
  BY DEF Init, Untouched, CloseIsRemembered
<1> QED
  BY ConnectionInit, ConnectionStep, UntouchedStep, RememberedStep, <1>1, PTL DEF Spec

(* Once the loop thread has begun to close, in any life, handles only go.    *)
LEMMA ClosesOnly ==
  ASSUME IInv, [Next]_vars
  PROVE  OnlyCloses
<1> SUFFICES ASSUME Leaving PROVE OnlyCloses
  BY DEF OnlyCloses
<1>1. running /\ async # "open" /\ ~is_connecting /\ handle \in {"none", "closing"}
      /\ timer \in {"none", "closing"} /\ async \in {"none", "closing"}
  BY DEF Leaving, IInv, Ending, TypeOK
<1> USE <1>1 DEF OnlyCloses, Leaving, flagVars, tcpVars, loopVars, userVars, historyVars
<1>2. CASE InitFails \/ Connect \/ ConnectFails
  BY <1>2 DEF InitFails, Connect, ConnectFails, Called, Opened
<1>3. CASE ConnectReturns \/ LastSleep \/ ConnectTimesOut
  BY <1>3 DEF ConnectReturns, LastSleep, ConnectTimesOut
<1>4. CASE Close \/ CloseFlag \/ CloseSignal \/ SendSignal
  BY <1>4 DEF Close, CloseFlag, CloseSignal, SendSignal
<1>5. CASE OnConnect \/ ReadStartFails \/ OnConnectError \/ OnRecvError
  BY <1>5 DEF OnConnect, ReadStartFails, OnConnected, OnConnectError, OnRecvError
<1>6. CASE OnClientClose
  BY <1>6 DEF OnClientClose
<1>7. CASE ReconnectTimer \/ AsyncCB
  BY <1>7 DEF ReconnectTimer, AsyncCB
<1>8. CASE AsyncCloses \/ TimerCloses \/ RunEnds
  BY <1>8 DEF AsyncCloses, TimerCloses, RunEnds
<1>9. CASE UNCHANGED vars
  BY <1>9 DEF vars
<1> QED
  BY <1>2, <1>3, <1>4, <1>5, <1>6, <1>7, <1>8, <1>9 DEF Next

(* A Close that was served is final: until the client is closed no attempt   *)
(* to connect starts or succeeds, the user hears of nothing more and no      *)
(* handle comes back, wherever the Close found the connection (AsyncCB,      *)
(* _close, _stop_reconnect, OnClientClose).                                  *)
THEOREM CloseStaysServed == Spec => ServedCloseIsFinal
BY ConnectionInit, ConnectionStep, ClosesOnly, PTL DEF Spec, ServedCloseIsFinal
=============================================================================
