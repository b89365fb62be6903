----------------------------- MODULE ServerProofs -----------------------------
(***************************************************************************)
(* The safety properties of ServerStart and of ServerProtocols for any     *)
(* number of restarts.                                                     *)
(*                                                                         *)
(* ClosedIsQuiet and the others hold together or not at all: a thread in   *)
(* the loop is always the last start's, since Start finds the server       *)
(* closed or a life without thread, and closed means quiet (LastServes);   *)
(* the loop has left when both handles are gone, and nobody opens one      *)
(* before the flag says so (LeftQuiet); once the last thread has set the   *)
(* flag it stays set until the next start (LeftClosed); and a start that   *)
(* is not hasty finds all earlier threads at their ends (EarlierDone).     *)
(*                                                                         *)
(* With its protocols the server implements that life, so that all this    *)
(* holds of ServerProtocols too; what the table holds, and for how long,   *)
(* is the second half of the module (Owned, Alive, Servings).              *)
(*                                                                         *)
(* What MCServerProtocols evaluates of the messages follows from the       *)
(* theorems of CodecProofs, whose inputs are not bounded.                  *)
(***************************************************************************)
EXTENDS MCServerProtocols, CodecProofs

Starting == {"init", "listen", "spawn"}

LastServes ==
  /\ owner # "idle" => starts > 0
  /\ \A l \in Lives : Serving(l) => l = starts /\ owner \notin Starting

LeftQuiet == \A l \in Lives : thread[l] = "ended" /\ ~corrupted => tcp = "none" /\ async = "none"

LeftClosed == starts > 0 /\ (Leaving(starts) \/ thread[starts] = "done") => is_closed

EarlierDone ==
  /\ ~hasty => \A l \in Lives : l < starts => thread[l] \in {"none", "done"}
  /\ owner \in {"join", "destroyed"} => ~corrupted
  /\ owner = "destroyed" => closer = "out" /\ thread[starts] = "done"

IInv == TypeOK /\ ClosedIsQuiet /\ LastServes /\ LeftQuiet /\ LeftClosed /\ EarlierDone

-----------------------------------------------------------------------------
(* The callback leaves the thread where it is.                               *)
LEMMA AsyncKeepsType ==
  ASSUME TypeOK, NEW l \in Lives, AsyncCloseCB(l)
  PROVE  TypeOK'
<1>1. thread' = thread
  BY DEF AsyncCloseCB, Goes, TypeOK
<1>2. UNCHANGED <<flagVars, corrupted, ownerVars, closer>>
  BY DEF AsyncCloseCB, Goes
<1>3. tcp' \in {tcp, "closing"} /\ async' \in {async, "closing"}
  BY DEF AsyncCloseCB
<1>4. async_pending' \in BOOLEAN
  BY Zenon DEF AsyncCloseCB
<1> QED
  BY <1>1, <1>2, <1>3, <1>4 DEF TypeOK, flagVars, ownerVars

(* The values of the variables.                                              *)
LEMMA TypeStep ==
  ASSUME IInv, [Next]_vars
  PROVE  TypeOK'
<1> USE StartAssumption DEF IInv, TypeOK, Lives, flagVars, loopVars, ownerVars,
            LastServes, Starting, ClosedIsQuiet, Serving
<1>1. CASE UNCHANGED vars
  BY <1>1 DEF vars
<1>2. CASE Start
  BY <1>2 DEF Start
<1>3. CASE InitHandles
  <2>1. CASE is_closed
    <3>1. tcp' = "open" /\ async' = "open" /\ async_pending' = FALSE /\ is_closed' = FALSE
      BY <1>3, <2>1 DEF InitHandles
    <3>2. corrupted' \in BOOLEAN
      BY <1>3, <2>1 DEF InitHandles
    <3> QED  BY <1>3, <3>1, <3>2 DEF InitHandles
  <2>2. CASE ~is_closed
    BY <1>3, <2>2 DEF InitHandles
  <2> QED  BY <2>1, <2>2
<1>4. CASE Listen
  BY <1>4 DEF Listen
<1>5. CASE Spawn
  BY <1>5 DEF Spawn
<1>6. CASE StartReturns
  BY <1>6 DEF StartReturns, Returns
<1>7. CASE LastSleep
  BY <1>7 DEF LastSleep
<1>8. CASE StartTimesOut
  BY <1>8 DEF StartTimesOut
<1>9. CASE StartFails
  BY <1>9 DEF StartFails, Returns
<1>10. CASE Close
  BY <1>10 DEF Close
<1>11. CASE CloseFlag
  BY <1>11 DEF CloseFlag
<1>12. CASE CloseSignal
  BY <1>12 DEF CloseSignal
<1>13. CASE Destroy
  BY <1>13 DEF Destroy
<1>14. CASE Joined
  BY <1>14 DEF Joined
<1>15. ASSUME NEW l \in Lives, ThreadEnters(l) PROVE TypeOK'
  BY <1>15 DEF ThreadEnters, Goes
<1>16. ASSUME NEW l \in Lives, AsyncCloseCB(l) PROVE TypeOK'
  BY <1>16, AsyncKeepsType
<1>17. ASSUME NEW l \in Lives, TcpCloses(l) PROVE TypeOK'
  BY <1>17 DEF TcpCloses, Goes
<1>18. ASSUME NEW l \in Lives, AsyncCloses(l) PROVE TypeOK'
  BY <1>18 DEF AsyncCloses, Goes
<1>19. ASSUME NEW l \in Lives, RunEnds(l) PROVE TypeOK'
  BY <1>19 DEF RunEnds, Goes
<1>20. ASSUME NEW l \in Lives, SetClosed(l) PROVE TypeOK'
  BY <1>20 DEF SetClosed, Goes
<1>21. ASSUME NEW l \in Lives, ClearUserClosed(l) PROVE TypeOK'
  <2>1. thread' \in [Lives ->
          {"none", "created", "running", "ended", "closed", "cleared", "done"}]
    BY <1>21 DEF ClearUserClosed, Goes
  <2>2. UNCHANGED <<is_closed, start_status, loopVars, ownerVars, closer>>
    BY <1>21, Zenon DEF ClearUserClosed, Goes
  <2>3. is_user_closed' \in BOOLEAN
    BY <1>21, Zenon DEF ClearUserClosed
  <2>4. \A k \in Lives : thread'[k] # "none" => thread[k] # "none"
    BY <1>21 DEF ClearUserClosed, Goes
  <2>5. starts > 0 => (thread[starts] = "none" => thread'[starts] = "none")
    BY <1>21 DEF ClearUserClosed, Goes
  <2> QED  BY <2>1, <2>2, <2>3, <2>4, <2>5
<1>22. ASSUME NEW l \in Lives, TellEnd(l) PROVE TypeOK'
  BY <1>22 DEF TellEnd, Goes
<1> QED
  BY <1>1, <1>2, <1>3, <1>4, <1>5, <1>6, <1>7, <1>8, <1>9, <1>10, <1>11, <1>12,
     <1>13, <1>14, <1>15, <1>16, <1>17, <1>18, <1>19, <1>20, <1>21, <1>22
  DEF Next, OwnerStep, ThreadStep

(* The flag is set by the only thread that was in the loop, after it.        *)
LEMMA QuietStep ==
  ASSUME IInv, [Next]_vars
  PROVE  ClosedIsQuiet'
<1> USE StartAssumption DEF IInv, TypeOK, Lives, flagVars, loopVars, ownerVars,
            ClosedIsQuiet, LastServes, LeftQuiet, Starting, Serving
<1>1. CASE UNCHANGED vars
  BY <1>1 DEF vars
<1>2. CASE Start
  BY <1>2 DEF Start
<1>3. CASE InitHandles
  BY <1>3 DEF InitHandles
<1>4. CASE Listen
  BY <1>4 DEF Listen
<1>5. CASE Spawn
  BY <1>5 DEF Spawn
<1>6. CASE StartReturns
  BY <1>6 DEF StartReturns, Returns
<1>7. CASE LastSleep
  BY <1>7 DEF LastSleep
<1>8. CASE StartTimesOut
  BY <1>8 DEF StartTimesOut
<1>9. CASE StartFails
  BY <1>9 DEF StartFails, Returns
<1>10. CASE Close
  BY <1>10 DEF Close
<1>11. CASE CloseFlag
  BY <1>11 DEF CloseFlag
<1>12. CASE CloseSignal
  BY <1>12 DEF CloseSignal
<1>13. CASE Destroy
  BY <1>13 DEF Destroy
<1>14. CASE Joined
  BY <1>14 DEF Joined
<1>15. ASSUME NEW l \in Lives, ThreadEnters(l) PROVE ClosedIsQuiet'
  BY <1>15 DEF ThreadEnters, Goes
<1>16. ASSUME NEW l \in Lives, AsyncCloseCB(l) PROVE ClosedIsQuiet'
  BY <1>16 DEF AsyncCloseCB, Goes
<1>17. ASSUME NEW l \in Lives, TcpCloses(l) PROVE ClosedIsQuiet'
  BY <1>17 DEF TcpCloses, Goes
<1>18. ASSUME NEW l \in Lives, AsyncCloses(l) PROVE ClosedIsQuiet'
  BY <1>18 DEF AsyncCloses, Goes
<1>19. ASSUME NEW l \in Lives, RunEnds(l) PROVE ClosedIsQuiet'
  BY <1>19 DEF RunEnds, Goes
<1>20. ASSUME NEW l \in Lives, SetClosed(l) PROVE ClosedIsQuiet'
  BY <1>20 DEF SetClosed, Goes
<1>21. ASSUME NEW l \in Lives, ClearUserClosed(l) PROVE ClosedIsQuiet'
  BY <1>21 DEF ClearUserClosed, Goes
<1>22. ASSUME NEW l \in Lives, TellEnd(l) PROVE ClosedIsQuiet'
  BY <1>22 DEF TellEnd, Goes
<1> QED
  BY <1>1, <1>2, <1>3, <1>4, <1>5, <1>6, <1>7, <1>8, <1>9, <1>10, <1>11, <1>12,
     <1>13, <1>14, <1>15, <1>16, <1>17, <1>18, <1>19, <1>20, <1>21, <1>22
  DEF Next, OwnerStep, ThreadStep

(* The next thread enters the loop after the last one has left it.           *)
LEMMA LastStep ==
  ASSUME IInv, [Next]_vars
  PROVE  LastServes'
<1> USE StartAssumption DEF IInv, TypeOK, Lives, flagVars, loopVars, ownerVars,
            ClosedIsQuiet, LastServes, Starting, Serving
<1>1. CASE UNCHANGED vars
  BY <1>1 DEF vars
<1>2. CASE Start
  BY <1>2 DEF Start
<1>3. CASE InitHandles
  BY <1>3 DEF InitHandles
<1>4. CASE Listen
  BY <1>4 DEF Listen
<1>5. CASE Spawn
  BY <1>5 DEF Spawn
<1>6. CASE StartReturns
  BY <1>6 DEF StartReturns, Returns
<1>7. CASE LastSleep
  BY <1>7 DEF LastSleep
<1>8. CASE StartTimesOut
  BY <1>8 DEF StartTimesOut
<1>9. CASE StartFails
  BY <1>9 DEF StartFails, Returns
<1>10. CASE Close
  BY <1>10 DEF Close
<1>11. CASE CloseFlag
  BY <1>11 DEF CloseFlag
<1>12. CASE CloseSignal
  BY <1>12 DEF CloseSignal
<1>13. CASE Destroy
  BY <1>13 DEF Destroy
<1>14. CASE Joined
  BY <1>14 DEF Joined
<1>15. ASSUME NEW l \in Lives, ThreadEnters(l) PROVE LastServes'
  BY <1>15 DEF ThreadEnters, Goes
<1>16. ASSUME NEW l \in Lives, AsyncCloseCB(l) PROVE LastServes'
  BY <1>16 DEF AsyncCloseCB, Goes
<1>17. ASSUME NEW l \in Lives, TcpCloses(l) PROVE LastServes'
  BY <1>17 DEF TcpCloses, Goes
<1>18. ASSUME NEW l \in Lives, AsyncCloses(l) PROVE LastServes'
  BY <1>18 DEF AsyncCloses, Goes
<1>19. ASSUME NEW l \in Lives, RunEnds(l) PROVE LastServes'
  BY <1>19 DEF RunEnds, Goes
<1>20. ASSUME NEW l \in Lives, SetClosed(l) PROVE LastServes'
  BY <1>20 DEF SetClosed, Goes
<1>21. ASSUME NEW l \in Lives, ClearUserClosed(l) PROVE LastServes'
  BY <1>21 DEF ClearUserClosed, Goes
<1>22. ASSUME NEW l \in Lives, TellEnd(l) PROVE LastServes'
  BY <1>22 DEF TellEnd, Goes
<1> QED
  BY <1>1, <1>2, <1>3, <1>4, <1>5, <1>6, <1>7, <1>8, <1>9, <1>10, <1>11, <1>12,
     <1>13, <1>14, <1>15, <1>16, <1>17, <1>18, <1>19, <1>20, <1>21, <1>22
  DEF Next, OwnerStep, ThreadStep

(* Nobody opens a handle while a thread is about to say that it has left.    *)
LEMMA LeftQuietStep ==
  ASSUME IInv, [Next]_vars
  PROVE  LeftQuiet'
<1> USE StartAssumption DEF IInv, TypeOK, Lives, flagVars, loopVars, ownerVars,
            ClosedIsQuiet, LastServes, LeftQuiet, Starting, Serving
<1>1. CASE UNCHANGED vars
  BY <1>1 DEF vars
<1>2. CASE Start
  BY <1>2 DEF Start
<1>3. CASE InitHandles
  BY <1>3 DEF InitHandles
<1>4. CASE Listen
  BY <1>4 DEF Listen
<1>5. CASE Spawn
  BY <1>5 DEF Spawn
<1>6. CASE StartReturns
  BY <1>6 DEF StartReturns, Returns
<1>7. CASE LastSleep
  BY <1>7 DEF LastSleep
<1>8. CASE StartTimesOut
  BY <1>8 DEF StartTimesOut
<1>9. CASE StartFails
  BY <1>9 DEF StartFails, Returns
<1>10. CASE Close
  BY <1>10 DEF Close
<1>11. CASE CloseFlag
  BY <1>11 DEF CloseFlag
<1>12. CASE CloseSignal
  BY <1>12 DEF CloseSignal
<1>13. CASE Destroy
  BY <1>13 DEF Destroy
<1>14. CASE Joined
  BY <1>14 DEF Joined
<1>15. ASSUME NEW l \in Lives, ThreadEnters(l) PROVE LeftQuiet'
  BY <1>15 DEF ThreadEnters, Goes
<1>16. ASSUME NEW l \in Lives, AsyncCloseCB(l) PROVE LeftQuiet'
  BY <1>16 DEF AsyncCloseCB, Goes
<1>17. ASSUME NEW l \in Lives, TcpCloses(l) PROVE LeftQuiet'
  BY <1>17 DEF TcpCloses, Goes
<1>18. ASSUME NEW l \in Lives, AsyncCloses(l) PROVE LeftQuiet'
  BY <1>18 DEF AsyncCloses, Goes
<1>19. ASSUME NEW l \in Lives, RunEnds(l) PROVE LeftQuiet'
  BY <1>19 DEF RunEnds, Goes
<1>20. ASSUME NEW l \in Lives, SetClosed(l) PROVE LeftQuiet'
  BY <1>20 DEF SetClosed, Goes
<1>21. ASSUME NEW l \in Lives, ClearUserClosed(l) PROVE LeftQuiet'
  BY <1>21 DEF ClearUserClosed, Goes
<1>22. ASSUME NEW l \in Lives, TellEnd(l) PROVE LeftQuiet'
  BY <1>22 DEF TellEnd, Goes
<1> QED
  BY <1>1, <1>2, <1>3, <1>4, <1>5, <1>6, <1>7, <1>8, <1>9, <1>10, <1>11, <1>12,
     <1>13, <1>14, <1>15, <1>16, <1>17, <1>18, <1>19, <1>20, <1>21, <1>22
  DEF Next, OwnerStep, ThreadStep

(* Only a new life clears the flag.                                          *)
LEMMA LeftClosedStep ==
  ASSUME IInv, [Next]_vars
  PROVE  LeftClosed'
<1> USE StartAssumption DEF IInv, TypeOK, Lives, flagVars, loopVars, ownerVars,
            LastServes, LeftClosed, Starting, Leaving
<1>1. CASE UNCHANGED vars
  BY <1>1 DEF vars
<1>2. CASE Start
  BY <1>2 DEF Start
<1>3. CASE InitHandles
  BY <1>3 DEF InitHandles
<1>4. CASE Listen
  BY <1>4 DEF Listen
<1>5. CASE Spawn
  BY <1>5 DEF Spawn
<1>6. CASE StartReturns
  BY <1>6 DEF StartReturns, Returns
<1>7. CASE LastSleep
  BY <1>7 DEF LastSleep
<1>8. CASE StartTimesOut
  BY <1>8 DEF StartTimesOut
<1>9. CASE StartFails
  BY <1>9 DEF StartFails, Returns
<1>10. CASE Close
  BY <1>10 DEF Close
<1>11. CASE CloseFlag
  BY <1>11 DEF CloseFlag
<1>12. CASE CloseSignal
  BY <1>12 DEF CloseSignal
<1>13. CASE Destroy
  BY <1>13 DEF Destroy
<1>14. CASE Joined
  BY <1>14 DEF Joined
<1>15. ASSUME NEW l \in Lives, ThreadEnters(l) PROVE LeftClosed'
  BY <1>15 DEF ThreadEnters, Goes
<1>16. ASSUME NEW l \in Lives, AsyncCloseCB(l) PROVE LeftClosed'
  BY <1>16 DEF AsyncCloseCB, Goes
<1>17. ASSUME NEW l \in Lives, TcpCloses(l) PROVE LeftClosed'
  BY <1>17 DEF TcpCloses, Goes
<1>18. ASSUME NEW l \in Lives, AsyncCloses(l) PROVE LeftClosed'
  BY <1>18 DEF AsyncCloses, Goes
<1>19. ASSUME NEW l \in Lives, RunEnds(l) PROVE LeftClosed'
  BY <1>19 DEF RunEnds, Goes
<1>20. ASSUME NEW l \in Lives, SetClosed(l) PROVE LeftClosed'
  BY <1>20 DEF SetClosed, Goes
<1>21. ASSUME NEW l \in Lives, ClearUserClosed(l) PROVE LeftClosed'
  BY <1>21 DEF ClearUserClosed, Goes
<1>22. ASSUME NEW l \in Lives, TellEnd(l) PROVE LeftClosed'
  BY <1>22 DEF TellEnd, Goes
<1> QED
  BY <1>1, <1>2, <1>3, <1>4, <1>5, <1>6, <1>7, <1>8, <1>9, <1>10, <1>11, <1>12,
     <1>13, <1>14, <1>15, <1>16, <1>17, <1>18, <1>19, <1>20, <1>21, <1>22
  DEF Next, OwnerStep, ThreadStep

(* What a start leaves behind is at its end, or the start was hasty.         *)
LEMMA EarlierStep ==
  ASSUME IInv, [Next]_vars
  PROVE  EarlierDone'
<1> USE StartAssumption DEF IInv, TypeOK, Lives, flagVars, loopVars, ownerVars,
            ClosedIsQuiet, LastServes, EarlierDone, Starting, Serving, Leaving
<1>1. CASE UNCHANGED vars
  BY <1>1 DEF vars
<1>2. CASE Start
  BY <1>2 DEF Start
<1>3. CASE InitHandles
  BY <1>3 DEF InitHandles
<1>4. CASE Listen
  BY <1>4 DEF Listen
<1>5. CASE Spawn
  BY <1>5 DEF Spawn
<1>6. CASE StartReturns
  BY <1>6 DEF StartReturns, Returns
<1>7. CASE LastSleep
  BY <1>7 DEF LastSleep
<1>8. CASE StartTimesOut
  BY <1>8 DEF StartTimesOut
<1>9. CASE StartFails
  BY <1>9 DEF StartFails, Returns
<1>10. CASE Close
  BY <1>10 DEF Close
<1>11. CASE CloseFlag
  BY <1>11 DEF CloseFlag
<1>12. CASE CloseSignal
  BY <1>12 DEF CloseSignal
<1>13. CASE Destroy
  BY <1>13 DEF Destroy
<1>14. CASE Joined
  BY <1>14 DEF Joined
<1>15. ASSUME NEW l \in Lives, ThreadEnters(l) PROVE EarlierDone'
  BY <1>15 DEF ThreadEnters, Goes
<1>16. ASSUME NEW l \in Lives, AsyncCloseCB(l) PROVE EarlierDone'
  BY <1>16 DEF AsyncCloseCB, Goes
<1>17. ASSUME NEW l \in Lives, TcpCloses(l) PROVE EarlierDone'
  BY <1>17 DEF TcpCloses, Goes
<1>18. ASSUME NEW l \in Lives, AsyncCloses(l) PROVE EarlierDone'
  BY <1>18 DEF AsyncCloses, Goes
<1>19. ASSUME NEW l \in Lives, RunEnds(l) PROVE EarlierDone'
  BY <1>19 DEF RunEnds, Goes
<1>20. ASSUME NEW l \in Lives, SetClosed(l) PROVE EarlierDone'
  BY <1>20 DEF SetClosed, Goes
<1>21. ASSUME NEW l \in Lives, ClearUserClosed(l) PROVE EarlierDone'
  BY <1>21 DEF ClearUserClosed, Goes
<1>22. ASSUME NEW l \in Lives, TellEnd(l) PROVE EarlierDone'
  BY <1>22 DEF TellEnd, Goes
<1> QED
  BY <1>1, <1>2, <1>3, <1>4, <1>5, <1>6, <1>7, <1>8, <1>9, <1>10, <1>11, <1>12,
     <1>13, <1>14, <1>15, <1>16, <1>17, <1>18, <1>19, <1>20, <1>21, <1>22
  DEF Next, OwnerStep, ThreadStep

LEMMA Inductive == Spec => []IInv
<1>1. Init => IInv
  <2> SUFFICES ASSUME Init PROVE IInv
    OBVIOUS
  <2> USE StartAssumption DEF Init, Lives
  <2>1. TypeOK
    <3>1. thread \in [Lives ->
            {"none", "created", "running", "ended", "closed", "cleared", "done"}]
      BY Zenon
    <3>2. starts \in 0 .. MaxStarts
      OBVIOUS
    <3> QED  BY <3>1, <3>2 DEF TypeOK
  <2>2. ClosedIsQuiet /\ LastServes /\ LeftQuiet
    BY DEF ClosedIsQuiet, LastServes, LeftQuiet, Serving
  <2>3. LeftClosed /\ EarlierDone
    BY DEF LeftClosed, EarlierDone
  <2> QED  BY <2>1, <2>2, <2>3 DEF IInv
<1>2. IInv /\ [Next]_vars => IInv'
  BY TypeStep, QuietStep, LastStep, LeftQuietStep, LeftClosedStep, EarlierStep DEF IInv
<1> QED
  BY <1>1, <1>2, PTL DEF Spec

LEMMA InvariantImplies == IInv => TypeOK /\ ClosedIsQuiet /\ OneLoop /\ DestroyedIsQuiet
<1> SUFFICES ASSUME IInv PROVE TypeOK /\ ClosedIsQuiet /\ OneLoop /\ DestroyedIsQuiet
  OBVIOUS
<1>1. TypeOK /\ ClosedIsQuiet
  BY DEF IInv
<1>2. OneLoop
  BY DEF IInv, LastServes, OneLoop
<1>3. DestroyedIsQuiet
  <2> SUFFICES ASSUME owner = "destroyed", ~hasty
               PROVE  /\ tcp = "none" /\ async = "none"
                      /\ \A l \in Lives : thread[l] \in {"none", "done"}
    BY DEF DestroyedIsQuiet
  <2>1. starts \in Lives /\ thread[starts] = "done" /\ ~corrupted
    BY StartAssumption DEF IInv, TypeOK, Lives, LastServes, EarlierDone
  <2>2. tcp = "none" /\ async = "none"
    BY <2>1 DEF IInv, LeftClosed, ClosedIsQuiet, Lives
  <2>3. ASSUME NEW l \in Lives PROVE thread[l] \in {"none", "done"}
    BY <2>1 DEF IInv, TypeOK, EarlierDone, Lives
  <2> QED  BY <2>2, <2>3
<1> QED
  BY <1>1, <1>2, <1>3

(* For any number of starts: a server that says it is closed is quiet (_init, *)
(* _start_thread).                                                           *)
THEOREM StartFindsQuiet == Spec => [](TypeOK /\ ClosedIsQuiet)
  BY Inductive, InvariantImplies, PTL

(* For any number of starts: uv_run is entered by one thread at most.        *)
THEOREM StartsOneLoop == Spec => []OneLoop
  BY Inductive, InvariantImplies, PTL

(* For any number of starts: no thread outlives a server whose restarts      *)
(* waited for the end of the life before (~TCPServer).                       *)
THEOREM DestructorLeavesQuiet == Spec => []DestroyedIsQuiet
  BY Inductive, InvariantImplies, PTL

-----------------------------------------------------------------------------
(***************************************************************************)
(* ServerProtocols is ServerStart with more around it, so what is proved   *)
(* of that holds here; and the protocols are owned and used as they should *)
(* be, for any protocols, ids and packets and any number of starts.        *)
(*                                                                         *)
(* ProtocolsOwned needs to know what RemoveProtocol has left half done     *)
(* (Half), and that no protocol is in the table twice (Once).              *)
(* ProtocolsAlive needs that the loop thread is busy with a packet only    *)
(* while it is in the loop (Busy), hence while the server is not closed,   *)
(* and that a careful user's table is whole whenever there is a loop       *)
(* (Whole, Kept).                                                          *)
(***************************************************************************)

(* Both modules' steps are steps of the server's life, or leave it alone.    *)
LEMMA StepRefines ==
  ASSUME [ServerNext]_serverVars
  PROVE  [Next]_vars
<1>1. CASE Outside
  BY <1>1, Zenon DEF Outside, Next
<1>2. CASE DeleteProtocols
  BY <1>2, Zenon DEF DeleteProtocols, Next
<1>3. ASSUME NEW i \in Ids, NEW p \in Protocols, AddProtocol(i, p) PROVE UNCHANGED vars
  BY <1>3, Zenon DEF AddProtocol, Editing
<1>4. ASSUME NEW i \in Ids, RemoveProtocol(i) PROVE UNCHANGED vars
  BY <1>4, Zenon DEF RemoveProtocol, Editing
<1>5. CASE EraseProtocol
  BY <1>5, Zenon DEF EraseProtocol, Editing
<1>6. ASSUME NEW l \in Lives, LoopStep(l) PROVE Next
  BY <1>6, Zenon DEF LoopStep, Next
<1>7. ASSUME NEW l \in Lives, NEW packet \in Packets, GetPacket(l, packet) PROVE UNCHANGED vars
  BY <1>7, Zenon DEF GetPacket
<1>8. CASE Process
  BY <1>8, Zenon DEF Process
<1>9. CASE ProcessReturns
  BY <1>9, Zenon DEF ProcessReturns
<1>10. CASE UNCHANGED serverVars
  BY <1>10, Zenon DEF serverVars
<1> QED
  BY <1>1, <1>2, <1>3, <1>4, <1>5, <1>6, <1>7, <1>8, <1>9, <1>10, Zenon DEF ServerNext

(* The server with its protocols implements the life of a server.            *)
THEOREM ServerImplementsStart == ServerSpec => Spec
<1>1. ServerInit => Init
  BY DEF ServerInit
<1> QED
  BY <1>1, StepRefines, PTL DEF ServerSpec, Spec

(* So a server with protocols, too, is quiet when it says it is closed and   *)
(* after its destructor (_init, _start_thread, ~TCPServer).                  *)
THEOREM ServerQuiet == ServerSpec => [](ClosedIsQuiet /\ DestroyedIsQuiet)
  BY ServerImplementsStart, StartFindsQuiet, DestructorLeavesQuiet, PTL

-----------------------------------------------------------------------------
(* The types of the table and of what became of the protocols.               *)
TableTypes ==
  /\ DOMAIN protocols \subseteq Ids \ {0}
  /\ \A i \in DOMAIN protocols : protocols[i] \in Protocols
  /\ object \in [Protocols -> {"new", "held", "refused", "deleted"}]
  /\ rash \in BOOLEAN /\ crashed \in BOOLEAN

Half ==
  erasing # 0 =>
    /\ erasing \in DOMAIN protocols
    /\ object[protocols[erasing]] = "deleted"
    /\ owner = "idle"

Once == \A i, j \in DOMAIN protocols : protocols[i] = protocols[j] => i = j

Owned == TableTypes /\ Half /\ Once /\ ProtocolsOwned

(* A protocol is in the table, once, exactly while it is the server's.       *)
LEMMA OwnedStep ==
  ASSUME Owned, [ServerNext]_serverVars
  PROVE  Owned'
<1>1. CASE Outside
  <2>1. /\ UNCHANGED protocolVars
        /\ owner' = "destroyed" => owner = "destroyed"
        /\ erasing # 0 => owner' = "idle"
    BY <1>1 DEF Outside, OwnerStep, Start, Destroy, InitHandles, Listen, Spawn, StartReturns,
              LastSleep, StartTimesOut, StartFails, Returns, Close, CloseFlag, CloseSignal,
              ownerVars, Owned, Half
  <2> QED  BY <2>1 DEF protocolVars, Owned, TableTypes, Half, Once, ProtocolsOwned
<1>2. CASE DeleteProtocols
  <2>1. DOMAIN protocols' = {}
    BY <1>2 DEF DeleteProtocols
  <2>2. object' \in [Protocols -> {"new", "held", "refused", "deleted"}]
    BY <1>2 DEF DeleteProtocols, Owned, TableTypes
  <2>3. \A p \in Protocols : object'[p] # "held"
    BY <1>2 DEF DeleteProtocols, Owned, TableTypes, ProtocolsOwned
  <2>4. UNCHANGED <<erasing, rash, crashed>> /\ erasing = 0
    BY <1>2 DEF DeleteProtocols, Joined, Owned, Half
  <2> QED  BY <2>1, <2>2, <2>3, <2>4 DEF Owned, TableTypes, Half, Once, ProtocolsOwned
<1>3. ASSUME NEW i \in Ids, NEW p \in Protocols, AddProtocol(i, p) PROVE Owned'
  <2> DEFINE took == i > 0 /\ i \notin DOMAIN protocols
  <2>1. owner' = owner /\ owner = "idle" /\ erasing = 0 /\ erasing' = 0
    BY <1>3 DEF AddProtocol, Editing, vars, ownerVars
  <2>2. rash' \in BOOLEAN /\ crashed' \in BOOLEAN
    BY <1>3 DEF AddProtocol, Editing
  <2>3. \A j \in DOMAIN protocols : protocols[j] # p
    BY <2>1, <1>3 DEF AddProtocol, Owned, TableTypes, ProtocolsOwned
  <2>4. CASE took
    <3>1. protocols' = [j \in DOMAIN protocols \cup {i} |-> IF j = i THEN p ELSE protocols[j]]
      BY <2>4, <1>3 DEF AddProtocol
    <3>2. object' = [object EXCEPT ![p] = "held"]
      BY <2>4, <1>3 DEF AddProtocol
    <3>3. DOMAIN protocols' = DOMAIN protocols \cup {i} /\ protocols'[i] = p
      BY <3>1
    <3>4. \A j \in DOMAIN protocols : protocols'[j] = protocols[j]
      BY <3>1, <2>4
    <3>5. TableTypes'
      BY ProtocolAssumption, <2>2, <2>4, <3>2, <3>3, <3>4 DEF Owned, TableTypes
    <3>6. Once'
      BY <2>3, <3>3, <3>4 DEF Owned, Once
    <3>7. ProtocolsOwned'
      BY <2>1, <2>3, <3>2, <3>3, <3>4 DEF Owned, TableTypes, ProtocolsOwned
    <3> QED  BY <2>1, <3>5, <3>6, <3>7 DEF Owned, Half
  <2>5. CASE ~took
    <3>1. protocols' = protocols /\ object' = [object EXCEPT ![p] = "refused"]
      BY <2>5, <1>3 DEF AddProtocol
    <3> QED  BY <2>1, <2>2, <2>3, <3>1 DEF Owned, TableTypes, Half, Once, ProtocolsOwned
  <2> QED  BY <2>4, <2>5
<1>4. ASSUME NEW i \in Ids, RemoveProtocol(i) PROVE Owned'
  <2>1. owner' = owner /\ owner = "idle" /\ erasing = 0 /\ erasing' = i
    BY <1>4 DEF RemoveProtocol, Editing, vars, ownerVars
  <2>2. rash' \in BOOLEAN /\ crashed' \in BOOLEAN
    BY <1>4 DEF RemoveProtocol, Editing
  <2>3. i \in DOMAIN protocols /\ protocols' = protocols
    BY <1>4 DEF RemoveProtocol
  <2>4. object' = [object EXCEPT ![protocols[i]] = "deleted"] /\ protocols[i] \in Protocols
    BY <2>3, <1>4 DEF RemoveProtocol, Owned, TableTypes
  <2>5. TableTypes'
    BY <2>2, <2>3, <2>4 DEF Owned, TableTypes
  <2>6. Half' /\ Once'
    BY <2>1, <2>3, <2>4 DEF Owned, TableTypes, Half, Once
  <2>7. ProtocolsOwned'
    BY <2>1, <2>3, <2>4 DEF Owned, TableTypes, Once, ProtocolsOwned
  <2> QED  BY <2>5, <2>6, <2>7 DEF Owned
<1>5. CASE EraseProtocol
  BY <1>5 DEF EraseProtocol, Editing, vars, ownerVars, Owned, TableTypes, Half, Once, ProtocolsOwned
<1>6. ASSUME NEW l \in Lives, LoopStep(l) PROVE Owned'
  <2>1. UNCHANGED protocolVars /\ owner' = owner
    BY <1>6 DEF LoopStep, ThreadStep, ThreadEnters, AsyncCloseCB, TcpCloses, AsyncCloses, RunEnds,
              SetClosed, ClearUserClosed, TellEnd, Goes, ownerVars
  <2> QED  BY <2>1 DEF protocolVars, Owned, TableTypes, Half, Once, ProtocolsOwned
<1>7. ASSUME NEW l \in Lives, NEW packet \in Packets, GetPacket(l, packet) PROVE Owned'
  BY <1>7 DEF GetPacket, vars, ownerVars, Owned, TableTypes, Half, Once, ProtocolsOwned
<1>8. CASE Process
  BY <1>8 DEF Process, vars, ownerVars, Owned, TableTypes, Half, Once, ProtocolsOwned
<1>9. CASE ProcessReturns
  BY <1>9 DEF ProcessReturns, vars, ownerVars, Owned, TableTypes, Half, Once, ProtocolsOwned
<1>10. CASE UNCHANGED serverVars
  BY <1>10 DEF serverVars, protocolVars, vars, ownerVars, Owned, TableTypes, Half, Once,
             ProtocolsOwned
<1> QED
  BY <1>1, <1>2, <1>3, <1>4, <1>5, <1>6, <1>7, <1>8, <1>9, <1>10 DEF ServerNext

(* Whatever the user, the loop thread and the destructor do, each protocol   *)
(* of the table is the server's and each of the server's is in the table;    *)
(* the destructor leaves none (AddProtocol, RemoveProtocol, ~TCPServer).     *)
THEOREM ServerOwnsProtocols == ServerSpec => []ProtocolsOwned
<1>1. ServerInit => Owned
  <2>1. DOMAIN <<>> = {}
    OBVIOUS
  <2> QED  BY <2>1 DEF ServerInit, Init, Owned, TableTypes, Half, Once, ProtocolsOwned
<1>2. Owned /\ [ServerNext]_serverVars => Owned'
  BY OwnedStep
<1>3. Owned => ProtocolsOwned
  BY DEF Owned
<1> QED
  BY <1>1, <1>2, <1>3, PTL DEF ServerSpec

-----------------------------------------------------------------------------
(* The loop thread is busy only in the loop; a protocol it is running is one *)
(* of the user's.                                                            *)
Busy ==
  /\ serving # Idle => \E l \in Lives : thread[l] = "running"
  /\ DOMAIN serving = {"at", "id", "handler", "data"}
  /\ serving.at = "process" => serving.handler \in Protocols

(* A careful user's table is half changed only while the server is closed.   *)
Whole == ~corrupted /\ erasing # 0 /\ ~rash => is_closed

(* A careful user's protocol is not deleted while it runs.                   *)
Kept == serving.at = "process" /\ object[serving.handler] = "deleted" => rash

Alive == Busy /\ Whole /\ Kept /\ ProtocolsAlive

(* While the loop thread is busy, the server does not say it is closed.      *)
LEMMA BusyIsOpen ==
  ASSUME IInv, Busy, ~corrupted, serving # Idle
  PROVE  ~is_closed
BY DEF IInv, Busy, ClosedIsQuiet, Serving

(* Each step of the server keeps a careful user's protocols alive.           *)
LEMMA AliveStep ==
  ASSUME IInv, Owned, Alive, [ServerNext]_serverVars
  PROVE  Alive'
<1>1. CASE Outside
  <2>1. UNCHANGED protocolVars
    BY <1>1 DEF Outside
  <2>2. erasing # 0 => owner = "idle"
    BY DEF Owned, Half
  <2>3. \A l \in Lives : thread[l] = "running" => thread'[l] = "running"
    BY <1>1, StartAssumption
    DEF Outside, OwnerStep, Start, Destroy, InitHandles, Listen, Spawn, StartReturns, LastSleep,
        StartTimesOut, StartFails, Returns, Close, CloseFlag, CloseSignal, ownerVars, loopVars,
        IInv, TypeOK, Lives
  <2>4. owner = "idle" => is_closed' = is_closed
    BY <1>1 DEF Outside, OwnerStep, Start, Destroy, InitHandles, Listen, Spawn, StartReturns,
              LastSleep, StartTimesOut, StartFails, Returns, Close, CloseFlag, CloseSignal, flagVars
  <2>5. ~corrupted' => ~corrupted
    BY <1>1 DEF Outside, OwnerStep, Start, Destroy, InitHandles, Listen, Spawn, StartReturns,
              LastSleep, StartTimesOut, StartFails, Returns, Close, CloseFlag, CloseSignal, loopVars
  <2> QED
    BY <2>1, <2>2, <2>3, <2>4, <2>5 DEF protocolVars, Alive, Busy, Whole, Kept, ProtocolsAlive
<1>2. CASE DeleteProtocols
  <2>1. serving = Idle
    BY <1>2 DEF DeleteProtocols, Joined, IInv, LastServes, Serving, Alive, Busy
  <2>2. serving' = serving /\ UNCHANGED <<erasing, rash, crashed>> /\ thread' = thread
    BY <1>2 DEF DeleteProtocols, Joined
  <2>3. erasing = 0
    BY <1>2 DEF DeleteProtocols, Joined, Owned, Half
  <2> QED  BY <2>1, <2>2, <2>3 DEF Idle, Alive, Busy, Whole, Kept, ProtocolsAlive
<1>3. ASSUME NEW i \in Ids, NEW p \in Protocols, AddProtocol(i, p) PROVE Alive'
  <2>1. serving' = serving /\ thread' = thread /\ erasing' = 0 /\ rash' = (rash \/ ~is_closed)
        /\ crashed' = (serving.at = "search") /\ ~corrupted
    BY <1>3 DEF AddProtocol, Editing, vars
  <2>2. serving # Idle => rash'
    BY <2>1, BusyIsOpen, Zenon DEF Alive
  <2>3. serving.at = "idle" \/ rash'
    BY <2>2 DEF Idle
  <2>4. crashed' => rash'
    BY <2>1, <2>3
  <2>5. ~rash' => is_closed
    BY <2>1, Zenon
  <2>6. Busy'
    BY <2>1 DEF Alive, Busy, Idle
  <2>7. Kept'
    BY <2>1, <2>3 DEF Kept
  <2> QED  BY <2>1, <2>4, <2>5, <2>6, <2>7 DEF Alive, Whole, ProtocolsAlive
<1>4. ASSUME NEW i \in Ids, RemoveProtocol(i) PROVE Alive'
  <2>1. serving' = serving /\ thread' = thread /\ is_closed' = is_closed
        /\ rash' = (rash \/ ~is_closed) /\ crashed' = (serving.at = "search") /\ ~corrupted
    BY <1>4 DEF RemoveProtocol, Editing, vars, flagVars
  <2>2. serving # Idle => rash'
    BY <2>1, BusyIsOpen, Zenon DEF Alive
  <2>3. serving.at = "idle" \/ rash'
    BY <2>2 DEF Idle
  <2>4. crashed' => rash'
    BY <2>1, <2>3
  <2>5. ~rash' => is_closed
    BY <2>1, Zenon
  <2>6. Busy'
    BY <2>1 DEF Alive, Busy, Idle
  <2>7. Kept'
    BY <2>1, <2>3 DEF Kept
  <2> QED  BY <2>1, <2>4, <2>5, <2>6, <2>7 DEF Alive, Whole, ProtocolsAlive
<1>5. CASE EraseProtocol
  <2>1. serving' = serving /\ thread' = thread /\ erasing' = 0 /\ rash' = (rash \/ ~is_closed)
        /\ crashed' = (serving.at = "search") /\ ~corrupted
    BY <1>5 DEF EraseProtocol, Editing, vars
  <2>2. serving # Idle => rash'
    BY <2>1, BusyIsOpen, Zenon DEF Alive
  <2>3. serving.at = "idle" \/ rash'
    BY <2>2 DEF Idle
  <2>4. crashed' => rash'
    BY <2>1, <2>3
  <2>5. ~rash' => is_closed
    BY <2>1, Zenon
  <2>6. Busy'
    BY <2>1 DEF Alive, Busy, Idle
  <2>7. Kept'
    BY <2>1, <2>3 DEF Kept
  <2> QED  BY <2>1, <2>4, <2>5, <2>6, <2>7 DEF Alive, Whole, ProtocolsAlive
<1>6. ASSUME NEW l \in Lives, LoopStep(l) PROVE Alive'
  <2>1. UNCHANGED protocolVars /\ serving = Idle
    BY <1>6 DEF LoopStep
  <2>2. (~corrupted' => ~corrupted) /\ (is_closed => is_closed')
    BY <1>6 DEF LoopStep, ThreadStep, ThreadEnters, AsyncCloseCB, TcpCloses, AsyncCloses, RunEnds,
              SetClosed, ClearUserClosed, TellEnd, Goes, flagVars, loopVars
  <2> QED  BY <2>1, <2>2 DEF Idle, protocolVars, Alive, Busy, Whole, Kept, ProtocolsAlive
<1>7. ASSUME NEW l \in Lives, NEW packet \in Packets, GetPacket(l, packet) PROVE Alive'
  <2>1. serving'.at = "search" /\ DOMAIN serving' = {"at", "id", "handler", "data"}
    BY <1>7 DEF GetPacket
  <2>2. thread'[l] = "running"
    BY <1>7 DEF GetPacket, vars
  <2>3. UNCHANGED <<is_closed, corrupted, erasing, rash, crashed>>
    BY <1>7 DEF GetPacket, vars, flagVars, loopVars
  <2> QED  BY <2>1, <2>2, <2>3 DEF Alive, Busy, Whole, Kept, ProtocolsAlive
<1>8. CASE Process
  <2>1. UNCHANGED <<thread, is_closed, corrupted, object, erasing, rash, crashed>>
        /\ ~corrupted /\ serving # Idle
    BY <1>8 DEF Process, vars, flagVars, loopVars, Idle
  <2>2. CASE GetProtocol(serving.id) = None
    <3>1. serving' = Idle
      BY <2>2, <1>8 DEF Process
    <3> QED  BY <2>1, <3>1 DEF Idle, Alive, Busy, Whole, Kept, ProtocolsAlive
  <2>3. CASE GetProtocol(serving.id) # None
    <3> DEFINE i == serving.id
    <3>1. i \in DOMAIN protocols /\ GetProtocol(i) = protocols[i]
      BY <2>3 DEF GetProtocol
    <3>2. serving' = [serving EXCEPT !.at = "process", !.handler = protocols[i]]
      BY <2>3, <3>1, <1>8 DEF Process
    <3>3. /\ DOMAIN serving' = {"at", "id", "handler", "data"}
          /\ serving'.at = "process" /\ serving'.handler = protocols[i]
      BY <3>2 DEF Alive, Busy
    <3>4. protocols[i] \in Protocols
      BY <3>1 DEF Owned, TableTypes
    <3>5. object[protocols[i]] = "deleted" => rash
      BY <2>1, <3>1, BusyIsOpen DEF Owned, TableTypes, ProtocolsOwned, Alive, Whole
    <3> QED  BY <2>1, <3>3, <3>4, <3>5 DEF Alive, Busy, Whole, Kept, ProtocolsAlive
  <2> QED  BY <2>2, <2>3
<1>9. CASE ProcessReturns
  <2>1. UNCHANGED <<is_closed, corrupted, erasing, rash>>
        /\ serving' = Idle /\ serving.at = "process"
        /\ crashed' = (object[serving.handler] = "deleted")
    BY <1>9 DEF ProcessReturns, vars, flagVars, loopVars
  <2> QED  BY <2>1 DEF Idle, Alive, Busy, Whole, Kept, ProtocolsAlive
<1>10. CASE UNCHANGED serverVars
  BY <1>10 DEF serverVars, protocolVars, vars, flagVars, loopVars, Alive, Busy, Whole, Kept,
             ProtocolsAlive
<1> QED
  BY <1>1, <1>2, <1>3, <1>4, <1>5, <1>6, <1>7, <1>8, <1>9, <1>10 DEF ServerNext

(* A user who changes the table only while the server is closed never has a  *)
(* protocol deleted under the loop thread, through any number of restarts    *)
(* (AddProtocol, RemoveProtocol, GetPacket, ~TCPServer).                     *)
THEOREM ServerKeepsProtocols == ServerSpec => []ProtocolsAlive
<1>1. ServerInit => Owned /\ Alive
  <2> SUFFICES ASSUME ServerInit PROVE Owned /\ Alive
    OBVIOUS
  <2>1. Owned
    <3>1. DOMAIN <<>> = {}
      OBVIOUS
    <3> QED  BY <3>1 DEF ServerInit, Init, Owned, TableTypes, Half, Once, ProtocolsOwned
  <2>2. Alive
    BY DEF ServerInit, Idle, Alive, Busy, Whole, Kept, ProtocolsAlive
  <2> QED  BY <2>1, <2>2
<1>2. ServerSpec => []IInv
  BY ServerImplementsStart, Inductive, PTL
<1>3. IInv /\ Owned /\ Alive /\ [ServerNext]_serverVars => Owned' /\ Alive'
  BY OwnedStep, AliveStep
<1>4. Alive => ProtocolsAlive
  BY DEF Alive
<1> QED
  BY <1>1, <1>2, <1>3, <1>4, PTL DEF ServerSpec

-----------------------------------------------------------------------------
(* What the loop thread does with a packet, by the types of its parts.       *)
Servings == [at : {"idle", "search", "process"}, id : Int, handler : Protocols \cup {None},
             data : {"freed", "static", "packet", None}]

(* Whatever a packet holds, what GetPacket looks up is a number.             *)
LEMMA IntOfUnsigned ==
  ASSUME NEW n \in Int
  PROVE  AsInt(n) \in Int /\ AsInt(AsUnsigned(n)) \in Int
<1>1. Modulus \in Nat /\ Modulus > 0
  <2>1. Base \in Nat /\ Base > 0
    BY BaseAssumption
  <2>2. Base * Base \in Nat /\ Base * Base > 0
    BY <2>1, SMT
  <2>3. Base * Base * Base \in Nat /\ Base * Base * Base > 0
    BY <2>1, <2>2, SMT
  <2> QED  BY <2>1, <2>3, SMT DEF Modulus
<1>2. ASSUME NEW k \in Int PROVE AsInt(k) \in Int
  BY <1>1 DEF AsInt
<1>3. n % Modulus \in Int
  BY <1>1, SMT
<1> QED
  BY <1>2, <1>3 DEF AsUnsigned, ToUInt32

LEMMA IdsAreNumbers ==
  ASSUME NEW packet \in Packets
  PROVE  AsInt(Found(packet).id) \in Int
<1>1. CASE packet.type = 1
  <2>1. packet.chunks \in Seq(Chunks)
    BY <1>1, PacketAssumption
  <2>2. PICK p : p = Parse(CProto, packet.chunks)
    OBVIOUS
  <2>3. p.message.value \in [DOMAIN CProto -> Values(Chunks)]
    BY <2>1, <2>2, ParseHeld DEF Held
  <2>4. 1 \in DOMAIN CProto
    BY DEF CProto
  <2>5. Values(Chunks) \subseteq Int
    BY DEF Values, Chunks
  <2>6. PICK n \in Int : n = p.message.value[1]
    BY <2>3, <2>4, <2>5
  <2>7. ParseFromString(CProto, packet.chunks).message = p.message
    BY <2>2 DEF ParseFromString, Parse
  <2>8. Found(packet).id = AsUnsigned(n)
    BY <1>1, <2>6, <2>7 DEF Found
  <2> QED  BY <2>8, IntOfUnsigned
<1>2. CASE packet.type = 2
  <2>1. PICK c : c = packet.chars
    OBVIOUS
  <2>2. c \in Seq(Byte) /\ Len(c) >= 4
    BY <1>2, <2>1, PacketAssumption
  <2>3. c[1] \in Byte /\ c[2] \in Byte /\ c[3] \in Byte /\ c[4] \in Byte
    BY <2>2
  <2>4. CharToInt32(c) \in Word32
    BY <2>3, ReadBytes
  <2>5. CharToInt32(c) \in Int
    BY <2>4 DEF Word32
  <2>6. Found(packet).id = CharToInt32(c)
    BY <1>2, <2>1 DEF Found
  <2> QED  BY <2>5, <2>6, IntOfUnsigned
<1>3. CASE packet.type # 1 /\ packet.type # 2
  <2>1. Found(packet).id = 0
    BY <1>3 DEF Found
  <2> QED  BY <2>1, IntOfUnsigned
<1> QED
  BY <1>1, <1>2, <1>3

(* Only GetPacket and Process say what the loop thread is busy with.         *)
LEMMA ServingStep ==
  ASSUME Owned, serving \in Servings, [ServerNext]_serverVars
  PROVE  serving' \in Servings
<1>1. Idle \in Servings
  BY DEF Idle, Servings
<1>2. ASSUME NEW l \in Lives, NEW packet \in Packets, GetPacket(l, packet)
      PROVE  serving' \in Servings
  <2>1. serving' = [at |-> "search", id |-> AsInt(Found(packet).id), handler |-> None,
                    data |-> Found(packet).data]
    BY <1>2, Zenon DEF GetPacket
  <2>2. Found(packet).data \in {"freed", "static", "packet", None}
    <3>1. CASE packet.type = 1
      BY <3>1 DEF Found
    <3>2. CASE packet.type = 2
      BY <3>2 DEF Found
    <3>3. CASE packet.type # 1 /\ packet.type # 2
      BY <3>3 DEF Found
    <3> QED  BY <3>1, <3>2, <3>3
  <2>3. AsInt(Found(packet).id) \in Int
    BY IdsAreNumbers
  <2> QED  BY <2>1, <2>2, <2>3, Zenon DEF Servings
<1>3. CASE Process
  <2> DEFINE p == GetProtocol(serving.id)
  <2>1. p = None \/ p \in Protocols
    BY DEF GetProtocol, Owned, TableTypes
  <2>2. serving' = IF p = None THEN Idle ELSE [serving EXCEPT !.at = "process", !.handler = p]
    BY <1>3, Zenon DEF Process
  <2> QED
    <3> HIDE DEF p
    <3> QED  BY <1>1, <2>1, <2>2 DEF Servings
<1>4. CASE ProcessReturns
  BY <1>1, <1>4 DEF ProcessReturns
<1>5. ASSUME \/ Outside \/ DeleteProtocols \/ EraseProtocol
             \/ \E i \in Ids, p \in Protocols : AddProtocol(i, p)
             \/ \E i \in Ids : RemoveProtocol(i)
             \/ \E l \in Lives : LoopStep(l)
             \/ UNCHANGED serverVars
      PROVE  serving' = serving
  BY <1>5, Zenon DEF Outside, DeleteProtocols, EraseProtocol, AddProtocol, RemoveProtocol,
     LoopStep, Editing, serverVars, protocolVars
<1> QED
  BY <1>2, <1>3, <1>4, <1>5, Zenon DEF ServerNext

(* The values of a server's variables; and the loop thread is busy with a    *)
(* packet only while it is in the loop (GetPacket, AddProtocol,              *)
(* RemoveProtocol).                                                          *)
THEOREM ServerTyped == ServerSpec => []ServerTypeOK
<1>1. ServerInit => Owned /\ Alive /\ serving \in Servings
  <2> SUFFICES ASSUME ServerInit PROVE Owned /\ Alive /\ serving \in Servings
    OBVIOUS
  <2>1. Owned
    <3>1. DOMAIN <<>> = {}
      OBVIOUS
    <3> QED  BY <3>1 DEF ServerInit, Init, Owned, TableTypes, Half, Once, ProtocolsOwned
  <2>2. Alive /\ serving \in Servings
    BY DEF ServerInit, Idle, Alive, Busy, Whole, Kept, ProtocolsAlive, Servings
  <2> QED  BY <2>1, <2>2
<1>2. ServerSpec => []IInv
  BY ServerImplementsStart, Inductive, PTL
<1>3. IInv /\ Owned /\ Alive /\ [ServerNext]_serverVars => Owned' /\ Alive'
  BY OwnedStep, AliveStep
<1>4. Owned /\ serving \in Servings /\ [ServerNext]_serverVars
        => (serving \in Servings)'
  BY ServingStep
<1>5. IInv /\ Owned /\ Alive /\ serving \in Servings => ServerTypeOK
  <2> SUFFICES ASSUME IInv, Owned, Alive, serving \in Servings PROVE ServerTypeOK
    OBVIOUS
  <2>1. TypeOK
    BY DEF IInv
  <2>2. erasing \in Ids \cup {0}
    BY DEF Owned, TableTypes, Half
  <2>3. /\ DOMAIN protocols \subseteq Ids /\ \A i \in DOMAIN protocols : protocols[i] \in Protocols
        /\ object \in [Protocols -> {"new", "held", "refused", "deleted"}]
        /\ rash \in BOOLEAN /\ crashed \in BOOLEAN
    BY Zenon DEF Owned, TableTypes
  <2>4. serving # Idle => \E l \in Lives : thread[l] = "running"
    BY DEF Alive, Busy
  <2> QED
    BY <2>1, <2>2, <2>3, <2>4, Zenon DEF ServerTypeOK, Servings
<1> QED
  BY <1>1, <1>2, <1>3, <1>4, <1>5, PTL DEF ServerSpec

-----------------------------------------------------------------------------
(* The classes are the four of netmessage.proto.                             *)
LEMMA ClassesAreSequences ==
  \A class \in {CProto, CP1, CP2, EchoProto} : class \in Seq(Kinds)
<1>1. "varint" \in Kinds /\ "bytes" \in Kinds
  BY DEF Kinds
<1>2. PICK a, b : a = "varint" /\ b = "bytes" /\ a \in Kinds /\ b \in Kinds
  BY <1>1
<1>3. <<a, b>> \in Seq(Kinds) /\ <<a, a, b>> \in Seq(Kinds) /\ <<b, b, a>> \in Seq(Kinds)
        /\ <<b>> \in Seq(Kinds)
  BY <1>2
<1> QED
  BY <1>2, <1>3, Zenon DEF CProto, CP1, CP2, EchoProto

(* The unknown chunks of the run are none of the fields of a class.          *)
NoField == {Chunk(7, "varint", 1), Chunk(1, "fixed64", 1), Chunk(9, "bytes", 0)}

LEMMA NoFieldIsForeign ==
  \A class \in {CProto, CP1, CP2, EchoProto} : AllForeign(class, NoField)
<1> SUFFICES ASSUME NEW class \in {CProto, CP1, CP2, EchoProto}, NEW c \in NoField
             PROVE  Foreign(class, c)
  BY DEF AllForeign
<1>1. DOMAIN class \subseteq 1 .. 3
  BY DEF CProto, CP1, CP2, EchoProto
<1>2. \A k \in DOMAIN class : class[k] \in Kinds
  BY ClassesAreSequences
<1>3. ~c.cut /\ c.wire # "end_group" /\ (c.field \in DOMAIN class => c.wire # class[c.field])
  BY <1>1, <1>2 DEF NoField, Chunk, Kinds
<1> QED
  BY <1>3 DEF Foreign

(* The messages and the streams of the run.                                  *)
LEMMA UnknownsAreForeign == Unknowns \subseteq Seq(NoField)
BY DEF Unknowns, NoField

LEMMA MessagesHoldUnknowns ==
  \A class : Messages(class, {1, 2}, Unknowns) \subseteq Messages(class, {1, 2}, Seq(NoField))
BY UnknownsAreForeign DEF Messages

LEMMA StreamsAreSequences == \E C : Streams \subseteq Seq(C)
<1> DEFINE chunks == {Chunk(k, w, v) : k \in 1 .. 3, w \in Kinds, v \in {1, 2}}
                       \cup {EndGroup, Cut(Body(1)), Cut(Id(1)), Cut(Chunk(9, "fixed64", 1))}
<1>1. Streams = {<<>>} \cup {<<c>> : c \in chunks} \cup {<<c, d>> : c, d \in chunks}
  BY DEF Streams
<1> HIDE DEF chunks
<1>2. <<>> \in Seq(chunks)
  OBVIOUS
<1>3. \A c \in chunks : <<c>> \in Seq(chunks)
  OBVIOUS
<1>4. \A c, d \in chunks : <<c, d>> \in Seq(chunks)
  OBVIOUS
<1>5. ASSUME NEW s \in Streams PROVE s \in Seq(chunks)
  <2>1. \/ s = <<>>
        \/ \E c \in chunks : s = <<c>>
        \/ \E c, d \in chunks : s = <<c, d>>
    BY <1>1
  <2> QED
    BY <2>1, <1>2, <1>3, <1>4, Zenon
<1>6. Streams \subseteq Seq(chunks)
  BY <1>5, Zenon
<1> QED
  BY <1>6, Zenon

(* MessagesRead: the messages and the streams of the run are instances of    *)
(* MessagesRoundTrip and StreamsMerge.                                       *)
THEOREM MessagesAreRead == ServerSpec => []MessagesRead
<1>1. ASSUME NEW class \in {CProto, CP1, CP2, EchoProto},
             NEW m \in Messages(class, {1, 2}, Unknowns)
      PROVE  RoundTrip(class, m)
  <2>1. class \in Seq(Kinds) /\ AllForeign(class, NoField)
    BY ClassesAreSequences, NoFieldIsForeign
  <2>2. m \in Messages(class, {1, 2}, Seq(NoField))
    BY MessagesHoldUnknowns
  <2> QED
    BY <2>1, <2>2, MessagesRoundTrip
<1>2. ASSUME NEW class, NEW first \in Streams, NEW second \in Streams
      PROVE  ConcatenationMerges(class, first, second)
  BY StreamsAreSequences, StreamsMerge
<1>3. MessagesRead
  BY <1>1, <1>2 DEF MessagesRead
<1> QED
  BY <1>3, PTL
=============================================================================
