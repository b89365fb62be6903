--------------------------- MODULE SessionEvents ---------------------------
(***************************************************************************)
(* What a user of TCPServer may rely on: the order in which the server     *)
(* calls him back.  NewConnectCB announces a session id that was never     *)
(* used before; TcpCloseCB tells the end of an announced session once; and *)
(* TcpCloseCB(-1), the end of the server, comes when no session is left,   *)
(* after which there is nothing more to hear.                              *)
(***************************************************************************)
EXTENDS Integers, Sequences, SequencesExt

CONSTANT Sids  \* session ids

VARIABLES announced,  \* the ids NewConnectCB was called with, in order
          told        \* the ids TcpCloseCB was called with, in order

vars == <<announced, told>>

ServerEnd == -1

Connected == ToSet(announced) \ ToSet(told)
Ended == ServerEnd \in ToSet(told)

Init ==
  /\ announced = <<>>
  /\ told = <<>>

NewConnect(s) ==
  /\ ~Ended
  /\ s \notin ToSet(announced)
  /\ announced' = Append(announced, s)
  /\ UNCHANGED told

SessionEnds(s) ==
  /\ s \in Connected
  /\ told' = Append(told, s)
  /\ UNCHANGED announced

ServerEnds ==
  /\ ~Ended
  /\ Connected = {}
  /\ told' = Append(told, ServerEnd)
  /\ UNCHANGED announced

Next == ServerEnds \/ \E s \in Sids : NewConnect(s) \/ SessionEnds(s)

Spec == Init /\ [][Next]_vars
=============================================================================
