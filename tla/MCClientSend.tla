---------------------------- MODULE MCClientSend ----------------------------
(* Small instances of ClientSend: the application sends twice and the others *)
(* once; params are numbered, and there is one for every byte that can be    *)
(* sent, so that allocation never fails.                                     *)
EXTENDS ClientSendProperties, FiniteSets

CONSTANT Talker  \* the sender of two messages

MCMaxMsgs == [s \in Senders |-> IF s = Talker THEN 2 ELSE 1]
MCParams == 1 .. (Cardinality(Senders) + 1) * BUFFER_SIZE + 2
=============================================================================
