--------------------------- MODULE ServerProtocols ---------------------------
(***************************************************************************)
(* The protocols of a TCPServer through its life (ServerStart): the user   *)
(* adds and removes them, the loop thread looks them up for the packets    *)
(* that its sessions' parsers find (GetPacket) and runs them, and the      *)
(* destructor deletes them.  The table has no lock.  The user's thread is  *)
(* the one that starts and destroys the server; every protocol it makes is *)
(* added once, and belongs to the server if AddProtocol took it.           *)
(***************************************************************************)
EXTENDS ServerStart, NetBase, NetMessage

CONSTANTS Protocols,  \* the user's protocols
          Ids,        \* the ids it adds and removes
          Packets     \* what a parser finds: the type of a frame, its data as
                      \* a CProto (chunks), and the chars at packetdata (chars)

ASSUME ProtocolAssumption == Ids \subseteq Int

(* GetPacket takes the first four bytes of plain data without a look at how  *)
(* long it is; the parser's buffer, where they lie, is longer in any case.   *)
ASSUME PacketAssumption ==
  \A packet \in Packets :
    /\ packet.type = 1 => packet.chunks \in Seq(Chunks)
    /\ packet.type = 2 => packet.chars \in Seq(Byte) /\ Len(packet.chars) >= 4

None == "none"  \* NULL

VARIABLES protocols,  \* _protocols: a function from ids
          object,     \* what became of each protocol of the user's
          erasing,    \* the id RemoveProtocol has deleted and not yet erased, or 0
          serving,    \* what the loop thread does with the packet it is at
          rash,       \* history: the table was changed on a server not closed
          crashed     \* the loop thread used a protocol that is deleted, or
                      \* searched the table while it was changed

protocolVars == <<protocols, object, erasing, serving, rash, crashed>>
serverVars == <<vars, protocolVars>>

Idle == [at |-> "idle", id |-> 0, handler |-> None, data |-> None]

ServerInit ==
  /\ Init
  /\ protocols = <<>>
  /\ object = [p \in Protocols |-> "new"]
  /\ erasing = 0
  /\ serving = Idle
  /\ rash = FALSE
  /\ crashed = FALSE

-----------------------------------------------------------------------------
(* The user's calls.                                                         *)
Editing ==
  /\ ~crashed /\ ~corrupted
  /\ owner = "idle"
  /\ rash' = (rash \/ ~is_closed)
  /\ crashed' = (serving.at = "search")
  /\ UNCHANGED <<vars, serving>>

(* insert does nothing when the id is taken: the protocol is then nobody's.  *)
AddProtocol(proto_id, proto) ==
  /\ Editing
  /\ erasing = 0
  /\ object[proto] = "new"
  /\ IF proto_id > 0 /\ proto_id \notin DOMAIN protocols
     THEN /\ protocols' = [i \in DOMAIN protocols \cup {proto_id} |->
                             IF i = proto_id THEN proto ELSE protocols[i]]
          /\ object' = [object EXCEPT ![proto] = "held"]
     ELSE /\ object' = [object EXCEPT ![proto] = "refused"]
          /\ UNCHANGED protocols
  /\ UNCHANGED erasing

(* RemoveProtocol: delete, then erase.                                       *)
RemoveProtocol(protocol_id) ==
  /\ Editing
  /\ erasing = 0
  /\ protocol_id > 0 /\ protocol_id \in DOMAIN protocols
  /\ object' = [object EXCEPT ![protocols[protocol_id]] = "deleted"]
  /\ erasing' = protocol_id
  /\ UNCHANGED protocols

EraseProtocolMut ==
  /\ Editing
  /\ erasing # 0
  /\ erasing' = 0
  /\ UNCHANGED <<object, protocols>>
EraseProtocol ==
  /\ Editing
  /\ erasing # 0
  /\ protocols' = [i \in DOMAIN protocols \ {erasing} |-> protocols[i]]
  /\ erasing' = 0
  /\ UNCHANGED object

-----------------------------------------------------------------------------
(* GetPacket, up to the search.  The result of ParseFromString is not looked *)
(* at, so that the id and the body may be those of half a message.  body()   *)
(* points into the CProto, which is gone at the end of its block; if it is   *)
(* not set it is a text that lives for ever.  The id is unsigned here and    *)
(* signed in GetProtocol.                                                    *)
Found(packet) ==
  LET proto == ParseFromString(CProto, packet.chunks).message
  IN  CASE packet.type = 1 -> [id |-> AsUnsigned(proto.value[1]),
                               data |-> IF 2 \in proto.has_bits THEN "freed" ELSE "static"]
        [] packet.type = 2 -> [id |-> CharToInt32(packet.chars), data |-> "packet"]
        [] OTHER           -> [id |-> 0, data |-> None]

GetPacket(l, packet) ==
  /\ ~crashed /\ ~corrupted
  /\ thread[l] = "running"
  /\ async = "open"
  /\ serving = Idle
  /\ Found(packet).id > 0
  /\ serving' = [at |-> "search", id |-> AsInt(Found(packet).id),
                 handler |-> None, data |-> Found(packet).data]
  /\ UNCHANGED <<vars, protocols, object, erasing, rash, crashed>>

GetProtocol(proto_id) ==
  IF proto_id > 0 /\ proto_id \in DOMAIN protocols THEN protocols[proto_id] ELSE None

Process ==
  /\ ~crashed /\ ~corrupted
  /\ serving.at = "search"
  /\ serving' = IF GetProtocol(serving.id) = None THEN Idle
                ELSE [serving EXCEPT !.at = "process", !.handler = GetProtocol(serving.id)]
  /\ UNCHANGED <<vars, protocols, object, erasing, rash, crashed>>

(* The user's Process returns.  By then it has used its protocol.            *)
ProcessReturns ==
  /\ ~crashed /\ ~corrupted
  /\ serving.at = "process"
  /\ crashed' = (object[serving.handler] = "deleted")
  /\ serving' = Idle
  /\ UNCHANGED <<vars, protocols, object, erasing, rash>>

-----------------------------------------------------------------------------
(* The rest of the server goes on beside it; only the loop thread is busy    *)
(* with one thing at a time, and the user's with one call.                   *)
Outside ==
  /\ ~crashed
  /\ \/ erasing = 0 /\ (Start \/ Destroy)
     \/ OwnerStep \/ StartFails \/ Close \/ CloseFlag \/ CloseSignal
  /\ UNCHANGED protocolVars

LoopStep(l) ==
  /\ ~crashed
  /\ serving = Idle
  /\ ThreadStep(l)
  /\ UNCHANGED protocolVars

(* The destructor, after it has joined the start thread.                     *)
DeleteProtocols ==
  /\ ~crashed
  /\ Joined
  /\ object' = [p \in Protocols |->
                  IF \E i \in DOMAIN protocols : protocols[i] = p THEN "deleted" ELSE object[p]]
  /\ protocols' = <<>>
  /\ UNCHANGED <<erasing, serving, rash, crashed>>

ServerNext ==
  \/ Outside \/ DeleteProtocols
  \/ \E i \in Ids, p \in Protocols : AddProtocol(i, p)
  \/ \E i \in Ids : RemoveProtocol(i)
  \/ EraseProtocol
  \/ \E l \in Lives : LoopStep(l)
  \/ \E l \in Lives, packet \in Packets : GetPacket(l, packet)
  \/ Process \/ ProcessReturns

ServerSpec == ServerInit /\ [][ServerNext]_serverVars

(* Every thread goes on; a user's Process returns.  libuv serves all ready   *)
(* handles in each turn of the loop, so packets do not keep it from the      *)
(* others for ever.  Nobody has to call anything.                            *)
Fairness ==
  /\ WF_serverVars(~crashed /\ (OwnerStep \/ StartFails) /\ UNCHANGED protocolVars)
  /\ WF_serverVars(~crashed /\ CloseFlag /\ UNCHANGED protocolVars)
  /\ WF_serverVars(~crashed /\ CloseSignal /\ UNCHANGED protocolVars)
  /\ WF_serverVars(DeleteProtocols)
  /\ WF_serverVars(EraseProtocol)
  /\ WF_serverVars(Process) /\ WF_serverVars(ProcessReturns)
  /\ \A l \in Lives : SF_serverVars(LoopStep(l))

FairServerSpec == ServerSpec /\ Fairness

-----------------------------------------------------------------------------
(* The values of the variables, ServerStart's included; the loop thread is   *)
(* busy with a packet only while some thread is in the loop.                 *)
ServerTypeOK ==
  /\ TypeOK
  /\ DOMAIN protocols \subseteq Ids /\ \A i \in DOMAIN protocols : protocols[i] \in Protocols
  /\ object \in [Protocols -> {"new", "held", "refused", "deleted"}]
  /\ erasing \in Ids \cup {0}
  /\ serving \in [at : {"idle", "search", "process"}, id : Int,
                  handler : Protocols \cup {None}, data : {"freed", "static", "packet", None}]
  /\ rash \in BOOLEAN
  /\ crashed \in BOOLEAN
  /\ serving # Idle => \E l \in Lives : thread[l] = "running"

(* A user who changes the table only while the server is closed never has a  *)
(* protocol deleted under the loop thread, whatever restarts and Closes      *)
(* there are, not even by the destructor (AddProtocol, RemoveProtocol,       *)
(* GetProtocol, GetPacket, ~TCPServer).                                      *)
ProtocolsAlive == crashed => rash

(* The protocols in the table are exactly those the server was given and has *)
(* not deleted, so that each is deleted once; after the destructor none is   *)
(* left (AddProtocol, RemoveProtocol, ~TCPServer).                           *)
ProtocolsOwned ==
  /\ \A i \in DOMAIN protocols : i # erasing => object[protocols[i]] = "held"
  /\ \A p \in Protocols :
       object[p] = "held" => \E i \in DOMAIN protocols : protocols[i] = p
  /\ owner = "destroyed" => \A p \in Protocols : object[p] # "held"

-----------------------------------------------------------------------------
(* A Close of a server that is served closes it, whatever state its Start is *)
(* in -- unless the thread of the life before has said that the server is    *)
(* closed and not yet cleared the user's flag: then the request is lost      *)
(* (Close, AsyncCloseCB, _close, _start_thread).                             *)
CloseCompletes ==
  ( /\ closer = "signal" /\ is_user_closed
    /\ \E l \in Lives : thread[l] \in {"created", "running"}
    /\ \A l \in Lives : thread[l] # "closed" ) ~> (is_closed \/ corrupted \/ crashed)

(* The destructor returns: its Close reaches the thread it joins.  Not so    *)
(* after a hasty restart: the thread of the life before may still clear the  *)
(* flag that this Close sets, and the join then waits for ever.              *)
DestructorReturns == owner = "join" /\ ~hasty ~> (owner = "destroyed" \/ crashed)
=============================================================================
