-------------------------- MODULE MCServerProtocols --------------------------
(* A small instance of ServerProtocols: bytes of four values, two protocols, *)
(* ids that are found, not found and negative, and packets with whole, half  *)
(* and misread messages.  The messages' operators are evaluated over all     *)
(* small inputs.                                                             *)
EXTENDS ServerProtocols

Packet(type, chunks, chars) == [type |-> type, chunks |-> chunks, chars |-> chars]
Id(n) == Chunk(1, "varint", n)
Body(n) == Chunk(2, "bytes", n)

(* The ids that senders of plain data write before it, with Int32ToChar.     *)
PlainIds == {1, 8}

MCPackets ==
  { Packet(1, <<Id(1), Body(1)>>, <<>>),
    Packet(1, <<Body(1), Id(2), EndGroup, Id(1)>>, <<>>),
    Packet(1, <<Id(1), Cut(Body(0))>>, <<>>),
    Packet(1, <<Id(-1), Body(1)>>, <<>>),
    Packet(1, <<Cut(Id(0))>>, <<>>),
    Packet(3, <<>>, <<>>) } \cup { Packet(2, <<>>, Int32ToChar(n)) : n \in PlainIds }

(* The first four bytes of plain data are the id of its protocol: what       *)
(* GetPacket looks up is an id that a sender has written (CharToInt32,       *)
(* GetPacket).                                                               *)
IdsReadBack == serving.data = "packet" => \E n \in PlainIds : serving.id = AsInt(n)

(* The messages do not depend on the state: one look at them is enough.      *)
First == starts = 0 /\ protocols = <<>>

Unknowns == {<<>>, <<Chunk(7, "varint", 1)>>, <<Chunk(1, "fixed64", 1), Chunk(9, "bytes", 0)>>}
Streams ==
  LET chunks == {Chunk(k, w, v) : k \in 1 .. 3, w \in Kinds, v \in {1, 2}}
                  \cup {EndGroup, Cut(Body(1)), Cut(Id(1)), Cut(Chunk(9, "fixed64", 1))}
  IN  {<<>>} \cup {<<c>> : c \in chunks} \cup {<<c, d>> : c, d \in chunks}

(* Whatever a message of the four classes holds, unknown fields included, is *)
(* what is read from its serialized form, and streams put together hold the  *)
(* merge of what they hold: GetPacket hands on what the peer's user put into *)
(* the message (MergePartialFromCodedStream, MergeFrom,                      *)
(* SerializeWithCachedSizes, ByteSize).                                      *)
MessagesRead ==
  First =>
  \A class \in {CProto, CP1, CP2, EchoProto} :
    /\ \A m \in Messages(class, {1, 2}, Unknowns) : RoundTrip(class, m)
    /\ \A first, second \in Streams : ConcatenationMerges(class, first, second)
=============================================================================
