----------------------------- MODULE NetMessage -----------------------------
(***************************************************************************)
(* The messages generated from netmessage.proto (pb/netmessage.pb.cc).     *)
(* The generator has one pattern for every message: it is given here once, *)
(* for a message whose fields, all required, are numbered from 1 and each  *)
(* is a number ("varint") or a text ("bytes"); the four messages are its   *)
(* instances.  A text is known by a number, 0 being the empty one.         *)
(*                                                                         *)
(* What is parsed is a sequence of chunks, one per tag; the last one may   *)
(* be cut off, and then holds as much of its value as there is.            *)
(***************************************************************************)
EXTENDS Integers, Sequences, FiniteSets

Kinds == {"varint", "bytes"}
Chunk(number, wire, value) ==
  [field |-> number, wire |-> wire, value |-> value, cut |-> FALSE]
Cut(chunk) == [chunk EXCEPT !.cut = TRUE]
EndGroup == Chunk(0, "end_group", 0)
Chunks == [field : Nat, wire : STRING, value : Int, cut : BOOLEAN]

(* The classes: the kind of each field.                                      *)
CProto == <<"varint", "bytes">>
CP1 == <<"varint", "varint", "bytes">>
CP2 == <<"bytes", "bytes", "varint">>
EchoProto == <<"bytes">>

-----------------------------------------------------------------------------
(* A message holds a value for every field, the fields that are set and the  *)
(* chunks it did not know.                                                   *)
SharedCtor(class) ==
  [value |-> [k \in DOMAIN class |-> 0], has_bits |-> {}, unknown_fields |-> <<>>]

Messages(class, Values, Unknown) ==
  {m \in [value : [DOMAIN class -> Values \cup {0}], has_bits : SUBSET DOMAIN class,
          unknown_fields : Unknown] :
     \A k \in DOMAIN class \ m.has_bits : m.value[k] = 0}

Clear(class) == SharedCtor(class)

Set(m, k, v) == [m EXCEPT !.value[k] = v, !.has_bits = @ \cup {k}]

Keep(m, chunk) == [m EXCEPT !.unknown_fields = Append(@, chunk)]

IsInitialized(class, m) == m.has_bits = DOMAIN class

(* Only the fields that the other message has set are taken from it.         *)
MergeFromMut(m, from) ==
  [value |-> [k \in DOMAIN m.value |-> from.value[k]],
   has_bits |-> m.has_bits \cup from.has_bits,
   unknown_fields |-> m.unknown_fields \o from.unknown_fields]
MergeFrom(m, from) ==
  [value |-> [k \in DOMAIN m.value |->
                IF k \in from.has_bits THEN from.value[k] ELSE m.value[k]],
   has_bits |-> m.has_bits \cup from.has_bits,
   unknown_fields |-> m.unknown_fields \o from.unknown_fields]

CopyFrom(class, from) == MergeFrom(Clear(class), from)

(* Serialize writes the fields that are set in the order of their numbers    *)
(* (Written: after each of them), then the unknown chunks.  ByteSize, whose  *)
(* result it trusts, counts them.                                            *)
Written(class, m) ==
  LET written[k \in 0 .. Len(class)] ==
        IF k = 0 THEN <<>>
        ELSE IF k \in m.has_bits THEN Append(written[k - 1], Chunk(k, class[k], m.value[k]))
        ELSE written[k - 1]
  IN  written

SerializeWithCachedSizes(class, m) == Written(class, m)[Len(class)] \o m.unknown_fields

ByteSize(m) == Cardinality(m.has_bits) + Len(m.unknown_fields)

-----------------------------------------------------------------------------
(* One turn of the parser's loop.  A chunk with the number and the wire type *)
(* of a field is read into it, any other one is kept as unknown.  What is    *)
(* cut off leaves no trace, but for a text, which is read as far as it goes. *)
(* A mark of the end of a group ends the message.                            *)
ParseChunk(class, parsed, chunk) ==
  LET m == parsed.message
      known == chunk.field \in DOMAIN class /\ chunk.wire = class[chunk.field]
      next == IF chunk.cut /\ chunk.wire # "bytes" THEN m
              ELSE IF known THEN Set(m, chunk.field, chunk.value)
              ELSE Keep(m, chunk)
  IN  IF parsed.state # "parsing" THEN parsed
      ELSE IF chunk.wire = "end_group" THEN [parsed EXCEPT !.state = "end_group"]
      ELSE [message |-> next, state |-> IF chunk.cut THEN "failure" ELSE "parsing"]

(* The loop: the message and the state after each of its turns.             *)
Turns(class, m, stream) ==
  LET parsed[i \in 0 .. Len(stream)] ==
        IF i = 0 THEN [message |-> m, state |-> "parsing"]
        ELSE ParseChunk(class, parsed[i - 1], stream[i])
  IN  parsed

MergePartialFromCodedStream(class, m, stream) == Turns(class, m, stream)[Len(stream)]

(* ParseFromString: true if all was read and every field is set.  The        *)
(* message keeps what was read in any case.                                  *)
ParseFromString(class, stream) ==
  LET parsed == MergePartialFromCodedStream(class, Clear(class), stream)
  IN  [message |-> parsed.message,
       result |-> parsed.state = "parsing" /\ IsInitialized(class, parsed.message)]

-----------------------------------------------------------------------------
(* A message is parsed from what it serializes to and is equal to its copy,  *)
(* unknown fields included, and the size computed for it is what is written. *)
RoundTrip(class, m) ==
  LET written == SerializeWithCachedSizes(class, m)
  IN  /\ CopyFrom(class, m) = m
      /\ ParseFromString(class, written).message = m
      /\ ParseFromString(class, written).result = IsInitialized(class, m)
      /\ ByteSize(m) = Len(written)

(* To parse one stream after another is to merge what each of them holds.    *)
ConcatenationMerges(class, first, second) ==
  LET parse(stream) == MergePartialFromCodedStream(class, Clear(class), stream)
  IN  parse(first).state = "parsing" =>
        parse(first \o second).message
          = MergeFrom(parse(first).message, parse(second).message)
=============================================================================
