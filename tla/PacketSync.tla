----------------------------- MODULE PacketSync -----------------------------
(***************************************************************************)
(* The frame parser, packet_sync.h.  recvdata is called on the loop thread *)
(* with what a read has brought.  Its loop looks for a header in readdata, *)
(* which it fills from the new data as far as there is room, collects the  *)
(* frame's data and last byte in packetdata, first from readdata and then  *)
(* directly from the new data, and checks them.  After a broken frame it   *)
(* goes back to the byte after the HEAD it had started from.               *)
(*                                                                         *)
(* A step is one turn of that loop, cut in two where the header has been   *)
(* found.  A buffer is its valid bytes and its size; bytes beyond them and *)
(* what the code leaves in header, headpos and packetdata between frames   *)
(* are never read and left out.                                            *)
(***************************************************************************)
EXTENDS Frames, SequencesExt

CONSTANTS Chunks,      \* what one read from the socket may bring
          BUFFER_SIZE  \* the initial size of both buffers

ASSUME ParserAssumption ==
  /\ Chunks \subseteq Seq(Byte) \ {<<>>}
  /\ BUFFER_SIZE \in Nat
  /\ BUFFER_SIZE > HEADLEN

VARIABLES readdata,       \* thread_readdata, its truepacketlen valid bytes
          readlen,        \* its size
          packetdata,     \* thread_packetdata, its getdatalen valid bytes
          packetlen,      \* its size
          parsetype,
          headpos,        \* where HEAD was found, counted from 1
          theNexPacket,   \* the header found
          data,           \* what recvdata has not yet looked at, data + iret
          pc,             \* where recvdata is
          packet_cb_,     \* what the step called the user with
          fresh,          \* history: no data since Start
          due             \* history: the connection's first read was a frame, and
                          \* none was delivered since

bufferVars == <<readdata, readlen, packetdata, packetlen>>
headVars == <<parsetype, headpos, theNexPacket>>
vars == <<bufferVars, headVars, data, pc, packet_cb_, fresh, due>>

Least(a, b) == IF a <= b THEN a ELSE b
Most(a, b) == IF a >= b THEN a ELSE b

Init ==
  /\ readdata = <<>>
  /\ readlen = BUFFER_SIZE
  /\ packetdata = <<>>
  /\ packetlen = BUFFER_SIZE
  /\ parsetype = "PARSE_NOTHING"
  /\ headpos = 0
  /\ theNexPacket = <<>>
  /\ data = <<>>
  /\ pc = "idle"
  /\ packet_cb_ = NoFrame
  /\ fresh = TRUE
  /\ due = FALSE

(* Start, for a new connection on the parser of an old one: it sets HEAD and *)
(* TAIL.                                                                     *)
Start ==
  /\ pc = "idle"
  /\ ~fresh
  /\ fresh' = TRUE
  /\ due' = FALSE
  /\ UNCHANGED <<bufferVars, headVars, data, pc, packet_cb_>>

Recvdata(chunk) ==
  /\ pc = "idle"
  /\ data' = chunk
  /\ pc' = IF parsetype = "PARSE_NOTHING" THEN "turn" ELSE "collect"
  /\ packet_cb_' = NoFrame
  /\ fresh' = FALSE
  /\ due' = (due \/ (fresh /\ Good(chunk)))
  /\ UNCHANGED <<bufferVars, headVars>>

-----------------------------------------------------------------------------
(* The condition of recvdata's loop: a frame has at least HEADLEN + 2 bytes. *)
MoreMut == data # <<>>
More == data # <<>> \/ Len(readdata) >= HEADLEN + 2

(* The first part of a turn: as much of the data as there is room for goes   *)
(* to readdata, and HEAD is looked for in it (0: not found).                 *)
Taken == Least(Len(data), readlen - Len(readdata))
Filled == readdata \o SubSeq(data, 1, Taken)
HeadAt == SelectInSeq(Filled, LAMBDA b : b = HEAD)
HeaderAt == SubSeq(Filled, HeadAt + 1, HeadAt + HEADLEN)

Turn ==
  /\ pc = "turn"
  /\ More
  /\ data' = SubSeq(data, Taken + 1, Len(data))
  /\ packet_cb_' = NoFrame

NoHeadMut ==
  /\ Turn
  /\ HeadAt = 0
  /\ readdata' = Filled
  /\ UNCHANGED <<readlen, packetdata, packetlen, headVars, pc, fresh, due>>
NoHead ==
  /\ Turn
  /\ HeadAt = 0
  /\ readdata' = <<>>
  /\ UNCHANGED <<readlen, packetdata, packetlen, headVars, pc, fresh, due>>

ShortHeader ==
  /\ Turn
  /\ HeadAt # 0
  /\ Len(Filled) - HeadAt < HEADLEN
  /\ readdata' = SubSeq(Filled, HeadAt, Len(Filled))
  /\ UNCHANGED <<readlen, packetdata, packetlen, headVars, pc, fresh, due>>

IllegalHeader ==
  /\ Turn
  /\ HeadAt # 0
  /\ Len(Filled) - HeadAt >= HEADLEN
  /\ ~Legal(HeaderAt)
  /\ readdata' = SubSeq(Filled, HeadAt + 1, Len(Filled))
  /\ UNCHANGED <<readlen, packetdata, packetlen, headVars, pc, fresh, due>>

HeaderFound ==
  /\ Turn
  /\ HeadAt # 0
  /\ Len(Filled) - HeadAt >= HEADLEN
  /\ Legal(HeaderAt)
  /\ readdata' = Filled
  /\ parsetype' = "PARSE_HEAD"
  /\ headpos' = HeadAt
  /\ theNexPacket' = HeaderAt
  /\ packetlen' = Most(packetlen, DataLen(HeaderAt) + 1)
  /\ packetdata' = SubSeq(Filled, HeadAt + HEADLEN + 1,
                          Least(Len(Filled), HeadAt + HEADLEN + DataLen(HeaderAt) + 1))
  /\ pc' = "collect"
  /\ UNCHANGED <<readlen, fresh, due>>

-----------------------------------------------------------------------------
(* The second part of a turn: the data and the last byte of the frame.       *)
Datalen == DataLen(theNexPacket)
Missing == Datalen + 1 - Len(packetdata)
Collected == packetdata \o SubSeq(data, 1, Missing)
CheckOK ==
  /\ Collected[Datalen + 1] = TAIL
  /\ Intact(theNexPacket, SubSeq(Collected, 1, Datalen))

(* The whole frame lies in readdata.                                         *)
FrameEnd == headpos + HEADLEN + Datalen + 1
InReaddata == Len(readdata) >= FrameEnd

(* Not enough: recvdata returns.                                             *)
AwaitData ==
  /\ pc = "collect"
  /\ Len(data) < Missing
  /\ packetdata' = packetdata \o data
  /\ data' = <<>>
  /\ pc' = "idle"
  /\ packet_cb_' = NoFrame
  /\ UNCHANGED <<readdata, readlen, packetlen, headVars, fresh, due>>

(* The end of a turn that saw all of a frame.                                *)
FrameSeen ==
  /\ pc = "collect"
  /\ Len(data) >= Missing
  /\ data' = SubSeq(data, Missing + 1, Len(data))
  /\ parsetype' = "PARSE_NOTHING"
  /\ headpos' = 0
  /\ theNexPacket' = <<>>
  /\ packetdata' = <<>>
  /\ pc' = "turn"
  /\ UNCHANGED <<packetlen, fresh>>

(* The last byte or the check value is wrong: everything behind HEAD is to   *)
(* be looked at again.                                                       *)
FrameBrokenMut ==
  /\ FrameSeen
  /\ ~CheckOK
  /\ IF InReaddata
     THEN readdata' = SubSeq(readdata, headpos + 1, Len(readdata)) /\ UNCHANGED readlen
     ELSE /\ readdata' = theNexPacket \o Collected
          /\ UNCHANGED readlen
  /\ packet_cb_' = NoFrame
  /\ UNCHANGED due
FrameBroken ==
  /\ FrameSeen
  /\ ~CheckOK
  /\ IF InReaddata
     THEN readdata' = SubSeq(readdata, headpos + 1, Len(readdata)) /\ UNCHANGED readlen
     ELSE /\ readdata' = theNexPacket \o Collected
          /\ readlen' = Most(readlen, HEADLEN + Datalen + 1)
  /\ packet_cb_' = NoFrame
  /\ UNCHANGED due

FrameGoodMut ==
  /\ FrameSeen
  /\ CheckOK
  /\ readdata' = <<>>
  /\ packet_cb_' = [header |-> theNexPacket, data |-> SubSeq(Collected, 1, Datalen)]
  /\ due' = FALSE
  /\ UNCHANGED readlen
FrameGood ==
  /\ FrameSeen
  /\ CheckOK
  /\ readdata' = IF InReaddata THEN SubSeq(readdata, FrameEnd + 1, Len(readdata)) ELSE <<>>
  /\ packet_cb_' = [header |-> theNexPacket, data |-> SubSeq(Collected, 1, Datalen)]
  /\ due' = FALSE
  /\ UNCHANGED readlen

Return ==
  /\ pc = "turn"
  /\ ~More
  /\ pc' = "idle"
  /\ packet_cb_' = NoFrame
  /\ UNCHANGED <<bufferVars, headVars, data, fresh, due>>

-----------------------------------------------------------------------------
Step ==
  \/ NoHead \/ ShortHeader \/ IllegalHeader \/ HeaderFound
  \/ AwaitData \/ FrameBroken \/ FrameGood \/ Return

Next ==
  \/ Start
  \/ \E chunk \in Chunks : Recvdata(chunk)
  \/ Step

Spec == Init /\ [][Next]_vars

(* The loop thread goes on inside recvdata.                                  *)
FairSpec == Spec /\ WF_vars(Step)

-----------------------------------------------------------------------------
(* The buffers are never filled beyond their size.                           *)
TypeOK ==
  /\ readdata \in Seq(Byte) /\ Len(readdata) <= readlen
  /\ packetdata \in Seq(Byte) /\ Len(packetdata) <= packetlen
  /\ readlen \in Nat
  /\ packetlen \in Nat
  /\ parsetype \in {"PARSE_NOTHING", "PARSE_HEAD"}
  /\ headpos \in Nat
  /\ theNexPacket \in Headers \cup {<<>>}
  /\ data \in Seq(Byte)
  /\ pc \in {"idle", "turn", "collect"}
  /\ packet_cb_ \in [header : Headers \cup {<<>>}, data : Seq(Byte)]
  /\ fresh \in BOOLEAN
  /\ due \in BOOLEAN

(* The bytes received and not decided upon: those in readdata from where the *)
(* frame that is being read starts, or that frame's, if packetdata has more  *)
(* of it than readdata; and those recvdata has not looked at.                *)
Undecided ==
  IF parsetype = "PARSE_NOTHING" THEN readdata
  ELSE IF Len(readdata) - headpos - HEADLEN >= Len(packetdata)
       THEN SubSeq(readdata, headpos, Len(readdata))
       ELSE <<HEAD>> \o theNexPacket \o packetdata

Stream == INSTANCE FrameStream WITH pending <- Undecided \o data, frame <- packet_cb_

(* However the stream is cut into reads and whatever the buffers' sizes, the *)
(* user's callback gets exactly the frames of the stream: after a broken     *)
(* frame the search resumes one byte behind its HEAD, and no byte is lost or *)
(* looked at twice (recvdata).                                               *)
FindsFrames == Stream!Spec

(* When recvdata returns, it has delivered every frame that has arrived in   *)
(* full: none waits in the buffers for another read.                         *)
NoFrameWaits == pc = "idle" => ~HoldsFrame(Undecided)

(* A frame that comes whole in the first read of a connection is delivered   *)
(* by that call: Start, then recvdata, which calls back "as soon as there is *)
(* enough for a frame" (the usage in the file's comment).                    *)
FirstFrameHeard == pc = "idle" => ~due

(* recvdata returns.                                                         *)
RecvdataReturns == pc # "idle" ~> pc = "idle"
=============================================================================
