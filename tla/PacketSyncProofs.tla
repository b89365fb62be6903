--------------------------- MODULE PacketSyncProofs ---------------------------
(***************************************************************************)
(* The frame parser delivers exactly the frames of the stream, for any     *)
(* frame format of Frames, any reads, any sizes of the buffers: PacketSync *)
(* implements FrameStream.                                                 *)
(*                                                                         *)
(* What is pending in FrameStream is what the buffers hold and recvdata    *)
(* has not looked at (Undecided \o data).  To see that no byte of it is    *)
(* lost or looked at twice, one has to know while a frame is read that     *)
(* readdata still has its HEAD and its header where headpos says, and that *)
(* packetdata begins with the bytes that follow them there (Reading); to   *)
(* see that no frame is left waiting, that the parser returns only when    *)
(* there is too little for one (Settled).                                  *)
(***************************************************************************)
EXTENDS PacketSync, SequenceTheorems, WellFoundedInduction, TLAPS

-----------------------------------------------------------------------------
(* What SelectInSeq finds: the first of several naturals exists.             *)
LEMMA LeastExists ==
  ASSUME NEW I, I \subseteq Nat, I # {}
  PROVE  Min(I) \in I /\ \A i \in I : Min(I) <= i
<1> DEFINE R == OpToRel(<, Nat)
<1>1. \E i \in I : \A j \in I : ~(<<j, i>> \in R)
  <2>1. IsWellFoundedOn(R, Nat)
    BY NatLessThanWellFounded
  <2> HIDE DEF R
  <2> QED
    BY <2>1, WFMin, Zenon
<1>2. PICK i \in I : \A j \in I : ~(<<j, i>> \in R)
  BY <1>1
<1>3. \A j \in I : i <= j
  <2>1. \A j \in Nat : j < i => <<j, i>> \in R
    BY DEF OpToRel
  <2>2. \A j \in I : ~(j < i)
    <3> HIDE DEF R
    <3> QED
      BY <1>2, <2>1, Zenon
  <2> QED
    BY <2>2
<1> QED
  BY <1>2, <1>3 DEF Min

LEMMA FirstHead ==
  ASSUME NEW s \in Seq(Byte)
  PROVE  LET at == SelectInSeq(s, LAMBDA b : b = HEAD)
         IN  \/ at = 0 /\ \A i \in 1 .. Len(s) : s[i] # HEAD
             \/ /\ at \in 1 .. Len(s) /\ s[at] = HEAD
                /\ \A i \in 1 .. at - 1 : s[i] # HEAD
<1>1. PICK I : I = {i \in 1 .. Len(s) : s[i] = HEAD}
  OBVIOUS
<1>2. PICK at : at = IF I # {} THEN Min(I) ELSE 0
  OBVIOUS
<1>3. CASE I = {}
  <2>1. at = 0 /\ \A i \in 1 .. Len(s) : s[i] # HEAD
    BY <1>1, <1>2, <1>3
  <2> QED
    BY <1>1, <1>2, <2>1 DEF SelectInSeq
<1>4. CASE I # {}
  <2>1. I \subseteq Nat
    BY <1>1
  <2>2. at \in I /\ \A i \in I : at <= i
    BY <1>2, <1>4, <2>1, LeastExists
  <2>3. at \in 1 .. Len(s) /\ s[at] = HEAD
    BY <1>1, <2>2
  <2>4. ASSUME NEW i \in 1 .. at - 1, s[i] = HEAD PROVE FALSE
    <3>1. i \in I
      BY <1>1, <2>3, <2>4
    <3>2. at <= i
      BY <2>2, <3>1
    <3> QED
      BY <2>3, <3>2
  <2> QED
    BY <1>1, <1>2, <2>3, <2>4 DEF SelectInSeq
<1> QED
  BY <1>3, <1>4
-----------------------------------------------------------------------------
(* Sequences of bytes are equal when their elements are.                     *)
LEMMA SameBytes ==
  ASSUME NEW s \in Seq(Byte), NEW t \in Seq(Byte),
         Len(s) = Len(t), \A i \in 1 .. Len(s) : s[i] = t[i]
  PROVE  s = t
OBVIOUS

(* The beginning and the end of a sequence.                                  *)
LEMMA Dropped ==
  ASSUME NEW s \in Seq(Byte), NEW n \in 0 .. Len(s)
  PROVE  /\ Drop(s, n) \in Seq(Byte) /\ Len(Drop(s, n)) = Len(s) - n
         /\ \A i \in 1 .. Len(s) - n : Drop(s, n)[i] = s[n + i]
BY DEF Drop

LEMMA Slice ==
  ASSUME NEW s \in Seq(Byte), NEW m \in 1 .. Len(s), NEW n \in m .. Len(s)
  PROVE  /\ SubSeq(s, m, n) \in Seq(Byte) /\ Len(SubSeq(s, m, n)) = n - m + 1
         /\ \A i \in 1 .. n - m + 1 : SubSeq(s, m, n)[i] = s[m + i - 1]
OBVIOUS

LEMMA Joined ==
  ASSUME NEW s \in Seq(Byte), NEW t \in Seq(Byte)
  PROVE  /\ s \o t \in Seq(Byte) /\ Len(s \o t) = Len(s) + Len(t)
         /\ \A i \in 1 .. Len(s) : (s \o t)[i] = s[i]
         /\ \A i \in 1 .. Len(t) : (s \o t)[Len(s) + i] = t[i]
<1>1. /\ s \o t \in Seq(Byte) /\ Len(s \o t) = Len(s) + Len(t)
      /\ \A i \in 1 .. Len(s) : (s \o t)[i] = s[i]
  OBVIOUS
<1>2. ASSUME NEW i \in 1 .. Len(t) PROVE (s \o t)[Len(s) + i] = t[i]
  <2>1. Len(s) + i - Len(s) = i /\ Len(s) + i \in 1 .. Len(s) + Len(t) /\ ~(Len(s) + i <= Len(s))
    OBVIOUS
  <2> QED
    BY <2>1
<1> QED
  BY <1>1, <1>2

LEMMA PartsJoin ==
  ASSUME NEW s \in Seq(Byte), NEW t \in Seq(Byte), NEW n \in 0 .. Len(t)
  PROVE  (s \o SubSeq(t, 1, n)) \o Drop(t, n) = s \o t
<1> DEFINE head == SubSeq(t, 1, n)
<1>1. /\ head \in Seq(Byte) /\ Len(head) = n
      /\ \A i \in 1 .. n : head[i] = t[i]
  OBVIOUS
<1>2. /\ Drop(t, n) \in Seq(Byte) /\ Len(Drop(t, n)) = Len(t) - n
      /\ \A i \in 1 .. Len(t) - n : Drop(t, n)[i] = t[n + i]
  BY Dropped
<1> HIDE DEF head
<1>3. head \o Drop(t, n) = t
  <2>1. /\ head \o Drop(t, n) \in Seq(Byte) /\ Len(head \o Drop(t, n)) = Len(t)
    BY <1>1, <1>2
  <2>2. ASSUME NEW i \in 1 .. Len(t) PROVE (head \o Drop(t, n))[i] = t[i]
    <3>1. CASE i <= n
      BY <1>1, <1>2, <3>1
    <3>2. CASE ~(i <= n)
      <4>1. i - n \in 1 .. Len(t) - n /\ n + (i - n) = i
        BY <3>2
      <4>2. (head \o Drop(t, n))[i] = Drop(t, n)[i - n]
        BY <1>1, <1>2, <3>2
      <4> QED
        BY <1>2, <4>1, <4>2
    <3> QED
      BY <3>1, <3>2
  <2> QED
    BY <2>1, <2>2, SameBytes
<1>4. (s \o head) \o Drop(t, n) = s \o (head \o Drop(t, n))
  BY <1>1, <1>2
<1> QED
  BY <1>3, <1>4 DEF head

(* Dropping less than the first of two sequences.                            *)
LEMMA DropOfConcat ==
  ASSUME NEW s \in Seq(Byte), NEW t \in Seq(Byte), NEW n \in 0 .. Len(s)
  PROVE  Drop(s \o t, n) = Drop(s, n) \o t
<1> DEFINE all == s \o t
           rest == Drop(s, n)
<1>1. /\ all \in Seq(Byte) /\ Len(all) = Len(s) + Len(t)
      /\ \A i \in 1 .. Len(s) + Len(t) : all[i] = IF i <= Len(s) THEN s[i] ELSE t[i - Len(s)]
  OBVIOUS
<1>2. /\ rest \in Seq(Byte) /\ Len(rest) = Len(s) - n
      /\ \A i \in 1 .. Len(s) - n : rest[i] = s[n + i]
  BY Dropped
<1> HIDE DEF all, rest
<1>3. /\ Drop(all, n) \in Seq(Byte) /\ Len(Drop(all, n)) = Len(all) - n
      /\ \A i \in 1 .. Len(all) - n : Drop(all, n)[i] = all[n + i]
  <2>1. n \in 0 .. Len(all)
    BY <1>1
  <2> QED
    BY <1>1, <2>1, Dropped
<1>4. Len(rest \o t) = Len(Drop(all, n)) /\ rest \o t \in Seq(Byte)
  BY <1>1, <1>2, <1>3
<1>5. ASSUME NEW i \in 1 .. Len(rest \o t)
      PROVE  (rest \o t)[i] = Drop(all, n)[i]
  <2>1. i \in 1 .. Len(all) - n /\ Drop(all, n)[i] = all[n + i]
    BY <1>1, <1>2, <1>3, <1>4
  <2>2. CASE i <= Len(s) - n
    BY <1>1, <1>2, <2>1, <2>2
  <2>3. CASE i > Len(s) - n
    <3>1. n + i - Len(s) = i - Len(rest) /\ n + i > Len(s) /\ n + i \in 1 .. Len(s) + Len(t)
      BY <1>1, <1>2, <2>1, <2>3
    <3> QED
      BY <1>1, <1>2, <2>1, <2>3, <3>1
  <2> QED
    BY <2>2, <2>3
<1> QED
  BY <1>3, <1>4, <1>5, SameBytes DEF all, rest

-----------------------------------------------------------------------------
(* s is a frame's HEAD, its header h, c and t.                               *)
Laid(s, h, c, t) ==
  /\ s \in Seq(Byte) /\ Len(s) = HEADLEN + 1 + Len(c) + Len(t)
  /\ s[1] = HEAD
  /\ \A i \in 1 .. HEADLEN : s[i + 1] = h[i]
  /\ \A i \in 1 .. Len(c) : s[HEADLEN + 1 + i] = c[i]
  /\ \A i \in 1 .. Len(t) : s[HEADLEN + 1 + Len(c) + i] = t[i]

LEMMA HeadersAreSeqs ==
  ASSUME NEW h \in Headers
  PROVE  h \in Seq(Byte) /\ Len(h) = HEADLEN
BY FrameAssumption DEF Headers

LEMMA LaidOut ==
  ASSUME NEW h \in Headers, NEW c \in Seq(Byte), NEW t \in Seq(Byte)
  PROVE  Laid((<<HEAD>> \o h) \o c \o t, h, c, t)
<1> DEFINE p == <<HEAD>> \o h
           q == p \o c
           s == q \o t
<1>1. h \in Seq(Byte) /\ Len(h) = HEADLEN /\ HEADLEN \in Nat /\ <<HEAD>> \in Seq(Byte)
  BY HeadersAreSeqs, FrameAssumption
<1>2. /\ p \in Seq(Byte) /\ Len(p) = HEADLEN + 1 /\ p[1] = HEAD
      /\ \A i \in 1 .. HEADLEN : p[i + 1] = h[i]
  BY <1>1
<1> HIDE DEF p
<1>3. /\ q \in Seq(Byte) /\ Len(q) = HEADLEN + 1 + Len(c)
      /\ \A i \in 1 .. HEADLEN + 1 : q[i] = p[i]
      /\ \A i \in 1 .. Len(c) : q[HEADLEN + 1 + i] = c[i]
  <2>1. /\ q \in Seq(Byte) /\ Len(q) = Len(p) + Len(c)
        /\ \A i \in 1 .. Len(p) : q[i] = p[i]
        /\ \A i \in 1 .. Len(c) : q[Len(p) + i] = c[i]
    BY <1>2, Joined
  <2> HIDE DEF q
  <2> QED
    BY <1>2, <2>1
<1> HIDE DEF q
<1>4. /\ s \in Seq(Byte) /\ Len(s) = HEADLEN + 1 + Len(c) + Len(t)
      /\ \A i \in 1 .. HEADLEN + 1 + Len(c) : s[i] = q[i]
      /\ \A i \in 1 .. Len(t) : s[HEADLEN + 1 + Len(c) + i] = t[i]
  <2>1. /\ s \in Seq(Byte) /\ Len(s) = Len(q) + Len(t)
        /\ \A i \in 1 .. Len(q) : s[i] = q[i]
        /\ \A i \in 1 .. Len(t) : s[Len(q) + i] = t[i]
    BY <1>3, Joined
  <2> HIDE DEF s
  <2> QED
    BY <1>3, <2>1
<1> HIDE DEF s
<1>5. s[1] = HEAD /\ \A i \in 1 .. HEADLEN : s[i + 1] = h[i]
  <2>1. \A i \in 1 .. HEADLEN + 1 : s[i] = p[i]
    BY <1>1, <1>3, <1>4
  <2> QED
    BY <1>1, <1>2, <2>1
<1>6. \A i \in 1 .. Len(c) : s[HEADLEN + 1 + i] = c[i]
  BY <1>1, <1>3, <1>4
<1> QED
  BY <1>4, <1>5, <1>6 DEF Laid, s, q, p

(* What Frames says of a sequence whose frame is h and c.                    *)
LEMMA LaidFrame ==
  ASSUME NEW h \in Headers, Legal(h), NEW c \in Seq(Byte), Len(c) = DataLen(h) + 1,
         NEW t \in Seq(Byte), NEW s, Laid(s, h, c, t)
  PROVE  /\ HeaderOf(s) = h /\ Complete(s) /\ FrameLen(s) = HEADLEN + Len(c) + 1
         /\ DataOf(s) = SubSeq(c, 1, DataLen(h)) /\ s[FrameLen(s)] = c[DataLen(h) + 1]
         /\ Drop(s, FrameLen(s)) = t
<1>1. /\ HEADLEN \in Nat \ {0} /\ DataLen(h) \in Nat
      /\ h \in Seq(Byte) /\ Len(h) = HEADLEN
  BY HeadersAreSeqs, FrameAssumption
<1>2. HeaderOf(s) = h
  <2>1. HeaderOf(s) \in Seq(Byte) /\ Len(HeaderOf(s)) = HEADLEN
    BY <1>1 DEF HeaderOf, Laid
  <2>2. \A i \in 1 .. HEADLEN : HeaderOf(s)[i] = h[i]
    BY <1>1 DEF HeaderOf, Laid
  <2> QED
    BY <1>1, <2>1, <2>2, SameBytes
<1>3. FrameLen(s) = HEADLEN + Len(c) + 1
  BY <1>1, <1>2 DEF FrameLen
<1>4. Complete(s)
  BY <1>1, <1>2, <1>3 DEF Complete, Headed, Laid
<1>5. DataOf(s) = SubSeq(c, 1, DataLen(h))
  <2> DEFINE d == SubSeq(c, 1, DataLen(h))
             e == SubSeq(s, HEADLEN + 2, HEADLEN + 1 + DataLen(h))
  <2>1. /\ d \in Seq(Byte) /\ Len(d) = DataLen(h)
        /\ \A i \in 1 .. DataLen(h) : d[i] = c[i]
    BY <1>1
  <2>2. DataOf(s) = e
    BY <1>1, <1>3 DEF DataOf
  <2>3. /\ e \in Seq(Byte) /\ Len(e) = DataLen(h)
        /\ \A i \in 1 .. DataLen(h) : e[i] = s[HEADLEN + 2 + i - 1]
    <3>1. s \in Seq(Byte) /\ Len(s) = HEADLEN + 1 + Len(c) + Len(t)
      BY DEF Laid
    <3>2. HEADLEN + 1 + DataLen(h) <= Len(s) /\ HEADLEN + 2 \in 1 .. Len(s)
      BY <1>1, <3>1
    <3> QED
      BY <1>1, <3>1, <3>2
  <2> HIDE DEF d, e
  <2>4. ASSUME NEW i \in 1 .. DataLen(h) PROVE d[i] = e[i]
    <3>1. HEADLEN + 2 + i - 1 = HEADLEN + 1 + i /\ i \in 1 .. Len(c)
      BY <1>1
    <3> QED
      BY <2>1, <2>3, <3>1 DEF Laid
  <2> QED
    BY <2>1, <2>2, <2>3, <2>4, SameBytes DEF d
<1>6. s[FrameLen(s)] = c[DataLen(h) + 1]
  BY <1>1, <1>3 DEF Laid
<1>7. Drop(s, FrameLen(s)) = t
  <2> DEFINE n == HEADLEN + 1 + Len(c)
  <2>1. n \in 0 .. Len(s) /\ Len(s) - n = Len(t)
    <3>1. s \in Seq(Byte) /\ Len(s) = HEADLEN + 1 + Len(c) + Len(t)
      BY DEF Laid
    <3>2. HEADLEN + 1 + Len(c) \in Nat /\ Len(t) \in Nat
      BY <1>1
    <3>3. n \in Nat /\ Len(s) = n + Len(t)
      BY <3>1, <3>2
    <3> HIDE DEF n
    <3> QED
      BY <3>2, <3>3
  <2>2. /\ Drop(s, n) \in Seq(Byte) /\ Len(Drop(s, n)) = Len(s) - n
        /\ \A i \in 1 .. Len(s) - n : Drop(s, n)[i] = s[n + i]
    BY <2>1, Dropped DEF Laid
  <2>3. \A i \in 1 .. Len(t) : s[n + i] = t[i]
    BY DEF Laid
  <2>4. FrameLen(s) = n
    BY <1>1, <1>3
  <2> HIDE DEF n
  <2>5. Drop(s, n) = t
    BY <2>1, <2>2, <2>3, SameBytes
  <2> QED
    BY <2>4, <2>5
<1> QED
  BY <1>2, <1>3, <1>4, <1>5, <1>6, <1>7

-----------------------------------------------------------------------------
(* The inductive invariant.                                                  *)
Behind == Len(readdata) - headpos - HEADLEN

Phase ==
  /\ pc = "turn" => parsetype = "PARSE_NOTHING"
  /\ pc = "collect" => parsetype = "PARSE_HEAD"
  /\ pc = "idle" => data = <<>>

Reading ==
  parsetype = "PARSE_HEAD" =>
    /\ headpos \in 1 .. Len(readdata) - HEADLEN
    /\ readdata[headpos] = HEAD
    /\ theNexPacket = SubSeq(readdata, headpos + 1, headpos + HEADLEN)
    /\ Legal(theNexPacket)
    /\ Len(packetdata) <= Datalen + 1 /\ Datalen + 1 <= packetlen
    /\ Len(packetdata) >= Behind \/ Len(packetdata) = Datalen + 1
    /\ \A i \in 1 .. Len(packetdata) :
         i <= Behind => packetdata[i] = readdata[headpos + HEADLEN + i]

Settled ==
  pc = "idle" =>
    IF parsetype = "PARSE_NOTHING" THEN Len(readdata) < HEADLEN + 2 ELSE Missing > 0

IInv == TypeOK /\ Phase /\ Reading /\ Settled

Pending == Undecided \o data

(* What a turn begins with.                                                  *)
LEMMA TurnTakes ==
  ASSUME IInv, Turn
  PROVE  /\ parsetype = "PARSE_NOTHING" /\ pc = "turn"
         /\ Filled \in Seq(Byte) /\ Len(Filled) <= readlen
         /\ data' \in Seq(Byte)
         /\ Pending = Filled \o data'
<1>1. /\ readdata \in Seq(Byte) /\ Len(readdata) <= readlen /\ readlen \in Nat
      /\ data \in Seq(Byte) /\ parsetype = "PARSE_NOTHING" /\ pc = "turn"
      /\ data' = Drop(data, Taken)
  BY DEF IInv, TypeOK, Phase, Turn, Drop
<1>2. Taken \in 0 .. Len(data) /\ Len(readdata) + Taken <= readlen
  BY <1>1 DEF Taken, Least
<1>3. SubSeq(data, 1, Taken) \in Seq(Byte) /\ Len(SubSeq(data, 1, Taken)) = Taken
  BY <1>1, <1>2
<1>4. Filled \in Seq(Byte) /\ Len(Filled) = Len(readdata) + Taken
  BY <1>1, <1>3 DEF Filled
<1>5. data' \in Seq(Byte)
  BY <1>1, <1>2, Dropped
<1>6. Filled \o Drop(data, Taken) = readdata \o data
  BY <1>1, <1>2, PartsJoin DEF Filled
<1>7. Undecided = readdata
  BY <1>1 DEF Undecided
<1> QED
  BY <1>1, <1>2, <1>4, <1>5, <1>6, <1>7 DEF Pending

LEMMA HeadAtFirst ==
  ASSUME Filled \in Seq(Byte)
  PROVE  \/ HeadAt = 0 /\ \A i \in 1 .. Len(Filled) : Filled[i] # HEAD
         \/ /\ HeadAt \in 1 .. Len(Filled) /\ Filled[HeadAt] = HEAD
            /\ \A i \in 1 .. HeadAt - 1 : Filled[i] # HEAD
BY FirstHead, Zenon DEF HeadAt

LEMMA HeaderThere ==
  ASSUME NEW s \in Seq(Byte), NEW at \in 1 .. Len(s) - HEADLEN
  PROVE  /\ SubSeq(s, at + 1, at + HEADLEN) \in Headers
         /\ \A i \in 1 .. HEADLEN : SubSeq(s, at + 1, at + HEADLEN)[i] = s[at + i]
<1> DEFINE h == SubSeq(s, at + 1, at + HEADLEN)
<1>1. HEADLEN \in Nat \ {0}
  BY FrameAssumption
<1>2. /\ h \in Seq(Byte) /\ Len(h) = HEADLEN
      /\ \A i \in 1 .. HEADLEN : h[i] = s[at + 1 + i - 1]
  <2> DEFINE m == at + 1
             n == at + HEADLEN
  <2>1. m \in 1 .. Len(s) /\ n \in m .. Len(s) /\ n - m + 1 = HEADLEN
    BY <1>1
  <2> HIDE DEF m, n
  <2>2. /\ SubSeq(s, m, n) \in Seq(Byte) /\ Len(SubSeq(s, m, n)) = HEADLEN
        /\ \A i \in 1 .. HEADLEN : SubSeq(s, m, n)[i] = s[m + i - 1]
    BY <2>1, Slice
  <2> QED
    BY <2>2 DEF m, n
<1> HIDE DEF h
<1>3. h \in [1 .. HEADLEN -> Byte]
  BY <1>1, <1>2, LenProperties
<1>4. ASSUME NEW i \in 1 .. HEADLEN PROVE h[i] = s[at + i]
  <2>1. at + 1 + i - 1 = at + i
    BY <1>1
  <2> QED
    BY <1>2, <2>1
<1> QED
  BY <1>3, <1>4 DEF Headers, h

-----------------------------------------------------------------------------
(* FrameStream's copies of the operators of Frames.                          *)
LEMMA SameFrames ==
  ASSUME NEW s
  PROVE  /\ Stream!Hopeless(s) <=> Hopeless(s)
         /\ Stream!Good(s) <=> Good(s)
         /\ Stream!HeaderOf(s) = HeaderOf(s)
         /\ Stream!DataOf(s) = DataOf(s)
         /\ Stream!FrameLen(s) = FrameLen(s)
         /\ \A n : Stream!Drop(s, n) = Drop(s, n)
<1>1. Stream!HeaderOf(s) = HeaderOf(s) /\ \A n : Stream!Drop(s, n) = Drop(s, n)
  BY DEF Stream!HeaderOf, HeaderOf, Stream!Drop, Drop
<1>2. Stream!FrameLen(s) = FrameLen(s)
  BY <1>1 DEF Stream!FrameLen, FrameLen
<1>3. Stream!DataOf(s) = DataOf(s)
  BY <1>2 DEF Stream!DataOf, DataOf
<1>4. Stream!Headed(s) <=> Headed(s)
  BY DEF Stream!Headed, Headed
<1>5. Stream!Complete(s) <=> Complete(s)
  BY <1>1, <1>2, <1>4 DEF Stream!Complete, Complete
<1>6. Stream!WellFormed(s) <=> WellFormed(s)
  BY <1>1, <1>2, <1>3 DEF Stream!WellFormed, WellFormed
<1>7. Stream!Hopeless(s) <=> Hopeless(s)
  BY <1>1, <1>4, <1>5, <1>6 DEF Stream!Hopeless, Hopeless
<1>8. Stream!Good(s) <=> Good(s)
  BY <1>5, <1>6 DEF Stream!Good, Good
<1> QED
  BY <1>1, <1>2, <1>3, <1>7, <1>8

(* A step that skips what cannot begin a frame.                              *)
LEMMA Skips ==
  ASSUME NEW n \in 0 .. Len(Pending), \A k \in 0 .. n - 1 : Hopeless(Drop(Pending, k)),
         Pending' = Drop(Pending, n), packet_cb_' = NoFrame
  PROVE  Stream!Next
<1>1. \A k \in 0 .. n - 1 : Stream!Hopeless(Stream!Drop(Undecided \o data, k))
  BY SameFrames DEF Pending
<1>2. /\ (Undecided \o data)' = Stream!Drop(Undecided \o data, n)
      /\ packet_cb_' = Stream!NoFrame
  BY SameFrames DEF Pending, NoFrame, Stream!NoFrame
<1>3. Stream!Skip(n)
  BY <1>1, <1>2 DEF Stream!Skip
<1> QED
  BY <1>3 DEF Stream!Next, Pending

(* A byte that is not HEAD begins no frame.                                  *)
LEMMA NotHead ==
  ASSUME NEW s \in Seq(Byte), NEW t \in Seq(Byte), NEW n \in 0 .. Len(s),
         \A i \in 1 .. n : s[i] # HEAD
  PROVE  \A k \in 0 .. n - 1 : Hopeless(Drop(s \o t, k))
<1> TAKE k \in 0 .. n - 1
<1>1. s \o t \in Seq(Byte) /\ Len(s \o t) = Len(s) + Len(t) /\ (s \o t)[k + 1] = s[k + 1]
  OBVIOUS
<1>2. k \in 0 .. Len(s \o t) /\ 1 \in 1 .. Len(s \o t) - k
  BY <1>1
<1> DEFINE a == s \o t
           d == Drop(a, k)
<1> HIDE DEF a
<1>3. d \in Seq(Byte) /\ Len(d) > 0 /\ d[1] = s[k + 1]
  <2>1. /\ d \in Seq(Byte) /\ Len(d) = Len(a) - k
        /\ \A i \in 1 .. Len(a) - k : d[i] = a[k + i]
    BY <1>1, <1>2, Dropped DEF a
  <2> QED
    BY <1>1, <1>2, <2>1 DEF a
<1>4. s[k + 1] # HEAD
  OBVIOUS
<1> HIDE DEF d
<1>5. Hopeless(d)
  BY <1>3, <1>4 DEF Hopeless
<1> QED
  BY <1>5 DEF d, a

(* A turn that goes on behind the first n bytes it has.                      *)
LEMMA TurnDrops ==
  ASSUME IInv, Turn, NEW n \in 0 .. Len(Filled), Undecided' = Drop(Filled, n)
  PROVE  n \in 0 .. Len(Pending) /\ Pending' = Drop(Pending, n)
<1>1. Filled \in Seq(Byte) /\ data' \in Seq(Byte) /\ Pending = Filled \o data'
  BY TurnTakes
<1>2. Pending' = Drop(Filled, n) \o data'
  BY DEF Pending
<1>3. Drop(Filled \o data', n) = Drop(Filled, n) \o data'
  BY <1>1, DropOfConcat
<1>4. Len(Filled \o data') = Len(Filled) + Len(data') /\ Len(data') \in Nat
  BY <1>1
<1> QED
  BY <1>1, <1>2, <1>3, <1>4

LEMMA NoHeadSkips ==
  ASSUME IInv, NoHead
  PROVE  Stream!Next
<1> DEFINE n == Len(Filled)
<1>1. /\ Turn /\ HeadAt = 0 /\ readdata' = <<>> /\ parsetype' = parsetype
      /\ packet_cb_' = NoFrame
  BY DEF NoHead, Turn, headVars
<1>2. /\ Filled \in Seq(Byte) /\ data' \in Seq(Byte) /\ Pending = Filled \o data'
      /\ parsetype = "PARSE_NOTHING" /\ n \in 0 .. Len(Filled)
  BY <1>1, TurnTakes
<1>3. Drop(Filled, n) = <<>>
  BY <1>2 DEF Drop
<1>4. Undecided' = Drop(Filled, n)
  BY <1>1, <1>2, <1>3 DEF Undecided
<1>5. n \in 0 .. Len(Pending) /\ Pending' = Drop(Pending, n)
  BY <1>1, <1>2, <1>4, TurnDrops
<1>6. \A i \in 1 .. n : Filled[i] # HEAD
  BY <1>1, <1>2, HeadAtFirst
<1>7. \A k \in 0 .. n - 1 : Hopeless(Drop(Pending, k))
  BY <1>2, <1>6, NotHead
<1> QED
  BY <1>1, <1>5, <1>7, Skips

(* What a turn finds that finds HEAD.                                        *)
LEMMA HeadFound ==
  ASSUME IInv, Turn, HeadAt # 0
  PROVE  /\ HeadAt \in 1 .. Len(Filled) /\ HeadAt - 1 \in 0 .. Len(Filled)
         /\ SubSeq(Filled, HeadAt, Len(Filled)) = Drop(Filled, HeadAt - 1)
         /\ \A k \in 0 .. HeadAt - 2 : Hopeless(Drop(Pending, k))
<1>1. Filled \in Seq(Byte) /\ data' \in Seq(Byte) /\ Pending = Filled \o data'
  BY TurnTakes
<1>2. /\ HeadAt \in 1 .. Len(Filled) /\ HeadAt - 1 \in 0 .. Len(Filled)
      /\ \A i \in 1 .. HeadAt - 1 : Filled[i] # HEAD
  BY <1>1, HeadAtFirst
<1>3. SubSeq(Filled, HeadAt, Len(Filled)) = Drop(Filled, HeadAt - 1)
  <2>1. HeadAt - 1 + 1 = HeadAt
    BY <1>2
  <2> QED
    BY <2>1 DEF Drop
<1>4. \A k \in 0 .. (HeadAt - 1) - 1 : Hopeless(Drop(Pending, k))
  BY <1>1, <1>2, NotHead
<1>5. (HeadAt - 1) - 1 = HeadAt - 2
  BY <1>2
<1> QED
  BY <1>2, <1>3, <1>4, <1>5

LEMMA ShortHeaderSkips ==
  ASSUME IInv, ShortHeader
  PROVE  Stream!Next
<1> DEFINE n == HeadAt - 1
<1>1. /\ Turn /\ HeadAt # 0 /\ readdata' = SubSeq(Filled, HeadAt, Len(Filled))
      /\ parsetype' = parsetype /\ packet_cb_' = NoFrame
  BY DEF ShortHeader, Turn, headVars
<1>2. parsetype = "PARSE_NOTHING"
  BY <1>1, TurnTakes
<1>3. /\ n \in 0 .. Len(Filled) /\ readdata' = Drop(Filled, n)
      /\ \A k \in 0 .. n - 1 : Hopeless(Drop(Pending, k))
  <2>1. n - 1 = HeadAt - 2 /\ n \in 0 .. Len(Filled)
    BY <1>1, HeadFound
  <2> QED
    BY <1>1, <2>1, HeadFound
<1>4. Undecided' = Drop(Filled, n)
  BY <1>1, <1>2, <1>3 DEF Undecided
<1>5. n \in 0 .. Len(Pending) /\ Pending' = Drop(Pending, n)
  BY <1>1, <1>3, <1>4, TurnDrops
<1> QED
  BY <1>1, <1>3, <1>5, Skips

(* The HEAD found begins no frame if its header is illegal.                  *)
LEMMA IllegalIsHopeless ==
  ASSUME IInv, Turn, HeadAt # 0, Len(Filled) - HeadAt >= HEADLEN, ~Legal(HeaderAt)
  PROVE  Hopeless(Drop(Pending, HeadAt - 1))
<1>1. Filled \in Seq(Byte) /\ data' \in Seq(Byte) /\ Pending = Filled \o data'
  BY TurnTakes
<1>2. HeadAt \in 1 .. Len(Filled) /\ Filled[HeadAt] = HEAD
  BY <1>1, HeadAtFirst
<1>3. HEADLEN \in Nat \ {0} /\ HeadAt \in 1 .. Len(Filled) - HEADLEN
  BY <1>1, <1>2, FrameAssumption
<1>4. /\ HeaderAt \in Headers
      /\ \A i \in 1 .. HEADLEN : HeaderAt[i] = Filled[HeadAt + i]
  BY <1>1, <1>3, HeaderThere DEF HeaderAt
<1> DEFINE n == HeadAt - 1
           d == Drop(Pending, n)
<1>5. /\ Pending \in Seq(Byte) /\ Len(Pending) = Len(Filled) + Len(data')
      /\ Len(data') \in Nat /\ \A i \in 1 .. Len(Filled) : Pending[i] = Filled[i]
  BY <1>1, Joined
<1>6. /\ d \in Seq(Byte) /\ Len(d) = Len(Pending) - n
      /\ \A i \in 1 .. Len(Pending) - n : d[i] = Pending[n + i]
  <2>1. n \in 0 .. Len(Pending)
    BY <1>1, <1>2, <1>5
  <2> HIDE DEF n
  <2> QED
    BY <1>5, <2>1, Dropped
<1> HIDE DEF d
<1>7. Len(d) >= HEADLEN + 1 /\ \A i \in 1 .. HEADLEN + 1 : d[i] = Filled[n + i]
  BY <1>1, <1>3, <1>5, <1>6
<1>8. d[1] = HEAD
  BY <1>2, <1>3, <1>7
<1>9. HeaderOf(d) = HeaderAt
  <2>1. 1 \in 1 .. Len(d) - HEADLEN /\ 1 + 1 = 2 /\ 1 + HEADLEN = HEADLEN + 1
    BY <1>3, <1>6, <1>7
  <2>2. /\ SubSeq(d, 1 + 1, 1 + HEADLEN) \in Headers
        /\ \A i \in 1 .. HEADLEN : SubSeq(d, 1 + 1, 1 + HEADLEN)[i] = d[1 + i]
    BY <1>6, <2>1, HeaderThere
  <2>3. HeaderOf(d) = SubSeq(d, 1 + 1, 1 + HEADLEN)
    BY <2>1 DEF HeaderOf
  <2>4. ASSUME NEW i \in 1 .. HEADLEN PROVE HeaderOf(d)[i] = HeaderAt[i]
    <3>1. n + (1 + i) = HeadAt + i /\ 1 + i \in 1 .. HEADLEN + 1
      BY <1>2, <1>3
    <3> QED
      BY <1>4, <1>7, <2>2, <2>3, <3>1
  <2>5. /\ HeaderOf(d) \in Seq(Byte) /\ Len(HeaderOf(d)) = HEADLEN
        /\ HeaderAt \in Seq(Byte) /\ Len(HeaderAt) = HEADLEN
    BY <1>4, <2>2, <2>3, HeadersAreSeqs
  <2> QED
    BY <2>4, <2>5, SameBytes
<1> QED
  BY <1>3, <1>6, <1>7, <1>8, <1>9 DEF Hopeless, Headed, d

LEMMA IllegalHeaderSkips ==
  ASSUME IInv, IllegalHeader
  PROVE  Stream!Next
<1>1. /\ Turn /\ HeadAt # 0 /\ Len(Filled) - HeadAt >= HEADLEN /\ ~Legal(HeaderAt)
      /\ readdata' = Drop(Filled, HeadAt) /\ parsetype' = parsetype /\ packet_cb_' = NoFrame
  BY DEF IllegalHeader, Turn, headVars, Drop
<1>2. parsetype = "PARSE_NOTHING" /\ Len(Filled) \in Nat
  BY <1>1, TurnTakes
<1>3. Undecided' = Drop(Filled, HeadAt)
  BY <1>1, <1>2 DEF Undecided
<1>4. HeadAt \in 0 .. Len(Filled) /\ HeadAt \in 1 .. Len(Filled)
  BY <1>1, <1>2, HeadFound
<1>5. HeadAt \in 0 .. Len(Pending) /\ Pending' = Drop(Pending, HeadAt)
  BY <1>1, <1>3, <1>4, TurnDrops
<1>6. ASSUME NEW k \in 0 .. HeadAt - 1 PROVE Hopeless(Drop(Pending, k))
  <2>1. CASE k = HeadAt - 1
    BY <1>1, <2>1, IllegalIsHopeless
  <2>2. CASE k # HeadAt - 1
    <3>1. k \in 0 .. HeadAt - 2
      BY <1>4, <2>2
    <3> QED
      BY <1>1, <3>1, HeadFound
  <2> QED
    BY <2>1, <2>2
<1> QED
  BY <1>1, <1>5, <1>6, Skips

LEMMA HeaderFoundSkips ==
  ASSUME IInv, HeaderFound
  PROVE  Stream!Next
<1> DEFINE n == HeadAt - 1
           d == DataLen(HeaderAt)
<1>1. /\ Turn /\ HeadAt # 0 /\ Len(Filled) - HeadAt >= HEADLEN /\ Legal(HeaderAt)
      /\ readdata' = Filled /\ parsetype' = "PARSE_HEAD" /\ headpos' = HeadAt
      /\ packetdata' = SubSeq(Filled, HeadAt + HEADLEN + 1,
                              Least(Len(Filled), HeadAt + HEADLEN + d + 1))
      /\ packet_cb_' = NoFrame
  BY DEF HeaderFound, Turn
<1>2. /\ n \in 0 .. Len(Filled) /\ SubSeq(Filled, HeadAt, Len(Filled)) = Drop(Filled, n)
      /\ \A k \in 0 .. n - 1 : Hopeless(Drop(Pending, k))
      /\ HeadAt \in 1 .. Len(Filled)
  <2>1. n - 1 = HeadAt - 2 /\ n \in 0 .. Len(Filled)
    BY <1>1, HeadFound
  <2> QED
    BY <1>1, <2>1, HeadFound
<1>3. Filled \in Seq(Byte) /\ HEADLEN \in Nat /\ HeadAt \in 1 .. Len(Filled) - HEADLEN
  BY <1>1, <1>2, TurnTakes, FrameAssumption
<1>4. d \in Nat
  BY <1>1, <1>3, HeaderThere, FrameAssumption DEF HeaderAt
<1>5. Len(packetdata') <= Len(Filled) - HeadAt - HEADLEN
  <2> DEFINE e == Least(Len(Filled), HeadAt + HEADLEN + d + 1)
  <2> HIDE DEF d
  <2>1. e \in HeadAt + HEADLEN .. Len(Filled)
    BY <1>3, <1>4 DEF Least
  <2> HIDE DEF e
  <2>2. Len(SubSeq(Filled, HeadAt + HEADLEN + 1, e)) = e - (HeadAt + HEADLEN)
    BY <1>3, <2>1
  <2> QED
    BY <1>1, <1>3, <2>1, <2>2 DEF e, d
<1>6. Undecided' = Drop(Filled, n)
  BY <1>1, <1>2, <1>5 DEF Undecided
<1>7. n \in 0 .. Len(Pending) /\ Pending' = Drop(Pending, n)
  BY <1>1, <1>2, <1>6, TurnDrops
<1> QED
  BY <1>1, <1>2, <1>7, Skips

-----------------------------------------------------------------------------
(* What is known while a frame is read.                                      *)
LEMMA InFrame ==
  ASSUME IInv, parsetype = "PARSE_HEAD"
  PROVE  /\ readdata \in Seq(Byte) /\ packetdata \in Seq(Byte) /\ data \in Seq(Byte)
         /\ HEADLEN \in Nat \ {0} /\ headpos \in 1 .. Len(readdata) - HEADLEN
         /\ readdata[headpos] = HEAD
         /\ theNexPacket \in Headers /\ Legal(theNexPacket) /\ Datalen \in Nat
         /\ \A i \in 1 .. HEADLEN : theNexPacket[i] = readdata[headpos + i]
         /\ Behind \in Nat /\ Len(readdata) = headpos + HEADLEN + Behind
<1>1. /\ readdata \in Seq(Byte) /\ packetdata \in Seq(Byte) /\ data \in Seq(Byte)
      /\ headpos \in 1 .. Len(readdata) - HEADLEN /\ readdata[headpos] = HEAD
      /\ theNexPacket = SubSeq(readdata, headpos + 1, headpos + HEADLEN)
      /\ Legal(theNexPacket)
  BY DEF IInv, TypeOK, Reading
<1>2. HEADLEN \in Nat \ {0}
  BY FrameAssumption
<1>3. /\ theNexPacket \in Headers
      /\ \A i \in 1 .. HEADLEN : theNexPacket[i] = readdata[headpos + i]
  BY <1>1, HeaderThere
<1>4. Datalen \in Nat
  BY <1>1, <1>3, FrameAssumption DEF Datalen
<1>5. Behind \in Nat /\ Len(readdata) = headpos + HEADLEN + Behind
  BY <1>1, <1>2 DEF Behind
<1> QED
  BY <1>1, <1>2, <1>3, <1>4, <1>5

(* readdata from HEAD on, when it has the whole frame or no more than        *)
(* packetdata.                                                               *)
LEMMA LaidInReaddata ==
  ASSUME IInv, parsetype = "PARSE_HEAD", Len(packetdata) <= Behind
  PROVE  Laid(Drop(readdata, headpos - 1), theNexPacket, packetdata,
              Drop(readdata, headpos + HEADLEN + Len(packetdata)))
<1> DEFINE u == Drop(readdata, headpos - 1)
           m == headpos + HEADLEN + Len(packetdata)
           t == Drop(readdata, m)
<1>1. /\ readdata \in Seq(Byte) /\ packetdata \in Seq(Byte)
      /\ HEADLEN \in Nat \ {0} /\ headpos \in 1 .. Len(readdata) - HEADLEN
      /\ readdata[headpos] = HEAD
      /\ \A i \in 1 .. HEADLEN : theNexPacket[i] = readdata[headpos + i]
      /\ Behind \in Nat /\ Len(readdata) = headpos + HEADLEN + Behind
  BY InFrame
<1>2. \A i \in 1 .. Len(packetdata) : packetdata[i] = readdata[headpos + HEADLEN + i]
  BY <1>1 DEF IInv, Reading
<1>3. Len(packetdata) \in Nat
  BY <1>1
<1>4. headpos - 1 \in 0 .. Len(readdata) /\ m \in 0 .. Len(readdata)
  BY <1>1, <1>3
<1>5. /\ u \in Seq(Byte) /\ Len(u) = Len(readdata) - (headpos - 1)
      /\ \A i \in 1 .. Len(readdata) - (headpos - 1) : u[i] = readdata[headpos - 1 + i]
  BY <1>1, <1>4, Dropped
<1> HIDE DEF u, m
<1>6. /\ t \in Seq(Byte) /\ Len(t) = Len(readdata) - m
      /\ \A i \in 1 .. Len(readdata) - m : t[i] = readdata[m + i]
  BY <1>1, <1>4, Dropped
<1> HIDE DEF t
<1>7. Len(u) = HEADLEN + 1 + Len(packetdata) + Len(t)
  BY <1>1, <1>3, <1>5, <1>6 DEF m
<1>8. u[1] = HEAD
  <2>1. headpos - 1 + 1 = headpos /\ 1 \in 1 .. Len(readdata) - (headpos - 1)
    BY <1>1
  <2> QED
    BY <1>1, <1>5, <2>1
<1>9. ASSUME NEW i \in 1 .. HEADLEN PROVE u[i + 1] = theNexPacket[i]
  <2>1. headpos - 1 + (i + 1) = headpos + i /\ i + 1 \in 1 .. Len(readdata) - (headpos - 1)
    BY <1>1
  <2> QED
    BY <1>1, <1>5, <2>1
<1>10. ASSUME NEW i \in 1 .. Len(packetdata) PROVE u[HEADLEN + 1 + i] = packetdata[i]
  <2>1. /\ headpos - 1 + (HEADLEN + 1 + i) = headpos + HEADLEN + i
        /\ HEADLEN + 1 + i \in 1 .. Len(readdata) - (headpos - 1)
    BY <1>1, <1>3
  <2>2. u[HEADLEN + 1 + i] = readdata[headpos - 1 + (HEADLEN + 1 + i)]
    BY <1>5, <2>1, Zenon
  <2>3. packetdata[i] = readdata[headpos + HEADLEN + i]
    BY <1>2
  <2> QED
    BY <2>1, <2>2, <2>3, Zenon
<1>11. ASSUME NEW i \in 1 .. Len(t) PROVE u[HEADLEN + 1 + Len(packetdata) + i] = t[i]
  <2>1. /\ headpos - 1 + (HEADLEN + 1 + Len(packetdata) + i) = m + i
        /\ HEADLEN + 1 + Len(packetdata) + i \in 1 .. Len(readdata) - (headpos - 1)
    BY <1>1, <1>3, <1>5, <1>6, <1>7 DEF m
  <2> QED
    BY <1>5, <1>6, <2>1
<1> QED
  BY <1>5, <1>7, <1>8, <1>9, <1>10, <1>11 DEF Laid, u, t, m

(* Only one sequence is laid out like that, and more may follow it.          *)
LEMMA LaidIs ==
  ASSUME NEW h \in Headers, NEW c \in Seq(Byte), NEW t \in Seq(Byte), NEW s, Laid(s, h, c, t)
  PROVE  s = (<<HEAD>> \o h) \o c \o t
<1> DEFINE r == (<<HEAD>> \o h) \o c \o t
<1>1. Laid(r, h, c, t)
  BY LaidOut
<1> HIDE DEF r
<1>2. /\ HEADLEN \in Nat /\ Len(c) \in Nat /\ Len(t) \in Nat
      /\ s \in Seq(Byte) /\ Len(s) = HEADLEN + 1 + Len(c) + Len(t)
      /\ r \in Seq(Byte) /\ Len(r) = HEADLEN + 1 + Len(c) + Len(t)
  BY <1>1, FrameAssumption DEF Laid
<1>3. ASSUME NEW i \in 1 .. HEADLEN + 1 + Len(c) + Len(t) PROVE s[i] = r[i]
  <2>1. CASE i = 1
    BY <1>1, <2>1 DEF Laid
  <2>2. CASE i \in 2 .. HEADLEN + 1
    <3>1. i - 1 \in 1 .. HEADLEN /\ i - 1 + 1 = i
      BY <1>2, <2>2
    <3>2. s[(i - 1) + 1] = h[i - 1] /\ r[(i - 1) + 1] = h[i - 1]
      BY <1>1, <3>1 DEF Laid
    <3> QED
      BY <3>1, <3>2
  <2>3. CASE i \in HEADLEN + 2 .. HEADLEN + 1 + Len(c)
    <3>1. i - HEADLEN - 1 \in 1 .. Len(c) /\ HEADLEN + 1 + (i - HEADLEN - 1) = i
      BY <1>2, <2>3
    <3>2. /\ s[HEADLEN + 1 + (i - HEADLEN - 1)] = c[i - HEADLEN - 1]
          /\ r[HEADLEN + 1 + (i - HEADLEN - 1)] = c[i - HEADLEN - 1]
      BY <1>1, <3>1 DEF Laid
    <3> QED
      BY <3>1, <3>2
  <2>4. CASE i > HEADLEN + 1 + Len(c)
    <3> DEFINE k == i - HEADLEN - 1 - Len(c)
    <3>1. k \in 1 .. Len(t) /\ HEADLEN + 1 + Len(c) + k = i
      BY <1>2, <2>4
    <3>2. /\ s[HEADLEN + 1 + Len(c) + k] = t[k]
          /\ r[HEADLEN + 1 + Len(c) + k] = t[k]
      BY <1>1, <3>1 DEF Laid
    <3> QED
      BY <3>1, <3>2
  <2> QED
    BY <1>2, <2>1, <2>2, <2>3, <2>4
<1>4. s = r
  BY <1>2, <1>3, SameBytes
<1> QED
  BY <1>4 DEF r

(* The bytes of the frame, if packetdata has all that is there of it.        *)
LEMMA WholeUndecided ==
  ASSUME IInv, parsetype = "PARSE_HEAD", Len(packetdata) >= Behind
  PROVE  Undecided = (<<HEAD>> \o theNexPacket) \o packetdata
<1>1. /\ readdata \in Seq(Byte) /\ packetdata \in Seq(Byte) /\ Len(packetdata) \in Nat
      /\ HEADLEN \in Nat \ {0} /\ headpos \in 1 .. Len(readdata) - HEADLEN
      /\ theNexPacket \in Headers
      /\ Behind \in Nat /\ Len(readdata) = headpos + HEADLEN + Behind
  BY InFrame
<1>2. CASE Len(packetdata) > Behind
  BY <1>1, <1>2 DEF Undecided, Behind
<1>3. CASE Len(packetdata) = Behind
  <2>1. Undecided = Drop(readdata, headpos - 1)
    <3>1. headpos - 1 + 1 = headpos
      BY <1>1
    <3> QED
      BY <1>1, <1>3, <3>1 DEF Undecided, Behind, Drop
  <2>2. Drop(readdata, headpos + HEADLEN + Len(packetdata)) = <<>>
    BY <1>1, <1>3 DEF Drop
  <2>3. Laid(Undecided, theNexPacket, packetdata, <<>>)
    <3>1. Len(packetdata) <= Behind
      BY <1>1, <1>3
    <3> QED
      BY <2>1, <2>2, <3>1, LaidInReaddata
  <2>4. Undecided = (<<HEAD>> \o theNexPacket) \o packetdata \o <<>>
    <3>1. <<>> \in Seq(Byte)
      OBVIOUS
    <3> QED
      BY <1>1, <2>3, <3>1, LaidIs
  <2>5. (<<HEAD>> \o theNexPacket) \o packetdata \in Seq(Byte)
    BY <1>1, HeadersAreSeqs, FrameAssumption
  <2> QED
    BY <2>4, <2>5
<1> QED
  BY <1>1, <1>2, <1>3

-----------------------------------------------------------------------------
(* All of a frame has been seen: what follows it in readdata, and what is    *)
(* to be looked at again if it is broken.                                    *)
Rest == IF InReaddata THEN SubSeq(readdata, FrameEnd + 1, Len(readdata)) ELSE <<>>
Again == IF InReaddata THEN SubSeq(readdata, headpos + 1, Len(readdata))
                       ELSE theNexPacket \o Collected

LEMMA SeenInReaddata ==
  ASSUME IInv, FrameSeen, InReaddata
  PROVE  /\ Collected = packetdata /\ Len(packetdata) = Datalen + 1 /\ data' = data
         /\ Rest \in Seq(Byte)
         /\ Pending = (<<HEAD>> \o theNexPacket) \o Collected \o (Rest \o data')
         /\ Drop(Pending, 1) = Again \o data'
<1>0. parsetype = "PARSE_HEAD"
  BY DEF IInv, Phase, FrameSeen
<1>1. /\ readdata \in Seq(Byte) /\ packetdata \in Seq(Byte) /\ data \in Seq(Byte)
      /\ HEADLEN \in Nat \ {0} /\ headpos \in 1 .. Len(readdata) - HEADLEN
      /\ theNexPacket \in Headers /\ Datalen \in Nat
      /\ Behind \in Nat /\ Len(readdata) = headpos + HEADLEN + Behind
  BY <1>0, InFrame
<1>2. Len(packetdata) = Datalen + 1 /\ Behind >= Datalen + 1
  <2>1. Behind >= Datalen + 1
    BY <1>1 DEF InReaddata, FrameEnd
  <2>2. /\ Len(packetdata) <= Datalen + 1
        /\ Len(packetdata) >= Behind \/ Len(packetdata) = Datalen + 1
    BY <1>0 DEF IInv, Reading
  <2> QED
    BY <1>1, <2>1, <2>2
<1>3. Missing = 0
  BY <1>1, <1>2 DEF Missing
<1>4. Collected = packetdata /\ data' = data
  BY <1>1, <1>3 DEF Collected, FrameSeen
<1>5. Undecided = Drop(readdata, headpos - 1)
  <2>1. headpos - 1 + 1 = headpos /\ Len(readdata) - headpos - HEADLEN >= Len(packetdata)
    BY <1>1, <1>2
  <2> QED
    BY <1>0, <2>1 DEF Undecided, Drop
<1>6. /\ Rest = Drop(readdata, headpos + HEADLEN + Len(packetdata))
      /\ headpos + HEADLEN + Len(packetdata) \in 0 .. Len(readdata)
  <2>1. FrameEnd = headpos + HEADLEN + Len(packetdata)
    BY <1>1, <1>2 DEF FrameEnd
  <2> QED
    BY <1>1, <1>2, <2>1 DEF Rest, Drop
<1>7. Rest \in Seq(Byte)
  BY <1>1, <1>6, Dropped
<1>8. Laid(Undecided, theNexPacket, Collected, Rest)
  BY <1>0, <1>1, <1>2, <1>4, <1>5, <1>6, LaidInReaddata
<1>9. Undecided = (<<HEAD>> \o theNexPacket) \o Collected \o Rest
  BY <1>1, <1>4, <1>7, <1>8, LaidIs
<1>10. Pending = (<<HEAD>> \o theNexPacket) \o Collected \o (Rest \o data')
  <2> DEFINE f == (<<HEAD>> \o theNexPacket) \o Collected
  <2>1. f \in Seq(Byte)
    BY <1>1, <1>4, HeadersAreSeqs, FrameAssumption
  <2>2. Undecided = f \o Rest
    BY <1>9
  <2> HIDE DEF f
  <2>3. (f \o Rest) \o data = f \o (Rest \o data)
    BY <1>1, <1>7, <2>1
  <2>4. Pending = f \o (Rest \o data')
    BY <1>4, <2>2, <2>3 DEF Pending
  <2> QED
    BY <2>4 DEF f
<1>11. Drop(Pending, 1) = Again \o data'
  <2> DEFINE u == Drop(readdata, headpos - 1)
  <2>1. headpos - 1 \in 0 .. Len(readdata) /\ headpos \in 0 .. Len(readdata)
    BY <1>1
  <2>2. /\ u \in Seq(Byte) /\ Len(u) = Len(readdata) - (headpos - 1)
        /\ \A i \in 1 .. Len(readdata) - (headpos - 1) : u[i] = readdata[headpos - 1 + i]
    BY <1>1, <2>1, Dropped
  <2>3. /\ Drop(readdata, headpos) \in Seq(Byte)
        /\ Len(Drop(readdata, headpos)) = Len(readdata) - headpos
        /\ \A i \in 1 .. Len(readdata) - headpos :
             Drop(readdata, headpos)[i] = readdata[headpos + i]
    BY <1>1, <2>1, Dropped
  <2> HIDE DEF u
  <2>4. 1 \in 0 .. Len(u)
    BY <1>1, <2>2
  <2>5. /\ Drop(u, 1) \in Seq(Byte) /\ Len(Drop(u, 1)) = Len(u) - 1
        /\ \A i \in 1 .. Len(u) - 1 : Drop(u, 1)[i] = u[1 + i]
    BY <2>2, <2>4, Dropped
  <2>6. ASSUME NEW i \in 1 .. Len(readdata) - headpos
        PROVE  Drop(u, 1)[i] = Drop(readdata, headpos)[i]
    <3>1. /\ headpos - 1 + (1 + i) = headpos + i /\ i \in 1 .. Len(u) - 1
          /\ 1 + i \in 1 .. Len(readdata) - (headpos - 1)
      BY <1>1, <2>2
    <3> QED
      BY <2>2, <2>3, <2>5, <3>1
  <2>7. Drop(u, 1) = Drop(readdata, headpos)
    <3>1. Len(Drop(u, 1)) = Len(readdata) - headpos
      <4>1. Len(readdata) - (headpos - 1) - 1 = Len(readdata) - headpos
        BY <1>1
      <4> QED
        BY <2>2, <2>5, <4>1
    <3> QED
      BY <2>3, <2>5, <2>6, <3>1, SameBytes
  <2>8. Drop(u \o data, 1) = Drop(u, 1) \o data
    BY <1>1, <2>2, <2>4, DropOfConcat
  <2> QED
    BY <1>4, <1>5, <2>7, <2>8 DEF Pending, Again, Drop, u
<1> QED
  BY <1>2, <1>4, <1>7, <1>10, <1>11 DEF Pending

LEMMA SeenInData ==
  ASSUME IInv, FrameSeen, ~InReaddata
  PROVE  /\ Collected \in Seq(Byte) /\ Len(Collected) = Datalen + 1
         /\ data' \in Seq(Byte) /\ Rest = <<>>
         /\ Pending = (<<HEAD>> \o theNexPacket) \o Collected \o (Rest \o data')
         /\ Drop(Pending, 1) = Again \o data'
<1>0. parsetype = "PARSE_HEAD"
  BY DEF IInv, Phase, FrameSeen
<1>1. /\ packetdata \in Seq(Byte) /\ data \in Seq(Byte) /\ Len(packetdata) \in Nat
      /\ HEADLEN \in Nat \ {0} /\ headpos \in 1 .. Len(readdata) - HEADLEN
      /\ theNexPacket \in Headers /\ Datalen \in Nat
      /\ Behind \in Nat /\ Len(readdata) = headpos + HEADLEN + Behind
  BY <1>0, InFrame
<1>2. Len(packetdata) <= Datalen + 1 /\ Len(packetdata) >= Behind
  <2>1. Behind < Datalen + 1
    BY <1>1 DEF InReaddata, FrameEnd
  <2>2. /\ Len(packetdata) <= Datalen + 1
        /\ Len(packetdata) >= Behind \/ Len(packetdata) = Datalen + 1
    BY <1>0 DEF IInv, Reading
  <2> QED
    BY <1>1, <2>1, <2>2
<1>3. Missing \in 0 .. Len(data) /\ Len(packetdata) + Missing = Datalen + 1
  BY <1>1, <1>2 DEF Missing, FrameSeen
<1> DEFINE new == SubSeq(data, 1, Missing)
           p == <<HEAD>> \o theNexPacket
<1>4. new \in Seq(Byte) /\ Len(new) = Missing
  BY <1>1, <1>3
<1>5. Collected \in Seq(Byte) /\ Len(Collected) = Datalen + 1
  BY <1>1, <1>3, <1>4 DEF Collected
<1>6. data' = Drop(data, Missing) /\ data' \in Seq(Byte)
  BY <1>1, <1>3, Dropped DEF FrameSeen, Drop
<1>7. p \in Seq(Byte) /\ theNexPacket \in Seq(Byte) /\ <<HEAD>> \in Seq(Byte)
  BY <1>1, HeadersAreSeqs, FrameAssumption
<1>8. Pending = (p \o packetdata) \o data
  BY <1>0, <1>2, WholeUndecided DEF Pending
<1> HIDE DEF p
<1>9. Pending = (p \o Collected) \o data'
  <2>1. ((p \o packetdata) \o new) \o Drop(data, Missing) = (p \o packetdata) \o data
    <3>1. p \o packetdata \in Seq(Byte)
      BY <1>1, <1>7
    <3> QED
      BY <1>1, <1>3, <3>1, PartsJoin
  <2>2. (p \o packetdata) \o new = p \o Collected
    <3> HIDE DEF new
    <3>1. (p \o packetdata) \o new = p \o (packetdata \o new)
      BY <1>1, <1>4, <1>7
    <3> QED
      BY <3>1 DEF Collected, new
  <2> QED
    BY <1>6, <1>8, <2>1, <2>2
<1>10. Rest = <<>> /\ Rest \o data' = data'
  BY <1>6 DEF Rest
<1>11. Drop(Pending, 1) = (theNexPacket \o Collected) \o data'
  <2> DEFINE x == theNexPacket \o Collected
             hx == <<HEAD>> \o x
  <2>1. x \in Seq(Byte) /\ Len(x) \in Nat
    BY <1>5, <1>7
  <2>2. p \o Collected = hx
    BY <1>5, <1>7 DEF p
  <2> HIDE DEF x
  <2>3. /\ hx \in Seq(Byte) /\ Len(hx) = 1 + Len(x)
        /\ \A i \in 1 .. Len(x) : hx[1 + i] = x[i]
    BY <1>7, <2>1
  <2> HIDE DEF hx
  <2>4. 1 \in 0 .. Len(hx) /\ Len(hx) - 1 = Len(x)
    BY <2>1, <2>3
  <2>5. /\ Drop(hx, 1) \in Seq(Byte) /\ Len(Drop(hx, 1)) = Len(x)
        /\ \A i \in 1 .. Len(x) : Drop(hx, 1)[i] = hx[1 + i]
    <3>1. /\ Drop(hx, 1) \in Seq(Byte) /\ Len(Drop(hx, 1)) = Len(hx) - 1
          /\ \A i \in 1 .. Len(hx) - 1 : Drop(hx, 1)[i] = hx[1 + i]
      BY <2>3, <2>4, Dropped
    <3> QED
      BY <2>4, <3>1, Zenon
  <2>6. Drop(hx, 1) = x
    BY <2>1, <2>3, <2>5, SameBytes
  <2>7. Drop(hx \o data', 1) = Drop(hx, 1) \o data'
    BY <1>6, <2>3, <2>4, DropOfConcat
  <2> QED
    BY <1>9, <2>2, <2>6, <2>7 DEF x
<1> QED
  BY <1>5, <1>6, <1>9, <1>10, <1>11 DEF Again, p

(* So in both cases what is pending begins with the frame collected.         *)
LEMMA FrameThere ==
  ASSUME IInv, FrameSeen
  PROVE  /\ Collected \in Seq(Byte) /\ Len(Collected) = Datalen + 1
         /\ data' \in Seq(Byte) /\ Rest \in Seq(Byte) /\ Pending \in Seq(Byte)
         /\ HeaderOf(Pending) = theNexPacket /\ Complete(Pending)
         /\ WellFormed(Pending) <=> CheckOK
         /\ DataOf(Pending) = SubSeq(Collected, 1, Datalen)
         /\ Drop(Pending, FrameLen(Pending)) = Rest \o data'
         /\ Drop(Pending, 1) = Again \o data'
<1>1. /\ theNexPacket \in Headers /\ Legal(theNexPacket) /\ Datalen \in Nat
      /\ packetdata \in Seq(Byte) /\ data \in Seq(Byte)
  BY InFrame DEF IInv, Phase, FrameSeen
<1>2. /\ Collected \in Seq(Byte) /\ Len(Collected) = Datalen + 1
      /\ data' \in Seq(Byte) /\ Rest \in Seq(Byte)
      /\ Pending = (<<HEAD>> \o theNexPacket) \o Collected \o (Rest \o data')
      /\ Drop(Pending, 1) = Again \o data'
  <2>1. CASE InReaddata
    BY <1>1, <2>1, SeenInReaddata
  <2>2. CASE ~InReaddata
    <3>1. <<>> \in Seq(Byte)
      OBVIOUS
    <3> QED
      BY <2>2, <3>1, SeenInData
  <2> QED
    BY <2>1, <2>2
<1> DEFINE t == Rest \o data'
<1>3. t \in Seq(Byte)
  BY <1>2
<1>4. Pending = (<<HEAD>> \o theNexPacket) \o Collected \o t
  BY <1>2
<1> HIDE DEF t
<1>5. Laid(Pending, theNexPacket, Collected, t)
  BY <1>1, <1>2, <1>3, <1>4, LaidOut
<1>6. /\ HeaderOf(Pending) = theNexPacket /\ Complete(Pending)
      /\ DataOf(Pending) = SubSeq(Collected, 1, Datalen)
      /\ Pending[FrameLen(Pending)] = Collected[Datalen + 1]
      /\ Drop(Pending, FrameLen(Pending)) = t
  <2>1. Len(Collected) = DataLen(theNexPacket) + 1 /\ Datalen = DataLen(theNexPacket)
    BY <1>2 DEF Datalen
  <2>2. /\ HeaderOf(Pending) = theNexPacket /\ Complete(Pending)
        /\ DataOf(Pending) = SubSeq(Collected, 1, DataLen(theNexPacket))
        /\ Pending[FrameLen(Pending)] = Collected[DataLen(theNexPacket) + 1]
        /\ Drop(Pending, FrameLen(Pending)) = t
    <3>1. /\ theNexPacket \in Headers /\ Legal(theNexPacket) /\ t \in Seq(Byte)
          /\ Collected \in Seq(Byte) /\ Len(Collected) = DataLen(theNexPacket) + 1
          /\ Laid(Pending, theNexPacket, Collected, t)
      BY <1>1, <1>2, <1>3, <1>5, <2>1
    <3> QED
      BY <3>1, LaidFrame
  <2> QED
    BY <2>1, <2>2
<1>7. WellFormed(Pending) <=> CheckOK
  BY <1>6 DEF WellFormed, CheckOK
<1>8. Pending \in Seq(Byte)
  BY <1>5 DEF Laid
<1> QED
  BY <1>2, <1>6, <1>7, <1>8 DEF t

LEMMA FrameBrokenSkips ==
  ASSUME IInv, FrameBroken
  PROVE  Stream!Next
<1>1. /\ FrameSeen /\ ~CheckOK /\ readdata' = Again /\ parsetype' = "PARSE_NOTHING"
      /\ packet_cb_' = NoFrame
  BY DEF FrameBroken, FrameSeen, Again
<1>2. /\ Pending \in Seq(Byte) /\ Complete(Pending) /\ ~WellFormed(Pending)
      /\ Drop(Pending, 1) = Again \o data'
  BY <1>1, FrameThere
<1>3. Pending' = Drop(Pending, 1)
  BY <1>1, <1>2 DEF Pending, Undecided
<1>4. Len(Pending) \in Nat /\ Len(Pending) > 0 /\ Pending # <<>>
  BY <1>2, FrameAssumption DEF Complete, Headed
<1>5. Drop(Pending, 0) = Pending
  BY <1>2 DEF Drop
<1>6. Hopeless(Pending)
  BY <1>2, <1>4 DEF Hopeless
<1>7. \A k \in 0 .. 1 - 1 : Hopeless(Drop(Pending, k))
  BY <1>5, <1>6
<1>8. 1 \in 0 .. Len(Pending)
  BY <1>4
<1> QED
  BY <1>1, <1>3, <1>7, <1>8, Skips

LEMMA FrameGoodDelivers ==
  ASSUME IInv, FrameGood
  PROVE  Stream!Next
<1>1. /\ FrameSeen /\ CheckOK /\ readdata' = Rest /\ parsetype' = "PARSE_NOTHING"
      /\ packet_cb_' = [header |-> theNexPacket, data |-> SubSeq(Collected, 1, Datalen)]
  BY DEF FrameGood, FrameSeen, Rest
<1>2. Good(Pending)
  BY <1>1, FrameThere DEF Good
<1>3. Pending' = Drop(Pending, FrameLen(Pending))
  BY <1>1, FrameThere DEF Pending, Undecided
<1>4. packet_cb_' = [header |-> HeaderOf(Pending), data |-> DataOf(Pending)]
  BY <1>1, FrameThere
<1>5. Stream!Deliver
  BY <1>2, <1>3, <1>4, SameFrames DEF Stream!Deliver, Pending
<1> QED
  BY <1>5 DEF Stream!Next

(* A frame that is not there in full.                                        *)
LEMMA UnfinishedFrame ==
  ASSUME NEW h \in Headers, NEW c \in Seq(Byte)
  PROVE  LET u == (<<HEAD>> \o h) \o c
         IN  u[1] = HEAD /\ Len(u) = HEADLEN + 1 + Len(c) /\ HeaderOf(u) = h
<1> DEFINE u == (<<HEAD>> \o h) \o c
<1>1. /\ HEADLEN \in Nat \ {0} /\ h \in Seq(Byte) /\ Len(h) = HEADLEN
      /\ <<HEAD>> \in Seq(Byte) /\ <<>> \in Seq(Byte) /\ Len(<<>>) = 0 /\ Len(c) \in Nat
  BY HeadersAreSeqs, FrameAssumption
<1>2. u \in Seq(Byte) /\ u \o <<>> = u
  BY <1>1
<1>3. Laid(u, h, c, <<>>)
  BY <1>1, <1>2, LaidOut
<1> HIDE DEF u
<1>4. u[1] = HEAD /\ Len(u) = HEADLEN + 1 + Len(c)
  BY <1>1, <1>3 DEF Laid
<1>5. /\ HeaderOf(u) \in Seq(Byte) /\ Len(HeaderOf(u)) = HEADLEN
      /\ \A i \in 1 .. HEADLEN : HeaderOf(u)[i] = h[i]
  <2>1. 2 \in 1 .. Len(u) /\ HEADLEN + 1 \in 2 .. Len(u) /\ HEADLEN + 1 - 2 + 1 = HEADLEN
    BY <1>1, <1>4
  <2>2. /\ HeaderOf(u) \in Seq(Byte) /\ Len(HeaderOf(u)) = HEADLEN
        /\ \A i \in 1 .. HEADLEN : HeaderOf(u)[i] = u[2 + i - 1]
    <3> DEFINE m == HEADLEN + 1
    <3> HIDE DEF m
    <3>1. /\ SubSeq(u, 2, m) \in Seq(Byte) /\ Len(SubSeq(u, 2, m)) = m - 2 + 1
          /\ \A i \in 1 .. m - 2 + 1 : SubSeq(u, 2, m)[i] = u[2 + i - 1]
      BY <1>2, <2>1, Slice DEF m
    <3>2. m - 2 + 1 = HEADLEN
      BY <1>1 DEF m
    <3>3. HeaderOf(u) = SubSeq(u, 2, m)
      BY DEF HeaderOf, m
    <3> QED
      BY <3>1, <3>2, <3>3
  <2>3. \A i \in 1 .. HEADLEN : 2 + i - 1 = i + 1
    BY <1>1
  <2> QED
    BY <1>3, <2>2, <2>3 DEF Laid
<1>6. HeaderOf(u) = h
  BY <1>1, <1>5, SameBytes
<1> QED
  BY <1>4, <1>6 DEF u

(* Returning decides upon nothing.                                           *)
LEMMA UndecidedIsSeq ==
  ASSUME IInv
  PROVE  Undecided \in Seq(Byte) /\ Pending \in Seq(Byte)
<1>1. Undecided \in Seq(Byte)
  <2>1. CASE parsetype = "PARSE_NOTHING"
    BY <2>1 DEF IInv, TypeOK, Undecided
  <2>2. CASE parsetype # "PARSE_NOTHING"
    <3>1. parsetype = "PARSE_HEAD"
      BY <2>2 DEF IInv, TypeOK
    <3>2. /\ readdata \in Seq(Byte) /\ packetdata \in Seq(Byte) /\ theNexPacket \in Headers
          /\ HEADLEN \in Nat /\ headpos \in 1 .. Len(readdata) - HEADLEN
      BY <3>1, InFrame
    <3>3. SubSeq(readdata, headpos, Len(readdata)) \in Seq(Byte)
      BY <3>2
    <3>4. <<HEAD>> \o theNexPacket \o packetdata \in Seq(Byte)
      BY <3>2, HeadersAreSeqs, FrameAssumption
    <3> QED
      BY <2>2, <3>3, <3>4 DEF Undecided
  <2> QED
    BY <2>1, <2>2
<1>2. data \in Seq(Byte)
  BY DEF IInv, TypeOK
<1> QED
  BY <1>1, <1>2 DEF Pending

LEMMA SkipsNothing ==
  ASSUME IInv, Pending' = Pending, packet_cb_' = NoFrame
  PROVE  Stream!Next
<1>1. 0 \in 0 .. Len(Pending) /\ Pending' = Drop(Pending, 0)
  BY UndecidedIsSeq DEF Drop
<1> QED
  BY <1>1, Skips

LEMMA AwaitDataKeeps ==
  ASSUME IInv, AwaitData
  PROVE  Pending' = Pending
<1>0. parsetype = "PARSE_HEAD"
  BY DEF IInv, Phase, AwaitData
<1>1. /\ packetdata \in Seq(Byte) /\ data \in Seq(Byte) /\ Len(packetdata) \in Nat
      /\ Len(data) \in Nat /\ theNexPacket \in Headers /\ Datalen \in Nat /\ Behind \in Nat
  BY <1>0, InFrame
<1>2. Len(packetdata) >= Behind
  <2>1. Len(packetdata) < Datalen + 1
    BY <1>1 DEF AwaitData, Missing
  <2> QED
    BY <1>0, <1>1, <2>1 DEF IInv, Reading
<1> DEFINE p == <<HEAD>> \o theNexPacket
<1>3. p \in Seq(Byte)
  BY <1>1, HeadersAreSeqs, FrameAssumption
<1>4. Undecided = p \o packetdata
  BY <1>0, <1>2, WholeUndecided
<1>5. /\ packetdata' = packetdata \o data /\ data' = <<>>
      /\ readdata' = readdata /\ headpos' = headpos /\ theNexPacket' = theNexPacket
      /\ parsetype' = parsetype
  BY DEF AwaitData, headVars
<1>6. Undecided' = p \o (packetdata \o data)
  <2>1. CASE data = <<>>
    <3>1. packetdata' = packetdata
      BY <1>1, <1>5, <2>1
    <3>2. Undecided' = Undecided
      BY <1>5, <3>1 DEF Undecided
    <3> QED
      BY <1>4, <1>5, <3>1, <3>2
  <2>2. CASE data # <<>>
    <3>1. Len(packetdata') > Behind
      BY <1>1, <1>2, <1>5, <2>2
    <3>2. ~(Len(readdata) - headpos - HEADLEN >= Len(packetdata'))
      <4>1. Len(packetdata') \in Nat
        BY <1>1, <1>5
      <4> QED
        BY <1>1, <3>1, <4>1 DEF Behind
    <3> QED
      BY <1>0, <1>5, <3>2 DEF Undecided
  <2> QED
    BY <2>1, <2>2
<1> HIDE DEF p
<1>7. (p \o packetdata) \o data = p \o (packetdata \o data)
  BY <1>1, <1>3
<1>8. (p \o (packetdata \o data)) \o <<>> = p \o (packetdata \o data)
  BY <1>1, <1>3
<1> QED
  BY <1>4, <1>5, <1>6, <1>7, <1>8 DEF Pending

LEMMA RecvdataReceives ==
  ASSUME IInv, NEW chunk \in Chunks, Recvdata(chunk)
  PROVE  Stream!Next
<1>1. data = <<>> /\ data' = chunk /\ packet_cb_' = NoFrame
  BY DEF IInv, Phase, Recvdata
<1>2. Undecided' = Undecided
  BY DEF Recvdata, bufferVars, headVars, Undecided
<1>3. Undecided \o data = Undecided
  BY <1>1, UndecidedIsSeq
<1>4. Stream!Receive(chunk)
  BY <1>1, <1>2, <1>3 DEF Stream!Receive, NoFrame, Stream!NoFrame
<1> QED
  BY <1>4 DEF Stream!Next

(* Every step of the parser is one of FrameStream, or changes nothing that   *)
(* is seen.                                                                  *)
LEMMA StepRefines ==
  ASSUME IInv, [Next]_vars
  PROVE  [Stream!Next]_<<Undecided \o data, packet_cb_>>
<1>1. CASE UNCHANGED vars
  BY <1>1 DEF vars, bufferVars, headVars, Undecided
<1>2. CASE Start
  BY <1>2 DEF Start, bufferVars, headVars, Undecided
<1>3. ASSUME NEW chunk \in Chunks, Recvdata(chunk) PROVE Stream!Next
  BY <1>3, RecvdataReceives
<1>4. CASE NoHead
  BY <1>4, NoHeadSkips
<1>5. CASE ShortHeader
  BY <1>5, ShortHeaderSkips
<1>6. CASE IllegalHeader
  BY <1>6, IllegalHeaderSkips
<1>7. CASE HeaderFound
  BY <1>7, HeaderFoundSkips
<1>8. CASE AwaitData
  BY <1>8, AwaitDataKeeps, SkipsNothing DEF AwaitData
<1>9. CASE FrameBroken
  BY <1>9, FrameBrokenSkips
<1>10. CASE FrameGood
  BY <1>10, FrameGoodDelivers
<1>11. CASE Return
  <2>1. Pending' = Pending /\ packet_cb_' = NoFrame
    BY <1>11 DEF Return, bufferVars, headVars, Pending, Undecided
  <2> QED
    BY <2>1, SkipsNothing
<1> QED
  BY <1>1, <1>2, <1>3, <1>4, <1>5, <1>6, <1>7, <1>8, <1>9, <1>10, <1>11 DEF Next, Step

-----------------------------------------------------------------------------
(* Every step keeps the invariant.                                           *)
LEMMA NoFrameTyped ==
  NoFrame \in [header : Headers \cup {<<>>}, data : Seq(Byte)]
BY DEF NoFrame

LEMMA InitInv == Init => IInv
<1> SUFFICES ASSUME Init PROVE IInv
  OBVIOUS
<1>1. TypeOK
  <2>1. fresh \in BOOLEAN /\ due \in BOOLEAN
    BY Zenon DEF Init
  <2>2. /\ readdata \in Seq(Byte) /\ Len(readdata) <= readlen
        /\ packetdata \in Seq(Byte) /\ Len(packetdata) <= packetlen
        /\ readlen \in Nat /\ packetlen \in Nat /\ data \in Seq(Byte)
    BY ParserAssumption DEF Init
  <2> QED
    BY <2>1, <2>2, NoFrameTyped DEF Init, TypeOK
<1>2. Phase /\ Reading
  BY DEF Init, Phase, Reading
<1>3. Settled
  BY FrameAssumption DEF Init, Settled
<1> QED
  BY <1>1, <1>2, <1>3 DEF IInv

LEMMA TurnKeeps ==
  ASSUME IInv, Turn, UNCHANGED <<readlen, packetdata, packetlen, headVars, pc, fresh, due>>,
         readdata' \in Seq(Byte), Len(readdata') <= readlen
  PROVE  IInv'
<1>1. /\ TypeOK /\ parsetype = "PARSE_NOTHING" /\ pc = "turn" /\ data' \in Seq(Byte)
      /\ packet_cb_' = NoFrame
  BY TurnTakes DEF IInv, Turn
<1>2. TypeOK'
  BY <1>1, NoFrameTyped DEF TypeOK, headVars
<1>3. Phase' /\ Reading' /\ Settled'
  BY <1>1 DEF Phase, Reading, Settled, headVars
<1> QED
  BY <1>2, <1>3 DEF IInv

LEMMA NoHeadInv ==
  ASSUME IInv, NoHead
  PROVE  IInv'
<1>1. readdata' = <<>> /\ Turn
  BY DEF NoHead
<1>2. readdata' \in Seq(Byte) /\ Len(readdata') <= readlen
  BY <1>1 DEF IInv, TypeOK
<1> QED
  BY <1>1, <1>2, TurnKeeps DEF NoHead

LEMMA ShortHeaderInv ==
  ASSUME IInv, ShortHeader
  PROVE  IInv'
<1>1. readdata' = Drop(Filled, HeadAt - 1) /\ Turn /\ HeadAt - 1 \in 0 .. Len(Filled)
  BY HeadFound DEF ShortHeader
<1>2. Filled \in Seq(Byte) /\ Len(Filled) <= readlen /\ readlen \in Nat
  BY <1>1, TurnTakes DEF IInv, TypeOK
<1>3. readdata' \in Seq(Byte) /\ Len(readdata') = Len(Filled) - (HeadAt - 1)
  BY <1>1, <1>2, Dropped
<1>4. Len(readdata') <= readlen
  BY <1>1, <1>2, <1>3
<1> QED
  BY <1>1, <1>3, <1>4, TurnKeeps DEF ShortHeader

LEMMA IllegalHeaderInv ==
  ASSUME IInv, IllegalHeader
  PROVE  IInv'
<1>1. readdata' = Drop(Filled, HeadAt) /\ Turn /\ HeadAt \in 1 .. Len(Filled)
  BY HeadFound DEF IllegalHeader, Drop
<1>2. Filled \in Seq(Byte) /\ Len(Filled) <= readlen /\ readlen \in Nat
  BY <1>1, TurnTakes DEF IInv, TypeOK
<1>3. readdata' \in Seq(Byte) /\ Len(readdata') = Len(Filled) - HeadAt
  <2>1. HeadAt \in 0 .. Len(Filled)
    BY <1>1
  <2> QED
    BY <1>1, <1>2, <2>1, Dropped
<1>4. Len(readdata') <= readlen
  BY <1>1, <1>2, <1>3
<1> QED
  BY <1>1, <1>3, <1>4, TurnKeeps DEF IllegalHeader

LEMMA HeaderFoundInv ==
  ASSUME IInv, HeaderFound
  PROVE  IInv'
<1> DEFINE d == DataLen(HeaderAt)
           e == Least(Len(Filled), HeadAt + HEADLEN + d + 1)
           b == HeadAt + HEADLEN
<1>1. /\ Turn /\ HeadAt # 0 /\ Len(Filled) - HeadAt >= HEADLEN /\ Legal(HeaderAt)
      /\ readdata' = Filled /\ parsetype' = "PARSE_HEAD" /\ headpos' = HeadAt
      /\ theNexPacket' = HeaderAt /\ pc' = "collect"
      /\ packetlen' = Most(packetlen, d + 1)
      /\ packetdata' = SubSeq(Filled, b + 1, e)
      /\ packet_cb_' = NoFrame /\ UNCHANGED <<readlen, fresh, due>>
  BY DEF HeaderFound, Turn
<1>2. /\ Filled \in Seq(Byte) /\ Len(Filled) <= readlen /\ data' \in Seq(Byte)
      /\ HEADLEN \in Nat \ {0}
  BY <1>1, TurnTakes, FrameAssumption
<1>3. HeadAt \in 1 .. Len(Filled) - HEADLEN /\ Filled[HeadAt] = HEAD
  BY <1>1, <1>2, HeadAtFirst
<1>4. HeaderAt \in Headers
  BY <1>2, <1>3, HeaderThere DEF HeaderAt
<1>5. d \in Nat
  BY <1>1, <1>4, FrameAssumption
<1> HIDE DEF d
<1>6. b \in HEADLEN .. Len(Filled) /\ e \in b .. Len(Filled) /\ e <= b + d + 1
      /\ (e = Len(Filled) \/ e = b + d + 1)
  BY <1>2, <1>3, <1>5 DEF Least
<1>7. Behind' = Len(Filled) - b
  BY <1>1, <1>2, <1>3 DEF Behind
<1> HIDE DEF e, b
<1>8. /\ packetdata' \in Seq(Byte) /\ Len(packetdata') = e - b
      /\ \A i \in 1 .. e - b : packetdata'[i] = Filled[b + i]
  <2> DEFINE c == SubSeq(Filled, b + 1, e)
  <2>1. c \in Seq(Byte) /\ Len(c) = e - b /\ \A i \in 1 .. e - b : c[i] = Filled[b + 1 + i - 1]
    BY <1>2, <1>6
  <2>2. \A i \in 1 .. e - b : b + 1 + i - 1 = b + i
    BY <1>2, <1>6
  <2> HIDE DEF c
  <2>3. packetdata' = c
    BY <1>1 DEF c
  <2> QED
    BY <2>1, <2>2, <2>3
<1>9. Datalen' = d
  BY <1>1 DEF Datalen, d
<1>10. packetlen \in Nat /\ packetlen' \in Nat /\ d + 1 <= packetlen'
  BY <1>1, <1>5 DEF IInv, TypeOK, Most
<1>11. TypeOK'
  <2>1. Len(packetdata') <= packetlen' /\ HeadAt \in Nat
    BY <1>2, <1>3, <1>5, <1>6, <1>8, <1>10
  <2> QED
    BY <1>1, <1>2, <1>4, <1>8, <1>10, <2>1, NoFrameTyped DEF IInv, TypeOK
<1>12. Reading'
  <2>1. Len(packetdata') <= d + 1 /\ (Len(packetdata') >= Behind' \/ Len(packetdata') = d + 1)
    BY <1>2, <1>5, <1>6, <1>7, <1>8
  <2>2. \A i \in 1 .. Len(packetdata') : packetdata'[i] = readdata'[headpos' + HEADLEN + i]
    BY <1>1, <1>8 DEF b
  <2> QED
    BY <1>1, <1>3, <1>9, <1>10, <2>1, <2>2 DEF Reading, HeaderAt
<1>13. Phase' /\ Settled'
  BY <1>1 DEF Phase, Settled
<1> QED
  BY <1>11, <1>12, <1>13 DEF IInv

LEMMA AwaitDataInv ==
  ASSUME IInv, AwaitData
  PROVE  IInv'
<1>0. parsetype = "PARSE_HEAD"
  BY DEF IInv, Phase, AwaitData
<1>1. /\ packetdata \in Seq(Byte) /\ data \in Seq(Byte) /\ Len(packetdata) \in Nat
      /\ Len(data) \in Nat /\ Datalen \in Nat /\ Behind \in Nat
  BY <1>0, InFrame
<1>2. /\ packetdata' = packetdata \o data /\ data' = <<>> /\ pc' = "idle"
      /\ UNCHANGED <<readdata, readlen, packetlen, headVars, fresh, due>>
      /\ packet_cb_' = NoFrame
  BY DEF AwaitData
<1>3. /\ packetdata' \in Seq(Byte) /\ Len(packetdata') = Len(packetdata) + Len(data)
      /\ Len(packetdata') < Datalen + 1
      /\ \A i \in 1 .. Len(packetdata) : packetdata'[i] = packetdata[i]
  BY <1>1, <1>2 DEF AwaitData, Missing
<1>4. Len(packetdata) >= Behind /\ Datalen + 1 <= packetlen
  BY <1>0, <1>1, <1>3 DEF IInv, Reading
<1>5. Datalen' = Datalen /\ Behind' = Behind
  BY <1>2 DEF Datalen, Behind, headVars
<1>6. TypeOK'
  <2>1. Len(packetdata') <= packetlen /\ packetlen \in Nat
    BY <1>1, <1>3, <1>4 DEF IInv, TypeOK
  <2>2. data' \in Seq(Byte)
    BY <1>2
  <2> QED
    BY <1>2, <1>3, <2>1, <2>2, NoFrameTyped DEF IInv, TypeOK, headVars
<1>7. Reading'
  <2>1. Len(packetdata') <= Datalen + 1 /\ Len(packetdata') >= Behind
    BY <1>1, <1>3, <1>4
  <2>2. ASSUME NEW i \in 1 .. Len(packetdata'), i <= Behind
        PROVE  packetdata'[i] = readdata[headpos + HEADLEN + i]
    <3>1. i \in 1 .. Len(packetdata)
      BY <1>1, <1>4, <2>2
    <3> QED
      BY <1>0, <1>3, <2>2, <3>1 DEF IInv, Reading
  <2>3. /\ headpos \in 1 .. Len(readdata) - HEADLEN /\ readdata[headpos] = HEAD
        /\ theNexPacket = SubSeq(readdata, headpos + 1, headpos + HEADLEN)
        /\ Legal(theNexPacket)
    BY <1>0 DEF IInv, Reading
  <2> QED
    BY <1>2, <1>4, <1>5, <2>1, <2>2, <2>3 DEF Reading, headVars
<1>8. Settled'
  <2>1. Missing' > 0
    BY <1>1, <1>3, <1>5 DEF Missing
  <2> QED
    BY <1>0, <1>2, <2>1 DEF Settled, headVars
<1>9. Phase'
  BY <1>0, <1>2 DEF Phase, headVars
<1> QED
  BY <1>6, <1>7, <1>8, <1>9 DEF IInv

(* After a frame, whole or broken, the search goes on in readdata.           *)
LEMMA SeenKeeps ==
  ASSUME IInv, FrameSeen, readdata' \in Seq(Byte), readlen' \in Nat, Len(readdata') <= readlen',
         packet_cb_' \in [header : Headers \cup {<<>>}, data : Seq(Byte)],
         due' \in BOOLEAN
  PROVE  IInv'
<1>1. /\ data' \in Seq(Byte) /\ parsetype' = "PARSE_NOTHING" /\ headpos' = 0
      /\ theNexPacket' = <<>> /\ packetdata' = <<>> /\ pc' = "turn"
      /\ UNCHANGED <<packetlen, fresh>>
  BY FrameThere DEF FrameSeen
<1>2. packetdata' \in Seq(Byte) /\ Len(packetdata') = 0
  BY <1>1
<1>3. packetlen' \in Nat /\ fresh' \in BOOLEAN
  BY <1>1, Zenon DEF IInv, TypeOK
<1>4. TypeOK'
  BY <1>1, <1>2, <1>3 DEF TypeOK
<1>5. Phase' /\ Reading' /\ Settled'
  BY <1>1 DEF Phase, Reading, Settled
<1> QED
  BY <1>4, <1>5 DEF IInv

LEMMA FrameBrokenInv ==
  ASSUME IInv, FrameBroken
  PROVE  IInv'
<1>0. FrameSeen /\ packet_cb_' = NoFrame /\ due' \in BOOLEAN
  BY Zenon DEF FrameBroken, IInv, TypeOK
<1>1. /\ readdata \in Seq(Byte) /\ HEADLEN \in Nat \ {0} /\ Datalen \in Nat
      /\ headpos \in 1 .. Len(readdata) - HEADLEN /\ theNexPacket \in Headers
  BY <1>0, InFrame DEF IInv, Phase, FrameSeen
<1>2. Len(readdata) <= readlen /\ readlen \in Nat
  BY DEF IInv, TypeOK
<1>3. Collected \in Seq(Byte) /\ Len(Collected) = Datalen + 1
  BY <1>0, FrameThere
<1>4. CASE InReaddata
  <2>1. readdata' = Drop(readdata, headpos) /\ readlen' = readlen
    BY <1>4 DEF FrameBroken, Drop
  <2>2. headpos \in 0 .. Len(readdata)
    BY <1>1
  <2>3. readdata' \in Seq(Byte) /\ Len(readdata') = Len(readdata) - headpos
    BY <1>1, <2>1, <2>2, Dropped
  <2>4. Len(readdata') <= readlen'
    BY <1>1, <1>2, <2>1, <2>3
  <2> QED
    BY <1>0, <1>2, <2>1, <2>3, <2>4, NoFrameTyped, SeenKeeps
<1>5. CASE ~InReaddata
  <2>1. /\ readdata' = theNexPacket \o Collected
        /\ readlen' = Most(readlen, HEADLEN + Datalen + 1)
    BY <1>5 DEF FrameBroken
  <2>2. readdata' \in Seq(Byte) /\ Len(readdata') = HEADLEN + (Datalen + 1)
    <3>1. theNexPacket \in Seq(Byte) /\ Len(theNexPacket) = HEADLEN
      BY <1>1, HeadersAreSeqs
    <3>2. /\ theNexPacket \o Collected \in Seq(Byte)
          /\ Len(theNexPacket \o Collected) = Len(theNexPacket) + Len(Collected)
      BY <1>3, <3>1, Joined
    <3> QED
      BY <1>3, <2>1, <3>1, <3>2
  <2>3. readlen' \in Nat /\ Len(readdata') <= readlen'
    BY <1>1, <1>2, <2>1, <2>2 DEF Most
  <2> QED
    BY <1>0, <2>2, <2>3, NoFrameTyped, SeenKeeps
<1> QED
  BY <1>4, <1>5

LEMMA FrameGoodInv ==
  ASSUME IInv, FrameGood
  PROVE  IInv'
<1>0. FrameSeen /\ due' \in BOOLEAN
  BY Zenon DEF FrameGood
<1>1. /\ readdata \in Seq(Byte) /\ HEADLEN \in Nat \ {0} /\ Datalen \in Nat
      /\ headpos \in 1 .. Len(readdata) - HEADLEN /\ theNexPacket \in Headers
  BY <1>0, InFrame DEF IInv, Phase, FrameSeen
<1>2. Len(readdata) <= readlen /\ readlen \in Nat
  BY DEF IInv, TypeOK
<1>3. Collected \in Seq(Byte) /\ Len(Collected) = Datalen + 1 /\ Rest \in Seq(Byte)
  BY <1>0, FrameThere
<1>4. readdata' = Rest /\ readlen' = readlen
  BY DEF FrameGood, Rest
<1>5. Len(Rest) <= Len(readdata)
  <2>1. CASE InReaddata
    <3>1. FrameEnd \in 0 .. Len(readdata) /\ Rest = Drop(readdata, FrameEnd)
      BY <1>1, <2>1 DEF InReaddata, FrameEnd, Rest, Drop
    <3>2. Len(Rest) = Len(readdata) - FrameEnd
      BY <1>1, <3>1, Dropped
    <3> QED
      BY <1>1, <3>1, <3>2
  <2>2. CASE ~InReaddata
    BY <1>1, <2>2 DEF Rest
  <2> QED
    BY <2>1, <2>2
<1>6. packet_cb_' \in [header : Headers \cup {<<>>}, data : Seq(Byte)]
  <2>1. SubSeq(Collected, 1, Datalen) \in Seq(Byte)
    BY <1>1, <1>3
  <2>2. packet_cb_' = [header |-> theNexPacket, data |-> SubSeq(Collected, 1, Datalen)]
    BY DEF FrameGood
  <2> QED
    BY <1>1, <2>1, <2>2
<1>7. Len(readdata') <= readlen' /\ readdata' \in Seq(Byte) /\ readlen' \in Nat
  BY <1>1, <1>2, <1>3, <1>4, <1>5
<1> QED
  BY <1>0, <1>6, <1>7, SeenKeeps

LEMMA RecvdataInv ==
  ASSUME IInv, NEW chunk \in Chunks, Recvdata(chunk)
  PROVE  IInv'
<1>1. /\ data' = chunk /\ packet_cb_' = NoFrame
      /\ pc' = IF parsetype = "PARSE_NOTHING" THEN "turn" ELSE "collect"
      /\ UNCHANGED <<readdata, readlen, packetdata, packetlen, parsetype, headpos, theNexPacket>>
      /\ UNCHANGED <<bufferVars, headVars>>
  BY DEF Recvdata, bufferVars, headVars
<1>2. chunk \in Seq(Byte)
  BY ParserAssumption
<1>3. fresh' \in BOOLEAN /\ due' \in BOOLEAN
  BY Zenon DEF Recvdata, IInv, TypeOK
<1>4. TypeOK'
  BY <1>1, <1>2, <1>3, NoFrameTyped DEF IInv, TypeOK
<1>5. Phase'
  BY <1>1 DEF IInv, TypeOK, Phase
<1>6. Reading'
  BY <1>1, Zenon DEF IInv, Reading, Datalen, Behind
<1>7. Settled'
  BY <1>1 DEF Settled
<1> QED
  BY <1>4, <1>5, <1>6, <1>7 DEF IInv

LEMMA ReturnInv ==
  ASSUME IInv, Return
  PROVE  IInv'
<1>1. /\ pc = "turn" /\ pc' = "idle" /\ packet_cb_' = NoFrame /\ ~More
      /\ UNCHANGED <<readdata, readlen, packetdata, packetlen, parsetype, headpos, theNexPacket>>
      /\ UNCHANGED <<data, fresh, due>>
  BY DEF Return, bufferVars, headVars
<1>2. parsetype = "PARSE_NOTHING" /\ data = <<>>
  BY <1>1 DEF IInv, Phase, More
<1>3. Len(readdata) < HEADLEN + 2
  BY <1>1, FrameAssumption DEF More, IInv, TypeOK
<1>4. TypeOK'
  BY <1>1, NoFrameTyped DEF IInv, TypeOK
<1>5. Phase' /\ Reading' /\ Settled'
  BY <1>1, <1>2, <1>3 DEF Phase, Reading, Settled
<1> QED
  BY <1>4, <1>5 DEF IInv

LEMMA QuietInv ==
  ASSUME IInv, UNCHANGED <<bufferVars, headVars, data, pc, packet_cb_>>,
         fresh' \in BOOLEAN, due' \in BOOLEAN
  PROVE  IInv'
<1>1. TypeOK'
  BY DEF IInv, TypeOK, bufferVars, headVars
<1>2. Phase' /\ Reading' /\ Settled'
  BY Zenon DEF IInv, Phase, Reading, Settled, Missing, Datalen, Behind, bufferVars, headVars
<1> QED
  BY <1>1, <1>2 DEF IInv

LEMMA StepInv ==
  ASSUME IInv, [Next]_vars
  PROVE  IInv'
<1>1. CASE UNCHANGED vars
  <2>1. fresh' \in BOOLEAN /\ due' \in BOOLEAN
    BY <1>1, Zenon DEF vars, IInv, TypeOK
  <2> QED
    BY <1>1, <2>1, QuietInv DEF vars
<1>2. CASE Start
  <2>1. fresh' \in BOOLEAN /\ due' \in BOOLEAN
    BY <1>2, Zenon DEF Start
  <2> QED
    BY <1>2, <2>1, QuietInv DEF Start
<1>3. ASSUME NEW chunk \in Chunks, Recvdata(chunk) PROVE IInv'
  BY <1>3, RecvdataInv
<1>4. CASE NoHead
  BY <1>4, NoHeadInv
<1>5. CASE ShortHeader
  BY <1>5, ShortHeaderInv
<1>6. CASE IllegalHeader
  BY <1>6, IllegalHeaderInv
<1>7. CASE HeaderFound
  BY <1>7, HeaderFoundInv
<1>8. CASE AwaitData
  BY <1>8, AwaitDataInv
<1>9. CASE FrameBroken
  BY <1>9, FrameBrokenInv
<1>10. CASE FrameGood
  BY <1>10, FrameGoodInv
<1>11. CASE Return
  BY <1>11, ReturnInv
<1> QED
  BY <1>1, <1>2, <1>3, <1>4, <1>5, <1>6, <1>7, <1>8, <1>9, <1>10, <1>11 DEF Next, Step

LEMMA InvariantHolds == Spec => []IInv
<1>1. IInv /\ [Next]_vars => IInv'
  BY StepInv
<1> QED
  BY <1>1, InitInv, PTL DEF Spec

(* The buffers are never filled beyond their size, whatever arrives: there   *)
(* is room for the header and the data wherever recvdata copies to.          *)
THEOREM BuffersSuffice == Spec => []TypeOK
<1>1. IInv => TypeOK
  BY DEF IInv
<1> QED
  BY <1>1, InvariantHolds, PTL

(* Between two calls no frame lies in the buffers: what is kept begins with  *)
(* no frame, nor with bytes that none can begin at.                          *)
LEMMA NothingWaits == IInv => NoFrameWaits
<1> SUFFICES ASSUME IInv, pc = "idle", HoldsFrame(Undecided) PROVE FALSE
  BY DEF NoFrameWaits
<1>1. Undecided \in Seq(Byte)
  BY UndecidedIsSeq
<1>2. HEADLEN \in Nat \ {0}
  BY FrameAssumption
<1>3. PICK n \in 0 .. Len(Undecided) :
        /\ \A k \in 0 .. n - 1 : Hopeless(Drop(Undecided, k))
        /\ Good(Drop(Undecided, n))
  BY DEF HoldsFrame
<1> DEFINE s == Drop(Undecided, n)
<1>4. s \in Seq(Byte) /\ Len(s) = Len(Undecided) - n
  BY <1>1, Dropped
<1>5. Complete(s)
  BY <1>3 DEF Good
<1> HIDE DEF s
<1>6. CASE parsetype = "PARSE_NOTHING"
  <2>1. Undecided = readdata /\ Len(readdata) < HEADLEN + 2
    BY <1>6 DEF Undecided, IInv, Settled
  <2>2. HeaderOf(s) \in Headers
    <3>1. Len(s) >= HEADLEN + 1 /\ 1 \in 1 .. Len(s) - HEADLEN
      BY <1>2, <1>4, <1>5 DEF Complete, Headed
    <3>2. SubSeq(s, 1 + 1, 1 + HEADLEN) \in Headers
      BY <1>4, <3>1, HeaderThere
    <3>3. 1 + 1 = 2 /\ 1 + HEADLEN = HEADLEN + 1
      BY <1>2
    <3> QED
      BY <3>2, <3>3 DEF HeaderOf
  <2>3. DataLen(HeaderOf(s)) \in Nat
    BY <1>5, <2>2, FrameAssumption DEF Complete
  <2>4. Len(s) >= HEADLEN + 2
    BY <1>2, <1>4, <1>5, <2>3 DEF Complete, FrameLen
  <2> QED
    BY <1>1, <1>2, <1>4, <2>1, <2>4
<1>7. CASE parsetype = "PARSE_HEAD"
  <2>1. /\ packetdata \in Seq(Byte) /\ theNexPacket \in Headers /\ Legal(theNexPacket)
        /\ Datalen \in Nat /\ Behind \in Nat /\ Len(packetdata) \in Nat
    BY <1>7, InFrame
  <2>2. Len(packetdata) < Datalen + 1 /\ Len(packetdata) >= Behind
    BY <1>7, <2>1 DEF IInv, Settled, Reading, Missing
  <2> DEFINE u == (<<HEAD>> \o theNexPacket) \o packetdata
  <2>3. Undecided = u
    BY <1>7, <2>2, WholeUndecided
  <2>4. /\ u[1] = HEAD /\ Len(u) = HEADLEN + 1 + Len(packetdata)
        /\ HeaderOf(u) = theNexPacket
    BY <2>1, UnfinishedFrame
  <2> HIDE DEF u
  <2>5. ~Complete(u)
    BY <1>2, <2>1, <2>2, <2>4 DEF Complete, FrameLen, Datalen
  <2>6. ~Hopeless(u)
    BY <2>1, <2>4, <2>5 DEF Hopeless
  <2>7. Drop(Undecided, 0) = u
    BY <1>1, <2>3 DEF Drop
  <2>8. n = 0
    BY <1>1, <1>3, <2>6, <2>7
  <2> QED
    BY <1>5, <2>5, <2>7, <2>8 DEF s
<1> QED
  BY <1>6, <1>7 DEF IInv, TypeOK

THEOREM NoneWaits == Spec => []NoFrameWaits
  BY InvariantHolds, NothingWaits, PTL

(* The parser delivers exactly the frames of the stream, however it is cut   *)
(* into reads and however long the frames are (recvdata).                    *)
THEOREM ParserFindsFrames == Spec => FindsFrames
<1>1. Init => Stream!Init
  BY DEF Init, Stream!Init, Undecided, NoFrame, Stream!NoFrame
<1>2. IInv /\ [Next]_vars => [Stream!Next]_<<Undecided \o data, packet_cb_>>
  BY StepRefines
<1> QED
  BY <1>1, <1>2, InvariantHolds, PTL DEF Spec, FindsFrames, Stream!Spec
=============================================================================
