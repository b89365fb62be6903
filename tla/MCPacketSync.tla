---------------------------- MODULE MCPacketSync ----------------------------
(* Frames over three bytes, HEAD, TAIL and one more, with a header of two:   *)
(* the first stands for the length of the data -- none, LongData, or illegal *)
(* -- the second for the check value, which is the first byte of the data.   *)
EXTENDS PacketSync

CONSTANTS LongData, MaxChunk

MCLegal(h) == h[1] # TAIL
MCDataLen(h) == IF h[1] = HEAD THEN LongData ELSE 0
MCIntact(h, d) == h[2] = IF d = <<>> THEN 0 ELSE d[1]
MCChunks == BoundedSeq(Byte, MaxChunk) \ {<<>>}
=============================================================================
