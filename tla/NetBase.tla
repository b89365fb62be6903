------------------------------- MODULE NetBase -------------------------------
(***************************************************************************)
(* The conversions of net_base.h, on a little-endian machine.  A byte has  *)
(* Base values (256 in the code, fewer where TLC enumerates numbers); the  *)
(* char it is stored in is signed, as gcc has it on x86.                   *)
(***************************************************************************)
EXTENDS Integers, Sequences

CONSTANT Base  \* how many values a byte has

ASSUME BaseAssumption == Base \in Nat /\ Base >= 2 /\ Base % 2 = 0

Byte == 0 .. Base - 1
Modulus == Base * Base * Base * Base  \* 2^32
Word32 == 0 .. Modulus - 1

(* A byte read as a char.                                                    *)
Signed(c) == IF c < Base \div 2 THEN c ELSE c - Base

(* What uint32_t keeps of a sum.                                             *)
ToUInt32(n) == n % Modulus

(* An unsigned number given to an int, and an int given to an unsigned one.  *)
AsInt(n) == IF n < Modulus \div 2 THEN n ELSE n - Modulus
AsUnsigned(n) == ToUInt32(n)

(* The bytes of a number, lowest first: htonl swaps them on a little-endian  *)
(* machine, and what was the lowest is the highest that is stored first.     *)
Int32ToChar(n) ==
  LET Shift8(k) == k \div Base
  IN  << n % Base, Shift8(n) % Base, Shift8(Shift8(n)) % Base,
         Shift8(Shift8(Shift8(n))) % Base >>

(* Four numbers shifted by 24, 16, 8 and 0 bits, and added.                  *)
ShiftedSum(c1, c2, c3, c4) == ((c1 * Base + c2) * Base + c3) * Base + c4

(* The chars are shifted and added as ints, and ntohl swaps the bytes of the *)
(* sum.                                                                      *)
CharToInt32(c) ==
  LET sum == ToUInt32(ShiftedSum(Signed(c[1]), Signed(c[2]), Signed(c[3]), Signed(c[4])))
      swapped == Int32ToChar(sum)
  IN  ShiftedSum(swapped[1], swapped[2], swapped[3], swapped[4])

(* The header of a frame; its md5 and its first and last byte are copied.    *)
NetPacketToChar(p) ==
  [version |-> Int32ToChar(p.version), header |-> p.header, tail |-> p.tail,
   check |-> p.check, type |-> Int32ToChar(p.type),
   datalen |-> Int32ToChar(p.datalen), reserve |-> Int32ToChar(p.reserve)]

CharToNetPacket(c) ==
  [version |-> CharToInt32(c.version), header |-> c.header, tail |-> c.tail,
   check |-> c.check, type |-> CharToInt32(c.type),
   datalen |-> CharToInt32(c.datalen), reserve |-> CharToInt32(c.reserve)]

(* PacketData puts a frame together; a frame without data, or whose data is  *)
(* NULL, has the check 0.  md5 is what openssl computes for the data.        *)
PacketData(p, data, md5) ==
  LET packet == [p EXCEPT !.check = IF p.datalen = 0 \/ data = <<>> THEN 0 ELSE md5]
  IN  [head |-> packet.header, packet |-> NetPacketToChar(packet),
       data |-> data, tail |-> packet.tail]

-----------------------------------------------------------------------------
(* CharToInt32 is meant to be the inverse of Int32ToChar.  It is, exactly    *)
(* for the numbers whose bytes but the lowest are below 128: a larger one,   *)
(* sign-extended, takes one away from the byte that is stored before it.     *)
Positive(c) == \A k \in 2 .. 4 : c[k] < Base \div 2

DecodesExactly(n) == CharToInt32(Int32ToChar(n)) = n <=> Positive(Int32ToChar(n))

(* So the header of a frame is read as PacketData was given it, with the     *)
(* check of the data, exactly if each of its numbers is such a number.       *)
HeaderDecodesExactly(p, data, md5) ==
  CharToNetPacket(PacketData(p, data, md5).packet)
      = [p EXCEPT !.check = IF p.datalen = 0 THEN 0 ELSE md5] <=>
    \A n \in {p.version, p.type, p.datalen, p.reserve} : Positive(Int32ToChar(n))
=============================================================================
