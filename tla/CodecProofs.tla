----------------------------- MODULE CodecProofs -----------------------------
(***************************************************************************)
(* What the conversions of NetBase and the messages of NetMessage give     *)
(* back, for every size of a byte, every class and every stream.           *)
(*                                                                         *)
(* Numbers.  To store a number and read its bytes back in the other order  *)
(* (Swap) is its own inverse, as a number is determined by its bytes       *)
(* (OfBytes); so it matters only whether the sum of the chars is the       *)
(* number that their bytes make: each sign-extended byte takes 1 away from *)
(* the next one, and together they never take away a multiple of 2^32      *)
(* (SumExact).                                                             *)
(*                                                                         *)
(* Messages.  A turn of the parser and a merge can change places           *)
(* (MergeTurn), so that a stream is read after another as if it stood      *)
(* alone (ParseConcat).  What is written is the fields, which are read one *)
(* by one (FieldsParsed), followed by the unknown chunks (ParseForeign).   *)
(***************************************************************************)
EXTENDS NetBase, NetMessage, FiniteSetTheorems, SequenceTheorems, WellFoundedInduction, TLAPS

(* Half of a byte's values are read as negative chars.                       *)
LEMMA HalfBase ==
  Base \in Nat /\ \E h \in Nat : h >= 1 /\ Base = 2 * h /\ Base \div 2 = h
<1>1. Base \in Nat /\ Base >= 2 /\ Base % 2 = 0
  BY BaseAssumption
<1>2. Base \div 2 \in Nat
  BY <1>1, SMT
<1>3. Base \div 2 >= 1 /\ Base = 2 * (Base \div 2)
  BY <1>1, SMT
<1> QED
  BY <1>1, <1>2, <1>3

(* A number is one byte and what is left when it is shifted out.             *)
LEMMA ShiftedOut ==
  ASSUME NEW q \in Int, NEW r \in Byte
  PROVE  (q * Base + r) \div Base = q /\ (q * Base + r) % Base = r
<1>1. Base \in Nat /\ Base > 0 /\ r \in 0 .. Base - 1
  BY BaseAssumption DEF Byte
<1> QED
  BY <1>1, SMT

LEMMA LowestByte ==
  ASSUME NEW n \in Nat
  PROVE  /\ n \div Base \in Nat /\ n % Base \in Byte
         /\ n = (n \div Base) * Base + (n % Base)
<1>1. Base \in Nat /\ Base > 0
  BY BaseAssumption
<1>2. n \div Base \in Nat
  BY <1>1, SMT
<1>3. n % Base \in Byte
  BY <1>1, SMT DEF Byte
<1>4. n = (n \div Base) * Base + (n % Base)
  BY <1>1, SMT
<1> QED
  BY <1>2, <1>3, <1>4

(* As many values as bytes: a sum of one byte more is below Base times the bound. *)
LEMMA Below ==
  ASSUME NEW n \in Nat, NEW bound \in Nat, n < bound, NEW r \in Byte
  PROVE  n * Base + r \in Nat /\ n * Base + r < bound * Base
<1>1. Base \in Nat /\ r \in Nat /\ r < Base
  BY BaseAssumption DEF Byte
<1>2. n * Base \in Nat /\ bound * Base \in Nat
  BY <1>1, SMT
<1>3. (bound - n) * Base >= Base
  BY <1>1, SMT
<1>4. (bound - n) * Base = bound * Base - n * Base
  BY <1>1, SMT
<1> QED
  BY <1>1, <1>2, <1>3, <1>4, SMT

LEMMA NotBelow ==
  ASSUME NEW n \in Nat, NEW bound \in Nat, NEW r \in Byte, n * Base + r < bound * Base
  PROVE  n < bound
<1>1. Base \in Nat /\ r \in Nat /\ Base > 0
  BY BaseAssumption DEF Byte
<1> SUFFICES ASSUME n >= bound PROVE FALSE
  OBVIOUS
<1>2. n * Base \in Nat /\ bound * Base \in Nat
  BY <1>1, SMT
<1>3. (n - bound) * Base >= 0
  BY <1>1, SMT
<1>4. (n - bound) * Base = n * Base - bound * Base
  BY <1>1, SMT
<1> QED
  BY <1>1, <1>2, <1>3, <1>4, SMT

(* The bytes of a number that was put together from bytes are these.         *)
LEMMA BytesOf ==
  ASSUME NEW w \in Byte, NEW x \in Byte, NEW y \in Byte, NEW z \in Byte
  PROVE  /\ ShiftedSum(w, x, y, z) \in Word32
         /\ Int32ToChar(ShiftedSum(w, x, y, z)) = <<z, y, x, w>>
<1> DEFINE m2 == w * Base + x
           m3 == m2 * Base + y
           m == m3 * Base + z
<1>1. Base \in Nat /\ w \in Nat /\ w < Base
  BY BaseAssumption DEF Byte
<1>2. m2 \in Nat /\ m2 < Base * Base
  BY <1>1, Below
<1>3. Base * Base \in Nat /\ Base * Base * Base \in Nat
  BY <1>1
<1> HIDE DEF m2
<1>4. m3 \in Nat /\ m3 < Base * Base * Base
  BY <1>2, <1>3, Below
<1> HIDE DEF m3
<1>5. m \in Nat /\ m < Modulus
  BY <1>3, <1>4, Below DEF Modulus
<1>6. m \in Word32
  BY <1>1, <1>5 DEF Word32, Modulus
<1>7. m \div Base = m3 /\ m % Base = z
  BY <1>4, ShiftedOut
<1>8. m3 \div Base = m2 /\ m3 % Base = y
  BY <1>2, ShiftedOut DEF m3
<1>9. m2 \div Base = w /\ m2 % Base = x
  BY <1>1, ShiftedOut DEF m2
<1>10. w % Base = w
  <2>1. 0 * Base + w = w
    BY <1>1
  <2>2. (0 * Base + w) % Base = w
    BY ShiftedOut
  <2> QED  BY <2>1, <2>2
<1> HIDE DEF m
<1>11. Int32ToChar(m) = <<z, y, x, w>>
  BY <1>7, <1>8, <1>9, <1>10 DEF Int32ToChar
<1> QED
  BY <1>6, <1>11 DEF m, m3, m2, ShiftedSum

(* A number is what its bytes make.                                          *)
LEMMA OfBytes ==
  ASSUME NEW n \in Word32
  PROVE  \E w, x, y, z \in Byte : n = ShiftedSum(w, x, y, z)
<1>1. Base \in Nat /\ Base * Base \in Nat /\ Base * Base * Base \in Nat /\ Modulus \in Nat
  BY BaseAssumption DEF Modulus
<1>2. n \in Nat /\ n < (Base * Base * Base) * Base
  BY <1>1 DEF Word32, Modulus
<1>3. PICK p \in Nat, z \in Byte : n = p * Base + z
  BY <1>2, LowestByte
<1>4. p < (Base * Base) * Base
  BY <1>1, <1>2, <1>3, NotBelow
<1>5. PICK q \in Nat, y \in Byte : p = q * Base + y
  BY LowestByte
<1>6. q < Base * Base
  BY <1>1, <1>4, <1>5, NotBelow
<1>7. PICK w \in Nat, x \in Byte : q = w * Base + x
  BY LowestByte
<1>8. w < Base
  BY <1>1, <1>6, <1>7, NotBelow
<1>9. w \in Byte
  BY <1>1, <1>8 DEF Byte
<1> QED
  BY <1>3, <1>5, <1>7, <1>9 DEF ShiftedSum

(* A number with its bytes in the other order.                               *)
Swap(n) == LET c == Int32ToChar(n) IN ShiftedSum(c[1], c[2], c[3], c[4])

LEMMA SwapBytes ==
  ASSUME NEW w \in Byte, NEW x \in Byte, NEW y \in Byte, NEW z \in Byte
  PROVE  Swap(ShiftedSum(w, x, y, z)) = ShiftedSum(z, y, x, w)
<1>1. Int32ToChar(ShiftedSum(w, x, y, z)) = <<z, y, x, w>>
  BY BytesOf
<1> QED
  BY <1>1 DEF Swap

LEMMA SwapTwice ==
  ASSUME NEW n \in Word32
  PROVE  Swap(n) \in Word32 /\ Swap(Swap(n)) = n
<1>1. PICK w, x, y, z \in Byte : n = ShiftedSum(w, x, y, z)
  BY OfBytes
<1>2. Swap(n) = ShiftedSum(z, y, x, w)
  BY <1>1, SwapBytes
<1>3. Swap(ShiftedSum(z, y, x, w)) = ShiftedSum(w, x, y, z)
  BY SwapBytes
<1> QED
  BY <1>1, <1>2, <1>3, BytesOf

(* The remainder of a multiple and something less.                           *)
LEMMA Remainder ==
  ASSUME NEW k \in Nat, NEW q \in Int, NEW r \in 0 .. k - 1
  PROVE  (q * k + r) % k = r
<1>1. k > 0
  OBVIOUS
<1> QED
  BY <1>1, SMT

(* What the sign of its byte takes away from the next one.                   *)
Borrow(c) == IF c < Base \div 2 THEN 0 ELSE 1

LEMMA SignedByte ==
  ASSUME NEW c \in Byte
  PROVE  Borrow(c) \in {0, 1} /\ Borrow(c) \in Byte /\ Signed(c) = c - Borrow(c) * Base
<1>1. Base \in Nat /\ Base >= 2 /\ c \in Nat
  BY BaseAssumption DEF Byte
<1>2. CASE c < Base \div 2
  BY <1>1, <1>2 DEF Borrow, Signed, Byte
<1>3. CASE ~(c < Base \div 2)
  BY <1>1, <1>3 DEF Borrow, Signed, Byte
<1> QED
  BY <1>2, <1>3

(* Borrows pass on when a byte is added.                                     *)
LEMMA BorrowOn ==
  ASSUME NEW p \in Int, NEW q \in Int, NEW c \in Byte
  PROVE  (p - q * Base) * Base + Signed(c) = (p * Base + c) - (q * Base + Borrow(c)) * Base
<1>1. PICK b \in Int : b = Borrow(c) /\ Signed(c) = c - b * Base
  BY SignedByte
<1>2. Base \in Int /\ c \in Int
  BY BaseAssumption DEF Byte
<1> QED
  BY <1>1, <1>2, SMT

(* The sum of the signed bytes, as a number of 32 bits, is the number the    *)
(* bytes make, exactly if only the first of them may be negative.            *)
LEMMA SumExact ==
  ASSUME NEW w \in Byte, NEW x \in Byte, NEW y \in Byte, NEW z \in Byte
  PROVE  LET sum == ToUInt32(ShiftedSum(Signed(w), Signed(x), Signed(y), Signed(z)))
         IN  /\ sum \in Word32
             /\ sum = ShiftedSum(w, x, y, z)
                  <=> Borrow(x) = 0 /\ Borrow(y) = 0 /\ Borrow(z) = 0
<1> DEFINE m == ShiftedSum(w, x, y, z)
           total == ShiftedSum(Signed(w), Signed(x), Signed(y), Signed(z))
<1>1. PICK b1, b2, b3, b4 \in Byte :
        /\ b1 = Borrow(w) /\ b2 = Borrow(x) /\ b3 = Borrow(y) /\ b4 = Borrow(z)
        /\ Signed(w) = w - b1 * Base
  BY SignedByte
<1>2. Base \in Nat /\ Base >= 2 /\ Base * Base \in Nat /\ Base * Base * Base \in Nat
  BY BaseAssumption
<1>3. w \in Int /\ x \in Int /\ y \in Int /\ z \in Int /\ Byte \subseteq Nat
  BY <1>2 DEF Byte
<1> DEFINE off3 == (b2 * Base + b3) * Base + b4
           off == off3 * Base
<1>4. total = m - b1 * Modulus - off
  <2>1. Signed(w) * Base + Signed(x) = (w * Base + x) - (b1 * Base + b2) * Base
    BY <1>1, <1>3, BorrowOn
  <2>2. PICK p2, q2 \in Int : p2 = w * Base + x /\ q2 = b1 * Base + b2
    BY <1>2, <1>3
  <2>3. (Signed(w) * Base + Signed(x)) * Base + Signed(y)
          = (p2 * Base + y) - (q2 * Base + b3) * Base
    BY <1>1, <2>1, <2>2, BorrowOn
  <2>4. PICK p3, q3 \in Int : p3 = p2 * Base + y /\ q3 = q2 * Base + b3
    BY <1>2, <1>3
  <2>5. ((Signed(w) * Base + Signed(x)) * Base + Signed(y)) * Base + Signed(z)
          = (p3 * Base + z) - (q3 * Base + b4) * Base
    BY <1>1, <2>3, <2>4, BorrowOn
  <2>6. total = m - (q3 * Base + b4) * Base
    BY <2>2, <2>4, <2>5 DEF ShiftedSum
  <2>7. (q3 * Base + b4) * Base = b1 * Modulus + off
    <3>1. b1 \in Int /\ b2 \in Int /\ b3 \in Int /\ b4 \in Int
      BY <1>3
    <3> QED
      BY <1>2, <2>2, <2>4, <3>1, SMT DEF Modulus
  <2>8. m \in Int /\ b1 * Modulus \in Int /\ off \in Int
    BY <1>2, <1>3 DEF ShiftedSum, Modulus
  <2> QED
    BY <2>6, <2>7, <2>8
<1>5. m \in Word32
  BY BytesOf
<1>6. off \in Nat /\ off < Modulus
  <2>1. b2 \in Nat /\ b2 < Base
    BY <1>2 DEF Byte
  <2>2. b2 * Base + b3 \in Nat /\ b2 * Base + b3 < Base * Base
    BY <1>2, <2>1, Below
  <2>3. PICK o2 \in Nat : o2 = b2 * Base + b3 /\ o2 < Base * Base
    BY <2>2
  <2>4. off3 \in Nat /\ off3 < Base * Base * Base
    BY <1>2, <2>3, Below
  <2>5. PICK o3 \in Nat : o3 = off3 /\ o3 < Base * Base * Base
    BY <2>4
  <2>6. 0 \in Byte
    BY <1>2 DEF Byte
  <2>7. o3 * Base + 0 \in Nat /\ o3 * Base + 0 < (Base * Base * Base) * Base
    BY <1>2, <2>5, <2>6, Below
  <2>8. o3 * Base + 0 = o3 * Base
    BY <1>2
  <2> QED
    BY <2>5, <2>7, <2>8 DEF Modulus
<1>7. off = 0 <=> b2 = 0 /\ b3 = 0 /\ b4 = 0
  <2>1. b2 \in Nat /\ b3 \in Nat /\ b4 \in Nat
    BY <1>3
  <2>2. ASSUME NEW p \in Nat, NEW q \in Nat PROVE p * Base + q = 0 <=> p = 0 /\ q = 0
    BY <1>2, SMT
  <2>3. b2 * Base + b3 \in Nat /\ off3 \in Nat
    BY <1>2, <2>1
  <2>4. off3 = 0 <=> b2 * Base + b3 = 0 /\ b4 = 0
    BY <2>1, <2>2, <2>3
  <2>5. b2 * Base + b3 = 0 <=> b2 = 0 /\ b3 = 0
    BY <2>1, <2>2
  <2>6. off3 * Base = 0 <=> off3 = 0
    BY <1>2, <2>3, SMT
  <2> QED
    BY <2>4, <2>5, <2>6
<1> HIDE DEF off, off3, m, total
<1>8. Modulus \in Nat /\ m \in Nat /\ m < Modulus /\ b1 \in Int
  BY <1>2, <1>3, <1>5 DEF Word32, Modulus
<1>9. total % Modulus = IF off <= m THEN m - off ELSE m - off + Modulus
  <2>1. CASE off <= m
    <3>1. m - off \in 0 .. Modulus - 1 /\ -b1 \in Int
      BY <1>6, <1>8, <2>1
    <3>2. ((-b1) * Modulus + (m - off)) % Modulus = m - off
      BY <1>8, <3>1, Remainder
    <3>3. total = (-b1) * Modulus + (m - off)
      BY <1>4, <1>6, <1>8, SMT
    <3> QED  BY <2>1, <3>2, <3>3
  <2>2. CASE ~(off <= m)
    <3>1. m - off + Modulus \in 0 .. Modulus - 1 /\ -b1 - 1 \in Int
      BY <1>6, <1>8, <2>2
    <3>2. ((-b1 - 1) * Modulus + (m - off + Modulus)) % Modulus = m - off + Modulus
      BY <1>8, <3>1, Remainder
    <3>3. total = (-b1 - 1) * Modulus + (m - off + Modulus)
      BY <1>4, <1>6, <1>8, SMT
    <3> QED  BY <2>2, <3>2, <3>3
  <2> QED  BY <2>1, <2>2
<1>10. total % Modulus \in 0 .. Modulus - 1 /\ (total % Modulus = m <=> off = 0)
  BY <1>6, <1>8, <1>9
<1> QED
  BY <1>1, <1>7, <1>10 DEF total, m, ToUInt32, Word32

(* What CharToInt32 makes of four bytes: their sum as 32 bits, swapped.      *)
LEMMA ReadBytes ==
  ASSUME NEW c, c[1] \in Byte, c[2] \in Byte, c[3] \in Byte, c[4] \in Byte
  PROVE  /\ CharToInt32(c) \in Word32
         /\ CharToInt32(c) = Swap(ShiftedSum(c[1], c[2], c[3], c[4])) <=> Positive(c)
<1> DEFINE sum == ToUInt32(ShiftedSum(Signed(c[1]), Signed(c[2]), Signed(c[3]), Signed(c[4])))
           m == ShiftedSum(c[1], c[2], c[3], c[4])
<1>1. /\ sum \in Word32
      /\ sum = m <=> Borrow(c[2]) = 0 /\ Borrow(c[3]) = 0 /\ Borrow(c[4]) = 0
  BY SumExact
<1>2. m \in Word32
  BY BytesOf
<1>3. CharToInt32(c) = Swap(sum)
  BY DEF CharToInt32, Swap
<1> HIDE DEF sum, m
<1>4. Swap(sum) \in Word32 /\ (Swap(sum) = Swap(m) <=> sum = m)
  BY <1>1, <1>2, SwapTwice
<1>5. Positive(c) <=> Borrow(c[2]) = 0 /\ Borrow(c[3]) = 0 /\ Borrow(c[4]) = 0
  <2>1. \A k : Borrow(c[k]) = 0 <=> c[k] < Base \div 2
    BY DEF Borrow
  <2>2. 2 .. 4 = {2, 3, 4}
    OBVIOUS
  <2> QED
    BY <2>1, <2>2 DEF Positive
<1> QED
  BY <1>1, <1>3, <1>4, <1>5 DEF m

(* A number of 32 bits is read as it was written exactly if its bytes but    *)
(* the lowest are below 128 (Int32ToChar, CharToInt32).                      *)
THEOREM CharsDecode ==
  ASSUME NEW n \in Word32
  PROVE  DecodesExactly(n)
<1>1. PICK w, x, y, z \in Byte : n = ShiftedSum(w, x, y, z)
  BY OfBytes
<1>2. PICK c : c = Int32ToChar(n)
  OBVIOUS
<1>3. c[1] = z /\ c[2] = y /\ c[3] = x /\ c[4] = w
  BY <1>1, <1>2, BytesOf
<1>4. CharToInt32(c) = Swap(ShiftedSum(z, y, x, w)) <=> Positive(c)
  BY <1>3, ReadBytes
<1>5. Swap(ShiftedSum(z, y, x, w)) = n
  BY <1>1, SwapBytes
<1> QED
  BY <1>2, <1>4, <1>5 DEF DecodesExactly

(* The header of every frame is read as PacketData was given it, exactly if  *)
(* that holds for each of its numbers (NetPacketToChar, CharToNetPacket).    *)
THEOREM HeaderDecodes ==
  ASSUME NEW Chars, NEW Checks, NEW md5, NEW data, data # <<>>,
         NEW p \in [version : Word32, header : Chars, tail : Chars, check : Checks,
                    type : Word32, datalen : Word32, reserve : Word32]
  PROVE  HeaderDecodesExactly(p, data, md5)
<1> DEFINE check == IF p.datalen = 0 THEN 0 ELSE md5
           read == [version |-> CharToInt32(Int32ToChar(p.version)), header |-> p.header,
                    tail |-> p.tail, check |-> check,
                    type |-> CharToInt32(Int32ToChar(p.type)),
                    datalen |-> CharToInt32(Int32ToChar(p.datalen)),
                    reserve |-> CharToInt32(Int32ToChar(p.reserve))]
<1>1. CharToNetPacket(PacketData(p, data, md5).packet) = read
  BY DEF PacketData, NetPacketToChar, CharToNetPacket
<1>2. [p EXCEPT !.check = check]
        = [version |-> p.version, header |-> p.header, tail |-> p.tail, check |-> check,
           type |-> p.type, datalen |-> p.datalen, reserve |-> p.reserve]
  OBVIOUS
<1>3. \A n \in {p.version, p.type, p.datalen, p.reserve} :
        CharToInt32(Int32ToChar(n)) = n <=> Positive(Int32ToChar(n))
  BY CharsDecode DEF DecodesExactly
<1>4. read = [p EXCEPT !.check = check]
        <=> \A n \in {p.version, p.type, p.datalen, p.reserve} : CharToInt32(Int32ToChar(n)) = n
  BY <1>2
<1> QED
  BY <1>1, <1>3, <1>4 DEF HeaderDecodesExactly

-----------------------------------------------------------------------------
(* What holds at the start and with each number also for the next one holds  *)
(* up to the last.                                                           *)
LEMMA UpTo ==
  ASSUME NEW n \in Nat, NEW S, 0 \in S, \A i \in 1 .. n : i - 1 \in S => i \in S
  PROVE  0 .. n \subseteq S
<1> DEFINE R == OpToRel(<, Nat)
           T == (0 .. n) \ S
<1>1. SUFFICES ASSUME T # {} PROVE FALSE
  OBVIOUS
<1>2. IsWellFoundedOn(R, Nat)
  BY NatLessThanWellFounded
<1>3. T \subseteq Nat
  OBVIOUS
<1>4. PICK x \in T : \A y \in T : ~ (<<y, x>> \in R)
  <2> HIDE DEF R, T
  <2> QED  BY <1>1, <1>2, <1>3, WFMin, Zenon
<1>5. \A y \in T : ~(y < x)
  BY <1>3, <1>4 DEF OpToRel
<1>6. x \in 1 .. n /\ x - 1 \in 0 .. n
  <2>1. x # 0
    BY <1>4
  <2>2. x \in 0 .. n
    BY <1>4
  <2> QED  BY <2>1, <2>2
<1>7. x - 1 \in S
  BY <1>5, <1>6
<1> QED
  BY <1>4, <1>6, <1>7

-----------------------------------------------------------------------------
FirstTurn(m) == [message |-> m, state |-> "parsing"]

LEMMA TurnsDefined ==
  ASSUME NEW C, NEW class, NEW m, NEW s \in Seq(C)
  PROVE  Turns(class, m, s)
           = [i \in 0 .. Len(s) |->
                IF i = 0 THEN FirstTurn(m)
                ELSE ParseChunk(class, Turns(class, m, s)[i - 1], s[i])]
<1> DEFINE Turn(g, i) == IF i = 0 THEN FirstTurn(m) ELSE ParseChunk(class, g[i - 1], s[i])
           S == {k \in 0 .. Len(s) : \E g : g = [i \in 0 .. k |-> Turn(g, i)]}
<1>1. Len(s) \in Nat
  OBVIOUS
<1>2. 0 \in S
  <2> DEFINE g == [i \in 0 .. 0 |-> FirstTurn(m)]
  <2>1. g = [i \in 0 .. 0 |-> Turn(g, i)]
    OBVIOUS
  <2>2. 0 \in 0 .. Len(s)
    BY <1>1
  <2> HIDE DEF g, Turn
  <2> QED  BY <2>1, <2>2, Zenon
<1>3. ASSUME NEW k \in 1 .. Len(s), k - 1 \in S PROVE k \in S
  <2>1. PICK g : g = [i \in 0 .. k - 1 |-> Turn(g, i)]
    BY <1>3
  <2> DEFINE h == [i \in 0 .. k |-> Turn(g, i)]
  <2>2. \A i \in 0 .. k - 1 : h[i] = g[i]
    <3> HIDE DEF Turn
    <3>1. \A i \in 0 .. k - 1 : g[i] = Turn(g, i)
      BY <2>1, Zenon
    <3>2. 0 .. k - 1 \subseteq 0 .. k
      BY <1>1
    <3> QED  BY <3>1, <3>2
  <2>3. \A i \in 0 .. k : Turn(h, i) = Turn(g, i)
    <3>1. \A i \in 0 .. k : i = 0 \/ i - 1 \in 0 .. k - 1
      BY <1>1
    <3> HIDE DEF h
    <3> QED  BY <2>2, <3>1
  <2>4. h = [i \in 0 .. k |-> Turn(h, i)]
    <3> HIDE DEF Turn
    <3> QED  BY <2>3
  <2>5. k \in 0 .. Len(s)
    BY <1>1
  <2> HIDE DEF h, Turn
  <2> QED  BY <2>4, <2>5, Zenon
<1>4. Len(s) \in S
  <2> HIDE DEF S
  <2> 0 .. Len(s) \subseteq S
    BY <1>1, <1>2, <1>3, UpTo
  <2> QED  BY <1>1
<1>5. \E g : g = [i \in 0 .. Len(s) |-> Turn(g, i)]
  BY <1>4
<1>6. Turns(class, m, s) = CHOOSE g : g = [i \in 0 .. Len(s) |-> Turn(g, i)]
  BY DEF Turns, FirstTurn
<1> HIDE DEF Turn
<1>7. Turns(class, m, s) = [i \in 0 .. Len(s) |-> Turn(Turns(class, m, s), i)]
  BY <1>5, <1>6
<1> QED
  BY <1>7 DEF Turn

(* The first turn, and each further one.                                     *)
LEMMA TurnsAt ==
  ASSUME NEW C, NEW class, NEW m, NEW s \in Seq(C)
  PROVE  /\ Turns(class, m, s)[0] = FirstTurn(m)
         /\ \A i \in 1 .. Len(s) :
              Turns(class, m, s)[i] = ParseChunk(class, Turns(class, m, s)[i - 1], s[i])
<1> DEFINE T == Turns(class, m, s)
<1>1. T = [i \in 0 .. Len(s) |->
             IF i = 0 THEN FirstTurn(m) ELSE ParseChunk(class, T[i - 1], s[i])]
  BY TurnsDefined
<1> HIDE DEF T
<1>2. 0 \in 0 .. Len(s) /\ \A i \in 1 .. Len(s) : i \in 0 .. Len(s) /\ i # 0
  OBVIOUS
<1> QED
  BY <1>1, <1>2 DEF T

(* Streams that agree at the beginning are read alike there.                 *)
Agree(s, t, n) == n \in 0 .. Len(s) /\ n <= Len(t) /\ \A i \in 1 .. n : s[i] = t[i]

LEMMA SameTurns ==
  ASSUME NEW C, NEW class, NEW m, NEW s \in Seq(C), NEW t \in Seq(C),
         NEW n, Agree(s, t, n)
  PROVE  \A i \in 0 .. n : Turns(class, m, s)[i] = Turns(class, m, t)[i]
<1> DEFINE S == {i \in 0 .. n : Turns(class, m, s)[i] = Turns(class, m, t)[i]}
<1>1. n \in Nat /\ 1 .. n \subseteq 1 .. Len(s) /\ 1 .. n \subseteq 1 .. Len(t)
  BY DEF Agree
<1>2. 0 \in S
  BY <1>1, TurnsAt
<1>3. ASSUME NEW i \in 1 .. n, i - 1 \in S PROVE i \in S
  <2>1. Turns(class, m, s)[i] = ParseChunk(class, Turns(class, m, s)[i - 1], s[i])
    BY <1>1, TurnsAt
  <2>2. Turns(class, m, t)[i] = ParseChunk(class, Turns(class, m, t)[i - 1], t[i])
    BY <1>1, TurnsAt
  <2>3. i \in 0 .. n
    BY <1>1
  <2> QED
    BY <1>3, <2>1, <2>2, <2>3 DEF Agree
<1>4. 0 .. n \subseteq S
  <2> HIDE DEF S
  <2> QED  BY <1>1, <1>2, <1>3, UpTo
<1> QED
  BY <1>4

(* One chunk more is one turn more.                                          *)
LEMMA ParseAppend ==
  ASSUME NEW C, NEW class, NEW m, NEW s \in Seq(C), NEW c \in C
  PROVE  MergePartialFromCodedStream(class, m, Append(s, c))
           = ParseChunk(class, MergePartialFromCodedStream(class, m, s), c)
<1> DEFINE t == Append(s, c)
<1>1. /\ t \in Seq(C) /\ Len(t) = Len(s) + 1 /\ t[Len(t)] = c
      /\ \A i \in 1 .. Len(s) : s[i] = t[i]
  OBVIOUS
<1>2. Len(s) \in 0 .. Len(s) /\ Agree(s, t, Len(s))
  BY <1>1 DEF Agree
<1> HIDE DEF t
<1>3. Turns(class, m, s)[Len(s)] = Turns(class, m, t)[Len(s)]
  BY <1>1, <1>2, SameTurns
<1>4. Len(t) \in 1 .. Len(t) /\ Len(t) - 1 = Len(s)
  BY <1>1
<1>5. Turns(class, m, t)[Len(t)] = ParseChunk(class, Turns(class, m, t)[Len(s)], c)
  BY <1>1, <1>4, TurnsAt
<1> QED
  BY <1>3, <1>5 DEF MergePartialFromCodedStream, t

-----------------------------------------------------------------------------
(* What a message that was read holds, if the chunks are of C and their      *)
(* values of V.                                                              *)
Held(class, C, V) ==
  [value : [DOMAIN class -> V], has_bits : SUBSET DOMAIN class, unknown_fields : Seq(C)]
Values(C) == {c.value : c \in C} \cup {0}
States == {"parsing", "end_group", "failure"}

LEMMA ClearHeld ==
  ASSUME NEW class, NEW C
  PROVE  Clear(class) \in Held(class, C, Values(C))
BY DEF Clear, SharedCtor, Held, Values

LEMMA SameMessage ==
  ASSUME NEW class, NEW C, NEW V, NEW m \in Held(class, C, V), NEW n \in Held(class, C, V),
         \A k \in DOMAIN class : m.value[k] = n.value[k],
         m.has_bits = n.has_bits, m.unknown_fields = n.unknown_fields
  PROVE  m = n
<1>1. m.value = n.value
  BY DEF Held
<1> QED
  BY <1>1 DEF Held

(* What a field that is set, or a chunk that is kept, changes of a message.  *)
LEMMA SetFields ==
  ASSUME NEW class, NEW C, NEW V, NEW m \in Held(class, C, V), NEW k \in DOMAIN class, NEW v \in V
  PROVE  /\ Set(m, k, v) \in Held(class, C, V)
         /\ \A j \in DOMAIN class :
              Set(m, k, v).value[j] = IF j = k THEN v ELSE m.value[j]
         /\ Set(m, k, v).has_bits = m.has_bits \cup {k}
         /\ Set(m, k, v).unknown_fields = m.unknown_fields
<1>1. PICK f \in [DOMAIN class -> V], h \in SUBSET DOMAIN class, u \in Seq(C) :
        m = [value |-> f, has_bits |-> h, unknown_fields |-> u]
  BY DEF Held
<1>2. PICK n : n = [m EXCEPT !.value[k] = v]
  OBVIOUS
<1>3. PICK g, i : g = [f EXCEPT ![k] = v] /\ i = h \cup {k}
  OBVIOUS
<1>4. n = [value |-> g, has_bits |-> h, unknown_fields |-> u]
  BY <1>1, <1>2, <1>3
<1>5. PICK s : s = Set(m, k, v)
  OBVIOUS
<1>6. s = [n EXCEPT !.has_bits = i]
  BY <1>1, <1>2, <1>3, <1>5 DEF Set
<1>7. s = [value |-> g, has_bits |-> i, unknown_fields |-> u]
  BY <1>4, <1>6
<1>8. g \in [DOMAIN class -> V] /\ i \in SUBSET DOMAIN class
  BY <1>3
<1>9. \A j \in DOMAIN class : g[j] = IF j = k THEN v ELSE f[j]
  BY <1>3
<1>10. s \in Held(class, C, V)
  BY <1>7, <1>8 DEF Held
<1> QED
  BY <1>1, <1>3, <1>5, <1>7, <1>9, <1>10

LEMMA KeepFields ==
  ASSUME NEW class, NEW C, NEW V, NEW m \in Held(class, C, V), NEW c \in C
  PROVE  /\ Keep(m, c) \in Held(class, C, V)
         /\ Keep(m, c).value = m.value /\ Keep(m, c).has_bits = m.has_bits
         /\ Keep(m, c).unknown_fields = Append(m.unknown_fields, c)
<1>1. PICK f \in [DOMAIN class -> V], h \in SUBSET DOMAIN class, u \in Seq(C) :
        m = [value |-> f, has_bits |-> h, unknown_fields |-> u]
  BY DEF Held
<1>2. Append(u, c) \in Seq(C)
  OBVIOUS
<1>3. PICK w, n : w = Append(u, c) /\ n = Keep(m, c)
  OBVIOUS
<1>4. n = [value |-> f, has_bits |-> h, unknown_fields |-> w]
  BY <1>1, <1>3 DEF Keep
<1>5. n \in Held(class, C, V)
  BY <1>2, <1>3, <1>4 DEF Held
<1> QED
  BY <1>1, <1>3, <1>4, <1>5

(* A turn leaves the message as it was, sets one field or keeps the chunk.   *)
LEMMA TurnCases ==
  ASSUME NEW class, NEW p, NEW c
  PROVE  LET m == p.message
             q == ParseChunk(class, p, c)
             known == c.field \in DOMAIN class /\ c.wire = class[c.field]
             lost == c.cut /\ c.wire # "bytes"
             state == IF c.cut THEN "failure" ELSE "parsing"
         IN  /\ p.state # "parsing" => q = p
             /\ p.state = "parsing" /\ c.wire = "end_group" => q = [p EXCEPT !.state = "end_group"]
             /\ p.state = "parsing" /\ c.wire # "end_group" =>
                  /\ lost => q = [message |-> m, state |-> state]
                  /\ ~lost /\ known => q = [message |-> Set(m, c.field, c.value), state |-> state]
                  /\ ~lost /\ ~known =>
                       q = [message |-> Keep(m, c), state |-> state]
BY DEF ParseChunk

LEMMA TurnHeld ==
  ASSUME NEW class, NEW C, NEW V, NEW p \in [message : Held(class, C, V), state : States],
         NEW c \in C, c.value \in V
  PROVE  ParseChunk(class, p, c) \in [message : Held(class, C, V), state : States]
<1> DEFINE m == p.message
           q == ParseChunk(class, p, c)
           known == c.field \in DOMAIN class /\ c.wire = class[c.field]
           lost == c.cut /\ c.wire # "bytes"
           state == IF c.cut THEN "failure" ELSE "parsing"
           kept == Keep(m, c)
<1>1. m \in Held(class, C, V) /\ state \in States
  BY DEF States
<1>2. known => Set(m, c.field, c.value) \in Held(class, C, V)
  BY <1>1, SetFields
<1>3. kept \in Held(class, C, V)
  BY <1>1, KeepFields
<1>4. /\ p.state # "parsing" => q = p
      /\ p.state = "parsing" /\ c.wire = "end_group" => q = [p EXCEPT !.state = "end_group"]
      /\ p.state = "parsing" /\ c.wire # "end_group" =>
           /\ lost => q = [message |-> m, state |-> state]
           /\ ~lost /\ known => q = [message |-> Set(m, c.field, c.value), state |-> state]
           /\ ~lost /\ ~known => q = [message |-> kept, state |-> state]
  BY TurnCases
<1> HIDE DEF m, q, known, lost, state, kept
<1>5. [p EXCEPT !.state = "end_group"] \in [message : Held(class, C, V), state : States]
  BY DEF States
<1>6. q \in [message : Held(class, C, V), state : States]
  BY <1>1, <1>2, <1>3, <1>4, <1>5
<1> QED
  BY <1>6 DEF q

(* A message is always one of its class, whatever was read.                  *)
LEMMA TurnsHeld ==
  ASSUME NEW class, NEW C, NEW s \in Seq(C), NEW m \in Held(class, C, Values(C))
  PROVE  \A i \in 0 .. Len(s) :
           Turns(class, m, s)[i] \in [message : Held(class, C, Values(C)), state : States]
<1> DEFINE P == [message : Held(class, C, Values(C)), state : States]
           S == {i \in 0 .. Len(s) : Turns(class, m, s)[i] \in P}
<1>1. 0 \in S
  <2>1. FirstTurn(m) \in P
    BY DEF FirstTurn, States
  <2>2. 0 \in 0 .. Len(s)
    OBVIOUS
  <2> HIDE DEF P
  <2> QED  BY <2>1, <2>2, TurnsAt
<1>2. ASSUME NEW i \in 1 .. Len(s), i - 1 \in S PROVE i \in S
  <2>1. s[i] \in C /\ i \in 0 .. Len(s)
    OBVIOUS
  <2>2. s[i].value \in Values(C)
    BY <2>1 DEF Values
  <2>3. PICK p : p = Turns(class, m, s)[i - 1]
    OBVIOUS
  <2>4. p \in P
    BY <1>2, <2>3
  <2>5. PICK c \in C : c = s[i] /\ c.value \in Values(C)
    BY <2>1, <2>2
  <2>6. ParseChunk(class, p, c) \in P
    BY <2>4, <2>5, TurnHeld
  <2>7. Turns(class, m, s)[i] = ParseChunk(class, p, c)
    BY <2>3, <2>5, TurnsAt
  <2> HIDE DEF P
  <2> QED  BY <2>1, <2>6, <2>7
<1>3. 0 .. Len(s) \subseteq S
  <2>1. Len(s) \in Nat
    OBVIOUS
  <2> HIDE DEF S
  <2> QED  BY <1>1, <1>2, <2>1, UpTo
<1> QED
  BY <1>3

-----------------------------------------------------------------------------
(* Merging.  What one message holds, with what was read for another one.     *)
Merged(a, p) == [message |-> MergeFrom(a, p.message), state |-> p.state]

MergeOf(class, C, V, a, m, x) ==
  /\ x \in Held(class, C, V)
  /\ x = MergeFrom(a, m)
  /\ \A j \in DOMAIN class : x.value[j] = IF j \in m.has_bits THEN m.value[j] ELSE a.value[j]
  /\ x.has_bits = a.has_bits \cup m.has_bits
  /\ x.unknown_fields = a.unknown_fields \o m.unknown_fields
SetOf(class, C, V, m, k, v, x) ==
  /\ x \in Held(class, C, V)
  /\ x = Set(m, k, v)
  /\ \A j \in DOMAIN class : x.value[j] = IF j = k THEN v ELSE m.value[j]
  /\ x.has_bits = m.has_bits \cup {k}
  /\ x.unknown_fields = m.unknown_fields
KeepOf(class, C, V, m, c, x) ==
  /\ x \in Held(class, C, V)
  /\ x = Keep(m, c)
  /\ x.value = m.value /\ x.has_bits = m.has_bits
  /\ x.unknown_fields = Append(m.unknown_fields, c)

LEMMA IsSetOf ==
  ASSUME NEW class, NEW C, NEW V, NEW m \in Held(class, C, V), NEW k \in DOMAIN class, NEW v \in V
  PROVE  SetOf(class, C, V, m, k, v, Set(m, k, v))
BY SetFields DEF SetOf

LEMMA IsKeepOf ==
  ASSUME NEW class, NEW C, NEW V, NEW m \in Held(class, C, V), NEW c \in C
  PROVE  KeepOf(class, C, V, m, c, Keep(m, c))
BY KeepFields DEF KeepOf

LEMMA IsMergeOf ==
  ASSUME NEW class, NEW C, NEW V, NEW a \in Held(class, C, V), NEW m \in Held(class, C, V)
  PROVE  MergeOf(class, C, V, a, m, MergeFrom(a, m))
<1>1. /\ a.value \in [DOMAIN class -> V] /\ a.has_bits \in SUBSET DOMAIN class
      /\ a.unknown_fields \in Seq(C)
      /\ m.value \in [DOMAIN class -> V] /\ m.has_bits \in SUBSET DOMAIN class
      /\ m.unknown_fields \in Seq(C)
  BY DEF Held
<1>2. DOMAIN a.value = DOMAIN class
  BY <1>1
<1>3. PICK f, h, u :
        /\ f = [k \in DOMAIN class |-> IF k \in m.has_bits THEN m.value[k] ELSE a.value[k]]
        /\ h = a.has_bits \cup m.has_bits
        /\ u = a.unknown_fields \o m.unknown_fields
  OBVIOUS
<1>4. MergeFrom(a, m) = [value |-> f, has_bits |-> h, unknown_fields |-> u]
  BY <1>2, <1>3 DEF MergeFrom
<1>5. f \in [DOMAIN class -> V] /\ h \in SUBSET DOMAIN class
  BY <1>1, <1>3
<1>6. u \in Seq(C)
  BY <1>1, <1>3
<1>7. \A j \in DOMAIN class : f[j] = IF j \in m.has_bits THEN m.value[j] ELSE a.value[j]
  BY <1>3
<1>8. PICK mm : mm = MergeFrom(a, m)
  OBVIOUS
<1>9. mm \in Held(class, C, V)
  BY <1>4, <1>5, <1>6, <1>8 DEF Held
<1>10. mm.value = f /\ mm.has_bits = h /\ mm.unknown_fields = u
  BY <1>4, <1>8
<1>11. MergeOf(class, C, V, a, m, mm)
  BY <1>3, <1>7, <1>8, <1>9, <1>10 DEF MergeOf
<1> QED
  BY <1>8, <1>11

(* Nothing is merged from an empty message.                                  *)
LEMMA MergeClear ==
  ASSUME NEW class, NEW C, NEW V, 0 \in V, NEW a \in Held(class, C, V)
  PROVE  MergeFrom(a, Clear(class)) = a
<1>1. PICK e : e = Clear(class)
  OBVIOUS
<1>2. e \in Held(class, C, V) /\ e.has_bits = {} /\ e.unknown_fields = <<>>
  BY <1>1 DEF Clear, SharedCtor, Held
<1>3. PICK m : m = MergeFrom(a, e) /\ MergeOf(class, C, V, a, e, m)
  BY <1>2, IsMergeOf
<1>4. a.unknown_fields \in Seq(C)
  BY DEF Held
<1>5. m.has_bits = a.has_bits /\ m.unknown_fields = a.unknown_fields
  BY <1>2, <1>3, <1>4 DEF MergeOf
<1>6. m \in Held(class, C, V) /\ \A j \in DOMAIN class : m.value[j] = a.value[j]
  BY <1>2, <1>3 DEF MergeOf
<1>7. m = a
  BY <1>5, <1>6, SameMessage
<1> QED
  BY <1>1, <1>3, <1>7

(* A field is set, or a chunk kept, before or after a merge.                 *)
LEMMA MergeSet ==
  ASSUME NEW class, NEW C, NEW V, NEW a \in Held(class, C, V), NEW m \in Held(class, C, V),
         NEW k \in DOMAIN class, NEW v \in V
  PROVE  MergeFrom(a, Set(m, k, v)) = Set(MergeFrom(a, m), k, v)
<1>1. PICK n : n = Set(m, k, v) /\ SetOf(class, C, V, m, k, v, n)
  BY IsSetOf
<1>2. n \in Held(class, C, V)
  BY <1>1 DEF SetOf
<1>3. PICK x : x = MergeFrom(a, n) /\ MergeOf(class, C, V, a, n, x)
  BY <1>2, IsMergeOf
<1>4. PICK mm : mm = MergeFrom(a, m) /\ MergeOf(class, C, V, a, m, mm)
  BY IsMergeOf
<1>5. mm \in Held(class, C, V)
  BY <1>4 DEF MergeOf
<1>6. PICK y : y = Set(mm, k, v) /\ SetOf(class, C, V, mm, k, v, y)
  BY <1>5, IsSetOf
<1>7. x \in Held(class, C, V) /\ y \in Held(class, C, V)
  BY <1>3, <1>6 DEF MergeOf, SetOf
<1>8. \A j \in DOMAIN class : x.value[j] = y.value[j]
  BY <1>1, <1>3, <1>4, <1>6 DEF MergeOf, SetOf
<1>9. x.has_bits = y.has_bits /\ x.unknown_fields = y.unknown_fields
  BY <1>1, <1>3, <1>4, <1>6 DEF MergeOf, SetOf
<1>10. x = y
  BY <1>7, <1>8, <1>9, SameMessage
<1> QED
  BY <1>1, <1>3, <1>4, <1>6, <1>10

LEMMA MergeKeep ==
  ASSUME NEW class, NEW C, NEW V, NEW a \in Held(class, C, V), NEW m \in Held(class, C, V),
         NEW c \in C
  PROVE  MergeFrom(a, Keep(m, c)) = Keep(MergeFrom(a, m), c)
<1>1. PICK n : n = Keep(m, c) /\ KeepOf(class, C, V, m, c, n)
  BY IsKeepOf
<1>2. n \in Held(class, C, V)
  BY <1>1 DEF KeepOf
<1>3. PICK x : x = MergeFrom(a, n) /\ MergeOf(class, C, V, a, n, x)
  BY <1>2, IsMergeOf
<1>4. PICK mm : mm = MergeFrom(a, m) /\ MergeOf(class, C, V, a, m, mm)
  BY IsMergeOf
<1>5. mm \in Held(class, C, V)
  BY <1>4 DEF MergeOf
<1>6. PICK y : y = Keep(mm, c) /\ KeepOf(class, C, V, mm, c, y)
  BY <1>5, IsKeepOf
<1>7. x \in Held(class, C, V) /\ y \in Held(class, C, V)
  BY <1>3, <1>6 DEF MergeOf, KeepOf
<1>8. \A j \in DOMAIN class : x.value[j] = y.value[j]
  BY <1>1, <1>3, <1>4, <1>6 DEF MergeOf, KeepOf
<1>9. x.has_bits = y.has_bits
  BY <1>1, <1>3, <1>4, <1>6 DEF MergeOf, KeepOf
<1>10. x.unknown_fields = y.unknown_fields
  <2>1. PICK u, w, last : u = a.unknown_fields /\ w = m.unknown_fields /\ last = <<c>>
    OBVIOUS
  <2>2. u \in Seq(C) /\ w \in Seq(C) /\ last \in Seq(C) /\ u \o w \in Seq(C)
    BY <2>1 DEF Held
  <2>3. Append(w, c) = w \o last /\ Append(u \o w, c) = (u \o w) \o last
    BY <2>1, <2>2, AppendIsConcat
  <2>4. (u \o w) \o last = u \o (w \o last)
    BY <2>2, ConcatAssociative
  <2>5. x.unknown_fields = u \o Append(w, c) /\ y.unknown_fields = Append(u \o w, c)
    BY <1>1, <1>3, <1>4, <1>6, <2>1 DEF MergeOf, KeepOf
  <2> QED
    BY <2>3, <2>4, <2>5
<1>11. x = y
  BY <1>7, <1>8, <1>9, <1>10, SameMessage
<1> QED
  BY <1>1, <1>3, <1>4, <1>6, <1>11

(* So to read a chunk and to merge can change places.                        *)
LEMMA MergeTurn ==
  ASSUME NEW class, NEW C, NEW V, NEW a \in Held(class, C, V),
         NEW p \in [message : Held(class, C, V), state : States], NEW c \in C, c.value \in V
  PROVE  ParseChunk(class, Merged(a, p), c) = Merged(a, ParseChunk(class, p, c))
<1> DEFINE m == p.message
           mm == MergeFrom(a, m)
           q == ParseChunk(class, p, c)
           qq == ParseChunk(class, Merged(a, p), c)
           known == c.field \in DOMAIN class /\ c.wire = class[c.field]
           lost == c.cut /\ c.wire # "bytes"
           state == IF c.cut THEN "failure" ELSE "parsing"
           kept == Keep(m, c)
           kept2 == Keep(mm, c)
<1>1. m \in Held(class, C, V) /\ p = [message |-> m, state |-> p.state]
  OBVIOUS
<1>2. known => MergeFrom(a, Set(m, c.field, c.value)) = Set(mm, c.field, c.value)
  BY <1>1, MergeSet
<1>3. MergeFrom(a, kept) = kept2
  BY <1>1, MergeKeep
<1>4. /\ p.state # "parsing" => q = p
      /\ p.state = "parsing" /\ c.wire = "end_group" => q = [p EXCEPT !.state = "end_group"]
      /\ p.state = "parsing" /\ c.wire # "end_group" =>
           /\ lost => q = [message |-> m, state |-> state]
           /\ ~lost /\ known => q = [message |-> Set(m, c.field, c.value), state |-> state]
           /\ ~lost /\ ~known => q = [message |-> kept, state |-> state]
  BY TurnCases
<1>5. PICK pp : pp = Merged(a, p)
  OBVIOUS
<1>6. pp = [message |-> mm, state |-> p.state]
  BY <1>5 DEF Merged
<1>7. /\ pp.state # "parsing" => qq = pp
      /\ pp.state = "parsing" /\ c.wire = "end_group" => qq = [pp EXCEPT !.state = "end_group"]
      /\ pp.state = "parsing" /\ c.wire # "end_group" =>
           /\ lost => qq = [message |-> mm, state |-> state]
           /\ ~lost /\ known => qq = [message |-> Set(mm, c.field, c.value), state |-> state]
           /\ ~lost /\ ~known => qq = [message |-> kept2, state |-> state]
  <2>1. pp.message = mm
    BY <1>6
  <2> QED  BY <1>5, <2>1, TurnCases
<1>8. \A n, s : Merged(a, [message |-> n, state |-> s]) = [message |-> MergeFrom(a, n), state |-> s]
  BY DEF Merged
<1> HIDE DEF m, mm, q, qq, known, lost, state, kept, kept2
<1>9. Merged(a, p) = pp
  BY <1>5
<1>10. CASE p.state # "parsing"
  BY <1>4, <1>6, <1>7, <1>9, <1>10 DEF q, qq
<1>11. CASE p.state = "parsing" /\ c.wire = "end_group"
  <2>1. q = [message |-> m, state |-> "end_group"]
    BY <1>1, <1>4, <1>11
  <2>2. qq = [message |-> mm, state |-> "end_group"]
    BY <1>6, <1>7, <1>11
  <2> QED  BY <1>8, <2>1, <2>2 DEF q, qq, mm
<1>12. CASE p.state = "parsing" /\ c.wire # "end_group"
  <2>1. pp.state = "parsing"
    BY <1>6, <1>12
  <2>2. CASE lost
    BY <1>4, <1>7, <1>8, <1>12, <2>1, <2>2 DEF q, qq, mm
  <2>3. CASE ~lost /\ known
    BY <1>2, <1>4, <1>7, <1>8, <1>12, <2>1, <2>3 DEF q, qq
  <2>4. CASE ~lost /\ ~known
    BY <1>3, <1>4, <1>7, <1>8, <1>12, <2>1, <2>4 DEF q, qq
  <2> QED  BY <2>2, <2>3, <2>4
<1> QED
  BY <1>10, <1>11, <1>12

LEMMA TurnAt ==
  ASSUME NEW C, NEW class, NEW m, NEW s \in Seq(C), NEW i \in 1 .. Len(s)
  PROVE  Turns(class, m, s)[i] = ParseChunk(class, Turns(class, m, s)[i - 1], s[i])
BY TurnsAt

(* What the parser makes of a stream.                                        *)
Parse(class, s) == MergePartialFromCodedStream(class, Clear(class), s)

LEMMA ParseHeld ==
  ASSUME NEW class, NEW C, NEW s \in Seq(C)
  PROVE  Parse(class, s) \in [message : Held(class, C, Values(C)), state : States]
<1>1. Clear(class) \in Held(class, C, Values(C))
  BY ClearHeld
<1>2. Len(s) \in 0 .. Len(s)
  OBVIOUS
<1>3. Turns(class, Clear(class), s)[Len(s)]
        \in [message : Held(class, C, Values(C)), state : States]
  BY <1>1, <1>2, TurnsHeld
<1> QED
  BY <1>3 DEF Parse, MergePartialFromCodedStream

(* A stream that follows one that was read to its end is read as if it stood *)
(* alone, and merged.                                                        *)
LEMMA ParseConcat ==
  ASSUME NEW class, NEW C, NEW s \in Seq(C), NEW t \in Seq(C), Parse(class, s).state = "parsing"
  PROVE  Parse(class, s \o t) = Merged(Parse(class, s).message, Parse(class, t))
<1> DEFINE V == Values(C)
           P == [message : Held(class, C, V), state : States]
           T2(j) == Turns(class, Clear(class), t)[j]
           TT(i) == Turns(class, Clear(class), s \o t)[i]
<1>1. PICK p \in P : p = Parse(class, s) /\ p.state = "parsing"
  BY ParseHeld
<1>2. PICK a \in Held(class, C, V) : a = p.message
  OBVIOUS
<1>3. p = [message |-> a, state |-> "parsing"]
  BY <1>1, <1>2
<1>4. PICK n, k \in Nat : n = Len(s) /\ k = Len(t)
  OBVIOUS
<1>5. /\ s \o t \in Seq(C) /\ Len(s \o t) = n + k
      /\ \A i \in 1 .. n : s[i] = (s \o t)[i]
      /\ \A j \in 1 .. k : (s \o t)[n + j] = t[j] /\ t[j] \in C
  BY <1>4
<1>6. Clear(class) \in Held(class, C, V)
  BY ClearHeld
<1> DEFINE S == {j \in 0 .. k : TT(n + j) = Merged(a, T2(j))}
<1>7. 0 \in S
  <2>1. PICK st \in Seq(C) : st = s \o t /\ Len(st) = n + k /\ \A i \in 1 .. n : s[i] = st[i]
    BY <1>5
  <2>2. n \in 0 .. Len(s) /\ n <= Len(st) /\ n \in 0 .. n
    BY <1>4, <2>1
  <2>3. Turns(class, Clear(class), s)[n] = Turns(class, Clear(class), st)[n]
    <3>1. \A m : \A i \in 0 .. n : Turns(class, m, s)[i] = Turns(class, m, st)[i]
      <4>1. Agree(s, st, n)
        BY <2>1, <2>2 DEF Agree
      <4> QED  BY <4>1, SameTurns
    <3> QED  BY <2>2, <3>1
  <2>4. Turns(class, Clear(class), st)[n] = p
    BY <1>1, <1>4, <2>3 DEF Parse, MergePartialFromCodedStream
  <2>5. T2(0) = FirstTurn(Clear(class))
    BY TurnsAt
  <2>6. Merged(a, FirstTurn(Clear(class)))
          = [message |-> MergeFrom(a, Clear(class)), state |-> "parsing"]
    BY DEF Merged, FirstTurn
  <2>7. 0 \in V
    BY DEF Values
  <2>8. MergeFrom(a, Clear(class)) = a
    BY <2>7, MergeClear
  <2>9. Merged(a, T2(0)) = p
    BY <1>3, <2>5, <2>6, <2>8
  <2>10. n + 0 = n /\ 0 \in 0 .. k
    OBVIOUS
  <2> QED
    BY <2>1, <2>4, <2>9, <2>10
<1>8. ASSUME NEW j \in 1 .. k, j - 1 \in S PROVE j \in S
  <2>1. PICK q : q = T2(j - 1)
    OBVIOUS
  <2>2. q \in P
    <3>1. j - 1 \in 0 .. Len(t)
      BY <1>4
    <3> QED  BY <1>6, <2>1, <3>1, TurnsHeld
  <2>3. PICK c \in C : c = t[j] /\ c = (s \o t)[n + j]
    BY <1>5
  <2>4. c.value \in V
    BY DEF Values
  <2>5. j \in 1 .. Len(t) /\ n + j \in 1 .. Len(s \o t) /\ n + j - 1 = n + (j - 1) /\ j \in 0 .. k
    BY <1>4, <1>5
  <2>6. T2(j) = ParseChunk(class, q, c)
    <3>1. \A m : Turns(class, m, t)[j] = ParseChunk(class, Turns(class, m, t)[j - 1], t[j])
      BY <2>5, TurnAt
    <3> QED  BY <2>1, <2>3, <3>1
  <2>7. TT(n + j) = ParseChunk(class, TT(n + (j - 1)), c)
    <3>1. PICK st \in Seq(C) : st = s \o t
      BY <1>5
    <3>2. PICK i : i = n + j
      OBVIOUS
    <3>3. Turns(class, Clear(class), st)[i]
            = ParseChunk(class, Turns(class, Clear(class), st)[i - 1], st[i])
      <4>1. i \in 1 .. Len(st)
        BY <2>5, <3>1, <3>2
      <4>2. \A m : Turns(class, m, st)[i] = ParseChunk(class, Turns(class, m, st)[i - 1], st[i])
        BY <4>1, TurnAt
      <4> QED  BY <4>2
    <3> QED  BY <2>3, <2>5, <3>1, <3>2, <3>3
  <2>8. TT(n + (j - 1)) = Merged(a, q)
    BY <1>8, <2>1
  <2>9. ParseChunk(class, Merged(a, q), c) = Merged(a, ParseChunk(class, q, c))
    BY <2>2, <2>4, MergeTurn
  <2> HIDE DEF TT, T2
  <2> QED
    BY <2>5, <2>6, <2>7, <2>8, <2>9
<1>9. k \in S
  <2>1. k \in 0 .. k
    OBVIOUS
  <2> HIDE DEF S
  <2> QED  BY <1>7, <1>8, <2>1, UpTo
<1>10. TT(n + k) = Merged(a, T2(k))
  BY <1>9
<1>11. Parse(class, s \o t) = TT(n + k) /\ Parse(class, t) = T2(k)
  BY <1>4, <1>5 DEF Parse, MergePartialFromCodedStream
<1> HIDE DEF TT, T2
<1> QED
  BY <1>1, <1>2, <1>10, <1>11

(* Streams put together hold the merge of what they hold, for all chunks and *)
(* every class of messages (MergePartialFromCodedStream, MergeFrom).         *)
THEOREM StreamsMerge ==
  ASSUME NEW class, NEW C, NEW first \in Seq(C), NEW second \in Seq(C)
  PROVE  ConcatenationMerges(class, first, second)
<1> SUFFICES ASSUME Parse(class, first).state = "parsing"
             PROVE  Parse(class, first \o second).message
                      = MergeFrom(Parse(class, first).message, Parse(class, second).message)
  BY DEF ConcatenationMerges, Parse
<1>1. Parse(class, first \o second) = Merged(Parse(class, first).message, Parse(class, second))
  BY ParseConcat
<1> QED
  BY <1>1 DEF Merged

-----------------------------------------------------------------------------
(* A chunk that is whole and that the class does not know.                   *)
Foreign(class, c) ==
  /\ ~c.cut
  /\ c.wire # "end_group"
  /\ ~(c.field \in DOMAIN class /\ c.wire = class[c.field])

AllForeign(class, C) == \A c \in C : Foreign(class, c)

LEMMA ForeignTurn ==
  ASSUME NEW class, NEW p, NEW c, p.state = "parsing", Foreign(class, c)
  PROVE  ParseChunk(class, p, c) = [message |-> Keep(p.message, c), state |-> "parsing"]
BY TurnCases DEF Foreign

(* A message whose fields are not set and that has kept n chunks of s.       *)
AllKept(class, C, V, p, s, n) ==
  /\ p.state = "parsing"
  /\ p.message \in Held(class, C, V)
  /\ p.message.has_bits = {}
  /\ Len(p.message.unknown_fields) = n
  /\ \A i \in 1 .. n : p.message.unknown_fields[i] = s[i]

LEMMA KeptNext ==
  ASSUME NEW class, NEW C, NEW V, NEW p, NEW s \in Seq(C), NEW n \in 1 .. Len(s),
         AllKept(class, C, V, p, s, n - 1), NEW c \in C, c = s[n],
         NEW q, q = [message |-> Keep(p.message, c), state |-> "parsing"]
  PROVE  AllKept(class, C, V, q, s, n)
<1>1. PICK m : m = p.message
  OBVIOUS
<1>2. m \in Held(class, C, V)
  BY <1>1 DEF AllKept
<1>3. PICK x : x = Keep(m, c) /\ KeepOf(class, C, V, m, c, x)
  BY <1>2, IsKeepOf
<1>4. q.state = "parsing" /\ q.message = x
  BY <1>1, <1>3
<1>5. x \in Held(class, C, V) /\ x.has_bits = {}
  BY <1>1, <1>3 DEF KeepOf, AllKept
<1>6. PICK u \in Seq(C) : u = m.unknown_fields
  BY <1>2 DEF Held
<1>7. Len(u) = n - 1 /\ \A i \in 1 .. n - 1 : u[i] = s[i]
  BY <1>1, <1>6 DEF AllKept
<1>8. x.unknown_fields = Append(u, c)
  BY <1>3, <1>6 DEF KeepOf
<1>9. Len(Append(u, c)) = n /\ \A i \in 1 .. n : Append(u, c)[i] = s[i]
  BY <1>7
<1> QED
  BY <1>4, <1>5, <1>8, <1>9 DEF AllKept

(* Only unknown chunks leave the fields as they were and are all kept.       *)
LEMMA ParseForeign ==
  ASSUME NEW class, NEW C, AllForeign(class, C), NEW s \in Seq(C)
  PROVE  /\ Parse(class, s).state = "parsing"
         /\ Parse(class, s).message.has_bits = {}
         /\ Parse(class, s).message.unknown_fields = s
<1> DEFINE V == Values(C)
           e == Clear(class)
           T == Turns(class, e, s)
           S == {n \in 0 .. Len(s) : AllKept(class, C, V, T[n], s, n)}
<1>1. 0 \in S
  <2>1. e \in Held(class, C, V)
    BY ClearHeld
  <2>2. e.has_bits = {} /\ e.unknown_fields = <<>>
    BY DEF Clear, SharedCtor
  <2>3. T[0] = FirstTurn(e)
    BY TurnsAt
  <2> HIDE DEF e, T
  <2>4. T[0].state = "parsing" /\ T[0].message = e
    BY <2>3 DEF FirstTurn
  <2>5. AllKept(class, C, V, T[0], s, 0)
    BY <2>1, <2>2, <2>4 DEF AllKept
  <2>6. 0 \in 0 .. Len(s)
    OBVIOUS
  <2> QED  BY <2>5, <2>6
<1>2. ASSUME NEW n \in 1 .. Len(s), n - 1 \in S PROVE n \in S
  <2>1. PICK c \in C : c = s[n]
    OBVIOUS
  <2>2. PICK p, q : p = T[n - 1] /\ q = T[n]
    OBVIOUS
  <2>3. AllKept(class, C, V, p, s, n - 1)
    BY <1>2, <2>2
  <2>4. q = ParseChunk(class, p, c)
    <3>1. \A m : Turns(class, m, s)[n] = ParseChunk(class, Turns(class, m, s)[n - 1], s[n])
      BY TurnAt
    <3> QED  BY <2>1, <2>2, <3>1
  <2>5. p.state = "parsing"
    BY <2>3 DEF AllKept
  <2>6. q = [message |-> Keep(p.message, c), state |-> "parsing"]
    BY <2>4, <2>5, ForeignTurn DEF AllForeign
  <2>7. AllKept(class, C, V, q, s, n)
    BY <2>1, <2>3, <2>6, KeptNext
  <2>8. n \in 0 .. Len(s)
    OBVIOUS
  <2> HIDE DEF T, V
  <2> QED  BY <2>2, <2>7, <2>8
<1>3. Len(s) \in S
  <2>1. Len(s) \in Nat /\ Len(s) \in 0 .. Len(s)
    OBVIOUS
  <2> HIDE DEF S
  <2> QED  BY <1>1, <1>2, <2>1, UpTo
<1>4. PICK p : p = Parse(class, s)
  OBVIOUS
<1>5. AllKept(class, C, V, p, s, Len(s))
  BY <1>3, <1>4 DEF Parse, MergePartialFromCodedStream
<1>6. PICK u \in Seq(C) : u = p.message.unknown_fields
  BY <1>5 DEF AllKept, Held
<1>7. u = s
  <2>1. Len(u) = Len(s) /\ \A i \in 1 .. Len(s) : u[i] = s[i]
    BY <1>5, <1>6 DEF AllKept
  <2> QED  BY <2>1
<1> QED
  BY <1>4, <1>5, <1>6, <1>7 DEF AllKept

-----------------------------------------------------------------------------
(* Serializing.                                                              *)
LEMMA WrittenDefined ==
  ASSUME NEW class \in Seq(Kinds), NEW m
  PROVE  Written(class, m)
           = [k \in 0 .. Len(class) |->
                IF k = 0 THEN <<>>
                ELSE IF k \in m.has_bits
                     THEN Append(Written(class, m)[k - 1], Chunk(k, class[k], m.value[k]))
                     ELSE Written(class, m)[k - 1]]
<1> DEFINE Step(g, k) == IF k = 0 THEN <<>>
                         ELSE IF k \in m.has_bits
                              THEN Append(g[k - 1], Chunk(k, class[k], m.value[k]))
                              ELSE g[k - 1]
           S == {n \in 0 .. Len(class) : \E g : g = [k \in 0 .. n |-> Step(g, k)]}
<1>1. Len(class) \in Nat
  OBVIOUS
<1>2. 0 \in S
  <2> DEFINE g == [k \in 0 .. 0 |-> <<>>]
  <2>1. g = [k \in 0 .. 0 |-> Step(g, k)]
    OBVIOUS
  <2>2. 0 \in 0 .. Len(class)
    BY <1>1
  <2> HIDE DEF g, Step
  <2> QED  BY <2>1, <2>2, Zenon
<1>3. ASSUME NEW n \in 1 .. Len(class), n - 1 \in S PROVE n \in S
  <2>1. PICK g : g = [k \in 0 .. n - 1 |-> Step(g, k)]
    BY <1>3
  <2> DEFINE h == [k \in 0 .. n |-> Step(g, k)]
  <2>2. \A k \in 0 .. n - 1 : h[k] = g[k]
    <3> HIDE DEF Step
    <3>1. \A k \in 0 .. n - 1 : g[k] = Step(g, k)
      BY <2>1, Zenon
    <3>2. 0 .. n - 1 \subseteq 0 .. n
      BY <1>1
    <3> QED  BY <3>1, <3>2
  <2>3. \A k \in 0 .. n : Step(h, k) = Step(g, k)
    <3>1. \A k \in 0 .. n : k = 0 \/ k - 1 \in 0 .. n - 1
      BY <1>1
    <3> HIDE DEF h
    <3> QED  BY <2>2, <3>1
  <2>4. h = [k \in 0 .. n |-> Step(h, k)]
    <3> HIDE DEF Step
    <3> QED  BY <2>3
  <2>5. n \in 0 .. Len(class)
    BY <1>1
  <2> HIDE DEF h, Step
  <2> QED  BY <2>4, <2>5, Zenon
<1>4. Len(class) \in S
  <2> HIDE DEF S
  <2> 0 .. Len(class) \subseteq S
    BY <1>1, <1>2, <1>3, UpTo
  <2> QED  BY <1>1
<1>5. \E g : g = [k \in 0 .. Len(class) |-> Step(g, k)]
  BY <1>4
<1>6. Written(class, m) = CHOOSE g : g = [k \in 0 .. Len(class) |-> Step(g, k)]
  BY DEF Written
<1> HIDE DEF Step
<1>7. Written(class, m) = [k \in 0 .. Len(class) |-> Step(Written(class, m), k)]
  BY <1>5, <1>6
<1> QED
  BY <1>7 DEF Step

LEMMA WrittenAt ==
  ASSUME NEW class \in Seq(Kinds), NEW m
  PROVE  /\ Written(class, m)[0] = <<>>
         /\ \A k \in 1 .. Len(class) :
              /\ k \in m.has_bits => Written(class, m)[k]
                   = Append(Written(class, m)[k - 1], Chunk(k, class[k], m.value[k]))
              /\ k \notin m.has_bits => Written(class, m)[k] = Written(class, m)[k - 1]
<1>1. PICK W : W = Written(class, m)
  OBVIOUS
<1>2. W = [k \in 0 .. Len(class) |->
             IF k = 0 THEN <<>>
             ELSE IF k \in m.has_bits THEN Append(W[k - 1], Chunk(k, class[k], m.value[k]))
                  ELSE W[k - 1]]
  BY <1>1, WrittenDefined
<1>3. 0 \in 0 .. Len(class) /\ \A k \in 1 .. Len(class) : k \in 0 .. Len(class) /\ k # 0
  OBVIOUS
<1>4. W[0] = <<>>
  BY <1>2, <1>3
<1>5. \A k \in 1 .. Len(class) :
        /\ k \in m.has_bits => W[k] = Append(W[k - 1], Chunk(k, class[k], m.value[k]))
        /\ k \notin m.has_bits => W[k] = W[k - 1]
  BY <1>2, <1>3
<1> QED
  BY <1>1, <1>4, <1>5

(* The chunks of a message's fields.                                         *)
FieldChunks(class, m) == {Chunk(k, class[k], m.value[k]) : k \in DOMAIN class}

(* What the parser holds after the first k fields: those of them that are    *)
(* set, one chunk each.                                                      *)
FieldsRead(class, F, m, p, w, k) ==
  /\ w \in Seq(F)
  /\ p.state = "parsing"
  /\ p.message \in Held(class, F, Values(F))
  /\ \A j \in DOMAIN class :
       p.message.value[j] = IF j <= k /\ j \in m.has_bits THEN m.value[j] ELSE 0
  /\ p.message.has_bits = m.has_bits \cap (1 .. k)
  /\ p.message.unknown_fields = <<>>
  /\ Len(w) = Cardinality(m.has_bits \cap (1 .. k))

LEMMA FieldUnset ==
  ASSUME NEW class \in Seq(Kinds), NEW F, NEW m, NEW p, NEW w, NEW k \in 1 .. Len(class),
         FieldsRead(class, F, m, p, w, k - 1), k \notin m.has_bits
  PROVE  FieldsRead(class, F, m, p, w, k)
<1>1. DOMAIN class = 1 .. Len(class) /\ Len(class) \in Nat
  OBVIOUS
<1>2. m.has_bits \cap (1 .. k - 1) = m.has_bits \cap (1 .. k)
  BY <1>1
<1>3. \A j \in DOMAIN class : j <= k /\ j \in m.has_bits <=> j <= k - 1 /\ j \in m.has_bits
  BY <1>1
<1> QED
  BY <1>2, <1>3 DEF FieldsRead

LEMMA FieldSet ==
  ASSUME NEW class \in Seq(Kinds), NEW F, NEW m, NEW p, NEW w, NEW k \in 1 .. Len(class),
         FieldsRead(class, F, m, p, w, k - 1), k \in m.has_bits,
         NEW c \in F, c = Chunk(k, class[k], m.value[k]),
         NEW q, q = ParseChunk(class, p, c), NEW x, x = Append(w, c)
  PROVE  FieldsRead(class, F, m, q, x, k)
<1>1. DOMAIN class = 1 .. Len(class) /\ Len(class) \in Nat /\ k \in DOMAIN class
  OBVIOUS
<1>2. c.field = k /\ c.wire = class[k] /\ c.value = m.value[k] /\ c.cut = FALSE
  BY DEF Chunk
<1>3. class[k] # "end_group"
  BY <1>1 DEF Kinds
<1>4. p.state = "parsing" /\ w \in Seq(F)
  BY DEF FieldsRead
<1>5. PICK a : a = p.message
  OBVIOUS
<1>6. q = [message |-> Set(a, k, m.value[k]), state |-> "parsing"]
  BY <1>1, <1>2, <1>3, <1>4, <1>5, TurnCases
<1>7. a \in Held(class, F, Values(F)) /\ m.value[k] \in Values(F)
  BY <1>2, <1>5 DEF FieldsRead, Values
<1>8. PICK b : b = Set(a, k, m.value[k]) /\ SetOf(class, F, Values(F), a, k, m.value[k], b)
  BY <1>1, <1>7, IsSetOf
<1>9. q.state = "parsing" /\ q.message = b /\ b \in Held(class, F, Values(F))
  BY <1>6, <1>8 DEF SetOf
<1>10. \A j \in DOMAIN class :
         b.value[j] = IF j <= k /\ j \in m.has_bits THEN m.value[j] ELSE 0
  <2>1. \A j \in DOMAIN class : b.value[j] = IF j = k THEN m.value[k] ELSE a.value[j]
    BY <1>8 DEF SetOf
  <2>2. \A j \in DOMAIN class :
          a.value[j] = IF j <= k - 1 /\ j \in m.has_bits THEN m.value[j] ELSE 0
    BY <1>5 DEF FieldsRead
  <2>3. \A j \in DOMAIN class : j # k => (j <= k <=> j <= k - 1)
    BY <1>1
  <2>4. k <= k
    BY <1>1
  <2> QED  BY <2>1, <2>2, <2>3, <2>4
<1> DEFINE old == m.has_bits \cap (1 .. k - 1)
           new == m.has_bits \cap (1 .. k)
<1>11. new = old \cup {k} /\ k \notin old
  BY <1>1
<1>12. b.has_bits = new /\ b.unknown_fields = <<>>
  <2>1. a.has_bits = old /\ a.unknown_fields = <<>>
    BY <1>5 DEF FieldsRead
  <2> QED  BY <1>8, <1>11, <2>1 DEF SetOf
<1>13. Len(x) = Cardinality(new)
  <2>1. IsFiniteSet(1 .. k - 1)
    BY <1>1, FS_Interval
  <2>2. IsFiniteSet(old)
    BY <2>1, FS_Subset
  <2>3. Cardinality(old \cup {k}) = Cardinality(old) + 1
    BY <1>11, <2>2, FS_AddElement
  <2>4. Len(w) = Cardinality(old)
    BY DEF FieldsRead
  <2>5. Len(x) = Len(w) + 1
    BY <1>4
  <2> HIDE DEF old, new
  <2> QED  BY <1>11, <2>3, <2>4, <2>5
<1>14. x \in Seq(F)
  BY <1>4
<1> HIDE DEF new
<1> QED
  BY <1>9, <1>10, <1>12, <1>13, <1>14 DEF FieldsRead, new

LEMMA FieldsParsed ==
  ASSUME NEW class \in Seq(Kinds), NEW m
  PROVE  \A k \in 0 .. Len(class) :
           FieldsRead(class, FieldChunks(class, m), m,
                      Parse(class, Written(class, m)[k]), Written(class, m)[k], k)
<1> DEFINE F == FieldChunks(class, m)
           W == Written(class, m)
           S == {k \in 0 .. Len(class) : FieldsRead(class, F, m, Parse(class, W[k]), W[k], k)}
<1>1. 0 \in S
  <2>1. PICK w, p : w = W[0] /\ p = Parse(class, w)
    OBVIOUS
  <2>2. w = <<>> /\ w \in Seq(F) /\ Len(w) = 0
    <3>1. W[0] = <<>>
      BY WrittenAt
    <3> HIDE DEF F, W
    <3> QED  BY <2>1, <3>1
  <2>3. PICK e : e = Clear(class)
    OBVIOUS
  <2>4. p = FirstTurn(e)
    <3>1. \A c : Turns(class, c, w)[0] = FirstTurn(c)
      <4>1. w \in Seq(F)
        BY <2>2
      <4> HIDE DEF F, W
      <4> QED  BY <4>1, TurnsAt
    <3> QED  BY <2>1, <2>2, <2>3, <3>1 DEF Parse, MergePartialFromCodedStream
  <2>5. p.state = "parsing" /\ p.message = e
    BY <2>4 DEF FirstTurn
  <2>6. e \in Held(class, F, Values(F))
    BY <2>3, ClearHeld
  <2>7. /\ \A j \in DOMAIN class : e.value[j] = 0
        /\ e.has_bits = {} /\ e.unknown_fields = <<>>
    BY <2>3 DEF Clear, SharedCtor
  <2>8. 1 .. 0 = {} /\ m.has_bits \cap {} = {} /\ Cardinality({}) = 0 /\ 0 \in 0 .. Len(class)
    BY FS_EmptySet
  <2>9. \A j \in DOMAIN class : ~(j <= 0)
    OBVIOUS
  <2> HIDE DEF F, W
  <2>10. FieldsRead(class, F, m, p, w, 0)
    BY <2>2, <2>5, <2>6, <2>7, <2>8, <2>9 DEF FieldsRead
  <2> QED  BY <2>1, <2>8, <2>10
<1>2. ASSUME NEW k \in 1 .. Len(class), k - 1 \in S PROVE k \in S
  <2>1. PICK w, x, p, q : w = W[k - 1] /\ x = W[k] /\ p = Parse(class, w) /\ q = Parse(class, x)
    OBVIOUS
  <2>2. FieldsRead(class, F, m, p, w, k - 1)
    BY <1>2, <2>1
  <2>3. PICK c : c = Chunk(k, class[k], m.value[k])
    OBVIOUS
  <2>4. c \in F /\ k \in 0 .. Len(class)
    BY <2>3 DEF FieldChunks
  <2>5. CASE k \in m.has_bits
    <3>1. x = Append(w, c)
      BY <2>1, <2>3, <2>5, WrittenAt
    <3>2. w \in Seq(F)
      BY <2>2 DEF FieldsRead
    <3> HIDE DEF F, W
    <3>3. q = ParseChunk(class, p, c)
      <4>1. \A e : MergePartialFromCodedStream(class, e, Append(w, c))
                     = ParseChunk(class, MergePartialFromCodedStream(class, e, w), c)
        BY <2>4, <3>2, ParseAppend
      <4> QED  BY <2>1, <3>1, <4>1 DEF Parse
    <3>4. FieldsRead(class, F, m, q, x, k)
      BY <2>2, <2>3, <2>4, <2>5, <3>1, <3>3, FieldSet
    <3> QED  BY <2>1, <2>4, <3>4
  <2>6. CASE k \notin m.has_bits
    <3>1. x = w
      BY <2>1, <2>6, WrittenAt
    <3> HIDE DEF F, W
    <3>2. FieldsRead(class, F, m, p, w, k)
      BY <2>2, <2>6, FieldUnset
    <3> QED  BY <2>1, <2>4, <3>1, <3>2
  <2> QED
    BY <2>5, <2>6
<1>3. 0 .. Len(class) \subseteq S
  <2>1. Len(class) \in Nat
    OBVIOUS
  <2> HIDE DEF S
  <2> QED  BY <1>1, <1>2, <2>1, UpTo
<1> QED
  BY <1>3

LEMMA HeldMore ==
  ASSUME NEW class, NEW C, NEW D, C \subseteq D, NEW m \in Held(class, C, Values(C))
  PROVE  m \in Held(class, D, Values(D))
<1>1. Values(C) \subseteq Values(D)
  BY DEF Values
<1>2. [DOMAIN class -> Values(C)] \subseteq [DOMAIN class -> Values(D)]
  BY <1>1
<1>3. Seq(C) \subseteq Seq(D)
  OBVIOUS
<1> QED
  BY <1>2, <1>3 DEF Held

LEMMA MessageHeld ==
  ASSUME NEW class, NEW C, NEW Vals, NEW m \in Messages(class, Vals, Seq(C))
  PROVE  LET D == FieldChunks(class, m) \cup C
         IN  /\ m \in Held(class, D, Values(D))
             /\ \A k \in DOMAIN class : k \in m.has_bits \/ m.value[k] = 0
<1> DEFINE D == FieldChunks(class, m) \cup C
<1>1. PICK f \in [DOMAIN class -> Vals \cup {0}], h \in SUBSET DOMAIN class, u \in Seq(C) :
        m = [value |-> f, has_bits |-> h, unknown_fields |-> u]
  BY DEF Messages
<1>2. \A k \in DOMAIN class : f[k] \in Values(D)
  <2>1. TAKE k \in DOMAIN class
  <2>2. PICK c : c = Chunk(k, class[k], m.value[k])
    OBVIOUS
  <2>3. c.value = f[k]
    BY <1>1, <2>2 DEF Chunk
  <2>4. c \in D
    BY <2>2 DEF FieldChunks
  <2> QED  BY <2>3, <2>4 DEF Values
<1> HIDE DEF D
<1>3. f \in [DOMAIN class -> Values(D)]
  BY <1>2
<1>4. u \in Seq(D)
  BY DEF D
<1>5. m \in Held(class, D, Values(D))
  BY <1>1, <1>3, <1>4 DEF Held
<1>6. \A k \in DOMAIN class : k \in m.has_bits \/ m.value[k] = 0
  BY DEF Messages
<1> QED
  BY <1>5, <1>6 DEF D

LEMMA CopyIsEqual ==
  ASSUME NEW class, NEW D, NEW m \in Held(class, D, Values(D)),
         \A k \in DOMAIN class : k \in m.has_bits \/ m.value[k] = 0
  PROVE  CopyFrom(class, m) = m
<1> DEFINE V == Values(D)
<1>1. PICK e : e = Clear(class) /\ e \in Held(class, D, V)
  BY ClearHeld
<1>2. e.has_bits = {} /\ e.unknown_fields = <<>> /\ \A k \in DOMAIN class : e.value[k] = 0
  BY <1>1 DEF Clear, SharedCtor
<1> HIDE DEF V
<1>3. PICK x : x = MergeFrom(e, m) /\ MergeOf(class, D, V, e, m, x)
  BY <1>1, IsMergeOf DEF V
<1>4. m \in Held(class, D, V) /\ x \in Held(class, D, V)
  BY <1>3 DEF MergeOf, V
<1>5. m.unknown_fields \in Seq(D)
  BY <1>4 DEF Held
<1>6. x.has_bits = m.has_bits /\ x.unknown_fields = m.unknown_fields
  BY <1>2, <1>3, <1>5 DEF MergeOf
<1>7. \A k \in DOMAIN class : x.value[k] = m.value[k]
  BY <1>2, <1>3 DEF MergeOf
<1>8. x = m
  BY <1>4, <1>6, <1>7, SameMessage
<1> QED
  BY <1>1, <1>3, <1>8 DEF CopyFrom

(* A message that is written is read as it was: whatever values its fields   *)
(* have, whichever of them are set, and with all chunks that its class does  *)
(* not know (SerializeWithCachedSizes, MergePartialFromCodedStream,          *)
(* MergeFrom, ByteSize).                                                     *)
THEOREM MessagesRoundTrip ==
  ASSUME NEW class \in Seq(Kinds), NEW C, AllForeign(class, C),
         NEW Vals, NEW m \in Messages(class, Vals, Seq(C))
  PROVE  RoundTrip(class, m)
<1> DEFINE F == FieldChunks(class, m)
           D == F \cup C
           V == Values(D)
<1>1. m \in Held(class, D, V) /\ \A k \in DOMAIN class : k \in m.has_bits \/ m.value[k] = 0
  BY MessageHeld
<1>2. CopyFrom(class, m) = m
  BY <1>1, CopyIsEqual
<1>3. PICK n, w, u, s, p, q :
        /\ n = Len(class) /\ w = Written(class, m)[n] /\ u = m.unknown_fields /\ s = w \o u
        /\ p = Parse(class, w) /\ q = Parse(class, u)
  OBVIOUS
<1>4. n \in Nat /\ DOMAIN class = 1 .. n
  BY <1>3
<1>5. FieldsRead(class, F, m, p, w, n)
  <2>1. n \in 0 .. Len(class)
    BY <1>3, <1>4
  <2> QED  BY <1>3, <2>1, FieldsParsed
<1>6. u \in Seq(C)
  BY <1>3 DEF Messages
<1>7. q.state = "parsing" /\ q.message.has_bits = {} /\ q.message.unknown_fields = u
  BY <1>3, <1>6, ParseForeign
<1>8. PICK a, b : a = p.message /\ b = q.message
  OBVIOUS
<1>9. a \in Held(class, D, V)
  <2>1. a \in Held(class, F, Values(F)) /\ F \subseteq D
    BY <1>5, <1>8 DEF FieldsRead
  <2> HIDE DEF F, D
  <2> QED  BY <2>1, HeldMore
<1>10. b \in Held(class, D, V)
  <2>1. q \in [message : Held(class, C, Values(C)), state : States]
    BY <1>3, <1>6, ParseHeld
  <2>2. b \in Held(class, C, Values(C)) /\ C \subseteq D
    BY <1>8, <2>1
  <2> HIDE DEF F, D
  <2> QED  BY <2>2, HeldMore
<1> HIDE DEF V
<1>11. Parse(class, s) = Merged(a, q)
  <2>1. w \in Seq(D) /\ u \in Seq(D)
    BY <1>5, <1>6 DEF FieldsRead
  <2>2. p.state = "parsing"
    BY <1>5 DEF FieldsRead
  <2> HIDE DEF F, D
  <2> QED  BY <1>3, <1>8, <2>1, <2>2, ParseConcat
<1>12. PICK x : x = MergeFrom(a, b) /\ MergeOf(class, D, V, a, b, x)
  BY <1>9, <1>10, IsMergeOf
<1> HIDE DEF F, D
<1>13. x = m
  <2>1. x \in Held(class, D, V)
    BY <1>12 DEF MergeOf
  <2>2. \A k \in DOMAIN class : x.value[k] = m.value[k]
    <3>1. TAKE k \in DOMAIN class
    <3>2. x.value[k] = a.value[k]
      BY <1>7, <1>8, <1>12 DEF MergeOf
    <3>3. a.value[k] = IF k <= n /\ k \in m.has_bits THEN m.value[k] ELSE 0
      BY <1>5, <1>8 DEF FieldsRead
    <3>4. k <= n
      BY <1>4
    <3> QED  BY <1>1, <3>2, <3>3, <3>4
  <2>3. m.has_bits \cap (1 .. n) = m.has_bits
    <3>1. m.has_bits \subseteq 1 .. n
      BY <1>1, <1>4 DEF Held
    <3> QED  BY <3>1
  <2>4. x.has_bits = m.has_bits
    BY <1>5, <1>7, <1>8, <1>12, <2>3 DEF MergeOf, FieldsRead
  <2>5. x.unknown_fields = m.unknown_fields
    <3>1. x.unknown_fields = <<>> \o u
      BY <1>5, <1>7, <1>8, <1>12 DEF MergeOf, FieldsRead
    <3> QED  BY <1>3, <1>6, <3>1
  <2> QED
    BY <1>1, <2>1, <2>2, <2>4, <2>5, SameMessage
<1>14. Parse(class, s) = [message |-> m, state |-> "parsing"]
  BY <1>7, <1>8, <1>11, <1>12, <1>13 DEF Merged
<1>15. ByteSize(m) = Len(s)
  <2>1. m.has_bits \cap (1 .. n) = m.has_bits
    <3>1. m.has_bits \subseteq 1 .. n
      BY <1>1, <1>4 DEF Held
    <3> QED  BY <3>1
  <2>2. Len(w) = Cardinality(m.has_bits) /\ w \in Seq(F)
    BY <1>5, <2>1 DEF FieldsRead
  <2>3. Len(w \o u) = Len(w) + Len(u)
    BY <1>6, <2>2
  <2> QED  BY <1>3, <2>2, <2>3 DEF ByteSize
<1>16. SerializeWithCachedSizes(class, m) = s
  BY <1>3 DEF SerializeWithCachedSizes
<1>17. /\ ParseFromString(class, s).message = m
       /\ ParseFromString(class, s).result = IsInitialized(class, m)
  <2>1. PICK parsed : parsed = MergePartialFromCodedStream(class, Clear(class), s)
    OBVIOUS
  <2>2. parsed.message = m /\ parsed.state = "parsing"
    BY <1>14, <2>1 DEF Parse
  <2>3. ParseFromString(class, s)
          = [message |-> m, result |-> TRUE /\ IsInitialized(class, m)]
    BY <2>1, <2>2 DEF ParseFromString
  <2> QED  BY <2>3 DEF IsInitialized
<1> QED
  BY <1>2, <1>15, <1>16, <1>17 DEF RoundTrip

(* What was read of a message unless the reading failed: fields of its       *)
(* class, and whole chunks that it does not know.                            *)
ReadWhole(class, C, p) ==
  p.state # "failure" =>
    /\ p.message \in Held(class, {c \in C : Foreign(class, c)}, Values(C))
    /\ \A k \in DOMAIN class : k \in p.message.has_bits \/ p.message.value[k] = 0

LEMMA TurnWhole ==
  ASSUME NEW class, NEW C, NEW p, ReadWhole(class, C, p), NEW c \in C
  PROVE  ReadWhole(class, C, ParseChunk(class, p, c))
<1> DEFINE FC == {d \in C : Foreign(class, d)}
           V == Values(C)
           known == c.field \in DOMAIN class /\ c.wire = class[c.field]
<1>1. PICK m, q : m = p.message /\ q = ParseChunk(class, p, c)
  OBVIOUS
<1>2. CASE p.state # "parsing"
  <2>1. q = p
    BY <1>1, <1>2, TurnCases
  <2> QED  BY <1>1, <2>1
<1>3. CASE p.state = "parsing" /\ c.wire = "end_group"
  <2>1. q = [p EXCEPT !.state = "end_group"]
    BY <1>1, <1>3, TurnCases
  <2>2. q.message = p.message
    BY <2>1
  <2> QED  BY <1>1, <1>3, <2>2 DEF ReadWhole
<1>4. CASE p.state = "parsing" /\ c.wire # "end_group" /\ c.cut
  <2>1. q.state = "failure"
    BY <1>1, <1>4, TurnCases
  <2> QED  BY <1>1, <2>1 DEF ReadWhole
<1>5. CASE p.state = "parsing" /\ c.wire # "end_group" /\ ~c.cut
  <2>1. m \in Held(class, FC, V) /\ \A k \in DOMAIN class : k \in m.has_bits \/ m.value[k] = 0
    BY <1>1, <1>5 DEF ReadWhole
  <2>2. CASE known
    <3>1. q = [message |-> Set(m, c.field, c.value), state |-> "parsing"]
      BY <1>1, <1>5, <2>2, TurnCases
    <3>2. PICK k \in DOMAIN class, v \in V : k = c.field /\ v = c.value
      BY <2>2 DEF Values
    <3> HIDE DEF FC, V
    <3>3. PICK b : b = Set(m, k, v) /\ SetOf(class, FC, V, m, k, v, b)
      BY <2>1, IsSetOf
    <3>4. b \in Held(class, FC, V) /\ \A j \in DOMAIN class : j \in b.has_bits \/ b.value[j] = 0
      BY <2>1, <3>3 DEF SetOf
    <3>5. q.message = b
      BY <3>1, <3>2, <3>3
    <3> QED  BY <1>1, <3>4, <3>5 DEF ReadWhole, FC, V
  <2>3. CASE ~known
    <3>1. q = [message |-> Keep(m, c), state |-> "parsing"]
      BY <1>1, <1>5, <2>3, TurnCases
    <3>2. c \in FC
      BY <1>5, <2>3 DEF Foreign
    <3> HIDE DEF FC, V
    <3>3. PICK b : b = Keep(m, c) /\ KeepOf(class, FC, V, m, c, b)
      BY <2>1, <3>2, IsKeepOf
    <3>4. b \in Held(class, FC, V) /\ \A j \in DOMAIN class : j \in b.has_bits \/ b.value[j] = 0
      BY <2>1, <3>3 DEF KeepOf
    <3>5. q.message = b
      BY <3>1, <3>3
    <3> QED  BY <1>1, <3>4, <3>5 DEF ReadWhole, FC, V
  <2> QED
    BY <2>2, <2>3
<1> QED
  BY <1>2, <1>3, <1>4, <1>5

LEMMA ParseWhole ==
  ASSUME NEW class, NEW C, NEW s \in Seq(C)
  PROVE  ReadWhole(class, C, Parse(class, s))
<1> DEFINE e == Clear(class)
           T == Turns(class, e, s)
           S == {n \in 0 .. Len(s) : ReadWhole(class, C, T[n])}
           FC == {c \in C : Foreign(class, c)}
<1>1. 0 \in S
  <2>1. T[0] = FirstTurn(e)
    BY TurnsAt
  <2>2. e \in Held(class, FC, Values(C)) /\ \A k \in DOMAIN class : e.value[k] = 0
    <3>1. 0 \in Values(C) /\ <<>> \in Seq(FC)
      BY DEF Values
    <3> HIDE DEF FC
    <3> QED  BY <3>1 DEF Clear, SharedCtor, Held
  <2>3. 0 \in 0 .. Len(s)
    OBVIOUS
  <2> HIDE DEF e, T, FC
  <2>4. T[0].message = e
    BY <2>1 DEF FirstTurn
  <2>5. ReadWhole(class, C, T[0])
    BY <2>2, <2>4 DEF ReadWhole, FC
  <2> QED  BY <2>3, <2>5
<1>2. ASSUME NEW n \in 1 .. Len(s), n - 1 \in S PROVE n \in S
  <2>1. PICK c \in C : c = s[n]
    OBVIOUS
  <2>2. PICK p, q : p = T[n - 1] /\ q = T[n]
    OBVIOUS
  <2>3. q = ParseChunk(class, p, c)
    <3>1. \A m : Turns(class, m, s)[n] = ParseChunk(class, Turns(class, m, s)[n - 1], s[n])
      BY TurnAt
    <3> QED  BY <2>1, <2>2, <3>1
  <2>4. ReadWhole(class, C, p)
    BY <1>2, <2>2
  <2>5. ReadWhole(class, C, q)
    BY <2>3, <2>4, TurnWhole
  <2>6. n \in 0 .. Len(s)
    OBVIOUS
  <2> HIDE DEF T
  <2> QED  BY <2>2, <2>5, <2>6
<1>3. Len(s) \in S
  <2>1. Len(s) \in Nat /\ Len(s) \in 0 .. Len(s)
    OBVIOUS
  <2> HIDE DEF S
  <2> QED  BY <1>1, <1>2, <2>1, UpTo
<1> QED
  BY <1>3 DEF Parse, MergePartialFromCodedStream

(* What was read of any stream, unless the reading failed, is written and    *)
(* read again as the same message, although not as the same stream: fields   *)
(* come in the order of their numbers and once                               *)
(* (MergePartialFromCodedStream, SerializeWithCachedSizes).                  *)
THEOREM ReadMessagesRoundTrip ==
  ASSUME NEW class \in Seq(Kinds), NEW C, NEW s \in Seq(C)
  PROVE  LET read == MergePartialFromCodedStream(class, Clear(class), s)
         IN  read.state # "failure" => RoundTrip(class, read.message)
<1> DEFINE FC == {c \in C : Foreign(class, c)}
           V == Values(C)
<1>1. PICK p : p = Parse(class, s)
  OBVIOUS
<1>2. SUFFICES ASSUME p.state # "failure" PROVE RoundTrip(class, p.message)
  BY <1>1 DEF Parse
<1>3. PICK m : m = p.message
  OBVIOUS
<1>4. m \in Held(class, FC, V) /\ \A k \in DOMAIN class : k \in m.has_bits \/ m.value[k] = 0
  BY <1>1, <1>2, <1>3, ParseWhole DEF ReadWhole
<1>5. AllForeign(class, FC)
  BY DEF AllForeign
<1>6. V \cup {0} = V
  BY DEF Values
<1> HIDE DEF FC, V
<1>7. m \in Messages(class, V, Seq(FC))
  BY <1>4, <1>6 DEF Held, Messages
<1>8. RoundTrip(class, m)
  BY <1>5, <1>7, MessagesRoundTrip
<1> QED
  BY <1>3, <1>8
=============================================================================
