-------------------------- MODULE CtcpPacketProofs --------------------------
(* Proofs about CtcpPacket: a segment arrives as it was sent, and one       *)
(* flipped bit is detected, for every payload, number and initial number,   *)
(* with bytes of eight bits too.                                            *)
EXTENDS CtcpPacket, SumProofs

Uint16 == 0..(Word - 1)
Uint32 == 0..(Long - 1)
Most == 736 * (Word - 1)   \* of a sum over the longest packet
-----------------------------------------------------------------------------
(* Arithmetic *)

LEMMA Sizes ==
  \/ B = 128 /\ Word = 16384 /\ Long = 268435456 /\ Most = 12057888
  \/ B = 256 /\ Word = 65536 /\ Long = 4294967296 /\ Most = 48233760
<1>1. CASE B = 128
  BY SMT, <1>1 DEF Word, Long, Most
<1>2. CASE B = 256
  BY SMT, <1>2 DEF Word, Long, Most
<1> QED  BY SMT, <1>1, <1>2, ByteAssumption

(* The same without intervals, which a solver would enumerate.              *)
LEMMA Ranges ==
  /\ B \in Nat /\ Word \in Nat /\ Long \in Nat /\ Most \in Nat
  /\ \A x : x \in Byte <=> (x \in Nat /\ x <= B - 1)
  /\ \A x : x \in Uint16 <=> (x \in Nat /\ x <= Word - 1)
  /\ \A x : x \in Uint32 <=> (x \in Nat /\ x <= Long - 1)
  /\ \A x : x \in 0..Most <=> (x \in Nat /\ x <= Most)
  /\ \A x : x \in 1..Most <=> (x \in Nat /\ x <= Most /\ x > 0)
<1>1. B \in Nat /\ Word \in Nat /\ Long \in Nat
  BY SMT, Sizes
<1>2. Most \in Nat
  BY SMT, Sizes DEF Most
<1> QED  BY SMT, <1>1, <1>2 DEF Byte, Uint16, Uint32

(* htons() is its own inverse and keeps 0 and all ones.                     *)
LEMMA Swap ==
  ASSUME NEW x \in Uint16
  PROVE  /\ htons(x) \in Uint16 /\ htons(htons(x)) = x
         /\ htons(x) = 0 <=> x = 0
         /\ htons(x) = Word - 1 <=> x = Word - 1
<1>1. CASE B = 128
  <2>0. Word = 16384
    BY SMT, <1>1 DEF Word
  <2>1. Word = 16384 /\ x \in Nat /\ x <= 16383
    BY SMT, <2>0, Ranges
  <2> DEFINE h == x \div 128
             l == x % 128
  <2>2. h \in Nat /\ l \in Nat /\ h <= 127 /\ l <= 127 /\ x = h * 128 + l
    BY SMT, <2>1
  <2> HIDE DEF h, l
  <2>3. htons(x) = l * 128 + h
    <3>1. (h * 128 + l) % 128 = l /\ (h * 128 + l) \div 128 = h
      BY SMT, <2>2
    <3> QED  BY SMT, <1>1, <2>2, <3>1 DEF htons
  <2>4. htons(l * 128 + h) = h * 128 + l
    <3>1. (l * 128 + h) % 128 = h /\ (l * 128 + h) \div 128 = l
      BY SMT, <2>2
    <3> QED  BY SMT, <1>1, <2>2, <3>1 DEF htons
  <2>5. l * 128 + h \in Nat /\ l * 128 + h <= Word - 1
    BY SMT, <2>1, <2>2
  <2>6. htons(x) \in Uint16
    BY SMT, <2>3, <2>5, Ranges
  <2>7. /\ htons(x) = 0 <=> x = 0
        /\ htons(x) = Word - 1 <=> x = Word - 1
    BY SMT, <2>1, <2>2, <2>3
  <2> QED  BY <2>2, <2>3, <2>4, <2>6, <2>7
<1>2. CASE B = 256
  <2>0. Word = 65536
    BY SMT, <1>2 DEF Word
  <2>1. Word = 65536 /\ x \in Nat /\ x <= 65535
    BY SMT, <2>0, Ranges
  <2> DEFINE h == x \div 256
             l == x % 256
  <2>2. h \in Nat /\ l \in Nat /\ h <= 255 /\ l <= 255 /\ x = h * 256 + l
    BY SMT, <2>1
  <2> HIDE DEF h, l
  <2>3. htons(x) = l * 256 + h
    <3>1. (h * 256 + l) % 256 = l /\ (h * 256 + l) \div 256 = h
      BY SMT, <2>2
    <3> QED  BY SMT, <1>2, <2>2, <3>1 DEF htons
  <2>4. htons(l * 256 + h) = h * 256 + l
    <3>1. (l * 256 + h) % 256 = h /\ (l * 256 + h) \div 256 = l
      BY SMT, <2>2
    <3> QED  BY SMT, <1>2, <2>2, <3>1 DEF htons
  <2>5. l * 256 + h \in Nat /\ l * 256 + h <= Word - 1
    BY SMT, <2>1, <2>2
  <2>6. htons(x) \in Uint16
    BY SMT, <2>3, <2>5, Ranges
  <2>7. /\ htons(x) = 0 <=> x = 0
        /\ htons(x) = Word - 1 <=> x = Word - 1
    BY SMT, <2>1, <2>2, <2>3
  <2> QED  BY <2>2, <2>3, <2>4, <2>6, <2>7
<1> QED  BY <1>1, <1>2, ByteAssumption

(* What the rounds of the while loop leave: a word, not zero unless the sum *)
(* was, and the same modulo Word - 1.                                       *)
Folded(sum) == Carry(Carry(sum))

LEMMA FoldedFacts ==
  ASSUME NEW sum \in 0..Most
  PROVE  /\ Folded(sum) \in Uint16 /\ (sum > 0 => Folded(sum) > 0)
         /\ \E k \in Nat : sum = Folded(sum) + k * (Word - 1)
<1>1. CASE B = 256
  <2>0. Word = 65536 /\ sum \in Nat /\ sum <= 48233760
    BY SMT, <1>1, Sizes, Ranges
  <2> DEFINE q == sum \div 65536
             r == sum % 65536
             s == q + r
  <2>1. q \in Nat /\ q <= 736 /\ r \in Nat /\ r <= 65535 /\ sum = q * 65536 + r
    BY SMT, <2>0
  <2>2. CASE sum < 65536
    <3>1. Folded(sum) = sum
      BY SMT, <2>0, <2>2 DEF Folded, Carry
    <3>2. sum = Folded(sum) + 0 * (Word - 1)
      BY SMT, <2>0, <3>1
    <3>3. Folded(sum) \in Uint16
      BY SMT, <2>0, <2>2, <3>1, Ranges
    <3> QED  BY <3>1, <3>2, <3>3
  <2>3. CASE sum >= 65536
    <3>1. Carry(sum) = s /\ q >= 1
      BY SMT, <2>0, <2>3 DEF Carry
    <3> HIDE DEF q, r
    <3>2. CASE s < 65536
      <4>1. Folded(sum) = s
        BY SMT, <2>0, <2>1, <3>1, <3>2 DEF Folded, Carry
      <4>2. sum = Folded(sum) + q * (Word - 1) /\ q \in Nat
        BY SMT, <2>0, <2>1, <4>1
      <4>3. Folded(sum) \in Uint16 /\ Folded(sum) > 0
        BY SMT, <2>0, <2>1, <3>1, <3>2, <4>1, Ranges
      <4> QED  BY <4>2, <4>3
    <3>3. CASE s >= 65536
      <4>1. s \div 65536 = 1 /\ s % 65536 = s - 65536
        BY SMT, <2>1, <3>3
      <4>2. Folded(sum) = s - 65535
        BY SMT, <2>0, <2>1, <3>1, <3>3, <4>1 DEF Folded, Carry
      <4>3. sum = Folded(sum) + (q + 1) * (Word - 1) /\ q + 1 \in Nat
        BY SMT, <2>0, <2>1, <4>2
      <4>4. Folded(sum) \in Uint16 /\ Folded(sum) > 0
        BY SMT, <2>0, <2>1, <3>1, <3>3, <4>2, Ranges
      <4> QED  BY <4>3, <4>4
    <3> QED  BY SMT, <2>1, <3>2, <3>3
  <2> QED  BY SMT, <2>0, <2>2, <2>3
<1>2. CASE B = 128
  <2>0. Word = 16384 /\ sum \in Nat /\ sum <= 12057888
    BY SMT, <1>2, Sizes, Ranges
  <2> DEFINE q == sum \div 16384
             r == sum % 16384
             s == q + r
  <2>1. q \in Nat /\ q <= 736 /\ r \in Nat /\ r <= 16383 /\ sum = q * 16384 + r
    BY SMT, <2>0
  <2>2. CASE sum < 16384
    <3>1. Folded(sum) = sum
      BY SMT, <2>0, <2>2 DEF Folded, Carry
    <3>2. sum = Folded(sum) + 0 * (Word - 1)
      BY SMT, <2>0, <3>1
    <3>3. Folded(sum) \in Uint16
      BY SMT, <2>0, <2>2, <3>1, Ranges
    <3> QED  BY <3>1, <3>2, <3>3
  <2>3. CASE sum >= 16384
    <3>1. Carry(sum) = s /\ q >= 1
      BY SMT, <2>0, <2>3 DEF Carry
    <3> HIDE DEF q, r
    <3>2. CASE s < 16384
      <4>1. Folded(sum) = s
        BY SMT, <2>0, <2>1, <3>1, <3>2 DEF Folded, Carry
      <4>2. sum = Folded(sum) + q * (Word - 1) /\ q \in Nat
        BY SMT, <2>0, <2>1, <4>1
      <4>3. Folded(sum) \in Uint16 /\ Folded(sum) > 0
        BY SMT, <2>0, <2>1, <3>1, <3>2, <4>1, Ranges
      <4> QED  BY <4>2, <4>3
    <3>3. CASE s >= 16384
      <4>1. s \div 16384 = 1 /\ s % 16384 = s - 16384
        BY SMT, <2>1, <3>3
      <4>2. Folded(sum) = s - 16383
        BY SMT, <2>0, <2>1, <3>1, <3>3, <4>1 DEF Folded, Carry
      <4>3. sum = Folded(sum) + (q + 1) * (Word - 1) /\ q + 1 \in Nat
        BY SMT, <2>0, <2>1, <4>2
      <4>4. Folded(sum) \in Uint16 /\ Folded(sum) > 0
        BY SMT, <2>0, <2>1, <3>1, <3>3, <4>2, Ranges
      <4> QED  BY <4>3, <4>4
    <3> QED  BY SMT, <2>1, <3>2, <3>3
  <2> QED  BY SMT, <2>0, <2>2, <2>3
<1> QED  BY SMT, <1>1, <1>2, ByteAssumption

(* Sums that differ by less than Word - 1 have different checksums.         *)
LEMMA ComplementDiffers ==
  ASSUME NEW s1 \in 1..Most, NEW s2 \in 1..Most, s1 < s2, s2 - s1 < Word - 1
  PROVE  Complement(s1) # Complement(s2)
<1>1. /\ Folded(s1) \in Uint16 /\ Folded(s1) > 0 /\ Folded(s2) \in Uint16 /\ Folded(s2) > 0
      /\ \E k \in Nat : s1 = Folded(s1) + k * (Word - 1)
      /\ \E k \in Nat : s2 = Folded(s2) + k * (Word - 1)
  <2>1. s1 \in 0..Most /\ s2 \in 0..Most /\ s1 > 0 /\ s2 > 0
    BY SMT, Sizes DEF Most
  <2> QED  BY SMT, <2>1, FoldedFacts
<1>2. Folded(s1) # Folded(s2)
  <2>1. PICK k1 \in Nat : s1 = Folded(s1) + k1 * (Word - 1)
    BY SMT, <1>1
  <2>2. PICK k2 \in Nat : s2 = Folded(s2) + k2 * (Word - 1)
    BY SMT, <1>1
  <2> DEFINE f1 == Folded(s1)
             f2 == Folded(s2)
  <2>3. f1 \in Nat /\ f1 < Word /\ f1 > 0 /\ f2 \in Nat /\ f2 < Word /\ f2 > 0
    BY SMT, <1>1, Ranges
  <2>4. s1 \in Nat /\ s2 \in Nat
    BY SMT, Sizes DEF Most
  <2> HIDE DEF f1, f2
  <2>5. CASE Word = 16384
    BY SMT, <2>1, <2>2, <2>3, <2>4, <2>5 DEF f1, f2
  <2>6. CASE Word = 65536
    BY SMT, <2>1, <2>2, <2>3, <2>4, <2>6 DEF f1, f2
  <2> QED  BY SMT, <2>5, <2>6, Sizes
<1>3. \A f \in Uint16 : f > 0 =>
        /\ Word - 1 - f \in Uint16 /\ Word - 1 - f # Word - 1
        /\ htons(Word - 1 - f) # Word - 1 /\ htons(htons(Word - 1 - f)) = Word - 1 - f
        /\ htons(Word - 1 - f) = 0 => f = Word - 1
  <2> SUFFICES ASSUME NEW f \in Uint16, f > 0
               PROVE  /\ Word - 1 - f \in Uint16 /\ Word - 1 - f # Word - 1
                      /\ htons(Word - 1 - f) # Word - 1 /\ htons(htons(Word - 1 - f)) = Word - 1 - f
                      /\ htons(Word - 1 - f) = 0 => f = Word - 1
    OBVIOUS
  <2> DEFINE x == Word - 1 - f
  <2>1. x \in Uint16 /\ x # Word - 1 /\ (x = 0 => f = Word - 1)
    BY SMT, Sizes DEF Uint16
  <2> HIDE DEF x
  <2>2. /\ htons(x) # Word - 1 /\ htons(htons(x)) = x
        /\ htons(x) = 0 => f = Word - 1
    BY SMT, <2>1, Swap
  <2> QED  BY SMT, <2>1, <2>2 DEF x
<1>4. \A f \in Uint16 : Word - 1 - (Word - 1 - f) = f
  BY SMT, Sizes DEF Uint16
<1> DEFINE C(f) == LET s == htons(Word - 1 - f) IN IF s # 0 THEN s ELSE Word - 1
<1>5. Complement(s1) = C(Folded(s1)) /\ Complement(s2) = C(Folded(s2))
  BY SMT DEF Complement, Folded
<1> QED  BY SMT, <1>1, <1>2, <1>3, <1>4, <1>5

(* A checksum is a word, and adding it to what was summed gives all ones.   *)
LEMMA ComplementFacts ==
  ASSUME NEW sum \in 0..Most
  PROVE  /\ Complement(sum) \in Uint16
         /\ sum + htons(Complement(sum)) \in 1..Most
              => Complement(sum + htons(Complement(sum))) = Word - 1
<1> DEFINE f == Folded(sum)
           x == Word - 1 - f
           c == Complement(sum)
<1>1. f \in Uint16 /\ \E k \in Nat : sum = f + k * (Word - 1)
  BY SMT, FoldedFacts
<1>2. x \in Uint16 /\ x + f = Word - 1 /\ Word - 1 \in Uint16
  BY SMT, <1>1, Sizes DEF Uint16
<1>3. c = IF htons(x) # 0 THEN htons(x) ELSE Word - 1
  BY SMT DEF Complement, Folded
<1> HIDE DEF x, c
<1>4. /\ htons(x) \in Uint16 /\ htons(htons(x)) = x /\ (htons(x) = 0 <=> x = 0)
      /\ htons(Word - 1) = Word - 1
  BY SMT, <1>2, Swap
<1>5. c \in Uint16 /\ htons(c) \in Uint16 /\ (htons(c) = x \/ (x = 0 /\ htons(c) = Word - 1))
  BY SMT, <1>2, <1>3, <1>4
<1>6. ASSUME sum + htons(c) \in 1..Most PROVE Complement(sum + htons(c)) = Word - 1
  <2> DEFINE t == sum + htons(c)
             g == Folded(t)
  <2>1. t \in 0..Most /\ t > 0
    BY SMT, <1>6, Sizes DEF Most
  <2>2. g \in Uint16 /\ g > 0 /\ \E k \in Nat : t = g + k * (Word - 1)
    <3> HIDE DEF t
    <3> QED  BY SMT, <2>1, FoldedFacts
  <2>3. PICK k \in Nat : t = g + k * (Word - 1)
    BY SMT, <2>2
  <2>4. PICK j \in Nat : sum = f + j * (Word - 1)
    BY SMT, <1>1
  <2>5. t = sum + x \/ (x = 0 /\ t = sum + Word - 1)
    BY SMT, <1>5, Sizes DEF Uint16
  <2> HIDE DEF t, g, f
  <2>6. g = Word - 1
    <3>0. f \in Nat /\ f < Word /\ x \in Nat /\ x < Word /\ g \in Nat /\ g > 0 /\ g < Word /\ sum \in Nat
      BY SMT, <1>1, <1>2, <2>2, Sizes DEF Uint16, Most, x
    <3>1. CASE Word = 16384
      BY SMT, <1>2, <2>3, <2>4, <2>5, <3>0, <3>1
    <3>2. CASE Word = 65536
      BY SMT, <1>2, <2>3, <2>4, <2>5, <3>0, <3>2
    <3> QED  BY SMT, <3>1, <3>2, Sizes
  <2>7. Word - 1 - g = 0 /\ htons(0) = 0
    <3>1. 0 \in Uint16 /\ Word - 1 - g = 0
      BY SMT, <2>6, Sizes DEF Uint16
    <3> QED  BY SMT, <3>1, Swap
  <2> QED  BY SMT, <2>7 DEF Complement, g, Folded, t
<1> QED  BY SMT, <1>5, <1>6 DEF c

-----------------------------------------------------------------------------
(* Words and their sums *)

(* Two bytes are a word, and the word gives them back.                      *)
LEMMA Pair ==
  ASSUME NEW x \in Byte, NEW y \in Byte
  PROVE  /\ x * B + y \in Uint16
         /\ (x * B + y) \div B = x /\ (x * B + y) % B = y
<1>1. CASE B = 128
  <2>1. B = 128 /\ Word = 16384
    BY SMT, <1>1, Sizes
  <2>2. x \in Nat /\ x <= 127 /\ y \in Nat /\ y <= 127
    BY SMT, <2>1, Ranges
  <2>3. /\ x * 128 + y \in Nat /\ x * 128 + y <= 16383
        /\ (x * 128 + y) \div 128 = x /\ (x * 128 + y) % 128 = y
    BY SMT, <2>2
  <2>4. x * B + y \in Uint16
    BY SMT, <2>1, <2>3, Ranges
  <2> QED  BY SMT, <2>1, <2>3, <2>4
<1>2. CASE B = 256
  <2>1. B = 256 /\ Word = 65536
    BY SMT, <1>2, Sizes
  <2>2. x \in Nat /\ x <= 255 /\ y \in Nat /\ y <= 255
    BY SMT, <2>1, Ranges
  <2>3. /\ x * 256 + y \in Nat /\ x * 256 + y <= 65535
        /\ (x * 256 + y) \div 256 = x /\ (x * 256 + y) % 256 = y
    BY SMT, <2>2
  <2>4. x * B + y \in Uint16
    BY SMT, <2>1, <2>3, Ranges
  <2> QED  BY SMT, <2>1, <2>3, <2>4
<1> QED  BY <1>1, <1>2, ByteAssumption

(* A word is its two bytes.                                                 *)
LEMMA PairOf ==
  ASSUME NEW w \in Uint16
  PROVE  /\ w \div B \in Byte /\ w % B \in Byte
         /\ (w \div B) * B + (w % B) = w
<1>1. CASE B = 128
  <2>1. B = 128 /\ Word = 16384
    BY SMT, <1>1, Sizes
  <2>2. w \in Nat /\ w <= 16383
    BY SMT, <2>1, Ranges
  <2>3. /\ w \div 128 \in Nat /\ w \div 128 <= 127 /\ w % 128 \in Nat /\ w % 128 <= 127
        /\ (w \div 128) * 128 + (w % 128) = w
    BY SMT, <2>2
  <2>4. w \div B \in Byte /\ w % B \in Byte
    BY SMT, <2>1, <2>3, Ranges
  <2> QED  BY SMT, <2>1, <2>3, <2>4
<1>2. CASE B = 256
  <2>1. B = 256 /\ Word = 65536
    BY SMT, <1>2, Sizes
  <2>2. w \in Nat /\ w <= 65535
    BY SMT, <2>1, Ranges
  <2>3. /\ w \div 256 \in Nat /\ w \div 256 <= 255 /\ w % 256 \in Nat /\ w % 256 <= 255
        /\ (w \div 256) * 256 + (w % 256) = w
    BY SMT, <2>2
  <2>4. w \div B \in Byte /\ w % B \in Byte
    BY SMT, <2>1, <2>3, Ranges
  <2> QED  BY SMT, <2>1, <2>3, <2>4
<1> QED  BY <1>1, <1>2, ByteAssumption

(* Two words are a uint32_t, and it gives them back.                        *)
LEMMA LongPair ==
  ASSUME NEW x \in Uint16, NEW y \in Uint16
  PROVE  /\ x * Word + y \in Uint32
         /\ (x * Word + y) \div Word = x /\ (x * Word + y) % Word = y
<1>1. CASE B = 128
  <2>1. Word = 16384 /\ Long = 268435456
    BY SMT, <1>1, Sizes
  <2>2. x \in Nat /\ x <= 16383 /\ y \in Nat /\ y <= 16383
    BY SMT, <2>1, Ranges
  <2>3. /\ x * 16384 + y \in Nat /\ x * 16384 + y <= 268435455
        /\ (x * 16384 + y) \div 16384 = x /\ (x * 16384 + y) % 16384 = y
    BY SMT, <2>2
  <2>4. x * Word + y \in Uint32
    BY SMT, <2>1, <2>3, Ranges
  <2> QED  BY SMT, <2>1, <2>3, <2>4
<1>2. CASE B = 256
  <2>1. Word = 65536 /\ Long = 4294967296
    BY SMT, <1>2, Sizes
  <2>2. x \in Nat /\ x <= 65535 /\ y \in Nat /\ y <= 65535
    BY SMT, <2>1, Ranges
  <2>3. /\ x * 65536 + y \in Nat /\ x * 65536 + y <= 4294967295
        /\ (x * 65536 + y) \div 65536 = x /\ (x * 65536 + y) % 65536 = y
    BY SMT, <2>2
  <2>4. x * Word + y \in Uint32
    BY SMT, <2>1, <2>3, Ranges
  <2> QED  BY SMT, <2>1, <2>3, <2>4
<1> QED  BY <1>1, <1>2, ByteAssumption

(* A uint32_t is its two words.                                             *)
LEMMA LongPairOf ==
  ASSUME NEW w \in Uint32
  PROVE  /\ w \div Word \in Uint16 /\ w % Word \in Uint16
         /\ (w \div Word) * Word + (w % Word) = w
<1>1. CASE B = 128
  <2>1. Word = 16384 /\ Long = 268435456
    BY SMT, <1>1, Sizes
  <2>2. w \in Nat /\ w <= 268435455
    BY SMT, <2>1, Ranges
  <2>3. /\ w \div 16384 \in Nat /\ w \div 16384 <= 16383 /\ w % 16384 \in Nat /\ w % 16384 <= 16383
        /\ (w \div 16384) * 16384 + (w % 16384) = w
    BY SMT, <2>2
  <2>4. w \div Word \in Uint16 /\ w % Word \in Uint16
    BY SMT, <2>1, <2>3, Ranges
  <2> QED  BY SMT, <2>1, <2>3, <2>4
<1>2. CASE B = 256
  <2>1. Word = 65536 /\ Long = 4294967296
    BY SMT, <1>2, Sizes
  <2>2. w \in Nat /\ w <= 4294967295
    BY SMT, <2>1, Ranges
  <2>3. /\ w \div 65536 \in Nat /\ w \div 65536 <= 65535 /\ w % 65536 \in Nat /\ w % 65536 <= 65535
        /\ (w \div 65536) * 65536 + (w % 65536) = w
    BY SMT, <2>2
  <2>4. w \div Word \in Uint16 /\ w % Word \in Uint16
    BY SMT, <2>1, <2>3, Ranges
  <2> QED  BY SMT, <2>1, <2>3, <2>4
<1> QED  BY <1>1, <1>2, ByteAssumption

(* The words of a string of bytes.                                          *)
LEMMA WordsFacts ==
  ASSUME NEW b \in Seq(Byte)
  PROVE  /\ Words(b) \in Seq(Uint16) /\ Words(b) \in Seq(Nat)
         /\ Len(Words(b)) = (Len(b) + 1) \div 2
         /\ \A i \in 1..((Len(b) + 1) \div 2) :
              Words(b)[i] = b[2 * i - 1] * B + (IF 2 * i <= Len(b) THEN b[2 * i] ELSE 0)
<1> DEFINE n == (Len(b) + 1) \div 2
           e(i) == b[2 * i - 1] * B + (IF 2 * i <= Len(b) THEN b[2 * i] ELSE 0)
<1>1. Len(b) \in Nat /\ n \in Nat /\ 2 * n <= Len(b) + 1
  OBVIOUS
<1>2. Words(b) = [i \in 1..n |-> e(i)]
  BY DEF Words
<1>3. \A i \in 1..n : e(i) \in Uint16
  <2> SUFFICES ASSUME NEW i \in 1..n PROVE e(i) \in Uint16
    OBVIOUS
  <2> DEFINE x == b[2 * i - 1]
             y == IF 2 * i <= Len(b) THEN b[2 * i] ELSE 0
  <2>1. 2 * i - 1 \in 1..Len(b) /\ (2 * i <= Len(b) => 2 * i \in 1..Len(b))
    BY <1>1
  <2>2. 0 \in Byte
    BY SMT, Sizes DEF Byte
  <2>3. x \in Byte /\ y \in Byte
    BY <2>1, <2>2
  <2> HIDE DEF x, y
  <2>4. x * B + y \in Uint16
    BY <2>3, Pair
  <2> QED  BY <2>4 DEF x, y
<1> HIDE DEF n, e
<1>4. Words(b) \in Seq(Uint16) /\ Len(Words(b)) = n
  BY <1>1, <1>2, <1>3
<1>5. \A i \in 1..n : e(i) \in Nat
  BY <1>3, Ranges
<1>6. Words(b) \in Seq(Nat)
  BY <1>1, <1>2, <1>5
<1>7. \A i \in 1..n : Words(b)[i] = e(i)
  BY <1>2
<1> QED  BY <1>4, <1>6, <1>7 DEF n, e

(* What is summed up of one packet or segment.                              *)
Str == {b \in Seq(Byte) : Len(b) <= 1472}

(* The sum of the longest packet needs no third round of the while loop.    *)
LEMMA SumOfWords ==
  ASSUME NEW b \in Str
  PROVE  Total(Words(b)) \in 0..Most
<1> DEFINE w == Words(b)
<1>1. b \in Seq(Byte) /\ Len(b) \in Nat /\ Len(b) <= 1472
  BY DEF Str
<1>2. w \in Seq(Uint16) /\ w \in Seq(Nat) /\ Len(w) = (Len(b) + 1) \div 2
  BY <1>1, WordsFacts
<1>3. Len(w) \in Nat /\ Len(w) <= 736
  BY SMT, <1>1, <1>2
<1> HIDE DEF w
<1>4. Word - 1 \in Nat /\ \A i \in 1..Len(w) : w[i] <= Word - 1
  <2>1. \A i \in 1..Len(w) : w[i] \in Uint16
    BY <1>2
  <2>2. Word - 1 \in Nat
    BY SMT, Sizes
  <2> QED  BY <2>1, <2>2, Ranges
<1>5. Total(w) \in Nat /\ Total(w) <= Len(w) * (Word - 1)
  BY <1>2, <1>4, TotalIsNat, TotalBound
<1>6. Len(w) * (Word - 1) <= 736 * (Word - 1)
  <2>1. CASE Word - 1 = 16383
    BY SMT, <1>3, <2>1
  <2>2. CASE Word - 1 = 65535
    BY SMT, <1>3, <2>2
  <2> QED  BY SMT, <2>1, <2>2, Sizes
<1>7. Len(w) * (Word - 1) \in Int /\ Most \in Int /\ Total(w) <= Most
  <2>1. Len(w) * (Word - 1) \in Int /\ 736 * (Word - 1) \in Int
    BY <1>3, <1>4
  <2> QED  BY <1>5, <1>6, <2>1 DEF Most
<1>8. Total(w) \in 0..Most
  BY <1>5, <1>7
<1> QED  BY <1>8 DEF w

(* A checksum fits its field.                                               *)
LEMMA CksumIsWord ==
  ASSUME NEW b \in Str
  PROVE  cksum(b) \in Uint16
BY SumOfWords, ComplementFacts DEF cksum

(* What replacing a byte by x gives.                                        *)
LEMMA Replaced ==
  ASSUME NEW b \in Str, NEW j \in 1..Len(b), NEW x \in Byte
  PROVE  /\ [b EXCEPT ![j] = x] \in Str /\ Len([b EXCEPT ![j] = x]) = Len(b)
         /\ [b EXCEPT ![j] = x][j] = x
         /\ \A i \in 1..Len(b) : i # j => [b EXCEPT ![j] = x][i] = b[i]
<1>1. b \in Seq(Byte) /\ Len(b) \in Nat /\ Len(b) <= 1472
  BY DEF Str
<1>2. [b EXCEPT ![j] = x] \in Seq(Byte) /\ Len([b EXCEPT ![j] = x]) = Len(b)
  BY <1>1
<1>3. [b EXCEPT ![j] = x][j] = x /\ \A i \in 1..Len(b) : i # j => [b EXCEPT ![j] = x][i] = b[i]
  BY <1>1
<1> QED  BY <1>1, <1>2, <1>3 DEF Str

(* A byte that is replaced changes one word, by a multiple of 1 or of B.    *)
LEMMA SumOfReplaced ==
  ASSUME NEW b \in Str, NEW j \in 1..Len(b), NEW x \in Byte
  PROVE  \/ Total(Words([b EXCEPT ![j] = x])) = Total(Words(b)) + (x - b[j])
         \/ Total(Words([b EXCEPT ![j] = x])) = Total(Words(b)) + (x - b[j]) * B
<1> DEFINE c == [b EXCEPT ![j] = x]
           n == (Len(b) + 1) \div 2
           k == (j + 1) \div 2
           y == b[j]
<1>1. b \in Seq(Byte) /\ Len(b) \in Nat
  BY DEF Str
<1>2. /\ c \in Str /\ c \in Seq(Byte) /\ Len(c) = Len(b) /\ c[j] = x
      /\ \A i \in 1..Len(b) : i # j => c[i] = b[i]
  BY Replaced DEF Str
<1>3. j \in Nat /\ n \in Nat /\ k \in 1..n /\ (j = 2 * k - 1 \/ j = 2 * k) /\ 2 * n <= Len(b) + 1
      /\ j <= Len(b)
  BY <1>1
<1>4. y \in Byte /\ y \in Int /\ x \in Int /\ B \in Int
  <2>1. y \in Byte
    BY <1>1
  <2> QED  BY <2>1, Ranges
<1> DEFINE v == Words(b)
           w == Words(c)
<1>5. /\ v \in Seq(Nat) /\ Len(v) = n /\ w \in Seq(Nat) /\ Len(w) = n
      /\ \A i \in 1..n : v[i] = b[2 * i - 1] * B + (IF 2 * i <= Len(b) THEN b[2 * i] ELSE 0)
      /\ \A i \in 1..n : w[i] = c[2 * i - 1] * B + (IF 2 * i <= Len(b) THEN c[2 * i] ELSE 0)
  <2>1. /\ v \in Seq(Nat) /\ Len(v) = n
        /\ \A i \in 1..n : v[i] = b[2 * i - 1] * B + (IF 2 * i <= Len(b) THEN b[2 * i] ELSE 0)
    BY <1>1, WordsFacts
  <2>2. /\ w \in Seq(Nat) /\ Len(w) = (Len(c) + 1) \div 2
        /\ \A i \in 1..((Len(c) + 1) \div 2) :
             w[i] = c[2 * i - 1] * B + (IF 2 * i <= Len(c) THEN c[2 * i] ELSE 0)
    <3> HIDE DEF c
    <3> QED  BY <1>2, WordsFacts
  <2>3. (Len(c) + 1) \div 2 = n
    BY <1>2
  <2> HIDE DEF c, n, v, w
  <2>4. /\ w \in Seq(Nat) /\ Len(w) = n
        /\ \A i \in 1..n : w[i] = c[2 * i - 1] * B + (IF 2 * i <= Len(c) THEN c[2 * i] ELSE 0)
    BY <2>2, <2>3
  <2> QED  BY <1>2, <2>1, <2>4
<1> HIDE DEF c, n, k, v, w, y
<1>6. \A i \in 1..n : i # k => w[i] = v[i]
  <2> SUFFICES ASSUME NEW i \in 1..n, i # k PROVE w[i] = v[i]
    OBVIOUS
  <2>1. 2 * i - 1 \in 1..Len(b) /\ 2 * i - 1 # j /\ 2 * i # j
        /\ (2 * i <= Len(b) => 2 * i \in 1..Len(b))
    BY <1>1, <1>3
  <2>2. c[2 * i - 1] = b[2 * i - 1] /\ (2 * i <= Len(b) => c[2 * i] = b[2 * i])
    BY <1>2, <2>1
  <2> QED  BY <1>5, <2>2
<1>7. Total(w) = Total(v) - v[k] + w[k]
  <2>1. Len(w) = Len(v) /\ k \in 1..Len(v) /\ \A i \in 1..Len(v) : i # k => w[i] = v[i]
    BY <1>3, <1>5, <1>6
  <2>2. v \in Seq(Nat) /\ w \in Seq(Nat)
    BY <1>5
  <2> QED  BY <2>1, <2>2, TotalOfChange
<1>8. Total(v) \in Nat /\ v[k] \in Nat /\ w[k] \in Nat
  <2>1. v \in Seq(Nat) /\ w \in Seq(Nat) /\ k \in 1..Len(v) /\ k \in 1..Len(w)
    BY <1>3, <1>5
  <2>2. v[k] \in Nat /\ w[k] \in Nat
    BY <2>1
  <2>3. Total(v) \in Nat
    BY <2>1, TotalIsNat
  <2> QED  BY <2>2, <2>3
<1>9. CASE j = 2 * k - 1
  <2> DEFINE z == IF 2 * k <= Len(b) THEN b[2 * k] ELSE 0
  <2>1. 2 * k # j /\ (2 * k <= Len(b) => 2 * k \in 1..Len(b))
    BY <1>1, <1>3, <1>9
  <2>2. v[k] = y * B + z
    BY <1>3, <1>5, <1>9 DEF y
  <2>3. w[k] = x * B + z
    BY <1>2, <1>3, <1>5, <1>9, <2>1
  <2>4. z \in Int
    <3>1. 2 * k <= Len(b) => b[2 * k] \in Byte
      BY <1>1, <2>1
    <3> QED  BY <3>1, Ranges
  <2> HIDE DEF z
  <2>5. Total(w) = Total(v) + (x - y) * B
    BY <1>4, <1>7, <1>8, <2>2, <2>3, <2>4
  <2> QED  BY <2>5 DEF c, v, w, y
<1>10. CASE j = 2 * k
  <2> DEFINE z == b[2 * k - 1]
  <2>1. 2 * k - 1 # j /\ 2 * k - 1 \in 1..Len(b) /\ 2 * k <= Len(b)
    BY <1>1, <1>3, <1>10
  <2>2. v[k] = z * B + y
    BY <1>3, <1>5, <1>10, <2>1 DEF y
  <2>3. w[k] = z * B + x
    BY <1>2, <1>3, <1>5, <1>10, <2>1
  <2>4. z * B \in Int
    <3>1. z \in Byte
      BY <1>1, <2>1
    <3> QED  BY <1>4, <3>1, Ranges
  <2> DEFINE zb == z * B
  <2>5. v[k] = zb + y /\ w[k] = zb + x /\ zb \in Int
    BY <2>2, <2>3, <2>4
  <2> HIDE DEF z, zb
  <2>6. Total(w) = Total(v) + (x - y)
    BY <1>4, <1>7, <1>8, <2>5
  <2> QED  BY <2>6 DEF c, v, w, y
<1> QED  BY <1>3, <1>9, <1>10

(* A byte that is not zero makes the sum positive.                          *)
LEMMA SumIsPositive ==
  ASSUME NEW b \in Str, NEW i \in 1..Len(b), b[i] > 0
  PROVE  Total(Words(b)) > 0
<1> DEFINE n == (Len(b) + 1) \div 2
           k == (i + 1) \div 2
           w == Words(b)
<1>1. b \in Seq(Byte) /\ Len(b) \in Nat
  BY DEF Str
<1>2. /\ w \in Seq(Nat) /\ Len(w) = n
      /\ \A l \in 1..n : w[l] = b[2 * l - 1] * B + (IF 2 * l <= Len(b) THEN b[2 * l] ELSE 0)
  BY <1>1, WordsFacts
<1>3. i \in Nat /\ n \in Nat /\ k \in 1..n /\ (i = 2 * k - 1 \/ i = 2 * k) /\ i <= Len(b)
      /\ 2 * k - 1 \in 1..Len(b) /\ (2 * k <= Len(b) => 2 * k \in 1..Len(b))
  BY <1>1
<1> HIDE DEF n, k, w
<1> DEFINE x == b[2 * k - 1]
           y == IF 2 * k <= Len(b) THEN b[2 * k] ELSE 0
<1>4. w[k] = x * B + y
  BY <1>2, <1>3
<1>5. x \in Nat /\ y \in Nat /\ (x > 0 \/ y > 0)
  <2>1. x \in Byte /\ (2 * k <= Len(b) => b[2 * k] \in Byte)
    BY <1>1, <1>3
  <2>2. x \in Nat /\ y \in Nat
    BY <2>1, Ranges
  <2>3. CASE i = 2 * k - 1
    BY <2>2, <2>3
  <2>4. CASE i = 2 * k
    BY <1>3, <2>2, <2>4
  <2> QED  BY <1>3, <2>3, <2>4
<1> HIDE DEF x, y
<1>6. w[k] > 0
  <2>1. CASE B = 128
    BY SMT, <1>4, <1>5, <2>1
  <2>2. CASE B = 256
    BY SMT, <1>4, <1>5, <2>2
  <2> QED  BY <2>1, <2>2, ByteAssumption
<1>7. w[k] <= Total(w) /\ Total(w) \in Nat /\ w[k] \in Nat
  <2>1. w \in Seq(Nat) /\ k \in 1..Len(w)
    BY <1>2, <1>3
  <2>2. w[k] \in Nat
    BY <2>1
  <2>3. w[k] <= Total(w)
    BY <2>1, TotalCovers
  <2>4. Total(w) \in Nat
    BY <2>1, TotalIsNat
  <2> QED  BY <2>2, <2>3, <2>4
<1>8. Total(w) > 0
  BY <1>6, <1>7
<1> QED  BY <1>8 DEF w

(* A byte that changes by at most B / 2 changes the checksum, if another    *)
(* byte is not zero.                                                        *)
LEMMA CksumOfReplaced ==
  ASSUME NEW b \in Str, NEW j \in 1..Len(b), NEW x \in Byte,
         x # b[j], x - b[j] <= B \div 2, b[j] - x <= B \div 2,
         NEW i \in 1..Len(b), i # j, b[i] > 0
  PROVE  cksum([b EXCEPT ![j] = x]) # cksum(b)
<1> DEFINE c == [b EXCEPT ![j] = x]
           y == b[j]
           t1 == Total(Words(b))
           t2 == Total(Words(c))
<1>1. c \in Str /\ Len(c) = Len(b) /\ c[i] = b[i]
  BY Replaced
<1>2. t1 \in 0..Most /\ t2 \in 0..Most /\ t1 > 0 /\ t2 > 0
  <2>1. t1 \in 0..Most /\ t1 > 0
    BY SumOfWords, SumIsPositive
  <2>2. c[i] > 0 /\ i \in 1..Len(c)
    BY <1>1
  <2> HIDE DEF c
  <2>3. t2 \in 0..Most /\ t2 > 0
    BY <1>1, <2>2, SumOfWords, SumIsPositive
  <2> QED  BY <2>1, <2>3
<1>3. t2 = t1 + (x - y) \/ t2 = t1 + (x - y) * B
  BY SumOfReplaced
<1>4. x \in Nat /\ y \in Nat /\ x # y /\ x - y <= B \div 2 /\ y - x <= B \div 2
  <2>1. b \in Seq(Byte)
    BY DEF Str
  <2>2. y \in Byte
    BY <2>1
  <2> QED  BY <2>2, Ranges
<1>5. cksum(c) = Complement(t2) /\ cksum(b) = Complement(t1)
  BY DEF cksum
<1> HIDE DEF c, y, t1, t2
<1>6. t1 \in 1..Most /\ t2 \in 1..Most /\ t1 \in Nat /\ t2 \in Nat
  BY <1>2, Ranges
<1>7. t1 # t2 /\ t2 - t1 < Word - 1 /\ t1 - t2 < Word - 1
  <2>1. CASE B = 128
    <3>1. B \div 2 = 64 /\ Word = 16384
      BY SMT, <2>1, Sizes
    <3> QED  BY SMT, <1>3, <1>4, <1>6, <2>1, <3>1
  <2>2. CASE B = 256
    <3>1. B \div 2 = 128 /\ Word = 65536
      BY SMT, <2>2, Sizes
    <3> QED  BY SMT, <1>3, <1>4, <1>6, <2>2, <3>1
  <2> QED  BY <2>1, <2>2, ByteAssumption
<1>8. Complement(t1) # Complement(t2)
  <2>1. CASE t1 < t2
    BY <1>6, <1>7, <2>1, ComplementDiffers
  <2>2. CASE t2 < t1
    BY <1>6, <1>7, <2>2, ComplementDiffers
  <2> QED  BY <1>6, <1>7, <2>1, <2>2
<1> QED  BY <1>5, <1>8 DEF c

-----------------------------------------------------------------------------
(* The layout of a segment *)

(* c is a, of n bytes, followed by b, of m bytes.                           *)
Joins(c, a, n, b, m) ==
  /\ c \in Seq(Byte) /\ Len(c) = n + m
  /\ \A i \in Nat : 1 <= i /\ i <= n => c[i] = a[i]
  /\ \A i \in Nat : n < i /\ i <= n + m => c[i] = b[i - n]

LEMMA Cat ==
  ASSUME NEW a \in Seq(Byte), NEW n \in Nat, Len(a) = n,
         NEW b \in Seq(Byte), NEW m \in Nat, Len(b) = m
  PROVE  Joins(a \o b, a, n, b, m)
<1> DEFINE c == a \o b
<1>1. c \in Seq(Byte) /\ Len(c) = n + m
  OBVIOUS
<1>2. ASSUME NEW i \in Nat, 1 <= i, i <= n PROVE c[i] = a[i]
  <2>1. i \in 1..Len(a)
    BY <1>2
  <2> QED  BY <2>1
<1>3. ASSUME NEW i \in Nat, n < i, i <= n + m PROVE c[i] = b[i - n]
  <2>1. i \in 1..(Len(a) + Len(b)) /\ ~(i <= Len(a))
    BY <1>3
  <2> QED  BY <2>1
<1> QED  BY <1>1, <1>2, <1>3 DEF Joins

LEMMA ZeroIsByte == 0 \in Byte /\ 0 \in Uint16
BY SMT, Sizes DEF Byte, Uint16

(* The bytes of a uint16_t ...                                              *)
LEMMA ShortIs ==
  ASSUME NEW w \in Uint16
  PROVE  /\ Short(w) \in Seq(Byte) /\ Len(Short(w)) = 2
         /\ Short(w)[1] * B + Short(w)[2] = w
<1> DEFINE x == w \div B
           y == w % B
<1>1. x \in Byte /\ y \in Byte /\ x * B + y = w
  BY PairOf
<1>2. Short(w) = <<x, y>>
  BY DEF Short
<1> HIDE DEF x, y
<1>3. <<x, y>> \in Seq(Byte) /\ Len(<<x, y>>) = 2 /\ <<x, y>>[1] = x /\ <<x, y>>[2] = y
  BY <1>1
<1> QED  BY <1>1, <1>2, <1>3

(* ... and of a uint32_t.                                                   *)
LEMMA FourIs ==
  ASSUME NEW w \in Uint32
  PROVE  /\ Four(w) \in Seq(Byte) /\ Len(Four(w)) = 4
         /\ (Four(w)[1] * B + Four(w)[2]) * Word + (Four(w)[3] * B + Four(w)[4]) = w
<1> DEFINE a == Short(w \div Word)
           b == Short(w % Word)
           f == a \o b
<1>1. w \div Word \in Uint16 /\ w % Word \in Uint16 /\ (w \div Word) * Word + (w % Word) = w
  BY LongPairOf
<1>2. a \in Seq(Byte) /\ Len(a) = 2 /\ a[1] * B + a[2] = w \div Word
  BY <1>1, ShortIs
<1>3. b \in Seq(Byte) /\ Len(b) = 2 /\ b[1] * B + b[2] = w % Word
  BY <1>1, ShortIs
<1> HIDE DEF a, b
<1>4. Joins(f, a, 2, b, 2)
  BY <1>2, <1>3, Cat
<1> HIDE DEF f
<1>5. f \in Seq(Byte) /\ Len(f) = 4
  BY <1>4 DEF Joins
<1>6. f[1] = a[1] /\ f[2] = a[2] /\ f[3] = b[1] /\ f[4] = b[2]
  BY SMT, <1>4 DEF Joins
<1>7. Four(w) = f
  BY DEF Four, f, a, b
<1> QED  BY <1>1, <1>2, <1>3, <1>5, <1>6, <1>7

(* Two bytes of a string are a word that determines them.                   *)
LEMMA ShortAtIs ==
  ASSUME NEW s \in Seq(Byte), NEW i \in 1..(Len(s) - 1)
  PROVE  /\ s[i] \in Byte /\ s[i+1] \in Byte /\ ShortAt(s, i) \in Uint16
         /\ s[i] = ShortAt(s, i) \div B /\ s[i+1] = ShortAt(s, i) % B
<1> DEFINE x == s[i]
           y == s[i+1]
<1>1. x \in Byte /\ y \in Byte
  <2>1. i \in 1..Len(s) /\ i + 1 \in 1..Len(s)
    OBVIOUS
  <2> QED  BY <2>1
<1>2. ShortAt(s, i) = x * B + y
  BY DEF ShortAt
<1> HIDE DEF x, y
<1>3. /\ x * B + y \in Uint16 /\ (x * B + y) \div B = x /\ (x * B + y) % B = y
  BY <1>1, Pair
<1> QED  BY <1>1, <1>2, <1>3 DEF x, y

LEMMA FourAtIs ==
  ASSUME NEW s \in Seq(Byte), NEW i \in 1..(Len(s) - 3)
  PROVE  /\ FourAt(s, i) \in Uint32
         /\ ShortAt(s, i) = FourAt(s, i) \div Word /\ ShortAt(s, i + 2) = FourAt(s, i) % Word
<1> DEFINE x == ShortAt(s, i)
           y == ShortAt(s, i + 2)
<1>1. x \in Uint16 /\ y \in Uint16
  <2>1. i \in 1..(Len(s) - 1) /\ i + 2 \in 1..(Len(s) - 1)
    OBVIOUS
  <2> QED  BY <2>1, ShortAtIs
<1>2. FourAt(s, i) = x * Word + y
  BY DEF FourAt
<1> HIDE DEF x, y
<1>3. /\ x * Word + y \in Uint32 /\ (x * Word + y) \div Word = x
      /\ (x * Word + y) % Word = y
  BY <1>1, LongPair
<1> QED  BY <1>1, <1>2, <1>3 DEF x, y

(* The arguments of MakeSegment() and what it makes of them.                *)
Fields(seqno, ackno, flags, window, sum, data) ==
  /\ seqno \in Uint32 /\ ackno \in Uint32 /\ flags \in Byte /\ window \in Uint16
  /\ sum \in Uint16 /\ data \in Seq(Byte) /\ Len(data) <= MAX_SEG_DATA_SIZE

Layout(s, seqno, ackno, flags, window, sum, data) ==
  /\ s \in Seq(Byte) /\ Len(s) = 20 + Len(data)
  /\ FourAt(s, 1) = seqno /\ FourAt(s, 5) = ackno /\ ShortAt(s, 9) = 20 + Len(data)
  /\ s[11] = 0 /\ s[12] = 0 /\ s[13] = flags /\ s[14] = 0 /\ s[15] = 0 /\ s[16] = 0
  /\ ShortAt(s, 17) = window /\ ShortAt(s, 19) = htons(sum)
  /\ \A i \in 1..Len(data) : s[20 + i] = data[i]

(* A segment has the layout of ctcp_segment_t.                              *)
LEMMA Made ==
  ASSUME NEW seqno, NEW ackno, NEW flags, NEW window, NEW sum, NEW data,
         Fields(seqno, ackno, flags, window, sum, data)
  PROVE  Layout(MakeSegment(seqno, ackno, flags, window, sum, data),
                seqno, ackno, flags, window, sum, data)
<1> DEFINE a1 == Four(seqno)
           a2 == Four(ackno)
           a3 == Short(SEGMENT_HDR_SIZE + Len(data))
           a4 == <<0, 0>>
           a5 == <<flags, 0, 0, 0>>
           a6 == Short(window)
           a7 == Short(htons(sum))
           h2 == a1 \o a2
           h3 == h2 \o a3
           h4 == h3 \o a4
           h5 == h4 \o a5
           h6 == h5 \o a6
           h7 == h6 \o a7
           s == h7 \o data
<1>1. a1 \in Seq(Byte) /\ Len(a1) = 4 /\ (a1[1] * B + a1[2]) * Word + (a1[3] * B + a1[4]) = seqno
  BY FourIs DEF Fields
<1>2. a2 \in Seq(Byte) /\ Len(a2) = 4 /\ (a2[1] * B + a2[2]) * Word + (a2[3] * B + a2[4]) = ackno
  BY FourIs DEF Fields
<1>3. a3 \in Seq(Byte) /\ Len(a3) = 2 /\ a3[1] * B + a3[2] = 20 + Len(data)
  <2>1. Len(data) \in Nat /\ Len(data) <= 1440
    BY DEF Fields, MAX_SEG_DATA_SIZE
  <2>2. 20 + Len(data) \in Nat /\ 20 + Len(data) <= Word - 1
    BY SMT, <2>1, Sizes
  <2>3. 20 + Len(data) \in Uint16
    BY <2>2, Ranges
  <2> QED  BY <2>3, ShortIs DEF SEGMENT_HDR_SIZE
<1>4. a4 \in Seq(Byte) /\ Len(a4) = 2 /\ a4[1] = 0 /\ a4[2] = 0
  BY ZeroIsByte
<1>5. /\ a5 \in Seq(Byte) /\ Len(a5) = 4 /\ a5[1] = flags
      /\ a5[2] = 0 /\ a5[3] = 0 /\ a5[4] = 0
  BY ZeroIsByte DEF Fields
<1>6. a6 \in Seq(Byte) /\ Len(a6) = 2 /\ a6[1] * B + a6[2] = window
  BY ShortIs DEF Fields
<1>7. a7 \in Seq(Byte) /\ Len(a7) = 2 /\ a7[1] * B + a7[2] = htons(sum)
  BY ShortIs, Swap DEF Fields
<1>8. data \in Seq(Byte) /\ Len(data) \in Nat
  BY DEF Fields
<1> HIDE DEF a1, a2, a3, a4, a5, a6, a7
<1>12. Joins(h2, a1, 4, a2, 4) /\ h2 \in Seq(Byte) /\ Len(h2) = 8
  <2>1. Joins(h2, a1, 4, a2, 4)
    BY <1>1, <1>2, Cat
  <2> HIDE DEF h2
  <2> QED  BY <2>1 DEF Joins
<1> HIDE DEF h2
<1>13. Joins(h3, h2, 8, a3, 2) /\ h3 \in Seq(Byte) /\ Len(h3) = 10
  <2>1. Joins(h3, h2, 8, a3, 2)
    BY <1>12, <1>3, Cat
  <2> HIDE DEF h3
  <2> QED  BY <2>1 DEF Joins
<1> HIDE DEF h3
<1>14. Joins(h4, h3, 10, a4, 2) /\ h4 \in Seq(Byte) /\ Len(h4) = 12
  <2>1. Joins(h4, h3, 10, a4, 2)
    BY <1>13, <1>4, Cat
  <2> HIDE DEF h4
  <2> QED  BY <2>1 DEF Joins
<1> HIDE DEF h4
<1>15. Joins(h5, h4, 12, a5, 4) /\ h5 \in Seq(Byte) /\ Len(h5) = 16
  <2>1. Joins(h5, h4, 12, a5, 4)
    BY <1>14, <1>5, Cat
  <2> HIDE DEF h5
  <2> QED  BY <2>1 DEF Joins
<1> HIDE DEF h5
<1>16. Joins(h6, h5, 16, a6, 2) /\ h6 \in Seq(Byte) /\ Len(h6) = 18
  <2>1. Joins(h6, h5, 16, a6, 2)
    BY <1>15, <1>6, Cat
  <2> HIDE DEF h6
  <2> QED  BY <2>1 DEF Joins
<1> HIDE DEF h6
<1>17. Joins(h7, h6, 18, a7, 2) /\ h7 \in Seq(Byte) /\ Len(h7) = 20
  <2>1. Joins(h7, h6, 18, a7, 2)
    BY <1>16, <1>7, Cat
  <2> HIDE DEF h7
  <2> QED  BY <2>1 DEF Joins
<1> HIDE DEF h7
<1>18. Joins(s, h7, 20, data, Len(data)) /\ s \in Seq(Byte) /\ Len(s) = 20 + Len(data)
  <2>1. Joins(s, h7, 20, data, Len(data))
    BY <1>17, <1>8, Cat
  <2> HIDE DEF s
  <2> QED  BY <2>1 DEF Joins
<1> HIDE DEF s
<1>19. /\ s[1] = a1[1] /\ s[2] = a1[2] /\ s[3] = a1[3] /\ s[4] = a1[4]
       /\ s[5] = a2[1] /\ s[6] = a2[2] /\ s[7] = a2[3] /\ s[8] = a2[4]
  BY SMT, <1>12, <1>13, <1>14, <1>15, <1>16, <1>17, <1>18, Len(data) \in Nat DEF Joins
<1>20. /\ s[9] = a3[1] /\ s[10] = a3[2] /\ s[11] = a4[1] /\ s[12] = a4[2]
  BY SMT, <1>13, <1>14, <1>15, <1>16, <1>17, <1>18, Len(data) \in Nat DEF Joins
<1>21. /\ s[13] = a5[1] /\ s[14] = a5[2] /\ s[15] = a5[3] /\ s[16] = a5[4]
  BY SMT, <1>15, <1>16, <1>17, <1>18, Len(data) \in Nat DEF Joins
<1>22. /\ s[17] = a6[1] /\ s[18] = a6[2] /\ s[19] = a7[1] /\ s[20] = a7[2]
  BY SMT, <1>16, <1>17, <1>18, Len(data) \in Nat DEF Joins
<1>23. FourAt(s, 1) = seqno /\ FourAt(s, 5) = ackno
  <2>1. /\ FourAt(s, 1) = (s[1] * B + s[2]) * Word + (s[3] * B + s[4])
        /\ FourAt(s, 5) = (s[5] * B + s[6]) * Word + (s[7] * B + s[8])
    BY DEF FourAt, ShortAt
  <2> QED  BY <1>1, <1>2, <1>19, <2>1
<1>24. ShortAt(s, 9) = 20 + Len(data) /\ ShortAt(s, 17) = window /\ ShortAt(s, 19) = htons(sum)
  <2>1. /\ ShortAt(s, 9) = s[9] * B + s[10] /\ ShortAt(s, 17) = s[17] * B + s[18]
        /\ ShortAt(s, 19) = s[19] * B + s[20]
    BY DEF ShortAt
  <2> QED  BY <1>3, <1>6, <1>7, <1>20, <1>22, <2>1
<1>25. /\ s[11] = 0 /\ s[12] = 0 /\ s[13] = flags /\ s[14] = 0 /\ s[15] = 0 /\ s[16] = 0
  BY <1>4, <1>5, <1>20, <1>21
<1>26. Layout(s, seqno, ackno, flags, window, sum, data)
  <2>1. \A i \in 1..Len(data) : s[20 + i] = data[i]
    <3> SUFFICES ASSUME NEW i \in 1..Len(data) PROVE s[20 + i] = data[i]
      OBVIOUS
    <3>1. 20 + i \in Nat /\ 20 < 20 + i /\ 20 + i <= 20 + Len(data) /\ (20 + i) - 20 = i
      BY <1>8
    <3> QED  BY <1>18, <3>1 DEF Joins
  <2> QED  BY <1>18, <1>23, <1>24, <1>25, <2>1 DEF Layout
<1>27. MakeSegment(seqno, ackno, flags, window, sum, data) = s
  BY DEF MakeSegment, s, h7, h6, h5, h4, h3, h2, a1, a2, a3, a4, a5, a6, a7
<1> QED  BY <1>26, <1>27

LEMMA Suffix ==
  ASSUME NEW a \in Seq(Byte), NEW n \in 1..(Len(a) + 1)
  PROVE  SubSeq(a, n, Len(a)) \in Seq(Byte) /\ Len(SubSeq(a, n, Len(a))) = Len(a) - n + 1
OBVIOUS

(* The bytes of a segment that ctcp_segment_t gives no field, and len.      *)
WellFormed(s) ==
  /\ s \in Seq(Byte) /\ Len(s) >= 20 /\ Len(s) <= 1460 /\ ShortAt(s, 9) = Len(s)
  /\ s[11] = 0 /\ s[12] = 0 /\ s[14] = 0 /\ s[15] = 0 /\ s[16] = 0

(* The fields that ctcp.c reads in a segment are those it was made of.      *)
LEMMA ReadBack ==
  ASSUME NEW seqno, NEW ackno, NEW flags, NEW window, NEW sum, NEW data,
         Fields(seqno, ackno, flags, window, sum, data),
         NEW s, Layout(s, seqno, ackno, flags, window, sum, data)
  PROVE  /\ WellFormed(s) /\ SeqnoOf(s) = seqno /\ AcknoOf(s) = ackno
         /\ FlagsOf(s) = flags /\ WindowOf(s) = window /\ CksumOf(s) = sum
         /\ DataOf(s) = data
<1>1. Len(data) \in Nat /\ Len(data) <= 1440 /\ data \in Seq(Byte) /\ sum \in Uint16
  BY DEF Fields, MAX_SEG_DATA_SIZE
<1>2. s \in Seq(Byte) /\ Len(s) = 20 + Len(data) /\ \A i \in 1..Len(data) : s[20 + i] = data[i]
  BY DEF Layout
<1>3. WellFormed(s)
  BY <1>1, <1>2 DEF Layout, WellFormed
<1>4. /\ SeqnoOf(s) = seqno /\ AcknoOf(s) = ackno
      /\ FlagsOf(s) = flags /\ WindowOf(s) = window
  BY DEF Layout, SeqnoOf, AcknoOf, FlagsOf, WindowOf
<1>5. CksumOf(s) = sum
  BY <1>1, Swap DEF Layout, CksumOf
<1>6. DataOf(s) = data
  <2> DEFINE d == SubSeq(s, 21, Len(s))
  <2>1. d \in Seq(Byte) /\ Len(d) = Len(data)
    BY <1>1, <1>2
  <2>2. ASSUME NEW i \in 1..Len(data) PROVE d[i] = data[i]
    <3>1. d[i] = s[21 + i - 1] /\ 21 + i - 1 = 20 + i
      BY <1>1, <1>2
    <3> HIDE DEF d
    <3> QED  BY <1>2, <3>1
  <2> HIDE DEF d
  <2>3. d = data
    BY <1>1, <2>1, <2>2
  <2> QED  BY <2>3 DEF d, DataOf, SEGMENT_HDR_SIZE
<1> QED  BY <1>3, <1>4, <1>5, <1>6

(* Equal words are equal bytes ...                                          *)
LEMMA SameBytes ==
  ASSUME NEW s \in Seq(Byte), NEW r \in Seq(Byte), Len(r) = Len(s),
         NEW i \in 1..(Len(s) - 1), ShortAt(s, i) = ShortAt(r, i)
  PROVE  s[i] = r[i] /\ s[i+1] = r[i+1]
<1>1. s[i] = ShortAt(s, i) \div B /\ s[i+1] = ShortAt(s, i) % B
  BY ShortAtIs
<1>2. r[i] = ShortAt(r, i) \div B /\ r[i+1] = ShortAt(r, i) % B
  BY ShortAtIs
<1> QED  BY <1>1, <1>2

(* ... and equal numbers and lengths an equal start of a segment.           *)
LEMMA SameHead ==
  ASSUME NEW s \in Seq(Byte), NEW r \in Seq(Byte), Len(r) = Len(s), Len(s) >= 20,
         FourAt(s, 1) = FourAt(r, 1), FourAt(s, 5) = FourAt(r, 5),
         ShortAt(s, 9) = ShortAt(r, 9)
  PROVE  /\ s[1] = r[1] /\ s[2] = r[2] /\ s[3] = r[3] /\ s[4] = r[4] /\ s[5] = r[5]
         /\ s[6] = r[6] /\ s[7] = r[7] /\ s[8] = r[8] /\ s[9] = r[9] /\ s[10] = r[10]
<1>1. Len(s) \in Nat
  OBVIOUS
<1>2. 1 \in 1..(Len(s) - 3) /\ 5 \in 1..(Len(s) - 3)
  BY <1>1
<1>3. ShortAt(s, 1) = ShortAt(r, 1) /\ ShortAt(s, 3) = ShortAt(r, 3)
  <2>2. ShortAt(s, 1) = FourAt(s, 1) \div Word /\ ShortAt(s, 1 + 2) = FourAt(s, 1) % Word
    BY <1>2, FourAtIs
  <2>3. ShortAt(r, 1) = FourAt(r, 1) \div Word /\ ShortAt(r, 1 + 2) = FourAt(r, 1) % Word
    BY <1>2, FourAtIs
  <2>4. 1 + 2 = 3
    OBVIOUS
  <2> QED  BY <2>2, <2>3, <2>4
<1>4. ShortAt(s, 5) = ShortAt(r, 5) /\ ShortAt(s, 7) = ShortAt(r, 7)
  <2>2. ShortAt(s, 5) = FourAt(s, 5) \div Word /\ ShortAt(s, 5 + 2) = FourAt(s, 5) % Word
    BY <1>2, FourAtIs
  <2>3. ShortAt(r, 5) = FourAt(r, 5) \div Word /\ ShortAt(r, 5 + 2) = FourAt(r, 5) % Word
    BY <1>2, FourAtIs
  <2>4. 5 + 2 = 7
    OBVIOUS
  <2> QED  BY <2>2, <2>3, <2>4
<1>5. ASSUME NEW i \in 1..(Len(s) - 1), ShortAt(s, i) = ShortAt(r, i)
      PROVE  s[i] = r[i] /\ s[i+1] = r[i+1]
  BY <1>5, SameBytes
<1>6. /\ 1 \in 1..(Len(s) - 1) /\ 3 \in 1..(Len(s) - 1) /\ 5 \in 1..(Len(s) - 1)
      /\ 7 \in 1..(Len(s) - 1) /\ 9 \in 1..(Len(s) - 1)
  BY <1>1
<1>7. s[1] = r[1] /\ s[2] = r[2] /\ s[3] = r[3] /\ s[4] = r[4]
  BY SMT, <1>3, <1>5, <1>6
<1>8. s[5] = r[5] /\ s[6] = r[6] /\ s[7] = r[7] /\ s[8] = r[8]
  BY SMT, <1>4, <1>5, <1>6
<1>9. s[9] = r[9] /\ s[10] = r[10]
  BY SMT, <1>5, <1>6
<1> QED  BY <1>7, <1>8, <1>9

LEMMA SameStart ==
  ASSUME NEW s, WellFormed(s), NEW r, WellFormed(r),
         SeqnoOf(s) = SeqnoOf(r), AcknoOf(s) = AcknoOf(r), Len(s) = Len(r)
  PROVE  SubSeq(s, 1, 12) = SubSeq(r, 1, 12)
<1>1. s \in Seq(Byte) /\ r \in Seq(Byte) /\ Len(s) \in Nat /\ Len(s) >= 20
  BY DEF WellFormed
<1>2. /\ FourAt(s, 1) = FourAt(r, 1) /\ FourAt(s, 5) = FourAt(r, 5)
      /\ ShortAt(s, 9) = ShortAt(r, 9)
  BY DEF SeqnoOf, AcknoOf, WellFormed
<1>3. /\ s[1] = r[1] /\ s[2] = r[2] /\ s[3] = r[3] /\ s[4] = r[4] /\ s[5] = r[5]
      /\ s[6] = r[6] /\ s[7] = r[7] /\ s[8] = r[8] /\ s[9] = r[9] /\ s[10] = r[10]
  BY <1>1, <1>2, SameHead
<1>4. s[11] = r[11] /\ s[12] = r[12]
  BY DEF WellFormed
<1>5. ASSUME NEW i \in Nat, 1 <= i, i <= 12 PROVE s[i] = r[i]
  <2>1. \/ i = 1 \/ i = 2 \/ i = 3 \/ i = 4 \/ i = 5 \/ i = 6 \/ i = 7 \/ i = 8
        \/ i = 9 \/ i = 10 \/ i = 11 \/ i = 12
    BY SMT, <1>5
  <2> QED  BY <1>3, <1>4, <2>1
<1> DEFINE n == 12
<1>6. n \in Nat /\ 1 <= n /\ n <= Len(s) /\ \A i \in 1..n : s[i] = r[i]
  BY <1>1, <1>5
<1> HIDE DEF n
<1> DEFINE a == SubSeq(s, 1, n)
           b == SubSeq(r, 1, n)
<1>7. a \in Seq(Byte) /\ Len(a) = n /\ \A i \in 1..n : a[i] = s[i]
  BY <1>1, <1>6
<1>8. b \in Seq(Byte) /\ Len(b) = n /\ \A i \in 1..n : b[i] = r[i]
  BY <1>1, <1>6
<1> HIDE DEF a, b
<1>9. a = b
  BY <1>6, <1>7, <1>8
<1> QED  BY <1>9 DEF a, b, n

(* The bytes of a segment are determined by its fields.                     *)
LEMMA LayoutUnique ==
  ASSUME NEW seqno, NEW ackno, NEW flags, NEW window, NEW sum, NEW data,
         Fields(seqno, ackno, flags, window, sum, data),
         NEW s, Layout(s, seqno, ackno, flags, window, sum, data),
         NEW r, Layout(r, seqno, ackno, flags, window, sum, data)
  PROVE  s = r
<1>1. /\ s \in Seq(Byte) /\ r \in Seq(Byte) /\ Len(r) = Len(s) /\ Len(data) \in Nat
      /\ Len(s) = 20 + Len(data) /\ Len(s) >= 20
  BY DEF Layout, Fields
<1>2. /\ FourAt(s, 1) = FourAt(r, 1) /\ FourAt(s, 5) = FourAt(r, 5)
      /\ ShortAt(s, 9) = ShortAt(r, 9) /\ ShortAt(s, 17) = ShortAt(r, 17)
      /\ ShortAt(s, 19) = ShortAt(r, 19)
  BY DEF Layout
<1>8. /\ s[1] = r[1] /\ s[2] = r[2] /\ s[3] = r[3] /\ s[4] = r[4] /\ s[5] = r[5]
      /\ s[6] = r[6] /\ s[7] = r[7] /\ s[8] = r[8] /\ s[9] = r[9] /\ s[10] = r[10]
  BY <1>1, <1>2, SameHead
<1>9. s[17] = r[17] /\ s[17+1] = r[17+1]
  <2>1. 17 \in 1..(Len(s) - 1)
    BY <1>1
  <2> QED  BY <1>1, <1>2, <2>1, SameBytes
<1>10. s[19] = r[19] /\ s[19+1] = r[19+1]
  <2>1. 19 \in 1..(Len(s) - 1)
    BY <1>1
  <2> QED  BY <1>1, <1>2, <2>1, SameBytes
<1>11. s[11] = r[11] /\ s[12] = r[12] /\ s[13] = r[13] /\ s[14] = r[14]
       /\ s[15] = r[15] /\ s[16] = r[16] /\ 17 + 1 = 18 /\ 19 + 1 = 20
  BY DEF Layout
<1>12. ASSUME NEW i \in 1..Len(s) PROVE s[i] = r[i]
  <2>1. i \in Nat /\ i >= 1 /\ i <= 20 + Len(data)
    BY <1>1
  <2>2. CASE i <= 20
    <3>1. \/ i = 1 \/ i = 2 \/ i = 3 \/ i = 4 \/ i = 5 \/ i = 6 \/ i = 7 \/ i = 8
          \/ i = 9 \/ i = 10 \/ i = 11 \/ i = 12 \/ i = 13 \/ i = 14 \/ i = 15
          \/ i = 16 \/ i = 17 \/ i = 18 \/ i = 19 \/ i = 20
      BY SMT, <2>1, <2>2
    <3> QED  BY <1>8, <1>9, <1>10, <1>11, <3>1
  <2>3. CASE i > 20
    <3> DEFINE k == i - 20
    <3>1. k \in 1..Len(data) /\ 20 + k = i
      BY <1>1, <2>1, <2>3
    <3> HIDE DEF k
    <3>2. s[20 + k] = data[k] /\ r[20 + k] = data[k]
      BY <3>1 DEF Layout
    <3> QED  BY <3>1, <3>2
  <2> QED  BY <2>1, <2>2, <2>3
<1> QED  BY <1>1, <1>12

(* Every well-formed segment is made of its fields.                         *)
LEMMA FieldsOf ==
  ASSUME NEW s, WellFormed(s)
  PROVE  /\ Fields(SeqnoOf(s), AcknoOf(s), FlagsOf(s), WindowOf(s), CksumOf(s), DataOf(s))
         /\ Layout(s, SeqnoOf(s), AcknoOf(s), FlagsOf(s), WindowOf(s), CksumOf(s), DataOf(s))
<1> DEFINE d == SubSeq(s, 21, Len(s))
<1>1. s \in Seq(Byte) /\ Len(s) \in Nat /\ Len(s) >= 20 /\ Len(s) <= 1460
  BY DEF WellFormed
<1>2. /\ 1 \in 1..(Len(s) - 3) /\ 5 \in 1..(Len(s) - 3) /\ 17 \in 1..(Len(s) - 1)
      /\ 19 \in 1..(Len(s) - 1) /\ 13 \in 1..Len(s)
  BY <1>1
<1>3. SeqnoOf(s) \in Uint32 /\ AcknoOf(s) \in Uint32
  BY <1>1, <1>2, FourAtIs DEF SeqnoOf, AcknoOf
<1>4. WindowOf(s) \in Uint16 /\ ShortAt(s, 19) \in Uint16
  BY <1>1, <1>2, ShortAtIs DEF WindowOf
<1>5. CksumOf(s) \in Uint16 /\ htons(CksumOf(s)) = ShortAt(s, 19)
  BY <1>4, Swap DEF CksumOf
<1>6. FlagsOf(s) \in Byte
  BY <1>1, <1>2 DEF FlagsOf
<1>7. d \in Seq(Byte) /\ Len(d) = Len(s) - 20
  <2> DEFINE n == 21
  <2>1. n \in 1..(Len(s) + 1) /\ Len(s) - n + 1 = Len(s) - 20 /\ d = SubSeq(s, n, Len(s))
    BY <1>1
  <2> HIDE DEF n, d
  <2>2. SubSeq(s, n, Len(s)) \in Seq(Byte) /\ Len(SubSeq(s, n, Len(s))) = Len(s) - n + 1
    BY <1>1, <2>1, Suffix
  <2> QED  BY <2>1, <2>2
<1>8. ASSUME NEW i \in 1..Len(d) PROVE s[20 + i] = d[i]
  <2>1. i \in 1..(Len(s) - 20)
    BY <1>7
  <2>2. d[i] = s[21 + i - 1] /\ 21 + i - 1 = 20 + i
    BY <1>1, <2>1
  <2> QED  BY <2>2
<1>9. DataOf(s) = d
  BY DEF DataOf, SEGMENT_HDR_SIZE
<1> HIDE DEF d
<1>10. Len(d) \in Nat /\ Len(d) <= 1440 /\ Len(s) = 20 + Len(d)
  BY <1>1, <1>7
<1>11. Fields(SeqnoOf(s), AcknoOf(s), FlagsOf(s), WindowOf(s), CksumOf(s), d)
  BY <1>3, <1>4, <1>5, <1>6, <1>7, <1>10 DEF Fields, MAX_SEG_DATA_SIZE
<1>12. Layout(s, SeqnoOf(s), AcknoOf(s), FlagsOf(s), WindowOf(s), CksumOf(s), d)
  BY <1>5, <1>8, <1>10 DEF Layout, WellFormed, SeqnoOf, AcknoOf, FlagsOf, WindowOf
<1> QED  BY <1>9, <1>11, <1>12

LEMMA DataLength ==
  ASSUME NEW s, WellFormed(s)
  PROVE  Len(DataOf(s)) = Len(s) - 20 /\ Len(s) \in Nat
<1>1. /\ Fields(SeqnoOf(s), AcknoOf(s), FlagsOf(s), WindowOf(s), CksumOf(s), DataOf(s))
      /\ Layout(s, SeqnoOf(s), AcknoOf(s), FlagsOf(s), WindowOf(s), CksumOf(s), DataOf(s))
  BY FieldsOf
<1>2. Len(s) = 20 + Len(DataOf(s)) /\ Len(DataOf(s)) \in Nat
  BY <1>1 DEF Layout, Fields
<1> QED  BY <1>2

LEMMA Rebuilds ==
  ASSUME NEW s, WellFormed(s)
  PROVE  MakeSegment(SeqnoOf(s), AcknoOf(s), FlagsOf(s), WindowOf(s), CksumOf(s), DataOf(s)) = s
<1>1. /\ Fields(SeqnoOf(s), AcknoOf(s), FlagsOf(s), WindowOf(s), CksumOf(s), DataOf(s))
      /\ Layout(s, SeqnoOf(s), AcknoOf(s), FlagsOf(s), WindowOf(s), CksumOf(s), DataOf(s))
  BY FieldsOf
<1> QED  BY <1>1, Made, LayoutUnique

(* A segment with its checksum cleared.                                     *)
LEMMA UnsummedIs ==
  ASSUME NEW s, WellFormed(s)
  PROVE  /\ Unsummed(s) \in Seq(Byte) /\ Len(Unsummed(s)) = Len(s)
         /\ Unsummed(s)[19] = 0 /\ Unsummed(s)[20] = 0
         /\ \A i \in 1..Len(s) : i # 19 /\ i # 20 => Unsummed(s)[i] = s[i]
<1>1. s \in Seq(Byte) /\ Len(s) \in Nat /\ Len(s) >= 20
  BY DEF WellFormed
<1>2. 19 \in 1..Len(s) /\ 20 \in 1..Len(s) /\ 0 \in Byte
  BY <1>1, ZeroIsByte
<1> DEFINE u == [s EXCEPT ![19] = 0]
<1>3. /\ u \in Seq(Byte) /\ Len(u) = Len(s) /\ u[19] = 0
      /\ \A i \in 1..Len(s) : i # 19 => u[i] = s[i]
  BY <1>1, <1>2
<1>4. Unsummed(s) = [u EXCEPT ![20] = 0]
  BY DEF Unsummed
<1> HIDE DEF u
<1> DEFINE v == [u EXCEPT ![20] = 0]
<1>5. /\ v \in Seq(Byte) /\ Len(v) = Len(s) /\ v[20] = 0 /\ v[19] = u[19]
      /\ \A i \in 1..Len(s) : i # 20 => v[i] = u[i]
  BY <1>1, <1>2, <1>3
<1> HIDE DEF v
<1> QED  BY <1>3, <1>4, <1>5 DEF v

LEMMA UnsummedMade ==
  ASSUME NEW s, WellFormed(s)
  PROVE  Unsummed(s) = MakeSegment(SeqnoOf(s), AcknoOf(s), FlagsOf(s), WindowOf(s), 0, DataOf(s))
<1> DEFINE u == Unsummed(s)
           d == DataOf(s)
<1>1. /\ u \in Seq(Byte) /\ Len(u) = Len(s) /\ u[19] = 0 /\ u[20] = 0
      /\ \A i \in 1..Len(s) : i # 19 /\ i # 20 => u[i] = s[i]
  BY UnsummedIs
<1>2. /\ Fields(SeqnoOf(s), AcknoOf(s), FlagsOf(s), WindowOf(s), CksumOf(s), d)
      /\ Layout(s, SeqnoOf(s), AcknoOf(s), FlagsOf(s), WindowOf(s), CksumOf(s), d)
  BY FieldsOf
<1>3. Fields(SeqnoOf(s), AcknoOf(s), FlagsOf(s), WindowOf(s), 0, d)
  BY <1>2, ZeroIsByte DEF Fields
<1> HIDE DEF u, d
<1>4. Len(s) \in Nat /\ Len(d) \in Nat /\ Len(s) = 20 + Len(d)
  BY <1>2 DEF Layout, Fields
<1>5. /\ u[1] = s[1] /\ u[2] = s[2] /\ u[3] = s[3] /\ u[4] = s[4] /\ u[5] = s[5]
      /\ u[6] = s[6] /\ u[7] = s[7] /\ u[8] = s[8] /\ u[9] = s[9] /\ u[10] = s[10]
  BY SMT, <1>1, <1>4
<1>6. /\ u[11] = s[11] /\ u[12] = s[12] /\ u[13] = s[13] /\ u[14] = s[14]
      /\ u[15] = s[15] /\ u[16] = s[16] /\ u[17] = s[17] /\ u[18] = s[18]
  BY SMT, <1>1, <1>4
<1>7. FourAt(u, 1) = FourAt(s, 1) /\ FourAt(u, 5) = FourAt(s, 5)
  BY SMT, <1>5 DEF FourAt, ShortAt
<1>8. ShortAt(u, 9) = ShortAt(s, 9) /\ ShortAt(u, 17) = ShortAt(s, 17)
  BY SMT, <1>5, <1>6 DEF ShortAt
<1>9. ShortAt(u, 19) = htons(0)
  <2>1. htons(0) = 0
    BY ZeroIsByte, Swap
  <2>2. 0 * B + 0 = 0
    BY Ranges
  <2> QED  BY <1>1, <2>1, <2>2 DEF ShortAt
<1>10. ASSUME NEW i \in 1..Len(d) PROVE u[20 + i] = d[i]
  <2>1. 20 + i \in 1..Len(s) /\ 20 + i # 19 /\ 20 + i # 20
    BY <1>4
  <2>2. s[20 + i] = d[i]
    BY <1>2 DEF Layout
  <2> QED  BY <1>1, <2>1, <2>2
<1>11. Layout(u, SeqnoOf(s), AcknoOf(s), FlagsOf(s), WindowOf(s), 0, d)
  BY <1>1, <1>2, <1>4, <1>6, <1>7, <1>8, <1>9, <1>10 DEF Layout
<1>12. u = MakeSegment(SeqnoOf(s), AcknoOf(s), FlagsOf(s), WindowOf(s), 0, d)
  BY <1>3, <1>11, Made, LayoutUnique
<1> QED  BY <1>12 DEF u, d

-----------------------------------------------------------------------------
(* Conversion *)

(* Adding an initial number and taking it off again, modulo 2^32.           *)
LEMMA Wraps ==
  ASSUME NEW a \in Uint32, NEW b \in Uint32
  PROVE  (a + b) % Long \in Uint32 /\ (((a + b) % Long) - b) % Long = a
<1>1. CASE B = 128
  <2>1. Long = 268435456
    BY SMT, <1>1, Sizes
  <2>2. a \in Nat /\ a <= 268435455 /\ b \in Nat /\ b <= 268435455
    BY SMT, <2>1, Ranges
  <2>3. /\ (a + b) % 268435456 \in Nat /\ (a + b) % 268435456 <= 268435455
        /\ (((a + b) % 268435456) - b) % 268435456 = a
    <3>1. CASE a + b < 268435456
      <4>1. (a + b) % 268435456 = a + b
        BY SMT, <2>2, <3>1
      <4>2. (a + b) - b = a /\ a % 268435456 = a
        BY SMT, <2>2
      <4> QED  BY SMT, <2>2, <3>1, <4>1, <4>2
    <3>2. CASE a + b >= 268435456
      <4>1. (a + b) % 268435456 = a + b - 268435456
        BY SMT, <2>2, <3>2
      <4>2. (a + b - 268435456) - b = a - 268435456 /\ (a - 268435456) % 268435456 = a
        BY SMT, <2>2
      <4> QED  BY SMT, <2>2, <3>2, <4>1, <4>2
    <3> QED  BY SMT, <2>2, <3>1, <3>2
  <2>4. (a + b) % Long \in Uint32
    BY SMT, <2>1, <2>3, Ranges
  <2> QED  BY SMT, <2>1, <2>3, <2>4
<1>2. CASE B = 256
  <2>1. Long = 4294967296
    BY SMT, <1>2, Sizes
  <2>2. a \in Nat /\ a <= 4294967295 /\ b \in Nat /\ b <= 4294967295
    BY SMT, <2>1, Ranges
  <2>3. /\ (a + b) % 4294967296 \in Nat /\ (a + b) % 4294967296 <= 4294967295
        /\ (((a + b) % 4294967296) - b) % 4294967296 = a
    <3>1. CASE a + b < 4294967296
      <4>1. (a + b) % 4294967296 = a + b
        BY SMT, <2>2, <3>1
      <4>2. (a + b) - b = a /\ a % 4294967296 = a
        BY SMT, <2>2
      <4> QED  BY SMT, <2>2, <3>1, <4>1, <4>2
    <3>2. CASE a + b >= 4294967296
      <4>1. (a + b) % 4294967296 = a + b - 4294967296
        BY SMT, <2>2, <3>2
      <4>2. (a + b - 4294967296) - b = a - 4294967296 /\ (a - 4294967296) % 4294967296 = a
        BY SMT, <2>2
      <4> QED  BY SMT, <2>2, <3>2, <4>1, <4>2
    <3> QED  BY SMT, <2>2, <3>1, <3>2
  <2>4. (a + b) % Long \in Uint32
    BY SMT, <2>1, <2>3, Ranges
  <2> QED  BY SMT, <2>1, <2>3, <2>4
<1> QED  BY <1>1, <1>2, ByteAssumption

(* A checksum to which the error a - b of another is added.                 *)
LEMMA Errs ==
  ASSUME NEW c \in Uint16, NEW a \in Uint16, NEW b \in Uint16
  PROVE  (c + (a - b)) % Word \in Uint16 /\ ((c + (a - b)) % Word = c <=> a = b)
<1>1. CASE B = 128
  <2>1. Word = 16384
    BY SMT, <1>1, Sizes
  <2>2. /\ c \in Nat /\ c <= 16383 /\ a \in Nat /\ a <= 16383 /\ b \in Nat /\ b <= 16383
    BY SMT, <2>1, Ranges
  <2>3. /\ (c + (a - b)) % 16384 \in Nat /\ (c + (a - b)) % 16384 <= 16383
        /\ (c + (a - b)) % 16384 = c <=> a = b
    BY SMT, <2>2
  <2>4. (c + (a - b)) % Word \in Uint16
    BY SMT, <2>1, <2>3, Ranges
  <2> QED  BY SMT, <2>1, <2>3, <2>4
<1>2. CASE B = 256
  <2>1. Word = 65536
    BY SMT, <1>2, Sizes
  <2>2. /\ c \in Nat /\ c <= 65535 /\ a \in Nat /\ a <= 65535 /\ b \in Nat /\ b <= 65535
    BY SMT, <2>1, Ranges
  <2>3. /\ (c + (a - b)) % 65536 \in Nat /\ (c + (a - b)) % 65536 <= 65535
        /\ (c + (a - b)) % 65536 = c <=> a = b
    BY SMT, <2>2
  <2>4. (c + (a - b)) % Word \in Uint16
    BY SMT, <2>1, <2>3, Ranges
  <2> QED  BY SMT, <2>1, <2>3, <2>4
<1> QED  BY <1>1, <1>2, ByteAssumption

LEMMA WithAckIsByte ==
  ASSUME NEW flags \in Byte
  PROVE  WithAck(flags) \in Byte
<1>1. CASE B = 128
  <2>1. flags \in Nat /\ flags <= 127
    BY SMT, <1>1, Ranges
  <2>2. (flags \div 16) % 2 = 0 => flags + 16 <= 127
    BY SMT, <2>1
  <2>3. (flags \div 16) % 2 = 0 => flags + 16 \in Byte
    BY SMT, <1>1, <2>1, <2>2, Ranges
  <2> QED  BY <2>3 DEF WithAck, TH_ACK
<1>2. CASE B = 256
  <2>1. flags \in Nat /\ flags <= 255
    BY SMT, <1>2, Ranges
  <2>2. (flags \div 16) % 2 = 0 => flags + 16 <= 255
    BY SMT, <2>1
  <2>3. (flags \div 16) % 2 = 0 => flags + 16 \in Byte
    BY SMT, <1>2, <2>1, <2>2, Ranges
  <2> QED  BY <2>3 DEF WithAck, TH_ACK
<1> QED  BY <1>1, <1>2, ByteAssumption

(* What cksum_tcp() reads of a packet.                                      *)
PacketOK(d) ==
  /\ d.saddr \in Uint32 /\ d.daddr \in Uint32 /\ d.th_sport \in Uint16 /\ d.th_dport \in Uint16
  /\ d.th_seq \in Uint32 /\ d.th_ack \in Uint32 /\ d.th_flags \in Byte /\ d.th_win \in Uint16
  /\ d.data \in Seq(Byte) /\ Len(d.data) <= MAX_SEG_DATA_SIZE

LEMMA TcpSumIsWord ==
  ASSUME NEW d, PacketOK(d)
  PROVE  cksum_tcp(d) \in Uint16
<1> DEFINE a1 == Four(d.saddr)
           a2 == Four(d.daddr)
           a3 == <<0, IPPROTO_TCP>>
           a4 == Short(TCP_HDR_SIZE + Len(d.data))
           a5 == Short(d.th_sport)
           a6 == Short(d.th_dport)
           a7 == Four(d.th_seq)
           a8 == Four(d.th_ack)
           a9 == <<(TCP_HDR_SIZE \div 4) * (B \div 16), d.th_flags>>
           a10 == Short(d.th_win)
           a11 == <<0, 0>>
           a12 == d.data
           h2 == a1 \o a2
           h3 == h2 \o a3
           h4 == h3 \o a4
           h5 == h4 \o a5
           h6 == h5 \o a6
           h7 == h6 \o a7
           h8 == h7 \o a8
           h9 == h8 \o a9
           h10 == h9 \o a10
           h11 == h10 \o a11
           h12 == h11 \o a11
           s == h12 \o a12
<1>1. a1 \in Seq(Byte) /\ Len(a1) = 4
  BY FourIs DEF PacketOK
<1>2. a2 \in Seq(Byte) /\ Len(a2) = 4
  BY FourIs DEF PacketOK
<1>3. a3 \in Seq(Byte) /\ Len(a3) = 2
  <2>1. 6 \in Byte
    BY SMT, Sizes, Ranges
  <2> QED  BY <2>1, ZeroIsByte DEF IPPROTO_TCP
<1>4. a4 \in Seq(Byte) /\ Len(a4) = 2
  <2>1. Len(d.data) \in Nat /\ Len(d.data) <= 1440
    BY DEF PacketOK, MAX_SEG_DATA_SIZE
  <2>2. 20 + Len(d.data) \in Nat /\ 20 + Len(d.data) <= Word - 1
    BY SMT, <2>1, Sizes
  <2>3. 20 + Len(d.data) \in Uint16
    BY <2>2, Ranges
  <2> QED  BY <2>3, ShortIs DEF TCP_HDR_SIZE
<1>5. a5 \in Seq(Byte) /\ Len(a5) = 2
  BY ShortIs DEF PacketOK
<1>6. a6 \in Seq(Byte) /\ Len(a6) = 2
  BY ShortIs DEF PacketOK
<1>7. a7 \in Seq(Byte) /\ Len(a7) = 4
  BY FourIs DEF PacketOK
<1>8. a8 \in Seq(Byte) /\ Len(a8) = 4
  BY FourIs DEF PacketOK
<1>9. a9 \in Seq(Byte) /\ Len(a9) = 2
  <2> DEFINE x == (TCP_HDR_SIZE \div 4) * (B \div 16)
  <2>1. TCP_HDR_SIZE \div 4 = 5
    BY SMT DEF TCP_HDR_SIZE
  <2>2. B \div 16 \in Nat /\ 5 * (B \div 16) <= B - 1
    BY SMT, Sizes
  <2>3. x \in Byte
    BY <2>1, <2>2, Ranges
  <2> HIDE DEF x
  <2>4. <<x, d.th_flags>> \in Seq(Byte) /\ Len(<<x, d.th_flags>>) = 2
    BY <2>3 DEF PacketOK
  <2> QED  BY <2>4 DEF x
<1>10. a10 \in Seq(Byte) /\ Len(a10) = 2
  BY ShortIs DEF PacketOK
<1>11. a11 \in Seq(Byte) /\ Len(a11) = 2
  BY ZeroIsByte
<1>12. a12 \in Seq(Byte) /\ Len(a12) \in Nat /\ Len(a12) <= 1440
  BY DEF PacketOK, MAX_SEG_DATA_SIZE
<1> HIDE DEF a1, a2, a3, a4, a5, a6, a7, a8, a9, a10, a11, a12
<1>13. h2 \in Seq(Byte) /\ Len(h2) = 8
  <2>1. Joins(h2, a1, 4, a2, 4)
    BY <1>1, <1>2, Cat
  <2> HIDE DEF h2
  <2> QED  BY <2>1 DEF Joins
<1> HIDE DEF h2
<1>14. h3 \in Seq(Byte) /\ Len(h3) = 10
  <2>1. Joins(h3, h2, 8, a3, 2)
    BY <1>13, <1>3, Cat
  <2> HIDE DEF h3
  <2> QED  BY <2>1 DEF Joins
<1> HIDE DEF h3
<1>15. h4 \in Seq(Byte) /\ Len(h4) = 12
  <2>1. Joins(h4, h3, 10, a4, 2)
    BY <1>14, <1>4, Cat
  <2> HIDE DEF h4
  <2> QED  BY <2>1 DEF Joins
<1> HIDE DEF h4
<1>16. h5 \in Seq(Byte) /\ Len(h5) = 14
  <2>1. Joins(h5, h4, 12, a5, 2)
    BY <1>15, <1>5, Cat
  <2> HIDE DEF h5
  <2> QED  BY <2>1 DEF Joins
<1> HIDE DEF h5
<1>17. h6 \in Seq(Byte) /\ Len(h6) = 16
  <2>1. Joins(h6, h5, 14, a6, 2)
    BY <1>16, <1>6, Cat
  <2> HIDE DEF h6
  <2> QED  BY <2>1 DEF Joins
<1> HIDE DEF h6
<1>18. h7 \in Seq(Byte) /\ Len(h7) = 20
  <2>1. Joins(h7, h6, 16, a7, 4)
    BY <1>17, <1>7, Cat
  <2> HIDE DEF h7
  <2> QED  BY <2>1 DEF Joins
<1> HIDE DEF h7
<1>19. h8 \in Seq(Byte) /\ Len(h8) = 24
  <2>1. Joins(h8, h7, 20, a8, 4)
    BY <1>18, <1>8, Cat
  <2> HIDE DEF h8
  <2> QED  BY <2>1 DEF Joins
<1> HIDE DEF h8
<1>20. h9 \in Seq(Byte) /\ Len(h9) = 26
  <2>1. Joins(h9, h8, 24, a9, 2)
    BY <1>19, <1>9, Cat
  <2> HIDE DEF h9
  <2> QED  BY <2>1 DEF Joins
<1> HIDE DEF h9
<1>21. h10 \in Seq(Byte) /\ Len(h10) = 28
  <2>1. Joins(h10, h9, 26, a10, 2)
    BY <1>20, <1>10, Cat
  <2> HIDE DEF h10
  <2> QED  BY <2>1 DEF Joins
<1> HIDE DEF h10
<1>22. h11 \in Seq(Byte) /\ Len(h11) = 30
  <2>1. Joins(h11, h10, 28, a11, 2)
    BY <1>21, <1>11, Cat
  <2> HIDE DEF h11
  <2> QED  BY <2>1 DEF Joins
<1> HIDE DEF h11
<1>23. h12 \in Seq(Byte) /\ Len(h12) = 32
  <2>1. Joins(h12, h11, 30, a11, 2)
    BY <1>22, <1>11, Cat
  <2> HIDE DEF h12
  <2> QED  BY <2>1 DEF Joins
<1> HIDE DEF h12
<1>24. s \in Seq(Byte) /\ Len(s) = 32 + Len(a12)
  <2>0. a12 \in Seq(Byte) /\ Len(a12) \in Nat
    BY <1>12
  <2>1. Joins(s, h12, 32, a12, Len(a12))
    BY <1>23, <2>0, Cat
  <2> HIDE DEF s
  <2> QED  BY <2>1 DEF Joins
<1> HIDE DEF s
<1>25. s \in Str
  BY <1>12, <1>24 DEF Str
<1>26. cksum_tcp(d) = cksum(s)
  BY DEF cksum_tcp, s, h2, h3, h4, h5, h6, h7, h8, h9, h10, h11, h12, a1, a2, a3, a4, a5, a6, a7, a8, a9, a10, a11, a12
<1> QED  BY <1>25, <1>26, CksumIsWord

(* conn_t holds numbers of their width.                                     *)
ConnOK ==
  /\ conn.init_seqno \in Uint32 /\ conn.their_init_seqno \in Uint32
  /\ conn.saddr \in Uint32 /\ conn.daddr \in Uint32
  /\ conn.sport \in Uint16 /\ conn.dport \in Uint16

(* A segment whose checksum is right.                                       *)
Good(s) == cksum(Unsummed(s)) = CksumOf(s)

LEMMA UnsummedSum ==
  ASSUME NEW s, WellFormed(s)
  PROVE  cksum(Unsummed(s)) \in Uint16
<1>1. Unsummed(s) \in Seq(Byte) /\ Len(Unsummed(s)) = Len(s) /\ Len(s) \in Nat /\ Len(s) <= 1460
  BY UnsummedIs DEF WellFormed
<1>2. Unsummed(s) \in Str
  BY <1>1 DEF Str
<1> QED  BY <1>2, CksumIsWord

(* What a packet is made of.                                                *)
Carries(d, s) ==
  /\ d.tot_len = 40 + Len(DataOf(s)) /\ d.data = DataOf(s)
  /\ d.th_seq = (SeqnoOf(s) + conn.init_seqno) % Long
  /\ d.th_ack = (AcknoOf(s) + conn.their_init_seqno) % Long
  /\ d.th_flags = WithAck(FlagsOf(s)) /\ d.th_win = WindowOf(s)

(* convert_to_datagram(): the packet's checksum is right if and only if the *)
(* segment's is.                                                            *)
LEMMA ToDatagram ==
  ASSUME NEW s, WellFormed(s), ConnOK
  PROVE  /\ Carries(convert_to_datagram(s), s)
         /\ convert_to_datagram(s).th_seq \in Uint32 /\ convert_to_datagram(s).th_ack \in Uint32
         /\ convert_to_datagram(s).th_sum \in Uint16 /\ cksum_tcp(convert_to_datagram(s)) \in Uint16
         /\ convert_to_datagram(s).th_sum = cksum_tcp(convert_to_datagram(s)) <=> Good(s)
<1> DEFINE e == Packet(s)
           c == cksum_tcp(e)
           x == (c + cksum(Unsummed(s)) - CksumOf(s)) % Word
           d == [e EXCEPT !.th_sum = x]
<1>1. Fields(SeqnoOf(s), AcknoOf(s), FlagsOf(s), WindowOf(s), CksumOf(s), DataOf(s))
  BY FieldsOf
<1>2. /\ e.saddr = conn.saddr /\ e.daddr = conn.daddr
      /\ e.th_sport = conn.sport /\ e.th_dport = conn.dport
  BY DEF Packet
<1>3. Carries(e, s)
  <2>1. e.tot_len = 40 + Len(DataOf(s))
    <3>1. FULL_HDR_SIZE = 40
      BY DEF FULL_HDR_SIZE, IP_HDR_SIZE, TCP_HDR_SIZE
    <3> QED  BY <3>1 DEF Packet
  <2>2. e.data = DataOf(s) /\ e.th_flags = WithAck(FlagsOf(s)) /\ e.th_win = WindowOf(s)
    BY DEF Packet
  <2>3. /\ e.th_seq = (SeqnoOf(s) + conn.init_seqno) % Long
        /\ e.th_ack = (AcknoOf(s) + conn.their_init_seqno) % Long
    BY DEF Packet
  <2> QED  BY <2>1, <2>2, <2>3 DEF Carries
<1>4. e.th_seq \in Uint32 /\ e.th_ack \in Uint32
  <2>1. (SeqnoOf(s) + conn.init_seqno) % Long \in Uint32
    BY <1>1, Wraps DEF Fields, ConnOK
  <2>2. (AcknoOf(s) + conn.their_init_seqno) % Long \in Uint32
    BY <1>1, Wraps DEF Fields, ConnOK
  <2> QED  BY <1>3, <2>1, <2>2 DEF Carries
<1>5. PacketOK(e)
  <2>1. e.th_flags \in Byte /\ e.th_win \in Uint16
    BY <1>1, <1>3, WithAckIsByte DEF Fields, Carries
  <2>2. e.data \in Seq(Byte) /\ Len(e.data) <= MAX_SEG_DATA_SIZE
    BY <1>1, <1>3 DEF Fields, Carries
  <2> QED  BY <1>2, <1>4, <2>1, <2>2 DEF PacketOK, ConnOK
<1>6. c \in Uint16
  BY <1>5, TcpSumIsWord
<1>7. CksumOf(s) \in Uint16 /\ cksum(Unsummed(s)) \in Uint16
  BY <1>1, UnsummedSum DEF Fields
<1>8. x \in Uint16 /\ (x = c <=> Good(s))
  <2> DEFINE a == cksum(Unsummed(s))
             b == CksumOf(s)
  <2>1. x = (c + (a - b)) % Word
    <3>1. c \in Int /\ a \in Int /\ b \in Int
      BY <1>6, <1>7, Ranges
    <3> HIDE DEF a, b, c
    <3>2. c + a - b = c + (a - b)
      BY <3>1
    <3> QED  BY <3>2 DEF a, b
  <2>2. a \in Uint16 /\ b \in Uint16 /\ (a = b <=> Good(s))
    BY <1>7 DEF Good
  <2> HIDE DEF a, b, c, x
  <2>3. (c + (a - b)) % Word \in Uint16 /\ ((c + (a - b)) % Word = c <=> a = b)
    BY <1>6, <2>2, Errs
  <2> QED  BY <2>1, <2>2, <2>3
<1>9. convert_to_datagram(s) = d
  BY DEF convert_to_datagram
<1> HIDE DEF x, c
<1>10. /\ d.saddr = e.saddr /\ d.daddr = e.daddr /\ d.tot_len = e.tot_len
       /\ d.th_sport = e.th_sport /\ d.th_dport = e.th_dport
       /\ d.th_seq = e.th_seq /\ d.th_ack = e.th_ack /\ d.th_flags = e.th_flags
       /\ d.th_win = e.th_win /\ d.data = e.data /\ d.th_sum = x
  BY DEF Packet
<1> HIDE DEF d, e
<1>11. cksum_tcp(d) = c
  BY <1>10 DEF cksum_tcp, c
<1>12. Carries(d, s)
  BY <1>3, <1>10 DEF Carries
<1> QED  BY <1>4, <1>6, <1>8, <1>9, <1>10, <1>11, <1>12

(* convert_to_ctcp() gives the fields back, and a checksum that is right if *)
(* and only if the packet's is.                                             *)
LEMMA ToSegment ==
  ASSUME NEW s, WellFormed(s), ConnOK,
         NEW d, Carries(d, s), d.th_sum \in Uint16, cksum_tcp(d) \in Uint16
  PROVE  /\ WellFormed(convert_to_ctcp(d))
         /\ SeqnoOf(convert_to_ctcp(d)) = SeqnoOf(s) /\ AcknoOf(convert_to_ctcp(d)) = AcknoOf(s)
         /\ FlagsOf(convert_to_ctcp(d)) = WithAck(FlagsOf(s))
         /\ WindowOf(convert_to_ctcp(d)) = WindowOf(s) /\ DataOf(convert_to_ctcp(d)) = DataOf(s)
         /\ Good(convert_to_ctcp(d)) <=> d.th_sum = cksum_tcp(d)
<1> DEFINE seqno == SeqnoOf(s)
           ackno == AcknoOf(s)
           flags == WithAck(FlagsOf(s))
           window == WindowOf(s)
           data == DataOf(s)
           zero == MakeSegment(seqno, ackno, flags, window, 0, data)
           sum == (cksum(zero) + cksum_tcp(d) - d.th_sum) % Word
           r == MakeSegment(seqno, ackno, flags, window, sum, data)
<1>1. Fields(seqno, ackno, FlagsOf(s), window, CksumOf(s), data)
  BY FieldsOf
<1>2. ASSUME NEW k \in Uint16 PROVE Fields(seqno, ackno, flags, window, k, data)
  <2>1. flags \in Byte
    BY <1>1, WithAckIsByte DEF Fields
  <2> HIDE DEF flags
  <2> QED  BY <1>1, <2>1 DEF Fields
<1>3. \A k : Rebuilt(d, k) = MakeSegment(seqno, ackno, flags, window, k, data)
  <2>1. (d.th_seq - conn.init_seqno) % Long = seqno /\ (d.th_ack - conn.their_init_seqno) % Long = ackno
    BY <1>1, Wraps DEF Carries, Fields, ConnOK
  <2>2. SubSeq(d.data, 1, d.tot_len - FULL_HDR_SIZE) = data
    <3>1. data \in Seq(Byte) /\ Len(data) \in Nat
      BY <1>1 DEF Fields
    <3>2. d.tot_len - FULL_HDR_SIZE = Len(data) /\ d.data = data
      <4>1. d.tot_len = 40 + Len(data) /\ d.data = data
        BY DEF Carries
      <4>2. FULL_HDR_SIZE = 40
        BY DEF FULL_HDR_SIZE, IP_HDR_SIZE, TCP_HDR_SIZE
      <4> QED  BY <3>1, <4>1, <4>2
    <3> HIDE DEF data
    <3>3. SubSeq(data, 1, Len(data)) = data
      BY <3>1
    <3> QED  BY <3>2, <3>3
  <2>3. d.th_flags = flags /\ d.th_win = window
    BY DEF Carries
  <2> QED  BY <2>1, <2>2, <2>3 DEF Rebuilt
<1> HIDE DEF seqno, ackno, flags, window, data
<1>4. convert_to_ctcp(d) = r
  BY <1>3 DEF convert_to_ctcp
<1>5. Fields(seqno, ackno, flags, window, 0, data)
  BY <1>2, ZeroIsByte
<1>6. Layout(zero, seqno, ackno, flags, window, 0, data)
  BY <1>5, Made
<1>7. cksum(zero) \in Uint16
  <2> HIDE DEF zero
  <2>1. zero \in Seq(Byte) /\ Len(zero) = 20 + Len(data) /\ Len(data) \in Nat /\ Len(data) <= 1440
    BY <1>5, <1>6 DEF Layout, Fields, MAX_SEG_DATA_SIZE
  <2>2. zero \in Str
    BY <2>1 DEF Str
  <2> QED  BY <2>2, CksumIsWord
<1> HIDE DEF zero
<1>8. sum \in Uint16 /\ (sum = cksum(zero) <=> cksum_tcp(d) = d.th_sum)
  <2> DEFINE c == cksum(zero)
             a == cksum_tcp(d)
             b == d.th_sum
  <2>1. sum = (c + (a - b)) % Word
    <3>1. c \in Int /\ a \in Int /\ b \in Int
      BY <1>7, Ranges
    <3> HIDE DEF a, b, c
    <3>2. c + a - b = c + (a - b)
      BY <3>1
    <3> QED  BY <3>2 DEF a, b, c
  <2>2. a \in Uint16 /\ b \in Uint16 /\ c \in Uint16
    BY <1>7
  <2> HIDE DEF a, b, c, sum
  <2>3. (c + (a - b)) % Word \in Uint16 /\ ((c + (a - b)) % Word = c <=> a = b)
    BY <2>2, Errs
  <2>4. sum \in Uint16 /\ (sum = c <=> a = b)
    BY <2>1, <2>3
  <2> QED  BY <2>4 DEF a, b, c
<1> HIDE DEF sum
<1>9. Fields(seqno, ackno, flags, window, sum, data)
  BY <1>2, <1>8
<1>10. Layout(r, seqno, ackno, flags, window, sum, data)
  BY <1>9, Made
<1> HIDE DEF r
<1>11. /\ WellFormed(r) /\ SeqnoOf(r) = seqno /\ AcknoOf(r) = ackno /\ FlagsOf(r) = flags
       /\ WindowOf(r) = window /\ CksumOf(r) = sum /\ DataOf(r) = data
  BY <1>9, <1>10, ReadBack
<1>12. Unsummed(r) = zero
  BY <1>11, UnsummedMade DEF zero
<1>13. Good(r) <=> d.th_sum = cksum_tcp(d)
  BY <1>8, <1>11, <1>12 DEF Good
<1> QED  BY <1>4, <1>11, <1>13 DEF seqno, ackno, flags, window, data

(* _is_segment_valid() accepts a well-formed segment if its checksum is     *)
(* right.                                                                   *)
LEMMA ValidIsGood ==
  ASSUME NEW s, WellFormed(s)
  PROVE  is_segment_valid(s) <=> Good(s)
<1>1. s \in Seq(Byte) /\ Len(s) \in Nat /\ LenOf(s) = Len(s)
  BY DEF WellFormed, LenOf
<1>2. SubSeq(s, 1, Len(s)) = s
  BY <1>1
<1>3. LenOf(s) <= Len(s) /\ SubSeq(s, 1, LenOf(s)) = s
  BY <1>1, <1>2
<1> QED  BY <1>3 DEF is_segment_valid, Good

-----------------------------------------------------------------------------
(* Good segments, and one flipped bit *)

(* A flipped bit changes its byte, by at most B / 2.                        *)
LEMMA FlipByte ==
  ASSUME NEW v \in Byte, NEW m \in Mask,
         NEW x, x = IF (v \div m) % 2 = 0 THEN v + m ELSE v - m
  PROVE  x \in Byte /\ x # v /\ x - v <= B \div 2 /\ v - x <= B \div 2
<1>1. CASE B = 128
  <2>1. v \in Nat /\ v <= 127 /\ B \div 2 = 64
    BY SMT, <1>1, Ranges
  <2>2. m = 1 \/ m = 2 \/ m = 4 \/ m = 8 \/ m = 16 \/ m = 32 \/ m = 64
    BY SMT, <1>1 DEF Mask
  <2>3. CASE m = 1
    <3>1. /\ x \in Nat /\ x <= 127 /\ x # v
          /\ x - v <= B \div 2 /\ v - x <= B \div 2
      BY SMT, <2>1, <2>3
    <3> QED  BY SMT, <1>1, <3>1, Ranges
  <2>4. CASE m = 2
    <3>1. /\ x \in Nat /\ x <= 127 /\ x # v
          /\ x - v <= B \div 2 /\ v - x <= B \div 2
      BY SMT, <2>1, <2>4
    <3> QED  BY SMT, <1>1, <3>1, Ranges
  <2>5. CASE m = 4
    <3>1. /\ x \in Nat /\ x <= 127 /\ x # v
          /\ x - v <= B \div 2 /\ v - x <= B \div 2
      BY SMT, <2>1, <2>5
    <3> QED  BY SMT, <1>1, <3>1, Ranges
  <2>6. CASE m = 8
    <3>1. /\ x \in Nat /\ x <= 127 /\ x # v
          /\ x - v <= B \div 2 /\ v - x <= B \div 2
      BY SMT, <2>1, <2>6
    <3> QED  BY SMT, <1>1, <3>1, Ranges
  <2>7. CASE m = 16
    <3>1. /\ x \in Nat /\ x <= 127 /\ x # v
          /\ x - v <= B \div 2 /\ v - x <= B \div 2
      BY SMT, <2>1, <2>7
    <3> QED  BY SMT, <1>1, <3>1, Ranges
  <2>8. CASE m = 32
    <3>1. /\ x \in Nat /\ x <= 127 /\ x # v
          /\ x - v <= B \div 2 /\ v - x <= B \div 2
      BY SMT, <2>1, <2>8
    <3> QED  BY SMT, <1>1, <3>1, Ranges
  <2>9. CASE m = 64
    <3>1. /\ x \in Nat /\ x <= 127 /\ x # v
          /\ x - v <= B \div 2 /\ v - x <= B \div 2
      BY SMT, <2>1, <2>9
    <3> QED  BY SMT, <1>1, <3>1, Ranges
  <2> QED  BY <2>2, <2>3, <2>4, <2>5, <2>6, <2>7, <2>8, <2>9
<1>2. CASE B = 256
  <2>1. v \in Nat /\ v <= 255 /\ B \div 2 = 128
    BY SMT, <1>2, Ranges
  <2>2. m = 1 \/ m = 2 \/ m = 4 \/ m = 8 \/ m = 16 \/ m = 32 \/ m = 64 \/ m = 128
    BY SMT, <1>2 DEF Mask
  <2>3. CASE m = 1
    <3>1. /\ x \in Nat /\ x <= 255 /\ x # v
          /\ x - v <= B \div 2 /\ v - x <= B \div 2
      BY SMT, <2>1, <2>3
    <3> QED  BY SMT, <1>2, <3>1, Ranges
  <2>4. CASE m = 2
    <3>1. /\ x \in Nat /\ x <= 255 /\ x # v
          /\ x - v <= B \div 2 /\ v - x <= B \div 2
      BY SMT, <2>1, <2>4
    <3> QED  BY SMT, <1>2, <3>1, Ranges
  <2>5. CASE m = 4
    <3>1. /\ x \in Nat /\ x <= 255 /\ x # v
          /\ x - v <= B \div 2 /\ v - x <= B \div 2
      BY SMT, <2>1, <2>5
    <3> QED  BY SMT, <1>2, <3>1, Ranges
  <2>6. CASE m = 8
    <3>1. /\ x \in Nat /\ x <= 255 /\ x # v
          /\ x - v <= B \div 2 /\ v - x <= B \div 2
      BY SMT, <2>1, <2>6
    <3> QED  BY SMT, <1>2, <3>1, Ranges
  <2>7. CASE m = 16
    <3>1. /\ x \in Nat /\ x <= 255 /\ x # v
          /\ x - v <= B \div 2 /\ v - x <= B \div 2
      BY SMT, <2>1, <2>7
    <3> QED  BY SMT, <1>2, <3>1, Ranges
  <2>8. CASE m = 32
    <3>1. /\ x \in Nat /\ x <= 255 /\ x # v
          /\ x - v <= B \div 2 /\ v - x <= B \div 2
      BY SMT, <2>1, <2>8
    <3> QED  BY SMT, <1>2, <3>1, Ranges
  <2>9. CASE m = 64
    <3>1. /\ x \in Nat /\ x <= 255 /\ x # v
          /\ x - v <= B \div 2 /\ v - x <= B \div 2
      BY SMT, <2>1, <2>9
    <3> QED  BY SMT, <1>2, <3>1, Ranges
  <2>10. CASE m = 128
    <3>1. /\ x \in Nat /\ x <= 255 /\ x # v
          /\ x - v <= B \div 2 /\ v - x <= B \div 2
      BY SMT, <2>1, <2>10
    <3> QED  BY SMT, <1>2, <3>1, Ranges
  <2> QED  BY <2>2, <2>3, <2>4, <2>5, <2>6, <2>7, <2>8, <2>9, <2>10
<1> QED  BY <1>1, <1>2, ByteAssumption

(* len is not zero.                                                         *)
LEMMA LenNotZero ==
  ASSUME NEW s, WellFormed(s)
  PROVE  s[9] > 0 \/ s[10] > 0
<1>1. s \in Seq(Byte) /\ Len(s) \in Nat /\ Len(s) >= 20
  BY DEF WellFormed
<1>2. ShortAt(s, 9) = Len(s) /\ ShortAt(s, 9) = s[9] * B + s[10]
  <2>1. 9 + 1 = 10
    OBVIOUS
  <2> QED  BY <2>1 DEF WellFormed, ShortAt
<1>3. s[9] \in Nat /\ s[10] \in Nat
  <2>1. 9 \in 1..Len(s) /\ 10 \in 1..Len(s)
    BY <1>1
  <2>2. s[9] \in Byte /\ s[10] \in Byte
    BY <1>1, <2>1
  <2> QED  BY <2>2, Ranges
<1>4. CASE s[9] = 0 /\ s[10] = 0
  <2>1. 0 * B + 0 = 0
    BY Ranges
  <2> QED  BY <1>1, <1>2, <1>4, <2>1
<1> QED  BY <1>3, <1>4

(* The words of a good segment sum up to all ones: the checksum is one of   *)
(* them, and was computed without it.                                       *)
LEMMA GoodSumsUp ==
  ASSUME NEW s, WellFormed(s), Good(s)
  PROVE  cksum(s) = Word - 1
<1> DEFINE u == Unsummed(s)
           n == (Len(s) + 1) \div 2
           a == Words(u)
           b == Words(s)
<1>1. s \in Seq(Byte) /\ Len(s) \in Nat /\ Len(s) >= 20 /\ Len(s) <= 1460
  BY DEF WellFormed
<1>2. /\ u \in Seq(Byte) /\ Len(u) = Len(s) /\ u[19] = 0 /\ u[20] = 0
      /\ \A i \in 1..Len(s) : i # 19 /\ i # 20 => u[i] = s[i]
  BY UnsummedIs
<1>3. s \in Str /\ u \in Str
  BY <1>1, <1>2 DEF Str
<1>4. /\ b \in Seq(Nat) /\ Len(b) = n
      /\ \A i \in 1..n : b[i] = s[2 * i - 1] * B + (IF 2 * i <= Len(s) THEN s[2 * i] ELSE 0)
  BY <1>1, WordsFacts
<1> HIDE DEF u
<1>5. /\ a \in Seq(Nat) /\ Len(a) = n
      /\ \A i \in 1..n : a[i] = u[2 * i - 1] * B + (IF 2 * i <= Len(s) THEN u[2 * i] ELSE 0)
  <2>1. /\ a \in Seq(Nat) /\ Len(a) = (Len(u) + 1) \div 2
        /\ \A i \in 1..((Len(u) + 1) \div 2) :
             a[i] = u[2 * i - 1] * B + (IF 2 * i <= Len(u) THEN u[2 * i] ELSE 0)
    BY <1>2, WordsFacts
  <2>2. (Len(u) + 1) \div 2 = n
    BY <1>2
  <2> HIDE DEF a, n
  <2> QED  BY <1>2, <2>1, <2>2
<1>6. n \in Nat /\ 10 \in 1..n /\ 2 * n <= Len(s) + 1
  BY SMT, <1>1
<1> HIDE DEF a, b, n
<1>7. ASSUME NEW i \in 1..n, i # 10 PROVE b[i] = a[i]
  <2>1. /\ 2 * i - 1 \in 1..Len(s) /\ 2 * i - 1 # 19 /\ 2 * i - 1 # 20
        /\ 2 * i # 19 /\ 2 * i # 20 /\ (2 * i <= Len(s) => 2 * i \in 1..Len(s))
    BY <1>1, <1>6, <1>7
  <2>2. u[2 * i - 1] = s[2 * i - 1] /\ (2 * i <= Len(s) => u[2 * i] = s[2 * i])
    BY <1>2, <2>1
  <2> QED  BY <1>4, <1>5, <2>2
<1>8. a[10] = 0 /\ b[10] = ShortAt(s, 19)
  <2>1. 2 * 10 - 1 = 19 /\ 2 * 10 = 20 /\ 19 + 1 = 20 /\ 20 <= Len(s) /\ 0 * B + 0 = 0
    BY <1>1, Ranges
  <2>2. a[10] = u[19] * B + u[20]
    BY <1>5, <1>6, <2>1
  <2>3. b[10] = s[19] * B + s[20]
    BY <1>4, <1>6, <2>1
  <2> QED  BY <1>2, <2>1, <2>2, <2>3 DEF ShortAt
<1>9. Total(b) = Total(a) - a[10] + b[10]
  <2>1. Len(b) = Len(a) /\ 10 \in 1..Len(a) /\ \A i \in 1..Len(a) : i # 10 => b[i] = a[i]
    BY <1>4, <1>5, <1>6, <1>7
  <2>2. a \in Seq(Nat) /\ b \in Seq(Nat)
    BY <1>4, <1>5
  <2> DEFINE k == 10
  <2> HIDE DEF k
  <2>3. k \in 1..Len(a) /\ \A i \in 1..Len(a) : i # k => b[i] = a[i]
    BY <2>1 DEF k
  <2>4. Total(b) = Total(a) - a[k] + b[k]
    BY <2>1, <2>2, <2>3, TotalOfChange
  <2> QED  BY <2>4 DEF k
<1>10. Total(a) \in 0..Most /\ Total(b) \in 0..Most /\ Total(b) > 0
  <2>1. Total(a) \in 0..Most /\ Total(b) \in 0..Most
    BY <1>3, SumOfWords DEF a, b
  <2>2. Total(b) > 0
    <3>1. 9 \in 1..Len(s) /\ 10 \in 1..Len(s)
      BY <1>1
    <3>2. PICK i \in 1..Len(s) : s[i] > 0
      BY <3>1, LenNotZero
    <3> QED  BY <1>3, <3>2, SumIsPositive DEF b
  <2> QED  BY <2>1, <2>2
<1>11. ShortAt(s, 19) = htons(Complement(Total(a)))
  <2>1. 19 \in 1..(Len(s) - 1)
    BY <1>1
  <2>2. ShortAt(s, 19) \in Uint16
    BY <1>1, <2>1, ShortAtIs
  <2>3. htons(CksumOf(s)) = ShortAt(s, 19)
    BY <2>2, Swap DEF CksumOf
  <2>4. CksumOf(s) = Complement(Total(a))
    BY DEF Good, cksum, a, u
  <2> QED  BY <2>3, <2>4
<1> DEFINE x == Total(a)
           h == htons(Complement(x))
<1>12. x \in 0..Most /\ h \in Uint16
  <2>1. Complement(x) \in Uint16
    BY <1>10, ComplementFacts
  <2> HIDE DEF x
  <2> QED  BY <1>10, <2>1, Swap DEF x
<1>13. Total(b) = x + h
  <2>1. x \in Int /\ h \in Int
    BY <1>12, Ranges
  <2>2. Total(b) = x - 0 + h
    BY <1>8, <1>9, <1>11
  <2> HIDE DEF x, h
  <2> QED  BY <2>1, <2>2
<1>14. x + h \in 1..Most
  <2>1. Total(b) \in 1..Most
    BY <1>10, Ranges
  <2> QED  BY <1>13, <2>1
<1>15. Complement(x + h) = Word - 1
  <2> HIDE DEF x
  <2> QED  BY <1>12, <1>14, ComplementFacts
<1> QED  BY <1>13, <1>15 DEF cksum, b

(* A flipped bit makes a good segment a bad one: the sum of the words       *)
(* changes by less than Word - 1, or the checksum does.                     *)
LEMMA FlipIsBad ==
  ASSUME NEW s, WellFormed(s), Good(s), NEW bit \in RandBit(s)
  PROVE  WellFormed(flipbit(s, bit)) /\ ~Good(flipbit(s, bit))
<1> DEFINE j == bit.byte
           v == s[j]
           x == IF (v \div bit.mask) % 2 = 0 THEN v + bit.mask ELSE v - bit.mask
           f == [s EXCEPT ![j] = x]
           u == Unsummed(s)
           w == Unsummed(f)
<1>1. s \in Seq(Byte) /\ Len(s) \in Nat /\ Len(s) >= 20 /\ Len(s) <= 1460
  BY DEF WellFormed
<1>2. bit.mask \in Mask /\ j \in Nat /\ j >= 17 /\ j <= Len(s) /\ j \in 1..Len(s)
  <2>1. bit \in [byte : 17..Len(s), mask : Mask]
    BY DEF RandBit, SEGMENT_HDR_SIZE
  <2>2. bit.mask \in Mask /\ j \in 17..Len(s)
    BY <2>1
  <2> QED  BY <1>1, <2>2
<1>3. flipbit(s, bit) = f
  BY <1>1, <1>2 DEF flipbit
<1> HIDE DEF j
<1>4. v \in Byte
  BY <1>1, <1>2
<1>5. x \in Byte /\ x # v /\ x - v <= B \div 2 /\ v - x <= B \div 2
  <2> HIDE DEF v
  <2> QED  BY <1>2, <1>4, FlipByte
<1> HIDE DEF x
<1>6. /\ f \in Seq(Byte) /\ Len(f) = Len(s) /\ f[j] = x
      /\ \A i \in 1..Len(s) : i # j => f[i] = s[i]
  BY <1>1, <1>2, <1>5
<1> HIDE DEF f
<1>7. /\ f[9] = s[9] /\ f[10] = s[10] /\ f[11] = s[11] /\ f[12] = s[12]
      /\ f[14] = s[14] /\ f[15] = s[15] /\ f[16] = s[16]
  BY SMT, <1>1, <1>2, <1>6
<1>8. WellFormed(f)
  BY <1>1, <1>6, <1>7 DEF WellFormed, ShortAt
<1>9. /\ u \in Seq(Byte) /\ Len(u) = Len(s) /\ u[19] = 0 /\ u[20] = 0
      /\ \A i \in 1..Len(s) : i # 19 /\ i # 20 => u[i] = s[i]
  BY UnsummedIs
<1>10. /\ w \in Seq(Byte) /\ Len(w) = Len(s) /\ w[19] = 0 /\ w[20] = 0
       /\ \A i \in 1..Len(s) : i # 19 /\ i # 20 => w[i] = f[i]
  BY <1>6, <1>8, UnsummedIs
<1> HIDE DEF u, w
<1>11. 19 \in 1..(Len(s) - 1) /\ 19 + 1 = 20 /\ 19 \in 1..Len(s) /\ 20 \in 1..Len(s)
  BY <1>1
<1>12. CASE j = 19 \/ j = 20
  <2>1. \A i \in 1..Len(s) : w[i] = u[i]
    BY <1>6, <1>9, <1>10, <1>12
  <2>2. w = u
    BY <1>9, <1>10, <2>1
  <2>3. ShortAt(f, 19) # ShortAt(s, 19)
    <3>1. s[19] = ShortAt(s, 19) \div B /\ s[20] = ShortAt(s, 19) % B
      BY <1>1, <1>11, ShortAtIs
    <3>2. f[19] = ShortAt(f, 19) \div B /\ f[20] = ShortAt(f, 19) % B
      BY <1>6, <1>11, ShortAtIs
    <3>3. f[19] # s[19] \/ f[20] # s[20]
      BY <1>5, <1>6, <1>12
    <3> QED  BY <3>1, <3>2, <3>3
  <2>4. ShortAt(f, 19) \in Uint16 /\ ShortAt(s, 19) \in Uint16
    BY <1>1, <1>6, <1>11, ShortAtIs
  <2>5. CksumOf(f) # CksumOf(s)
    <3>1. htons(htons(ShortAt(f, 19))) = ShortAt(f, 19)
      BY <2>4, Swap
    <3>2. htons(htons(ShortAt(s, 19))) = ShortAt(s, 19)
      BY <2>4, Swap
    <3> QED  BY <2>3, <3>1, <3>2 DEF CksumOf
  <2>6. cksum(w) = cksum(u) /\ cksum(u) = CksumOf(s)
    BY <2>2 DEF Good, u
  <2>7. ~Good(f)
    BY <2>5, <2>6 DEF Good, w
  <2> QED  BY <1>3, <1>8, <2>7
<1>13. CASE j # 19 /\ j # 20
  <2>1. CksumOf(f) = CksumOf(s)
    <3>1. f[19] = s[19] /\ f[20] = s[20]
      BY <1>6, <1>11, <1>13
    <3>2. ShortAt(f, 19) = ShortAt(s, 19)
      BY <1>11, <3>1 DEF ShortAt
    <3> QED  BY <3>2 DEF CksumOf
  <2>2. u \in Str /\ j \in 1..Len(u) /\ u[j] = v
    BY <1>1, <1>2, <1>9, <1>13 DEF Str
  <2>3. /\ [u EXCEPT ![j] = x] \in Str /\ Len([u EXCEPT ![j] = x]) = Len(u)
        /\ [u EXCEPT ![j] = x][j] = x
        /\ \A i \in 1..Len(u) : i # j => [u EXCEPT ![j] = x][i] = u[i]
    BY <1>5, <2>2, Replaced
  <2> DEFINE y == [u EXCEPT ![j] = x]
  <2>4. w = y
    <3>1. /\ y \in Seq(Byte) /\ Len(y) = Len(s) /\ y[j] = x
          /\ \A i \in 1..Len(s) : i # j => y[i] = u[i]
      BY <1>9, <2>3 DEF Str
    <3> HIDE DEF y
    <3>2. ASSUME NEW i \in 1..Len(s) PROVE w[i] = y[i]
      <4>1. CASE i = j
        BY <1>6, <1>10, <1>13, <3>1, <4>1
      <4>2. CASE i = 19 \/ i = 20
        BY <1>9, <1>10, <1>11, <1>13, <3>1, <4>2
      <4>3. CASE i # j /\ i # 19 /\ i # 20
        BY <1>6, <1>9, <1>10, <3>1, <4>3
      <4> QED  BY <4>1, <4>2, <4>3
    <3> QED  BY <1>10, <3>1, <3>2
  <2>5. PICK i \in 1..Len(u) : i # j /\ u[i] > 0
    <3>1. 9 \in 1..Len(s) /\ 10 \in 1..Len(s) /\ 9 # j /\ 10 # j
      BY <1>1, <1>2
    <3>2. s[9] > 0 \/ s[10] > 0
      BY LenNotZero
    <3>3. u[9] = s[9] /\ u[10] = s[10]
      BY <1>9, <3>1
    <3> QED  BY <1>9, <3>1, <3>2, <3>3
  <2>6. cksum(y) # cksum(u)
    <3>1. x # u[j] /\ x - u[j] <= B \div 2 /\ u[j] - x <= B \div 2
      BY <1>5, <2>2
    <3> QED  BY <1>5, <2>2, <2>5, <3>1, CksumOfReplaced
  <2> HIDE DEF y
  <2>7. cksum(u) = CksumOf(s)
    BY DEF Good, u
  <2>8. ~Good(f)
    BY <2>1, <2>4, <2>6, <2>7 DEF Good, w
  <2> QED  BY <1>3, <1>8, <2>8
<1> QED  BY <1>12, <1>13

-----------------------------------------------------------------------------
(* The way of a segment *)

(* What _segment_send() makes.                                              *)
Sent(s) ==
  \E seqno \in Seqno, ackno \in Ackno, flags \in {TH_ACK, TH_FIN}, data \in Data :
    s = MakeSegment(seqno, ackno, flags, MAX_SEG_DATA_SIZE,
                    cksum(MakeSegment(seqno, ackno, flags, MAX_SEG_DATA_SIZE, 0, data)), data)

(* What conn_send() makes of it.                                            *)
Datagram(d, s, flip) ==
  IF flip THEN \E bit \in RandBit(s) : d = convert_to_datagram(flipbit(s, bit))
  ELSE d = convert_to_datagram(s)

(* The inductive invariant: what each function has left is what it makes of *)
(* what the one before it has left.                                         *)
Travels ==
  /\ pc \in {"_segment_send", "conn_send", "do_loop", "ctcp_receive"}
  /\ flipped \in BOOLEAN /\ ConnOK
  /\ IF pc = "_segment_send" THEN segment = <<>> ELSE Sent(segment)
  /\ IF pc \in {"_segment_send", "conn_send"} THEN datagram = <<>> /\ flipped = FALSE
     ELSE Datagram(datagram, segment, flipped)
  /\ IF pc # "ctcp_receive" THEN received = <<>> ELSE received = convert_to_ctcp(datagram)

LEMMA TravelsInit == Init => Travels
<1> SUFFICES ASSUME Init PROVE Travels
  OBVIOUS
<1>1. InitSeqno \subseteq Uint32 /\ Address \subseteq Uint32
  <2>1. CASE B = 128
    <3>1. Long = 268435456
      BY SMT, <2>1, Sizes
    <3>2. Long \div 2 - 1 <= Long - 1 /\ Long \div 2 - 1 \in Int /\ Long - 1 \in Int
      BY SMT, <3>1
    <3> QED  BY <3>2, NumberAssumption DEF Uint32
  <2>2. CASE B = 256
    <3>1. Long = 4294967296
      BY SMT, <2>2, Sizes
    <3>2. Long \div 2 - 1 <= Long - 1 /\ Long \div 2 - 1 \in Int /\ Long - 1 \in Int
      BY SMT, <3>1
    <3> QED  BY <3>2, NumberAssumption DEF Uint32
  <2> QED  BY <2>1, <2>2, ByteAssumption
<1>2. 1 \in Uint16 /\ 2 \in Uint16
  BY SMT, Sizes, Ranges
<1>3. /\ conn.init_seqno \in InitSeqno /\ conn.their_init_seqno \in InitSeqno
      /\ conn.saddr \in Address /\ conn.daddr \in Address /\ conn.sport = 1 /\ conn.dport = 2
  BY DEF Init
<1>4. ConnOK
  BY <1>1, <1>2, <1>3 DEF ConnOK
<1> QED  BY <1>4 DEF Init, Travels

(* The conversions depend on conn and web only.                             *)
LEMMA SameConversions ==
  ASSUME UNCHANGED <<conn, web>>
  PROVE  /\ ConnOK' = ConnOK
         /\ \A s : convert_to_datagram(s)' = convert_to_datagram(s)
         /\ \A d : convert_to_ctcp(d)' = convert_to_ctcp(d)
<1>1. ConnOK' = ConnOK
  BY DEF ConnOK
<1>2. ASSUME NEW s PROVE convert_to_datagram(s)' = convert_to_datagram(s)
  BY DEF convert_to_datagram, Packet, WithAck
<1>3. ASSUME NEW d PROVE convert_to_ctcp(d)' = convert_to_ctcp(d)
  BY DEF convert_to_ctcp, Rebuilt
<1> QED  BY <1>1, <1>2, <1>3

LEMMA TravelsStep == Travels /\ [Next]_vars => Travels'
<1> SUFFICES ASSUME Travels, [Next]_vars PROVE Travels'
  OBVIOUS
<1>0. UNCHANGED <<conn, web>>
  BY DEF Next, vars, segment_send, conn_send, do_loop
<1>1. /\ ConnOK'
      /\ \A s : convert_to_datagram(s)' = convert_to_datagram(s)
      /\ \A d : convert_to_ctcp(d)' = convert_to_ctcp(d)
  BY <1>0, SameConversions DEF Travels
<1>2. ASSUME NEW seqno \in Seqno, NEW ackno \in Ackno, NEW flags \in {TH_ACK, TH_FIN},
             NEW data \in Data, segment_send(seqno, ackno, flags, data)
      PROVE  Travels'
  <2>1. /\ pc = "_segment_send" /\ pc' = "conn_send"
        /\ UNCHANGED <<flipped, datagram, received>>
    BY <1>2 DEF segment_send
  <2>2. Sent(segment)'
    BY <1>2 DEF segment_send, Sent
  <2> QED  BY <1>1, <2>1, <2>2 DEF Travels
<1>3. CASE conn_send
  <2>1. pc = "conn_send" /\ pc' = "do_loop" /\ UNCHANGED <<segment, received>>
    BY <1>3 DEF conn_send
  <2>2. flipped' \in BOOLEAN /\ Datagram(datagram, segment, flipped)'
    <3>1. CASE datagram' = convert_to_datagram(segment) /\ UNCHANGED flipped
      <4>1. flipped = FALSE
        BY <2>1 DEF Travels
      <4> QED  BY <1>1, <2>1, <3>1, <4>1 DEF Datagram
    <3>2. ASSUME NEW bit \in RandBit(segment),
                 datagram' = convert_to_datagram(flipbit(segment, bit)), flipped' = TRUE
          PROVE  flipped' \in BOOLEAN /\ Datagram(datagram, segment, flipped)'
      BY <1>1, <2>1, <3>2 DEF Datagram
    <3> QED  BY <1>3, <3>1, <3>2 DEF conn_send
  <2> QED  BY <1>1, <2>1, <2>2 DEF Travels
<1>4. CASE do_loop
  BY <1>1, <1>4 DEF do_loop, Travels, Datagram
<1>5. CASE UNCHANGED vars
  BY <1>1, <1>5 DEF vars, Travels, Datagram
<1> QED  BY <1>2, <1>3, <1>4, <1>5 DEF Next

(* Every reachable state satisfies the inductive invariant.                 *)
LEMMA AlwaysTravels == Spec => []Travels
BY TravelsInit, TravelsStep, PTL DEF Spec

LEMMA SentIsGood ==
  ASSUME NEW s, Sent(s)
  PROVE  WellFormed(s) /\ Good(s)
<1>1. PICK seqno \in Seqno, ackno \in Ackno, flags \in {TH_ACK, TH_FIN}, data \in Data :
        s = MakeSegment(seqno, ackno, flags, MAX_SEG_DATA_SIZE,
                        cksum(MakeSegment(seqno, ackno, flags, MAX_SEG_DATA_SIZE, 0, data)), data)
  BY DEF Sent
<1> DEFINE window == MAX_SEG_DATA_SIZE
           zero == MakeSegment(seqno, ackno, flags, window, 0, data)
           sum == cksum(zero)
<1>2. ASSUME NEW k \in Uint16 PROVE Fields(seqno, ackno, flags, window, k, data)
  <2>1. seqno \in Uint32 /\ ackno \in Uint32
    BY NumberAssumption DEF Uint32
  <2>2. flags \in Byte
    <3>1. 16 \in Byte /\ 1 \in Byte
      BY SMT, Sizes, Ranges
    <3> QED  BY <3>1 DEF TH_ACK, TH_FIN
  <2>3. window \in Uint16
    <3>1. 1440 \in Uint16
      BY SMT, Sizes, Ranges
    <3> QED  BY <3>1 DEF MAX_SEG_DATA_SIZE
  <2>4. data \in Seq(Byte) /\ Len(data) <= MAX_SEG_DATA_SIZE
    BY DataAssumption
  <2> QED  BY <2>1, <2>2, <2>3, <2>4 DEF Fields
<1> HIDE DEF window
<1>3. Fields(seqno, ackno, flags, window, 0, data)
  BY <1>2, ZeroIsByte
<1>4. Layout(zero, seqno, ackno, flags, window, 0, data)
  BY <1>3, Made
<1> HIDE DEF zero
<1>5. sum \in Uint16
  <2>1. zero \in Seq(Byte) /\ Len(zero) = 20 + Len(data) /\ Len(data) \in Nat /\ Len(data) <= 1440
    BY <1>3, <1>4 DEF Layout, Fields, MAX_SEG_DATA_SIZE
  <2>2. zero \in Str
    BY <2>1 DEF Str
  <2> QED  BY <2>2, CksumIsWord
<1> HIDE DEF sum
<1>6. Fields(seqno, ackno, flags, window, sum, data)
  BY <1>2, <1>5
<1>7. s = MakeSegment(seqno, ackno, flags, window, sum, data)
  BY <1>1 DEF window, zero, sum
<1>8. Layout(s, seqno, ackno, flags, window, sum, data)
  BY <1>6, <1>7, Made
<1>9. /\ WellFormed(s) /\ SeqnoOf(s) = seqno /\ AcknoOf(s) = ackno
      /\ FlagsOf(s) = flags /\ WindowOf(s) = window /\ CksumOf(s) = sum /\ DataOf(s) = data
  BY <1>6, <1>8, ReadBack
<1>10. Unsummed(s) = zero
  BY <1>9, UnsummedMade DEF zero
<1> QED  BY <1>9, <1>10 DEF Good, sum

(* What conn_send() converts, with or without a flipped bit.                *)
LEMMA Converted ==
  ASSUME Travels, pc \in {"do_loop", "ctcp_receive"}
  PROVE  \E s : /\ WellFormed(s) /\ datagram = convert_to_datagram(s)
                /\ Good(s) <=> ~flipped
                /\ ~flipped => s = segment
<1>1. WellFormed(segment) /\ Good(segment) /\ Datagram(datagram, segment, flipped)
  BY SentIsGood DEF Travels
<1>2. CASE flipped = FALSE
  <2>1. datagram = convert_to_datagram(segment)
    BY <1>1, <1>2 DEF Datagram
  <2> QED  BY <1>1, <1>2, <2>1
<1>3. CASE flipped = TRUE
  <2>1. PICK bit \in RandBit(segment) : datagram = convert_to_datagram(flipbit(segment, bit))
    BY <1>1, <1>3 DEF Datagram
  <2>2. WellFormed(flipbit(segment, bit)) /\ ~Good(flipbit(segment, bit))
    BY <1>1, FlipIsBad
  <2> QED  BY <1>3, <2>1, <2>2
<1> QED  BY <1>2, <1>3 DEF Travels

LEMMA DatagramFacts ==
  ASSUME Travels, pc \in {"do_loop", "ctcp_receive"}
  PROVE  /\ datagram.th_seq \in Uint32 /\ datagram.th_ack \in Uint32 /\ datagram.th_sum \in Uint16
         /\ datagram.th_sum = cksum_tcp(datagram) <=> ~flipped
<1>1. PICK s : /\ WellFormed(s) /\ datagram = convert_to_datagram(s)
               /\ Good(s) <=> ~flipped
  BY Converted
<1>2. ConnOK
  BY DEF Travels
<1> QED  BY <1>1, <1>2, ToDatagram

LEMMA ReceivedFacts ==
  ASSUME Travels, pc = "ctcp_receive"
  PROVE  /\ WellFormed(received) /\ (is_segment_valid(received) <=> ~flipped)
         /\ ~flipped => /\ SeqnoOf(received) = SeqnoOf(segment) /\ AcknoOf(received) = AcknoOf(segment)
                        /\ FlagsOf(received) = WithAck(FlagsOf(segment))
                        /\ WindowOf(received) = WindowOf(segment)
                        /\ DataOf(received) = DataOf(segment)
<1>1. PICK s : /\ WellFormed(s) /\ datagram = convert_to_datagram(s)
               /\ Good(s) <=> ~flipped
               /\ ~flipped => s = segment
  BY Converted
<1>2. ConnOK /\ received = convert_to_ctcp(datagram)
  BY DEF Travels
<1>3. /\ Carries(datagram, s) /\ datagram.th_sum \in Uint16 /\ cksum_tcp(datagram) \in Uint16
      /\ datagram.th_sum = cksum_tcp(datagram) <=> Good(s)
  BY <1>1, <1>2, ToDatagram
<1>4. /\ WellFormed(received)
      /\ SeqnoOf(received) = SeqnoOf(s) /\ AcknoOf(received) = AcknoOf(s)
      /\ FlagsOf(received) = WithAck(FlagsOf(s))
      /\ WindowOf(received) = WindowOf(s) /\ DataOf(received) = DataOf(s)
      /\ Good(received) <=> datagram.th_sum = cksum_tcp(datagram)
  BY <1>1, <1>2, <1>3, ToSegment
<1>5. is_segment_valid(received) <=> Good(received)
  BY <1>4, ValidIsGood
<1> QED  BY <1>1, <1>3, <1>4, <1>5

-----------------------------------------------------------------------------
(* The properties *)

(* _segment_send(), convert_to_datagram() and convert_to_ctcp() keep every  *)
(* field within its width, whatever the numbers and the payload.            *)
THEOREM PacketTypeCorrect == Spec => []TypeOK
<1>1. Travels => TypeOK
  <2> SUFFICES ASSUME Travels PROVE TypeOK
    OBVIOUS
  <2>1. segment \in Seq(Byte)
    <3>1. CASE pc = "_segment_send"
      <4>1. <<>> \in Seq(Byte)
        OBVIOUS
      <4> QED  BY <3>1, <4>1 DEF Travels
    <3>2. CASE pc # "_segment_send"
      BY <3>2, SentIsGood DEF Travels, WellFormed
    <3> QED  BY <3>1, <3>2
  <2>2. received \in Seq(Byte)
    <3>1. CASE pc # "ctcp_receive"
      <4>1. <<>> \in Seq(Byte)
        OBVIOUS
      <4> QED  BY <3>1, <4>1 DEF Travels
    <3>2. CASE pc = "ctcp_receive"
      BY <3>2, ReceivedFacts DEF WellFormed
    <3> QED  BY <3>1, <3>2
  <2>3. datagram # <<>> => /\ datagram.th_seq \in 0..(Long - 1)
                           /\ datagram.th_ack \in 0..(Long - 1)
                           /\ datagram.th_sum \in 0..(Word - 1)
    <3>1. CASE pc \in {"do_loop", "ctcp_receive"}
      BY <3>1, DatagramFacts DEF Uint16, Uint32
    <3>2. CASE pc \in {"_segment_send", "conn_send"}
      BY <3>2 DEF Travels
    <3> QED  BY <3>1, <3>2 DEF Travels
  <2> QED  BY <2>1, <2>2, <2>3 DEF TypeOK
<1> QED  BY <1>1, AlwaysTravels, PTL

(* The checksum that _segment_send() stores makes the segment's words add   *)
(* up to all ones, whatever its length, its fields and its data.            *)
THEOREM SegmentSumsUp == Spec => []SumsToAllOnes
<1>1. Travels => SumsToAllOnes
  <2> SUFFICES ASSUME Travels, segment # <<>> PROVE cksum(segment) = Word - 1
    BY DEF SumsToAllOnes
  <2>1. WellFormed(segment) /\ Good(segment)
    BY SentIsGood DEF Travels
  <2> QED  BY <2>1, GoodSumsUp
<1> QED  BY <1>1, AlwaysTravels, PTL

(* What convert_to_ctcp() hands to ctcp_receive() is the segment that       *)
(* _segment_send() has made, for every initial number that conn_setup() can *)
(* draw, or the same with the ACK that is added for the web.                *)
THEOREM SegmentArrives == Spec => []Arrives
<1>1. Travels => Arrives
  <2> SUFFICES ASSUME Travels, pc = "ctcp_receive", ~flipped
               PROVE  /\ is_segment_valid(received)
                      /\ IF web THEN /\ SubSeq(received, 1, 12) = SubSeq(segment, 1, 12)
                                     /\ FlagsOf(received) = WithAck(FlagsOf(segment))
                                     /\ DataOf(received) = DataOf(segment)
                         ELSE received = segment
    BY DEF Arrives
  <2>1. /\ WellFormed(received) /\ is_segment_valid(received)
        /\ SeqnoOf(received) = SeqnoOf(segment) /\ AcknoOf(received) = AcknoOf(segment)
        /\ FlagsOf(received) = WithAck(FlagsOf(segment))
        /\ WindowOf(received) = WindowOf(segment) /\ DataOf(received) = DataOf(segment)
    BY ReceivedFacts
  <2>2. WellFormed(segment) /\ Good(segment)
    BY SentIsGood DEF Travels
  <2>3. CASE ~web
    <3>1. FlagsOf(received) = FlagsOf(segment)
      BY <2>1, <2>3 DEF WithAck
    <3>2. Good(received)
      BY <2>1, ValidIsGood
    <3>3. Unsummed(received) = Unsummed(segment)
      BY <2>1, <2>2, <3>1, UnsummedMade
    <3>4. CksumOf(received) = CksumOf(segment)
      BY <2>2, <3>2, <3>3 DEF Good
    <3>5. received = segment
      BY <2>1, <2>2, <3>1, <3>4, Rebuilds
    <3> QED  BY <2>1, <2>3, <3>5
  <2>4. CASE web
    <3>1. Len(received) = Len(segment)
      <4>1. Len(DataOf(received)) = Len(received) - 20 /\ Len(received) \in Nat
        BY <2>1, DataLength
      <4>2. Len(DataOf(segment)) = Len(segment) - 20 /\ Len(segment) \in Nat
        BY <2>2, DataLength
      <4>3. Len(received) - 20 = Len(segment) - 20
        BY <2>1, <4>1, <4>2
      <4> QED  BY <4>1, <4>2, <4>3
    <3>2. SubSeq(received, 1, 12) = SubSeq(segment, 1, 12)
      BY <2>1, <2>2, <3>1, SameStart
    <3> QED  BY <2>1, <2>4, <3>2
  <2> QED  BY <2>3, <2>4
<1> QED  BY <1>1, AlwaysTravels, PTL

(* A bit that conn_send() flips anywhere from the window to the last byte   *)
(* is always found by _is_segment_valid() of the receiver.                  *)
THEOREM FlipNeverPasses == Spec => []FlipIsDetected
<1>1. Travels => FlipIsDetected
  BY ReceivedFacts DEF FlipIsDetected
<1> QED  BY <1>1, AlwaysTravels, PTL

(* convert_to_datagram() hands the error of the segment's checksum on: the  *)
(* packet's TCP checksum is right exactly if no bit was flipped.            *)
THEOREM WireSumAgrees == Spec => []WireAgrees
<1>1. Travels => WireAgrees
  <2> SUFFICES ASSUME Travels, datagram # <<>>
               PROVE  datagram.th_sum = cksum_tcp(datagram) <=> ~flipped
    BY DEF WireAgrees
  <2>1. pc \in {"do_loop", "ctcp_receive"}
    BY DEF Travels
  <2> QED  BY <2>1, DatagramFacts
<1> QED  BY <1>1, AlwaysTravels, PTL
=============================================================================
