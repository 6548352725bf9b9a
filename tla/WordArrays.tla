----------------------------- MODULE WordArrays -----------------------------
(***************************************************************************)
(* The numbers and word arrays of CryptoJS (webapp/static/CryptoJS-v3.1.2, *)
(* components/core.js, enc-base64.js, enc-utf16.js).  A 32-bit integer is  *)
(* its halves <<high, low>> of 16 bits.  An array is words of four bytes,  *)
(* of which sigBytes bytes count; what the last word holds behind them     *)
(* stays there until something clamps the array.  A character is its code  *)
(* unit; a digit of base 16 or 64 is its value.                            *)
(***************************************************************************)
EXTENDS Integers, SequencesExt

-----------------------------------------------------------------------------
(* Words.  Bit operations of JavaScript work on 32 bits whatever came      *)
(* before, so a sum may be cut at once.                                    *)
Half == 65536

\* op(x), with x evaluated before op and the result at once: TLC evaluates arguments
\* where they are used, one inside the other, and functions at each application.
Strictly(op(_), x) == CHOOSE y \in {op(z) : z \in {w \in {x} : w = w}} : y = y

\* AND of two bytes, bit by bit, for all of them.
AndOfBytes ==
  LET bit(v, n) == (v \div 2^n) % 2
      and[p \in 0..255, q \in 0..255] ==
        LET sum[n \in 0..8] ==
              IF n = 0 THEN 0 ELSE sum[n - 1] + bit(p, n - 1) * bit(q, n - 1) * 2^(n - 1)
        IN  sum[8]
  IN  Strictly(LAMBDA n : [p \in 0..n |-> [q \in 0..n |-> and[p, q]]], 255)
AndOfHalves(p, q) ==
  AndOfBytes[p \div 256][q \div 256] * 256 + AndOfBytes[(p % 256)][(q % 256)]

Zero == <<0, 0>>
AllOnes == <<Half - 1, Half - 1>>
Word(b1, b2, b3, b4) == <<b1 * 256 + b2, b3 * 256 + b4>>
Small(n) == <<n \div Half, n % Half>>  \* 0 <= n < 2^31

And(x, y) == <<AndOfHalves(x[1], y[1]), AndOfHalves(x[2], y[2])>>
Xor(x, y) == <<x[1] + y[1] - 2 * AndOfHalves(x[1], y[1]), x[2] + y[2] - 2 * AndOfHalves(x[2], y[2])>>
Or(x, y) == <<x[1] + y[1] - AndOfHalves(x[1], y[1]), x[2] + y[2] - AndOfHalves(x[2], y[2])>>
Not(x) == <<Half - 1 - x[1], Half - 1 - x[2]>>

Add(x, y) ==
  LET low == x[2] + y[2] IN <<(x[1] + y[1] + low \div Half) % Half, low % Half>>
Below(x, y) == x[1] < y[1] \/ (x[1] = y[1] /\ x[2] < y[2])  \* (x >>> 0) < (y >>> 0)
Carry(sum, x) == IF Below(sum, x) THEN Small(1) ELSE Zero

\* Shifts and rotations by 0 <= n <= 31.
Shl(x, n) ==
  IF n >= 16 THEN <<(x[2] * 2^(n - 16)) % Half, 0>>
  ELSE <<((x[1] * 2^n) % Half) + x[2] \div 2^(16 - n), (x[2] * 2^n) % Half>>
Shr(x, n) ==
  IF n >= 16 THEN <<0, x[1] \div 2^(n - 16)>>
  ELSE <<x[1] \div 2^n, x[2] \div 2^n + (x[1] % 2^n) * 2^(16 - n)>>
Rotl(x, n) ==
  LET p == IF n >= 16 THEN <<x[2], x[1]>> ELSE x
      k == n % 16
  IN  <<((p[1] * 2^k) % Half) + p[2] \div 2^(16 - k), ((p[2] * 2^k) % Half) + p[1] \div 2^(16 - k)>>
Rotr(x, n) == Rotl(x, (32 - n) % 32)

swapEndian(x) == <<(x[2] % 256) * 256 + x[2] \div 256, (x[1] % 256) * 256 + x[1] \div 256>>

\* Byte k of a word, from the most significant, and a word with byte k or'ed in.
ByteOf(x, k) == IF k % 2 = 0 THEN x[k \div 2 + 1] \div 256 ELSE x[k \div 2 + 1] % 256
AtByte(b, k) == IF k < 2 THEN <<b * 256^(1 - k), 0>> ELSE <<0, b * 256^(3 - k)>>
-----------------------------------------------------------------------------
(* Word arrays                                                             *)
Malformed == <<-1>>  \* an error is thrown
PadChar == 64

Array(words, sigBytes) == [words |-> words, sigBytes |-> sigBytes]
Whole(words) == Array(words, 4 * Len(words))
None == Whole(<<>>)

CeilDiv(n, d) == (n + d - 1) \div d

\* Word i, counted from 0; what was never set counts as 0 in bit operations.
At(words, i) == IF i < Len(words) THEN words[i + 1] ELSE Zero
ByteAt(words, i) == ByteOf(At(words, i \div 4), i % 4)
BytesOf(a) == [i \in 1..a.sigBytes |-> ByteAt(a.words, i - 1)]
WordsOf(s) ==
  LET at(i) == IF i <= Len(s) THEN s[i] ELSE 0
  IN  [k \in 1..CeilDiv(Len(s), 4) |-> Word(at(4 * k - 3), at(4 * k - 2), at(4 * k - 1), at(4 * k))]
Bytes(s) == Array(WordsOf(s), Len(s))

clamp(a) ==
  LET n == CeilDiv(a.sigBytes, 4)
      part == a.sigBytes % 4
  IN  [a EXCEPT !.words = [k \in 1..n |->
         IF k = n /\ part # 0 THEN And(At(a.words, k - 1), Shl(AllOnes, 32 - part * 8))
         ELSE At(a.words, k - 1)]]

\* If this ends within a word, bytes are copied, otherwise the words as they are.
concat(a, b) ==
  Array(IF a.sigBytes % 4 # 0 THEN WordsOf(BytesOf(clamp(a)) \o BytesOf(b))
        ELSE clamp(a).words \o b.words,
        a.sigBytes + b.sigBytes)
-----------------------------------------------------------------------------
(* Encodings                                                               *)

HexStringify(a) ==
  FlattenSeq([i \in 1..a.sigBytes |-> LET b == ByteAt(a.words, i - 1) IN <<b \div 16, b % 16>>])
HexParse(s) == Bytes([i \in 1..Len(s) \div 2 |-> s[2 * i - 1] * 16 + s[2 * i]])

Latin1Stringify(a) == BytesOf(a)
Latin1Parse(s) == Bytes([i \in DOMAIN s |-> s[i] % 256])

\* encodeURIComponent and decodeURIComponent, for characters of up to three bytes.
Utf8Bytes(c) ==
  IF c < 128 THEN <<c>>
  ELSE IF c < 2048 THEN <<192 + c \div 64, 128 + (c % 64)>>
  ELSE <<224 + c \div 4096, 128 + ((c \div 64) % 64), 128 + (c % 64)>>

RECURSIVE Utf8Chars(_)
Utf8Chars(s) ==
  LET n == IF s[1] < 128 THEN 1 ELSE IF s[1] \in 194..223 THEN 2
           ELSE IF s[1] \in 224..239 THEN 3 ELSE 0
      c == IF n = 1 THEN s[1] ELSE IF n = 2 THEN (s[1] % 32) * 64 + (s[2] % 64)
           ELSE (s[1] % 16) * 4096 + (s[2] % 64) * 64 + (s[3] % 64)
      good == /\ n \in 1..Len(s) /\ \A i \in 2..n : s[i] \in 128..191
              /\ n = 3 => c >= 2048
      rest == Utf8Chars(SubSeq(s, n + 1, Len(s)))
  IN  IF s = <<>> THEN <<>>
      ELSE IF ~good THEN Malformed
      ELSE IF rest = Malformed THEN Malformed ELSE <<c>> \o rest

Utf8Stringify(a) == Utf8Chars(Latin1Stringify(a))
Utf8Parse(s) == Latin1Parse(FlattenSeq([i \in DOMAIN s |-> Utf8Bytes(s[i])]))

Base64Stringify(a0) ==
  LET a == clamp(a0)
      triplet(i) == (ByteAt(a.words, i) * 256 + ByteAt(a.words, i + 1)) * 256 + ByteAt(a.words, i + 2)
      chars(i) ==
        LET n == CHOOSE k \in 1..4 : (k = 4 \/ 4 * i + 3 * k >= 4 * a.sigBytes)
                                     /\ \A j \in 1..k-1 : 4 * i + 3 * j < 4 * a.sigBytes
        IN  [j \in 1..n |-> (triplet(i) \div 64^(4 - j)) % 64]
      all == FlattenSeq([k \in 1..CeilDiv(a.sigBytes, 3) |-> chars(3 * (k - 1))])
  IN  all \o [i \in 1..((4 - (Len(all) % 4)) % 4) |-> PadChar]

\* The higher bits of bits1 fall on bits of the byte before, which they equal.
Base64Parse(s) ==
  LET pad == SelectInSeq(s, LAMBDA c : c = PadChar)
      length == IF pad = 0 THEN Len(s) ELSE pad - 1
      step(a, i) ==
        LET k == i % 4
            bits == Or(Shl(Small(s[i]), k * 2), Shr(Small(s[i + 1]), 6 - k * 2))
            at == a.sigBytes \div 4
            words == IF at < Len(a.words) THEN a.words ELSE Append(a.words, Zero)
        IN  IF k = 0 THEN a
            ELSE Array([words EXCEPT ![at + 1] = Or(@, Shl(bits, 24 - (a.sigBytes % 4) * 8))],
                       a.sigBytes + 1)
  IN  FoldLeft(step, None, [i \in 1..length-1 |-> i])

Utf16BEStringify(a) ==
  [k \in 1..CeilDiv(a.sigBytes, 2) |-> At(a.words, (k - 1) \div 2)[((k - 1) % 2) + 1]]
Utf16BEParse(s) ==
  Array([k \in 1..CeilDiv(Len(s), 2) |-> <<s[2 * k - 1], IF 2 * k > Len(s) THEN 0 ELSE s[2 * k]>>],
        2 * Len(s))
SwapHalf(c) == (c % 256) * 256 + c \div 256
Utf16LEStringify(a) == LET s == Utf16BEStringify(a) IN [i \in DOMAIN s |-> SwapHalf(s[i])]
Utf16LEParse(s) == Utf16BEParse([i \in DOMAIN s |-> SwapHalf(s[i])])
=============================================================================
