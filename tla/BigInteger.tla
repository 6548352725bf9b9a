----------------------------- MODULE BigInteger -----------------------------
(***************************************************************************)
(* The numbers of webapp/static/jsencrypt.js (jsbn): arithmetic, and what  *)
(* is built on it: conversions, the reducers and powers with them,         *)
(* inverses and primes.  A number is an array d of digits of DB bits, the  *)
(* least significant first, of which t are in use, and a sign s, 0 or -1,  *)
(* that continues them: two's complement.  "x.opTo(a, r)" of the code,     *)
(* which leaves its result in r, is an operator OpTo(x, a) that returns    *)
(* it.                                                                     *)
(*                                                                         *)
(* The browser decides which of three multiply-and-add loops is used, and  *)
(* with it DB: 26, 30 or 28.  The digits are small here and the constants  *)
(* that depend on their size are derived as the code derives them.         *)
(***************************************************************************)
EXTENDS Integers, SequencesExt

CONSTANTS
  Bits,       \* am1, am2 or am3 :> the bits of a digit; 26, 30, 28 in the code
  BI_FP,      \* bits of the quotient estimate; 52 in the code
  IntBits,    \* of the integers the bit operations work on; 32
  ByteBits,   \* 8
  Split,      \* where Montgomery splits a digit; 15
  FewBits,    \* exponents below go the short way; 8 in modPow
  OneWindow,  \* exponents below are scanned bit by bit; 18
  SmallExp,   \* exponents below are too small for Montgomery; 256 in modPowInt
  lowprimes,
  lplim

VARIABLE am  \* the loop the browser got

ASSUME DigitAssumption ==
  /\ DOMAIN Bits = {"am1", "am2", "am3"}
  /\ \A a \in DOMAIN Bits : Bits[a] <= BI_FP /\ BI_FP <= 2 * Bits[a]
  /\ Bits["am2"] % 2 = 0 /\ Bits["am3"] % 2 = 0

DB == Bits[am]
DV == 2^DB
DM == DV - 1
F1 == BI_FP - DB
F2 == 2 * DB - BI_FP
FV == 2^BI_FP

Least(m, n) == IF m < n THEN m ELSE n
Most(m, n) == IF m > n THEN m ELSE n
With(x, F(_)) == CHOOSE y \in {F(v) : v \in {x}} : TRUE  \* F(x), with x evaluated first
Signed(v, bits) == ((v + 2^(bits - 1)) % 2^bits) - 2^(bits - 1)

\* Number of bits, at least 1; index of the lowest bit that is set, or -1; number of
\* bits that are set.
nbits(x) == CHOOSE n \in 1..IntBits : x < 2^n /\ (n = 1 \/ x >= 2^(n - 1))
lbit(x) == IF x = 0 THEN -1 ELSE CHOOSE n \in 0..IntBits : x % 2^(n + 1) = 2^n
cbit(x) == Cardinality({n \in 0..IntBits : (x \div 2^n) % 2 = 1})
-----------------------------------------------------------------------------
(* Numbers                                                                 *)

Number(d, t, s) == CHOOSE x \in {[d |-> d, t |-> t, s |-> s]} : x = x  \* evaluated once
Zeros(n) == [i \in 0..n-1 |-> 0]
Put(d, i, v) == (i :> v) @@ d

\* What the digits mean.
Value(x) ==
  LET sum[i \in 0..x.t] == IF i = 0 THEN 0 ELSE sum[i - 1] + x.d[i - 1] * DV^(i - 1)
  IN  sum[x.t] + x.s * DV^x.t

\* The digits and the sign that the code gives an integer.
Make(v) ==
  LET fits(t) == -(DV^t) <= v /\ v < DV^t
      t == CHOOSE n \in 0..8 : fits(n) /\ \A k \in 0..n-1 : ~fits(k)
  IN  Number([i \in 0..t-1 |-> (v \div DV^i) % DV], t, IF v < 0 THEN -1 ELSE 0)

\* Digits continued by the sign.
At(x, i) == IF i < x.t THEN x.d[i] ELSE x.s % DV

\* Mutant: the sign is not masked, so the digits of a negative number stay.
ClampPositive(x) ==
  LET used == {i \in 0..x.t-1 : x.d[i] # x.s}
  IN  [x EXCEPT !.t = IF used = {} THEN 0 ELSE Max(used) + 1]

Clamp(x) ==
  LET used == {i \in 0..x.t-1 : x.d[i] # x.s % DV}
  IN  [x EXCEPT !.t = IF used = {} THEN 0 ELSE Max(used) + 1]

FromInt(x) ==
  IF x > 0 THEN Number(0 :> x, 1, 0)
  ELSE IF x < -1 THEN Number(0 :> x + DV, 1, -1)
  ELSE Number(<<>>, 0, IF x < 0 THEN -1 ELSE 0)

ZERO == FromInt(0)
ONE == FromInt(1)

IsEven(x) == (IF x.t > 0 THEN x.d[0] % 2 ELSE x.s) = 0
Signum(x) == IF x.s < 0 THEN -1 ELSE IF x.t <= 0 \/ (x.t = 1 /\ x.d[0] <= 0) THEN 0 ELSE 1
-----------------------------------------------------------------------------
(* Sums, shifts and comparisons                                            *)

\* n digits and a carry c out of them.
Carried(d, n, c) ==
  Clamp(IF c < -1 THEN Number(Put(d, n, DV + c), n + 1, -1)
        ELSE IF c > 0 THEN Number(Put(d, n, c), n + 1, 0)
        ELSE Number(d, n, IF c < 0 THEN -1 ELSE 0))

\* x + k * a for k = 1 or -1: the common digits, then the rest of the longer with
\* the sign of the shorter, then the sign of the longer.
Combine(x, a, k) ==
  LET m == Least(x.t, a.t)
      n == Most(x.t, a.t)
      short == IF a.t < x.t THEN k * a.s ELSE x.s
      long == IF a.t < x.t THEN x.s ELSE k * a.s
      raw(i) == (IF i < x.t THEN x.d[i] ELSE 0) + k * (IF i < a.t THEN a.d[i] ELSE 0)
                + (IF i = m THEN short ELSE 0)
      carry[i \in 0..n] == IF i = 0 THEN 0 ELSE (carry[i - 1] + raw(i - 1)) \div DV
  IN  Carried([i \in 0..n-1 |-> (carry[i] + raw(i)) % DV], n,
              carry[n] + long + (IF n = m THEN short ELSE 0))

AddTo(x, a) == Combine(x, a, 1)
SubTo(x, a) == Combine(x, a, -1)
Negate(x) == SubTo(ZERO, x)
Abs(x) == IF x.s < 0 THEN Negate(x) ELSE x

CompareTo(x, a) ==
  LET differ == {i \in 0..x.t-1 : x.d[i] # a.d[i]}
  IN  IF x.s # a.s THEN x.s - a.s
      ELSE IF x.t # a.t THEN (IF x.s < 0 THEN a.t - x.t ELSE x.t - a.t)
      ELSE IF differ = {} THEN 0
      ELSE x.d[Max(differ)] - a.d[Max(differ)]

DLShiftTo(x, n) ==
  Number([i \in 0..x.t+n-1 |-> IF i < n THEN 0 ELSE x.d[i - n]], x.t + n, x.s)

DRShiftTo(x, n) ==
  LET t == Most(x.t - n, 0) IN Number([i \in 0..t-1 |-> x.d[i + n]], t, x.s)

LShiftTo(x, n) ==
  LET bs == n % DB
      ds == n \div DB
      high(i) == IF i < 0 THEN 0 ELSE x.d[i] \div 2^(DB - bs)
      low(i) == (At(x, i) % 2^(DB - bs)) * 2^bs
  IN  Clamp(Number([i \in 0..x.t+ds |-> IF i < ds THEN 0 ELSE high(i - ds - 1) + low(i - ds)],
                   x.t + ds + 1, x.s))

RShiftTo(x, n) ==
  LET bs == n % DB
      ds == n \div DB
      next(i) == At(x, i + 1) % 2^bs
  IN  IF ds >= x.t THEN Number(<<>>, 0, x.s)
      ELSE Clamp(Number([i \in 0..x.t-ds-1 |-> x.d[i + ds] \div 2^bs + next(i + ds) * 2^(DB - bs)],
                        x.t - ds, x.s))

ShiftLeft(x, n) == IF n < 0 THEN RShiftTo(x, -n) ELSE LShiftTo(x, n)
ShiftRight(x, n) == IF n < 0 THEN LShiftTo(x, -n) ELSE RShiftTo(x, n)
-----------------------------------------------------------------------------
(* Bits                                                                    *)

\* Integers have as many bits as they need: op works on each.
Bitwise(op, p, q, bits) ==
  LET sum[n \in 0..bits] ==
        IF n = 0 THEN 0
        ELSE sum[n - 1] + op[(p \div 2^(n - 1)) % 2, (q \div 2^(n - 1)) % 2] * 2^(n - 1)
  IN  sum[bits]

op_and == [p, q \in 0..1 |-> p * q]
op_or == [p, q \in 0..1 |-> Most(p, q)]
op_xor == [p, q \in 0..1 |-> (p + q) % 2]
op_andnot == [p, q \in 0..1 |-> p * (1 - q)]

BitwiseTo(x, a, op) ==
  LET t == Most(x.t, a.t)
  IN  Clamp(Number([i \in 0..t-1 |-> Bitwise(op, At(x, i), At(a, i), DB)],
                   t, -op[-x.s, -a.s]))

Not(x) == Number([i \in 0..x.t-1 |-> DM - x.d[i]], x.t, -1 - x.s)
ChangeBit(x, n, op) == BitwiseTo(x, ShiftLeft(ONE, n), op)

TestBit(x, n) ==
  IF n \div DB >= x.t THEN x.s # 0 ELSE (x.d[n \div DB] \div 2^(n % DB)) % 2 = 1

BitLength(x) ==
  IF x.t <= 0 THEN 0
  ELSE DB * (x.t - 1) + nbits(Bitwise(op_xor, x.d[x.t - 1], x.s % DV, DB))

BitCount(x) ==
  LET sum[i \in 0..x.t] ==
        IF i = 0 THEN 0 ELSE sum[i - 1] + cbit(Bitwise(op_xor, x.d[i - 1], x.s % DV, DB))
  IN  sum[x.t]

GetLowestSetBit(x) ==
  LET used == {i \in 0..x.t-1 : x.d[i] # 0}
  IN  IF used # {} THEN Min(used) * DB + lbit(x.d[Min(used)])
      ELSE IF x.s < 0 THEN x.t * DB
      ELSE -1
-----------------------------------------------------------------------------
(* Multiplication                                                          *)

\* One turn of each loop: v * xi + w + c, as a digit and the next carry.  am2 and am3
\* multiply half digits, so that every intermediate value fits the integers the bit
\* operations work on: >>> takes them as unsigned and >> as signed.
Turn(v, xi, w, c) ==
  LET half == 2^(DB \div 2)
      m == (v \div half) * (xi % half) + (xi \div half) * (v % half)
      l == (v % half) * (xi % half) + (m % half) * half + w
      hh == (v \div half) * (xi \div half)
      Unsigned(n) == n % 2^(DB + 2)
  IN  CASE am = "am1" -> LET p == v * xi + w + c IN [d |-> p % DV, c |-> p \div DV]
        [] am = "am2" ->
             [d |-> (l + (c % DV)) % DV,
              c |-> Unsigned(l + (c % DV)) \div DV + Unsigned(m) \div half + hh
                    + Unsigned(c) \div DV]
        [] am = "am3" ->
             [d |-> (l + c) % DV,
              c |-> Signed(l + c, DB + 4) \div DV + Signed(m, DB + 4) \div half + hh]

\* w from its digit j, plus v times n digits of x from digit i.
RECURSIVE Am(_, _, _, _, _, _, _)
Am(x, i, v, w, j, c, n) ==
  IF n <= 0 THEN [w |-> w, c |-> c]
  ELSE With(Turn(v, x[i], w[j], c), LAMBDA p : Am(x, i + 1, v, Put(w, j, p.d), j + 1, p.c, n - 1))

\* The product of absolute values.
Product(x, y) ==
  LET rows[i \in 0..y.t] ==
        IF i = 0 THEN Zeros(x.t)
        ELSE With(Am(x.d, 0, y.d[i - 1], rows[i - 1], i - 1, 0, x.t),
                  LAMBDA p : Put(p.w, i - 1 + x.t, p.c))
  IN  Clamp(Number(rows[y.t], x.t + y.t, 0))

MultiplyTo(x, a) ==
  With(Product(Abs(x), Abs(a)), LAMBDA r : IF x.s # a.s THEN Negate(r) ELSE r)

\* A carry out of a row goes into the digit above, which no row has reached yet.
Top(w, at, v) == IF v >= DV THEN Put(Put(w, at, v - DV), at + 1, 1) ELSE Put(w, at, v)

\* The squares on the diagonal and twice the products above it.
Square(x) ==
  LET row(r, i) ==
        With(Am(x.d, i, x.d[i], r, 2 * i, 0, 1), LAMBDA sq :
          IF i = x.t - 1 THEN [sq.w EXCEPT ![2 * i + 1] = @ + sq.c]
          ELSE With(Am(x.d, i + 1, 2 * x.d[i], sq.w, 2 * i + 1, sq.c, x.t - i - 1),
                    LAMBDA twice : Top(twice.w, i + x.t, twice.w[i + x.t] + twice.c)))
      rows[i \in 0..x.t] == IF i = 0 THEN Zeros(2 * x.t) ELSE row(rows[i - 1], i - 1)
  IN  IF x.t = 0 THEN ZERO ELSE Clamp(Number(rows[x.t], 2 * x.t, 0))

SquareTo(x) == Square(Abs(x))

\* this += n << w digits, for this >= 0.
DAddOffset(x, n, w) ==
  LET t == Most(x.t, w + 1)
      from == [i \in 0..t-1 |-> IF i < x.t THEN x.d[i] ELSE 0]
      carry[i \in w..t] ==
        IF i = w THEN n ELSE IF from[i - 1] + carry[i - 1] >= DV THEN 1 ELSE 0
      added == [i \in 0..t-1 |-> IF i < w THEN from[i] ELSE (from[i] + carry[i]) % DV]
  IN  IF n = 0 THEN x
      ELSE IF carry[t] = 1 THEN Number(Put(added, t, 1), t + 1, x.s)
      ELSE Number(added, t, x.s)

DMultiply(x, n) ==
  With(Am(x.d, 0, n - 1, x.d, 0, 0, x.t), LAMBDA p :
    Clamp(Number(Put(p.w, x.t, p.c), x.t + 1, x.s)))

\* The lower n digits of a product, and a product without them (with an error of the
\* carry that is not computed), for factors that are not negative.
MultiplyLowerTo(x, a, n) ==
  LET t == Least(x.t + a.t, n)
      full == Most(t - x.t, 0)
      rows[i \in 0..Most(full, Least(a.t, n))] ==
        IF i = 0 THEN Zeros(t)
        ELSE IF i <= full
        THEN LET p == Am(x.d, 0, a.d[i - 1], rows[i - 1], i - 1, 0, x.t)
             IN  Put(p.w, i - 1 + x.t, p.c)
        ELSE Am(x.d, 0, a.d[i - 1], rows[i - 1], i - 1, 0, n - (i - 1)).w
  IN  Clamp(Number(rows[Most(full, Least(a.t, n))], t, 0))

MultiplyUpperTo(x, a, n) ==
  LET k == n - 1
      t == x.t + a.t - k
      from == Most(k - x.t, 0)
      rows[i \in from..Most(from, a.t)] ==
        IF i = from THEN Zeros(t)
        ELSE LET p == Am(x.d, k - (i - 1), a.d[i - 1], rows[i - 1], 0, 0, x.t + i - 1 - k)
             IN  Put(p.w, x.t + i - 1 - k, p.c)
  IN  DRShiftTo(Clamp(Number(rows[Most(from, a.t)], t, 0)), 1)
-----------------------------------------------------------------------------
(* Division                                                                *)

\* A difference that is written over its first operand, whose higher digits stay.
SubInPlace(r, t) == LET s == SubTo(r, t) IN [s EXCEPT !.d = s.d @@ r.d]

\* The estimate was too large by one, or two: digit i of r has borrowed.
RECURSIVE Correct(_, _, _, _)
Correct(r, t, i, qd) ==
  With(SubInPlace(r, t), LAMBDA s : IF s.d[i] < qd - 1 THEN Correct(s, t, i, qd - 1) ELSE s)

\* Quotient digits from digit i = j + ys of r downwards, each left in digit i of r.
\* neg is the negative of the divisor y in ys digits; y0 and yt are its highest
\* digit and its highest bits.  Floating point is exact here.
RECURSIVE Quotients(_, _, _, _, _, _)
Quotients(r, j, neg, ys, y0, yt) ==
  LET i == j + ys
      qd == IF r.d[i] = y0 THEN DM
            ELSE (r.d[i] * FV + (r.d[i - 1] + 2^F2) * 2^F1) \div yt
      tried(p) == [r EXCEPT !.d = Put(p.w, i, p.w[i] + p.c)]
      right(t) == IF t.d[i] < qd THEN Correct(t, DLShiftTo(neg, j), i, qd) ELSE t
  IN  IF j < 0 THEN r
      ELSE With(With(With(Am(neg.d, 0, qd, r.d, j, 0, ys), tried), right),
                LAMBDA n : Quotients(n, j - 1, neg, ys, y0, yt))

\* All quotient digits of r, each above the remainder, for a divisor y whose highest
\* bit is set.
LongDivision(r, y) ==
  LET y0 == y.d[y.t - 1]
      yt == y0 * 2^F1 + (IF y.t > 1 THEN y.d[y.t - 2] \div 2^F2 ELSE 0)
      First(top) == IF CompareTo(r, top) >= 0
                    THEN SubInPlace(Number(Put(r.d, r.t, 1), r.t + 1, r.s), top)
                    ELSE r
      Negative(short) == Number([i \in 0..y.t-1 |-> At(short, i)], y.t, short.s)
  IN  Quotients(First(DLShiftTo(y, r.t - y.t)), r.t - y.t - 1,
                With(SubTo(DLShiftTo(ONE, y.t), y), Negative), y.t, y0, yt)

Signs(x, m, q, r) ==
  [q |-> IF x.s # m.s THEN Negate(q) ELSE q, r |-> IF x.s < 0 THEN Negate(r) ELSE r]

\* pm and pt are the absolute values of m and x.
Divided(x, m, pt, pm) ==
  LET nsh == DB - nbits(pm.d[pm.t - 1])
  IN  IF pt.t < pm.t THEN [q |-> FromInt(0), r |-> x]
      ELSE With(LongDivision(IF nsh > 0 THEN LShiftTo(pt, nsh) ELSE pt, LShiftTo(pm, nsh)), LAMBDA n :
             Signs(x, m, DRShiftTo(n, pm.t), RShiftTo(Clamp([n EXCEPT !.t = pm.t]), nsh)))

DivRemTo(x, m) == Divided(x, m, Abs(x), Abs(m))

\* this mod a, never negative for a > 0.
Mod(x, a) ==
  With(DivRemTo(Abs(x), a).r, LAMBDA r :
    IF x.s < 0 /\ CompareTo(r, ZERO) > 0 THEN SubTo(a, r) ELSE r)

ModInt(x, n) ==
  LET d == DV % n
      sum[i \in 0..x.t] ==
        IF i = x.t THEN (IF x.s < 0 THEN n - 1 ELSE 0) ELSE (d * sum[i + 1] + x.d[i]) % n
  IN  IF n <= 0 THEN 0
      ELSE IF x.t > 0 /\ d = 0 THEN x.d[0] % n
      ELSE sum[0]

Odd(x) == RShiftTo(x, Most(GetLowestSetBit(x), 0))

\* The larger of two odd numbers is made smaller.
Reduced(x, y) ==
  IF CompareTo(x, y) < 0 THEN [x |-> x, y |-> RShiftTo(SubTo(y, x), 1)]
  ELSE [x |-> RShiftTo(SubTo(x, y), 1), y |-> y]

RECURSIVE GcdTurns(_, _)
GcdTurns(x, y) ==
  IF Signum(x) <= 0 THEN y
  ELSE With(Reduced(Odd(x), Odd(y)), LAMBDA p : GcdTurns(p.x, p.y))

\* Of x >= y: common factors of 2 are taken out first.
GcdOf(x, y) ==
  With(Least(GetLowestSetBit(x), GetLowestSetBit(y)), LAMBDA g :
    IF GetLowestSetBit(y) < 0 THEN x
    ELSE LShiftTo(GcdTurns(RShiftTo(x, g), RShiftTo(y, g)), g))

Gcd(x, a) ==
  With(<<Abs(x), Abs(a)>>, LAMBDA p :
    IF CompareTo(p[1], p[2]) < 0 THEN GcdOf(p[2], p[1]) ELSE GcdOf(p[1], p[2]))
-----------------------------------------------------------------------------
(* Conversions.  A string is a sequence of digits of its radix, Minus or   *)
(* another character that is no digit.                                     *)

Minus == -1
Other == -2

\* Bits first..first+n-1 of x.
BitsOf(x, first, n) ==
  LET sum[k \in 0..n] ==
        IF k = 0 THEN 0
        ELSE sum[k - 1] + ((At(x, (first + k - 1) \div DB) \div 2^((first + k - 1) % DB)) % 2)
                          * 2^(k - 1)
  IN  sum[n]

DropZeros(s) == LET first == {i \in DOMAIN s : s[i] # 0}
                IN  IF first = {} THEN <<0>> ELSE SubSeq(s, Min(first), Len(s))

ChunkSize(b) == CHOOSE c \in 1..DB : b^c <= DV /\ b^(c + 1) > DV

\* What is written of n >= 0 in radix b, in places places or as many as it needs.
RECURSIVE Written(_, _)
Written(n, b) == IF n < b THEN <<n>> ELSE Append(Written(n \div b, b), n % b)
Padded(n, b, places) == [i \in 1..places |-> (n \div b^(places - i)) % b]

\* value as integer; "assumes 16 < DB < 32"
IntValue(x) ==
  IF x.t = 0 THEN x.s
  ELSE IF x.t = 1 THEN (IF x.s < 0 THEN x.d[0] - DV ELSE x.d[0])
  ELSE Signed((x.d[1] % 2^(IntBits - DB)) * DV + x.d[0], IntBits)

ByteValue(x) == IF x.t = 0 THEN x.s ELSE Signed(x.d[0], ByteBits)

\* Chunks of as many digits of the radix as one digit of DB bits holds.
RECURSIVE Chunks(_, _, _)
Chunks(x, b, r) ==
  LET a == b^ChunkSize(b)
      p == DivRemTo(x, FromInt(a))
  IN  IF Signum(p.q) > 0 THEN Chunks(p.q, b, Padded(IntValue(p.r), b, ChunkSize(b)) \o r)
      ELSE Written(IntValue(p.r), b) \o r

RadixBits(b) == IF \E k \in 1..DB : 2^k = b THEN CHOOSE k \in 1..DB : 2^k = b ELSE 0

StringOf(x, b) ==
  LET abs == Abs(x)
      k == RadixBits(b)
      n == (abs.t * DB + k - 1) \div k
      digits == IF k = 0 THEN (IF Signum(abs) = 0 THEN <<0>> ELSE Chunks(abs, b, <<>>))
                ELSE DropZeros([i \in 1..n |-> BitsOf(abs, (n - i) * k, k)])
  IN  IF x.s < 0 THEN <<Minus>> \o digits ELSE digits

\* Big-endian bytes, as few as hold the sign.
ToByteArray(x) ==
  LET n == (x.t * DB) \div ByteBits + 1
      byte(i) == Signed(BitsOf(x, (n - i) * ByteBits, ByteBits), ByteBits)
      needed == {i \in 1..n : byte(i) # x.s}
      first == IF needed = {} THEN n
               ELSE LET i == Min(needed)
                    IN  IF (byte(i) < 0) # (x.s < 0) THEN i - 1 ELSE i
  IN  [i \in 1..n-first+1 |-> byte(i + first - 1)]

\* Digits of k bits from the last to the first; what does not fit a digit of DB
\* bits begins the next.  bytes tells that the first bit is the sign.
RECURSIVE Gather(_, _, _, _, _, _)
Gather(s, i, k, x, sh, mi) ==
  LET v == s[i]
      y == IF sh = 0 THEN Number(Put(x.d, x.t, v), x.t + 1, 0)
           ELSE IF sh + k > DB
           THEN Number(Put([x.d EXCEPT ![x.t - 1] = @ + (v % 2^(DB - sh)) * 2^sh],
                           x.t, v \div 2^(DB - sh)), x.t + 1, 0)
           ELSE [x EXCEPT !.d[x.t - 1] = @ + v * 2^sh]
      more == IF sh + k >= DB THEN sh + k - DB ELSE sh + k
  IN  IF i = 0 THEN [x |-> x, sh |-> sh, mi |-> mi]
      ELSE IF s[i] = Minus THEN Gather(s, i - 1, k, x, sh, TRUE)
      ELSE IF s[i] = Other THEN Gather(s, i - 1, k, x, sh, mi)
      ELSE Gather(s, i - 1, k, y, more, FALSE)

FromBytes(s) ==
  LET unsigned == [i \in DOMAIN s |-> s[i] % 2^ByteBits]
      g == Gather(unsigned, Len(s), ByteBits, ZERO, 0, FALSE)
      fill == IF g.sh > 0 THEN (2^(DB - g.sh) - 1) * 2^g.sh ELSE 0
  IN  IF unsigned[1] \div 2^(ByteBits - 1) = 0 THEN Clamp(g.x)
      ELSE Clamp([g.x EXCEPT !.s = -1, !.d[g.x.t - 1] = @ + fill])

\* j digits of the radix are gathered in w.
RECURSIVE FromRadix(_, _, _, _, _, _, _)
FromRadix(s, i, b, x, j, w, mi) ==
  LET store(y, n, v) == DAddOffset(DMultiply(y, b^n), v, 0)
      whole == IF j > 0 THEN store(x, j, w) ELSE x
  IN  IF i > Len(s) THEN (IF mi THEN Negate(whole) ELSE whole)
      ELSE IF s[i] < 0
      THEN FromRadix(s, i + 1, b, x, j, w, mi \/ (s[i] = Minus /\ Signum(x) = 0))
      ELSE IF j + 1 >= ChunkSize(b)
      THEN FromRadix(s, i + 1, b, store(x, j + 1, b * w + s[i]), 0, 0, mi)
      ELSE FromRadix(s, i + 1, b, x, j + 1, b * w + s[i], mi)

FromString(s, b) ==
  LET g == Gather(s, Len(s), RadixBits(b), ZERO, 0, FALSE)
  IN  IF RadixBits(b) = 0 THEN FromRadix(s, 1, b, ZERO, 0, 0, FALSE)
      ELSE IF g.mi THEN Negate(Clamp(g.x)) ELSE Clamp(g.x)
-----------------------------------------------------------------------------
(* Reducers: z = [kind, m, ..], as their constructors make them            *)

\* "-1/this % 2^DB": y is doubled in precision until it has a digit.  The step to 16
\* bits, of which digits here have no need, is left out.
InvDigit(x0) ==
  LET x == x0.d[0]
      y1 == x % 4
      y2 == (y1 * (2 - (x % 16) * y1)) % 16
      y3 == (y2 * (2 - (x % 256) * y2)) % 256
      y4 == y3 * (2 - ((x * y3) % DV))
      y5 == IF y4 < 0 THEN -((-y4) % DV) ELSE y4 % DV
  IN  IF x0.t < 1 \/ x % 2 = 0 THEN 0 ELSE IF y5 > 0 THEN DV - y5 ELSE -y5

NullExp == [kind |-> "NullExp"]
Classic(m) == [kind |-> "Classic", m |-> m]
Montgomery(m) ==
  LET mp == InvDigit(m)
  IN  [kind |-> "Montgomery", m |-> m, mpl |-> mp % 2^Split, mph |-> mp \div 2^Split,
       um |-> 2^(DB - Split)]
Barrett(m) ==
  [kind |-> "Barrett", m |-> m, mu |-> DivRemTo(DLShiftTo(ONE, 2 * m.t), m).q]

\* x = x/R mod m: u0 * m clears digit i of x, carries are propagated.
RECURSIVE Propagate(_, _)
Propagate(d, j) ==
  IF d[j] < DV THEN d ELSE Propagate([d EXCEPT ![j] = @ - DV, ![j + 1] = @ + 1], j + 1)

RECURSIVE MontgomeryTurns(_, _, _)
MontgomeryTurns(z, d, i) ==
  LET low == d[i] % 2^Split
      u0 == (low * z.mpl + ((low * z.mph + (d[i] \div 2^Split) * z.mpl) % z.um) * 2^Split) % DV
      p == Am(z.m.d, 0, u0, d, i, 0, z.m.t)
      next == Propagate([p.w EXCEPT ![i + z.m.t] = @ + p.c], i + z.m.t)
  IN  IF i = z.m.t THEN d ELSE With(next, LAMBDA n : MontgomeryTurns(z, n, i + 1))

MontgomeryReduce(z, x) ==
  LET t == Most(x.t, 2 * z.m.t + 1)
      padded == [i \in 0..t-1 |-> IF i < x.t THEN x.d[i] ELSE 0]
      r == DRShiftTo(Clamp(Number(MontgomeryTurns(z, padded, 0), t, x.s)), z.m.t)
  IN  IF CompareTo(r, z.m) >= 0 THEN SubTo(r, z.m) ELSE r

\* x = x mod m: the quotient is estimated with mu, the remainder is right but for a
\* few times m.
RECURSIVE AtLeast(_, _, _)
AtLeast(x, r2, n) == IF CompareTo(x, r2) < 0 THEN AtLeast(DAddOffset(x, 1, n), r2, n) ELSE x

RECURSIVE Below(_, _)
Below(x, m) == IF CompareTo(x, m) >= 0 THEN Below(SubTo(x, m), m) ELSE x

BarrettReduce(z, x) ==
  LET n == z.m.t + 1
      cut == IF x.t > n THEN Clamp([x EXCEPT !.t = n]) ELSE x
      q3 == MultiplyUpperTo(z.mu, DRShiftTo(x, z.m.t - 1), n)
      r2 == MultiplyLowerTo(z.m, q3, n)
  IN  Below(SubTo(AtLeast(cut, r2, n), r2), z.m)

Reduce(z, x) ==
  CASE z.kind = "NullExp" -> x
    [] z.kind = "Classic" -> DivRemTo(x, z.m).r
    [] z.kind = "Montgomery" -> MontgomeryReduce(z, x)
    [] z.kind = "Barrett" -> BarrettReduce(z, x)

Convert(z, x) ==
  CASE z.kind = "NullExp" -> x
    [] z.kind = "Classic" ->
         IF x.s < 0 \/ CompareTo(x, z.m) >= 0 THEN Mod(x, z.m) ELSE x
    [] z.kind = "Montgomery" ->
         LET r == DivRemTo(DLShiftTo(Abs(x), z.m.t), z.m).r
         IN  IF x.s < 0 /\ CompareTo(r, ZERO) > 0 THEN SubTo(z.m, r) ELSE r
    [] z.kind = "Barrett" ->
         IF x.s < 0 \/ x.t > 2 * z.m.t THEN Mod(x, z.m)
         ELSE IF CompareTo(x, z.m) < 0 THEN x
         ELSE Reduce(z, x)

Revert(z, x) == IF z.kind = "Montgomery" THEN Reduce(z, x) ELSE x
MulTo(z, x, y) == Reduce(z, MultiplyTo(x, y))
SqrTo(z, x) == Reduce(z, SquareTo(x))
-----------------------------------------------------------------------------
(* Powers                                                                  *)

\* this^e for an integer e, its bits from the second highest.
RECURSIVE Squares(_, _, _, _, _)
Squares(r, e, i, g, z) ==
  LET sq == SqrTo(z, r)
      next == IF (e \div 2^i) % 2 = 1 THEN MulTo(z, sq, g) ELSE sq
  IN  IF i < 0 THEN r ELSE With(next, LAMBDA n : Squares(n, e, i - 1, g, z))

Exp(x, e, z) ==
  LET g == Convert(z, x)
  IN  IF e >= 2^IntBits \/ e < 1 THEN ONE ELSE Revert(z, Squares(g, e, nbits(e) - 2, g, z))

Pow(x, e) == Exp(x, e, NullExp)
ModPowInt(x, e, m) == Exp(x, e, IF e < SmallExp \/ IsEven(m) THEN Classic(m) ELSE Montgomery(m))

\* this^e % m: a window of up to k bits that ends in a 1, its odd power from g, then a
\* square for each 0 up to the next.  at is the bit the next window begins with.
RECURSIVE Windows(_, _, _, _, _, _, _)
Windows(e, at, k, g, r, is1, z) ==
  LET width == Least(k, at + 1)
      w0 == BitsOf(e, at + 1 - width, width)
      n == width - lbit(w0)
      w == w0 \div 2^lbit(w0)
      squared[i \in 0..n] == IF i = 0 THEN r ELSE SqrTo(z, squared[i - 1])
      next == IF is1 THEN g[w] ELSE MulTo(z, squared[n], g[w])
  IN  IF at < 0 THEN r
      ELSE IF BitsOf(e, at, 1) = 0
      THEN With(SqrTo(z, r), LAMBDA v : Windows(e, at - 1, k, g, v, is1, z))
      ELSE With(next, LAMBDA v : Windows(e, at - n, k, g, v, FALSE, z))

ModPow(x, e, m) ==
  LET i == BitLength(e)
      k == IF i < OneWindow THEN 1 ELSE 3
      z == IF i < FewBits THEN Classic(m) ELSE IF IsEven(m) THEN Barrett(m) ELSE Montgomery(m)
      g1 == Convert(z, x)
      odd[n \in 1..2^k-1] ==
        IF n = 1 THEN g1 ELSE IF n = 2 THEN SqrTo(z, g1) ELSE MulTo(z, odd[2], odd[n - 2])
  IN  IF i <= 0 THEN ONE ELSE Revert(z, Windows(e, i - 1, k, odd, ONE, TRUE, z))

\* 1/this % m: u and v are halved while they are even and the larger loses the
\* smaller; [a, b] and [c, d] follow, multiples of which by this and m they are.
Halved(u, a, b, x, m) ==
  LET ac == IsEven(m)
      odd == IF ac THEN ~IsEven(a) \/ ~IsEven(b) ELSE ~IsEven(b)
      a1 == IF ac /\ odd THEN AddTo(a, x) ELSE a
      b1 == IF odd THEN SubTo(b, m) ELSE b
  IN  <<RShiftTo(u, 1), IF ac THEN RShiftTo(a1, 1) ELSE a1, RShiftTo(b1, 1)>>

RECURSIVE InverseTurns(_, _, _, _)
InverseTurns(p, q, x, m) ==
  LET Sub(l, r) == <<SubTo(l[1], r[1]), IF IsEven(m) THEN SubTo(l[2], r[2]) ELSE l[2],
                     SubTo(l[3], r[3])>>
  IN  IF Signum(p[1]) = 0 THEN q
      ELSE IF IsEven(p[1])
      THEN With(Halved(p[1], p[2], p[3], x, m), LAMBDA v : InverseTurns(v, q, x, m))
      ELSE IF IsEven(q[1])
      THEN With(Halved(q[1], q[2], q[3], x, m), LAMBDA v : InverseTurns(p, v, x, m))
      ELSE IF CompareTo(p[1], q[1]) >= 0
      THEN With(Sub(p, q), LAMBDA v : InverseTurns(v, q, x, m))
      ELSE With(Sub(q, p), LAMBDA v : InverseTurns(p, v, x, m))

\* d, between 0 and m.
Brought(d, m) ==
  IF CompareTo(d, m) >= 0 THEN SubTo(d, m)
  ELSE IF Signum(d) >= 0 THEN d
  ELSE With(AddTo(d, m), LAMBDA d1 : IF Signum(d1) < 0 THEN AddTo(d1, m) ELSE d1)

ModInverse(x, m) ==
  IF (IsEven(x) /\ IsEven(m)) \/ Signum(m) = 0 THEN ZERO
  ELSE With(InverseTurns(<<m, ONE, ZERO>>, <<x, ZERO, ONE>>, x, m), LAMBDA end :
         IF CompareTo(end[1], ONE) # 0 THEN ZERO ELSE Brought(end[3], m))
-----------------------------------------------------------------------------
(* Primes                                                                  *)

\* One round of Miller and Rabin with base a: up to k - 1 squares of a^r.
RECURSIVE ReachesMinusOne(_, _, _, _)
ReachesMinusOne(y, j, k, x) ==
  LET n1 == SubTo(x, ONE)
      sq == ModPowInt(y, 2, x)
  IN  \/ CompareTo(y, n1) = 0
      \/ j < k /\ CompareTo(sq, ONE) # 0 /\ ReachesMinusOne(sq, j + 1, k, x)

MillerRabin(x, a) ==
  LET n1 == SubTo(x, ONE)
      k == GetLowestSetBit(n1)
      y == ModPow(FromInt(a), ShiftRight(n1, k), x)
  IN  k > 0 /\ (CompareTo(y, ONE) = 0 \/ ReachesMinusOne(y, 1, k, x))

\* Small primes are multiplied while the product is below lplim; one division by the
\* product tells whether one of them divides.
RECURSIVE DividesOne(_, _)
DividesOne(x, i) ==
  LET product[j \in i..Len(lowprimes)] ==
        IF j = i THEN lowprimes[i] ELSE product[j - 1] * lowprimes[j]
      stop == CHOOSE j \in i..Len(lowprimes) :
                /\ j = Len(lowprimes) \/ product[j] >= lplim
                /\ \A h \in i..j-1 : product[h] < lplim
      m == ModInt(x, product[stop])
  IN  i <= Len(lowprimes)
      /\ ((\E h \in i..stop : m % lowprimes[h] = 0) \/ DividesOne(x, stop + 1))

\* One round, with the base that was drawn.
IsProbablePrime(x0, a) ==
  LET x == Abs(x0)
  IN  IF x.t = 1 /\ x.d[0] <= Last(lowprimes) THEN x.d[0] \in ToSet(lowprimes)
      ELSE ~IsEven(x) /\ ~DividesOne(x, 2) /\ MillerRabin(x, a)

\* The candidates of fromNumber(a, certainty, rng): random bits with the highest and
\* the lowest set; then the next odd number of as many bits.
FirstCandidate(bits, a) ==
  LET High(drawn) == IF TestBit(drawn, a - 1) THEN drawn
                     ELSE BitwiseTo(drawn, ShiftLeft(ONE, a - 1), op_or)
  IN  With(With(FromBytes(bits), High), LAMBDA x : IF IsEven(x) THEN DAddOffset(x, 1, 0) ELSE x)

NextCandidate(x, a) ==
  With(DAddOffset(x, 2, 0), LAMBDA y :
    IF BitLength(y) > a THEN SubTo(y, ShiftLeft(ONE, a - 1)) ELSE y)
=============================================================================
