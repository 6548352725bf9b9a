--------------------------- MODULE BigIntegerCalls ---------------------------
(***************************************************************************)
(* Calls on a BigInteger, of which integer arithmetic tells what they      *)
(* should give.                                                            *)
(***************************************************************************)
EXTENDS BigInteger

CONSTANTS
  Values, Operands, Moduli, Exponents, Shifts, Radixes,
  PrimeBits,  \* lengths of the primes asked for
  Passes      \* an odd number :> the bases with which it passes as a prime

VARIABLES
  value,  \* the integer that the number called stands for
  asked   \* the call that is made of it, with its arguments

calcVars == <<am, value, asked>>

Places == 0..22

Sign(n) == IF n < 0 THEN -1 ELSE IF n > 0 THEN 1 ELSE 0
Size(n) == IF n < 0 THEN -n ELSE n
Truncated(n, m) == Sign(n) * Sign(m) * (Size(n) \div Size(m))

\* Bit i of an integer in two's complement, and the integer that has given bits.
Bit(v, i) == (v \div 2^i) % 2
BitByBit(op, v, a) ==
  LET sum[n \in 0..16] ==
        IF n = 0 THEN 0 ELSE sum[n - 1] + op[Bit(v, n - 1), Bit(a, n - 1)] * 2^(n - 1)
  IN  Signed(sum[16], 16)

RECURSIVE Euclid(_, _)
Euclid(n, m) == IF m = 0 THEN n ELSE Euclid(m, n % m)

\* v^e % m without large numbers.
PowerMod(v, e, m) ==
  LET p[n \in 0..e] == IF n = 0 THEN 1 % m ELSE (p[n - 1] * (v % m)) % m IN p[e]

Prime(n) == n > 1 /\ \A k \in 2..n-1 : k * k > n \/ n % k # 0
-----------------------------------------------------------------------------
Init == am \in DOMAIN Bits /\ value \in Values /\ asked = [call |-> "nothing"]

Ask(call) ==
  /\ asked.call = "nothing" /\ asked' = call
  /\ UNCHANGED <<am, value>>

Next ==
  \/ Ask([call |-> "query"]) \/ Ask([call |-> "transform"]) \/ Ask([call |-> "convert"])
  \/ \E a \in Operands : Ask([call |-> "calculate", a |-> a])
  \/ \E n \in Shifts : Ask([call |-> "bits", n |-> n])
  \/ \E m \in Moduli : Ask([call |-> "modular", m |-> m])
  \/ value = 0 /\ \E a \in PrimeBits : Ask([call |-> "random", a |-> a])
  \/ value \in DOMAIN Passes /\ Ask([call |-> "prime"])
-----------------------------------------------------------------------------
(* What a call gives, a number x of digits, is the integer v: with the     *)
(* digits that are in use in range, and the fewest that represent it.      *)
Is(x, v) == [x EXCEPT !.d = [i \in 0..x.t-1 |-> x.d[i]]] = Make(v)

\* add, subtract, multiply, gcd, min, max and the operations on bits.
Calculate(x, v, a) ==
  LET A == Make(a) IN
  /\ Is(AddTo(x, A), v + a) /\ Is(SubTo(x, A), v - a) /\ Is(MultiplyTo(x, A), v * a)
  /\ Is(Gcd(x, A), Euclid(Size(v), Size(a)))
  /\ Sign(CompareTo(x, A)) = Sign(v - a)
  /\ \A op \in {op_and, op_or, op_xor, op_andnot} : Is(BitwiseTo(x, A, op), BitByBit(op, v, a))

\* divide, remainder and mod.
Divide(x, v, a) ==
  LET A == Make(a)
      both == DivRemTo(x, A)
  IN  a # 0 =>
        /\ Is(both.q, Truncated(v, a)) /\ Is(both.r, v - a * Truncated(v, a))
        /\ a > 0 => Is(Mod(x, A), v % a)

\* negate, abs, square, not and pow.
Transform(x, v) ==
  /\ Is(Negate(x), -v) /\ Is(Abs(x), Size(v)) /\ Is(SquareTo(x), v * v) /\ Is(Not(x), -1 - v)
  /\ Size(v) <= 40 => \A e \in 0..3 : Is(Pow(x, e), IF e = 0 THEN 1 ELSE v^e)

\* setBit, clearBit, flipBit and the shifts.
Bits1(x, v, n) ==
  /\ n >= 0 => \A op \in {op_or, op_andnot, op_xor} : Is(ChangeBit(x, n, op), BitByBit(op, v, 2^n))
  /\ Is(ShiftLeft(x, n), IF n < 0 THEN v \div 2^(-n) ELSE v * 2^n)
  /\ Is(ShiftRight(x, n), IF n < 0 THEN v * 2^(-n) ELSE v \div 2^n)

\* A number is written and read again, in a radix and as bytes.
Convert1(x, v) ==
  /\ Is(FromBytes(ToByteArray(x)), v)
  /\ \A b \in Radixes :
       LET s == StringOf(x, b)
       IN  /\ (IF s[1] = Minus THEN Tail(s) ELSE s) = Written(Size(v), b)
           /\ Is(FromString(s, b), v)

\* modPow, modPowInt and modInverse; 1/0 for an odd modulus never returns.
Modular(x, v, m) ==
  LET M == Make(m)
      inverse == {i \in 0..m-1 : (i * (v % m)) % m = 1}
  IN  /\ \A e \in Exponents :
           /\ Is(ModPow(x, Make(e), M), PowerMod(v, e, m))
           /\ e < 2^IntBits => Is(ModPowInt(x, e, M), PowerMod(v, e, m))
      /\ v > 0 => Is(ModInverse(x, M), IF inverse = {} THEN 0 ELSE CHOOSE i \in inverse : TRUE)

\* Comparisons, the bits, the length, the integer in it, remainders.
Query(x, v) ==
  /\ Signum(x) = Sign(v) /\ IsEven(x) = (v % 2 = 0)
  /\ \A i \in Places : TestBit(x, i) = (Bit(v, i) = 1)
  /\ BitLength(x) = CHOOSE n \in Places : -(2^n) <= v /\ v < 2^n
                      /\ \A k \in 0..n-1 : ~(-(2^k) <= v /\ v < 2^k)
  /\ BitCount(x) = Cardinality({i \in Places : Bit(v, i) # (IF v < 0 THEN 1 ELSE 0)})
  /\ v # 0 => GetLowestSetBit(x) = Min({i \in Places : Bit(v, i) = 1})
  /\ IntValue(x) = Signed(v, IntBits) /\ ByteValue(x) = Signed(v, ByteBits)
  /\ \A n \in 1..5 : ModInt(x, n) = v % n

\* fromNumber begins with an odd number of the length asked for, whatever is drawn, and
\* goes on to the next, around at the end.
FromNumber(a) ==
  \A bytes \in [1..a \div ByteBits + 1 -> 0..2^ByteBits-1] :
    LET x == FirstCandidate([bytes EXCEPT ![1] = @ % 2^(a % ByteBits)], a)
        next == NextCandidate(x, a)
        v == Value(x)
    IN  /\ Is(x, v) /\ v % 2 = 1 /\ BitLength(x) = a
        /\ Is(next, IF v + 2 < 2^a THEN v + 2 ELSE 2^(a - 1) + 1)

\* No prime fails; what passes has no small factor, and is a prime if it is small.
IsPrime(x, v) ==
  \A a \in ToSet(lowprimes) :
    /\ IsProbablePrime(x, a) = (a \in Passes[v])
    /\ Prime(v) => IsProbablePrime(x, a)
    /\ IsProbablePrime(x, a) =>
         /\ \A p \in ToSet(lowprimes) : v = p \/ v % p # 0
         /\ v < Last(lowprimes) * Last(lowprimes) => Prime(v)
-----------------------------------------------------------------------------
\* Every operation gives the number that integer arithmetic gives, and what is asked of
\* a number agrees with its value: a carry, borrow or quotient digit that is wrong by
\* one, or a digit left over, would show here.
NumbersRight(v, ask) ==
  LET x == Make(v) IN
  CASE ask.call = "nothing" -> TRUE
    [] ask.call = "query" -> Query(x, v)
    [] ask.call = "transform" -> Transform(x, v)
    [] ask.call = "convert" -> Convert1(x, v)
    [] ask.call = "calculate" -> Calculate(x, v, ask.a) /\ Divide(x, v, ask.a)
    [] ask.call = "bits" -> Bits1(x, v, ask.n)
    [] ask.call = "modular" -> Modular(x, v, ask.m)
    [] ask.call = "random" -> FromNumber(ask.a)
    [] ask.call = "prime" -> IsPrime(x, v)
=============================================================================
