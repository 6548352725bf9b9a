------------------------------ MODULE JsEncrypt ------------------------------
(***************************************************************************)
(* The RSA keys of webapp/static/jsencrypt.js.  A JSEncrypt object has one *)
(* key, which its first caller makes it generate: at once, or, if the      *)
(* caller gives a callback, in many tasks of the browser, each of which    *)
(* leaves a timer for the next.  The key object is in place from the first *)
(* task on, its fields are set as they are found, and other calls come     *)
(* between.  Padding is Pkcs1's: a message here is the padded number.      *)
(***************************************************************************)
EXTENDS BigInteger

CONSTANTS
  Null, Own,
  B, E,       \* bits of the modulus and public exponent
  Given,      \* what setKey may parse: keys, some without their private part, or nothing
  Passes,     \* an odd number :> the bases with which it passes as a prime
  Lucky,      \* for p and q: a number that comes right before a prime that passes
  Messages    \* padded; Null is one that is too long

VARIABLES
  key,        \* Null, Own (what getKey made) or the key that was given
  own,        \* the key object that getKey made
  timer,      \* the task that generateAsync will go on with
  x, y, g,    \* gcda's locals
  told,       \* calls of the callback
  sent        \* the last answer of encrypt or sign: the key it came from, the number that went in

keyVars == <<key, own, timer, x, y, g, told, sent>>

NoTimer == <<"none", "none">>
Then(step) == <<step, "none">>
ee == FromInt(E)
qs == B \div 2
bitsOf == [p |-> B - qs, q |-> qs]

Empty == [n |-> Null, e |-> 0, d |-> Null, p |-> Null, q |-> Null,
          dmp1 |-> Null, dmq1 |-> Null, coeff |-> Null]

\* Random bytes, the first of which is masked.
Candidates(a) ==
  {FirstCandidate(b, a) :
     b \in {c \in [1..a \div ByteBits + 1 -> 0..2^ByteBits-1] : c[1] < 2^(a % ByteBits)}}

\* isProbablePrime draws a base for each round; what it may answer.
Outcomes(n) ==
  LET bases == Passes[Value(n)]
  IN  {b \in BOOLEAN : IF b THEN bases # {} ELSE bases # ToSet(lowprimes)}

\* What both ways of generating do with two primes: TRUE if a key results.
Coprime(p, q) == CompareTo(Gcd(MultiplyTo(SubTo(p, ONE), SubTo(q, ONE)), ee), ONE) = 0
Ordered(p, q) == IF CompareTo(p, q) <= 0 THEN <<q, p>> ELSE <<p, q>>
Fields(p, q, p1, q1, d) ==
  [n |-> MultiplyTo(p, q), e |-> E, d |-> d, p |-> p, q |-> q,
   dmp1 |-> Mod(d, p1), dmq1 |-> Mod(d, q1), coeff |-> ModInverse(q, p)]
Complete(p, q) ==
  With(<<SubTo(p, ONE), SubTo(q, ONE)>>, LAMBDA r :
    Fields(p, q, r[1], r[2], ModInverse(ee, MultiplyTo(r[1], r[2]))))

\* generate: the loops end with any two primes that pass.
Passing(a) ==
  {c \in Candidates(a) : CompareTo(Gcd(SubTo(c, ONE), ee), ONE) = 0 /\ TRUE \in Outcomes(c)}
Generated ==
  With([f \in {"p", "q"} |-> Passing(bitsOf[f])], LAMBDA found :
    {With(Ordered(pq[1], pq[2]), LAMBDA r : Complete(r[1], r[2])) :
       pq \in {c \in found.p \X found.q : Coprime(c[1], c[2])}})
-----------------------------------------------------------------------------
(* RSAKey                                                                  *)

doPublic(k, m) == ModPowInt(m, k.e, k.n)

RECURSIVE NotBelow(_, _, _)
NotBelow(xp, xq, p) == IF CompareTo(xp, xq) < 0 THEN NotBelow(AddTo(xp, p), xq, p) ELSE xp

doPrivate(k, m) ==
  LET xp == ModPow(Mod(m, k.p), k.dmp1, k.p)
      xq == ModPow(Mod(m, k.q), k.dmq1, k.q)
      h == Mod(MultiplyTo(SubTo(NotBelow(xp, xq, k.p), xq), k.coeff), k.p)
  IN  IF k.p = Null \/ k.q = Null THEN ModPow(m, k.d, k.n)
      ELSE AddTo(MultiplyTo(h, k.q), xq)
-----------------------------------------------------------------------------
(* JSEncrypt                                                               *)

Init ==
  /\ key = Null /\ own = Empty /\ timer = NoTimer /\ told = 0 /\ sent = Null
  /\ x = ZERO /\ y = ZERO /\ g = 0

Current == IF key = Own THEN own ELSE key

\* getKey without a callback: the key there is, or a new one.
Keys == IF key = Null THEN Generated ELSE {Current}
Got(k) == IF key = Null THEN key' = Own /\ own' = k ELSE UNCHANGED <<key, own>>

\* getKey(cb): a key that is there is returned, and cb is not called.
getKey ==
  /\ key = Null
  /\ key' = Own /\ own' = [Empty EXCEPT !.e = E] /\ timer' = Then("loop1")
  /\ UNCHANGED <<x, y, g, told, sent>>

setKey(k) ==
  /\ key' = k
  /\ UNCHANGED <<own, timer, x, y, g, told, sent>>

\* The fields that an answer takes, one of which is null before the key is whole.
Needed(k, way) ==
  IF way = "encrypt" THEN {k.n}
  ELSE IF k.p = Null \/ k.q = Null THEN {k.d, k.n} ELSE {k.dmp1, k.dmq1, k.coeff}

Answered(k, m, way) ==
  sent' = IF m = Null \/ Null \in Needed(k, way) THEN sent ELSE [k |-> k, way |-> way, m |-> m]

\* encrypt(m), sign(m), or, with a message that is not answered, decrypt, verify and the
\* getters of a text of the key.
Call(way, m) ==
  /\ \E k \in Keys : Got(k) /\ Answered(k, m, way)
  /\ UNCHANGED <<timer, x, y, g, told>>

\* The answer a; what decrypt and verify make of it with a key.
Answer(a) == IF a.way = "encrypt" THEN doPublic(a.k, a.m) ELSE doPrivate(a.k, a.m)
Opened(k, a, c) == IF a.way = "encrypt" THEN doPrivate(k, c) ELSE doPublic(k, c)
-----------------------------------------------------------------------------
(* generateAsync: a task begins when its timer is due                      *)

loop(f) == <<"loop", f>>  \* loop2 and loop3

loop1 == timer = Then("loop1") /\ timer' = loop("p") /\ UNCHANGED <<key, own, x, y, g, told, sent>>

\* loop2 and loop3, with fromNumberAsync up to its first timer.
Draw(f, c) ==
  /\ timer = loop(f)
  /\ own' = [own EXCEPT ![f] = c] /\ timer' = <<"search", f>>
  /\ UNCHANGED <<key, x, y, g, told, sent>>

\* The first number drawn is not tried: each turn takes the next.
Search(f) ==
  LET c == NextCandidate(own[f], bitsOf[f]) IN
  /\ timer = <<"search", f>>
  /\ own' = [own EXCEPT ![f] = c]
  /\ \E passes \in Outcomes(c) : timer' = IF passes THEN <<"found", f>> ELSE timer
  /\ UNCHANGED <<key, x, y, g, told, sent>>

\* gcda(ee) of p - 1, up to its timer.
Found(f) ==
  LET p == With(SubTo(own[f], ONE), LAMBDA f1 :
             IF CompareTo(f1, ee) < 0 THEN [x |-> ee, y |-> f1] ELSE [x |-> f1, y |-> ee])
  IN  /\ timer = <<"found", f>>
      /\ g' = With(p, LAMBDA r : Least(GetLowestSetBit(r.x), GetLowestSetBit(r.y)))
      /\ x' = RShiftTo(p.x, g') /\ y' = RShiftTo(p.y, g')
      /\ timer' = <<"gcd", f>>
      /\ UNCHANGED <<key, own, told, sent>>

\* gcda1.
GcdTurn(f) ==
  /\ timer = <<"gcd", f>>
  /\ \E p \in {Reduced(Odd(x), Odd(y))} :
       LET done == Signum(p.x) <= 0
       IN  /\ x' = p.x /\ y' = IF done THEN LShiftTo(p.y, g) ELSE p.y
           /\ timer' = IF done THEN <<"divisor", f>> ELSE timer
  /\ UNCHANGED <<key, own, g, told, sent>>

\* Mutant: whatever was found, after q another q is looked for.
DivisorAgain(f) ==
  /\ timer = <<"divisor", f>>
  /\ \E passes \in Outcomes(own[f]) :
       timer' = IF CompareTo(y, ONE) = 0 /\ passes /\ f = "p" THEN loop("q") ELSE loop(f)
  /\ UNCHANGED <<key, own, x, y, g, told, sent>>

Divisor(f) ==
  /\ timer = <<"divisor", f>>
  /\ \E passes \in Outcomes(own[f]) :
       timer' = IF CompareTo(y, ONE) = 0 /\ passes
                THEN (IF f = "p" THEN loop("q") ELSE Then("loop4")) ELSE loop(f)
  /\ UNCHANGED <<key, own, x, y, g, told, sent>>

\* Mutant: the modulus is set and the private fields are not.
loop4Early ==
  LET pq == Ordered(own.p, own.q) IN
  /\ timer = Then("loop4")
  /\ own' = [own EXCEPT !.p = pq[1], !.q = pq[2], !.n = MultiplyTo(pq[1], pq[2])]
  /\ timer' = Then("callback")
  /\ UNCHANGED <<key, x, y, g, told, sent>>

loop4 ==
  /\ timer = Then("loop4")
  /\ \E pq \in {Ordered(own.p, own.q)} :
       IF Coprime(pq[1], pq[2])
       THEN own' = Complete(pq[1], pq[2]) /\ timer' = Then("callback")
       ELSE own' = [own EXCEPT !.p = pq[1], !.q = pq[2]] /\ timer' = Then("loop1")
  /\ UNCHANGED <<key, x, y, g, told, sent>>

Callback ==
  /\ timer = Then("callback") /\ timer' = NoTimer /\ told' = told + 1
  /\ UNCHANGED <<key, own, x, y, g, sent>>

Task ==
  \/ loop1 \/ loop4 \/ Callback
  \/ \E f \in {"p", "q"} :
       \/ \E c \in Candidates(bitsOf[f]) : Draw(f, c)
       \/ Search(f) \/ Found(f) \/ GcdTurn(f) \/ Divisor(f)

Next ==
  \/ getKey \/ Task
  \/ \E k \in Given : setKey(k)
  \/ \E way \in {"encrypt", "sign"}, m \in Messages : Call(way, m)

\* The browser runs the timers that are due, WF_keyVars(Task), and the numbers are
\* random, SF_keyVars of drawing one that comes right before a prime that passes; with
\* what enables the two and what every task leaves alone written out, which TLC is
\* slow to find out by itself.
KeyFairness ==
  /\ []<>(timer = NoTimer) \/ []<><<keyVars' # keyVars /\ UNCHANGED <<key, sent>> /\ Task>>_keyVars
  /\ \A f \in {"p", "q"} :
       \/ <>[](timer # loop(f))
       \/ []<><<timer = loop(f) /\ own' # own /\ Value(own'[f]) = Lucky[f]>>_keyVars

Spec == Init /\ [][Next]_keyVars /\ KeyFairness
-----------------------------------------------------------------------------
(* What holds of the key object k, the next task t, gcda's locals u, v and *)
(* shift, the last answer a and the number n of calls of the callback.     *)

\* A key with a modulus is whole: its other fields belong to it, and no task that is
\* still to come will change them.
WholeKey(k, t) ==
  k.n # Null =>
    /\ \A f \in DOMAIN k : k[f] # Null
    /\ LET p == Value(k.p)
           q == Value(k.q)
           phi == (p - 1) * (q - 1)
       IN  /\ p >= q /\ Value(k.n) = p * q /\ (E * Value(k.d)) % phi = 1
           /\ Value(k.dmp1) = Value(k.d) % (p - 1)
           /\ Value(k.dmq1) = Value(k.d) % (q - 1)
           /\ p # q => (q * Value(k.coeff)) % p = 1
    /\ t \in {NoTimer, Then("callback")}

\* Whatever key is set and whichever tasks run between two calls, an answer comes from
\* a whole key: it is the message's power, or the number whose power the message is, and
\* the key that gave it, if it has its private part, gets the message back.  Two keys
\* are left out: one that was cut off in its exponent has a modulus and exponent 0, and
\* answers 1; and nothing keeps a generated key from having the same prime twice, which
\* is of no account with primes of a real size.
Power(b, e, n) == FoldLeft(LAMBDA r, i : (r * b) % n, 1, [i \in 1..e |-> i])
AnswersOpen(k, a) ==
  a # Null /\ a.k.e # 0 /\ (a.k.p = Null \/ Value(a.k.p) # Value(a.k.q)) =>
    With(Answer(a), LAMBDA c :
      /\ LET m == Value(a.m)
             n == Value(a.k.n)
         IN  IF a.way = "encrypt" THEN Value(c) = Power(m, a.k.e, n)
             ELSE Value(c) \in 0..n-1 /\ Power(Value(c), a.k.e, n) = m
      /\ (k.n = a.k.n /\ k.n # Null) => Value(Opened(k, a, c)) = Value(a.m)
      /\ \A other \in Given :
           LET way == IF a.way = "encrypt" THEN "sign" ELSE "encrypt"
           IN  other.n = a.k.n /\ other.e # 0 /\ Null \notin Needed(other, way) =>
                 Value(Opened(other, a, c)) = Value(a.m))

\* The divisor found in many tasks is the one that gcd finds.
SameDivisor(k, t, u, v, shift) ==
  \A f \in {"p", "q"} :
    /\ t = <<"divisor", f>> => v = Gcd(SubTo(k[f], ONE), ee)
    /\ t = <<"gcd", f>> => LShiftTo(Gcd(u, v), shift) = Gcd(SubTo(k[f], ONE), ee)

\* The callback is called once, when the key is there.
ToldOfWholeKey(k, t, n) == n <= 1 /\ (n = 1 \/ t = Then("callback") => k.n # Null)

\* Who asked for a key with a callback hears of it, whatever is called meanwhile.
CallbackComes == (timer # NoTimer) ~> (told = 1)
=============================================================================
