---------------------------- MODULE MCJsLibrary -----------------------------
(***************************************************************************)
(* The scripts the pages load, jsencrypt.js and CryptoJS, with aescbc.js,  *)
(* in one run: the initial state chooses a part, the others stay as they   *)
(* are.  The numbers of jsencrypt.js have small digits here, the words of  *)
(* CryptoJS 32 bits; the digests, keys and ciphertexts that the parts are  *)
(* compared with come from OpenSSL and from Python's hashlib.              *)
(***************************************************************************)
EXTENDS BigInteger, TLC

CONSTANTS Nothing, Own, Value1, Value2, rng_psize, MaxMoves, Drop, outputLength

VARIABLES
  part,
  value, call,
  rsaKey, ownKey, rsaTimer, gcdX, gcdY, gcdG, cbTold, lastSent,
  asked,
  leaf, seq, untold, below,
  rng_pool, rng_pptr, rng_state, count, listening, bytesGiven,
  algorithm, macKeySize, hashed, finalized, derived,
  use, at, keyWords, sealedWith, openedWith, ends, noise, format, cuts,
  wordArray, wanted, calls

calcVars == <<value, call>>
rsaVars == <<rsaKey, ownKey, rsaTimer, gcdX, gcdY, gcdG, cbTold, lastSent>>
cacheVars == <<leaf, seq, untold, below>>
poolVars == <<rng_pool, rng_pptr, rng_state, count, listening, bytesGiven>>
digestVars == <<algorithm, macKeySize, hashed, finalized, derived>>
cipherVars == <<use, at, keyWords, sealedWith, openedWith, ends, noise, format, cuts>>
arrayVars == <<wordArray, wanted, calls>>
-----------------------------------------------------------------------------
(* The calculator                                                          *)

MCBits == [a \in {"am1", "am2", "am3"} |-> IF a = "am1" THEN 3 ELSE 4]
MCLow == <<2, 3, 5>>

\* Numbers of one to four digits of either sign, among them those where a digit is
\* full or has just overflowed.
\* Every prime passes with every base, and no other odd number.
MCPasses ==
  [n \in {2 * k + 1 : k \in 1..31} |->
    IF n \in {3, 5, 7, 11, 13, 17, 19, 23, 29, 31, 37, 41, 43, 47, 53, 59, 61}
    THEN ToSet(lowprimes) ELSE {}]

MCValues ==
  (-9..20) \cup DOMAIN MCPasses \cup {63, 64, -64, -65, 100, 255, 256, 257, -256, -300, 511, 1000, -1023}
MCOperands ==
  {-257, -64, -17, -16, -8, -3, -1, 0, 1, 2, 7, 8, 9, 15, 16, 17, 31, 33, 63, 64, 65,
   240, 255, 256, 260}
MCModuli == {2, 5, 8, 9, 15, 16, 31, 48, 63, 97, 144, 243, 257}
MCExponents == {0, 1, 2, 5, 7, 12, 23, 45}
MCShifts == {-9, -4, -3, -1, 0, 1, 2, 3, 4, 5}

Calculator == INSTANCE BigIntegerCalls WITH
  Values <- MCValues, Operands <- MCOperands, Moduli <- MCModuli,
  Exponents <- MCExponents, Shifts <- MCShifts, Radixes <- {2, 4, 8, 3, 7},
  PrimeBits <- {2, 3, 6}, Passes <- MCPasses, asked <- call
-----------------------------------------------------------------------------
(* RSA keys                                                                *)

\* A number of two digits of am3, and the key of 11 and 7.
Two(v) == IF v < 16 THEN Number(0 :> v, 1, 0) ELSE Number(0 :> v % 16 @@ 1 :> v \div 16, 2, 0)
Whole77 ==
  [n |-> Two(77), e |-> 7, d |-> Two(43), p |-> Two(11), q |-> Two(7),
   dmp1 |-> Two(3), dmq1 |-> Two(1), coeff |-> Two(8)]
NoKey77 == [f \in DOMAIN Whole77 |-> IF f = "e" THEN 0 ELSE Nothing]

\* Whole; without primes; public; public and cut off.
MCGiven ==
  {Whole77, [Whole77 EXCEPT !.p = Nothing, !.q = Nothing],
   [NoKey77 EXCEPT !.n = Two(77), !.e = 7], [NoKey77 EXCEPT !.n = Two(77)]}

\* 15 stands for the numbers that pass with some bases and are no primes.
RsaPasses == [MCPasses EXCEPT ![15] = {2}]

Rsa == INSTANCE JsEncrypt WITH
  Null <- Nothing, B <- 8, E <- 7, Given <- MCGiven, Passes <- RsaPasses,
  Lucky <- [p |-> 9, q |-> 11], Messages <- {Nothing, Two(27)},
  key <- rsaKey, own <- ownKey, timer <- rsaTimer, x <- gcdX, y <- gcdY, g <- gcdG,
  told <- cbTold, sent <- lastSent
-----------------------------------------------------------------------------
(* The encodings of jsencrypt.js                                           *)

UpTo(S, n) == UNION {[1..k -> S] : k \in 0..n}
Param(key, v) == [key |-> key, v |-> v]
IntOf(v) == Param("int", v)
Seq1(items) == Param("seq", items)

MCHex == UNION {[1..n -> {0, 7, 15}] : n \in {0, 2, 4, 6}}
MCIntegers ==
  {0, 1, -1, 127, 128, -127, -128, -129, 255, 256, -255, -256, 32767, -32768, 65535,
   8388608, -8388609}
MCOids ==
  {<<1, 2, 840, 113549, 1>>, <<2, 5, 4>>, <<0, 9, 127, 128>>, <<1, 39, 16384, 0>>}
MCBitStrings ==
  UpTo({0, 1}, 6) \cup {<<1, 0, 1, 1, 0, 1, 0, 1>>, <<0, 1, 0, 0, 0, 0, 0, 0, 1>>}
MCParams ==
  <<Param("bool", 0), Seq1(<<>>), Seq1(<<IntOf(5), Param("null", 0), Seq1(<<IntOf(-3)>>)>>),
    Param("set", <<IntOf(300), IntOf(2), Param("bool", 0), IntOf(1)>>),
    Param("octstr", [hex |-> FALSE, obj |-> Seq1(<<IntOf(129)>>)]),
    Param("octstr", [hex |-> TRUE, s |-> <<15, 15, 0, 1>>]),
    Param("bitstr", [bin |-> FALSE, obj |-> Seq1(<<IntOf(1), IntOf(2)>>)]),
    Param("bitstr", [bin |-> TRUE, s |-> <<1, 0, 1>>]), Param("utf8str", <<4, 1, 4, 2>>),
    Param("tag", [tag |-> 160, explicit |-> TRUE, obj |-> IntOf(7)]),
    Param("tag", [tag |-> 129, explicit |-> FALSE, obj |-> IntOf(7)]),
    Param("tag", [tag |-> 161, explicit |-> FALSE,
                  obj |-> Seq1(<<IntOf(7), Param("oid", <<1, 2, 3>>)>>)])>>
MCKeys ==
  {[n |-> 65537, e |-> 3, d |-> 200, p |-> 255, q |-> 257, dmp1 |-> 128, dmq1 |-> 127,
    coeff |-> 32768]}
MCHeaders == [sha1 |-> <<3, 0, 2, 1>>, md5 |-> <<3, 0, 2, 0>>]
MCDigests ==
  {d \in UpTo({0, 2, 3, 15}, 4) : ~\E n \in DOMAIN MCHeaders : IsPrefix(MCHeaders[n], d)}

Codec == INSTANCE RsaCodec WITH
  Null <- Nothing, Int10Max <- 1000,
  HexStrings <- MCHex, Integers1 <- MCIntegers, Oids <- MCOids, BitStrings <- MCBitStrings,
  Params <- MCParams, Lengths <- {0, 127, 128, 255, 256, 300}, Keys <- MCKeys,
  Headers <- MCHeaders, Digests <- MCDigests,
  ByteStrings <- UpTo({2, 3, 48, 128, 0, 1}, 4),
  MessageTexts <- UpTo({65, 233, 20013}, 4), MessageSizes <- {11, 13, 14, 15, 16, 17}

Cache == INSTANCE EncoderCache WITH Values1 <- {Value1, Value2}, MaxItems <- 2
Random == INSTANCE RandomPool WITH bytes <- bytesGiven
-----------------------------------------------------------------------------
(* The digests and derived keys of CryptoJS                                *)

MCKnown ==
  <<"MD5", Nothing, 128>> :>
    <<8, 8, 10, 8, 10, 2, 12, 12, 9, 11, 12, 9, 8, 10, 12, 1, 7, 14, 9, 14, 6, 0,
      12, 2, 6, 10, 10, 9, 9, 6, 0, 7>>
  @@ <<"SHA1", Nothing, 128>> :>
    <<2, 10, 4, 6, 14, 12, 0, 4, 2, 0, 9, 1, 14, 2, 14, 10, 14, 8, 8, 2, 13, 9, 11,
      1, 0, 14, 6, 3, 5, 2, 5, 14, 6, 2, 7, 4, 6, 3, 0, 3>>
  @@ <<"SHA224", Nothing, 128>> :>
    <<2, 14, 1, 0, 0, 9, 12, 9, 0, 6, 6, 12, 15, 2, 9, 0, 9, 11, 3, 12, 10, 4, 12,
      3, 12, 6, 11, 15, 4, 13, 4, 13, 5, 9, 4, 1, 10, 14, 13, 13, 5, 12, 2, 7, 7,
      10, 8, 14, 11, 8, 15, 2, 15, 8, 10, 5>>
  @@ <<"SHA256", Nothing, 128>> :>
    <<9, 12, 4, 3, 0, 10, 12, 15, 11, 13, 7, 5, 13, 14, 10, 8, 8, 7, 11, 12, 8, 12,
      14, 1, 13, 11, 1, 4, 2, 0, 9, 14, 8, 0, 7, 11, 11, 2, 10, 6, 12, 11, 3, 3, 4,
      2, 8, 10, 8, 2, 8, 11, 8, 11, 4, 5, 7, 8, 10, 1, 1, 12, 6, 15>>
  @@ <<"SHA384", Nothing, 128>> :>
    <<9, 3, 10, 12, 13, 9, 0, 6, 0, 6, 13, 14, 8, 11, 8, 10, 4, 1, 0, 2, 14, 0, 4,
      0, 3, 13, 4, 5, 11, 12, 8, 8, 7, 4, 1, 15, 12, 8, 10, 0, 6, 14, 13, 10, 1, 12,
      2, 6, 12, 12, 9, 7, 6, 8, 10, 11, 2, 14, 9, 13, 8, 6, 4, 13, 8, 12, 11, 2, 1,
      9, 9, 5, 11, 12, 10, 0, 12, 11, 3, 12, 8, 9, 14, 9, 6, 12, 9, 9, 7, 6, 4, 3,
      11, 13, 6, 10>>
  @@ <<"SHA512", Nothing, 128>> :>
    <<5, 4, 3, 4, 6, 13, 15, 8, 0, 0, 4, 15, 0, 14, 3, 2, 12, 10, 11, 0, 2, 5, 4,
      13, 0, 14, 15, 2, 13, 12, 10, 11, 4, 10, 4, 12, 8, 14, 10, 3, 14, 7, 15, 4, 3,
      6, 0, 12, 5, 9, 10, 0, 12, 6, 6, 1, 10, 15, 12, 6, 15, 5, 2, 3, 9, 4, 4, 14,
      9, 13, 14, 15, 10, 15, 1, 11, 6, 4, 5, 4, 1, 8, 15, 0, 11, 6, 8, 15, 1, 10, 0,
      13, 6, 9, 11, 1, 5, 15, 8, 0, 4, 5, 11, 7, 7, 11, 15, 8, 1, 2, 1, 9, 6, 9, 9,
      3, 12, 14, 9, 14, 0, 4, 9, 13, 6, 14, 10, 10>>
  @@ <<"RIPEMD160", Nothing, 128>> :>
    <<4, 11, 15, 2, 13, 3, 9, 7, 9, 14, 4, 15, 15, 0, 12, 15, 12, 3, 12, 15, 14, 15,
      4, 1, 1, 2, 9, 15, 15, 5, 2, 5, 2, 5, 12, 1, 8, 1, 9, 9>>
  @@ <<"SHA3", Nothing, 128>> :>
    <<1, 9, 3, 9, 2, 11, 6, 10, 8, 0, 6, 7, 13, 3, 13, 5, 10, 10, 3, 7, 4, 14, 1,
      10, 15, 1, 1, 4, 6, 11, 14, 12, 15, 14, 15, 8, 0, 6, 8, 12, 0, 11, 9, 10, 0,
      8, 0, 13, 11, 8, 13, 1, 12, 14, 13, 11, 14, 9, 14, 1, 14, 9, 15, 2, 7, 10, 11,
      5, 7, 11, 8, 11, 6, 2, 3, 7, 0, 14, 15, 11, 13, 14, 12, 14, 4, 4, 0, 10, 5, 0,
      4, 5, 15, 8, 7, 14, 13, 13, 8, 6, 0, 3, 12, 14, 12, 2, 4, 8, 6, 10, 4, 8, 5,
      6, 6, 9, 8, 0, 15, 3, 2, 14, 14, 1, 13, 2, 6, 10>>
  @@ <<"SHA1", 70, 128>> :>
    <<9, 2, 8, 4, 2, 14, 12, 6, 12, 1, 14, 15, 13, 13, 8, 15, 8, 8, 11, 5, 7, 10, 6,
      2, 8, 5, 7, 15, 11, 0, 2, 10, 5, 13, 1, 5, 9, 10, 1, 2>>
MCKnownKeys ==
  <<"PBKDF2", "SHA1", 2>> :> <<4, 6, 12, 12, 3, 15, 5, 1, 4, 8, 11, 0, 11, 9, 5, 3, 11, 10,
      3, 13, 11, 7, 8, 1, 9, 3, 7, 1, 9, 11, 0, 2, 6, 2, 3, 11, 2, 8, 15, 14, 4, 0, 11, 2,
      11, 3, 11, 6>>
  @@ <<"PBKDF2", "SHA256", 3>> :> <<5, 1, 5, 5, 1, 5, 14, 7, 10, 4, 15, 4, 11, 1, 4, 12, 11,
      12, 10, 6, 5, 4, 10, 12, 6, 9, 15, 15, 4, 12, 5, 6, 15, 6, 13, 6, 10, 1, 14, 13>>
  @@ <<"EvpKDF", "MD5", 3>> :> <<7, 8, 0, 9, 2, 13, 11, 5, 1, 12, 14, 6, 0, 4, 12, 13, 10,
      4, 6, 12, 0, 11, 10, 14, 15, 12, 2, 6, 0, 10, 12, 9, 13, 12, 8, 0, 0, 14, 5, 6, 0, 14,
      10, 10, 7, 15, 0, 0>>
MCText == [i \in 1..250 |-> (7 * i + 65) % 256]
MCMacKey == [i \in 1..250 |-> (11 * i + 3) % 256]
MCSalt == [i \in 1..8 |-> 200 + i]

\* HmacSHA224 and HmacSHA384 are in MCHmac.
MCMacs(a) ==
  CASE a = "SHA1" -> {70} [] a = "MD5" -> {5} [] OTHER -> {}
HashNames == {"MD5", "SHA1", "SHA224", "SHA256", "SHA384", "SHA512", "SHA3", "RIPEMD160"}

Digests == INSTANCE DigestCalls WITH
  Text <- MCText, Cuts <- {0, 55, 128}, MaxPieces <- 3, ends <- hashed,
  Macs <- [a \in HashNames |-> MCMacs(a)],
  MacKey <- MCMacKey, Known <- MCKnown, KnownKeys <- MCKnownKeys, Salt <- MCSalt
-----------------------------------------------------------------------------
(* The ciphers of CryptoJS                                                 *)

Suite1(a, mode, padding) == [algorithm |-> a, mode |-> mode, padding |-> padding]

\* Every cipher, mode and padding, and every kind of buffering.
MCSuites ==
  <<Suite1("AES", "CBC", "Pkcs7"),
    Suite1("AES", "ECB", "ZeroPadding"),
    Suite1("AES", "CFB", "NoPadding"),
    Suite1("AES", "OFB", "NoPadding"),
    Suite1("AES", "CTR", "NoPadding"),
    Suite1("AES", "CTRGladman", "Iso97971"),
    Suite1("DES", "CBC", "AnsiX923"),
    Suite1("DES", "CFB", "NoPadding"),
    Suite1("TripleDES", "CBC", "Iso10126"),
    Suite1("TripleDES", "ECB", "Pkcs7"),
    Suite1("AES", "CBC", "NoPadding"),
    Suite1("RC4", "stream", "NoPadding"),
    Suite1("RC4Drop", "stream", "NoPadding"),
    Suite1("Rabbit", "stream", "NoPadding"),
    Suite1("RabbitLegacy", "stream", "NoPadding")>>
MCLetter == [i \in 1..49 |-> ((i * 37 + 11) % 251) + 1]
MCKeyBytes == [i \in 1..32 |-> (i * 13 + 7) % 256]
MCIvBytes == <<255, 255, 255, 255, 9, 8, 7, 6, 1, 2, 3, 4, 255, 255, 255, 254>>
MCCiphertexts ==
  <<1, 16>> :> <<6, 9, 13, 15, 7, 7, 6, 2, 6, 2, 2, 15, 5, 6, 8, 9, 13, 10, 15, 9, 14, 6, 11, 1,
       0, 9, 15, 5, 3, 11, 11, 11, 8, 7, 8, 8, 15, 0, 7, 12, 0, 14, 1, 2, 14, 7, 9, 3, 15,
           7, 5, 9, 15,
       14, 2, 7, 4, 15, 1, 10, 0, 8, 12, 1>>
  @@ <<2, 16>> :> <<7, 2, 12, 10, 11, 15, 2, 1, 9, 5, 9, 10, 2, 10, 2, 13, 13, 12, 7, 2, 14,
      15, 10,
       9, 2, 8, 14, 6, 12, 5, 1, 12>>
  @@ <<3, 37>> :> <<10, 5, 8, 12, 7, 4, 9, 2, 5, 3, 10, 6, 0, 2, 11, 12, 15, 4, 12, 13, 4,
      13, 2, 9,
       15, 9, 9, 2, 15, 0, 12, 5, 0, 13, 13, 14, 12, 5, 10, 12, 14, 13, 0, 14, 8, 8, 15, 9,
           10, 10, 13,
       12, 2, 7, 14, 1, 4, 12, 15, 12, 12, 10, 0, 6, 12, 10, 13, 9, 7, 6, 15, 13, 7, 1>>
  @@ <<4, 37>> :> <<10, 5, 8, 12, 7, 4, 9, 2, 5, 3, 10, 6, 0, 2, 11, 12, 15, 4, 12, 13, 4,
      13, 2, 9,
       15, 9, 9, 2, 15, 0, 12, 5, 5, 3, 15, 8, 11, 7, 10, 12, 8, 8, 9, 2, 5, 10, 7, 14, 15,
           11, 9, 7,
       3, 14, 11, 13, 3, 13, 8, 13, 13, 7, 11, 4, 2, 7, 1, 12, 9, 12, 11, 9, 7, 10>>
  @@ <<5, 16>> :> <<10, 5, 8, 12, 7, 4, 9, 2, 5, 3, 10, 6, 0, 2, 11, 12, 15, 4, 12, 13, 4,
      13, 2, 9,
       15, 9, 9, 2, 15, 0, 12, 5>>
  @@ <<6, 37>> :> <<8, 8, 4, 9, 7, 4, 5, 10, 5, 0, 0, 15, 15, 5, 12, 14, 10, 9, 13, 11, 6,
      5, 2, 7,
       15, 12, 12, 15, 7, 11, 4, 6, 6, 11, 15, 2, 3, 14, 0, 13, 13, 4, 12, 6, 14, 15, 6, 15,
           8, 11, 10,
       12, 12, 8, 11, 13, 6, 7, 0, 1, 1, 11, 5, 12, 14, 3, 12, 5, 13, 2, 10, 6, 0, 12, 7, 2,
           9, 15, 10,
       0, 7, 5, 6, 11, 4, 3, 11, 14, 13, 11, 12, 3, 6, 11, 7, 1>>
  @@ <<7, 16>> :> <<15, 15, 4, 9, 12, 4, 10, 5, 11, 9, 7, 11, 15, 13, 12, 7, 6, 12, 13, 6,
      9, 15, 2,
       2, 13, 7, 10, 4, 7, 1, 14, 8, 11, 14, 6, 15, 0, 0, 8, 14, 2, 9, 6, 3, 6, 7, 15, 14>>
  @@ <<8, 37>> :> <<15, 9, 15, 2, 0, 9, 4, 2, 10, 5, 7, 14, 7, 8, 8, 15, 9, 4, 11, 11, 12,
      11, 8, 1,
       0, 10, 0, 7, 14, 4, 9, 2, 2, 9, 13, 12, 4, 0, 5, 6, 2, 2, 5, 10, 8, 6, 4, 7, 8, 10,
           2, 15, 4, 1,
       2, 5, 7, 14, 1, 14, 8, 6, 5, 2, 8, 8, 12, 1, 14, 2, 11, 0, 0, 14>>
  @@ <<10, 16>> :> <<14, 3, 11, 4, 1, 13, 6, 11, 13, 4, 8, 3, 5, 7, 9, 6, 15, 5, 13, 10, 10,
      9, 8, 6,
       6, 3, 4, 2, 1, 4, 13, 13, 11, 1, 11, 10, 10, 6, 3, 6, 13, 11, 9, 8, 15, 4, 15, 3>>
  @@ <<12, 16>> :> <<5, 15, 1, 11, 14, 11, 3, 14, 5, 15, 15, 14, 7, 6, 6, 7, 8, 8, 5, 13,
      13, 7, 10,
       0, 3, 12, 5, 14, 12, 11, 12, 14>>
  @@ <<13, 16>> :> <<14, 7, 8, 8, 0, 4, 12, 13, 0, 11, 10, 8, 9, 14, 9, 1, 14, 6, 6, 13, 13,
      13, 5,
       8, 13, 6, 1, 0, 2, 1, 3, 11>>
  @@ <<14, 37>> :> <<12, 15, 3, 0, 7, 4, 2, 8, 13, 1, 5, 0, 2, 2, 0, 7, 10, 15, 8, 13, 0,
      13, 15, 1,
       14, 4, 3, 3, 13, 13, 11, 15, 11, 6, 8, 4, 10, 3, 14, 5, 0, 2, 7, 13, 15, 3, 15, 12,
           10, 1, 9, 8,
       9, 7, 4, 1, 1, 9, 1, 9, 7, 0, 0, 5, 7, 3, 5, 2, 9, 15, 9, 7, 5, 4>>
  @@ <<15, 37>> :> <<15, 0, 13, 3, 8, 5, 9, 2, 14, 10, 14, 4, 5, 5, 7, 15, 14, 12, 12, 9,
      11, 1, 10,
       13, 7, 6, 3, 2, 1, 3, 9, 1, 14, 6, 9, 5, 8, 6, 2, 10, 10, 5, 15, 2, 6, 7, 3, 6, 0,
           12, 1, 12, 2,
       3, 12, 8, 6, 10, 9, 15, 11, 7, 0, 9, 13, 13, 11, 15, 14, 1, 3, 6, 12, 8>>

Ciphers1 == INSTANCE CipherCalls WITH
  Suites <- MCSuites, Letter <- MCLetter, Splits <- {0, 5, 16, 37}, KeyBytes <- MCKeyBytes,
  IvBytes <- MCIvBytes, Noises <- {1, 77}, Formats <- {"object", "OpenSSL", "Hex"},
  Secrets <- {1}, Password <- <<112, 97, 115, 115>>, Salt <- MCSalt,
  Characters <- <<111, 107, 233, 8364, 0>>, Ciphertexts <- MCCiphertexts,
  MaxPieces <- 2
-----------------------------------------------------------------------------
(* Word arrays                                                             *)

MCTexts ==
  <<<<"Hex", <<15, 15, 0, 1, 8, 0>>, <<255, 1, 128>>>>,
    <<"Base64", <<19, 22, 5, 46, 19, 1, 64, 64>>, <<77, 97, 110, 76>>>>,
    <<"Latin1", <<0>>, <<0>>>>,
    <<"Utf8", <<97, 233, 8364>>, <<97, 195, 169, 226, 130, 172>>>>,
    <<"Utf16BE", <<8364>>, <<32, 172>>>>,
    <<"Utf16LE", <<97, 55357>>, <<97, 0, 61, 216>>>>>>

Arrays == INSTANCE EncodingCalls WITH Texts <- MCTexts, MaxLength <- 10, MaxCalls <- 3
-----------------------------------------------------------------------------
Parts == {"calculator", "rsa", "codec", "cache", "random", "digests", "ciphers", "arrays"}

\* The loops of three browsers are of interest to the calculator only.
MCInit ==
  /\ part \in Parts
  /\ IF part = "calculator" THEN Calculator!Init
     ELSE am = "am3" /\ value = 0 /\ call = [call |-> "nothing"]
  /\ Rsa!Init /\ Codec!Init /\ Digests!Init /\ Ciphers1!Init /\ Arrays!Init
  /\ IF part = "cache" THEN Cache!Init
     ELSE leaf = Nothing /\ seq = Nothing /\ untold = FALSE /\ below = FALSE
  /\ IF part = "random" THEN Random!Init
     ELSE /\ rng_pool = <<>> /\ rng_pptr = 0 /\ rng_state = Nothing
          /\ count = 0 /\ listening = TRUE /\ bytesGiven = 0

CalculatorPart ==
  /\ part = "calculator" /\ Calculator!Next
  /\ UNCHANGED <<part, rsaVars, asked, cacheVars, poolVars, digestVars, cipherVars,
      arrayVars>>
InRsa(A) ==
  /\ part = "rsa" /\ A
  /\ UNCHANGED <<part, am, calcVars, asked, cacheVars, poolVars, digestVars, cipherVars,
      arrayVars>>
RsaPart == InRsa(Rsa!Next)
CodecPart ==
  /\ part = "codec" /\ Codec!Next
  /\ UNCHANGED <<part, am, calcVars, rsaVars, cacheVars, poolVars, digestVars, cipherVars,
      arrayVars>>
CachePart ==
  /\ part = "cache" /\ Cache!Next
  /\ UNCHANGED <<part, am, calcVars, rsaVars, asked, poolVars, digestVars, cipherVars,
      arrayVars>>
RandomPart ==
  /\ part = "random" /\ Random!Next
  /\ UNCHANGED <<part, am, calcVars, rsaVars, asked, cacheVars, digestVars, cipherVars,
      arrayVars>>
DigestsPart ==
  /\ part = "digests" /\ Digests!Next
  /\ UNCHANGED <<part, am, calcVars, rsaVars, asked, cacheVars, poolVars, cipherVars,
      arrayVars>>
CiphersPart ==
  /\ part = "ciphers" /\ Ciphers1!Next
  /\ UNCHANGED <<part, am, calcVars, rsaVars, asked, cacheVars, poolVars, digestVars,
      arrayVars>>
ArraysPart ==
  /\ part = "arrays" /\ Arrays!Next
  /\ UNCHANGED <<part, am, calcVars, rsaVars, asked, cacheVars, poolVars, digestVars,
      cipherVars>>

MCNext ==
  \/ CalculatorPart \/ RsaPart \/ CodecPart \/ CachePart \/ RandomPart
  \/ DigestsPart \/ CiphersPart \/ ArraysPart

MCVars == <<part, am, calcVars, rsaVars, asked, cacheVars, poolVars, digestVars,
            cipherVars, arrayVars>>
MCSpec == MCInit /\ [][MCNext]_MCVars /\ Rsa!KeyFairness
-----------------------------------------------------------------------------
\* Each property is the conjunction of properties of one part, stated and named in
\* the module of the part; it is that of every step's new state.

\* BigIntegerCalls: every operation gives what integer arithmetic gives, in digits that
\* are in range; what is asked of a number agrees with its value.
NumbersRight == [][part = "calculator" => Calculator!NumbersRight(value', call')]_MCVars

\* RsaCodec, EncoderCache and RandomPool: what is written is read again, a kept encoding
\* is that of the value unless the object was not told, the generator is seeded once
\* with a whole pool.
CodecRight ==
  [][CASE part = "codec" -> Codec!ReadAgain(asked')
       [] part = "cache" -> Cache!StaleOnlyWhenUntold'
       [] part = "random" -> Random!SeededOnce'
       [] OTHER -> TRUE]_MCVars

\* JsEncrypt: whichever tasks of a generation run between two calls, an answer comes
\* from a whole key, is the power it should be and is opened again.  A key that was cut
\* off in its exponent and one of two equal primes are left out of what answers must be.
KeysWhole ==
  [][part = "rsa" =>
       /\ Rsa!WholeKey(ownKey', rsaTimer') /\ Rsa!ToldOfWholeKey(ownKey', rsaTimer', cbTold')
       /\ lastSent' # lastSent \/ (ownKey' # ownKey /\ ownKey'.n # Nothing) =>
            Rsa!AnswersOpen(ownKey', lastSent')
       /\ <<rsaTimer, gcdX, gcdY>>' # <<rsaTimer, gcdX, gcdY>> =>
            Rsa!SameDivisor(ownKey', rsaTimer', gcdX', gcdY', gcdG')]_MCVars

\* DigestCalls: however a message is cut, its digest and HMAC are the standard's, and so
\* is a key that is derived.
DigestsRight ==
  [][/\ finalized' => Digests!DigestRight(algorithm', macKeySize', hashed')
     /\ derived' # Nothing => Digests!DerivedRight(derived')]_MCVars

\* CipherCalls and EncodingCalls: however a message is cut, its ciphertext is that of the
\* whole message, and a decryptor that found the same key gives it back; an array holds
\* the bytes of the texts it was made of.
CiphersRight ==
  [][/\ at' = "sealed" /\ at # at' => Ciphers1!CiphertextRight(use', sealedWith', ends', noise')
     /\ <<at, cuts>>' # <<at, cuts>> /\ at' \in {"opening", "opened"} /\ openedWith' = sealedWith' =>
          Ciphers1!PlaintextRight(use', sealedWith', ends', noise', format', cuts', at' = "opened")
     /\ at' = "whole" => Ciphers1!WholeCallRight(use', Last(ends'), noise')
     /\ part = "arrays" => Arrays!ArrayRight(wordArray', wanted')]_MCVars

\* JsEncrypt: who asked for a key with a callback hears of it.
CallbackComes == Rsa!CallbackComes
=============================================================================
