------------------------------- MODULE Hasher -------------------------------
(***************************************************************************)
(* The hashers of CryptoJS: BufferedBlockAlgorithm and Hasher of core.js,  *)
(* what each hash does with the last block, and HMAC on top (hmac.js).  A  *)
(* hasher keeps what did not fill a block yet, the number of all bytes and *)
(* the hash so far.                                                        *)
(***************************************************************************)
EXTENDS HashBlocks

CONSTANT outputLength  \* of SHA-3, in bits

Hashes == {"MD5", "SHA1", "SHA224", "SHA256", "SHA384", "SHA512", "RIPEMD160", "SHA3"}

blockSize(alg) ==
  CASE alg = "SHA3" -> (1600 - 2 * outputLength) \div 32
    [] alg \in {"SHA512", "SHA384"} -> 32
    [] OTHER -> 16

doProcessBlock(alg, hash, block) ==
  CASE alg = "MD5" -> MD5Block(hash, block)
    [] alg = "SHA1" -> SHA1Block(hash, block)
    [] alg \in {"SHA224", "SHA256"} -> SHA256Block(hash, block)
    [] alg \in {"SHA384", "SHA512"} -> SHA512Block(hash, block)
    [] alg = "RIPEMD160" -> RIPEMD160Block(hash, block)
    [] alg = "SHA3" -> SHA3Block(hash, block)

FirstHash ==
  [MD5 |-> FirstMD5, SHA1 |-> FirstSHA1, SHA224 |-> FirstSHA224, SHA256 |-> FirstSHA256,
   SHA384 |-> FirstSHA384, SHA512 |-> FirstSHA512, RIPEMD160 |-> FirstSHA1,
   SHA3 |-> FirstSHA3]

reset(alg) == [alg |-> alg, data |-> None, nDataBytes |-> 0, hash |-> FirstHash[alg]]

append(h, data) ==
  [h EXCEPT !.data = concat(h.data, data), !.nDataBytes = @ + data.sigBytes]

\* Whole blocks are hashed, their words are spliced off; the number of bytes says how
\* many there are, whatever the number of words.
process(h) ==
  LET size == blockSize(h.alg)
      n == h.data.sigBytes \div (4 * size)
      block(k) == [i \in 1..size |-> At(h.data.words, (k - 1) * size + i - 1)]
      hash == ForUp(LAMBDA r, k : Strictly(LAMBDA b : doProcessBlock(h.alg, r, b), block(k)), h.hash, 1, n)
  IN  [h EXCEPT !.hash = hash,
                !.data = Array(SubSeq(@.words, n * size + 1, Len(@.words)), @.sigBytes - 4 * n * size)]

update(h, data) == Strictly(process, append(h, data))

\* Words set beyond the end of an array make it longer.
SetWord(words, i, w) ==
  [k \in 1..(IF i < Len(words) THEN Len(words) ELSE i + 1) |-> IF k = i + 1 THEN w ELSE At(words, k - 1)]
OrWord(words, i, w) == SetWord(words, i, Or(At(words, i), w))

\* The mark behind the last byte; the number of bits (below 2^32) in the last words of
\* the block it has room in.
Marked(h, mark) == OrWord(h.data.words, h.data.sigBytes \div 4, AtByte(mark, h.data.sigBytes % 4))
LastWord(h) ==
  LET size == blockSize(h.alg)
  IN  ((8 * h.data.sigBytes + 4 * size) \div (32 * size)) * size + size - 1
nBitsTotal(h) == Small(h.nDataBytes * 8)
LengthPadded(h) == SetWord(SetWord(Marked(h, 128), LastWord(h) - 1, Zero), LastWord(h), nBitsTotal(h))

\* The hash after the final blocks, as many bytes as there are words, and some words more.
Hashed(h, words, more) ==
  Strictly(LAMBDA w : process([h EXCEPT !.data = Array(w, 4 * (Len(w) + more))]).hash, words)

SHA1Finalize(h) == Whole(Hashed(h, LengthPadded(h), 0))
SHA256Finalize(h) == Whole(Hashed(h, LengthPadded(h), 0))
SHA512Finalize(h) == Whole(Hashed(h, LengthPadded(h), 0))
\* The words that are cut off stay behind the end.
SHA224Finalize(h) == LET all == SHA256Finalize(h) IN Array(all.words, all.sigBytes - 4)
SHA384Finalize(h) == LET all == SHA512Finalize(h) IN Array(all.words, all.sigBytes - 16)

MD5Finalize(h) ==
  LET words == SetWord(SetWord(Marked(h, 128), LastWord(h), Zero), LastWord(h) - 1,
                       swapEndian(nBitsTotal(h)))
  IN  Whole(Swapped(Hashed(h, words, 1)))

\* The upper word of the length is not set: the array may end one word short.
RIPEMD160Finalize(h) ==
  LET words == SetWord(Marked(h, 128), LastWord(h) - 1, swapEndian(nBitsTotal(h)))
  IN  Whole(Swapped(Hashed(h, words, 1)))

SHA3Finalize(h) ==
  LET size == blockSize(h.alg)
      end == CeilDiv(8 * h.data.sigBytes + 1, 32 * size) * size - 1
      state == Hashed(h, OrWord(Marked(h, 1), end, Small(128)), 0)
      lane(i) == <<state[2 * i], state[2 * i - 1]>>
  IN  Array(Swapped(FlattenSeq([i \in 1..CeilDiv(outputLength, 64) |-> lane(i)])),
            outputLength \div 8)

doFinalize(h) ==
  CASE h.alg = "MD5" -> MD5Finalize(h)
    [] h.alg = "SHA1" -> SHA1Finalize(h)
    [] h.alg = "SHA224" -> SHA224Finalize(h)
    [] h.alg = "SHA256" -> SHA256Finalize(h)
    [] h.alg = "SHA384" -> SHA384Finalize(h)
    [] h.alg = "SHA512" -> SHA512Finalize(h)
    [] h.alg = "RIPEMD160" -> RIPEMD160Finalize(h)
    [] h.alg = "SHA3" -> SHA3Finalize(h)

finalize(h, data) == Strictly(doFinalize, append(h, data))
hash(alg, message) == finalize(reset(alg), message)
-----------------------------------------------------------------------------
(* HMAC                                                                    *)

\* The key, hashed if it is longer than a block, clamped, filled up with zeros.
PadKey(alg, key0, pattern) ==
  LET size == blockSize(alg)
      padded(key) ==
        Whole([i \in 1..size |-> Xor(At(key.words, i - 1), <<pattern * 257, pattern * 257>>)])
  IN  Strictly(padded, clamp(IF key0.sigBytes > 4 * size THEN hash(alg, key0) ELSE key0))
iKey(alg, key) == PadKey(alg, key, \h36)
oKey(alg, key) == PadKey(alg, key, \h5c)

HmacReset(alg, key) == update(reset(alg), iKey(alg, key))
HmacFinalize(h, key, data) ==
  LET outer(innerHash) == finalize(reset(h.alg), concat(oKey(h.alg, key), innerHash))
  IN  Strictly(outer, finalize(h, data))

hmac(alg, key, message) == HmacFinalize(HmacReset(alg, key), key, message)
-----------------------------------------------------------------------------
(* PBKDF2 (pbkdf2.js) and EvpKDF (evpkdf.js)                               *)

Xored(x, y) == [x EXCEPT !.words = [i \in DOMAIN @ |-> Xor(@[i], y.words[i])]]

\* A block of the key after so many iterations.
PBKDF2Block(alg, password, salt, iterations, index) ==
  LET first == HmacFinalize(update(HmacReset(alg, password), salt), password, Whole(<<Small(index)>>))
      step(r, i) == Strictly(LAMBDA u : [last |-> u, block |-> Xored(r.block, u)],
                             hmac(alg, password, r.last))
  IN  ForUp(step, Strictly(LAMBDA f : [last |-> f, block |-> f], first), 2, iterations).block

RECURSIVE PBKDF2Blocks(_, _, _, _, _, _, _)
PBKDF2Blocks(alg, password, salt, words, iterations, index, key) ==
  IF Len(key.words) >= words THEN [key EXCEPT !.sigBytes = words * 4]
  ELSE Strictly(LAMBDA b : PBKDF2Blocks(alg, password, salt, words, iterations, index + 1, concat(key, b)),
                PBKDF2Block(alg, password, salt, iterations, index))
PBKDF2(alg, password, salt, words, iterations) ==
  PBKDF2Blocks(alg, password, salt, words, iterations, 1, None)

\* A block, from the one before, the password and the salt, hashed so many times.
EvpBlock(alg, password, salt, iterations, before) ==
  LET first == finalize(update(update(reset(alg), before), password), salt)
  IN  ForUp(LAMBDA b, i : hash(alg, b), first, 2, iterations)

RECURSIVE EvpBlocks(_, _, _, _, _, _, _)
EvpBlocks(alg, password, salt, words, iterations, before, key) ==
  IF Len(key.words) >= words THEN [key EXCEPT !.sigBytes = words * 4]
  ELSE Strictly(LAMBDA b : EvpBlocks(alg, password, salt, words, iterations, b, concat(key, b)),
                EvpBlock(alg, password, salt, iterations, before))
EvpKDF(alg, password, salt, words, iterations) ==
  EvpBlocks(alg, password, salt, words, iterations, None, None)
=============================================================================
