------------------------------ MODULE Ciphers -------------------------------
(***************************************************************************)
(* The cipher objects of CryptoJS (cipher-core.js): a block cipher under a *)
(* mode and a padding, or a stream cipher, that takes its data piece by    *)
(* piece and gives out the blocks that are ready; the text formats of a    *)
(* ciphertext, and encryption with a password.                             *)
(***************************************************************************)
EXTENDS CipherCores

CONSTANT Drop  \* words of key stream that RC4Drop skips

Hash == INSTANCE Hasher WITH outputLength <- 512

\* A suite names an algorithm, and for a block cipher a mode and a padding.
Suite(algorithm, mode, padding) == [algorithm |-> algorithm, mode |-> mode, padding |-> padding]
StreamSuite(algorithm) == Suite(algorithm, "stream", "NoPadding")
Streams == {"RC4", "RC4Drop", "Rabbit", "RabbitLegacy"}

cipherBlockSize(a) ==
  CASE a \in {"RC4", "RC4Drop"} -> 1 [] a \in {"DES", "TripleDES"} -> 2 [] OTHER -> 4
keySize(a) ==
  CASE a \in {"AES", "RC4", "RC4Drop"} -> 8 [] a = "DES" -> 2 [] a = "TripleDES" -> 6 [] OTHER -> 4
ivSize(a) == CASE a \in {"RC4", "RC4Drop"} -> 0 [] a = "AES" -> 4 [] OTHER -> 2

\* ECB and CBC decrypt with the inverse of the cipher, all others with the cipher.
Inverts(s, decrypts) == decrypts /\ s.mode \in {"ECB", "CBC"}

\* Rabbit turns the words of its caller's key round, in place.
KeyAfterReset(s, words) ==
  IF s.algorithm = "Rabbit" THEN [i \in DOMAIN words |-> IF i <= 4 THEN swapEndian(words[i]) ELSE words[i]]
  ELSE words

\* What the cipher makes of the key: the schedule its mode uses, or a state.
doReset(s, decrypts, words, iv) ==
  CASE s.algorithm = "AES" ->
         IF Inverts(s, decrypts) THEN AESInverse(AESSchedule(words)) ELSE AESSchedule(words)
    [] s.algorithm = "DES" ->
         IF Inverts(s, decrypts) THEN DESInverse(DESSubKeys(words)) ELSE DESSubKeys(words)
    [] s.algorithm = "TripleDES" -> TripleDESKeys(words)
    [] s.algorithm = "RC4" -> RC4Reset(Whole(words))
    [] s.algorithm = "RC4Drop" -> RC4DropReset(Whole(words), Drop)
    [] OTHER -> RabbitReset(KeyAfterReset(s, words), iv)

cipherReset(s, decrypts, words, iv) ==
  Strictly(LAMBDA keys : [suite |-> s, decrypts |-> decrypts, keys |-> keys, last |-> iv, data |-> None],
           doReset(s, decrypts, words, iv))
-----------------------------------------------------------------------------
(* Modes: from a block and what the one before left behind, the initial    *)
(* vector at first, the block that comes out and what is left for the next *)

encryptBlock(c, b) ==
  CASE c.suite.algorithm = "AES" -> AESEncrypt(b, c.keys)
    [] c.suite.algorithm = "DES" -> DESCrypt(b, c.keys)
    [] OTHER -> TripleDESEncrypt(b, c.keys)
decryptBlock(c, b) ==
  CASE c.suite.algorithm = "AES" -> AESDecrypt(b, c.keys)
    [] c.suite.algorithm = "DES" -> DESCrypt(b, c.keys)
    [] OTHER -> TripleDESDecrypt(b, c.keys)

XorWords(b, s) == [i \in DOMAIN b |-> Xor(b[i], s[i])]
Out(last, words) == [last |-> last, words |-> words]

ECB(c, b) == Out(c.last, IF c.decrypts THEN decryptBlock(c, b) ELSE encryptBlock(c, b))
CBC(c, b) ==
  IF c.decrypts THEN Out(b, XorWords(decryptBlock(c, b), c.last))
  ELSE Strictly(LAMBDA out : Out(out, out), encryptBlock(c, XorWords(b, c.last)))

\* Mutant: the block is remembered when it is decrypted already.
CFBLate(c, b) ==
  Strictly(LAMBDA out : Out(out, out), XorWords(b, encryptBlock(c, c.last)))

CFB(c, b) ==
  Strictly(LAMBDA out : Out(IF c.decrypts THEN b ELSE out, out),
           XorWords(b, encryptBlock(c, c.last)))

OFB(c, b) == Strictly(LAMBDA keystream : Out(keystream, XorWords(b, keystream)), encryptBlock(c, c.last))
CTR(c, b) ==
  Out([c.last EXCEPT ![Len(b)] = Add(@, Small(1))], XorWords(b, encryptBlock(c, c.last)))

\* One more, its first byte the least significant.
incWord(w) ==
  LET by(k) == \A j \in 0..k-1 : ByteOf(w, j) = 255
      byte(k) == IF by(k) THEN (ByteOf(w, k) + 1) % 256 ELSE ByteOf(w, k)
  IN  Word(byte(0), byte(1), byte(2), byte(3))
incCounter(counter) ==
  LET first == incWord(counter[1])
  IN  IF first = Zero THEN [counter EXCEPT ![1] = first, ![2] = incWord(@)]
      ELSE [counter EXCEPT ![1] = first]
CTRGladman(c, b) ==
  Strictly(LAMBDA counter : Out(counter, XorWords(b, encryptBlock(c, counter))), incCounter(c.last))

processBlock(c, b) ==
  LET m == c.suite.mode IN
  CASE m = "ECB" -> ECB(c, b) [] m = "CBC" -> CBC(c, b) [] m = "CFB" -> CFB(c, b)
    [] m = "OFB" -> OFB(c, b) [] m = "CTR" -> CTR(c, b) [] m = "CTRGladman" -> CTRGladman(c, b)

\* The cipher after a block, and the block that comes out.
cipherBlock(c, b) ==
  LET stream ==
        IF c.suite.algorithm \in {"RC4", "RC4Drop"}
        THEN LET k == generateKeystreamWord(c.keys) IN [state |-> k.state, words |-> <<k.word>>]
        ELSE RabbitBlock(c.keys)
  IN  IF c.suite.algorithm \in Streams
      THEN Strictly(LAMBDA s : [c |-> [c EXCEPT !.keys = s.state], words |-> XorWords(b, s.words)], stream)
      ELSE Strictly(LAMBDA o : [c |-> [c EXCEPT !.last = o.last], words |-> o.words], processBlock(c, b))
-----------------------------------------------------------------------------
(* Paddings                                                                *)

nPadding(data, size) == 4 * size - (data.sigBytes % (4 * size))
Filled(n, b) == [i \in 1..n |-> b]

Pkcs7Pad(data, size) == LET n == nPadding(data, size) IN concat(data, Bytes(Filled(n, n)))

AnsiPad(data, size) ==
  LET n == nPadding(data, size)
      words == clamp(data).words
  IN  Array(Hash!OrWord(words, (data.sigBytes + n - 1) \div 4, Small(n)), data.sigBytes + n)

\* noise is what WordArray.random gives.
Iso10126Pad(data, size, noise) ==
  LET n == nPadding(data, size)
  IN  concat(concat(data, Bytes(Filled(n - 1, noise))), Bytes(<<n>>))

\* The low byte of the last word, whatever it is, is the number of bytes to remove.
LastByteUnpad(data) ==
  [data EXCEPT !.sigBytes = @ - ByteAt(data.words, 4 * ((@ - 1) \div 4) + 3)]
Pkcs7Unpad(data) == LastByteUnpad(data)
AnsiUnpad(data) == LastByteUnpad(data)
Iso10126Unpad(data) == LastByteUnpad(data)

ZeroPad(data, size) ==
  LET rest == data.sigBytes % (4 * size)
  IN  [clamp(data) EXCEPT !.sigBytes = @ + IF rest = 0 THEN 0 ELSE 4 * size - rest]
\* Without a byte other than 0 the code's loop finds no end: there is no such call here.
ZeroUnpad(data) ==
  [data EXCEPT !.sigBytes = CHOOSE n \in 1..@ : /\ ByteAt(data.words, n - 1) # 0
                                                /\ \A i \in n..@-1 : ByteAt(data.words, i) = 0]

Iso97971Pad(data, size) == ZeroPad(concat(data, Bytes(<<128>>)), size)
Iso97971Unpad(data) == [ZeroUnpad(data) EXCEPT !.sigBytes = @ - 1]

NoPad(data) == data

pad(padding, data, size, noise) ==
  CASE padding = "Pkcs7" -> Pkcs7Pad(data, size)
    [] padding = "AnsiX923" -> AnsiPad(data, size)
    [] padding = "Iso10126" -> Iso10126Pad(data, size, noise)
    [] padding = "Iso97971" -> Iso97971Pad(data, size)
    [] padding = "ZeroPadding" -> ZeroPad(data, size)
    [] padding = "NoPadding" -> NoPad(data)
unpad(padding, data) ==
  CASE padding = "Pkcs7" -> Pkcs7Unpad(data)
    [] padding = "AnsiX923" -> AnsiUnpad(data)
    [] padding = "Iso10126" -> Iso10126Unpad(data)
    [] padding = "Iso97971" -> Iso97971Unpad(data)
    [] padding = "ZeroPadding" -> ZeroUnpad(data)
    [] padding = "NoPadding" -> NoPad(data)
-----------------------------------------------------------------------------
(* process and finalize                                                    *)

\* A block decryptor keeps a block back: it may be the last one, with the padding.
minBufferSize(c) == IF c.decrypts /\ c.suite.algorithm \notin Streams THEN 1 ELSE 0

cipherProcess(c, flush) ==
  LET size == cipherBlockSize(c.suite.algorithm)
      whole == c.data.sigBytes \div (4 * size) - minBufferSize(c)
      n == IF flush THEN CeilDiv(c.data.sigBytes, 4 * size) ELSE IF whole > 0 THEN whole ELSE 0
      nBytes == IF 4 * n * size < c.data.sigBytes THEN 4 * n * size ELSE c.data.sigBytes
      block(k) == [i \in 1..size |-> At(c.data.words, (k - 1) * size + i - 1)]
      step(r, k) ==
        Strictly(LAMBDA o : [c |-> o.c, words |-> r.words \o o.words], cipherBlock(r.c, block(k)))
      end == ForUp(step, [c |-> c, words |-> <<>>], 1, n)
  IN  [c |-> [end.c EXCEPT !.data = Array(SubSeq(@.words, n * size + 1, Len(@.words)), @.sigBytes - nBytes)],
       out |-> Array(end.words, nBytes)]

cipherAppend(c, data) == [c EXCEPT !.data = concat(@, data)]
cipherUpdate(c, data) == cipherProcess(cipherAppend(c, data), FALSE)

cipherFinalize(c0, data, noise) ==
  LET c == cipherAppend(c0, data)
      padding == c.suite.padding
  IN  IF c.decrypts THEN unpad(padding, cipherProcess(c, TRUE).out)
      ELSE cipherProcess([c EXCEPT !.data = pad(padding, @, cipherBlockSize(c.suite.algorithm), noise)],
                         TRUE).out
-----------------------------------------------------------------------------
(* Ciphertexts as text                                                     *)

Salted == <<<<\h5361, \h6c74>>, <<\h6564, \h5f5f>>>>
NoSalt == None

OpenSSLStringify(ciphertext, salt) ==
  Base64Stringify(IF salt = NoSalt THEN ciphertext
                  ELSE concat(concat(Whole(Salted), salt), ciphertext))
OpenSSLParse(text) ==
  LET all == Base64Parse(text)
      salted == <<At(all.words, 0), At(all.words, 1)>> = Salted
  IN  [ciphertext |-> IF salted THEN Array(SubSeq(all.words, 5, Len(all.words)), all.sigBytes - 16) ELSE all,
       salt |-> IF salted THEN Whole(SubSeq(all.words, 3, 4)) ELSE NoSalt]
HexFormatStringify(ciphertext) == HexStringify(ciphertext)
HexFormatParse(text) == [ciphertext |-> HexParse(text), salt |-> NoSalt]
-----------------------------------------------------------------------------
(* With a password: the key and the initial vector come from it            *)

OpenSSLKdf(a, password, salt) ==
  LET all == Hash!EvpKDF("MD5", password, salt, keySize(a) + ivSize(a), 1)
  IN  [key |-> SubSeq(all.words, 1, keySize(a)),
       iv |-> SubSeq(all.words, keySize(a) + 1, keySize(a) + ivSize(a))]

encryptWithPassword(s, message, password, salt, noise) ==
  LET run(p) == cipherFinalize(cipherReset(s, FALSE, p.key, p.iv), message, noise)
  IN  OpenSSLStringify(Strictly(run, OpenSSLKdf(s.algorithm, password, salt)), salt)
decryptWithPassword(s, text, password) ==
  LET sent == OpenSSLParse(text)
      run(p) == cipherFinalize(cipherReset(s, TRUE, p.key, p.iv), sent.ciphertext, 0)
  IN  Strictly(run, OpenSSLKdf(s.algorithm, password, sent.salt))
-----------------------------------------------------------------------------
(* aescbc.js, for texts of characters                                      *)

AesCbcPkcs7 == Suite("AES", "CBC", "Pkcs7")
encrypt(msg, key, iv) == cipherFinalize(cipherReset(AesCbcPkcs7, FALSE, key, iv), Utf8Parse(msg), 0)
encryptToHex(msg, key, iv) == HexStringify(encrypt(msg, key, iv))
encryptToBase64(msg, key, iv) == Base64Stringify(encrypt(msg, key, iv))

\* Of a WordArray; a text in its place is not read as base64 but as UTF-8.
decrypt(cipherText, key, iv) ==
  Utf8Stringify(cipherFinalize(cipherReset(AesCbcPkcs7, TRUE, key, iv), cipherText, 0))
decryptHex(cipherTextHex, key, iv) == decrypt(HexParse(cipherTextHex), key, iv)
decryptBase64(cipherTextBase64, key, iv) == decrypt(Base64Parse(cipherTextBase64), key, iv)
=============================================================================
