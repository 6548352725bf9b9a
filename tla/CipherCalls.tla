---------------------------- MODULE CipherCalls -----------------------------
(***************************************************************************)
(* Callers of the ciphers of CryptoJS: a message is given piece by piece   *)
(* to an encryptor, its ciphertext is sent, as an object or as text, and   *)
(* given piece by piece to a decryptor.  A cipher is reset to be used      *)
(* again.  Messages are also encrypted and decrypted in one call, with a   *)
(* password, or by the functions of aescbc.js.  Ciphers are deterministic: *)
(* the state keeps the caller's key, which they change, and the calls that *)
(* were made; Ciphertext and Plaintext are what the ciphers answer.        *)
(***************************************************************************)
EXTENDS Ciphers

CONSTANTS
  Nothing,
  Suites,      \* a sequence
  Letter,      \* bytes: messages are its beginnings
  Splits,      \* where messages and ciphertexts may be cut
  MaxPieces,   \* that they may be cut into
  KeyBytes,    \* bytes: keys and initial vectors are its beginnings
  IvBytes,
  Noises,      \* what random bytes may be
  Formats,     \* a subset of {"object", "OpenSSL", "Hex"}
  Secrets,     \* numbers of suites that are used with a password
  Password, Salt,
  Characters,  \* of the texts for aescbc.js
  Ciphertexts  \* <<suite, length>> :> what another implementation gives

VARIABLES
  use,         \* the number of the suite, 0 before; the ones behind are aescbc.js
  at,          \* the last call: "idle", "sealing", "sealed", "opening", "opened", "whole"
  keyWords,    \* the words of the caller's key
  sealedWith,  \* the key's words as the encryptor found them
  openedWith,  \* and as the decryptor did
  ends,        \* of the pieces of the message given to the encryptor
  noise,       \* that was drawn for the padding
  format,      \* the ciphertext was sent in
  cuts         \* ends of the pieces given to the decryptor, but for the last

cipherVars == <<use, at, keyWords, sealedWith, openedWith, ends, noise, format, cuts>>

taken == IF ends = <<>> THEN 0 ELSE Last(ends)
KeyWords(s) == WordsOf(SubSeq(KeyBytes, 1, 4 * keySize(s.algorithm)))
IvWords(s) == WordsOf(SubSeq(IvBytes, 1, 4 * ivSize(s.algorithm)))
Used == Suites[use]

\* A stream, a stream-like mode or a padding gives back any message, but for one with
\* a zero byte at the end where zeros are the padding.
Recoverable(s, n) ==
  CASE s.padding = "NoPadding" -> \/ s.mode \notin {"ECB", "CBC"}
                                  \/ n % (4 * cipherBlockSize(s.algorithm)) = 0
    [] s.padding = "ZeroPadding" -> n > 0 /\ Letter[n] # 0
    [] OTHER -> TRUE
-----------------------------------------------------------------------------
Init ==
  /\ use = 0 /\ at = "idle" /\ keyWords = <<>> /\ sealedWith = <<>> /\ openedWith = <<>>
  /\ ends = <<>> /\ noise = 0 /\ format = Nothing /\ cuts = <<>>

Choose(n) ==
  /\ use = 0
  /\ use' = n
  /\ keyWords' = KeyWords(Suites[n])
  /\ UNCHANGED <<at, sealedWith, openedWith, ends, noise, format, cuts>>

\* createEncryptor, and reset of an encryptor: an object as new, for the key as it is now.
Encryptor ==
  /\ at' = "sealing"
  /\ sealedWith' = keyWords
  /\ keyWords' = KeyAfterReset(Used, keyWords)
  /\ ends' = <<>> /\ noise' = 0
  /\ UNCHANGED <<use, openedWith, format, cuts>>
CreateEncryptor == use # 0 /\ at = "idle" /\ Encryptor
ResetEncryptor == at \in {"sealing", "sealed"} /\ ends # <<>> /\ Encryptor

Seal(to) ==
  /\ at = "sealing" /\ to > taken /\ Len(ends) < MaxPieces - 1
  /\ ends' = Append(ends, to)
  /\ UNCHANGED <<use, at, keyWords, sealedWith, openedWith, noise, format, cuts>>

\* One padding only draws random bytes.
FinishSealing(to, drawn) ==
  /\ at = "sealing" /\ to >= taken
  /\ Recoverable(Used, to)
  /\ at' = "sealed"
  /\ ends' = Append(ends, to)
  /\ noise' = IF Used.padding = "Iso10126" THEN drawn ELSE 0
  /\ UNCHANGED <<use, keyWords, sealedWith, openedWith, format, cuts>>

\* The decryptor gets the key object of the encryptor, as it is now.
CreateDecryptor(f) ==
  /\ at = "sealed"
  /\ at' = "opening" /\ format' = f
  /\ openedWith' = keyWords
  /\ keyWords' = KeyAfterReset(Used, keyWords)
  /\ UNCHANGED <<use, sealedWith, ends, noise, cuts>>

\* The caller reads the key from its text again.
ReadKeyAgain ==
  /\ keyWords # <<>> /\ keyWords # KeyWords(Used)
  /\ keyWords' = KeyWords(Used)
  /\ UNCHANGED <<use, at, sealedWith, openedWith, ends, noise, format, cuts>>

\* A ciphertext that came as a text is opened in one call.
Unseal(to) ==
  /\ at = "opening" /\ format = "object" /\ Len(cuts) < MaxPieces - 1
  /\ to > IF cuts = <<>> THEN 0 ELSE Last(cuts)
  /\ cuts' = Append(cuts, to)
  /\ UNCHANGED <<use, at, keyWords, sealedWith, openedWith, ends, noise, format>>

FinishUnsealing ==
  /\ at = "opening"
  /\ at' = "opened"
  /\ UNCHANGED <<use, keyWords, sealedWith, openedWith, ends, noise, format, cuts>>

\* CryptoJS.X.encrypt and decrypt with a string for a key.
WithPassword(n, to, drawn) ==
  /\ use = 0
  /\ Recoverable(Suites[n], to)
  /\ use' = n /\ at' = "whole" /\ ends' = <<to>> /\ noise' = drawn
  /\ UNCHANGED <<keyWords, sealedWith, openedWith, format, cuts>>

\* A text through a pair of functions of aescbc.js.
AesCbcForms == <<"hex", "base64", "array">>
AesCbc(k, n) ==
  /\ use = 0
  /\ use' = Len(Suites) + k /\ at' = "whole" /\ ends' = <<n>>
  /\ UNCHANGED <<keyWords, sealedWith, openedWith, noise, format, cuts>>

Next ==
  \/ \E n \in DOMAIN Suites : Choose(n)
  \/ CreateEncryptor \/ ResetEncryptor
  \/ \E to \in Splits : Seal(to) \/ \E drawn \in Noises : FinishSealing(to, drawn)
  \/ \E f \in Formats : CreateDecryptor(f)
  \/ ReadKeyAgain
  \/ \E to \in Splits : Unseal(to)
  \/ FinishUnsealing
  \/ \E n \in Secrets, to \in Splits, drawn \in Noises : WithPassword(n, to, drawn)
  \/ \E k \in DOMAIN AesCbcForms, n \in 0..Len(Characters) : AesCbc(k, n)
-----------------------------------------------------------------------------
(* What the ciphers of suite s answer with the words of a key, for stops   *)
(* that end pieces                                                         *)

Part(bytes, from, to) ==
  Bytes(SubSeq(bytes, from + 1, IF to < Len(bytes) THEN to ELSE Len(bytes)))
Start(stops, k) == IF k = 1 THEN 0 ELSE stops[k - 1]

\* A cipher after pieces, and what has come out.
Fed(c0, bytes, stops, n) ==
  LET feed(r, k) ==
        Strictly(LAMBDA u : [c |-> u.c, out |-> concat(r.out, u.out)],
                 cipherUpdate(r.c, Part(bytes, Start(stops, k), stops[k])))
  IN  ForUp(feed, [c |-> c0, out |-> None], 1, n)
Finished(r, rest, drawn) == concat(r.out, cipherFinalize(r.c, rest, drawn))

Ciphertext(s, key, stops, drawn) ==
  LET n == Len(stops)
  IN  Strictly(LAMBDA r : Finished(r, Part(Letter, Start(stops, n), stops[n]), drawn),
               Fed(cipherReset(s, FALSE, key, IvWords(s)), Letter, stops, n - 1))

\* The text of a ciphertext and back.
Through(f, ciphertext) ==
  CASE f = "object" -> ciphertext
    [] f = "OpenSSL" -> OpenSSLParse(OpenSSLStringify(ciphertext, NoSalt)).ciphertext
    [] f = "Hex" -> HexFormatParse(HexFormatStringify(ciphertext)).ciphertext

\* What has come out of the decryptor of some bytes, or all that comes.
Opened(s, key, bytes, stops, all) ==
  LET n == Len(stops)
      Rest(r) == IF all THEN Finished(r, Part(bytes, Start(stops, n + 1), Len(bytes)), 0) ELSE r.out
  IN  BytesOf(Strictly(Rest, Fed(cipherReset(s, TRUE, key, IvWords(s)), bytes, stops, n)))

\* What the second call of a pair makes of the first's answer.
PasswordAnswer(s, n, drawn) ==
  BytesOf(decryptWithPassword(s,
            encryptWithPassword(s, Part(Letter, 0, n), Bytes(Password), Bytes(Salt), drawn),
            Bytes(Password)))
AesCbcAnswer(form, text) ==
  LET key == WordsOf(SubSeq(KeyBytes, 1, 16))
      iv == WordsOf(SubSeq(IvBytes, 1, 16))
  IN  CASE form = "hex" -> decryptHex(encryptToHex(text, key, iv), key, iv)
        [] form = "base64" -> decryptBase64(encryptToBase64(text, key, iv), key, iv)
        [] form = "array" -> decrypt(encrypt(text, key, iv), key, iv)
-----------------------------------------------------------------------------
\* However a message is cut, and however often the encryptor served before, what it
\* gives out is what one call makes of the whole message for the key it found, and
\* what another implementation gives.
CiphertextRight(n, key, stops, drawn) ==
  LET s == Suites[n]
      call == <<n, Last(stops)>>
      Right(sent) ==
        /\ sent = cipherFinalize(cipherReset(s, FALSE, key, IvWords(s)), Part(Letter, 0, Last(stops)), drawn)
        /\ call \in DOMAIN Ciphertexts /\ key = KeyWords(s) => HexStringify(sent) = Ciphertexts[call]
  IN  Strictly(Right, Ciphertext(s, key, stops, drawn))

\* A decryptor that found the key as the encryptor did gives the message back, piece by
\* piece and nothing but the message, through any format, padding and mode.
PlaintextRight(n, key, stops, drawn, f, pieces, all) ==
  LET s == Suites[n]
      message == SubSeq(Letter, 1, Last(stops))
      Right(got) == got = IF all THEN message ELSE SubSeq(message, 1, Len(got))
  IN  Strictly(Right, Strictly(LAMBDA bytes : Opened(s, key, bytes, pieces, all),
                               BytesOf(Through(f, Ciphertext(s, key, stops, drawn)))))

\* So do the calls with a password and the pairs of functions of aescbc.js.
WholeCallRight(n, size, drawn) ==
  IF n \in DOMAIN Suites THEN PasswordAnswer(Suites[n], size, drawn) = SubSeq(Letter, 1, size)
  ELSE LET text == SubSeq(Characters, 1, size)
       IN  AesCbcAnswer(AesCbcForms[n - Len(Suites)], text) = text
=============================================================================
