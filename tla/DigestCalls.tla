----------------------------- MODULE DigestCalls -----------------------------
(***************************************************************************)
(* Callers of the hashers of CryptoJS: a text is given piece by piece to a *)
(* hash or to an HMAC, and finalize is followed by reset, as its comment   *)
(* asks.  Hashing is deterministic: the state keeps which calls were made  *)
(* since the last reset, Digest is what a hasher answers after them.       *)
(***************************************************************************)
EXTENDS Hasher

CONSTANTS
  Nothing,
  Text,      \* bytes
  Cuts,      \* where it may be cut
  MaxPieces, \* that it may be cut into
  Macs,      \* hash :> lengths of HMAC keys
  MacKey,    \* bytes: keys are their beginnings
  Known,     \* <<algorithm, macKeySize, length>> :> the digest, from another implementation
  KnownKeys, \* <<deriver, hash, iterations>> :> a key of so many bytes, likewise
  Salt

VARIABLES
  algorithm,
  macKeySize,   \* of the HMAC's key, or Nothing for a hash
  ends,      \* of the pieces given since the last reset
  finalized, \* the last piece was given to finalize
  derived    \* the call that derived a key, or Nothing

digestVars == <<algorithm, macKeySize, ends, finalized, derived>>

given == IF ends = <<>> THEN 0 ELSE Last(ends)
KeyOf(n) == Bytes(SubSeq(MacKey, 1, n))

Init ==
  /\ algorithm = Nothing /\ macKeySize = Nothing
  /\ ends = <<>> /\ finalized = FALSE /\ derived = Nothing

Create(a, n) ==
  /\ algorithm = Nothing /\ derived = Nothing
  /\ algorithm' = a /\ macKeySize' = n
  /\ UNCHANGED <<ends, finalized, derived>>

Give(to) ==
  /\ algorithm # Nothing /\ ~finalized
  /\ Len(ends) < MaxPieces /\ to >= given
  /\ ends' = Append(ends, to)
  /\ UNCHANGED <<algorithm, macKeySize, derived>>
Update(to) == Give(to) /\ finalized' = FALSE
Finalize(to) == Give(to) /\ finalized' = TRUE

Reset ==
  /\ finalized
  /\ ends' = <<>> /\ finalized' = FALSE
  /\ UNCHANGED <<algorithm, macKeySize, derived>>

\* CryptoJS.PBKDF2 and CryptoJS.EvpKDF, with the key of the HMACs for a password.
DeriveKey(call) ==
  /\ algorithm = Nothing /\ derived = Nothing
  /\ derived' = call
  /\ UNCHANGED <<algorithm, macKeySize, ends, finalized>>

Next ==
  \/ \E a \in Hashes : \E n \in {Nothing} \cup Macs[a] : Create(a, n)
  \/ \E to \in Cuts : Update(to) \/ Finalize(to)
  \/ Reset
  \/ \E call \in DOMAIN KnownKeys : DeriveKey(call)
-----------------------------------------------------------------------------
(* What a hasher answers for pieces with these ends                        *)

Piece(stops, k) == Bytes(SubSeq(Text, (IF k = 1 THEN 0 ELSE stops[k - 1]) + 1, stops[k]))
Started(a, n) == IF n = Nothing THEN reset(a) ELSE HmacReset(a, KeyOf(n))

Digest(a, n, stops) ==
  LET last == Len(stops)
      Answer(h) == IF n = Nothing THEN finalize(h, Piece(stops, last))
                   ELSE HmacFinalize(h, KeyOf(n), Piece(stops, last))
  IN  Strictly(Answer, ForUp(LAMBDA h, k : update(h, Piece(stops, k)), Started(a, n), 1, last - 1))

DerivedKey(call, words) ==
  IF call[1] = "PBKDF2" THEN PBKDF2(call[2], Bytes(MacKey), Bytes(Salt), words, call[3])
  ELSE EvpKDF(call[2], Bytes(MacKey), Bytes(Salt), words, call[3])
-----------------------------------------------------------------------------
\* What the standards say of a message: the mark, as few zeros as fill a block, the
\* length; then the blocks one after the other.
Message(a, s) ==
  LET size == 4 * blockSize(a)
      field == IF a = "SHA3" THEN 0 ELSE size \div 8
      zeros == CHOOSE z \in 0..size-1 : (Len(s) + 1 + z + field) % size = 0
      length == [i \in 1..field |-> ((8 * Len(s)) \div 256^(IF field - i > 2 THEN 3 ELSE field - i)) % 256]
      plain == s \o <<IF a = "SHA3" THEN 1 ELSE 128>> \o [i \in 1..zeros |-> 0]
  IN  IF a = "SHA3" THEN [plain EXCEPT ![Len(plain)] = @ + 128]
      ELSE plain \o IF a \in {"MD5", "RIPEMD160"} THEN Reverse(length) ELSE length

DigestSize ==
  [MD5 |-> 16, SHA1 |-> 20, SHA224 |-> 28, SHA256 |-> 32, SHA384 |-> 48, SHA512 |-> 64,
   RIPEMD160 |-> 20, SHA3 |-> outputLength \div 8]

StandardDigest(a, m) ==
  LET size == blockSize(a)
      block(k) == SubSeq(m, (k - 1) * size + 1, k * size)
      end == ForUp(LAMBDA r, k : doProcessBlock(a, r, block(k)), FirstHash[a],
                   1, Len(m) \div size)
      lanes == FlattenSeq([i \in 1..Len(end) \div 2 |-> <<end[2 * i], end[2 * i - 1]>>])
      words == CASE a = "SHA3" -> Swapped(lanes)
                 [] a \in {"MD5", "RIPEMD160"} -> Swapped(end)
                 [] OTHER -> end
  IN  BytesOf(Array(words, DigestSize[a]))
Standard(a, s) == Strictly(LAMBDA m : StandardDigest(a, m), WordsOf(Message(a, s)))

StandardMac(a, key, s) ==
  LET size == 4 * blockSize(a)
      k == IF Len(key) > size THEN Standard(a, key) ELSE key
      Pad(b) == [i \in 1..size |-> Xor(Small(IF i <= Len(k) THEN k[i] ELSE 0), Small(b))[2]]
  IN  Standard(a, Pad(\h5c) \o Standard(a, Pad(\h36) \o s))

\* However a message is cut into pieces, and whatever the hasher did before, its digest
\* is the standard's, and the one another implementation computes.
DigestRight(a, n, stops) ==
  LET s == SubSeq(Text, 1, Last(stops))
      call == <<a, n, Last(stops)>>
      Right(digest) ==
        /\ BytesOf(digest) = IF n = Nothing THEN Standard(a, s)
                             ELSE StandardMac(a, SubSeq(MacKey, 1, n), s)
        /\ call \in DOMAIN Known => HexStringify(digest) = Known[call]
  IN  Strictly(Right, Digest(a, n, stops))

\* Keys of more than one block, from more than one iteration, are the standard's: they
\* are what another implementation derives.
DerivedRight(call) ==
  LET known == KnownKeys[call]
  IN  HexStringify(DerivedKey(call, Len(known) \div 8)) = known
=============================================================================
