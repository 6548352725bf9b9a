------------------------------ MODULE RsaCodec ------------------------------
(***************************************************************************)
(* What webapp/static/jsencrypt.js writes: the DER encoder KJUR.asn1, RSA  *)
(* keys in it, and messages padded as PKCS#1 says.  An object of KJUR.asn1 *)
(* that is encoded once is a function of its parameter; that it caches its *)
(* encoding is EncoderCache's subject.  The calls at the end read again    *)
(* what was written.                                                       *)
(***************************************************************************)
EXTENDS Asn1

CONSTANTS
  Null,  \* a field of a key that is not set
  \* What the calls are made for.
  HexStrings, Integers1, Oids, BitStrings, Params, Lengths, Keys, Headers, Digests,
  ByteStrings, MessageTexts, MessageSizes

VARIABLE asked  \* the call that is made, with what it is made for

BytesOf(h) == [i \in 1..Len(h) \div 2 |-> h[2 * i - 1] * 16 + h[2 * i]]
Even(h) == IF Len(h) % 2 = 1 THEN <<0>> \o h ELSE h

FromBits(s) == FoldLeft(LAMBDA v, b : 2 * v + b, 0, s)
-----------------------------------------------------------------------------
(* KJUR.asn1.ASN1Util and the objects                                      *)

\* The sign is still there when the first digit is looked at, so a negative number of
\* an even number of digits gets two more.
bigIntToMinTwosComplementsHex(x) ==
  LET h == StringOf(x, 16)
      hPos == Tail(h)
      xorLen == IF Len(hPos) % 2 = 1 THEN Len(hPos) + 1 ELSE Len(hPos) + 2
      biMask == FromString([i \in 1..xorLen |-> 15], 16)
      biNeg == AddTo(BitwiseTo(biMask, x, op_xor), ONE)
  IN  IF h[1] = Minus THEN SelectSeq(StringOf(biNeg, 16), LAMBDA d : d # Minus)
      ELSE IF Len(h) % 2 = 1 THEN <<0>> \o h
      ELSE IF h[1] > 7 THEN <<0, 0>> \o h
      ELSE h

getLengthHexFromValue(hV) ==
  LET n == Len(hV) \div 2
      hN == Even(Written(n, 16))
      head == 128 + Len(hN) \div 2
  IN  IF n < 128 THEN hN ELSE Written(head, 16) \o hN

TLV(hT, hV) == <<hT \div 16, hT % 16>> \o getLengthHexFromValue(hV) \o hV

\* Groups of seven bits, all but the last marked.
RECURSIVE Groups(_)
Groups(v) == IF v < 128 THEN <<v>> ELSE Append(Groups(v \div 128), v % 128)

roidtox(v) ==
  LET g == Groups(v)
  IN  HexOf([i \in DOMAIN g |-> IF i < Len(g) THEN g[i] + 128 ELSE g[i]])

oidIntToHex(a) ==
  Even(Written(a[1] * 40 + a[2], 16))
  \o FlattenSeq([i \in 1..Len(a) - 2 |-> roidtox(a[i + 2])])

oidHexToInt(h) ==
  LET s == BytesOf(h)
      step(r, v) ==
        IF v >= 128 THEN [arcs |-> r.arcs, v |-> r.v * 128 + (v % 128)]
        ELSE [arcs |-> Append(r.arcs, r.v * 128 + v), v |-> 0]
  IN  <<s[1] \div 40, s[1] % 40>> \o FoldLeft(step, [arcs |-> <<>>, v |-> 0], Tail(s)).arcs

\* Trailing zeros go; the bits that fill the last byte are counted in front.
setByBinaryString(s) ==
  LET ones == {i \in DOMAIN s : s[i] = 1}
      bits == SubSeq(s, 1, IF ones = {} THEN 0 ELSE Max(ones))
      unusedBits == (8 - (Len(bits) % 8)) % 8
      full == bits \o [i \in 1..unusedBits |-> 0]
  IN  <<0, unusedBits>>
      \o FlattenSeq([i \in 1..Len(full) \div 4 |-> <<FromBits(SubSeq(full, 4 * i - 3, 4 * i))>>])

\* Which of two strings of digits sort() puts first.
Before(h, k) ==
  LET differ == {i \in DOMAIN h \cap DOMAIN k : h[i] # k[i]}
  IN  IF differ = {} THEN Len(h) <= Len(k) ELSE h[Min(differ)] < k[Min(differ)]

\* getEncodedHex of an object of each class.
DERBoolean == TLV(1, <<15, 15>>)
DERNull == TLV(5, <<>>)
DERInteger(v) == TLV(2, bigIntToMinTwosComplementsHex(Make(v)))
DEREnumerated(v) == TLV(10, bigIntToMinTwosComplementsHex(Make(v)))
DERBitString(hV) == TLV(3, hV)
DEROctetString(s) == TLV(4, s)
DERObjectIdentifier(a) == TLV(6, oidIntToHex(a))
DERUTF8String(s) == TLV(12, s)
DERSequence(items) == TLV(48, FlattenSeq(items))
DERSet(items) == TLV(49, FlattenSeq(SortSeq(items, Before)))
DERTaggedObject(v, obj) ==
  IF v.explicit THEN TLV(v.tag, obj)
  ELSE <<v.tag \div 16, v.tag % 16>> \o SubSeq(obj, 3, Len(obj))

\* newObject(param).getEncodedHex(), param = [key, v].
RECURSIVE newObject(_)
newObject(param) ==
  LET v == param.v
      items == [i \in DOMAIN v |-> newObject(v[i])]
  IN  CASE param.key = "bool" -> DERBoolean
        [] param.key = "null" -> DERNull
        [] param.key = "int" -> DERInteger(v)
        [] param.key = "enum" -> DEREnumerated(v)
        [] param.key = "bitstr" ->
             DERBitString(IF v.bin THEN setByBinaryString(v.s) ELSE <<0, 0>> \o newObject(v.obj))
        [] param.key = "octstr" -> DEROctetString(IF v.hex THEN v.s ELSE newObject(v.obj))
        [] param.key = "oid" -> DERObjectIdentifier(v)
        [] param.key = "utf8str" -> DERUTF8String(v)
        [] param.key = "seq" -> DERSequence(items)
        [] param.key = "set" -> DERSet(items)
        [] param.key = "tag" -> DERTaggedObject(v, newObject(v.obj))
-----------------------------------------------------------------------------
(* JSEncryptRSAKey                                                         *)

P(key, v) == [key |-> key, v |-> v]
KeyFields == <<"n", "e", "d", "p", "q", "dmp1", "dmq1", "coeff">>
NoKey == [f \in ToSet(KeyFields) |-> IF f = "e" THEN 0 ELSE Null]

\* A key has an integer for each of its fields here.
PrivateKey(k) ==
  P("seq", <<P("int", 0)>> \o [i \in DOMAIN KeyFields |-> P("int", k[KeyFields[i]])])
getPrivateBaseKey(k) == newObject(PrivateKey(k))

rsaEncryption == <<1, 2, 840, 113549, 1, 1, 1>>

getPublicBaseKey(k) ==
  LET second_sequence == P("seq", <<P("int", k.n), P("int", k.e)>>)
      first_sequence == P("seq", <<P("oid", rsaEncryption), P("null", 0)>>)
  IN  newObject(P("seq", <<first_sequence, P("bitstr", [bin |-> FALSE, obj |-> second_sequence])>>))

\* parseKey sets one field after another and stops where the encoding throws: the
\* fields before are set, and the caller does not look at what it returns.
SetFields(enc, subs, names) ==
  LET hex == [i \in DOMAIN names |-> getHexStringValue(enc, subs[i])]
      bad == {i \in DOMAIN names : hex[i] = Thrown}
      read == 1..(IF bad = {} THEN Len(names) ELSE Min(bad) - 1)
      set == {names[i] : i \in read}
  IN  [ok |-> bad = {},
       key |-> [f \in ToSet(KeyFields) |->
                 IF f \in set THEN Value(FromString(hex[CHOOSE i \in read : names[i] = f], 16))
                 ELSE NoKey[f]]]

\* Sub-element i of e, if it is there; without sub-elements, or beyond the last, the
\* code reads a property of null or of undefined, and throws.
HasSub(e, i) == e.has /\ i <= Len(e.sub)

parseKey(enc) ==
  LET top == decode(enc, 0)
      wrapped == top.ok /\ top.has /\ Len(top.sub) = 3
      unwraps == HasSub(top.sub[3], 1)
      asn1 == IF wrapped THEN top.sub[3].sub[1] ELSE top
      pub == asn1.sub[2].sub[1]
      failed == [ok |-> FALSE, key |-> NoKey]
  IN  IF ~top.ok \/ ~top.has \/ (wrapped /\ ~unwraps) THEN failed
      ELSE IF ~asn1.has THEN failed
      ELSE IF Len(asn1.sub) = 9 THEN SetFields(enc, Tail(asn1.sub), KeyFields)
      ELSE IF Len(asn1.sub) # 2 \/ ~HasSub(asn1.sub[2], 1) THEN failed
      ELSE IF ~HasSub(pub, 1) THEN failed
      ELSE IF ~HasSub(pub, 2) THEN [SetFields(enc, pub.sub, <<"n">>) EXCEPT !.ok = FALSE]
      ELSE SetFields(enc, SubSeq(pub.sub, 1, 2), <<"n", "e">>)
-----------------------------------------------------------------------------
(* PKCS#1: a message of n bytes                                            *)

Utf8(c) ==
  IF c < 128 THEN <<c>>
  ELSE IF c < 2048 THEN <<192 + c \div 64, 128 + (c % 64)>>
  ELSE <<224 + c \div 4096, 128 + ((c \div 64) % 64), 128 + (c % 64)>>

\* The length is checked in characters; bytes that have no room go to negative
\* indexes, where no one looks.
pkcs1pad2(s, n, random) ==
  LET bytes == FlattenSeq([i \in DOMAIN s |-> Utf8(s[i])])
      pad == [i \in 1..Most(n - 3 - Len(bytes), 0) |-> random]
      all == <<0, 2>> \o pad \o <<0>> \o bytes
  IN  IF n < Len(s) + 11 THEN Thrown ELSE SubSeq(all, Len(all) - n + 1, Len(all))

\* UTF-8; a byte that is missing counts as 0.
RECURSIVE Characters(_)
Characters(s) ==
  LET c == s[1]
      low(i) == IF i > Len(s) THEN 0 ELSE s[i] % 64
  IN  IF s = <<>> THEN <<>>
      ELSE IF c < 128 THEN <<c>> \o Characters(Tail(s))
      ELSE IF c > 191 /\ c < 224
      THEN <<(c % 32) * 64 + low(2)>> \o Characters(SubSeq(s, 3, Len(s)))
      ELSE <<(c % 16) * 4096 + low(2) * 64 + low(3)>> \o Characters(SubSeq(s, 4, Len(s)))

\* What is left of the bytes when they are a number: no zeros in front.
pkcs1unpad2(d, n) ==
  LET used == {i \in DOMAIN d : d[i] # 0}
      b == SubSeq(d, IF used = {} THEN 1 ELSE Min(used), Len(d))
      zeros == {i \in 2..Len(b) : b[i] = 0}
  IN  IF Len(b) # n - 1 \/ b[1] # 2 \/ zeros = {} THEN Thrown
      ELSE Characters(SubSeq(b, Min(zeros) + 1, Len(b)))

\* Signatures, in digits: the filler ends at a multiple of two, the header tells the
\* digest; verify takes both away again.
pkcs1pad1(s, n) ==
  IF n < Len(s) + 22 THEN Thrown
  ELSE <<0, 0, 0, 1>> \o [i \in 1..2 * ((n - Len(s) - 5) \div 2) |-> 15] \o <<0, 0>> \o s

\* replace(/^1f+00/, "") of a number's digits.
Unpadded(m) ==
  LET h == DropZeros(m)
      rest == {i \in 2..Len(h) : h[i] # 15}
      end == Min(rest)
  IN  IF h[1] = 1 /\ rest # {} /\ 2 < end /\ end < Len(h) /\ SubSeq(h, end, end + 1) = <<0, 0>>
      THEN SubSeq(h, end + 2, Len(h)) ELSE h

\* headers = digest name :> its digits.
removeDigestHeader(s, headers) ==
  LET known == {n \in DOMAIN headers : IsPrefix(headers[n], s)}
  IN  IF known = {} THEN s ELSE SubSeq(s, Len(headers[CHOOSE n \in known : TRUE]) + 1, Len(s))

getDigestHeader(name, headers) == IF name \in DOMAIN headers THEN headers[name] ELSE <<>>
-----------------------------------------------------------------------------
(* What is written is read again                                           *)

Init == asked = [call |-> "nothing"]

\* Base 64 for the wire and back, by both decoders; hexadecimal with line breaks.
CodesRead(h) ==
  /\ b64tohex(hex2b64(h)) = h
  /\ HexOf(Base64Decode(hex2b64(h))) = h
  /\ HexOf(HexDecode(<<Blank>> \o h \o <<Equals>>)) = h

Content(h) == BytesOf(SubSeq(h, 5, Len(h)))
IntegerReads(v) ==
  \A key \in {"int", "enum"} : parseInteger(Content(newObject(P(key, v)))) = v
OidReads(a) ==
  parseOID(Content(newObject(P("oid", a)))) = a /\ oidHexToInt(oidIntToHex(a)) = a
BitsRead(s) ==
  LET ones == {i \in DOMAIN s : s[i] = 1}
  IN  parseBitString(BytesOf(setByBinaryString(s)))
        = SubSeq(s, 1, IF ones = {} THEN 0 ELSE Max(ones))

\* The tree of a parameter, and of what the decoder found: tags, and the digits of leaves.
TagOf == [bool |-> 1, int |-> 2, bitstr |-> 3, octstr |-> 4, null |-> 5, oid |-> 6,
          enum |-> 10, utf8str |-> 12, seq |-> 16, set |-> 17]
RECURSIVE Tree(_, _), TreeOf(_)
Tree(enc, e) ==
  [tag |-> e.tag.number,
   sub |-> IF e.has THEN [i \in DOMAIN e.sub |-> Tree(enc, e.sub[i])] ELSE <<>>,
   leaf |-> IF e.has THEN <<>> ELSE getHexStringValue(enc, e)]
TreeOf(param) ==
  LET h == newObject(param)
      v == param.v
      subs == CASE param.key = "seq" -> v
                [] param.key = "set" -> SortSeq(v, LAMBDA a, b : Before(newObject(a), newObject(b)))
                [] param.key \in {"bitstr", "octstr"} -> IF "obj" \in DOMAIN v THEN <<v.obj>> ELSE <<>>
                [] param.key = "tag" -> IF v.explicit THEN <<v.obj>>
                                        ELSE IF v.obj.key = "seq" THEN v.obj.v ELSE <<>>
                [] OTHER -> <<>>
      header == IF h[3] < 8 THEN 4 ELSE 4 + 2 * h[4]
  IN  [tag |-> IF param.key = "tag" THEN v.tag % 32 ELSE TagOf[param.key],
       sub |-> [i \in DOMAIN subs |-> TreeOf(subs[i])],
       leaf |-> IF subs # <<>> \/ param.key \in {"seq", "set"} THEN <<>>
                ELSE SubSeq(h, header + 1, Len(h))]
TreeReads(param) ==
  LET enc == BytesOf(newObject(param)) IN Tree(enc, decode(enc, 0)) = TreeOf(param)

\* Short and long forms of the length.
LengthReads(n) ==
  LET enc == BytesOf(newObject(P("octstr", [hex |-> TRUE, s |-> [i \in 1..2 * n |-> 14 - 5 * (i % 2)]])))
      e == decode(enc, 0)
  IN  e.len = n /\ posEnd(e) = Len(enc)

\* Whatever the bytes are: if they decode, each element's content is filled by its
\* sub-elements, end to end.
RECURSIVE Nested(_)
Nested(e) ==
  e.has /\ e.sub # <<>> =>
    LET mark == IF e.len < 0 THEN 2 ELSE 0
        skip == IF ~e.tag.constructed /\ e.tag.number = 3 THEN 1 ELSE 0
    IN  /\ e.sub[1].start = posContent(e) + skip
        /\ \A i \in 2..Len(e.sub) : e.sub[i].start = posEnd(e.sub[i - 1])
        /\ posEnd(e.sub[Len(e.sub)]) + mark = posEnd(e)
        /\ \A i \in DOMAIN e.sub : Nested(e.sub[i])
BytesDecode(s) == LET e == decode(s, 0) IN e.ok => Nested(e)

\* A key is written and parsed: private, wrapped as PKCS#8, public; and cut off.
KeyReads(k) ==
  LET Wrap == P("seq", <<P("int", 0), P("seq", <<P("oid", rsaEncryption), P("null", 0)>>),
                         P("octstr", [hex |-> FALSE, obj |-> PrivateKey(k)])>>)
      Read(h) == parseKey(BytesOf(h))
  IN  /\ \A h \in {getPrivateBaseKey(k), newObject(Wrap)} : Read(h) = [ok |-> TRUE, key |-> k]
      /\ Read(getPublicBaseKey(k)) = [ok |-> TRUE, key |-> [NoKey EXCEPT !.n = k.n, !.e = k.e]]
CutKeyReads(k) ==
  \A h \in {getPrivateBaseKey(k), getPublicBaseKey(k)} : \A cut \in 1..4 :
    LET r == parseKey(SubSeq(BytesOf(h), 1, Len(h) \div 2 - cut))
    IN  ~r.ok /\ \A f \in DOMAIN k : r.key[f] \in {NoKey[f], k[f]}

\* A message comes back if its bytes fit with the three marks, whatever its characters;
\* one that does not fit is refused or found not to be a message.
MessageReads(s, n) ==
  LET m == pkcs1pad2(s, n, 9)
      size == Len(FlattenSeq([i \in DOMAIN s |-> Utf8(s[i])]))
  IN  (IF m = Thrown THEN m ELSE pkcs1unpad2(m, n))
        = IF n >= Len(s) + 11 /\ n >= size + 3 THEN s ELSE Thrown

SignatureReads(digest, n) ==
  \A name \in DOMAIN Headers \cup {"unknown"} :
    LET m == pkcs1pad1(getDigestHeader(name, Headers) \o digest, n)
    IN  m # Thrown => removeDigestHeader(Unpadded(m), Headers) = digest
-----------------------------------------------------------------------------
Ask(call) == asked.call = "nothing" /\ asked' = call

Next ==
  \/ \E h \in HexStrings : Ask([call |-> "codes", h |-> h])
  \/ \E v \in Integers1 : Ask([call |-> "integer", v |-> v])
  \/ \E a \in Oids : Ask([call |-> "oid", a |-> a])
  \/ \E s \in BitStrings : Ask([call |-> "bits", s |-> s])
  \/ \E i \in DOMAIN Params : Ask([call |-> "tree", i |-> i])
  \/ \E n \in Lengths : Ask([call |-> "length", n |-> n])
  \/ \E s \in ByteStrings : Ask([call |-> "decode", s |-> s])
  \/ \E k \in Keys : Ask([call |-> "key", k |-> k])
  \/ \E s \in MessageTexts, n \in MessageSizes : Ask([call |-> "message", s |-> s, n |-> n])
  \/ \E d \in Digests, n \in MessageSizes : Ask([call |-> "signature", d |-> d, n |-> n + 12])
-----------------------------------------------------------------------------
\* What is written is read again, by whichever of the two libraries in this file.
ReadAgain(ask) ==
  CASE ask.call = "nothing" -> TRUE
    [] ask.call = "codes" -> CodesRead(ask.h)
    [] ask.call = "integer" -> IntegerReads(ask.v)
    [] ask.call = "oid" -> OidReads(ask.a)
    [] ask.call = "bits" -> BitsRead(ask.s)
    [] ask.call = "tree" -> TreeReads(Params[ask.i])
    [] ask.call = "length" -> LengthReads(ask.n)
    [] ask.call = "decode" -> BytesDecode(ask.s)
    [] ask.call = "key" -> KeyReads(ask.k) /\ CutKeyReads(ask.k)
    [] ask.call = "message" -> MessageReads(ask.s, ask.n)
    [] ask.call = "signature" -> SignatureReads(ask.d, ask.n)
=============================================================================
