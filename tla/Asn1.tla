-------------------------------- MODULE Asn1 --------------------------------
(***************************************************************************)
(* The encodings of webapp/static/jsencrypt.js: hexadecimal and base 64,   *)
(* the ASN.1 decoder (asn1js), the DER encoder (KJUR.asn1), the encoding   *)
(* of RSA keys and the padding of PKCS#1.  Bytes are 0..255; a character   *)
(* is the digit it stands for, or one of the three below.  A call that     *)
(* throws returns Thrown.                                                  *)
(***************************************************************************)
EXTENDS BigInteger

CONSTANTS
  Int10Max  \* of a decimal digit of Int10; 10^13 in the code

Blank == -1
Equals == -2
Illegal == -3
Thrown == <<-1>>

HexOf(bytes) == FlattenSeq([i \in DOMAIN bytes |-> <<bytes[i] \div 16, bytes[i] % 16>>])
UpTo(s, c) == IF Contains(s, c) THEN SubSeq(s, 1, SelectInSeq(s, LAMBDA d : d = c) - 1) ELSE s
Digits(s) == SelectSeq(s, LAMBDA c : c >= 0)
-----------------------------------------------------------------------------
(* Hexadecimal and base 64                                                 *)

\* Three digits give two characters; one or two that are left are shifted up.
hex2b64(h) ==
  LET n == Len(h) \div 3
      three(i) == h[3 * i - 2] * 256 + h[3 * i - 1] * 16 + h[3 * i]
      rest == CASE Len(h) % 3 = 0 -> <<>>
                [] Len(h) % 3 = 1 -> <<h[Len(h)] * 4>>
                [] Len(h) % 3 = 2 -> <<h[Len(h) - 1] * 4 + h[Len(h)] \div 4, (h[Len(h)] % 4) * 16>>
      ret == FlattenSeq([i \in 1..n |-> <<three(i) \div 64, three(i) % 64>>]) \o rest
  IN  ret \o [i \in 1..((4 - (Len(ret) % 4)) % 4) |-> Equals]

\* k of four characters are read; slop are their bits that do not fill a digit.
b64tohex(s) ==
  LET step(r, v) ==
        CASE r.k = 0 -> [k |-> 1, slop |-> v % 4, ret |-> Append(r.ret, v \div 4)]
          [] r.k = 1 -> [k |-> 2, slop |-> v % 16, ret |-> Append(r.ret, r.slop * 4 + v \div 16)]
          [] r.k = 2 -> [k |-> 3, slop |-> v % 4, ret |-> r.ret \o <<r.slop, v \div 4>>]
          [] r.k = 3 -> [k |-> 0, slop |-> 0, ret |-> r.ret \o <<r.slop * 4 + v \div 16, v % 16>>]
      end == FoldLeft(step, [k |-> 0, slop |-> 0, ret |-> <<>>], Digits(UpTo(s, Equals)))
  IN  IF end.k = 1 THEN Append(end.ret, end.slop * 4) ELSE end.ret

HexDecode(a) ==
  LET s == Digits(UpTo(a, Equals))
  IN  IF Contains(UpTo(a, Equals), Illegal) \/ Len(s) % 2 = 1 THEN Thrown
      ELSE [i \in 1..Len(s) \div 2 |-> s[2 * i - 1] * 16 + s[2 * i]]

Base64Decode(a) ==
  LET s == Digits(UpTo(a, Equals))
      n == Len(s) \div 4
      bits(i) == ((s[i] * 64 + s[i + 1]) * 64 + s[i + 2]) * 64 + s[i + 3]
      three(b) == <<b \div 65536, (b \div 256) % 256, b % 256>>
      last == SubSeq(s, 4 * n + 1, Len(s))
  IN  IF Contains(UpTo(a, Equals), Illegal) \/ Len(last) = 1 THEN Thrown
      ELSE FlattenSeq([i \in 1..n |-> three(bits(4 * i - 3))])
           \o CASE Len(last) = 0 -> <<>>
                [] Len(last) = 2 -> <<(last[1] * 64 + last[2]) \div 16>>
                [] Len(last) = 3 -> LET b == (last[1] * 64 + last[2]) * 64 + last[3]
                                    IN  <<b \div 1024, (b \div 4) % 256>>
-----------------------------------------------------------------------------
(* Int10: decimal digits of many places, the lowest first                  *)

mulAdd(buf, m, c0) ==
  LET step(r, b) ==
        LET t == b * m + r.c
        IN  IF t < Int10Max THEN [c |-> 0, buf |-> Append(r.buf, t)]
            ELSE [c |-> t \div Int10Max, buf |-> Append(r.buf, t % Int10Max)]
      end == FoldLeft(step, [c |-> c0, buf |-> <<>>], buf)
  IN  IF end.c > 0 THEN Append(end.buf, end.c) ELSE end.buf

sub(buf, c0) ==
  LET step(r, b) ==
        IF b - r.c < 0 THEN [c |-> 1, buf |-> Append(r.buf, b - r.c + Int10Max)]
        ELSE [c |-> 0, buf |-> Append(r.buf, b - r.c)]
      end == FoldLeft(step, [c |-> c0, buf |-> <<>>], buf).buf
      used == {i \in DOMAIN end : end[i] # 0}
  IN  SubSeq(end, 1, IF used = {} THEN 0 ELSE Max(used))

valueOf(buf) == FoldRight(LAMBDA b, v : v * Int10Max + b, buf, 0)
-----------------------------------------------------------------------------
(* The decoder.  Positions count from 0; what reads past the end throws.   *)

Undefined == -1  \* length of content that ends with its own mark

get(enc, pos) == enc[pos + 1]
Ends(enc, pos) == pos >= Len(enc)
Slice(enc, start, end) == SubSeq(enc, start + 1, end)

RECURSIVE LongTag(_, _, _)
LongTag(enc, pos, n) ==
  IF Ends(enc, pos) THEN [ok |-> FALSE]
  ELSE LET m == mulAdd(n, 128, get(enc, pos) % 128)
       IN  IF get(enc, pos) >= 128 THEN LongTag(enc, pos + 1, m)
           ELSE [ok |-> TRUE, number |-> m, pos |-> pos + 1]

ASN1Tag(enc, pos) ==
  LET b == get(enc, pos)
      long == LongTag(enc, pos + 1, <<0>>)
      tag == [ok |-> TRUE, class |-> b \div 64, constructed |-> (b \div 32) % 2 = 1]
  IN  IF Ends(enc, pos) THEN [ok |-> FALSE]
      ELSE IF b % 32 # 31 THEN tag @@ [number |-> b % 32, pos |-> pos + 1]
      ELSE IF ~long.ok THEN [ok |-> FALSE]
      ELSE tag @@ [number |-> valueOf(long.number), pos |-> long.pos]

isUniversal(tag) == tag.class = 0
isEOC(tag) == tag.class = 0 /\ tag.number = 0

decodeLength(enc, pos) ==
  LET b == get(enc, pos)
      len == b % 128
      big == FoldLeft(LAMBDA v, d : v * 256 + d, 0, Slice(enc, pos + 1, pos + 1 + len))
  IN  IF Ends(enc, pos) THEN [ok |-> FALSE]
      ELSE IF len = b THEN [ok |-> TRUE, len |-> len, pos |-> pos + 1]
      ELSE IF len > 6 \/ pos + len >= Len(enc) THEN [ok |-> FALSE]
      ELSE IF len = 0 THEN [ok |-> TRUE, len |-> Undefined, pos |-> pos + 1]
      ELSE [ok |-> TRUE, len |-> big, pos |-> pos + 1 + len]

\* An element at pos: where it starts, its header and length, its tag and, if it has
\* any, its sub-elements; pos is where the stream is then.
RECURSIVE decode(_, _), SubsTo(_, _, _, _), SubsToEOC(_, _, _)
decode(enc, p) ==
  LET tag == ASN1Tag(enc, p)
      length == decodeLength(enc, tag.pos)
      start == length.pos
      wraps == isUniversal(tag) /\ tag.number \in {3, 4}
      skips == IF tag.constructed THEN 0 ELSE IF tag.number = 3 THEN 1 ELSE 0
      subs == IF length.len = Undefined THEN SubsToEOC(enc, start + skips, <<>>)
              ELSE SubsTo(enc, start + skips, start + length.len, <<>>)
      has == \/ tag.constructed
             \/ /\ wraps /\ (skips = 1 => ~Ends(enc, start) /\ get(enc, start) = 0)
                /\ subs.ok /\ \A i \in DOMAIN subs.sub : ~isEOC(subs.sub[i].tag)
      len == IF length.len = Undefined THEN start - subs.pos ELSE length.len
  IN  IF ~tag.ok \/ ~length.ok THEN [ok |-> FALSE]
      ELSE IF has
      THEN IF ~subs.ok THEN [ok |-> FALSE]
           ELSE [ok |-> TRUE, start |-> p, header |-> start - p, len |-> len, tag |-> tag,
                 has |-> TRUE, sub |-> subs.sub, pos |-> subs.pos]
      ELSE IF length.len = Undefined THEN [ok |-> FALSE]
      ELSE [ok |-> TRUE, start |-> p, header |-> start - p, len |-> len, tag |-> tag,
            has |-> FALSE, sub |-> <<>>, pos |-> start + len]

SubsTo(enc, pos, end, ret) ==
  LET s == decode(enc, pos)
  IN  IF pos >= end THEN [ok |-> pos = end, sub |-> ret, pos |-> pos]
      ELSE IF s.ok THEN SubsTo(enc, s.pos, end, Append(ret, s)) ELSE [ok |-> FALSE]

SubsToEOC(enc, pos, ret) ==
  LET s == decode(enc, pos)
  IN  IF ~s.ok THEN [ok |-> FALSE]
      ELSE IF isEOC(s.tag) THEN [ok |-> TRUE, sub |-> ret, pos |-> s.pos]
      ELSE SubsToEOC(enc, s.pos, Append(ret, s))

posContent(e) == e.start + e.header
posEnd(e) == e.start + e.header + (IF e.len < 0 THEN -e.len ELSE e.len)

\* The digits of the content; an element that is cut off throws.
getHexStringValue(enc, e) ==
  IF posEnd(e) > Len(enc) THEN Thrown
  ELSE IF e.len < 0 THEN <<>>
  ELSE HexOf(Slice(enc, posContent(e), posContent(e) + e.len))

\* What content() reads of an element, without the way it is displayed.
parseInteger(s) ==
  LET neg == s[1] > 127
      pad == IF neg THEN 255 ELSE 0
      used == {i \in DOMAIN s : s[i] # pad}
      first == IF used = {} THEN Len(s) ELSE Min(used)
      v == IF neg THEN s[first] - 256 ELSE s[first]
      n == FoldLeft(LAMBDA buf, b : mulAdd(buf, 256, b), <<v>>, SubSeq(s, first + 1, Len(s)))
  IN  IF used = {} THEN (IF neg THEN -1 ELSE 0) ELSE valueOf(n)

parseBitString(s) ==
  LET bit(i) == (s[(i - 1) \div 8 + 2] \div 2^(7 - ((i - 1) % 8))) % 2
  IN  [i \in 1..(Len(s) - 1) * 8 - s[1] |-> bit(i)]

parseOID(s) ==
  LET step(r, v) ==
        LET n == mulAdd(r.n, 128, v % 128)
            m == IF valueOf(n) < 40 THEN 0 ELSE IF valueOf(n) < 80 THEN 1 ELSE 2
        IN  IF v >= 128 THEN [arcs |-> r.arcs, n |-> n]
            ELSE IF r.arcs = <<>>
            THEN [arcs |-> IF Len(n) > 1 THEN <<2, valueOf(sub(n, 80))>>
                           ELSE <<m, valueOf(n) - m * 40>>, n |-> <<0>>]
            ELSE [arcs |-> Append(r.arcs, valueOf(n)), n |-> <<0>>]
  IN  FoldLeft(step, [arcs |-> <<>>, n |-> <<0>>], s).arcs

=============================================================================
