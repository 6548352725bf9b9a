--------------------------- MODULE EncodingCalls ----------------------------
(***************************************************************************)
(* A word array that its owner makes longer with what texts of several     *)
(* encodings hold, and shorter by setting sigBytes, as the key derivations *)
(* do; words behind the end stay in it.                                    *)
(***************************************************************************)
EXTENDS WordArrays

CONSTANTS
  Texts,     \* a sequence of texts, each <<its encoding, its characters, the bytes it holds>>
  MaxLength, \* bound: bytes in the array
  MaxCalls   \* bound

VARIABLES
  wordArray,
  wanted,    \* history: the bytes it should hold
  calls

arrayVars == <<wordArray, wanted, calls>>

Parse(encoding, s) ==
  CASE encoding = "Hex" -> HexParse(s) [] encoding = "Base64" -> Base64Parse(s)
    [] encoding = "Latin1" -> Latin1Parse(s) [] encoding = "Utf8" -> Utf8Parse(s)
    [] encoding = "Utf16BE" -> Utf16BEParse(s) [] encoding = "Utf16LE" -> Utf16LEParse(s)
Stringify(encoding, a) ==
  CASE encoding = "Hex" -> HexStringify(a) [] encoding = "Base64" -> Base64Stringify(a)
    [] encoding = "Latin1" -> Latin1Stringify(a) [] encoding = "Utf8" -> Utf8Stringify(a)
    [] encoding = "Utf16BE" -> Utf16BEStringify(a) [] encoding = "Utf16LE" -> Utf16LEStringify(a)

Init == wordArray = None /\ wanted = <<>> /\ calls = 0

Extend(text) ==
  /\ wordArray.sigBytes + Len(text[3]) <= MaxLength
  /\ wordArray' = concat(wordArray, Parse(text[1], text[2]))
  /\ wanted' = wanted \o text[3]

Shorten(n) ==
  /\ n < wordArray.sigBytes
  /\ wordArray' = [wordArray EXCEPT !.sigBytes = n]
  /\ wanted' = SubSeq(wanted, 1, n)

Next ==
  /\ calls < MaxCalls /\ calls' = calls + 1
  /\ \/ \E k \in DOMAIN Texts : Extend(Texts[k])
     \/ \E n \in 0..MaxLength : Shorten(n)
-----------------------------------------------------------------------------
\* UTF-16 takes two bytes for a character; bytes need not be UTF-8.
CanHold(encoding, s) ==
  CASE encoding \in {"Utf16BE", "Utf16LE"} -> Len(s) % 2 = 0
    [] encoding = "Utf8" -> Utf8Stringify(Bytes(s)) # Malformed
    [] OTHER -> TRUE

\* Whatever lies behind the end of the array: it holds the bytes of the texts, and as a
\* text of any encoding that can hold them it is read back as the same bytes.
ArrayRight(array, bytes) ==
  /\ BytesOf(array) = bytes /\ BytesOf(clamp(array)) = bytes
  /\ \A encoding \in {"Hex", "Base64", "Latin1", "Utf8", "Utf16BE", "Utf16LE"} :
       CanHold(encoding, bytes) =>
         BytesOf(Parse(encoding, Stringify(encoding, array))) = bytes
=============================================================================
