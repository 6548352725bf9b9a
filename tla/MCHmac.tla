------------------------------- MODULE MCHmac --------------------------------
(***************************************************************************)
(* The HMACs with SHA-224 and SHA-384, whose digests are cut off from the  *)
(* words of a longer hash, which MCJsLibrary leaves out.  No digests of    *)
(* another implementation are given: the standard decides.                 *)
(***************************************************************************)
EXTENDS DigestCalls

MCText == <<97, 98, 99>>
MCKey == <<107, 101, 121, 49, 50>>
MCMacs == [a \in Hashes |-> IF a \in {"SHA224", "SHA384"} THEN {5} ELSE {}]
MCSalt == <<1>>
MCNone == <<>>

MCSpec == Init /\ [][Next]_digestVars

\* The HMAC that finalize answers is the standard's.
HmacRight == [][finalized' => DigestRight(algorithm', macKeySize', ends')]_digestVars
=============================================================================
