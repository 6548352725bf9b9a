---------------------------- MODULE EncoderCache ----------------------------
(***************************************************************************)
(* The objects of KJUR.asn1 (webapp/static/jsencrypt.js) keep the encoding *)
(* they gave last.  A DERInteger and a DERSequence that holds it: what a   *)
(* setter does not tell, getEncodedHex does not see.                       *)
(***************************************************************************)
EXTENDS Naturals, Sequences

CONSTANTS
  Values1, Nothing,
  MaxItems  \* appended

VARIABLES
  leaf,     \* hV; hTLV, Nothing or the value it encodes; isModified
  seq,      \* asn1Array's length, hTLV and isModified
  untold,   \* setValueHex came after the leaf was encoded
  below     \* the leaf was changed after the sequence was encoded

cacheVars == <<leaf, seq, untold, below>>

Init ==
  /\ leaf \in [hV : Values1, hTLV : {Nothing}, isModified : {TRUE}]
  /\ seq = [items |-> 0, hTLV |-> Nothing, isModified |-> FALSE]
  /\ untold = FALSE /\ below = FALSE

setByBigInteger(v) ==
  /\ leaf' = [hV |-> v, hTLV |-> Nothing, isModified |-> TRUE]
  /\ untold' = FALSE /\ below' = TRUE
  /\ UNCHANGED seq

\* Sets the value and nothing else.
setValueHex(v) ==
  /\ leaf' = [leaf EXCEPT !.hV = v]
  /\ untold' = (leaf.hTLV # Nothing /\ ~leaf.isModified) /\ below' = TRUE
  /\ UNCHANGED seq

appendASN1Object ==
  /\ seq.items < MaxItems
  /\ seq' = [items |-> seq.items + 1, hTLV |-> Nothing, isModified |-> TRUE]
  /\ UNCHANGED <<leaf, untold, below>>

Fresh(o, value) ==
  IF o.hTLV = Nothing \/ o.isModified THEN [o EXCEPT !.hTLV = value, !.isModified = FALSE] ELSE o

getLeafHex == leaf' = Fresh(leaf, leaf.hV) /\ UNCHANGED <<seq, untold, below>>

\* Encodes the items if it has to; they answer from what they keep.
getSequenceHex ==
  LET stale == seq.hTLV = Nothing \/ seq.isModified
      item == Fresh(leaf, leaf.hV)
  IN  /\ leaf' = IF stale /\ seq.items > 0 THEN item ELSE leaf
      /\ seq' = Fresh(seq, [i \in 1..seq.items |-> item.hTLV])
      /\ below' = (below /\ ~stale)
      /\ UNCHANGED untold

Next ==
  \/ \E v \in Values1 : setByBigInteger(v) \/ setValueHex(v)
  \/ appendASN1Object \/ getLeafHex \/ getSequenceHex
-----------------------------------------------------------------------------
\* What is kept and would be given again is the encoding of the value, unless the value
\* was set by the setter that does not tell, or the change was in an item of a sequence
\* that was encoded before: no order of the calls makes anything else stale.
StaleOnlyWhenUntold ==
  /\ leaf.hTLV # Nothing /\ ~leaf.isModified /\ ~untold => leaf.hTLV = leaf.hV
  /\ seq.hTLV # Nothing /\ ~seq.isModified /\ ~below =>
       /\ Len(seq.hTLV) = seq.items
       /\ ~untold => \A i \in DOMAIN seq.hTLV : seq.hTLV[i] = leaf.hV
=============================================================================
