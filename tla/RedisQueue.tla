------------------------------ MODULE RedisQueue ------------------------------
(***************************************************************************)
(* org.jsirenia.queue: a queue kept in one Redis list, used by any number  *)
(* of producers and consumers at once.  DefaultRedisQueue and              *)
(* SpringRedisQueue send the same commands.  Each command is atomic; add   *)
(* with a capacity is two of them, LLEN and then LPUSH.                    *)
(*                                                                         *)
(* The list is a sequence with Redis' head first.  An element is known by  *)
(* its producer and its number among that producer's elements.             *)
(***************************************************************************)
EXTENDS Integers, SequencesExt

CONSTANTS
  Producer,
  Capacity,     \* capacity; 0 or less is no capacity
  MaxBatch,     \* most elements one call of add or take is given
  MaxElements   \* bound of the model: elements each producer ever offers

ASSUME QueueAssumption ==
  /\ IsFiniteSet(Producer) /\ Producer # {}
  /\ Capacity \in Int
  /\ MaxBatch \in Nat \ {0}
  /\ MaxElements \in Nat

VARIABLES
  queue,      \* the Redis list, head first
  offered,    \* [Producer -> number of elements passed to add so far]
  source,     \* [Producer -> the argument of the add that runs, <<>> if none]
  allowed,    \* [Producer -> how many of them LPUSH will be given, NotYet before LLEN]
  stored,     \* history: the elements LPUSH has been given
  singles,    \* history: what take() has returned, in order
  batches     \* history: what take(count) has returned, and what clear removed

vars == <<queue, offered, source, allowed, stored, singles, batches>>

NotYet == -1

Element == [by : Producer, nr : 1..MaxElements]

Init ==
  /\ queue = <<>>
  /\ offered = [p \in Producer |-> 0]
  /\ source = [p \in Producer |-> <<>>]
  /\ allowed = [p \in Producer |-> NotYet]
  /\ stored = {}
  /\ singles = <<>>
  /\ batches = {}

\* LPUSH puts its arguments at the head one after the other.
LPush(list, args) == Reverse(args) \o list

\* add is called; an empty argument returns 0 at once and changes nothing.
Add(p) ==
  /\ source[p] = <<>>
  /\ \E n \in 1..MaxBatch :
       /\ offered[p] + n <= MaxElements
       /\ source' = [source EXCEPT ![p] = [i \in 1..n |-> [by |-> p, nr |-> offered[p] + i]]]
       /\ offered' = [offered EXCEPT ![p] = @ + n]
  /\ UNCHANGED <<queue, allowed, stored, singles, batches>>

\* source.length - overSize, where it is positive; without a capacity, all.
Room(n, len) == IF Capacity > 0 /\ len + n > Capacity THEN Capacity - len ELSE n

\* The length is read.  Room below zero is a NegativeArraySizeException and no
\* room at all an LPUSH without elements, which Redis refuses: add throws.
ReadLength(p) ==
  /\ source[p] # <<>>
  /\ allowed[p] = NotYet
  /\ LET room == Room(Len(source[p]), Len(queue))
     IN  IF room > 0
         THEN allowed' = [allowed EXCEPT ![p] = room] /\ UNCHANGED source
         ELSE source' = [source EXCEPT ![p] = <<>>] /\ UNCHANGED allowed
  /\ UNCHANGED <<queue, offered, stored, singles, batches>>

Accepted(p) == SubSeq(source[p], 1, allowed[p])

Push(p) ==
  /\ allowed[p] > 0
  /\ queue' = LPush(queue, Accepted(p))
  /\ stored' = stored \cup Range(Accepted(p))
  /\ source' = [source EXCEPT ![p] = <<>>]
  /\ allowed' = [allowed EXCEPT ![p] = NotYet]
  /\ UNCHANGED <<offered, singles, batches>>

\* Mutant: take() is LPOP.
TakeNewest ==
  /\ queue # <<>>
  /\ singles' = Append(singles, Head(queue))
  /\ queue' = Tail(queue)
  /\ UNCHANGED <<offered, source, allowed, stored, batches>>

\* take() is RPOP.
TakeOne ==
  /\ queue # <<>>
  /\ singles' = Append(singles, Last(queue))
  /\ queue' = Front(queue)
  /\ UNCHANGED <<offered, source, allowed, stored, batches>>

\* take(count) is one script: LRANGE 0 count-1 and LTRIM count -1.
Trimmed(n) == SubSeq(queue, n + 1, Len(queue))

TakeMany(n) ==
  /\ queue # <<>>
  /\ batches' = batches \cup Range(SubSeq(queue, 1, IF n < Len(queue) THEN n ELSE Len(queue)))
  /\ queue' = Trimmed(n)
  /\ UNCHANGED <<offered, source, allowed, stored, singles>>

Clear ==
  /\ queue # <<>>
  /\ batches' = batches \cup Range(queue)
  /\ queue' = <<>>
  /\ UNCHANGED <<offered, source, allowed, stored, singles>>

Next ==
  \/ \E p \in Producer : Add(p) \/ ReadLength(p) \/ Push(p)
  \/ TakeOne
  \/ \E n \in 1..MaxBatch : TakeMany(n)
  \/ Clear

Spec == Init /\ [][Next]_vars
-----------------------------------------------------------------------------
TypeOK ==
  /\ queue \in Seq(Element)
  /\ offered \in [Producer -> 0..MaxElements]
  /\ source \in [Producer -> Seq(Element)]
  /\ allowed \in [Producer -> {NotYet} \cup 1..MaxBatch]
  /\ stored \subseteq Element
  /\ singles \in Seq(Element)
  /\ batches \subseteq Element

\* An element is handed out at most once, and none that was stored disappears
\* without having been handed out or cleared, whoever takes at the same time.
TakenOnce ==
  /\ stored = Range(queue) \cup Range(singles) \cup batches
  /\ Len(queue) = Cardinality(Range(queue))
  /\ Len(singles) = Cardinality(Range(singles))
  /\ Range(queue) \cap (Range(singles) \cup batches) = {}
  /\ Range(singles) \cap batches = {}

\* LLEN and LPUSH are not one command, so the capacity can be overshot, but by
\* no more than one batch for each other producer; never by a lone producer.
OvershootBounded ==
  Capacity > 0 =>
    Len(queue) <= Capacity + (Cardinality(Producer) - 1) * MaxBatch

\* The elements of one producer leave through take() in the order in which it
\* added them, whoever adds in between, whatever the capacity cuts off and
\* take(count) and clear remove.
SinglesInOrder ==
  \A i, j \in 1..Len(singles) :
    i < j /\ singles[i].by = singles[j].by => singles[i].nr < singles[j].nr
=============================================================================
