----------------------------- MODULE TokenBucket -----------------------------
(***************************************************************************)
(* What a rate limiter promises: a bucket into which no more than Rate     *)
(* tokens fall in a second, up to its capacity, and out of which one token *)
(* is taken for every request that is let through.  A second is Second     *)
(* ticks of the clock; the level is counted in parts of a token, Second to *)
(* the token.                                                              *)
(***************************************************************************)
EXTENDS Naturals

CONSTANTS Rate, Second

VARIABLES
  capacity, \* tokens the bucket holds
  level,    \* parts of tokens in the bucket
  granted,  \* requests let through since the clock last ticked or a Reset
  resets    \* how often it was filled up by hand

bucket == <<capacity, level, granted, resets>>

Full == capacity * Second

Init ==
  /\ capacity \in Nat
  /\ level \in 0..Full
  /\ granted = 0
  /\ resets = 0

Take ==
  /\ level >= Second
  /\ level' \in 0..(level - Second)
  /\ granted' = granted + 1
  /\ UNCHANGED <<capacity, resets>>

\* A limiter may forget parts of tokens at any time, never invent them.
Lose ==
  /\ level' \in 0..level
  /\ UNCHANGED <<capacity, granted, resets>>

Tick ==
  /\ level' \in 0..(IF level + Rate < Full THEN level + Rate ELSE Full)
  /\ granted' = 0
  /\ UNCHANGED <<capacity, resets>>

\* Another bucket is put beside this one, with no more in it than it holds.
Grow ==
  /\ capacity' \in Nat
  /\ capacity' > capacity
  /\ level' \in 0..(level + (capacity' - capacity) * Second)
  /\ UNCHANGED <<granted, resets>>

Reset ==
  /\ level' \in 0..Full
  /\ granted' = 0
  /\ resets' = resets + 1
  /\ UNCHANGED capacity

Next == Take \/ Lose \/ Tick \/ Grow \/ Reset

Spec == Init /\ [][Next]_bucket
-----------------------------------------------------------------------------
\* However requests and ticks fall, no more is handed out at one instant than
\* the bucket holds.
BurstWithinCapacity == granted <= capacity
=============================================================================
