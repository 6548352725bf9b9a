----------------------------- MODULE RandomPool -----------------------------
(***************************************************************************)
(* The pool of random bytes of webapp/static/jsencrypt.js: filled when the *)
(* script is loaded if the browser has crypto, by mouse moves until it is  *)
(* full, and by Math.random for the rest when the first byte is asked for. *)
(* The generator is seeded with it once, and the pool wiped.  A byte of    *)
(* the pool is known by where it comes from.                               *)
(***************************************************************************)
EXTENDS Naturals, Sequences

CONSTANTS
  Nothing,
  rng_psize,  \* 256 in the code
  MaxMoves    \* 256 in the code: mouse moves the listener counts

VARIABLES
  rng_pool, rng_pptr,
  rng_state,  \* what the generator was seeded with, or Nothing
  count,      \* mouse moves used
  listening,  \* the listener is registered
  bytes       \* given out: 0, 1 for the first, 2 for more

poolVars == <<rng_pool, rng_pptr, rng_state, count, listening, bytes>>

Wiped == "wiped"

\* rng_pool[rng_pptr++] = byte
Put(byte) ==
  /\ rng_pool' = IF rng_pptr = Len(rng_pool) THEN Append(rng_pool, byte)
                 ELSE [rng_pool EXCEPT ![rng_pptr + 1] = byte]
  /\ rng_pptr' = rng_pptr + 1

Init ==
  /\ rng_pool \in {<<>>, [i \in 1..rng_psize |-> "crypto"]}
  /\ rng_pptr = Len(rng_pool)
  /\ rng_state = Nothing /\ count = 0 /\ listening = TRUE /\ bytes = 0

\* Mutant: moves are counted, the room in the pool is not looked at.
EnoughMoves == count >= MaxMoves

Enough == count >= MaxMoves \/ rng_pptr >= rng_psize

\* A listener that has had enough removes itself; the browser may deny it the position.
onMouseMove ==
  /\ listening
  /\ \/ /\ Enough
        /\ listening' = FALSE
        /\ UNCHANGED <<rng_pool, rng_pptr, count>>
     \/ /\ ~Enough
        /\ Put("mouse") /\ count' = count + 1
        /\ UNCHANGED listening
  /\ UNCHANGED <<rng_state, bytes>>

rng_get_byte ==
  /\ \/ /\ rng_state = Nothing
        /\ rng_state' = [i \in 1..(IF rng_pptr < rng_psize THEN rng_psize ELSE Len(rng_pool)) |->
                           IF i > rng_pptr /\ rng_pptr < rng_psize THEN "math" ELSE rng_pool[i]]
        /\ rng_pool' = [i \in DOMAIN rng_state' |-> Wiped]
        /\ rng_pptr' = 0
        /\ bytes' = 1
     \/ /\ rng_state # Nothing
        /\ bytes' = 2
        /\ UNCHANGED <<rng_state, rng_pool, rng_pptr>>
  /\ UNCHANGED <<count, listening>>

Next == onMouseMove \/ rng_get_byte
-----------------------------------------------------------------------------
\* Whenever mouse moves come, also after the pool was wiped: the generator is seeded
\* with a whole pool, no byte of it left over or wiped, and nothing is written behind
\* the end of the pool; what mouse moves add later stays in the pool and out of the
\* generator.
SeededOnce ==
  /\ rng_pptr <= rng_psize /\ Len(rng_pool) <= rng_psize
  /\ (bytes = 0) <=> (rng_state = Nothing)
  /\ rng_state # Nothing =>
       /\ Len(rng_state) = rng_psize
       /\ \A i \in 1..rng_psize : rng_state[i] # Wiped
       /\ \A i \in DOMAIN rng_pool : rng_pool[i] = IF i <= rng_pptr THEN "mouse" ELSE Wiped
=============================================================================
