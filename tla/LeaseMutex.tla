----------------------------- MODULE LeaseMutex -----------------------------
(***************************************************************************)
(* What a caller may conclude from RedisLockRunner.apply, and nothing of   *)
(* how Redis provides it.  A caller is                                     *)
(*   out       not in its critical section,                                *)
(*   inside    in its critical section, its lease still running,           *)
(*   overrun   in its critical section although its lease has run out,     *)
(*   returned  apply returned what the callback returned or threw,         *)
(*   reported  apply raised an error of its own.                           *)
(* Only one caller is inside at a time, and only a caller that was inside  *)
(* to the end may return: one that overran its lease is told so.           *)
(***************************************************************************)
CONSTANT Caller

VARIABLE section

Init == section = [c \in Caller |-> "out"]

Become(c, from, to) ==
  /\ section[c] \in from
  /\ section' = [section EXCEPT ![c] = to]

Enter(c) ==
  /\ \A d \in Caller : section[d] # "inside"
  /\ Become(c, {"out"}, "inside")

Overrun(c) == Become(c, {"inside"}, "overrun")

Return(c) == Become(c, {"inside"}, "returned")

\* Errors the section has nothing to do with (the lock was not obtained, the
\* connection failed) are reported as well.
Report(c) == Become(c, {"out", "inside", "overrun"}, "reported")

\* A call starts anew; a thread that dies takes with it every call it was
\* running, one inside the other.
Abandon(C) ==
  section' = [c \in Caller |-> IF c \in C THEN "out" ELSE section[c]]

Next ==
  \/ \E c \in Caller : Enter(c) \/ Overrun(c) \/ Return(c) \/ Report(c)
  \/ \E C \in SUBSET Caller : Abandon(C)

Spec == Init /\ [][Next]_section
=============================================================================
