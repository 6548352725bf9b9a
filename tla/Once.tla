-------------------------------- MODULE Once --------------------------------
(***************************************************************************)
(* What a caller of something that is initialised on first use may rely    *)
(* on, without locks or fields: one initialisation runs at a time, none    *)
(* runs after one that succeeded, and a call returns either after a        *)
(* success, or, where Early allows it, as soon as one has begun.           *)
(***************************************************************************)
CONSTANTS Thread, NoThread

VARIABLES
  early,       \* calls may return before the initialisation has ended
  phase,       \* "none", "running", "done", or "given up" for ever
  by,          \* the thread that initialises
  returned     \* the threads whose call has returned normally

Init ==
  /\ early \in BOOLEAN
  /\ phase = "none" /\ by = NoThread /\ returned = {}

Begin(t) ==
  /\ phase = "none"
  /\ phase' = "running" /\ by' = t
  /\ UNCHANGED <<early, returned>>

Succeed ==
  /\ phase = "running"
  /\ phase' = "done" /\ by' = NoThread
  /\ UNCHANGED <<early, returned>>

\* Whoever has published early does not try again after a failure.
Fail ==
  /\ phase = "running"
  /\ phase' = IF early THEN "given up" ELSE "none"
  /\ by' = NoThread
  /\ UNCHANGED <<early, returned>>

Return(t) ==
  /\ t \notin returned
  /\ phase = "done" \/ (early /\ phase # "none")
  /\ returned' = returned \cup {t}
  /\ UNCHANGED <<early, phase, by>>

\* A thread comes back for another call.
Again(t) ==
  /\ t \in returned
  /\ returned' = returned \ {t}
  /\ UNCHANGED <<early, phase, by>>

Next == Succeed \/ Fail \/ \E t \in Thread : Begin(t) \/ Return(t) \/ Again(t)

Spec == Init /\ [][Next]_<<early, phase, by, returned>>
=============================================================================
