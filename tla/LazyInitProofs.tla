---------------------------- MODULE LazyInitProofs ----------------------------
(***************************************************************************)
(* What the four lazy initialisations guarantee for any number of threads  *)
(* and calls: their types, and that a success is never initialised again.  *)
(***************************************************************************)
EXTENDS LazyInit, TLAPS

\* What is tested twice: a success was published; whoever publishes first begins only
\* when nothing has been published, which it then is, and the others publish nothing
\* but a success; who is on the way out has seen it published.
FlagTells ==
  /\ ready => flag
  /\ PublishFirst => /\ ~ flag => begun = 0
                     /\ begun <= 1
                     /\ \A t \in Thread : at[t] = "init" => flag
  /\ flag /\ ~ PublishFirst => ready
  /\ \A t \in Thread : at[t] \in {"leave", "use"} => flag

IInv == TypeOK /\ FlagTells /\ AtMostOnce

\* The monitor lets one thread in.
LEMMA OneInBlock ==
  ASSUME TypeOK, NEW t \in Thread, NEW u \in Thread,
         at[t] \in {"retest", "init", "leave"}, at[u] \in {"retest", "init", "leave"}
  PROVE  t = u
  BY DEF TypeOK

LEMMA TypeStep ==
  ASSUME NoThread \notin Thread, MaxCalls \in Nat, TypeOK, [Next]_lazyVars
  PROVE  TypeOK'
  <1> USE DEF TypeOK, Points, Kinds, GoTo
  <1>1. ASSUME NEW t \in Thread, Call(t) PROVE TypeOK'
    <2>1. uses[t] + 1 \in 0..MaxCalls
      BY <1>1 DEF Call
    <2> QED
      BY <1>1, <2>1 DEF Call
  <1>2. ASSUME NEW t \in Thread, Test(t) PROVE TypeOK'
    <2>1. \/ at' = [at EXCEPT ![t] = "use"]
          \/ at' = [at EXCEPT ![t] = "enter"]
      BY <1>2 DEF Test
    <2> QED
      BY <1>2, <2>1 DEF Test
  <1>3. ASSUME NEW t \in Thread, Enter(t) PROVE TypeOK'
    BY <1>3 DEF Enter, Free
  <1>4. ASSUME NEW t \in Thread, Retest(t) PROVE TypeOK'
    <2>1. at[t] = "retest" /\ monitor' = monitor /\ UNCHANGED <<kind, ready, uses>>
      BY <1>4 DEF Retest
    <2>2. at' = [at EXCEPT ![t] = "init"] \/ at' = [at EXCEPT ![t] = "leave"]
      BY <1>4 DEF Retest
    <2>3. flag' \in BOOLEAN /\ begun' \in 0..2 /\ synced' \subseteq Thread
      <3>1. CASE StillMissing
        BY <1>4, <3>1 DEF Retest, PublishesNow, PublishFirst
      <3>2. CASE ~ StillMissing
        BY <1>4, <3>2 DEF Retest
      <3> QED
        BY <3>1, <3>2
    <2> QED
      BY <2>1, <2>2, <2>3
  <1>5. ASSUME NEW t \in Thread, Initialised(t) PROVE TypeOK'
    BY <1>5 DEF Initialised
  <1>6. ASSUME NEW t \in Thread, InitFails(t) PROVE TypeOK'
    BY <1>6 DEF InitFails, Unlock
  <1>7. ASSUME NEW t \in Thread, Leave(t) PROVE TypeOK'
    BY <1>7 DEF Leave, Unlock
  <1>8. ASSUME NEW t \in Thread, Use(t) PROVE TypeOK'
    BY <1>8 DEF Use
  <1>9. CASE UNCHANGED lazyVars
    BY <1>9 DEF lazyVars
  <1> QED
    BY <1>1, <1>2, <1>3, <1>4, <1>5, <1>6, <1>7, <1>8, <1>9 DEF Next, Step

LEMMA Typed ==
  ASSUME NoThread \notin Thread, MaxCalls \in Nat, Init
  PROVE  TypeOK
  <1>1. at \in [Thread -> Points]
    BY DEF Init, Points
  <1>2. uses \in [Thread -> 0..MaxCalls]
    BY DEF Init
  <1>3. \A t \in Thread : monitor = t <=> at[t] \in {"retest", "init", "leave"}
    BY DEF Init
  <1>4. flag \in BOOLEAN /\ ready \in BOOLEAN
    BY DEF Init
  <1>5. kind \in Kinds /\ synced \subseteq Thread /\ begun \in 0..2
    BY DEF Init
  <1> QED
    BY <1>1, <1>2, <1>3, <1>4, <1>5 DEF TypeOK

\* LazyInit is type correct: in particular the monitor has a thread exactly while that
\* thread is in the synchronized block, however the initialiser ends.
THEOREM TypeCorrect ==
  ASSUME NoThread \notin Thread, MaxCalls \in Nat
  PROVE  Spec => []TypeOK
<1>1. Init => TypeOK
  BY Typed
<1> QED
  BY <1>1, TypeStep, PTL DEF Spec

\* The steps that leave what is published alone and lead neither into the initialiser nor,
\* before it is published, out.
LEMMA QuietStep ==
  ASSUME IInv, UNCHANGED <<kind, flag, ready, begun>>,
         \A t \in Thread : /\ at'[t] = "init" => at[t] = "init"
                           /\ at'[t] \in {"leave", "use"} => at[t] \in {"leave", "use"} \/ flag
  PROVE  FlagTells' /\ AtMostOnce'
  <1>1. /\ PublishFirst' <=> PublishFirst
        /\ flag' <=> flag
        /\ ready' <=> ready
        /\ begun' = begun
    BY DEF PublishFirst
  <1>2. FlagTells /\ AtMostOnce
    BY DEF IInv
  <1>3. FlagTells'
    <2>1. ready' => flag'
      BY <1>1, <1>2 DEF FlagTells
    <2>2. PublishFirst' => (~ flag' => begun' = 0) /\ begun' <= 1
      BY <1>1, <1>2 DEF FlagTells
    <2>3. PublishFirst' => \A t \in Thread : at'[t] = "init" => flag'
      BY <1>1, <1>2 DEF FlagTells
    <2>4. flag' /\ ~ PublishFirst' => ready'
      BY <1>1, <1>2 DEF FlagTells
    <2>5. \A t \in Thread : at'[t] \in {"leave", "use"} => flag'
      BY <1>1, <1>2 DEF FlagTells
    <2> QED
      BY <2>1, <2>2, <2>3, <2>4, <2>5, Zenon DEF FlagTells
  <1>4. AtMostOnce'
    BY <1>1, <1>2 DEF AtMostOnce
  <1> QED
    BY <1>3, <1>4

LEMMA OnceStep ==
  ASSUME NoThread \notin Thread, IInv, [Next]_lazyVars
  PROVE  FlagTells' /\ AtMostOnce'
  <1>0. at \in [Thread -> Points] /\ begun \in 0..2 /\ flag \in BOOLEAN /\ ready \in BOOLEAN
    BY DEF IInv, TypeOK
  <1> USE <1>0 DEF GoTo, Points
  <1>1. ASSUME NEW t \in Thread, Call(t) \/ Test(t) \/ Enter(t) \/ Leave(t) \/ Use(t)
        PROVE  FlagTells' /\ AtMostOnce'
    <2>1. UNCHANGED <<kind, flag, ready, begun>>
      BY <1>1 DEF Call, Test, Enter, Leave, Use
    <2>2. \E p \in Points \ {"init", "leave"} :
            at' = [at EXCEPT ![t] = p] /\ (p = "use" => at[t] = "leave" \/ flag)
      BY <1>1 DEF Call, Test, Enter, Leave, Use
    <2> QED
      BY <2>1, <2>2, QuietStep
  <1>2. ASSUME NEW t \in Thread, InitFails(t) PROVE FlagTells' /\ AtMostOnce'
    BY <1>2, QuietStep DEF InitFails
  <1>3. ASSUME NEW t \in Thread, Initialised(t) PROVE FlagTells' /\ AtMostOnce'
    <2>1. \A u \in Thread : at'[u] # "init"
      BY <1>3, OneInBlock DEF Initialised, IInv
    <2> QED
      BY <1>3, <2>1 DEF Initialised, IInv, FlagTells, AtMostOnce, PublishFirst
  <1>4. ASSUME NEW t \in Thread, Retest(t) PROVE FlagTells' /\ AtMostOnce'
    <2>1. CASE flag
      BY <1>4, <2>1, QuietStep DEF Retest, StillMissing
    <2>2. CASE ~ flag
      <3>1. ~ ready /\ ~ ready' /\ kind' = kind
        BY <1>4, <2>2 DEF Retest, StillMissing, IInv, FlagTells
      <3>2. flag' = PublishFirst /\ at' = [at EXCEPT ![t] = "init"]
        BY <1>4, <2>2 DEF Retest, StillMissing, PublishesNow
      <3>3. begun = 0 => begun' = 1
        BY <1>4, <2>2 DEF Retest, StillMissing
      <3>4. PublishFirst' <=> PublishFirst
        BY <3>1 DEF PublishFirst
      <3>5. \A u \in Thread \ {t} : at'[u] = at[u] /\ at[u] \notin {"init", "leave", "use"}
        BY <1>4, <2>2, <3>2, OneInBlock DEF Retest, IInv, FlagTells
      <3>6. \A u \in Thread : at'[u] \notin {"leave", "use"}
        BY <3>2, <3>5
      <3>7. flag' /\ ~ PublishFirst' => ready'
        BY <3>2, <3>4
      <3>8. PublishFirst' => flag' /\ begun' = 1
        BY <2>2, <3>2, <3>3, <3>4 DEF IInv, FlagTells
      <3>9. FlagTells'
        BY <3>1, <3>6, <3>7, <3>8 DEF FlagTells
      <3> QED
        BY <3>1, <3>8, <3>9 DEF AtMostOnce
    <2> QED
      BY <2>1, <2>2
  <1>5. CASE UNCHANGED lazyVars
    BY <1>5, QuietStep DEF lazyVars
  <1> QED
    BY <1>1, <1>2, <1>3, <1>4, <1>5 DEF Next, Step

LEMMA InitInv ==
  ASSUME NoThread \notin Thread, MaxCalls \in Nat, Init
  PROVE  IInv
  <1>1. ~ flag /\ ~ ready /\ begun = 0 /\ begun <= 1 /\ at = [t \in Thread |-> "idle"]
    BY DEF Init
  <1> QED
    BY <1>1, Typed DEF IInv, FlagTells, AtMostOnce

LEMMA Invariant ==
  ASSUME NoThread \notin Thread, MaxCalls \in Nat
  PROVE  Spec => []IInv
  <1>1. IInv /\ [Next]_lazyVars => IInv'
    BY TypeStep, OnceStep DEF IInv
  <1> QED
    BY <1>1, InitInv, PTL DEF Spec

\* The second test in the block is enough: nothing is initialised again after a success,
\* and Defer and DubboProxy begin once, whatever happens to the initialiser.
THEOREM AtMostOnceHolds ==
  ASSUME NoThread \notin Thread, MaxCalls \in Nat
  PROVE  Spec => []AtMostOnce
<1>1. IInv => AtMostOnce
  BY DEF IInv
<1> QED
  BY <1>1, Invariant, PTL
-----------------------------------------------------------------------------
(* LazyInit implements Once                                                *)

\* Once as it is seen here: its phase, and the thread that initialises.
Running == \E t \in Thread : at[t] = "init"
Initialiser == IF Running THEN CHOOSE t \in Thread : at[t] = "init" ELSE NoThread
Phase == IF Running THEN "running" ELSE IF ready THEN "done" ELSE IF flag THEN "given up" ELSE "none"
Returned == {t \in Thread : at[t] = "returned"}

\* A step that neither publishes, begins nor ends an initialisation changes at most who
\* has returned.
LEMMA SamePhase ==
  ASSUME UNCHANGED <<kind, flag, ready>>, \A t \in Thread : at'[t] = "init" <=> at[t] = "init"
  PROVE  UNCHANGED <<PublishFirst, Phase, Initialiser>>
  <1>1. Running' <=> Running
    BY DEF Running
  <1>2. PublishFirst' = PublishFirst
    BY DEF PublishFirst
  <1>3. (CHOOSE t \in Thread : at'[t] = "init") = (CHOOSE t \in Thread : at[t] = "init")
    OBVIOUS
  <1>4. Phase' = Phase
    BY <1>1 DEF Phase
  <1>5. Initialiser' = Initialiser
    <2>1. CASE Running
      <3>1. Initialiser = CHOOSE t \in Thread : at[t] = "init"
        BY <2>1 DEF Initialiser
      <3>2. Initialiser' = CHOOSE t \in Thread : at'[t] = "init"
        BY <1>1, <2>1 DEF Initialiser
      <3> QED
        BY <1>3, <3>1, <3>2, Zenon
    <2>2. CASE ~ Running
      BY <1>1, <2>2 DEF Initialiser
    <2> QED
      BY <2>1, <2>2
  <1> QED
    BY <1>2, <1>4, <1>5, Zenon

\* Who is in the block initialises alone.
LEMMA InitialiserIs ==
  ASSUME TypeOK, NEW t \in Thread, at[t] = "init"
  PROVE  Running /\ Initialiser = t
  BY OneInBlock DEF Running, Initialiser

LEMMA StepImplements ==
  ASSUME NoThread \notin Thread, MaxCalls \in Nat, IInv, [Next]_lazyVars
  PROVE  [Promise!Next]_<<PublishFirst, Phase, Initialiser, Returned>>
  <1>0. at \in [Thread -> Points] /\ TypeOK
    BY DEF IInv, TypeOK
  <1>00. TypeOK'
    BY TypeStep DEF IInv
  <1> USE <1>0 DEF GoTo, Points
  <1>1. ASSUME NEW t \in Thread, Call(t) \/ Test(t) \/ Enter(t) \/ Leave(t) \/ Use(t)
        PROVE  [Promise!Next]_<<PublishFirst, Phase, Initialiser, Returned>>
    <2>1. UNCHANGED <<kind, flag, ready>>
      BY <1>1 DEF Call, Test, Enter, Leave, Use
    <2>2. \A u \in Thread : at'[u] = "init" <=> at[u] = "init"
      BY <1>1 DEF Call, Test, Enter, Leave, Use
    <2>3. UNCHANGED <<PublishFirst, Phase, Initialiser>>
      BY <2>1, <2>2, SamePhase
    <2>4. CASE Call(t) /\ at[t] = "returned"
      <3>1. t \in Returned /\ Returned' = Returned \ {t}
        BY <2>4 DEF Call, Returned
      <3>2. Promise!Again(t)
        BY <2>3, <3>1 DEF Promise!Again, PublishFirst, Phase, Initialiser, Returned, Running
      <3> QED
        BY <3>2 DEF Promise!Next
    <2>5. CASE Use(t) /\ at'[t] = "returned"
      <3>1. t \notin Returned /\ Returned' = Returned \cup {t}
        BY <2>5 DEF Use, Returned
      <3>2. Phase = "done" \/ (PublishFirst /\ Phase # "none")
        <4>1. flag /\ (Running => PublishFirst) /\ (PublishFirst \/ ready)
          BY <2>5 DEF Use, IInv, FlagTells, AtMostOnce, Running
        <4>2. CASE ready
          <5>1. ~ Running
            BY <4>2 DEF Running, IInv, AtMostOnce
          <5> QED
            BY <4>2, <5>1 DEF Phase
        <4>3. CASE PublishFirst
          BY <4>1, <4>3 DEF Phase
        <4> QED
          BY <4>1, <4>2, <4>3
      <3>3. Promise!Return(t)
        BY <2>3, <3>1, <3>2 DEF Promise!Return, PublishFirst, Phase, Initialiser, Returned, Running
      <3> QED
        BY <3>3 DEF Promise!Next
    <2>6. CASE ~ (Call(t) /\ at[t] = "returned") /\ ~ (Use(t) /\ at'[t] = "returned")
      <3>1. Returned' = Returned
        BY <1>1, <2>6 DEF Call, Test, Enter, Leave, Use, Returned
      <3> QED
        BY <2>3, <3>1
    <2> QED
      BY <2>4, <2>5, <2>6
  <1>2. ASSUME NEW t \in Thread, Retest(t)
        PROVE  [Promise!Next]_<<PublishFirst, Phase, Initialiser, Returned>>
    <2>1. Returned' = Returned /\ UNCHANGED <<kind, ready>> /\ at[t] = "retest"
      BY <1>2 DEF Retest, Returned
    <2>2. CASE flag
      <3>1. UNCHANGED flag /\ \A u \in Thread : at'[u] = "init" <=> at[u] = "init"
        BY <1>2, <2>2 DEF Retest, StillMissing
      <3> QED
        BY <2>1, <3>1, SamePhase
    <2>3. CASE ~ flag
      <3>1. at' = [at EXCEPT ![t] = "init"]
        BY <1>2, <2>3 DEF Retest, StillMissing
      <3>2. ~ Running /\ ~ ready
        BY <2>1, <2>3, OneInBlock DEF Running, IInv, FlagTells
      <3>3. Phase = "none"
        BY <2>3, <3>2 DEF Phase
      <3>4. Running' /\ Initialiser' = t
        BY <1>00, <3>1, OneInBlock DEF Running, Initialiser, TypeOK
      <3>5. Phase' = "running" /\ PublishFirst' = PublishFirst
        BY <2>1, <3>4 DEF Phase, PublishFirst
      <3>6. Promise!Begin(t)
        BY <2>1, <3>3, <3>4, <3>5 DEF Promise!Begin, PublishFirst, Phase, Initialiser, Returned, Running
      <3> QED
        BY <3>6 DEF Promise!Next
    <2> QED
      BY <2>2, <2>3
  <1>3. ASSUME NEW t \in Thread, Initialised(t) \/ InitFails(t)
        PROVE  [Promise!Next]_<<PublishFirst, Phase, Initialiser, Returned>>
    <2>1. /\ Returned' = Returned /\ UNCHANGED kind /\ at[t] = "init"
          /\ \A u \in Thread : at'[u] # "init"
      BY <1>3, OneInBlock DEF Initialised, InitFails, Returned
    <2>2. Phase = "running" /\ ~ Running' /\ Initialiser' = NoThread /\ PublishFirst' = PublishFirst
      BY <2>1, InitialiserIs DEF Phase, Running, Initialiser, PublishFirst
    <2>3. CASE Initialised(t)
      <3>1. Phase' = "done"
        BY <2>2, <2>3 DEF Phase, Initialised
      <3>2. Promise!Succeed
        BY <2>1, <2>2, <3>1 DEF Promise!Succeed, PublishFirst, Phase, Initialiser, Returned, Running
      <3> QED
        BY <3>2 DEF Promise!Next
    <2>4. CASE InitFails(t)
      <3>1. ~ ready /\ ~ ready' /\ flag' = flag /\ (flag <=> PublishFirst)
        BY <2>1, <2>4 DEF InitFails, IInv, FlagTells, AtMostOnce
      <3>2. Phase' = IF PublishFirst THEN "given up" ELSE "none"
        BY <2>2, <3>1 DEF Phase
      <3>3. Promise!Fail
        BY <2>1, <2>2, <3>2 DEF Promise!Fail, PublishFirst, Phase, Initialiser, Returned, Running
      <3> QED
        BY <3>3 DEF Promise!Next
    <2> QED
      BY <1>3, <2>3, <2>4
  <1>4. CASE UNCHANGED lazyVars
    <2>1. UNCHANGED <<kind, flag, ready>> /\ Returned' = Returned
      BY <1>4 DEF lazyVars, Returned
    <2>2. \A u \in Thread : at'[u] = "init" <=> at[u] = "init"
      BY <1>4 DEF lazyVars
    <2> QED
      BY <2>1, <2>2, SamePhase
  <1> QED
    BY <1>1, <1>2, <1>3, <1>4 DEF Next, Step

\* The four initialisations implement Once: one initialisation at a time, none after a
\* success, and a call returns before the end of one, or after a failure, only where
\* publishing comes first.
THEOREM ImplementsOnce ==
  ASSUME NoThread \notin Thread, MaxCalls \in Nat
  PROVE  Spec => OnceSpec
<1>1. Init => Promise!Init
  <2> SUFFICES ASSUME Init PROVE Promise!Init
    OBVIOUS
  <2>1. ~ Running /\ ~ ready /\ ~ flag /\ Returned = {}
    BY DEF Init, Running, Returned
  <2>2. PublishFirst \in BOOLEAN
    BY DEF PublishFirst
  <2>3. Phase = "none" /\ Initialiser = NoThread
    BY <2>1 DEF Phase, Initialiser
  <2> QED
    BY <2>1, <2>2, <2>3 DEF Promise!Init, PublishFirst, Phase, Initialiser, Returned, Running
<1>2. IInv /\ [Next]_lazyVars => [Promise!Next]_<<PublishFirst, Phase, Initialiser, Returned>>
  BY StepImplements
<1> QED
  BY <1>1, <1>2, Invariant, PTL DEF Spec, OnceSpec, Promise!Spec, Phase, Initialiser, Returned, Running
=============================================================================
