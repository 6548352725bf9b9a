------------------------ MODULE RedisLockRunnerProofs ------------------------
(* Theorems about RedisLockRunner for every value of its constants.        *)
EXTENDS RedisLockRunner, TLAPS

\* One runner object per caller: no two callers share a UUID.
OwnRequestIds == \A c, d \in Caller : RequestId[c] = RequestId[d] => c = d

\* StopAsking and Forget put every variable they touch back into its type.
LEMMA StopAskingType ==
  ASSUME TypeOK, NEW C \in SUBSET Caller, StopAsking(C)
  PROVE  /\ elapsed' \in [Caller -> 0..ElapsedBound]
         /\ asked' \in [Caller -> 0..AskedBound]
         /\ tried' \in [Caller -> 0..TriedBound]
  BY ConstantsAssumption DEF TypeOK, StopAsking, ElapsedBound, AskedBound, TriedBound

LEMMA ForgetType ==
  ASSUME TypeOK, NEW C \in SUBSET Caller, Forget(C)
  PROVE  /\ lease' \in [Caller -> 0..ExpireTime]
         /\ sleeping' \in [Caller -> 0..SleepTime]
         /\ result' \in [Caller -> {"none", "value", "callbackError"}]
         /\ elapsed' \in [Caller -> 0..ElapsedBound]
         /\ asked' \in [Caller -> 0..AskedBound]
         /\ tried' \in [Caller -> 0..TriedBound]
  BY StopAskingType, ConstantsAssumption DEF TypeOK, Forget

LEMMA KeyType ==
  ASSUME TypeOK, NEW c \in Caller, UNCHANGED key \/ Delete \/ Set(c)
  PROVE  holder' \in Id \cup {NoId} /\ ttl' \in 0..ExpireTime
  BY ConstantsAssumption DEF TypeOK, key, Delete, Set

\* Every way apply ends is type correct.
LEMMA FinishType ==
  ASSUME TypeOK, NEW c \in Caller, NEW how \in Outcomes, Finish(c, how),
         UNCHANGED key \/ Delete \/ Set(c), intruded' = intruded
  PROVE  TypeOK'
  <1>1. holder' \in Id \cup {NoId} /\ ttl' \in 0..ExpireTime
    BY KeyType
  <1>2. Forget({c}) /\ pc' \in [Caller -> PCs] /\ outcome' \in [Caller -> Outcomes]
    BY DEF TypeOK, Finish, PCs
  <1>3. intruded' \in [Caller -> BOOLEAN]
    BY DEF TypeOK
  <1> QED
    BY <1>1, <1>2, <1>3, ForgetType DEF TypeOK

\* RedisLockRunner is type correct.
THEOREM TypeCorrect == Spec => []TypeOK
<1>1. Init => TypeOK
  BY ConstantsAssumption
  DEF Init, TypeOK, Foreign, PCs, Outcomes, ElapsedBound, TriedBound, AskedBound
<1>2. TypeOK /\ [Next]_vars => TypeOK'
  <2> SUFFICES ASSUME TypeOK, [Next]_vars PROVE TypeOK'
    OBVIOUS
  <2> USE ConstantsAssumption
  <2>1. ASSUME NEW c \in Caller, Apply(c) PROVE TypeOK'
    BY <2>1 DEF Apply, TypeOK, key, PCs, Outcomes
  <2>2. ASSUME NEW c \in Caller, TryGranted(c) PROVE TypeOK'
    BY <2>2, KeyType, StopAskingType DEF TryGranted, TypeOK, PCs, Outcomes
  <2>3. ASSUME NEW c \in Caller, TryRefused(c) PROVE TypeOK'
    BY <2>3 DEF TryRefused, TypeOK, key, PCs, UpTo, TriedBound, AskedBound
  <2>4. ASSUME NEW c \in Caller, OnGetLockFailed(c) PROVE TypeOK'
    BY <2>4, FinishType DEF OnGetLockFailed, Outcomes
  <2>5. ASSUME NEW c \in Caller, Sleep(c) PROVE TypeOK'
    BY <2>5 DEF Sleep, TypeOK, key, PCs
  <2>6. ASSUME NEW c \in Caller, RetryAtOnce(c) \/ Wake(c) PROVE TypeOK'
    BY <2>6 DEF RetryAtOnce, Wake, TypeOK, key, PCs
  <2>7. ASSUME NEW c \in Caller, CallbackEnds(c) PROVE TypeOK'
    BY <2>7 DEF CallbackEnds, TypeOK, key, PCs
  <2>8. ASSUME NEW c \in Caller, ReleaseOwn(c) PROVE TypeOK'
    <3>1. result[c] \in Outcomes
      BY DEF TypeOK, Outcomes
    <3> QED
      BY <2>8, <3>1, FinishType DEF ReleaseOwn
  <2>9. ASSUME NEW c \in Caller, ReleaseRefused(c) PROVE TypeOK'
    BY <2>9, FinishType DEF ReleaseRefused, Outcomes
  <2>10. ASSUME NEW c \in Caller, TryLost(c) PROVE TypeOK'
    BY <2>10, FinishType DEF TryLost, Outcomes
  <2>11. ASSUME NEW c \in Caller, ReleaseLost(c) PROVE TypeOK'
    BY <2>11, FinishType DEF ReleaseLost, Outcomes
  <2>12. ASSUME NEW c \in Caller, Interrupt(c) PROVE TypeOK'
    BY <2>12, FinishType DEF Interrupt, Outcomes
  <2>13. ASSUME NEW c \in Caller, Crash(c) PROVE TypeOK'
    <3>1. Stack(c) \in SUBSET Caller
      BY DEF Stack
    <3> QED
      BY <2>13, <3>1, ForgetType DEF Crash, TypeOK, key, PCs, Outcomes
  <2>14. CASE Tick
    BY <2>14 DEF Tick, TypeOK, Down, UpTo, ElapsedBound
  <2>15. CASE UNCHANGED vars
    BY <2>15 DEF vars, TypeOK
  <2> QED
    BY <2>1, <2>2, <2>3, <2>4, <2>5, <2>6, <2>7, <2>8, <2>9, <2>10, <2>11,
       <2>12, <2>13, <2>14, <2>15 DEF Next, Progress, Fault
<1> QED
  BY <1>1, <1>2, PTL DEF Spec
-----------------------------------------------------------------------------
(* Mutual exclusion.  TypeOK /\ LockInvariant /\ NormalReturnWasExclusive  *)
(* is inductive when no two callers share a UUID.                          *)

IInv == TypeOK /\ LockInvariant /\ NormalReturnWasExclusive

\* What an apply that ends does to the callers: its own section is over, the
\* others are where they were.
LEMMA FinishEffect ==
  ASSUME TypeOK, NEW c \in Caller, NEW how, Finish(c, how)
  PROVE  /\ ~ InSection(c)' /\ ~ Active(c)'
         /\ outcome'[c] = how
         /\ \A d \in Caller \ {c} :
              /\ InSection(d)' = InSection(d)
              /\ Active(d)' = Active(d)
              /\ lease'[d] = lease[d]
              /\ outcome'[d] = outcome[d]
  BY DEF Finish, Forget, InSection, Active, TypeOK

\* A step of Redis is harmless to callers other than the one it serves: the key
\* stays, goes from its owner, or comes to a caller that may have it.
LEMMA KeyStep ==
  ASSUME OwnRequestIds, IInv, NEW c \in Caller, NEW d \in Caller \ {c},
         UNCHANGED key \/ (Deletable(c) /\ Delete) \/ (Grantable(c) /\ Set(c))
  PROVE  /\ InSection(d) => IF Owns(d)' THEN lease[d] = ttl' /\ ttl' > 0 ELSE lease[d] = 0
         /\ Owns(d)' => Owns(d)
  <1> USE ConstantsAssumption
  <1>1. RequestId[c] # RequestId[d] /\ RequestId[d] # NoId
    BY DEF OwnRequestIds
  <1>2. CASE UNCHANGED key
    BY <1>2 DEF key, Owns, IInv, LockInvariant, LeaseBacked
  <1>3. CASE Deletable(c) /\ Delete
    BY <1>1, <1>3 DEF Deletable, Delete, Owns, IInv, LockInvariant, LeaseBacked
  <1>4. CASE Grantable(c) /\ Set(c)
    BY <1>1, <1>4 DEF Grantable, Set, Owns, IInv, LockInvariant, LeaseBacked
  <1> QED
    BY <1>2, <1>3, <1>4

\* Every way apply ends keeps the invariant.
LEMMA FinishKeeps ==
  ASSUME OwnRequestIds, IInv, NEW c \in Caller, NEW how, Finish(c, how),
         intruded' = intruded,
         UNCHANGED key \/ (Deletable(c) /\ Delete) \/ (Grantable(c) /\ Set(c)),
         how \in {"value", "callbackError"} => InSection(c) /\ Owns(c)
  PROVE  LockInvariant' /\ NormalReturnWasExclusive'
  <1>1. TypeOK
    BY DEF IInv
  <1>2. LeaseBacked'
    <2> SUFFICES ASSUME NEW d \in Caller, InSection(d)'
                 PROVE  IF Owns(d)' THEN lease'[d] = ttl' /\ ttl' > 0 ELSE lease'[d] = 0
      BY DEF LeaseBacked
    <2>1. d # c /\ InSection(d) /\ lease'[d] = lease[d]
      BY <1>1, FinishEffect
    <2> QED
      BY <2>1, KeyStep
  <1>3. Undisturbed'
    <2> SUFFICES ASSUME NEW d \in Caller
                 PROVE  /\ Active(d)' => outcome'[d] = "none"
                        /\ InSection(d)' /\ Owns(d)' => ~ intruded[d]
      BY DEF Undisturbed
    <2>1. CASE d = c
      BY <1>1, <2>1, FinishEffect
    <2>2. CASE d # c
      BY <1>1, <2>2, FinishEffect, KeyStep DEF IInv, LockInvariant, Undisturbed
    <2> QED
      BY <2>1, <2>2
  <1>4. NormalReturnWasExclusive'
    BY <1>1, FinishEffect
      DEF NormalReturnWasExclusive, IInv, LockInvariant, Undisturbed
  <1> QED
    BY <1>2, <1>3, <1>4 DEF LockInvariant

\* A step that moves one caller between points outside the section, or from the
\* callback to the release, keeps it as well.
LEMMA MoveKeeps ==
  ASSUME IInv, NEW c \in Caller, NEW to \in PCs, pc' = [pc EXCEPT ![c] = to],
         Active(c), to \in {"callback", "release"} => InSection(c),
         UNCHANGED <<key, outcome, lease, intruded>>
  PROVE  LockInvariant' /\ NormalReturnWasExclusive'
  <1>1. \A d \in Caller : (InSection(d)' => InSection(d)) /\ (Active(d)' => Active(d))
    BY DEF InSection, Active, IInv, TypeOK
  <1> QED
    BY <1>1 DEF key, IInv, LockInvariant, LeaseBacked, Undisturbed,
                NormalReturnWasExclusive, Owns

LEMMA InvariantStep ==
  ASSUME OwnRequestIds, IInv, [Next]_vars
  PROVE  LockInvariant' /\ NormalReturnWasExclusive'
  <1> USE ConstantsAssumption
  <1>1. ASSUME NEW c \in Caller, Apply(c)
        PROVE  LockInvariant' /\ NormalReturnWasExclusive'
    BY <1>1 DEF Apply, key, IInv, TypeOK, LockInvariant, LeaseBacked, Undisturbed,
                NormalReturnWasExclusive, InSection, Active, Owns
  <1>2. ASSUME NEW c \in Caller, TryGranted(c)
        PROVE  LockInvariant' /\ NormalReturnWasExclusive'
    <2>1. \A d \in Caller \ {c} :
            /\ InSection(d)' = InSection(d)
            /\ Active(d)' = Active(d)
            /\ lease'[d] = lease[d]
            /\ intruded'[d] = (intruded[d] \/ InSection(d))
      BY <1>2 DEF TryGranted, InSection, Active, IInv, TypeOK
    <2>2. /\ Owns(c)' /\ ttl' = ExpireTime /\ lease'[c] = ExpireTime
          /\ ~ intruded'[c] /\ outcome' = outcome /\ outcome[c] = "none"
      BY <1>2 DEF TryGranted, Set, Owns, Active, IInv, LockInvariant, Undisturbed, TypeOK
    <2>3. \A d \in Caller \ {c} : ~ Owns(d)'
      BY <2>2 DEF Owns, OwnRequestIds
    <2>4. \A d \in Caller \ {c} : InSection(d) => lease[d] = 0
      <3> TAKE d \in Caller \ {c}
      <3> QED
        BY <1>2, <2>3, KeyStep DEF TryGranted
    <2>5. LeaseBacked'
      BY <2>1, <2>2, <2>3, <2>4 DEF LeaseBacked
    <2>6. Undisturbed'
      BY <2>1, <2>2, <2>3 DEF Undisturbed, IInv, LockInvariant
    <2>7. NormalReturnWasExclusive'
      BY <2>1, <2>2 DEF NormalReturnWasExclusive, IInv, LockInvariant, Undisturbed, InSection, Active
    <2> QED
      BY <2>5, <2>6, <2>7 DEF LockInvariant
  <1>3. ASSUME NEW c \in Caller, TryRefused(c) \/ Sleep(c) \/ RetryAtOnce(c) \/ Wake(c)
        PROVE  LockInvariant' /\ NormalReturnWasExclusive'
    <2>1. PICK to \in {"refused", "sleep", "try"} : pc' = [pc EXCEPT ![c] = to]
      BY <1>3 DEF TryRefused, Sleep, RetryAtOnce, Wake
    <2>2. UNCHANGED <<key, outcome, lease, intruded>> /\ Active(c)
      BY <1>3 DEF TryRefused, Sleep, RetryAtOnce, Wake, Active
    <2> QED
      BY <2>1, <2>2, MoveKeeps DEF PCs
  <1>4. ASSUME NEW c \in Caller, CallbackEnds(c)
        PROVE  LockInvariant' /\ NormalReturnWasExclusive'
    BY <1>4, MoveKeeps DEF CallbackEnds, InSection, Active, PCs
  <1>5. ASSUME NEW c \in Caller, OnGetLockFailed(c) \/ Interrupt(c)
        PROVE  LockInvariant' /\ NormalReturnWasExclusive'
    BY <1>5, FinishKeeps DEF OnGetLockFailed, Interrupt
  <1>6. ASSUME NEW c \in Caller, TryLost(c)
        PROVE  LockInvariant' /\ NormalReturnWasExclusive'
    BY <1>6, FinishKeeps DEF TryLost
  <1>7. ASSUME NEW c \in Caller, ReleaseOwn(c)
        PROVE  LockInvariant' /\ NormalReturnWasExclusive'
    BY <1>7, FinishKeeps DEF ReleaseOwn, InSection, Deletable
  <1>8. ASSUME NEW c \in Caller, ReleaseRefused(c) \/ ReleaseLost(c)
        PROVE  LockInvariant' /\ NormalReturnWasExclusive'
    BY <1>8, FinishKeeps DEF ReleaseRefused, ReleaseLost
  <1>9. ASSUME NEW c \in Caller, Crash(c)
        PROVE  LockInvariant' /\ NormalReturnWasExclusive'
    <2>1. \A d \in Caller :
            /\ InSection(d)' => InSection(d) /\ lease'[d] = lease[d]
            /\ Active(d)' => Active(d) /\ outcome'[d] = outcome[d]
            /\ outcome'[d] \in {"none", outcome[d]}
      BY <1>9 DEF Crash, Forget, InSection, Active, IInv, TypeOK
    <2>2. UNCHANGED <<key, intruded>>
      BY <1>9 DEF Crash
    <2> QED
      BY <2>1, <2>2 DEF key, IInv, LockInvariant, LeaseBacked, Undisturbed,
                        NormalReturnWasExclusive, Owns
  <1>10. CASE Tick
    <2>1. LeaseBacked'
      <3> SUFFICES ASSUME NEW c \in Caller, InSection(c)'
                   PROVE  IF Owns(c)' THEN lease'[c] = ttl' /\ ttl' > 0 ELSE lease'[c] = 0
        BY DEF LeaseBacked
      <3>1. IF Owns(c) THEN lease[c] = ttl /\ ttl > 0 ELSE lease[c] = 0
        BY <1>10 DEF Tick, InSection, IInv, LockInvariant, LeaseBacked
      <3>2. ttl \in Nat /\ ttl' = Down(ttl) /\ lease'[c] = Down(lease[c])
        BY <1>10 DEF Tick, IInv, TypeOK
      <3>3. holder' = IF ttl = 1 THEN NoId ELSE holder
        BY <1>10 DEF Tick
      <3>4. RequestId[c] # NoId
        OBVIOUS
      <3> QED
        BY <3>1, <3>2, <3>3, <3>4 DEF Down, Owns
    <2>2. Undisturbed' /\ NormalReturnWasExclusive'
      BY <1>10 DEF Tick, IInv, LockInvariant, Undisturbed, NormalReturnWasExclusive,
                   InSection, Active, Owns
    <2> QED
      BY <2>1, <2>2 DEF LockInvariant
  <1>11. CASE UNCHANGED vars
    BY <1>11 DEF vars, IInv, LockInvariant, LeaseBacked, Undisturbed,
                 NormalReturnWasExclusive, InSection, Active, Owns
  <1> QED
    BY <1>1, <1>2, <1>3, <1>4, <1>5, <1>6, <1>7, <1>8, <1>9, <1>10, <1>11
    DEF Next, Progress, Fault

\* A caller in its section owns the key as long as its lease runs, and a section that
\* owns the key was not intruded upon: LockInvariant holds in every reachable state.
THEOREM LockInvariantHolds ==
  ASSUME OwnRequestIds
  PROVE  Spec => [](LockInvariant /\ NormalReturnWasExclusive)
<1>1. Init => LockInvariant /\ NormalReturnWasExclusive
  BY DEF Init, LockInvariant, LeaseBacked, Undisturbed, NormalReturnWasExclusive,
         InSection, Active
<1>2. TypeOK /\ LockInvariant /\ NormalReturnWasExclusive /\ [Next]_vars
        => LockInvariant' /\ NormalReturnWasExclusive'
  BY InvariantStep DEF IInv
<1> QED
  BY <1>1, <1>2, TypeCorrect, PTL DEF Spec

\* Two running leases are the remaining time of the same key, whose value is one
\* caller's UUID: the sections of two callers do not overlap.
THEOREM MutualExclusionHolds ==
  ASSUME OwnRequestIds
  PROVE  Spec => [](MutualExclusion /\ NormalReturnWasExclusive)
<1>1. LockInvariant => MutualExclusion
  <2> SUFFICES ASSUME LockInvariant, NEW c \in Caller, NEW d \in Caller,
                      InSection(c), lease[c] > 0, InSection(d), lease[d] > 0
               PROVE  c = d
    BY DEF MutualExclusion
  <2>1. Owns(c) /\ Owns(d)
    BY DEF LockInvariant, LeaseBacked
  <2> QED
    BY <2>1 DEF Owns, OwnRequestIds
<1> QED
  BY <1>1, LockInvariantHolds, PTL

\* Whoever gets the end of his callback back, a value or its exception, was alone in his
\* section: apply never reports a section that was intruded upon as a normal one.
THEOREM NormalReturnWasExclusiveHolds ==
  ASSUME OwnRequestIds
  PROVE  Spec => []NormalReturnWasExclusive
  BY LockInvariantHolds, PTL

\* The release of a lock is refused only after the lease has run out: whatever
\* the other callers do, nobody takes the key away from a running lease.
THEOREM ReleaseRefusedOnlyWhenExpiredHolds ==
  ASSUME OwnRequestIds
  PROVE  Spec => ReleaseRefusedOnlyWhenExpired
<1> DEFINE Refusal(c) == outcome[c] # "notReleased" /\ outcome'[c] = "notReleased"
<1>1. ASSUME TypeOK, LockInvariant, [Next]_vars, NEW c \in Caller, Refusal(c)
      PROVE  lease[c] = 0
  <2>1. ReleaseRefused(c)
    <3>1. ASSUME NEW d \in Caller, Apply(d) \/ Progress(d) \/ Fault(d)
          PROVE  ReleaseRefused(c)
      <4>1. ASSUME NEW how, Finish(d, how)
            PROVE  c = d /\ how = "notReleased"
        BY <1>1, <4>1 DEF Finish, TypeOK
      <4>2. CASE OnGetLockFailed(d) \/ TryLost(d) \/ Interrupt(d) \/ ReleaseLost(d)
        BY <4>1, <4>2 DEF OnGetLockFailed, TryLost, Interrupt, ReleaseLost
      <4>3. CASE ReleaseOwn(d)
        BY <1>1, <4>1, <4>3 DEF ReleaseOwn, TypeOK
      <4>4. CASE ReleaseRefused(d)
        BY <4>1, <4>4 DEF ReleaseRefused
      <4>5. CASE Apply(d) \/ Crash(d) \/ TryGranted(d) \/ TryRefused(d) \/ Sleep(d)
                 \/ RetryAtOnce(d) \/ Wake(d) \/ CallbackEnds(d)
        BY <1>1, <4>5 DEF Apply, Crash, TryGranted, TryRefused, Sleep, RetryAtOnce, Wake,
                          CallbackEnds, TypeOK
      <4> QED
        BY <3>1, <4>2, <4>3, <4>4, <4>5 DEF Progress, Fault
    <3> QED
      BY <1>1, <3>1 DEF Next, Tick, vars
  <2>2. InSection(c) /\ ~ Owns(c)
    BY <2>1 DEF ReleaseRefused, InSection, Deletable
  <2> QED
    BY <1>1, <2>2 DEF LockInvariant, LeaseBacked
<1>2. TypeOK /\ LockInvariant /\ [Next]_vars
        => [\A c \in Caller : Refusal(c) => lease[c] = 0]_vars
  BY <1>1
<1>3. Spec => []LockInvariant
  BY LockInvariantHolds
<1> QED
  BY <1>2, <1>3, TypeCorrect, PTL DEF Spec, ReleaseRefusedOnlyWhenExpired
-----------------------------------------------------------------------------
(* RedisLockRunner implements LeaseMutex.                                  *)

Sections == [c \in Caller |-> Section(c)]

\* A step that changes the section of one caller is an update of the abstract
\* variable at that caller.
LEMMA OneSection ==
  ASSUME NEW c \in Caller, \A d \in Caller \ {c} : Section(d)' = Section(d)
  PROVE  Sections' = [Sections EXCEPT ![c] = Section(c)']
  BY DEF Sections

\* Outside its section a caller is where its outcome says.
LEMMA SectionOutside ==
  ASSUME NEW c \in Caller, ~ InSection(c)
  PROVE  Section(c) = IF outcome[c] \in {"value", "callbackError"} THEN "returned"
                      ELSE IF outcome[c] = "none" THEN "out" ELSE "reported"
  BY DEF Section

LEMMA FinishSection ==
  ASSUME IInv, NEW c \in Caller, NEW how, Finish(c, how), Active(c)
  PROVE  /\ Sections' = [Sections EXCEPT ![c] = Section(c)']
         /\ Section(c)' = IF how \in {"value", "callbackError"} THEN "returned"
                          ELSE IF how = "none" THEN "out" ELSE "reported"
         /\ Section(c) \in {"out", "inside", "overrun"}
  <1>1. \A d \in Caller \ {c} : Section(d)' = Section(d)
    BY FinishEffect DEF Section, IInv
  <1>2. ~ InSection(c)' /\ outcome'[c] = how
    BY FinishEffect DEF IInv
  <1>3. outcome[c] = "none"
    BY DEF IInv, LockInvariant, Undisturbed
  <1> QED
    BY <1>1, <1>2, <1>3, OneSection DEF Section

\* Every step is a step of LeaseMutex or leaves every section as it is.
LEMMA SectionStep ==
  ASSUME OwnRequestIds, IInv, IInv', [Next]_vars
  PROVE  Mutex!Next \/ Sections' = Sections
  <1> USE DEF Mutex!Next, Mutex!Become
  <1>0. \A c \in Caller : Sections[c] = Section(c)
    BY DEF Sections
  <1>1. ASSUME NEW c \in Caller, Apply(c)
        PROVE  Mutex!Next
    <2>1. \A d \in Caller :
            Section(d)' = IF d \in {c} THEN "out" ELSE Section(d)
      BY <1>1 DEF Apply, Section, InSection, IInv, TypeOK
    <2>2. Mutex!Abandon({c})
      BY <2>1 DEF Mutex!Abandon
    <2> QED
      BY <2>2
  <1>2. ASSUME NEW c \in Caller, TryGranted(c)
        PROVE  Mutex!Next
    <2>1. \A d \in Caller \ {c} : Section(d)' = Section(d)
      BY <1>2 DEF TryGranted, Section, InSection, IInv, TypeOK
    <2>2. InSection(c)' /\ lease'[c] > 0
      BY <1>2, ConstantsAssumption DEF TryGranted, InSection, IInv, TypeOK
    <2>3. ~ InSection(c) /\ outcome[c] = "none"
      BY <1>2 DEF TryGranted, InSection, Active, IInv, LockInvariant, Undisturbed
    <2>4. \A d \in Caller : Section(d) # "inside"
      <3> SUFFICES ASSUME NEW d \in Caller, InSection(d), lease[d] > 0
                   PROVE  FALSE
        BY <2>3 DEF Section
      <3>1. d # c /\ InSection(d)' /\ lease'[d] > 0
        BY <1>2, <2>3 DEF TryGranted, InSection, IInv, TypeOK
      <3>2. Owns(c)' /\ Owns(d)'
        BY <2>2, <3>1 DEF IInv, LockInvariant, LeaseBacked
      <3> QED
        BY <3>1, <3>2 DEF Owns, OwnRequestIds
    <2>5. Mutex!Enter(c)
      BY <2>1, <2>2, <2>3, <2>4, OneSection DEF Mutex!Enter, Sections, Section
    <2> QED
      BY <2>5
  <1>3. ASSUME NEW c \in Caller,
               TryRefused(c) \/ Sleep(c) \/ RetryAtOnce(c) \/ Wake(c) \/ CallbackEnds(c)
        PROVE  Sections' = Sections
    <2>1. \A d \in Caller : Section(d)' = Section(d)
      BY <1>3 DEF TryRefused, Sleep, RetryAtOnce, Wake, CallbackEnds, Section, InSection,
                  IInv, TypeOK
    <2> QED
      BY <2>1 DEF Sections
  <1>4. ASSUME NEW c \in Caller, OnGetLockFailed(c) \/ TryLost(c) \/ Interrupt(c)
                                \/ ReleaseRefused(c) \/ ReleaseLost(c)
        PROVE  Mutex!Next
    <2>1. PICK how \in {"notAcquired", "acquireError", "interrupted", "notReleased",
                        "releaseError"} : Finish(c, how)
      BY <1>4 DEF OnGetLockFailed, TryLost, Interrupt, ReleaseRefused, ReleaseLost
    <2>2. Active(c)
      BY <1>4 DEF OnGetLockFailed, TryLost, Interrupt, ReleaseRefused, ReleaseLost, Active
    <2>3. Mutex!Report(c)
      BY <2>1, <2>2, FinishSection DEF Mutex!Report, Sections
    <2> QED
      BY <2>3
  <1>5. ASSUME NEW c \in Caller, ReleaseOwn(c)
        PROVE  Mutex!Next
    <2>1. Active(c) /\ Finish(c, result[c]) /\ InSection(c) /\ Owns(c)
      BY <1>5 DEF ReleaseOwn, Active, InSection, Deletable
    <2>2. Section(c) = "inside"
      BY <2>1 DEF Section, IInv, LockInvariant, LeaseBacked
    <2>3. CASE result[c] \in {"value", "callbackError"}
      <3>1. Mutex!Return(c)
        BY <2>1, <2>2, <2>3, FinishSection DEF Mutex!Return, Sections
      <3> QED
        BY <3>1
    <2>4. CASE result[c] = "none"
      <3>1. \A d \in Caller : Section(d)' = IF d \in {c} THEN "out" ELSE Section(d)
        BY <1>0, <2>1, <2>4, FinishSection, FinishEffect DEF Section, IInv
      <3>2. Mutex!Abandon({c})
        BY <3>1 DEF Mutex!Abandon
      <3> QED
        BY <3>2
    <2> QED
      BY <2>3, <2>4 DEF IInv, TypeOK
  <1>6. ASSUME NEW c \in Caller, Crash(c)
        PROVE  Mutex!Next
    <2>1. \A d \in Caller :
            Section(d)' = IF d \in Stack(c) THEN "out" ELSE Section(d)
      BY <1>6 DEF Crash, Forget, Section, InSection, IInv, TypeOK
    <2>2. Stack(c) \in SUBSET Caller
      BY DEF Stack
    <2>3. Mutex!Abandon(Stack(c))
      BY <2>1 DEF Mutex!Abandon
    <2> QED
      BY <2>2, <2>3
  <1>7. ASSUME Tick
        PROVE  Mutex!Next \/ Sections' = Sections
    <2>1. \A d \in Caller : /\ InSection(d)' = InSection(d)
                            /\ outcome'[d] = outcome[d]
                            /\ lease[d] \in Nat /\ lease'[d] = Down(lease[d])
      BY <1>7 DEF Tick, InSection, IInv, TypeOK
    <2>2. CASE \E c \in Caller : InSection(c) /\ lease[c] = 1
      <3>1. PICK c \in Caller : InSection(c) /\ lease[c] = 1
        BY <2>2
      <3>2. \A d \in Caller \ {c} : Section(d)' = Section(d)
        <4> TAKE d \in Caller \ {c}
        <4>1. ~ (InSection(d) /\ lease[d] > 0)
          BY <3>1 DEF IInv, LockInvariant, LeaseBacked, Owns, OwnRequestIds
        <4> QED
          BY <2>1, <4>1 DEF Section, Down
      <3>3. Section(c) = "inside" /\ Section(c)' = "overrun"
        BY <2>1, <3>1 DEF Section, Down
      <3>4. Mutex!Overrun(c)
        BY <3>2, <3>3, OneSection DEF Mutex!Overrun, Sections
      <3> QED
        BY <3>4
    <2>3. CASE \A c \in Caller : InSection(c) => lease[c] # 1
      <3>1. \A d \in Caller : Section(d)' = Section(d)
        BY <2>1, <2>3 DEF Section, Down
      <3> QED
        BY <3>1 DEF Sections
    <2> QED
      BY <2>2, <2>3
  <1>8. CASE UNCHANGED vars
    <2>1. \A d \in Caller : Section(d)' = Section(d)
      BY <1>8 DEF vars, Section, InSection
    <2> QED
      BY <2>1 DEF Sections
  <1> QED
    BY <1>1, <1>2, <1>3, <1>4, <1>5, <1>6, <1>7, <1>8 DEF Next, Progress, Fault

\* The Redis lock and its runners give every caller the life cycle that
\* LeaseMutex describes.
THEOREM ImplementsLeaseMutex ==
  ASSUME OwnRequestIds
  PROVE  Spec => MutexSpec
<1>1. Init => Mutex!Init
  BY DEF Init, Mutex!Init, Section, InSection
<1>2. TypeOK /\ LockInvariant /\ NormalReturnWasExclusive
      /\ (TypeOK /\ LockInvariant /\ NormalReturnWasExclusive)' /\ [Next]_vars
        => [Mutex!Next]_Sections
  BY SectionStep DEF IInv
<1> QED
  BY <1>1, <1>2, LockInvariantHolds, TypeCorrect, PTL
  DEF Spec, MutexSpec, Mutex!Spec, Sections
=============================================================================
