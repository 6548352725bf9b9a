---------------------------- MODULE JdkLockProofs ----------------------------
(***************************************************************************)
(* What JdkLock guarantees for any number of threads and instances: its    *)
(* types, that an instance serves one call at a time, and that one         *)
(* instance grants the key to one thread at a time.                        *)
(***************************************************************************)
EXTENDS JdkLock, FiniteSetTheorems, TLAPS

Inside(t) == at[t] \in {"contains", "put", "tryLock", "remove"}

\* The cache as the thread in the guard has found or left it, and as the holder put it.
CacheKept ==
  OneInstance /\ ~ disturbed =>
    \A t \in Thread :
      /\ at[t] = "put" => entry = NoThread
      /\ at[t] = "tryLock" => entry = t
      /\ t \in holds => entry = t /\ at[t] \notin {"contains", "put", "tryLock"}

IInv == TypeOK /\ CacheKept

\* Two threads of one instance are not inside its methods together.
LEMMA OneInside ==
  ASSUME TypeOK, NEW t \in Thread, NEW u \in Thread, Inside(t), Inside(u), of[t] = of[u]
  PROVE  t = u
  BY DEF TypeOK, Inside

LEMMA TypeStep ==
  ASSUME NoThread \notin Thread, TypeOK, [Next]_jdkVars
  PROVE  TypeOK'
  <1> USE DEF TypeOK, Points, GoTo, Unguard, FreeGuard
  <1>1. ASSUME NEW t \in Thread, TryGet(t) PROVE TypeOK'
    BY <1>1 DEF TryGet, GuardFree
  <1>2. ASSUME NEW t \in Thread, Release(t) PROVE TypeOK'
    BY <1>2 DEF Release, GuardFree
  <1>3. ASSUME NEW t \in Thread, ContainsKey(t) PROVE TypeOK'
    BY <1>3 DEF ContainsKey
  <1>4. ASSUME NEW t \in Thread, Put(t) PROVE TypeOK'
    BY <1>4 DEF Put
  <1>5. ASSUME NEW t \in Thread, TryLock(t) PROVE TypeOK'
    BY <1>5 DEF TryLock
  <1>6. ASSUME NEW t \in Thread, Remove(t) PROVE TypeOK'
    BY <1>6 DEF Remove, RemoveEntry
  <1>7. CASE Expire
    BY <1>7 DEF Expire
  <1>8. CASE UNCHANGED jdkVars
    BY <1>8 DEF jdkVars
  <1> QED
    BY <1>1, <1>2, <1>3, <1>4, <1>5, <1>6, <1>7, <1>8 DEF Next, Finish

\* JdkLock is type correct: in particular a guard has a thread exactly while that thread
\* is between the question and the end of its method.
THEOREM TypeCorrect ==
  ASSUME NoThread \notin Thread
  PROVE  Spec => []TypeOK
<1>1. Init => TypeOK
  BY DEF Init, TypeOK, Points
<1> QED
  BY <1>1, TypeStep, PTL DEF Spec

\* What CacheKept says of one thread.
CacheKeptFor(u) ==
  /\ at[u] = "put" => entry = NoThread
  /\ at[u] = "tryLock" => entry = u
  /\ u \in holds => entry = u /\ at[u] \notin {"contains", "put", "tryLock"}

LEMMA CacheStep ==
  ASSUME NoThread \notin Thread, IInv, [Next]_jdkVars
  PROVE  CacheKept'
  <1> SUFFICES ASSUME OneInstance', ~ disturbed', NEW u \in Thread
               PROVE  CacheKeptFor(u)'
    BY DEF CacheKept, CacheKeptFor
  <1>0. of' = of /\ ~ disturbed
    <2>1. ASSUME NEW t \in Thread, TryGet(t) \/ Release(t) PROVE of' = of /\ ~ disturbed
      BY <2>1 DEF TryGet, Release
    <2>2. ASSUME NEW t \in Thread, ContainsKey(t) \/ Put(t) \/ TryLock(t)
          PROVE  of' = of /\ ~ disturbed
      BY <2>2 DEF ContainsKey, Put, TryLock
    <2>3. ASSUME NEW t \in Thread, Remove(t) PROVE of' = of /\ ~ disturbed
      BY <2>3, Zenon DEF Remove
    <2>4. CASE Expire
      BY <2>4 DEF Expire
    <2>5. CASE UNCHANGED jdkVars
      BY <2>5 DEF jdkVars
    <2> QED
      BY <2>1, <2>2, <2>3, <2>4, <2>5 DEF Next, Finish
  <1>1. OneInstance /\ \A t \in Thread : CacheKeptFor(t)
    BY <1>0 DEF OneInstance, IInv, CacheKept, CacheKeptFor
  <1>2. \A t \in Thread : Inside(t) /\ Inside(u) => t = u
    BY <1>1, OneInside DEF IInv, OneInstance
  <1>3. at \in [Thread -> Points] /\ holds \subseteq Thread
    BY DEF IInv, TypeOK
  <1> USE <1>0, <1>1, <1>2, <1>3 DEF CacheKeptFor, GoTo, Points, Inside
  <1>4. ASSUME NEW t \in Thread, TryGet(t) PROVE CacheKeptFor(u)'
    BY <1>4 DEF TryGet
  <1>5. ASSUME NEW t \in Thread, Release(t) PROVE CacheKeptFor(u)'
    BY <1>5 DEF Release
  <1>6. ASSUME NEW t \in Thread, ContainsKey(t) PROVE CacheKeptFor(u)'
    BY <1>6 DEF ContainsKey, NoEntry
  <1>7. ASSUME NEW t \in Thread, Put(t) PROVE CacheKeptFor(u)'
    BY <1>7 DEF Put
  <1>8. ASSUME NEW t \in Thread, TryLock(t) PROVE CacheKeptFor(u)'
    BY <1>8 DEF TryLock
  <1>9. ASSUME NEW t \in Thread, Remove(t) PROVE CacheKeptFor(u)'
    <2>1. at[t] = "remove" /\ at' = [at EXCEPT ![t] = at'[t]] /\ at'[t] \in {"idle", "illegalMonitor"}
      BY <1>9 DEF Remove
    <2>2. at'[u] \notin {"contains", "put", "tryLock"}
      BY <2>1
    <2>3. holds' = holds \ {t} /\ entry \notin holds \ {t}
      BY <1>9 DEF Remove
    <2>4. u \notin holds'
      BY <2>3
    <2> QED
      BY <2>2, <2>4
  <1>10. CASE Expire
    BY <1>10 DEF Expire
  <1>11. CASE UNCHANGED jdkVars
    BY <1>11 DEF jdkVars
  <1> QED
    BY <1>4, <1>5, <1>6, <1>7, <1>8, <1>9, <1>10, <1>11 DEF Next, Finish

\* Through one instance tryGetDistributedLock grants the key to one thread at a time,
\* until an entry expires or is released by a thread that does not hold it.
THEOREM ExclusiveWithinInstanceHolds ==
  ASSUME NoThread \notin Thread
  PROVE  Spec => []ExclusiveWithinInstance
<1>1. Init => IInv
  BY DEF Init, IInv, TypeOK, Points, CacheKept
<1>2. IInv /\ [Next]_jdkVars => IInv'
  BY TypeStep, CacheStep DEF IInv
<1>3. IInv => ExclusiveWithinInstance
  <2> SUFFICES ASSUME IInv, OneInstance, ~ disturbed PROVE Cardinality(holds) <= 1
    BY DEF ExclusiveWithinInstance
  <2>1. holds \subseteq {entry}
    BY DEF IInv, TypeOK, CacheKept
  <2>2. IsFiniteSet({entry}) /\ Cardinality({entry}) = 1
    BY FS_Singleton
  <2>3. IsFiniteSet(holds) /\ Cardinality(holds) \in Nat /\ Cardinality(holds) <= Cardinality({entry})
    BY <2>1, <2>2, FS_Subset, FS_CardinalityType
  <2> QED
    BY <2>2, <2>3
<1> QED
  BY <1>1, <1>2, <1>3, PTL DEF Spec

\* Whose lock is in the cache: its owner is about to be granted the key, has it, or was
\* refused when he gave it back.
LeftOver == entry # NoThread => at[entry] = "tryLock" \/ entry \in holds \cup refusedRelease

\* A lock that stays in the cache without a holder is one whose release was refused because
\* the instance was busy.
THEOREM LeftOverOnlyWhenRefusedHolds ==
  ASSUME NoThread \notin Thread
  PROVE  Spec => []LeftOverOnlyWhenRefused
<1>1. Init => LeftOver
  BY DEF Init, LeftOver
<1>2. TypeOK /\ LeftOver /\ [Next]_jdkVars => LeftOver'
  <2> SUFFICES ASSUME TypeOK, LeftOver, [Next]_jdkVars PROVE LeftOver'
    OBVIOUS
  <2> USE DEF TypeOK, LeftOver, GoTo
  <2>1. ASSUME NEW t \in Thread, TryGet(t) PROVE LeftOver'
    BY <2>1 DEF TryGet
  <2>2. ASSUME NEW t \in Thread, Release(t) PROVE LeftOver'
    BY <2>2 DEF Release
  <2>3. ASSUME NEW t \in Thread, ContainsKey(t) PROVE LeftOver'
    BY <2>3 DEF ContainsKey
  <2>4. ASSUME NEW t \in Thread, Put(t) PROVE LeftOver'
    BY <2>4 DEF Put
  <2>5. ASSUME NEW t \in Thread, TryLock(t) PROVE LeftOver'
    BY <2>5 DEF TryLock
  <2>6. ASSUME NEW t \in Thread, Remove(t) PROVE LeftOver'
    BY <2>6 DEF Remove, RemoveEntry
  <2>7. CASE Expire
    BY <2>7 DEF Expire
  <2>8. CASE UNCHANGED jdkVars
    BY <2>8 DEF jdkVars
  <2> QED
    BY <2>1, <2>2, <2>3, <2>4, <2>5, <2>6, <2>7, <2>8 DEF Next, Finish
<1>3. TypeOK /\ LeftOver => LeftOverOnlyWhenRefused
  BY DEF TypeOK, LeftOver, LeftOverOnlyWhenRefused
<1> QED
  BY <1>1, <1>2, <1>3, TypeCorrect, PTL DEF Spec
=============================================================================
