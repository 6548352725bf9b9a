--------------------------- MODULE JsInvokerProofs ---------------------------
(***************************************************************************)
(* Theorems about JsInvoker for any threads, scripts and sizes of the      *)
(* caches, and any number of modifications.                                *)
(***************************************************************************)
EXTENDS JsInvoker, SequenceTheorems, FiniteSetTheorems, TLAPS

\* Where a thread is goes with whether an invoke.. method of its runs and with what
\* its evalFile is for and has read.
CallsInOrder ==
  \A t \in Thread :
    /\ pc[t] \in {"idle", "tryLockToInvoke"} => t \notin invoking
    /\ pc[t] = "script" => t \in invoking
    /\ pc[t] \in {"readChanged", "remove", "read"} => key[t] \in File
    /\ pc[t] = "eval" => key[t] \in Key
    /\ pc[t] \in {"remove", "eval"} => 1 <= text[t] /\ text[t] <= version[key[t]]

\* Threads that entered evalFile with the lock keep it; since a wait timed out in front of
\* evalFile, somebody is inside, and nothing that was marked before counts.
OneEvaluates ==
  /\ \A t \in Thread : Inside(t) /\ ~ overtaken => owner = t
  /\ overtaken => \E t \in Thread : Inside(t)
  /\ overtaken => \A f \in File : noticed[f] = 0

\* No cached object is newer than the text on disk, and what is about to replace one
\* is not older.
NewerComes ==
  /\ \A k \in Key : object[k] <= version[k]
  /\ \A t \in Thread :
       ~ overtaken /\ pc[t] \in {"remove", "eval"} => object[key[t]] <= text[t]

\* A modification that was noticed is on disk, and is still marked, or the cache has
\* nothing older, or a thread is about to put it there.
Remembered(f) ==
  \/ noticed[f] <= object[f]
  \/ object[f] = 0
  \/ f \in Range(fileChangeCache)
  \/ \E t \in Thread : pc[t] = "eval" /\ key[t] = f

NoticedIsRead ==
  /\ \A f \in File : noticed[f] <= version[f] /\ Remembered(f)
  /\ \A t \in Thread :
       key[t] \in File /\ (pc[t] \in {"remove", "eval"} \/ (pc[t] = "unlock" /\ t \notin missed))
         => noticed[key[t]] <= text[t]

IInv ==
  /\ TypeOK /\ CallsInOrder /\ LockGivenBack /\ OneEvaluates /\ NewerComes
  /\ Cardinality(File) <= CacheSize => NoticedIsRead
-----------------------------------------------------------------------------
(* The caches                                                              *)

\* A sequence without repetition is no longer than the set of its elements is large, and
\* shorter if an element is missing.
LEMMA InjectiveLength ==
  ASSUME NEW S, IsFiniteSet(S), NEW s \in Seq(S), IsInjective(s), NEW k \in S, k \notin Range(s)
  PROVE  Len(s) < Cardinality(S)
  <1> DEFINE D == 1..Len(s)
  <1>1. IsFiniteSet(D) /\ Cardinality(D) = Len(s)
    <2>1. 1 \in Int /\ Len(s) \in Int /\ Len(s) >= 0
      BY LenProperties
    <2>2. /\ IsFiniteSet(1..Len(s))
          /\ Cardinality(1..Len(s)) = IF 1 > Len(s) THEN 0 ELSE Len(s) - 1 + 1
      BY <2>1, FS_Interval
    <2> QED
      BY <2>1, <2>2
  <1>2. IsFiniteSet(S \ {k}) /\ Cardinality(S \ {k}) = Cardinality(S) - 1
    BY FS_RemoveElement
  <1>3. \A i \in D : s[i] \in S \ {k}
    BY ElementOfSeq, LenProperties DEF Range
  <1>4. [i \in D |-> s[i]] \in Injection(D, S \ {k})
    BY <1>3, LenProperties DEF Injection, IsInjective
  <1>5. Cardinality(D) <= Cardinality(S \ {k})
    BY <1>1, <1>2, <1>4, FS_Injection
  <1>6. Cardinality(S) \in Nat
    BY FS_CardinalityType
  <1> QED
    BY <1>1, <1>2, <1>5, <1>6, LenProperties

\* put keeps a cache in its size and has the new key in it; the eldest key goes only
\* when more keys are possible than there is room for.
LEMMA PutKeyKeeps ==
  ASSUME NEW S, NEW s \in Seq(S), IsInjective(s), Len(s) <= CacheSize,
         NEW k \in S
  PROVE  /\ PutKey(s, k) \in Seq(S) /\ IsInjective(PutKey(s, k))
         /\ Len(PutKey(s, k)) <= CacheSize
         /\ k \in Range(PutKey(s, k))
         /\ Range(PutKey(s, k)) \subseteq Range(s) \cup {k}
         /\ IsFiniteSet(S) /\ Cardinality(S) <= CacheSize => Range(s) \subseteq Range(PutKey(s, k))
  <1>1. CASE k \in Range(s)
    BY <1>1 DEF PutKey
  <1>2. CASE k \notin Range(s)
    <2> DEFINE a == Append(s, k)
    <2>1. /\ a \in Seq(S) /\ Len(a) = Len(s) + 1
          /\ \A i \in 1..Len(s) : a[i] = s[i]
          /\ a[Len(a)] = k
      BY AppendProperties, LenProperties
    <2>2. DOMAIN s = 1..Len(s) /\ DOMAIN a = 1..Len(a) /\ Len(s) \in Nat
      BY <2>1, LenProperties
    <2>3. IsInjective(a)
      BY <1>2, <2>1, <2>2 DEF IsInjective, Range
    <2>4. Range(a) = Range(s) \cup {k}
      BY <2>1, <2>2 DEF Range
    <2>5. PutKey(s, k) = IF Len(a) > CacheSize THEN Tail(a) ELSE a
      BY <1>2 DEF PutKey, RemoveEldest
    <2>6. CASE Len(a) > CacheSize
      <3> DEFINE b == Tail(a)
      <3> HIDE DEF a
      <3>0. a \in Seq(S) /\ Len(a) = Len(s) + 1 /\ Len(s) \in Nat
        BY <2>1, <2>2
      <3>00. a # <<>>
        BY <3>0, EmptySeq
      <3>01. /\ Tail(a) \in Seq(S) /\ Len(Tail(a)) = Len(a) - 1
             /\ \A i \in 1..Len(Tail(a)) : Tail(a)[i] = a[i + 1]
        BY <3>0, <3>00, HeadTailProperties
      <3>02. Len(Tail(a)) = Len(s)
        BY <3>0, <3>01
      <3>1. /\ b \in Seq(S) /\ Len(b) = Len(s)
            /\ \A i \in 1..Len(s) : b[i] = a[i + 1]
        BY <3>01, <3>02
      <3>2. DOMAIN b = 1..Len(s)
        BY <3>1, LenProperties
      <3>3. IsInjective(b)
        BY <3>1, <3>2, <2>1, <2>2, <2>3 DEF IsInjective
      <3>4. Len(s) \in 1..Len(s)
        BY <2>1, <2>2, <2>6, JsAssumption
      <3>5. k \in Range(b)
        BY <3>1, <3>2, <3>4, <2>1 DEF Range
      <3>6. Range(b) \subseteq Range(a)
        BY <3>1, <3>2, <2>1, <2>2 DEF Range
      <3>7. ~ (IsFiniteSet(S) /\ Cardinality(S) <= CacheSize)
        BY <1>2, <2>1, <2>2, <2>6, InjectiveLength, FS_CardinalityType, JsAssumption
      <3> QED
        BY <2>4, <2>5, <2>6, <3>1, <3>3, <3>5, <3>6, <3>7
    <2>7. CASE Len(a) <= CacheSize
      <3>1. k \in Range(a)
        BY <2>4
      <3> QED
        BY <2>1, <2>2, <2>3, <2>4, <2>5, <2>7, <3>1, JsAssumption
    <2> QED
      BY <2>1, <2>2, <2>6, <2>7, JsAssumption
  <1> QED
    BY <1>1, <1>2

\* remove takes one key out and no other.
LEMMA RemoveKeyKeeps ==
  ASSUME NEW S, NEW s \in Seq(S), IsInjective(s), NEW k
  PROVE  /\ RemoveKey(s, k) \in Seq(S) /\ IsInjective(RemoveKey(s, k))
         /\ Len(RemoveKey(s, k)) <= Len(s)
         /\ Range(s) \ {k} \subseteq Range(RemoveKey(s, k))
  <1>1. CASE k \notin Range(s)
    BY <1>1, LenProperties DEF RemoveKey
  <1>2. CASE k \in Range(s)
    <2> DEFINE n == CHOOSE i \in DOMAIN s : s[i] = k
               b == SubSeq(s, 1, n - 1)
               c == SubSeq(s, n + 1, Len(s))
               r == b \o c
    <2>1. n \in 1..Len(s) /\ s[n] = k /\ DOMAIN s = 1..Len(s) /\ Len(s) \in Nat
      BY <1>2, LenProperties DEF Range
    <2> HIDE DEF n, b, c, r
    <2>2. /\ b \in Seq(S) /\ Len(b) = n - 1
          /\ \A i \in 1..n-1 : b[i] = s[i]
      BY <2>1, SubSeqProperties DEF b
    <2>3. /\ c \in Seq(S) /\ Len(c) = Len(s) - n
          /\ \A i \in 1..Len(s)-n : c[i] = s[i + n]
      <3>1. \A i \in n+1..Len(s) : s[i] \in S
        BY <2>1, ElementOfSeq
      <3>2. /\ c \in Seq(S) /\ Len(c) = (IF n + 1 <= Len(s) THEN Len(s) - (n + 1) + 1 ELSE 0)
            /\ \A i \in 1..Len(s)-(n+1)+1 : c[i] = s[n + 1 + i - 1]
        BY <2>1, <3>1, SubSeqProperties DEF c
      <3>3. ASSUME NEW i \in 1..Len(s)-n PROVE c[i] = s[i + n]
        <4>1. n + 1 + i - 1 = i + n /\ i \in 1..Len(s)-(n+1)+1
          BY <2>1
        <4> QED
          BY <3>2, <4>1
      <3>4. n \in Int /\ Len(s) \in Int /\ n <= Len(s)
        BY <2>1
      <3>5. Len(c) = Len(s) - n
        BY <3>2, <3>4
      <3> QED
        BY <3>2, <3>3, <3>5
    <2>4. /\ r \in Seq(S) /\ Len(r) = Len(s) - 1
          /\ \A i \in 1..Len(s)-1 : r[i] = IF i < n THEN s[i] ELSE s[i + 1]
      <3>1. /\ r \in Seq(S) /\ Len(r) = Len(b) + Len(c)
            /\ \A i \in 1..Len(b)+Len(c) : r[i] = IF i <= Len(b) THEN b[i] ELSE c[i - Len(b)]
        BY <2>2, <2>3, ConcatProperties DEF r
      <3>2. ASSUME NEW i \in 1..Len(s)-1 PROVE r[i] = IF i < n THEN s[i] ELSE s[i + 1]
        <4>1. CASE i < n
          <5>1. i \in 1..Len(b)+Len(c) /\ i <= Len(b) /\ i \in 1..n-1
            BY <2>1, <2>2, <2>3, <4>1
          <5> QED
            BY <2>2, <3>1, <4>1, <5>1
        <4>2. CASE i >= n
          <5>1. r[i] = c[i - (n - 1)] /\ i - (n - 1) \in 1..Len(s)-n
            BY <2>1, <2>2, <2>3, <3>1, <4>2
          <5>2. c[i - (n - 1)] = s[i - (n - 1) + n]
            BY <2>3, <5>1
          <5> QED
            BY <2>1, <4>2, <5>1, <5>2
        <4> QED
          BY <2>1, <4>1, <4>2
      <3> QED
        BY <2>1, <2>2, <2>3, <3>1, <3>2
    <2>5. DOMAIN r = 1..Len(s)-1
      BY <2>1, <2>4, LenProperties
    <2>6. IsInjective(r)
      <3>1. SUFFICES ASSUME NEW i \in 1..Len(s)-1, NEW j \in 1..Len(s)-1, r[i] = r[j] PROVE i = j
        BY <2>5 DEF IsInjective
      <3>2. PICK i1 \in 1..Len(s) : r[i] = s[i1] /\ i1 = IF i < n THEN i ELSE i + 1
        BY <2>1, <2>4
      <3>3. PICK j1 \in 1..Len(s) : r[j] = s[j1] /\ j1 = IF j < n THEN j ELSE j + 1
        BY <2>1, <2>4
      <3>4. i1 = j1
        BY <2>1, <3>1, <3>2, <3>3 DEF IsInjective
      <3> QED
        BY <2>1, <3>2, <3>3, <3>4
    <2>7. ASSUME NEW x \in Range(s) \ {k} PROVE x \in Range(r)
      <3>1. PICK i \in 1..Len(s) : s[i] = x
        BY <2>1 DEF Range
      <3>2. CASE i < n
        BY <2>1, <2>4, <2>5, <3>1, <3>2 DEF Range
      <3>3. CASE i > n
        <4>1. i - 1 \in DOMAIN r /\ r[i - 1] = x
          BY <2>1, <2>4, <2>5, <3>1, <3>3
        <4> QED
          BY <4>1 DEF Range
      <3> QED
        BY <2>1, <2>7, <3>1, <3>2, <3>3
    <2>8. RemoveKey(s, k) = r
      BY <1>2 DEF RemoveKey, RemoveAt, r, b, c, n
    <2> QED
      BY <2>1, <2>4, <2>6, <2>7, <2>8
  <1> QED
    BY <1>1, <1>2
-----------------------------------------------------------------------------
(* The lock and the calls                                                  *)

\* After a step, every variable has its type; a cache that was put to has no key twice.
LEMMA TypeStep ==
  ASSUME TypeOK, CallsInOrder, LockGivenBack, [Next]_vars
  PROVE  TypeOK'
  <1> USE DEF TypeOK, vars, watcher, caches, lock, history
  <1>1. ASSUME NEW f \in File, Modify(f) PROVE TypeOK'
    <2>1. f \in Key
      BY DEF Key
    <2>2. version' \in [Key -> 1..MaxVersion]
      BY <1>1, <2>1, JsAssumption DEF Modify
    <2> QED
      BY <1>1, <2>2 DEF Modify
  <1>2. ASSUME NEW f \in File, FindCached(f) PROVE TypeOK'
    BY <1>2 DEF FindCached
  <1>3. CASE PollEvents
    BY <1>3 DEF PollEvents
  <1>4. CASE Mark
    <2>1. marking \in File /\ marking \in Key
      BY <1>4 DEF Mark, Key
    <2>2. /\ fileChangeCache' \in Seq(File) /\ IsInjective(fileChangeCache')
          /\ Len(fileChangeCache') <= CacheSize
      BY <1>4, <2>1, PutKeyKeeps DEF Mark
    <2>3. noticed' \in [File -> 0..MaxVersion]
      BY <1>4, <2>1 DEF Mark
    <2> QED
      BY <1>4, <2>2, <2>3 DEF Mark
  <1>5. ASSUME NEW t \in Thread, TryLock(t) PROVE TypeOK'
    <2>1. holds' \in 0..2
      BY <1>5, JsAssumption DEF TryLock, Enter, Goto, LockGivenBack, CallsInOrder, Inside, Evaluating
    <2> QED
      BY <1>5, <2>1 DEF TryLock, Enter, Goto, PCs, Evaluating
  <1>6. ASSUME NEW t \in Thread, TimeOut(t) PROVE TypeOK'
    <2>1. overtaken' \in BOOLEAN
      BY <1>6 DEF TimeOut
    <2>2. noticed' \in [File -> 0..MaxVersion]
      BY <1>6, JsAssumption DEF TimeOut
    <2>3. pc' \in [Thread -> PCs] /\ invoking' \subseteq Thread
      BY <1>6 DEF TimeOut, Enter, Goto, PCs, Evaluating
    <2> QED
      BY <1>6, <2>1, <2>2, <2>3 DEF TimeOut
  <1>7. ASSUME NEW t \in Thread, Release(t) PROVE owner' \in Thread \cup {NoThread} /\ holds' \in 0..2
    BY <1>7, JsAssumption DEF Release, LockGivenBack
  <1>8. ASSUME NEW t \in Thread, Interrupt(t) PROVE TypeOK'
    BY <1>7, <1>8 DEF Interrupt, Back, PCs
  <1>9. ASSUME NEW t \in Thread, NEW k \in Key \cup {NoKey}, EvalFile(t, k) PROVE TypeOK'
    BY <1>9, JsAssumption DEF EvalFile, PCs, Waiting
  <1>10. ASSUME NEW t \in Thread, Check(t) PROVE TypeOK'
    <2>1. text' \in [Thread -> 0..MaxVersion]
      <3>1. \A k \in Key : object[k] \in 0..MaxVersion /\ version[k] \in 0..MaxVersion
        BY JsAssumption
      <3>2. text' = text \/ \E n \in 0..MaxVersion : text' = [text EXCEPT ![t] = n]
        BY <1>10, <3>1 DEF Check
      <3> QED
        BY <3>2
    <2>2. pc' \in [Thread -> PCs]
      BY <1>10 DEF Check, Goto, PCs, Evaluating
    <2>3. missed' \subseteq Thread
      BY <1>10 DEF Check
    <2> QED
      BY <1>10, <2>1, <2>2, <2>3 DEF Check
  <1>11. ASSUME NEW t \in Thread, ReadFileText(t) PROVE TypeOK'
    <2>1. version[key[t]] \in 0..MaxVersion
      BY <1>11, JsAssumption DEF ReadFileText, Goto, CallsInOrder, Key
    <2> QED
      BY <1>11, <2>1 DEF ReadFileText, Goto, PCs, Evaluating
  <1>12. ASSUME NEW t \in Thread, Unmark(t) PROVE TypeOK'
    <2>1. /\ fileChangeCache' \in Seq(File) /\ IsInjective(fileChangeCache')
          /\ Len(fileChangeCache') <= CacheSize
      BY <1>12, RemoveKeyKeeps, LenProperties, JsAssumption DEF Unmark
    <2> QED
      BY <1>12, <2>1 DEF Unmark, Goto, PCs, Evaluating
  <1>13. ASSUME NEW t \in Thread, Eval(t) PROVE TypeOK'
    <2> DEFINE k == key[t]
               keys == PutKey(jsObjectCache, k)
    <2>1. k \in Key /\ text[t] \in 1..MaxVersion
      BY <1>13, JsAssumption DEF Eval, Goto, CallsInOrder
    <2>2. /\ keys \in Seq(Key) /\ IsInjective(keys) /\ Len(keys) <= CacheSize
          /\ k \in Range(keys) /\ Range(keys) \subseteq Range(jsObjectCache) \cup {k}
      BY <2>1, PutKeyKeeps
    <2>3. /\ jsObjectCache' = keys
          /\ object' = [j \in Key |-> IF j = k THEN text[t]
                                      ELSE IF j \in Range(keys) THEN object[j] ELSE 0]
      BY <1>13 DEF Eval, PutObject
    <2> HIDE DEF keys, k
    <2>4. object' \in [Key -> 0..MaxVersion]
      BY <2>1, <2>3, JsAssumption
    <2>5. Range(keys) = {j \in Key : object'[j] # 0}
      BY <2>1, <2>2, <2>3
    <2> QED
      BY <1>13, <2>2, <2>3, <2>4, <2>5 DEF Eval, Goto, PCs, Evaluating
  <1>14. ASSUME NEW t \in Thread, Leave(t) PROVE pc' \in [Thread -> PCs] /\ text' \in [Thread -> 0..MaxVersion]
    BY <1>14, JsAssumption DEF Leave, Back, PCs
  <1>15. ASSUME NEW t \in Thread, Fail(t) PROVE TypeOK'
    <2>1. noticed' \in [File -> 0..MaxVersion]
      BY <1>15, JsAssumption DEF Fail
    <2> QED
      BY <1>7, <1>14, <1>15, <2>1 DEF Fail, Leave
  <1>16. ASSUME NEW t \in Thread, Unlock(t) PROVE TypeOK'
    BY <1>7, <1>14, <1>16 DEF Unlock, Leave
  <1>17. ASSUME NEW t \in Thread, Invoke(t) PROVE TypeOK'
    BY <1>17 DEF Invoke, Goto, PCs, Waiting
  <1>18. ASSUME NEW t \in Thread, InvokeEnds(t) PROVE TypeOK'
    BY <1>7, <1>18 DEF InvokeEnds, Goto, PCs
  <1>19. CASE UNCHANGED vars
    BY <1>19
  <1> QED
    BY <1>1, <1>2, <1>3, <1>4, <1>5, <1>6, <1>8, <1>9, <1>10, <1>11, <1>12, <1>13, <1>15,
       <1>16, <1>17, <1>18, <1>19 DEF Next

\* The watcher moves no thread, and the texts on disk only get newer.
LEMMA WatcherSteps ==
  ASSUME TypeOK, PollEvents \/ Mark \/ \E f \in File : Modify(f) \/ FindCached(f)
  PROVE  /\ UNCHANGED <<lock, pc, invoking, key, text, missed, overtaken, jsObjectCache, object>>
         /\ \A k \in Key : version[k] <= version'[k]
  <1>1. ASSUME NEW f \in File, Modify(f) PROVE \A k \in Key : version[k] <= version'[k]
    <2>1. version \in [Key -> 1..MaxVersion] /\ version' = [version EXCEPT ![f] = version[f] + 1]
      BY <1>1 DEF Modify, TypeOK
    <2>2. \A k \in Key : version'[k] = version[k] \/ version'[k] = version[k] + 1
      BY <2>1
    <2> QED
      BY <2>1, <2>2, JsAssumption
  <1>2. ASSUME version' = version PROVE \A k \in Key : version[k] <= version'[k]
    BY <1>2, JsAssumption DEF TypeOK
  <1> QED
    BY <1>1, <1>2 DEF PollEvents, Mark, Modify, FindCached, caches, lock, history

\* What the calls rely on is kept.
LEMMA CallStep ==
  ASSUME TypeOK, CallsInOrder, [Next]_vars
  PROVE  CallsInOrder'
  <1> USE DEF TypeOK, CallsInOrder
  <1>1. CASE PollEvents \/ Mark \/ \E f \in File : Modify(f) \/ FindCached(f)
    <2>1. /\ UNCHANGED <<pc, invoking, key, text>>
          /\ \A k \in Key : version[k] <= version'[k]
      BY <1>1, WatcherSteps
    <2>2. ASSUME NEW t \in Thread, pc[t] \in {"remove", "eval"} PROVE text[t] <= version'[key[t]]
      <3>1. key[t] \in Key /\ text[t] <= version[key[t]] /\ version[key[t]] <= version'[key[t]]
        BY <2>1, <2>2 DEF Key
      <3>2. text[t] \in Int /\ version[key[t]] \in Int
        BY <3>1, JsAssumption
      <3>3. version'[key[t]] \in Int
        BY <1>1, <3>1, JsAssumption DEF Modify, PollEvents, Mark, FindCached
      <3> QED
        BY <3>1, <3>2, <3>3
    <2> QED
      BY <2>1, <2>2
  <1>2. ASSUME NEW t \in Thread, TryLock(t) \/ TimeOut(t) PROVE CallsInOrder'
    BY <1>2 DEF TryLock, TimeOut, Enter, Goto, watcher, lock
  <1>3. ASSUME NEW t \in Thread, Interrupt(t) PROVE CallsInOrder'
    BY <1>3 DEF Interrupt, Back, watcher, Waiting
  <1>4. ASSUME NEW t \in Thread, NEW k \in Key \cup {NoKey}, EvalFile(t, k) PROVE CallsInOrder'
    BY <1>4 DEF EvalFile, watcher
  <1>5. ASSUME NEW t \in Thread, Check(t) PROVE CallsInOrder'
    <2>1. CASE key[t] = NoKey /\ Goto(t, "check", "unlock") /\ UNCHANGED <<text, missed>>
      BY <1>5, <2>1 DEF Check, Goto, watcher
    <2>2. CASE /\ Changed(key[t])
               /\ Goto(t, "check", IF key[t] \in File THEN "readChanged" ELSE "remove")
               /\ UNCHANGED <<text, missed>>
      <3>1. key[t] \in File
        BY <2>2, ElementOfSeq, LenProperties DEF Changed, Range
      <3> QED
        BY <1>5, <2>2, <3>1 DEF Check, Goto, watcher
    <2>3. CASE /\ key[t] # NoKey
               /\ Goto(t, "check", IF object[key[t]] # 0 THEN "unlock"
                                   ELSE IF key[t] \in File THEN "read" ELSE "eval")
               /\ text' = [text EXCEPT ![t] = IF object[key[t]] # 0 \/ key[t] \in File
                                              THEN object[key[t]] ELSE version[key[t]]]
      <3>1. key[t] \in Key /\ version[key[t]] \in 1..MaxVersion
        BY <2>3
      <3> QED
        BY <1>5, <2>3, <3>1, JsAssumption DEF Check, Goto, watcher
    <2> QED
      BY <1>5, <2>1, <2>2, <2>3 DEF Check
  <1>6. ASSUME NEW t \in Thread, ReadFileText(t) PROVE CallsInOrder'
    <2>1. key[t] \in File /\ key[t] \in Key
      BY <1>6 DEF ReadFileText, Goto, Key
    <2>2. version[key[t]] \in 1..MaxVersion
      BY <2>1
    <2> QED
      BY <1>6, <2>1, <2>2, JsAssumption DEF ReadFileText, Goto, watcher
  <1>7. ASSUME NEW t \in Thread, Unmark(t) PROVE CallsInOrder'
    BY <1>7 DEF Unmark, Goto, watcher, Key
  <1>8. ASSUME NEW t \in Thread, Eval(t) PROVE CallsInOrder'
    BY <1>8 DEF Eval, Goto, watcher
  <1>9. ASSUME NEW t \in Thread, Fail(t) \/ Unlock(t) PROVE CallsInOrder'
    <2>1. /\ UNCHANGED <<version, invoking>>
          /\ pc' = [pc EXCEPT ![t] = IF t \in invoking THEN "script" ELSE "idle"]
          /\ \A u \in Thread \ {t} : key'[u] = key[u] /\ text'[u] = text[u]
      BY <1>9 DEF Fail, Unlock, Leave, Back, watcher
    <2> QED
      BY <2>1
  <1>10. ASSUME NEW t \in Thread, Invoke(t) PROVE CallsInOrder'
    BY <1>10 DEF Invoke, Goto, watcher
  <1>11. ASSUME NEW t \in Thread, InvokeEnds(t) PROVE CallsInOrder'
    BY <1>11 DEF InvokeEnds, Goto, watcher
  <1>12. CASE UNCHANGED vars
    BY <1>12 DEF vars, watcher
  <1> QED
    BY <1>1, <1>2, <1>3, <1>4, <1>5, <1>6, <1>7, <1>8, <1>9, <1>10, <1>11, <1>12 DEF Next

\* Whoever gets the lock once more is on the way to giving it back once more.
LEMMA LockStep ==
  ASSUME TypeOK, CallsInOrder, LockGivenBack, [Next]_vars
  PROVE  LockGivenBack'
  <1> USE DEF TypeOK, LockGivenBack, Inside, Evaluating
  <1>1. CASE PollEvents \/ Mark \/ \E f \in File : Modify(f) \/ FindCached(f)
    BY <1>1, WatcherSteps DEF lock
  <1>2. ASSUME NEW t \in Thread, TryLock(t) PROVE LockGivenBack'
    <2>1. owner' = t /\ holds' = IF owner = t THEN holds + 1 ELSE 1
      BY <1>2 DEF TryLock
    <2>2. CASE Goto(t, "tryLock", "check") /\ UNCHANGED invoking
      BY <2>1, <2>2, JsAssumption DEF Goto
    <2>3. CASE Goto(t, "tryLockToInvoke", "script") /\ invoking' = invoking \cup {t}
      BY <2>1, <2>3, JsAssumption DEF Goto, CallsInOrder
    <2> QED
      BY <1>2, <2>2, <2>3 DEF TryLock, Enter
  <1>3. ASSUME NEW t \in Thread, TimeOut(t) PROVE LockGivenBack'
    BY <1>3 DEF TimeOut, Enter, Goto, lock, Free
  <1>4. ASSUME NEW t \in Thread, Interrupt(t) PROVE LockGivenBack'
    BY <1>4, JsAssumption DEF Interrupt, Back, Release, Waiting
  <1>5. ASSUME NEW t \in Thread, NEW k \in Key \cup {NoKey}, EvalFile(t, k) PROVE LockGivenBack'
    BY <1>5 DEF EvalFile, lock
  <1>6. ASSUME NEW t \in Thread, NEW p \in Evaluating, Inside(t), pc' = [pc EXCEPT ![t] = p],
               UNCHANGED <<owner, holds, invoking>>
        PROVE  LockGivenBack'
    BY <1>6
  <1>7. ASSUME NEW t \in Thread, Check(t) PROVE LockGivenBack'
    BY <1>6, <1>7 DEF Check, Goto, lock
  <1>8. ASSUME NEW t \in Thread, ReadFileText(t) \/ Unmark(t) \/ Eval(t) PROVE LockGivenBack'
    BY <1>6, <1>8 DEF ReadFileText, Unmark, Eval, Goto, lock
  <1>9. ASSUME NEW t \in Thread, Fail(t) \/ Unlock(t) PROVE LockGivenBack'
    BY <1>9, JsAssumption DEF Fail, Unlock, Leave, Back, Release
  <1>10. ASSUME NEW t \in Thread, Invoke(t) PROVE LockGivenBack'
    BY <1>10 DEF Invoke, Goto, lock
  <1>11. ASSUME NEW t \in Thread, InvokeEnds(t) PROVE LockGivenBack'
    BY <1>11, JsAssumption DEF InvokeEnds, Goto, Release
  <1>12. CASE UNCHANGED vars
    BY <1>12 DEF vars, lock
  <1> QED
    BY <1>1, <1>2, <1>3, <1>4, <1>5, <1>7, <1>8, <1>9, <1>10, <1>11, <1>12 DEF Next
-----------------------------------------------------------------------------
(* What is marked and cached                                               *)

\* A thread gets in by the lock when nobody else is inside, or it is known to have
\* overtaken somebody.
LEMMA EvaluatesStep ==
  ASSUME TypeOK, OneEvaluates, [Next]_vars
  PROVE  OneEvaluates'
  <1> USE DEF OneEvaluates, Inside, Evaluating
  <1>1. CASE PollEvents \/ \E f \in File : Modify(f) \/ FindCached(f)
    BY <1>1 DEF PollEvents, Modify, FindCached, lock, history
  <1>2. CASE Mark
    <2>1. overtaken => noticed' = noticed
      BY <1>2 DEF Mark, Settled
    <2>2. UNCHANGED <<owner, pc, overtaken>>
      BY <1>2 DEF Mark, lock
    <2> QED
      BY <2>1, <2>2
  <1>3. ASSUME NEW t \in Thread, TryLock(t) PROVE OneEvaluates'
    <2>1. owner' = t /\ Free(t) /\ UNCHANGED <<noticed, overtaken>>
      BY <1>3 DEF TryLock, history
    <2>2. CASE Goto(t, "tryLock", "check")
      BY <2>1, <2>2, JsAssumption DEF Goto, TypeOK, Free
    <2>3. CASE Goto(t, "tryLockToInvoke", "script")
      BY <2>1, <2>3, JsAssumption DEF Goto, TypeOK, Free
    <2> QED
      BY <1>3, <2>2, <2>3 DEF TryLock, Enter
  <1>4. ASSUME NEW t \in Thread, TimeOut(t) PROVE OneEvaluates'
    <2>1. CASE Goto(t, "tryLock", "check")
      BY <1>4, <2>1 DEF TimeOut, Goto, TypeOK
    <2>2. CASE Goto(t, "tryLockToInvoke", "script")
      BY <1>4, <2>2 DEF TimeOut, Goto, TypeOK, lock
    <2> QED
      BY <1>4, <2>1, <2>2 DEF TimeOut, Enter
  <1>5. ASSUME NEW t \in Thread, ~ Inside(t), Release(t), NEW p \in {"script", "idle"},
               pc' = [pc EXCEPT ![t] = p], UNCHANGED <<noticed, overtaken>>
        PROVE  OneEvaluates'
    BY <1>5 DEF Release, TypeOK
  <1>6. ASSUME NEW t \in Thread, Interrupt(t) PROVE OneEvaluates'
    <2>1. ~ Inside(t)
      BY <1>6 DEF Interrupt, Waiting
    <2> QED
      BY <1>5, <1>6, <2>1 DEF Interrupt, Back, history
  <1>7. ASSUME NEW t \in Thread, InvokeEnds(t) PROVE OneEvaluates'
    BY <1>5, <1>7 DEF InvokeEnds, Goto, history
  <1>8. ASSUME NEW t \in Thread, ~ Inside(t), NEW p \in Waiting, pc' = [pc EXCEPT ![t] = p],
               UNCHANGED <<owner, noticed, overtaken>>
        PROVE  OneEvaluates'
    BY <1>8 DEF TypeOK, Waiting
  <1>9. ASSUME NEW t \in Thread, NEW k \in Key \cup {NoKey}, EvalFile(t, k) PROVE OneEvaluates'
    BY <1>8, <1>9 DEF EvalFile, lock, history, Waiting
  <1>10. ASSUME NEW t \in Thread, Invoke(t) PROVE OneEvaluates'
    BY <1>8, <1>10 DEF Invoke, Goto, lock, history, Waiting
  <1>11. ASSUME NEW t \in Thread, Inside(t), NEW p \in Evaluating, pc' = [pc EXCEPT ![t] = p],
               UNCHANGED <<owner, noticed, overtaken>>
        PROVE  OneEvaluates'
    BY <1>11 DEF TypeOK
  <1>12. ASSUME NEW t \in Thread, Check(t) PROVE OneEvaluates'
    BY <1>11, <1>12 DEF Check, Goto, lock
  <1>13. ASSUME NEW t \in Thread, ReadFileText(t) \/ Unmark(t) \/ Eval(t) PROVE OneEvaluates'
    BY <1>11, <1>13 DEF ReadFileText, Unmark, Eval, Goto, lock, history
  <1>14. ASSUME NEW t \in Thread, Fail(t) \/ Unlock(t) PROVE OneEvaluates'
    <2>1. /\ Inside(t) /\ Release(t)
          /\ pc' = [pc EXCEPT ![t] = IF t \in invoking THEN "script" ELSE "idle"]
          /\ overtaken' = (overtaken /\ \E u \in Thread \ {t} : Inside(u))
      BY <1>14 DEF Fail, Unlock, Leave, Back
    <2>2. \A f \in File : noticed[f] = 0 => noticed'[f] = 0
      BY <1>14 DEF Fail, Unlock, TypeOK
    <2>3. /\ ~ Inside(t)'
          /\ \A u \in Thread \ {t} : Inside(u)' <=> Inside(u)
      BY <2>1 DEF TypeOK
    <2>4. ASSUME NEW u \in Thread, Inside(u)', ~ overtaken' PROVE owner' = u
      <3>1. u # t /\ Inside(u)
        BY <2>3, <2>4
      <3>2. ~ overtaken
        BY <2>1, <2>4, <3>1
      <3> QED
        BY <2>1, <3>1, <3>2 DEF Release
    <2>5. overtaken' => \E u \in Thread : Inside(u)'
      BY <2>1, <2>3
    <2>6. overtaken' => \A f \in File : noticed'[f] = 0
      BY <2>1, <2>2
    <2> QED
      BY <2>4, <2>5, <2>6
  <1>15. CASE UNCHANGED vars
    BY <1>15 DEF vars, lock, history
  <1> QED
    BY <1>1, <1>2, <1>3, <1>4, <1>6, <1>7, <1>9, <1>10, <1>12, <1>13, <1>14, <1>15 DEF Next

\* An object comes into the cache from a text that was read since, by the only thread that
\* evaluates.
LEMMA NewerStep ==
  ASSUME TypeOK, CallsInOrder, OneEvaluates, NewerComes, [Next]_vars
  PROVE  NewerComes'
  <1> USE DEF NewerComes
  <1>1. ASSUME UNCHANGED <<pc, key, text, object, overtaken>>,
               version' = version \/ \E f \in File : Modify(f)
        PROVE  NewerComes'
    <2>1. \A k \in Key : object[k] \in Int /\ version[k] \in Int
      BY JsAssumption DEF TypeOK
    <2>2. ASSUME NEW f \in File, Modify(f)
          PROVE  \A k \in Key : version'[k] \in Int /\ version[k] <= version'[k]
      <3>1. version' = [version EXCEPT ![f] = @ + 1] /\ version \in [Key -> 1..MaxVersion]
        BY <2>2 DEF Modify, TypeOK
      <3>2. \A k \in Key : version'[k] = (IF k = f THEN version[k] + 1 ELSE version[k])
        BY <3>1
      <3> QED
        BY <2>1, <3>2
    <2>3. \A k \in Key : version'[k] \in Int /\ version[k] <= version'[k]
      BY <1>1, <2>1, <2>2
    <2>4. \A k \in Key : object[k] <= version'[k]
      BY <2>1, <2>3
    <2> QED
      BY <1>1, <2>4
  <1>2. CASE PollEvents \/ Mark \/ \E f \in File : Modify(f) \/ FindCached(f)
    <2>1. version' = version \/ \E f \in File : Modify(f)
      BY <1>2 DEF PollEvents, Mark, FindCached
    <2>2. UNCHANGED <<pc, key, text, object, overtaken>>
      BY <1>2, WatcherSteps
    <2> QED
      BY <1>1, <2>1, <2>2
  <1>3. ASSUME NEW t \in Thread, NEW p \in PCs \ {"remove", "eval"}, pc' = [pc EXCEPT ![t] = p],
               UNCHANGED <<version, object>>, overtaken' \/ overtaken' = overtaken,
               \A u \in Thread \ {t} : key'[u] = key[u] /\ text'[u] = text[u]
        PROVE  NewerComes'
    BY <1>3 DEF TypeOK
  <1>4. ASSUME NEW t \in Thread, TryLock(t) \/ TimeOut(t) PROVE NewerComes'
    <2>1. UNCHANGED <<version, object, key, text>>
      BY <1>4 DEF TryLock, TimeOut, watcher, caches
    <2>2. overtaken' \/ overtaken' = overtaken
      BY <1>4 DEF TryLock, TimeOut, history, TypeOK
    <2>3. pc' = [pc EXCEPT ![t] = "check"] \/ pc' = [pc EXCEPT ![t] = "script"]
      BY <1>4 DEF TryLock, TimeOut, Enter, Goto
    <2> QED
      BY <1>3, <2>1, <2>2, <2>3 DEF PCs, Evaluating
  <1>5. ASSUME NEW t \in Thread, Interrupt(t) PROVE NewerComes'
    BY <1>3, <1>5 DEF Interrupt, Back, PCs, watcher, caches, history
  <1>6. ASSUME NEW t \in Thread, NEW k \in Key \cup {NoKey}, EvalFile(t, k) PROVE NewerComes'
    BY <1>3, <1>6 DEF EvalFile, PCs, Waiting, watcher, caches, history
  <1>7. ASSUME NEW t \in Thread, Check(t) PROVE NewerComes'
    <2>1. UNCHANGED <<version, object, key, overtaken>>
      BY <1>7 DEF Check, watcher, caches
    <2>2. CASE key[t] = NoKey /\ Goto(t, "check", "unlock") /\ UNCHANGED <<text, missed>>
      BY <1>3, <2>1, <2>2 DEF Goto, PCs, Evaluating
    <2>3. CASE /\ Changed(key[t])
               /\ Goto(t, "check", IF key[t] \in File THEN "readChanged" ELSE "remove")
               /\ UNCHANGED <<text, missed>>
      <3>1. key[t] \in File
        BY <2>3, ElementOfSeq, LenProperties DEF Changed, Range, TypeOK
      <3> QED
        BY <1>3, <2>1, <2>3, <3>1 DEF Goto, PCs, Evaluating
    <2>4. CASE /\ key[t] # NoKey
               /\ Goto(t, "check", IF object[key[t]] # 0 THEN "unlock"
                                   ELSE IF key[t] \in File THEN "read" ELSE "eval")
               /\ text' = [text EXCEPT ![t] = IF object[key[t]] # 0 \/ key[t] \in File
                                              THEN object[key[t]] ELSE version[key[t]]]
      <3>1. key[t] \in Key
        BY <2>4 DEF TypeOK
      <3>2. pc'[t] = "eval" => text'[t] = version[key[t]]
        BY <2>4 DEF Goto, TypeOK
      <3>3. pc'[t] # "remove"
        BY <2>4 DEF Goto, TypeOK
      <3>4. \A u \in Thread \ {t} : pc'[u] = pc[u] /\ text'[u] = text[u]
        BY <2>4 DEF Goto, TypeOK
      <3> QED
        BY <2>1, <3>1, <3>2, <3>3, <3>4
    <2> QED
      BY <1>7, <2>2, <2>3, <2>4 DEF Check
  <1>8. ASSUME NEW t \in Thread, ReadFileText(t) PROVE NewerComes'
    <2>1. /\ UNCHANGED <<version, object, key, overtaken>> /\ text'[t] = version[key[t]]
          /\ \A u \in Thread \ {t} : pc'[u] = pc[u] /\ text'[u] = text[u]
      BY <1>8 DEF ReadFileText, Goto, TypeOK, watcher, caches, history
    <2>2. key[t] \in Key
      BY <1>8 DEF ReadFileText, Goto, CallsInOrder, Key
    <2> QED
      BY <2>1, <2>2
  <1>9. ASSUME NEW t \in Thread, Unmark(t) PROVE NewerComes'
    BY <1>9 DEF Unmark, Goto, TypeOK, watcher, history
  <1>10. ASSUME NEW t \in Thread, Eval(t) PROVE NewerComes'
    <2>1. /\ pc[t] = "eval" /\ pc' = [pc EXCEPT ![t] = "unlock"]
          /\ UNCHANGED <<version, key, text, overtaken>>
      BY <1>10 DEF Eval, Goto, watcher, history
    <2>2. /\ key[t] \in Key /\ text[t] \in Nat /\ text[t] <= version[key[t]]
      BY <2>1 DEF CallsInOrder, TypeOK
    <2>3. \A k \in Key : object'[k] = 0 \/ object'[k] = object[k] \/ (k = key[t] /\ object'[k] = text[t])
      BY <1>10 DEF Eval, PutObject
    <2>4. \A k \in Key : 0 <= version[k]
      BY JsAssumption DEF TypeOK
    <2>5. \A k \in Key : object'[k] <= version'[k]
      BY <2>1, <2>2, <2>3, <2>4
    <2>6. ASSUME NEW u \in Thread, ~ overtaken', pc'[u] \in {"remove", "eval"} PROVE FALSE
      <3>1. u # t /\ Inside(u) /\ Inside(t)
        BY <2>1, <2>6 DEF TypeOK, Inside, Evaluating
      <3> QED
        BY <2>1, <2>6, <3>1 DEF OneEvaluates
    <2> QED
      BY <2>5, <2>6
  <1>11. ASSUME NEW t \in Thread, Fail(t) \/ Unlock(t) PROVE NewerComes'
    <2>1. /\ pc' = [pc EXCEPT ![t] = IF t \in invoking THEN "script" ELSE "idle"]
          /\ UNCHANGED <<version, object>>
          /\ \A u \in Thread \ {t} : key'[u] = key[u] /\ text'[u] = text[u]
          /\ overtaken' = (overtaken /\ \E u \in Thread \ {t} : Inside(u))
      BY <1>11 DEF Fail, Unlock, Leave, Back, watcher, caches, TypeOK
    <2>2. ASSUME NEW u \in Thread, ~ overtaken', pc'[u] \in {"remove", "eval"}
          PROVE  object'[key'[u]] <= text'[u]
      <3>1. u # t /\ pc'[u] = pc[u] /\ Inside(u)
        BY <2>1, <2>2 DEF TypeOK, Inside, Evaluating
      <3>2. ~ overtaken
        BY <2>1, <2>2, <3>1
      <3> QED
        BY <2>1, <2>2, <3>1, <3>2
    <2> QED
      BY <2>1, <2>2
  <1>12. ASSUME NEW t \in Thread, Invoke(t) PROVE NewerComes'
    BY <1>3, <1>12 DEF Invoke, Goto, PCs, Waiting, watcher, caches, history
  <1>13. ASSUME NEW t \in Thread, InvokeEnds(t) PROVE NewerComes'
    BY <1>3, <1>13 DEF InvokeEnds, Goto, PCs, watcher, caches, history
  <1>14. CASE UNCHANGED vars
    BY <1>1, <1>14 DEF vars, watcher, caches, history
  <1> QED
    BY <1>2, <1>4, <1>5, <1>6, <1>7, <1>8, <1>9, <1>10, <1>11, <1>12, <1>13, <1>14 DEF Next

\* A modification that was noticed stays marked until it is read, and what was read
\* comes into the cache before anybody looks there.
LEMMA NoticedStep ==
  ASSUME TypeOK, CallsInOrder, OneEvaluates, Cardinality(File) <= CacheSize, NoticedIsRead,
         [Next]_vars
  PROVE  NoticedIsRead'
  <1> USE DEF NoticedIsRead
  <1>1. ASSUME UNCHANGED <<pc, key, text, object, fileChangeCache, noticed, missed>>,
               version' = version \/ \E f \in File : Modify(f)
        PROVE  NoticedIsRead'
    <2>1. \A f \in File : noticed[f] \in Int /\ version[f] \in Int
      BY JsAssumption DEF TypeOK, Key
    <2>2. ASSUME NEW f \in File, NEW g \in File, Modify(g) PROVE noticed[f] <= version'[f]
      <3>1. version' = [version EXCEPT ![g] = @ + 1] /\ version \in [Key -> 1..MaxVersion]
        BY <2>2 DEF Modify, TypeOK
      <3>2. version'[f] = (IF f = g THEN version[f] + 1 ELSE version[f])
        BY <3>1 DEF Key
      <3> QED
        BY <2>1, <3>2
    <2>3. \A f \in File : noticed'[f] <= version'[f]
      BY <1>1, <2>2
    <2> QED
      BY <1>1, <2>3 DEF Remembered
  <1>2. ASSUME NEW f \in File, Modify(f) \/ FindCached(f) PROVE NoticedIsRead'
    BY <1>1, <1>2 DEF Modify, FindCached, caches, history
  <1>3. CASE PollEvents
    BY <1>1, <1>3 DEF PollEvents, caches, history
  <1>4. CASE Mark
    <2>1. marking \in File
      BY <1>4 DEF Mark, TypeOK
    <2>2. UNCHANGED <<version, object, pc, key, text, missed>>
      BY <1>4 DEF Mark
    <2>3. Range(fileChangeCache) \subseteq Range(fileChangeCache')
      <3>1. Range(fileChangeCache) \subseteq Range(PutKey(fileChangeCache, marking))
        BY <2>1, PutKeyKeeps, JsAssumption DEF TypeOK
      <3> QED
        BY <1>4, <3>1 DEF Mark
    <2>4. CASE UNCHANGED noticed
      BY <2>2, <2>3, <2>4 DEF Remembered
    <2>5. CASE noticed' # noticed
      <3>1. /\ noticed' = [noticed EXCEPT ![marking] = version[marking]]
            /\ fileChangeCache' = PutKey(fileChangeCache, marking)
            /\ Settled(marking)
        BY <1>4, <2>5 DEF Mark
      <3>2. marking \in Range(fileChangeCache')
        BY <2>1, <3>1, PutKeyKeeps DEF TypeOK
      <3>3. \A f \in File : noticed'[f] = (IF f = marking THEN version[f] ELSE noticed[f])
        BY <3>1 DEF TypeOK
      <3>4. \A f \in File : version[f] <= version[f]
        BY JsAssumption DEF TypeOK, Key
      <3>5. \A f \in File : noticed'[f] <= version'[f] /\ Remembered(f)'
        BY <2>2, <2>3, <3>2, <3>3, <3>4 DEF Remembered
      <3>6. \A t \in Thread : pc[t] \in {"remove", "eval", "unlock"} => key[t] # marking
        BY <3>1 DEF Settled, Inside, Evaluating
      <3> QED
        BY <2>2, <3>3, <3>5, <3>6
    <2> QED
      BY <2>4, <2>5
  <1>5. ASSUME NEW t \in Thread, pc[t] # "eval", NEW p \in PCs \ {"remove", "eval", "unlock"},
               pc' = [pc EXCEPT ![t] = p],
               UNCHANGED <<version, object, fileChangeCache, noticed, missed>>,
               \A u \in Thread \ {t} : key'[u] = key[u] /\ text'[u] = text[u]
        PROVE  NoticedIsRead'
    <2>1. pc'[t] = p /\ \A u \in Thread \ {t} : pc'[u] = pc[u]
      BY <1>5 DEF TypeOK
    <2>2. \A f \in File : Remembered(f)'
      BY <1>5, <2>1 DEF Remembered
    <2> QED
      BY <1>5, <2>1, <2>2
  <1>6. ASSUME NEW t \in Thread, TryLock(t) PROVE NoticedIsRead'
    <2>1. UNCHANGED <<version, object, fileChangeCache, noticed, missed, key, text>>
      BY <1>6 DEF TryLock, watcher, caches, history
    <2>2. /\ pc[t] # "eval"
          /\ pc' = [pc EXCEPT ![t] = "check"] \/ pc' = [pc EXCEPT ![t] = "script"]
      BY <1>6 DEF TryLock, Enter, Goto
    <2> QED
      BY <1>5, <2>1, <2>2 DEF PCs, Evaluating
  <1>7. ASSUME NEW t \in Thread, TimeOut(t) PROVE NoticedIsRead'
    <2>1. UNCHANGED <<version, object, fileChangeCache, missed, key, text>>
      BY <1>7 DEF TimeOut, watcher, caches
    <2>2. CASE Goto(t, "tryLock", "check")
      <3>1. \A f \in File : noticed'[f] = 0
        BY <1>7, <2>2 DEF TimeOut, Goto
      <3>2. \A f \in File : 0 <= version[f] /\ 0 <= object[f]
        BY JsAssumption DEF TypeOK, Key
      <3>3. \A u \in Thread : 0 <= text[u]
        BY JsAssumption DEF TypeOK
      <3> QED
        BY <2>1, <3>1, <3>2, <3>3 DEF Remembered
    <2>3. CASE Goto(t, "tryLockToInvoke", "script")
      <3>1. UNCHANGED noticed
        BY <1>7, <2>3 DEF TimeOut, Goto
      <3> QED
        BY <1>5, <2>1, <2>3, <3>1 DEF Goto, PCs
    <2> QED
      BY <1>7, <2>2, <2>3 DEF TimeOut, Enter
  <1>8. ASSUME NEW t \in Thread, Interrupt(t) PROVE NoticedIsRead'
    BY <1>5, <1>8 DEF Interrupt, Back, Waiting, PCs, watcher, caches, history
  <1>9. ASSUME NEW t \in Thread, NEW k \in Key \cup {NoKey}, EvalFile(t, k) PROVE NoticedIsRead'
    <2>1. /\ pc[t] # "eval" /\ pc' = [pc EXCEPT ![t] = "tryLock"]
          /\ UNCHANGED <<version, object, fileChangeCache, noticed, missed>>
          /\ \A u \in Thread \ {t} : key'[u] = key[u] /\ text'[u] = text[u]
      BY <1>9 DEF EvalFile, TypeOK, watcher, caches, history
    <2> QED
      BY <1>5, <2>1 DEF PCs, Waiting
  <1>10. ASSUME NEW t \in Thread, Check(t) PROVE NoticedIsRead'
    <2>1. /\ UNCHANGED <<version, object, fileChangeCache, noticed, key>>
          /\ pc[t] = "check"
          /\ \A u \in Thread \ {t} : pc'[u] = pc[u] /\ text'[u] = text[u]
          /\ missed' \in {missed, missed \cup {t}}
      BY <1>10 DEF Check, Goto, TypeOK, watcher, caches
    <2>2. \A f \in File : noticed'[f] <= version'[f] /\ Remembered(f)'
      BY <2>1 DEF Remembered
    <2>3. ASSUME key[t] \in File,
                 pc'[t] \in {"remove", "eval"} \/ (pc'[t] = "unlock" /\ t \notin missed')
          PROVE  noticed[key[t]] <= text'[t]
      <3> DEFINE k == key[t]
      <3>1. k # NoKey /\ k \in Key
        BY <2>3, JsAssumption DEF Key
      <3>2. /\ object[k] # 0 /\ text'[t] = object[k] /\ ~ Changed(k)
        BY <1>10, <2>1, <2>3, <3>1 DEF Check, Goto, TypeOK
      <3>3. CASE noticed[k] <= object[k]
        BY <3>2, <3>3
      <3>4. CASE \E u \in Thread : pc[u] = "eval" /\ key[u] = k
        <4>1. PICK u \in Thread : Inside(u) /\ u # t
          BY <2>1, <3>4 DEF Inside, Evaluating
        <4>2. Inside(t)
          BY <2>1 DEF Inside, Evaluating
        <4>3. overtaken
          BY <4>1, <4>2 DEF OneEvaluates
        <4>4. noticed[k] = 0
          BY <2>3, <4>3 DEF OneEvaluates
        <4>5. 0 <= object[k]
          BY <3>1, JsAssumption DEF TypeOK
        <4> QED
          BY <3>2, <4>4, <4>5
      <3> QED
        BY <2>3, <3>2, <3>3, <3>4 DEF Remembered, Changed
    <2> QED
      BY <2>1, <2>2, <2>3
  <1>11. ASSUME NEW t \in Thread, ReadFileText(t) PROVE NoticedIsRead'
    <2>1. /\ UNCHANGED <<version, object, fileChangeCache, noticed, missed, key>>
          /\ pc[t] # "eval" /\ text'[t] = version[key[t]]
          /\ \A u \in Thread \ {t} : pc'[u] = pc[u] /\ text'[u] = text[u]
      BY <1>11 DEF ReadFileText, Goto, TypeOK, watcher, caches, history
    <2>2. \A f \in File : Remembered(f)'
      BY <2>1 DEF Remembered
    <2> QED
      BY <2>1, <2>2
  <1>12. ASSUME NEW t \in Thread, Unmark(t) PROVE NoticedIsRead'
    <2>1. /\ UNCHANGED <<version, object, noticed, missed, key, text>>
          /\ pc[t] = "remove" /\ pc'[t] = "eval"
          /\ \A u \in Thread \ {t} : pc'[u] = pc[u]
      BY <1>12 DEF Unmark, Goto, TypeOK, watcher, history
    <2>2. Range(fileChangeCache) \ {key[t]} \subseteq Range(fileChangeCache')
      BY <1>12, RemoveKeyKeeps DEF Unmark, TypeOK
    <2>3. \A f \in File : Remembered(f)'
      BY <2>1, <2>2 DEF Remembered
    <2> QED
      BY <2>1, <2>3
  <1>13. ASSUME NEW t \in Thread, Eval(t) PROVE NoticedIsRead'
    <2>1. /\ UNCHANGED <<version, fileChangeCache, noticed, missed, key, text>>
          /\ pc[t] = "eval" /\ pc'[t] = "unlock"
          /\ \A u \in Thread \ {t} : pc'[u] = pc[u]
      BY <1>13 DEF Eval, Goto, TypeOK, watcher, history
    <2>2. \A f \in File : IF f = key[t] THEN object'[f] = text[t]
                                       ELSE object'[f] = object[f] \/ object'[f] = 0
      BY <1>13 DEF Eval, PutObject, Key
    <2>3. key[t] \in File => noticed[key[t]] <= text[t]
      BY <2>1
    <2>4. \A f \in File : Remembered(f)'
      BY <2>1, <2>2, <2>3 DEF Remembered
    <2> QED
      BY <2>1, <2>4
  <1>14. ASSUME NEW t \in Thread, Fail(t) \/ Unlock(t) PROVE NoticedIsRead'
    <2>1. /\ UNCHANGED <<version, object, fileChangeCache>>
          /\ missed' = missed \ {t}
          /\ pc' = [pc EXCEPT ![t] = IF t \in invoking THEN "script" ELSE "idle"]
          /\ key' = [key EXCEPT ![t] = NoKey] /\ text' = [text EXCEPT ![t] = 0]
      BY <1>14 DEF Fail, Unlock, Leave, Back, watcher, caches
    <2>2. \A f \in File : /\ noticed'[f] \in {0, noticed[f]}
                          /\ pc[t] = "eval" /\ key[t] = f => noticed'[f] = 0
      BY <1>14 DEF Fail, Unlock, TypeOK
    <2>3. \A f \in File : 0 <= version[f] /\ 0 <= object[f]
      BY JsAssumption DEF TypeOK, Key
    <2>4. \A u \in Thread : 0 <= text[u]
      BY JsAssumption DEF TypeOK
    <2>5. /\ key'[t] \notin File
          /\ \A u \in Thread \ {t} : pc'[u] = pc[u] /\ key'[u] = key[u] /\ text'[u] = text[u]
      BY <2>1, JsAssumption DEF TypeOK, Key
    <2>6. ASSUME NEW f \in File PROVE Remembered(f)'
      <3>1. CASE noticed'[f] = 0
        BY <2>1, <2>3, <3>1 DEF Remembered
      <3>2. CASE noticed'[f] = noticed[f] /\ ~ (pc[t] = "eval" /\ key[t] = f)
        BY <2>1, <2>5, <3>2 DEF Remembered
      <3> QED
        BY <2>2, <3>1, <3>2
    <2>7. \A f \in File : noticed'[f] <= version'[f]
      BY <2>1, <2>2, <2>3
    <2>8. ASSUME NEW u \in Thread, key'[u] \in File,
                 pc'[u] \in {"remove", "eval"} \/ (pc'[u] = "unlock" /\ u \notin missed')
          PROVE  noticed'[key'[u]] <= text'[u]
      <3>1. u # t
        BY <2>5, <2>8
      <3>2. noticed[key[u]] <= text[u]
        BY <2>1, <2>5, <2>8, <3>1
      <3> QED
        BY <2>2, <2>4, <2>5, <2>8, <3>1, <3>2
    <2> QED
      BY <2>6, <2>7, <2>8
  <1>15. ASSUME NEW t \in Thread, Invoke(t) PROVE NoticedIsRead'
    BY <1>5, <1>15 DEF Invoke, Goto, PCs, Waiting, watcher, caches, history
  <1>16. ASSUME NEW t \in Thread, InvokeEnds(t) PROVE NoticedIsRead'
    BY <1>5, <1>16 DEF InvokeEnds, Goto, PCs, watcher, caches, history
  <1>17. CASE UNCHANGED vars
    BY <1>1, <1>17 DEF vars, watcher, caches, history
  <1> QED
    BY <1>2, <1>3, <1>4, <1>6, <1>7, <1>8, <1>9, <1>10, <1>11, <1>12, <1>13, <1>14, <1>15,
       <1>16, <1>17 DEF Next
-----------------------------------------------------------------------------
(* The theorems                                                            *)

\* Nothing is cached, marked or locked at first.
LEMMA InitInv == Init => IInv
  <1> SUFFICES ASSUME Init PROVE IInv
    OBVIOUS
  <1> USE DEF Init
  <1>1. TypeOK
    <2>1. /\ <<>> \in Seq(Key) /\ <<>> \in Seq(File) /\ Len(<<>>) = 0
          /\ DOMAIN <<>> = {}
      BY EmptySeq
    <2>2. IsInjective(<<>>) /\ Range(<<>>) = {}
      BY <2>1 DEF IsInjective, Range
    <2>3. /\ version \in [Key -> 1..MaxVersion]
          /\ object \in [Key -> 0..MaxVersion] /\ {k \in Key : object[k] # 0} = {}
          /\ text \in [Thread -> 0..MaxVersion]
          /\ noticed \in [File -> 0..MaxVersion]
      BY JsAssumption
    <2>4. 0 <= CacheSize /\ holds \in 0..2
      BY JsAssumption
    <2> QED
      BY <2>1, <2>2, <2>3, <2>4 DEF TypeOK, PCs
  <1>2. CallsInOrder
    BY DEF CallsInOrder
  <1>3. LockGivenBack
    BY JsAssumption DEF LockGivenBack
  <1>4. OneEvaluates
    BY DEF OneEvaluates, Inside, Evaluating
  <1>5. NewerComes
    BY DEF NewerComes
  <1>6. NoticedIsRead
    BY DEF NoticedIsRead, Remembered, Key
  <1> QED
    BY <1>1, <1>2, <1>3, <1>4, <1>5, <1>6 DEF IInv

\* The invariant that the theorems follow from is inductive.
LEMMA Invariant == Spec => []IInv
  <1>1. IInv /\ [Next]_vars => IInv'
    <2> SUFFICES ASSUME IInv, [Next]_vars PROVE IInv'
      OBVIOUS
    <2>1. TypeOK' /\ CallsInOrder' /\ LockGivenBack' /\ OneEvaluates' /\ NewerComes'
      BY TypeStep, CallStep, LockStep, EvaluatesStep, NewerStep DEF IInv
    <2>2. (Cardinality(File) <= CacheSize => NoticedIsRead)'
      BY NoticedStep DEF IInv
    <2> QED
      BY <2>1, <2>2 DEF IInv
  <1> QED
    BY <1>1, InitInv, PTL DEF Spec

\* The caches hold no key twice and no more keys than they have room for, and the objects
\* are those of the keys; a thread holds the lock at most twice.
THEOREM TypeCorrect == Spec => []TypeOK
  <1>1. IInv => TypeOK
    BY DEF IInv
  <1> QED
    BY <1>1, Invariant, PTL

\* However waits for the lock end, a thread that is back from its calls does not keep it.
THEOREM LockGivenBackHolds == Spec => []LockGivenBack
  <1>1. IInv => LockGivenBack
    BY DEF IInv
  <1> QED
    BY <1>1, Invariant, PTL

\* With room for as many marks as files: an evalFile that did see the marks returns
\* nothing older than a modification that was marked while no evalFile of this file was
\* under way, unless since then a script of the file failed or a wait for the lock timed
\* out.  Those exceptions are the ones that JsInvoker's comment does not make.
THEOREM MarkedIsRereadHolds == Spec => []MarkedIsReread
  <1>1. IInv => MarkedIsReread
    <2> SUFFICES ASSUME IInv PROVE MarkedIsReread
      OBVIOUS
    <2>1. ASSUME Cardinality(File) <= CacheSize, NEW t \in Thread,
                 pc[t] = "unlock", key[t] \in File, t \notin missed
          PROVE  text[t] >= noticed[key[t]]
      <3>1. noticed[key[t]] <= text[t]
        BY <2>1 DEF IInv, NoticedIsRead
      <3> QED
        BY <2>1, <3>1, JsAssumption DEF IInv, TypeOK
    <2> QED
      BY <2>1 DEF IInv, MarkedIsReread
  <1> QED
    BY <1>1, Invariant, PTL

\* While no wait for the lock has timed out in front of an evaluation that still goes on,
\* only the thread that holds the lock replaces an object, by one of a text that it has
\* read since.  After such a time-out an older object does come back.
THEOREM NeverOlderHolds == Spec => NeverOlder
  <1> DEFINE Newer == \A k \in Key : object[k] # 0 /\ object'[k] # 0 /\ ~ overtaken
                                       => object'[k] >= object[k]
  <1>1. IInv /\ [Next]_vars => [Newer]_vars
    <2> SUFFICES ASSUME IInv, [Next]_vars PROVE Newer \/ UNCHANGED vars
      OBVIOUS
    <2>1. ASSUME object' = object PROVE Newer
      BY <2>1, JsAssumption DEF IInv, TypeOK
    <2>2. ASSUME NEW t \in Thread, Eval(t) PROVE Newer
      <3> SUFFICES ASSUME NEW k \in Key, object[k] # 0, object'[k] # 0, ~ overtaken
                   PROVE  object'[k] >= object[k]
        OBVIOUS
      <3>1. object[k] \in Nat /\ text[t] \in Nat
        BY JsAssumption DEF IInv, TypeOK
      <3>2. CASE k = key[t]
        <4>1. object'[k] = text[t] /\ pc[t] = "eval"
          BY <2>2, <3>2 DEF Eval, PutObject, Goto
        <4>2. object[k] <= text[t]
          BY <3>2, <4>1 DEF IInv, NewerComes
        <4> QED
          BY <3>1, <4>1, <4>2
      <3>3. CASE k # key[t]
        BY <2>2, <3>1, <3>3 DEF Eval, PutObject
      <3> QED
        BY <3>2, <3>3
    <2>3. ASSUME NEW t \in Thread, ~ Eval(t),
                 \/ TryLock(t) \/ TimeOut(t) \/ Interrupt(t)
                 \/ \E k \in Key \cup {NoKey} : EvalFile(t, k)
                 \/ Check(t) \/ ReadFileText(t) \/ Unmark(t) \/ Eval(t) \/ Fail(t) \/ Unlock(t)
                 \/ Invoke(t) \/ InvokeEnds(t)
          PROVE  object' = object
      BY <2>3 DEF TryLock, TimeOut, Interrupt, EvalFile, Check, ReadFileText, Unmark, Fail, Unlock,
                  Leave, Invoke, InvokeEnds, caches
    <2>4. CASE PollEvents \/ Mark \/ \E f \in File : Modify(f) \/ FindCached(f)
      BY <2>1, <2>4, WatcherSteps DEF IInv
    <2> QED
      BY <2>1, <2>2, <2>3, <2>4 DEF Next
  <1>2. [][Newer]_vars => NeverOlder
    BY DEF NeverOlder
  <1> QED
    BY <1>1, <1>2, Invariant, PTL DEF Spec
=============================================================================
