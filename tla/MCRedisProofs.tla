---------------------------- MODULE MCRedisProofs ----------------------------
(***************************************************************************)
(* Theorems about the components that keep their state in Redis, and the   *)
(* local rate limiter, for any values of the constants: the invariants     *)
(* that MCRedis checks, and that the scripts of LuaRateLimiter implement   *)
(* TokenBucket.                                                            *)
(***************************************************************************)
EXTENDS MCRedis, SequenceTheorems, FiniteSetTheorems, WellFoundedInduction, TLAPS

-----------------------------------------------------------------------------
(* RedisQueue                                                              *)

\* What a producer has passed to add and not pushed yet are its newest elements.
SourceIsNewest ==
  \A p \in Producer :
    /\ Len(source[p]) <= MaxBatch /\ Len(source[p]) <= offered[p]
    /\ \A i \in 1..Len(source[p]) :
         source[p][i] = [by |-> p, nr |-> (offered[p] - Len(source[p])) + i]
    /\ allowed[p] # NotYet => allowed[p] <= Len(source[p])

StoredIsOlder == \A e \in stored : e.nr <= offered[e.by] - Len(source[e.by])

\* The list has the elements of one producer newest first, and all of them are newer
\* than what take() has returned.
ListInOrder ==
  /\ \A i, j \in 1..Len(queue) :
       i < j /\ queue[i].by = queue[j].by => queue[i].nr > queue[j].nr
  /\ \A i \in 1..Len(singles), j \in 1..Len(queue) :
       singles[i].by = queue[j].by => singles[i].nr < queue[j].nr

\* An element is in one place.
EachInOnePlace ==
  /\ stored = Range(queue) \cup Range(singles) \cup batches
  /\ Range(queue) \cap batches = {}
  /\ Range(singles) \cap batches = {}

\* The producers that have read the length and not pushed yet.
Pushing == {p \in Producer : allowed[p] # NotYet}

\* The last one of them to have read the length pushes no more than there is room for,
\* unless others push in between, a batch at most each.
Limit == Capacity + (Cardinality(Producer) - 1) * MaxBatch
RoomIsLeft ==
  Capacity > 0 =>
    \/ Len(queue) + Cardinality(Pushing) * MaxBatch <= Limit
    \/ \E p \in Pushing :
         Len(queue) + allowed[p] + Cardinality(Pushing \ {p}) * MaxBatch <= Limit

QueueInv ==
  /\ TypeOK /\ SourceIsNewest /\ StoredIsOlder /\ ListInOrder /\ SinglesInOrder
  /\ EachInOnePlace /\ RoomIsLeft

-----------------------------------------------------------------------------
(* SmsCode                                                                 *)

\* The count of failures is one ahead of the answers, and stays so until both begin anew.
FailuresCounted ==
  /\ failed < maxFailTimes
  /\ timesTtl > 0 => failed < times

\* A code that is there has not been accepted.
CodeIsNew == good <= 1 /\ (code # NoCode => good = 0)

\* Sessions that have found no message within the interval and are not through.
Sending == {s \in Session : pc[s] \in {"setTimes", "setCode", "setInterval"}}
SavesOverlap ==
  /\ intervalTtl = 0 => pending = 0
  /\ pending + Cardinality(Sending) <= Cardinality(Session)

SmsInv == Sms!TypeOK /\ FailuresCounted /\ Sms!OneBeyondEach /\ CodeIsNew /\ SavesOverlap

-----------------------------------------------------------------------------
(* LocalRateLimiter                                                        *)

At(points) == {t \in Thread : threadAt[t] \in points}

\* Until the first limiter is stored, every limiter is one that a thread is about to
\* store; threads that are about to make one have none.
EachMakesOne ==
  /\ \A t \in Thread : threadAt[t] \notin {"idle", "creating"} => limiterOf[t] \in Limiter
  /\ IsFiniteSet(limiters)
  /\ Cardinality(limiters) + Cardinality(At({"creating"})) <= Cardinality(Thread)
  /\ limiterMap = NoLimiter => Cardinality(limiters) <= Cardinality(At({"putting"}))

LocalInv == Local!TypeOK /\ EachMakesOne

\* A limiter that was not made has no size, and the ones that are known were made.
LimitersMade ==
  /\ \A l \in Limiter \ limiters : capacityOf[l] = 0
  /\ limiterMap \in limiters \cup {NoLimiter}
  /\ \A t \in Thread : threadAt[t] \notin {"idle", "creating"} => limiterOf[t] \in limiters

-----------------------------------------------------------------------------
(* LuaRateLimiter                                                          *)

\* What is missing in the bucket falls in between the time that was written and now;
\* ratelimit2.lua takes nothing that is not there.
DebtIsCovered ==
  /\ tokens # Nil /\ age # Nil => tokens + age * rate >= 0
  /\ tokens # Nil /\ script = "ratelimit2.lua" => tokens \in 0..(capacity - 1)

\* One key without the other is left by a clear: by one that still runs, or by one that
\* a script slipped into.
KeysTogether ==
  /\ clearing => clears > 0
  /\ age # Nil /\ tokens = Nil => clearing
  /\ tokens # Nil /\ age = Nil => clears > 0

LuaInv == Lua!TypeOK /\ DebtIsCovered /\ KeysTogether

Inv == QueueInv /\ SmsInv /\ LocalInv /\ LuaInv

-----------------------------------------------------------------------------
(* Steps of SmsCode                                                        *)

\* SmsCode and LocalRateLimiter have FiniteSets of their own.
LEMMA SameCardinality ==
  /\ \A S : Sms!Cardinality(S) = Cardinality(S)
  /\ \A S : Local!Cardinality(S) = Cardinality(S)
  /\ \A S : Sms!IsFiniteSet(S) <=> IsFiniteSet(S)
  /\ \A S : Local!IsFiniteSet(S) <=> IsFiniteSet(S)
  BY DEF Sms!Cardinality, Local!Cardinality, Cardinality, Sms!IsFiniteSet, Local!IsFiniteSet,
         IsFiniteSet

LEMMA SmsConstants ==
  /\ IsFiniteSet(Session) /\ Cardinality(Session) \in Nat
  /\ NoCode \notin Code
  /\ codeExpireSeconds \in Nat \ {0} /\ codeIntervalSeconds \in Nat \ {0}
  /\ lockSeconds \in Nat \ {0} /\ maxFailTimes \in Nat \ {0}
  <1>1. IsFiniteSet(Session)
    BY RedisAssumption, SameCardinality DEF Sms!SmsAssumption
  <1> QED
    BY <1>1, RedisAssumption, FS_CardinalityType DEF Sms!SmsAssumption

\* A session goes from one point of its call to another.
LEMMA SmsGoes ==
  ASSUME Sms!TypeOK, NEW s \in Session, NEW from, NEW to \in Sms!PCs, Sms!Goto(s, from, to)
  PROVE  /\ pc' \in [Session -> Sms!PCs] /\ pc[s] = from /\ pc'[s] = to
         /\ \A u \in Session \ {s} : pc'[u] = pc[u]
  BY DEF Sms!TypeOK, Sms!Goto

LEMMA SmsEnds ==
  ASSUME Sms!TypeOK, NEW s \in Session, NEW from, Sms!End(s, from)
  PROVE  /\ Sms!Goto(s, from, "idle") /\ "idle" \in Sms!PCs
         /\ input' \in [Session -> Code \cup {NoCode}]
  BY DEF Sms!TypeOK, Sms!End, Sms!PCs

LEMMA DownIs ==
  ASSUME NEW m \in Nat, NEW n \in 0..m
  PROVE  /\ Sms!Down(n) \in 0..m /\ (Sms!Down(n) = 0 <=> n <= 1)
         /\ Sms!Down(n) > 0 => n > 0
  BY DEF Sms!Down

LEMMA SmsTypeStep ==
  ASSUME Sms!TypeOK, [Sms!Next]_smsVars
  PROVE  Sms!TypeOK'
  <1> USE SmsConstants DEF Sms!TypeOK, Sms!keys
  <1>1. CASE UNCHANGED smsVars
    BY <1>1 DEF smsVars
  <1>2. ASSUME NEW s \in Session, NEW c \in Code, Sms!SaveCode(s, c) \/ Sms!VerifyCode(s, c)
        PROVE  Sms!TypeOK'
    <2>1. pc' \in [Session -> Sms!PCs]
      BY <1>2, SmsGoes DEF Sms!SaveCode, Sms!VerifyCode, Sms!PCs
    <2> QED
      BY <1>2, <2>1 DEF Sms!SaveCode, Sms!VerifyCode
  <1>3. ASSUME NEW s \in Session, Sms!CheckInterval(s) PROVE Sms!TypeOK'
    <2>1. pc' \in [Session -> Sms!PCs] /\ input' \in [Session -> Code \cup {NoCode}]
      BY <1>3, SmsGoes, SmsEnds DEF Sms!CheckInterval, Sms!PCs
    <2> QED
      BY <1>3, <2>1 DEF Sms!CheckInterval
  <1>4. ASSUME NEW s \in Session, Sms!SetTimes(s) PROVE Sms!TypeOK'
    <2>1. pc' \in [Session -> Sms!PCs]
      BY <1>4, SmsGoes DEF Sms!SetTimes, Sms!PCs
    <2>2. times' \in 0..Sms!TimesBound /\ timesTtl' \in 0..codeExpireSeconds
      BY <1>4 DEF Sms!SetTimes, Sms!TimesBound
    <2> QED
      BY <1>4, <2>1, <2>2 DEF Sms!SetTimes
  <1>5. ASSUME NEW s \in Session, Sms!SetCode(s) PROVE Sms!TypeOK'
    <2>1. pc' \in [Session -> Sms!PCs]
      BY <1>5, SmsGoes DEF Sms!SetCode, Sms!PCs
    <2> QED
      BY <1>5, <2>1 DEF Sms!SetCode
  <1>6. ASSUME NEW s \in Session, Sms!SetInterval(s) PROVE Sms!TypeOK'
    <2>1. pc' \in [Session -> Sms!PCs] /\ input' \in [Session -> Code \cup {NoCode}]
      BY <1>6, SmsGoes, SmsEnds DEF Sms!SetInterval
    <2> QED
      BY <1>6, <2>1 DEF Sms!SetInterval
  <1>7. ASSUME NEW s \in Session, Sms!ScriptExpired(s) \/ Sms!ScriptMatches(s) PROVE Sms!TypeOK'
    <2>1. pc' \in [Session -> Sms!PCs] /\ input' \in [Session -> Code \cup {NoCode}]
      BY <1>7, SmsGoes, SmsEnds DEF Sms!ScriptExpired, Sms!ScriptMatches
    <2>2. 0 \in 0..Sms!TimesBound
      BY DEF Sms!TimesBound
    <2> QED
      BY <1>7, <2>1, <2>2 DEF Sms!ScriptExpired, Sms!ScriptMatches, Sms!DeleteCode
  <1>8. ASSUME NEW s \in Session, Sms!ScriptFails(s) PROVE Sms!TypeOK'
    <2>1. pc' \in [Session -> Sms!PCs] /\ input' \in [Session -> Code \cup {NoCode}]
      BY <1>8, SmsGoes, SmsEnds DEF Sms!ScriptFails, Sms!PCs
    <2>2. times' \in 0..Sms!TimesBound
      BY <1>8 DEF Sms!ScriptFails, Sms!TimesBound
    <2>3. failed' \in Nat
      BY <1>8 DEF Sms!ScriptFails
    <2> QED
      BY <1>8, <2>1, <2>2, <2>3 DEF Sms!ScriptFails
  <1>9. ASSUME NEW s \in Session, Sms!SetLock(s) PROVE Sms!TypeOK'
    <2>1. pc' \in [Session -> Sms!PCs] /\ input' \in [Session -> Code \cup {NoCode}]
      BY <1>9, SmsGoes, SmsEnds DEF Sms!SetLock
    <2> QED
      BY <1>9, <2>1 DEF Sms!SetLock, Sms!LockFor
  <1>10. ASSUME NEW s \in Session, Sms!Crash(s) PROVE Sms!TypeOK'
    <2>1. pc' \in [Session -> Sms!PCs] /\ input' \in [Session -> Code \cup {NoCode}]
      BY <1>10, SmsGoes, SmsEnds DEF Sms!Crash
    <2> QED
      BY <1>10, <2>1 DEF Sms!Crash
  <1>11. ASSUME Sms!Tick PROVE Sms!TypeOK'
    <2>1. /\ codeTtl' \in 0..codeExpireSeconds /\ timesTtl' \in 0..codeExpireSeconds
          /\ intervalTtl' \in 0..codeIntervalSeconds /\ lockTtl' \in 0..lockSeconds
      BY <1>11, DownIs DEF Sms!Tick
    <2>2. /\ times' \in 0..Sms!TimesBound /\ pending' \in Nat /\ code' \in Code \cup {NoCode}
      BY <1>11 DEF Sms!Tick, Sms!TimesBound
    <2> QED
      BY <1>11, <2>1, <2>2 DEF Sms!Tick
  <1> QED
    BY <1>1, <1>2, <1>3, <1>4, <1>5, <1>6, <1>7, <1>8, <1>9, <1>10, <1>11
    DEF Sms!Next, Sms!Save, Sms!Verify

LEMMA FailuresStep ==
  ASSUME Sms!TypeOK, FailuresCounted, [Sms!Next]_smsVars
  PROVE  FailuresCounted'
  <1> USE SmsConstants DEF Sms!TypeOK, FailuresCounted, Sms!keys
  <1>1. CASE UNCHANGED <<failed, times, timesTtl>>
    BY <1>1
  <1>2. ASSUME NEW s \in Session, Sms!SetTimes(s) PROVE FailuresCounted'
    BY <1>2 DEF Sms!SetTimes
  <1>3. ASSUME NEW s \in Session, Sms!ScriptMatches(s) PROVE FailuresCounted'
    BY <1>3 DEF Sms!ScriptMatches, Sms!DeleteCode
  <1>4. ASSUME NEW s \in Session, Sms!ScriptFails(s) PROVE FailuresCounted'
    <2>1. CASE Sms!TooMany(times + 1)
      BY <1>4, <2>1 DEF Sms!ScriptFails
    <2>2. CASE ~ Sms!TooMany(times + 1)
      BY <1>4, <2>2 DEF Sms!ScriptFails, Sms!TooMany, Sms!TimesBound
    <2> QED
      BY <2>1, <2>2
  <1>5. ASSUME Sms!Tick PROVE FailuresCounted'
    <2>1. failed' = failed /\ (timesTtl' > 0 => times' = times /\ timesTtl > 0)
      BY <1>5 DEF Sms!Tick, Sms!Down
    <2> QED
      BY <2>1
  <1>6. \/ UNCHANGED <<failed, times, timesTtl>>
        \/ \E s \in Session : Sms!SetTimes(s) \/ Sms!ScriptMatches(s) \/ Sms!ScriptFails(s)
        \/ Sms!Tick
    BY DEF Sms!Next, Sms!Save, Sms!Verify, smsVars, Sms!SaveCode, Sms!CheckInterval, Sms!SetCode,
           Sms!SetInterval, Sms!VerifyCode, Sms!ScriptExpired, Sms!SetLock, Sms!Crash
  <1> QED
    BY <1>1, <1>2, <1>3, <1>4, <1>5, <1>6

\* Who is beyond the limit sets the lock next, and is kept out while it lasts.
LEMMA BeyondStep ==
  ASSUME Sms!TypeOK, Sms!OneBeyondEach, [Sms!Next]_smsVars
  PROVE  Sms!OneBeyondEach'
  <1> USE SmsConstants DEF Sms!TypeOK, Sms!OneBeyondEach, Sms!keys
  <1>1. CASE UNCHANGED <<beyond, lockTtl, pc>>
    BY <1>1
  <1>2. ASSUME NEW s \in Session, NEW from, NEW to \in Sms!PCs, Sms!Goto(s, from, to), s \notin beyond,
               UNCHANGED <<beyond, lockTtl>>
        PROVE  Sms!OneBeyondEach'
    BY <1>2, SmsGoes
  <1>3. ASSUME NEW s \in Session, NEW c \in Code, Sms!SaveCode(s, c) \/ Sms!VerifyCode(s, c)
        PROVE  Sms!OneBeyondEach'
    <2>1. lockTtl = 0 /\ pc[s] = "idle"
      BY <1>3, SmsGoes DEF Sms!SaveCode, Sms!VerifyCode, Sms!Unlocked, Sms!Goto
    <2>2. s \notin beyond
      BY <2>1
    <2> QED
      BY <1>2, <1>3, <2>2 DEF Sms!SaveCode, Sms!VerifyCode, Sms!PCs
  <1>4. ASSUME NEW s \in Session, \/ Sms!CheckInterval(s) \/ Sms!SetTimes(s) \/ Sms!SetCode(s)
                                 \/ Sms!SetInterval(s) \/ Sms!ScriptExpired(s) \/ Sms!ScriptMatches(s)
        PROVE  Sms!OneBeyondEach'
    <2>1. UNCHANGED <<beyond, lockTtl>>
      BY <1>4 DEF Sms!CheckInterval, Sms!SetTimes, Sms!SetCode, Sms!SetInterval,
                  Sms!ScriptExpired, Sms!ScriptMatches
    <2>2. PICK from \in Sms!PCs \ {"setLock", "idle"}, to \in Sms!PCs : Sms!Goto(s, from, to)
      BY <1>4, SmsEnds DEF Sms!CheckInterval, Sms!SetTimes, Sms!SetCode, Sms!SetInterval,
                  Sms!ScriptExpired, Sms!ScriptMatches, Sms!PCs
    <2>3. s \notin beyond
      BY <2>2 DEF Sms!Goto
    <2> QED
      BY <1>2, <2>1, <2>2, <2>3
  <1>5. ASSUME NEW s \in Session, Sms!ScriptFails(s) PROVE Sms!OneBeyondEach'
    <2>1. pc[s] = "runScript" /\ s \notin beyond /\ lockTtl' = lockTtl
      BY <1>5, SmsEnds DEF Sms!ScriptFails, Sms!Goto
    <2>2. CASE Sms!TooMany(times + 1)
      <3>1. Sms!Goto(s, "runScript", "setLock") /\ beyond' = beyond \cup {s} /\ "setLock" \in Sms!PCs
        BY <1>5, <2>2 DEF Sms!ScriptFails, Sms!PCs
      <3>2. pc'[s] = "setLock" /\ \A t \in Session \ {s} : pc'[t] = pc[t]
        BY <3>1, SmsGoes
      <3> QED
        BY <2>1, <3>1, <3>2
    <2>3. CASE ~ Sms!TooMany(times + 1)
      <3>1. Sms!Goto(s, "runScript", "idle") /\ beyond' = beyond /\ "idle" \in Sms!PCs
        BY <1>5, <2>3, SmsEnds DEF Sms!ScriptFails
      <3> QED
        BY <1>2, <2>1, <3>1
    <2> QED
      BY <2>2, <2>3
  <1>6. ASSUME NEW s \in Session, Sms!SetLock(s) PROVE Sms!OneBeyondEach'
    <2>1. lockTtl' = lockSeconds /\ lockTtl' > 0 /\ beyond' = beyond
      BY <1>6 DEF Sms!SetLock, Sms!LockFor
    <2>2. pc'[s] = "idle" /\ \A t \in Session \ {s} : pc'[t] = pc[t]
      BY <1>6, SmsEnds, SmsGoes DEF Sms!SetLock
    <2> QED
      BY <2>1, <2>2
  <1>7. ASSUME NEW s \in Session, Sms!Crash(s) PROVE Sms!OneBeyondEach'
    <2>1. beyond' = beyond \ {s} /\ lockTtl' = lockTtl
      BY <1>7 DEF Sms!Crash
    <2>2. \A t \in Session \ {s} : pc'[t] = pc[t]
      BY <1>7, SmsEnds, SmsGoes DEF Sms!Crash
    <2> QED
      BY <2>1, <2>2
  <1>8. ASSUME Sms!Tick PROVE Sms!OneBeyondEach'
    <2>1. CASE lockTtl = 1
      BY <1>8, <2>1 DEF Sms!Tick
    <2>2. CASE lockTtl # 1
      <3>1. beyond' = beyond /\ pc' = pc /\ (lockTtl > 0 => lockTtl' > 0)
        BY <1>8, <2>2 DEF Sms!Tick, Sms!Down
      <3> QED
        BY <3>1
    <2> QED
      BY <2>1, <2>2
  <1>9. CASE UNCHANGED smsVars
    BY <1>1, <1>9 DEF smsVars
  <1> QED
    BY <1>3, <1>4, <1>5, <1>6, <1>7, <1>8, <1>9 DEF Sms!Next, Sms!Save, Sms!Verify

LEMMA CodeStep ==
  ASSUME Sms!TypeOK, CodeIsNew, [Sms!Next]_smsVars
  PROVE  CodeIsNew'
  <1> USE SmsConstants DEF Sms!TypeOK, CodeIsNew, Sms!keys
  <1>1. CASE UNCHANGED <<code, good>>
    BY <1>1
  <1>2. ASSUME NEW s \in Session, Sms!SetCode(s) \/ Sms!ScriptMatches(s) PROVE CodeIsNew'
    BY <1>2 DEF Sms!SetCode, Sms!ScriptMatches, Sms!DeleteCode
  <1>3. ASSUME Sms!Tick PROVE CodeIsNew'
    BY <1>3 DEF Sms!Tick
  <1>4. \/ UNCHANGED <<code, good>>
        \/ \E s \in Session : Sms!SetCode(s) \/ Sms!ScriptMatches(s)
        \/ Sms!Tick
    BY DEF Sms!Next, Sms!Save, Sms!Verify, smsVars, Sms!SaveCode, Sms!CheckInterval, Sms!SetTimes,
           Sms!SetInterval, Sms!VerifyCode, Sms!ScriptExpired, Sms!ScriptFails, Sms!SetLock, Sms!Crash
  <1> QED
    BY <1>1, <1>2, <1>3, <1>4

\* A session that goes to another point of its call enters Sending, leaves it or neither.
LEMMA SendingChanges ==
  ASSUME Sms!TypeOK, NEW s \in Session, NEW from, NEW to \in Sms!PCs, Sms!Goto(s, from, to)
  PROVE  LET sends == {"setTimes", "setCode", "setInterval"}
         IN  /\ Cardinality(Sending) \in Nat
             /\ Cardinality(Sending') \in Nat /\ Cardinality(Sending') <= Cardinality(Session)
             /\ from \in sends /\ to \notin sends => Cardinality(Sending') = Cardinality(Sending) - 1
             /\ (from \in sends <=> to \in sends) => Cardinality(Sending') = Cardinality(Sending)
  <1> DEFINE sends == {"setTimes", "setCode", "setInterval"}
  <1>1. /\ pc[s] = from /\ pc'[s] = to /\ \A u \in Session \ {s} : pc'[u] = pc[u]
    BY SmsGoes
  <1>2. Sending \in SUBSET Session /\ Sending' \in SUBSET Session
    BY DEF Sending
  <1>3. /\ IsFiniteSet(Sending) /\ Cardinality(Sending) \in Nat
        /\ IsFiniteSet(Sending') /\ Cardinality(Sending') \in Nat
        /\ Cardinality(Sending') <= Cardinality(Session)
    BY <1>2, SmsConstants, FS_Subset, FS_CardinalityType
  <1>4. ASSUME from \in sends, to \notin sends PROVE Cardinality(Sending') = Cardinality(Sending) - 1
    <2>1. s \in Sending /\ Sending' = Sending \ {s}
      BY <1>1, <1>4 DEF Sending
    <2> QED
      BY <1>3, <2>1, FS_RemoveElement
  <1>5. ASSUME from \in sends <=> to \in sends PROVE Cardinality(Sending') = Cardinality(Sending)
    <2>1. Sending' = Sending
      BY <1>1, <1>5 DEF Sending
    <2> QED
      BY <2>1
  <1> QED
    BY <1>3, <1>4, <1>5

LEMMA SavesStep ==
  ASSUME Sms!TypeOK, SavesOverlap, [Sms!Next]_smsVars
  PROVE  SavesOverlap'
  <1> USE SmsConstants DEF Sms!TypeOK, SavesOverlap, Sms!keys
  <1>1. ASSUME UNCHANGED <<intervalTtl, pending>>, NEW s \in Session, NEW from, NEW to \in Sms!PCs,
               Sms!Goto(s, from, to),
               \/ to \notin {"setTimes", "setCode", "setInterval"}
               \/ from \in {"setTimes", "setCode", "setInterval"}
               \/ intervalTtl = 0
        PROVE  SavesOverlap'
    <2>1. CASE intervalTtl = 0
      BY <1>1, <2>1, SendingChanges
    <2>2. CASE from \in {"setTimes", "setCode", "setInterval"} \/ to \notin {"setTimes", "setCode", "setInterval"}
      BY <1>1, <2>2, SendingChanges
    <2> QED
      BY <1>1, <2>1, <2>2
  <1>2. ASSUME NEW s \in Session, NEW c \in Code, Sms!SaveCode(s, c) \/ Sms!VerifyCode(s, c)
        PROVE  SavesOverlap'
    BY <1>1, <1>2 DEF Sms!SaveCode, Sms!VerifyCode, Sms!PCs
  <1>3. ASSUME NEW s \in Session, Sms!CheckInterval(s) PROVE SavesOverlap'
    <2>1. CASE Sms!TooFrequent
      BY <1>1, <1>3, <2>1, SmsEnds DEF Sms!CheckInterval
    <2>2. CASE ~ Sms!TooFrequent
      <3>1. intervalTtl = 0
        BY <2>2 DEF Sms!TooFrequent
      <3> QED
        BY <1>1, <1>3, <2>2, <3>1 DEF Sms!CheckInterval, Sms!PCs
    <2> QED
      BY <2>1, <2>2
  <1>4. ASSUME NEW s \in Session, Sms!SetTimes(s) \/ Sms!SetCode(s) PROVE SavesOverlap'
    BY <1>1, <1>4 DEF Sms!SetTimes, Sms!SetCode, Sms!PCs
  <1>5. ASSUME NEW s \in Session, Sms!SetInterval(s) PROVE SavesOverlap'
    <2>1. Sms!Goto(s, "setInterval", "idle") /\ "idle" \in Sms!PCs
      BY <1>5, SmsEnds DEF Sms!SetInterval
    <2>2. Cardinality(Sending') = Cardinality(Sending) - 1 /\ Cardinality(Sending) \in Nat
      BY <2>1, SendingChanges
    <2>3. pending' = pending + 1 /\ intervalTtl' # 0
      BY <1>5 DEF Sms!SetInterval
    <2> QED
      BY <2>2, <2>3
  <1>6. ASSUME NEW s \in Session,
               Sms!ScriptExpired(s) \/ Sms!ScriptMatches(s) \/ Sms!SetLock(s) \/ Sms!Crash(s)
        PROVE  SavesOverlap'
    <2>1. PICK from : Sms!End(s, from)
      BY <1>6 DEF Sms!ScriptExpired, Sms!ScriptMatches, Sms!SetLock, Sms!Crash
    <2>2. UNCHANGED <<intervalTtl, pending>>
      BY <1>6 DEF Sms!ScriptExpired, Sms!ScriptMatches, Sms!SetLock, Sms!Crash
    <2> QED
      BY <1>1, <2>1, <2>2, SmsEnds
  <1>7. ASSUME NEW s \in Session, Sms!ScriptFails(s) PROVE SavesOverlap'
    <2>1. UNCHANGED <<intervalTtl, pending>>
      BY <1>7 DEF Sms!ScriptFails
    <2>2. PICK to \in {"idle", "setLock"} : Sms!Goto(s, "runScript", to)
      BY <1>7, SmsEnds DEF Sms!ScriptFails
    <2>3. to \in Sms!PCs
      BY DEF Sms!PCs
    <2> QED
      BY <1>1, <2>1, <2>2, <2>3
  <1>8. ASSUME Sms!Tick PROVE SavesOverlap'
    <2>1. Sending' = Sending
      BY <1>8 DEF Sms!Tick, Sending
    <2>2. intervalTtl' = 0 => pending' = 0
      BY <1>8 DEF Sms!Tick, Sms!Down
    <2>3. pending' \in 0..pending
      BY <1>8 DEF Sms!Tick
    <2>4. Cardinality(Sending) \in Nat
      <3>1. Sending \in SUBSET Session
        BY DEF Sending
      <3> QED
        BY <3>1, FS_Subset, FS_CardinalityType
    <2> QED
      BY <2>1, <2>2, <2>3, <2>4
  <1>9. CASE UNCHANGED smsVars
    <2>1. Sending' = Sending
      BY <1>9 DEF smsVars, Sending
    <2> QED
      BY <1>9, <2>1 DEF smsVars
  <1> QED
    BY <1>2, <1>3, <1>4, <1>5, <1>6, <1>7, <1>8, <1>9 DEF Sms!Next, Sms!Save, Sms!Verify

LEMMA SmsStep == SmsInv /\ [Sms!Next]_smsVars => SmsInv'
  BY SmsTypeStep, FailuresStep, BeyondStep, CodeStep, SavesStep DEF SmsInv

LEMMA SmsBegins == Sms!Init => SmsInv
  <1> SUFFICES ASSUME Sms!Init PROVE SmsInv
    OBVIOUS
  <1>1. Sending = {}
    BY DEF Sms!Init, Sending
  <1>2. Sms!TypeOK
    BY SmsConstants DEF Sms!Init, Sms!TypeOK, Sms!PCs, Sms!TimesBound
  <1>3. SavesOverlap
    BY <1>1, SmsConstants, FS_EmptySet DEF Sms!Init, SavesOverlap
  <1> QED
    BY <1>2, <1>3, SmsConstants DEF Sms!Init, SmsInv, FailuresCounted, Sms!OneBeyondEach, CodeIsNew
-----------------------------------------------------------------------------
(* Steps of LuaRateLimiter                                                 *)

LEMMA LuaConstants ==
  /\ capacity \in Nat \ {0} /\ rate \in Nat \ {0} /\ Nil \notin Int
  /\ MaxLag \in Nat /\ MaxAge \in Nat /\ MaxClears \in Nat
  BY RedisAssumption DEF Lua!LuaAssumption

\* Time in tokens.
LEMMA InTokens ==
  ASSUME NEW m \in Int, NEW n \in Int, NEW r \in Nat \ {0}
  PROVE  /\ m * r \in Int /\ n * r \in Int /\ (m - n) * r = m * r - n * r /\ (m + 1) * r = m * r + r
         /\ m <= n => m * r <= n * r
         /\ 0 <= m => 0 <= m * r
  <1>1. m * r \in Int /\ n * r \in Int /\ (m - n) * r = m * r - n * r /\ (m + 1) * r = m * r + r
    OBVIOUS
  <1>2. m <= n => m * r <= n * r
    OBVIOUS
  <1>3. 0 <= m => 0 <= m * r
    OBVIOUS
  <1> QED
    BY <1>1, <1>2, <1>3

\* The two scripts' ways to store what they have computed out of both keys.
LEMMA Computed ==
  ASSUME LuaInv, NEW c \in Client, lag[c] # Nil, Lua!Arithmetic
  PROVE  /\ tokens \in Int /\ age \in Nat /\ lag[c] \in 0..MaxLag
         /\ age * rate \in Int /\ lag[c] * rate \in Int /\ MaxLag * rate \in Int
         /\ 0 <= lag[c] * rate /\ lag[c] * rate <= MaxLag * rate /\ 0 <= age * rate
         /\ Lua!Refilled(c) = tokens + age * rate - lag[c] * rate
         /\ 0 <= tokens + age * rate
  <1>1. tokens \in Int /\ age \in Nat /\ lag[c] \in 0..MaxLag
    BY LuaConstants DEF LuaInv, Lua!TypeOK, Lua!Arithmetic
  <1>2. 0 <= tokens + age * rate
    BY DEF LuaInv, DebtIsCovered, Lua!Arithmetic
  <1>3. /\ age * rate \in Int /\ lag[c] * rate \in Int /\ MaxLag * rate \in Int
        /\ 0 <= lag[c] * rate /\ lag[c] * rate <= MaxLag * rate /\ 0 <= age * rate
        /\ (age - lag[c]) * rate = age * rate - lag[c] * rate
    <2>1. age \in Int /\ lag[c] \in Int /\ MaxLag \in Int /\ 0 <= age /\ 0 <= lag[c] /\ lag[c] <= MaxLag
      BY <1>1, LuaConstants
    <2> QED
      BY <2>1, LuaConstants, InTokens
  <1>4. Lua!Refilled(c) = tokens + age * rate - lag[c] * rate
    BY <1>1, <1>3 DEF Lua!Refilled
  <1> QED
    BY <1>1, <1>2, <1>3, <1>4

\* What is stored keeps the types and covers the debt.
LEMMA StoredKeeps ==
  ASSUME LuaInv, NEW c \in Client, lag[c] # Nil, NEW n \in Int, Lua!Store(n, lag[c]),
         script' = script, UNCHANGED <<clearing, clears>>,
         n <= capacity, 0 <= n + lag[c] * rate,
         script = "ratelimit2.lua" => n \in 0..(capacity - 1)
  PROVE  /\ tokens' \in (-(MaxLag * rate)..capacity) \cup {Nil} /\ age' \in 0..MaxAge \cup {Nil}
         /\ DebtIsCovered' /\ KeysTogether'
  <1>1. lag[c] \in 0..MaxLag /\ lag[c] \in Int /\ lag[c] # Nil /\ tokens' = n /\ age' = lag[c] /\ n # Nil
    BY LuaConstants DEF LuaInv, Lua!TypeOK, Lua!Store
  <1>2. MaxLag * rate \in Int /\ lag[c] * rate \in Int /\ lag[c] * rate <= MaxLag * rate
    BY <1>1, LuaConstants, InTokens
  <1>3. MaxLag <= MaxAge
    BY RedisAssumption, LuaConstants DEF Lua!LuaAssumption
  <1>4. tokens' \in -(MaxLag * rate)..capacity
    BY <1>1, <1>2, LuaConstants
  <1>5. age' \in 0..MaxAge
    BY <1>1, <1>3, LuaConstants
  <1>6. DebtIsCovered'
    BY <1>1 DEF DebtIsCovered
  <1>7. KeysTogether'
    BY <1>1 DEF KeysTogether, LuaInv
  <1> QED
    BY <1>4, <1>5, <1>6, <1>7

LEMMA AnswerIs ==
  ASSUME Lua!TypeOK, NEW c \in Client, NEW r \in -1..4, Lua!Answer(c, r)
  PROVE  /\ answer' \in [Client -> -1..4 \cup {Nil}] /\ answer'[c] = r
         /\ \A d \in Client \ {c} : answer'[d] = answer[d]
         /\ accepted' \in [Client -> BOOLEAN] /\ granted' \in Nat
         /\ granted' = IF r > 0 THEN granted + 1 ELSE granted
         /\ lag' \in [Client -> 0..MaxLag \cup {Nil}]
         /\ script' = script /\ clearing' = clearing /\ clears' = clears
  <1>1. /\ answer' = [answer EXCEPT ![c] = r] /\ lag' = [lag EXCEPT ![c] = Nil]
        /\ granted' = IF r > 0 THEN granted + 1 ELSE granted
        /\ script' = script /\ clearing' = clearing /\ clears' = clears
    BY DEF Lua!Answer
  <1>2. answer' \in [Client -> -1..4 \cup {Nil}] /\ lag' \in [Client -> 0..MaxLag \cup {Nil}]
    BY <1>1 DEF Lua!TypeOK
  <1>3. accepted' \in [Client -> BOOLEAN]
    BY DEF Lua!Answer, Lua!EqualsInteger1, Lua!TypeOK
  <1>4. granted' \in Nat
    BY <1>1 DEF Lua!TypeOK
  <1>5. answer'[c] = r /\ \A d \in Client \ {c} : answer'[d] = answer[d]
    BY <1>1 DEF Lua!TypeOK
  <1> QED
    BY <1>1, <1>2, <1>3, <1>4, <1>5

\* What a script can do: fail for want of a key, refuse, begin with a full bucket, take a
\* token that is there (ratelimit2.lua), or compute how many there are now.
Fails(c) ==
  /\ Lua!Answer(c, -1) /\ ~ Lua!Arithmetic /\ UNCHANGED <<tokens, age>>
  /\ IF script = "ratelimit.lua" THEN age # Nil ELSE tokens # Nil
Refuses(c) == Lua!Answer(c, 0) /\ UNCHANGED <<tokens, age>>
Fills(c) ==
  /\ \E r \in {1, 4} : Lua!Answer(c, r)
  /\ Lua!Store(capacity - 1, lag[c])
  /\ IF script = "ratelimit.lua" THEN age = Nil ELSE tokens = Nil
TakesStored(c) ==
  /\ script = "ratelimit2.lua" /\ tokens # Nil /\ tokens > 0
  /\ Lua!Answer(c, 1) /\ Lua!Store(tokens - 1, age)
Forgets(c, n) ==
  /\ script = "ratelimit.lua" /\ n < 1
  /\ Lua!Answer(c, 0) /\ Lua!Store(n, lag[c])
TakesNew(c, n) ==
  /\ n >= 1 /\ (script = "ratelimit2.lua" => tokens < 1)
  /\ \E r \in 1..3 : Lua!Answer(c, r)
  /\ Lua!Store(n - 1, lag[c])
Computes(c) ==
  /\ Lua!Arithmetic
  /\ \E n \in Int :
       /\ n <= capacity /\ n <= Lua!Refilled(c) /\ (n = Lua!Refilled(c) \/ n >= 1)
       /\ Forgets(c, n) \/ TakesNew(c, n)

LEMMA Evaluates ==
  ASSUME LuaInv, NEW c \in Client, Lua!Eval1(c) \/ Lua!Eval2(c)
  PROVE  /\ lag[c] # Nil
         /\ Fails(c) \/ Refuses(c) \/ Fills(c) \/ TakesStored(c) \/ Computes(c)
  <1>1. lag[c] # Nil
    BY DEF Lua!Eval1, Lua!Eval2
  <1>2. Lua!Arithmetic => Lua!Refilled(c) \in Int
    BY <1>1, Computed
  <1>3. CASE Lua!Eval1(c)
    <2>1. script = "ratelimit.lua"
      BY <1>3 DEF Lua!Eval1
    <2>2. CASE age = Nil
      BY <1>3, <2>1, <2>2 DEF Lua!Eval1, Fills, Lua!Arithmetic
    <2>3. CASE age # Nil /\ ~ Lua!Arithmetic
      BY <1>3, <2>1, <2>3 DEF Lua!Eval1, Fails, Lua!Error, Lua!keys
    <2>4. CASE Lua!Arithmetic
      <3> DEFINE n == Lua!Capped(Lua!Refilled(c))
      <3>1. /\ n \in Int /\ n <= capacity /\ n <= Lua!Refilled(c)
            /\ n = Lua!Refilled(c) \/ n >= 1
        BY <1>2, <2>4, LuaConstants DEF Lua!Capped
      <3>2. IF n < 1 THEN Lua!Store(n, lag[c]) /\ Lua!Answer(c, 0)
            ELSE Lua!Store(n - 1, lag[c]) /\ Lua!Answer(c, 1)
        BY <1>3, <2>4 DEF Lua!Eval1, Lua!Arithmetic
      <3> HIDE DEF n
      <3>3. Forgets(c, n) \/ TakesNew(c, n)
        <4>1. CASE n < 1
          BY <2>1, <3>2, <4>1 DEF Forgets
        <4>2. CASE ~ (n < 1)
          BY <2>1, <3>1, <3>2, <4>2 DEF TakesNew
        <4> QED
          BY <4>1, <4>2
      <3> QED
        BY <1>1, <2>4, <3>1, <3>3, Zenon DEF Computes
    <2> QED
      BY <1>1, <2>2, <2>3, <2>4
  <1>4. CASE Lua!Eval2(c)
    <2>1. script = "ratelimit2.lua" /\ script # "ratelimit.lua"
      BY <1>4 DEF Lua!Eval2
    <2>2. \/ tokens = Nil /\ Lua!Store(capacity - 1, lag[c]) /\ Lua!Answer(c, 4)
          \/ tokens # Nil /\ tokens > 0 /\ Lua!Store(tokens - 1, age) /\ Lua!Answer(c, 1)
          \/ tokens # Nil /\ tokens < 1 /\ ~ Lua!Arithmetic /\ UNCHANGED Lua!keys /\ Lua!Answer(c, -1)
          \/ /\ tokens # Nil /\ tokens < 1 /\ Lua!Arithmetic
             /\ CASE Lua!Refilled(c) > capacity -> Lua!Store(capacity - 1, lag[c]) /\ Lua!Answer(c, 2)
                  [] Lua!Refilled(c) < 1 -> UNCHANGED Lua!keys /\ Lua!Answer(c, 0)
                  [] OTHER -> Lua!Store(Lua!Refilled(c) - 1, lag[c]) /\ Lua!Answer(c, 3)
      BY <1>4, Zenon DEF Lua!Eval2, Lua!Error
    <2>3. CASE tokens = Nil /\ Lua!Store(capacity - 1, lag[c]) /\ Lua!Answer(c, 4)
      <3>1. \E r \in {1, 4} : Lua!Answer(c, r)
        BY <2>3, Zenon
      <3> QED
        BY <2>1, <2>3, <3>1, <1>1, Zenon DEF Fills
    <2>4. CASE tokens # Nil /\ tokens > 0 /\ Lua!Store(tokens - 1, age) /\ Lua!Answer(c, 1)
      BY <1>1, <2>1, <2>4, Zenon DEF TakesStored
    <2>5. CASE tokens # Nil /\ tokens < 1 /\ ~ Lua!Arithmetic /\ UNCHANGED Lua!keys /\ Lua!Answer(c, -1)
      <3>1. UNCHANGED <<tokens, age>>
        BY <2>5, Zenon DEF Lua!keys
      <3> QED
        BY <1>1, <2>1, <2>5, <3>1, Zenon DEF Fails
    <2>6. CASE /\ tokens # Nil /\ tokens < 1 /\ Lua!Arithmetic
               /\ CASE Lua!Refilled(c) > capacity -> Lua!Store(capacity - 1, lag[c]) /\ Lua!Answer(c, 2)
                    [] Lua!Refilled(c) < 1 -> UNCHANGED Lua!keys /\ Lua!Answer(c, 0)
                    [] OTHER -> Lua!Store(Lua!Refilled(c) - 1, lag[c]) /\ Lua!Answer(c, 3)
      <3>1. Lua!Refilled(c) \in Int
        BY <1>2, <2>6
      <3>2. ~ (Lua!Refilled(c) > capacity /\ Lua!Refilled(c) < 1)
        BY <3>1, LuaConstants
      <3>3. CASE Lua!Refilled(c) > capacity
        <4>1. Lua!Store(capacity - 1, lag[c]) /\ Lua!Answer(c, 2)
          BY <2>6, <3>2, <3>3
        <4>2. \E r \in 1..3 : Lua!Answer(c, r)
          <5>1. 2 \in 1..3
            OBVIOUS
          <5> QED
            BY <4>1, <5>1, Zenon
        <4>3. /\ capacity \in Int /\ capacity <= capacity /\ capacity <= Lua!Refilled(c)
              /\ capacity >= 1
          BY <3>1, <3>3, LuaConstants
        <4>4. TakesNew(c, capacity)
          BY <2>6, <4>1, <4>2, <4>3, Zenon DEF TakesNew
        <4>5. Computes(c)
          BY <2>6, <4>3, <4>4, Zenon DEF Computes
        <4> QED
          BY <1>1, <4>5, Zenon
      <3>4. CASE ~ (Lua!Refilled(c) > capacity) /\ Lua!Refilled(c) < 1
        <4>1. UNCHANGED Lua!keys /\ Lua!Answer(c, 0)
          BY <2>6, <3>2, <3>4
        <4> QED
          BY <1>1, <4>1, Zenon DEF Refuses, Lua!keys
      <3>5. CASE ~ (Lua!Refilled(c) > capacity) /\ ~ (Lua!Refilled(c) < 1)
        <4>1. Lua!Store(Lua!Refilled(c) - 1, lag[c]) /\ Lua!Answer(c, 3)
          BY <2>6, <3>5
        <4>2. \E r \in 1..3 : Lua!Answer(c, r)
          <5>1. 3 \in 1..3
            OBVIOUS
          <5> QED
            BY <4>1, <5>1, Zenon
        <4>3. /\ Lua!Refilled(c) <= capacity /\ Lua!Refilled(c) <= Lua!Refilled(c)
              /\ Lua!Refilled(c) >= 1
          BY <3>1, <3>5, LuaConstants
        <4>4. TakesNew(c, Lua!Refilled(c))
          BY <2>6, <4>1, <4>2, <4>3, Zenon DEF TakesNew
        <4>5. Computes(c)
          BY <2>6, <3>1, <4>3, <4>4, Zenon DEF Computes
        <4> QED
          BY <1>1, <4>5, Zenon
      <3> QED
        BY <3>3, <3>4, <3>5, Zenon
    <2> QED
      BY <2>2, <2>3, <2>4, <2>5, <2>6, Zenon
  <1> QED
    BY <1>3, <1>4

\* The level of the bucket that keys of these values are.
LevelAt(t, a, s) ==
  MaxLag * rate +
  CASE t = Nil -> capacity
    [] t # Nil /\ a = Nil -> IF s = "ratelimit.lua" THEN capacity ELSE t
    [] OTHER -> IF s = "ratelimit.lua" THEN Lua!Capped(t + (a - MaxLag) * rate)
                ELSE t + Lua!Capped((a - MaxLag) * rate)

LEMMA LevelIs ==
  ASSUME NEW t, NEW a, NEW s
  PROVE  /\ t = Nil => LevelAt(t, a, s) = MaxLag * rate + capacity
         /\ t # Nil /\ a = Nil /\ s = "ratelimit.lua" => LevelAt(t, a, s) = MaxLag * rate + capacity
         /\ t # Nil /\ a = Nil /\ s # "ratelimit.lua" => LevelAt(t, a, s) = MaxLag * rate + t
         /\ t # Nil /\ a # Nil /\ s = "ratelimit.lua" =>
              LevelAt(t, a, s) = MaxLag * rate + Lua!Capped(t + (a - MaxLag) * rate)
         /\ t # Nil /\ a # Nil /\ s # "ratelimit.lua" =>
              LevelAt(t, a, s) = MaxLag * rate + (t + Lua!Capped((a - MaxLag) * rate))
  BY DEF LevelAt

LEMMA LevelOfBoth ==
  ASSUME NEW t \in Int, NEW a \in Int, NEW s
  PROVE  /\ s = "ratelimit.lua" =>
              LevelAt(t, a, s) =
                IF t + a * rate > MaxLag * rate + capacity THEN MaxLag * rate + capacity ELSE t + a * rate
         /\ s # "ratelimit.lua" =>
              LevelAt(t, a, s) =
                t + (IF a * rate > MaxLag * rate + capacity THEN MaxLag * rate + capacity ELSE a * rate)
  <1>1. t # Nil /\ a # Nil
    BY LuaConstants
  <1>2. MaxLag \in Int /\ capacity \in Int
    BY LuaConstants
  <1>3. (a - MaxLag) * rate = a * rate - MaxLag * rate /\ a * rate \in Int /\ MaxLag * rate \in Int
    BY <1>2, LuaConstants, InTokens
  <1>4. ASSUME NEW x \in Int, NEW y \in Int, NEW z \in Int
        PROVE  /\ z + Lua!Capped(t + (x - z)) = IF t + x > z + capacity THEN z + capacity ELSE t + x
               /\ z + (t + Lua!Capped(x - z)) = t + (IF x > z + capacity THEN z + capacity ELSE x)
    BY <1>2 DEF Lua!Capped
  <1>5. /\ MaxLag * rate + Lua!Capped(t + (a * rate - MaxLag * rate)) =
             IF t + a * rate > MaxLag * rate + capacity THEN MaxLag * rate + capacity ELSE t + a * rate
        /\ MaxLag * rate + (t + Lua!Capped(a * rate - MaxLag * rate)) =
             t + (IF a * rate > MaxLag * rate + capacity THEN MaxLag * rate + capacity ELSE a * rate)
    BY <1>3, <1>4
  <1> QED
    BY <1>1, <1>3, <1>5, LevelIs

LEMMA LevelWithin ==
  ASSUME LuaInv
  PROVE  /\ LevelAt(tokens, age, script) \in 0..Lua!Size /\ Lua!Size \in Nat
         /\ MaxLag * rate \in Nat /\ MaxLag * rate + capacity <= Lua!Size
  <1>1. MaxLag * rate \in Nat
    <2>1. MaxLag \in Int /\ 0 <= MaxLag
      BY LuaConstants
    <2> QED
      BY <2>1, LuaConstants, InTokens
  <1>2. script \in Lua!Scripts
    BY DEF LuaInv, Lua!TypeOK
  <1>3. Lua!Size \in Nat /\ MaxLag * rate + capacity <= Lua!Size
    BY <1>1, LuaConstants DEF Lua!Size
  <1>4. CASE tokens = Nil
    <2>1. LevelAt(tokens, age, script) = MaxLag * rate + capacity
      BY <1>4, LevelIs
    <2> QED
      BY <1>1, <1>3, <2>1, LuaConstants
  <1>5. CASE tokens # Nil /\ age = Nil
    <2>1. CASE script = "ratelimit.lua"
      <3>1. LevelAt(tokens, age, script) = MaxLag * rate + capacity
        BY <1>5, <2>1, LevelIs
      <3> QED
        BY <1>1, <1>3, <3>1, LuaConstants
    <2>2. CASE script = "ratelimit2.lua"
      <3>1. tokens \in 0..(capacity - 1)
        BY <1>5, <2>2 DEF LuaInv, DebtIsCovered
      <3>2. LevelAt(tokens, age, script) = MaxLag * rate + tokens
        BY <1>5, <2>2, LevelIs
      <3> QED
        BY <1>1, <1>3, <3>1, <3>2, LuaConstants
    <2> QED
      BY <1>2, <2>1, <2>2 DEF Lua!Scripts
  <1>6. CASE tokens # Nil /\ age # Nil
    <2>1. tokens \in Int /\ age \in Nat /\ age \in Int
      BY <1>1, <1>6, LuaConstants DEF LuaInv, Lua!TypeOK
    <2>2. age * rate \in Int /\ 0 <= age * rate
      BY <2>1, LuaConstants, InTokens
    <2>3. 0 <= tokens + age * rate
      BY <1>6 DEF LuaInv, DebtIsCovered
    <2>4. CASE script = "ratelimit.lua"
      <3>1. LevelAt(tokens, age, script) =
              IF tokens + age * rate > MaxLag * rate + capacity THEN MaxLag * rate + capacity
              ELSE tokens + age * rate
        BY <2>1, <2>4, LevelOfBoth
      <3> QED
        BY <1>1, <1>3, <2>1, <2>2, <2>3, <3>1, LuaConstants
    <2>5. CASE script = "ratelimit2.lua"
      <3>1. LevelAt(tokens, age, script) =
              tokens + (IF age * rate > MaxLag * rate + capacity THEN MaxLag * rate + capacity
                        ELSE age * rate)
        BY <2>1, <2>5, LevelOfBoth
      <3>2. tokens \in 0..(capacity - 1)
        BY <1>6, <2>5 DEF LuaInv, DebtIsCovered
      <3>3. Lua!Size = (2 * capacity - 1) + MaxLag * rate
        BY <2>5 DEF Lua!Size
      <3> QED
        BY <1>1, <1>3, <2>1, <2>2, <3>1, <3>2, <3>3, LuaConstants
    <2> QED
      BY <1>2, <2>4, <2>5 DEF Lua!Scripts
  <1> QED
    BY <1>1, <1>3, <1>4, <1>5, <1>6

\* Running a script takes a token out of the bucket or gives none away.
LevelFalls ==
  /\ script' = script /\ clearing' = clearing /\ clears' = clears
  /\ \/ granted' = granted + 1 /\ LevelAt(tokens', age', script) <= LevelAt(tokens, age, script) - 1
     \/ granted' = granted /\ LevelAt(tokens', age', script) <= LevelAt(tokens, age, script)

\* A script answers and leaves the rest to what it does with the keys.
LEMMA AnswerKeeps ==
  ASSUME LuaInv, NEW c \in Client, NEW r \in -1..4, Lua!Answer(c, r),
         tokens' \in (-(MaxLag * rate)..capacity) \cup {Nil}, age' \in 0..MaxAge \cup {Nil},
         DebtIsCovered', KeysTogether'
  PROVE  LuaInv'
  <1>1. Lua!TypeOK
    BY DEF LuaInv
  <1>2. Lua!TypeOK'
    BY <1>1, AnswerIs DEF Lua!TypeOK
  <1> QED
    BY <1>2 DEF LuaInv

LEMMA NothingStored ==
  ASSUME LuaInv, NEW c \in Client, NEW r \in {-1, 0}, Lua!Answer(c, r), UNCHANGED <<tokens, age>>
  PROVE  LuaInv' /\ LevelFalls
  <1>1. r \in -1..4
    OBVIOUS
  <1>2. script' = script /\ clearing' = clearing /\ clears' = clears /\ granted' = granted
    BY <1>1, AnswerIs DEF LuaInv
  <1>3. LevelAt(tokens, age, script) \in Int
    BY LevelWithin
  <1>4. LevelAt(tokens', age', script) <= LevelAt(tokens, age, script)
    BY <1>3
  <1>5. DebtIsCovered' /\ KeysTogether'
    BY <1>2 DEF DebtIsCovered, KeysTogether, LuaInv
  <1>6. tokens' \in (-(MaxLag * rate)..capacity) \cup {Nil} /\ age' \in 0..MaxAge \cup {Nil}
    BY DEF LuaInv, Lua!TypeOK
  <1> QED
    BY <1>1, <1>2, <1>4, <1>5, <1>6, AnswerKeeps DEF LevelFalls

LEMMA FillsFalls ==
  ASSUME LuaInv, NEW c \in Client, lag[c] # Nil, Fills(c)
  PROVE  LuaInv' /\ LevelFalls
  <1>1. PICK r \in {1, 4} : Lua!Answer(c, r)
    BY DEF Fills
  <1>2. /\ script' = script /\ clearing' = clearing /\ clears' = clears
        /\ granted' = granted + 1 /\ r \in -1..4
    BY <1>1, AnswerIs DEF LuaInv
  <1>3. Lua!Store(capacity - 1, lag[c]) /\ tokens' = capacity - 1 /\ age' = lag[c]
    BY DEF Fills, Lua!Store
  <1>4. lag[c] \in Int /\ lag[c] \in 0..MaxLag /\ capacity - 1 \in Int /\ MaxLag \in Int
    BY LuaConstants DEF LuaInv, Lua!TypeOK
  <1>5. /\ lag[c] * rate \in Int /\ MaxLag * rate \in Int
        /\ 0 <= lag[c] * rate /\ lag[c] * rate <= MaxLag * rate
    BY <1>4, LuaConstants, InTokens
  <1>6. /\ tokens' \in (-(MaxLag * rate)..capacity) \cup {Nil} /\ age' \in 0..MaxAge \cup {Nil}
        /\ DebtIsCovered' /\ KeysTogether'
    <2>1. /\ capacity - 1 <= capacity /\ 0 <= (capacity - 1) + lag[c] * rate
          /\ capacity - 1 \in 0..(capacity - 1)
      BY <1>5, LuaConstants
    <2> QED
      BY <1>2, <1>3, <1>4, <2>1, StoredKeeps
  <1>7. LevelAt(tokens', age', script) = capacity - 1 + lag[c] * rate
    <2>1. LevelAt(capacity - 1, lag[c], script) = capacity - 1 + lag[c] * rate
      BY <1>4, <1>5, LevelOfBoth, LuaConstants
    <2> QED
      BY <1>3, <2>1
  <1>8. LevelAt(tokens, age, script) = MaxLag * rate + capacity
    <2>1. CASE script = "ratelimit.lua"
      <3>1. age = Nil
        BY <2>1 DEF Fills
      <3> QED
        BY <2>1, <3>1, LevelIs
    <2>2. CASE script # "ratelimit.lua"
      <3>1. tokens = Nil
        BY <2>2 DEF Fills
      <3> QED
        BY <3>1, LevelIs
    <2> QED
      BY <2>1, <2>2
  <1>9. LevelAt(tokens', age', script) <= LevelAt(tokens, age, script) - 1
    BY <1>5, <1>7, <1>8, LuaConstants
  <1> QED
    BY <1>1, <1>2, <1>6, <1>9, AnswerKeeps DEF LevelFalls

LEMMA TakesStoredFalls ==
  ASSUME LuaInv, NEW c \in Client, TakesStored(c)
  PROVE  LuaInv' /\ LevelFalls
  <1>1. /\ Lua!Answer(c, 1) /\ script = "ratelimit2.lua" /\ tokens # Nil /\ tokens > 0
        /\ tokens' = tokens - 1 /\ age' = age
    BY DEF TakesStored, Lua!Store
  <1>2. /\ script' = script /\ clearing' = clearing /\ clears' = clears
        /\ granted' = granted + 1
    BY <1>1, AnswerIs DEF LuaInv
  <1>3. tokens \in 0..(capacity - 1) /\ tokens' \in 0..(capacity - 1) /\ tokens' # Nil
    BY <1>1, LuaConstants DEF LuaInv, DebtIsCovered
  <1>4. age \in 0..MaxAge \cup {Nil} /\ MaxLag * rate \in Nat
    BY LevelWithin DEF LuaInv, Lua!TypeOK
  <1>5. tokens' \in (-(MaxLag * rate)..capacity) \cup {Nil}
    BY <1>3, <1>4, LuaConstants
  <1>6. DebtIsCovered' /\ LevelAt(tokens', age', script) = LevelAt(tokens, age, script) - 1
    <2>1. CASE age = Nil
      <3>1. DebtIsCovered'
        BY <1>1, <1>3, <2>1 DEF DebtIsCovered
      <3>2. /\ LevelAt(tokens, age, script) = MaxLag * rate + tokens
            /\ LevelAt(tokens', age', script) = MaxLag * rate + tokens'
        BY <1>1, <1>3, <2>1, LevelIs
      <3> QED
        BY <1>1, <1>3, <1>4, <3>1, <3>2
    <2>2. CASE age # Nil
      <3>1. age \in Int /\ 0 <= age
        BY <1>4, <2>2, LuaConstants
      <3>2. age * rate \in Int /\ 0 <= age * rate
        BY <3>1, LuaConstants, InTokens
      <3>3. DebtIsCovered'
        <4>1. tokens' + age * rate >= 0
          BY <1>3, <3>2
        <4> QED
          BY <1>1, <1>3, <4>1 DEF DebtIsCovered
      <3>4. LevelAt(tokens', age', script) = LevelAt(tokens, age, script) - 1
        <4>1. tokens \in Int /\ tokens - 1 \in Int
          BY <1>3
        <4>2. /\ LevelAt(tokens, age, script) =
                   tokens + (IF age * rate > MaxLag * rate + capacity THEN MaxLag * rate + capacity
                             ELSE age * rate)
              /\ LevelAt(tokens - 1, age, script) =
                   (tokens - 1) + (IF age * rate > MaxLag * rate + capacity
                                   THEN MaxLag * rate + capacity ELSE age * rate)
          BY <1>1, <3>1, <4>1, LevelOfBoth
        <4>3. LevelAt(tokens - 1, age, script) = LevelAt(tokens, age, script) - 1
          BY <1>4, <3>2, <4>1, <4>2, LuaConstants
        <4> QED
          BY <1>1, <4>3
      <3> QED
        BY <3>3, <3>4
    <2> QED
      BY <2>1, <2>2
  <1>7. KeysTogether'
    BY <1>1, <1>2, <1>3 DEF KeysTogether, LuaInv
  <1>8. LevelAt(tokens, age, script) \in Int
    BY LevelWithin
  <1>9. LevelAt(tokens', age', script) <= LevelAt(tokens, age, script) - 1
    BY <1>6, <1>8
  <1> QED
    BY <1>1, <1>2, <1>4, <1>5, <1>6, <1>7, <1>9, AnswerKeeps DEF LevelFalls

LEMMA ComputesFalls ==
  ASSUME LuaInv, NEW c \in Client, lag[c] # Nil, Computes(c)
  PROVE  LuaInv' /\ LevelFalls
  <1>1. PICK n \in Int : /\ n <= capacity /\ n <= Lua!Refilled(c) /\ (n = Lua!Refilled(c) \/ n >= 1)
                         /\ Forgets(c, n) \/ TakesNew(c, n)
    BY DEF Computes
  <1>2. Lua!Arithmetic /\ tokens # Nil /\ age # Nil
    BY DEF Computes, Lua!Arithmetic
  <1> DEFINE spent == age * rate
             late == lag[c] * rate
             most == MaxLag * rate
  <1>3. /\ tokens \in Int /\ age \in Nat /\ age \in Int /\ lag[c] \in Int
        /\ spent \in Int /\ late \in Int /\ most \in Int
        /\ 0 <= late /\ late <= most /\ 0 <= spent
        /\ Lua!Refilled(c) = (tokens + spent) - late
        /\ 0 <= tokens + spent
    <2>1. lag[c] \in 0..MaxLag /\ MaxLag \in Int
      BY <1>2, Computed, LuaConstants
    <2> QED
      BY <1>2, <2>1, Computed
  <1>4. script = "ratelimit.lua" =>
          LevelAt(tokens, age, script) = IF tokens + spent > most + capacity THEN most + capacity
                                         ELSE tokens + spent
    BY <1>3, LevelOfBoth
  <1>5. script # "ratelimit.lua" =>
          LevelAt(tokens, age, script) = tokens + (IF spent > most + capacity THEN most + capacity
                                                   ELSE spent)
    BY <1>3, LevelOfBoth
  <1>6. ASSUME NEW m \in Int
        PROVE  /\ script = "ratelimit.lua" =>
                    LevelAt(m, lag[c], script) = IF m + late > most + capacity THEN most + capacity
                                                 ELSE m + late
               /\ script # "ratelimit.lua" =>
                    LevelAt(m, lag[c], script) = m + (IF late > most + capacity THEN most + capacity
                                                      ELSE late)
    BY <1>3, LevelOfBoth
  <1>7. CASE Forgets(c, n)
    <2>1. /\ script = "ratelimit.lua" /\ script # "ratelimit2.lua" /\ n < 1
          /\ Lua!Answer(c, 0) /\ Lua!Store(n, lag[c])
          /\ tokens' = n /\ age' = lag[c]
      BY <1>7 DEF Forgets, Lua!Store
    <2>2. /\ script' = script /\ clearing' = clearing /\ clears' = clears
          /\ granted' = granted
      BY <2>1, AnswerIs DEF LuaInv
    <2>3. n + late = tokens + spent /\ 0 <= n + late
      BY <1>1, <1>3, <2>1
    <2>4. /\ tokens' \in (-(MaxLag * rate)..capacity) \cup {Nil} /\ age' \in 0..MaxAge \cup {Nil}
          /\ DebtIsCovered' /\ KeysTogether'
      BY <1>1, <2>1, <2>2, <2>3, StoredKeeps
    <2>5. LevelAt(n, lag[c], script) = LevelAt(tokens, age, script)
      BY <1>1, <1>4, <1>6, <2>1, <2>3
    <2>6. LevelAt(tokens, age, script) \in Int
      BY LevelWithin
    <2>7. LevelAt(tokens', age', script) <= LevelAt(tokens, age, script)
      BY <2>1, <2>5, <2>6
    <2> QED
      BY <2>1, <2>2, <2>4, <2>7, AnswerKeeps DEF LevelFalls
  <1>8. CASE TakesNew(c, n)
    <2>1. PICK r \in 1..3 : Lua!Answer(c, r)
      BY <1>8 DEF TakesNew
    <2>2. /\ n >= 1 /\ (script = "ratelimit2.lua" => tokens < 1)
          /\ Lua!Store(n - 1, lag[c]) /\ tokens' = n - 1 /\ age' = lag[c]
      BY <1>8 DEF TakesNew, Lua!Store
    <2>3. /\ script' = script /\ clearing' = clearing /\ clears' = clears
          /\ granted' = granted + 1 /\ r \in -1..4
      BY <2>1, AnswerIs DEF LuaInv
    <2>4. n - 1 \in Int /\ n - 1 <= capacity /\ 0 <= (n - 1) + late /\ n - 1 \in 0..(capacity - 1)
      BY <1>1, <1>3, <2>2, LuaConstants
    <2>5. /\ tokens' \in (-(MaxLag * rate)..capacity) \cup {Nil} /\ age' \in 0..MaxAge \cup {Nil}
          /\ DebtIsCovered' /\ KeysTogether'
      BY <2>2, <2>3, <2>4, StoredKeeps
    <2>6. LevelAt(n - 1, lag[c], script) <= LevelAt(tokens, age, script) - 1
      <3>1. CASE script = "ratelimit.lua"
        <4>1. /\ LevelAt(tokens, age, script) = IF tokens + spent > most + capacity THEN most + capacity
                                                ELSE tokens + spent
              /\ LevelAt(n - 1, lag[c], script) =
                   IF (n - 1) + late > most + capacity THEN most + capacity ELSE (n - 1) + late
          BY <1>4, <1>6, <2>4, <3>1
        <4> HIDE DEF spent, late, most
        <4> QED
          BY <1>1, <1>3, <4>1, LuaConstants
      <3>2. CASE script = "ratelimit2.lua"
        <4>1. tokens = 0
          BY <1>2, <1>3, <2>2, <3>2 DEF LuaInv, DebtIsCovered
        <4>2. /\ LevelAt(tokens, age, script) =
                   tokens + (IF spent > most + capacity THEN most + capacity ELSE spent)
              /\ LevelAt(n - 1, lag[c], script) =
                   (n - 1) + (IF late > most + capacity THEN most + capacity ELSE late)
          BY <1>5, <1>6, <2>4, <3>2
        <4> HIDE DEF spent, late, most
        <4> QED
          BY <1>1, <1>3, <4>1, <4>2, LuaConstants
      <3> QED
        BY <3>1, <3>2 DEF LuaInv, Lua!TypeOK, Lua!Scripts
    <2>7. LevelAt(tokens', age', script) <= LevelAt(tokens, age, script) - 1
      BY <2>2, <2>6
    <2> QED
      BY <2>1, <2>3, <2>5, <2>7, AnswerKeeps DEF LevelFalls
  <1> QED
    BY <1>1, <1>7, <1>8

LEMMA ScriptsTakeTokens ==
  ASSUME LuaInv, NEW c \in Client, Lua!Eval1(c) \/ Lua!Eval2(c)
  PROVE  LuaInv' /\ LevelFalls
  <1>1. lag[c] # Nil /\ (Fails(c) \/ Refuses(c) \/ Fills(c) \/ TakesStored(c) \/ Computes(c))
    BY Evaluates
  <1>2. CASE Fails(c) \/ Refuses(c)
    <2>1. (Lua!Answer(c, -1) \/ Lua!Answer(c, 0)) /\ UNCHANGED <<tokens, age>>
      BY <1>2 DEF Fails, Refuses
    <2> QED
      BY <2>1, NothingStored
  <1> QED
    BY <1>1, <1>2, FillsFalls, TakesStoredFalls, ComputesFalls

\* What a tick of the clock and a DEL do to the bucket.
LevelRises ==
  /\ script' = script /\ clearing' = clearing /\ clears' = clears /\ granted' = 0
  /\ LevelAt(tokens', age', script) <= LevelAt(tokens, age, script) + rate

Deletes ==
  /\ script' = script /\ granted' = 0
  /\ \/ ~ clearing /\ clearing' = TRUE /\ clears' = clears + 1
     \/ clearing /\ clearing' = FALSE /\ clears' = clears

LEMMA ClockIsRead ==
  ASSUME LuaInv, NEW c \in Client, Lua!ReadClock(c)
  PROVE  LuaInv' /\ LevelFalls
  <1>1. /\ lag' = [lag EXCEPT ![c] = 0] /\ answer' = [answer EXCEPT ![c] = Nil]
        /\ accepted' = [accepted EXCEPT ![c] = FALSE]
        /\ UNCHANGED <<script, tokens, age, clearing, clears, granted>>
    BY DEF Lua!ReadClock, Lua!keys
  <1>2. lag' \in [Client -> 0..MaxLag \cup {Nil}]
    BY <1>1, LuaConstants DEF LuaInv, Lua!TypeOK
  <1>3. answer' \in [Client -> -1..4 \cup {Nil}] /\ accepted' \in [Client -> BOOLEAN]
    BY <1>1 DEF LuaInv, Lua!TypeOK
  <1>4. Lua!TypeOK'
    BY <1>1, <1>2, <1>3 DEF LuaInv, Lua!TypeOK
  <1>5. DebtIsCovered' /\ KeysTogether'
    BY <1>1 DEF LuaInv, DebtIsCovered, KeysTogether
  <1>6. LevelAt(tokens, age, script) \in Int
    BY LevelWithin
  <1> QED
    BY <1>1, <1>4, <1>5, <1>6 DEF LuaInv, LevelFalls

LEMMA ClearsDelete ==
  ASSUME LuaInv, Lua!ClearTokens \/ Lua!ClearTimestamp
  PROVE  LuaInv' /\ Deletes
  <1>1. CASE Lua!ClearTokens
    <2>1. /\ ~ clearing /\ clears < MaxClears /\ tokens' = Nil /\ clearing' = TRUE
          /\ clears' = clears + 1 /\ granted' = 0 /\ UNCHANGED <<script, age, lag, answer, accepted>>
      BY <1>1 DEF Lua!ClearTokens
    <2>2. Lua!TypeOK'
      BY <2>1, LuaConstants DEF LuaInv, Lua!TypeOK
    <2>3. DebtIsCovered'
      BY <2>1 DEF DebtIsCovered
    <2>4. KeysTogether'
      BY <2>1, LuaConstants DEF KeysTogether, LuaInv, Lua!TypeOK
    <2> QED
      BY <2>1, <2>2, <2>3, <2>4 DEF LuaInv, Deletes
  <1>2. CASE Lua!ClearTimestamp
    <2>1. /\ clearing /\ age' = Nil /\ clearing' = FALSE /\ granted' = 0
          /\ UNCHANGED <<script, tokens, lag, answer, accepted, clears>>
      BY <1>2 DEF Lua!ClearTimestamp
    <2>2. Lua!TypeOK'
      BY <2>1 DEF LuaInv, Lua!TypeOK
    <2>3. DebtIsCovered'
      BY <2>1 DEF DebtIsCovered, LuaInv
    <2>4. KeysTogether'
      BY <2>1 DEF KeysTogether, LuaInv
    <2> QED
      BY <2>1, <2>2, <2>3, <2>4 DEF LuaInv, Deletes
  <1> QED
    BY <1>1, <1>2

LEMMA ClockTicks ==
  ASSUME LuaInv, Lua!Tick
  PROVE  LuaInv' /\ LevelRises
  <1>1. /\ \A c \in Client : lag[c] # MaxLag
        /\ age' = Lua!Older(age, MaxAge)
        /\ lag' = [c \in Client |-> Lua!Older(lag[c], MaxLag)]
        /\ granted' = 0
        /\ UNCHANGED <<script, tokens, answer, accepted, clearing, clears>>
    BY DEF Lua!Tick
  <1>2. age' \in 0..MaxAge \cup {Nil} /\ (age' = Nil <=> age = Nil)
    BY <1>1, LuaConstants DEF LuaInv, Lua!TypeOK, Lua!Older
  <1>3. ASSUME NEW c \in Client
        PROVE  Lua!Older(lag[c], MaxLag) \in 0..MaxLag \cup {Nil}
    BY LuaConstants DEF LuaInv, Lua!TypeOK, Lua!Older
  <1>4. lag' \in [Client -> 0..MaxLag \cup {Nil}]
    BY <1>1, <1>3
  <1>5. Lua!TypeOK'
    BY <1>1, <1>2, <1>4 DEF LuaInv, Lua!TypeOK
  <1>6. KeysTogether'
    BY <1>1, <1>2 DEF LuaInv, KeysTogether
  <1>7. MaxLag * rate \in Nat /\ LevelAt(tokens, age, script) \in Int
    BY LevelWithin
  <1>8. DebtIsCovered' /\ LevelAt(tokens', age', script) <= LevelAt(tokens, age, script) + rate
    <2>1. CASE age' = age \/ tokens = Nil
      <3>1. CASE age' = age
        BY <1>1, <1>7, <3>1, LuaConstants DEF LuaInv, DebtIsCovered
      <3>2. CASE tokens = Nil
        <4>1. LevelAt(tokens', age', script) = LevelAt(tokens, age, script)
          BY <1>1, <3>2, LevelIs
        <4> QED
          BY <1>1, <1>7, <3>2, <4>1, LuaConstants DEF DebtIsCovered
      <3> QED
        BY <2>1, <3>1, <3>2
    <2>2. CASE age' # age /\ tokens # Nil
      <3>1. /\ tokens \in Int /\ age \in Int /\ 0 <= age /\ age' = age + 1 /\ age # Nil
            /\ age + 1 \in Int
        BY <1>1, <1>7, <2>2, LuaConstants DEF LuaInv, Lua!TypeOK, Lua!Older
      <3>2. age * rate \in Int /\ (age + 1) * rate = age * rate + rate /\ 0 <= age * rate
        BY <3>1, LuaConstants, InTokens
      <3>3. 0 <= tokens + age * rate
        BY <2>2, <3>1 DEF LuaInv, DebtIsCovered
      <3>4. 0 <= tokens + (age + 1) * rate
        BY <3>1, <3>2, <3>3, LuaConstants
      <3>5. DebtIsCovered'
        BY <1>1, <2>2, <3>1, <3>4 DEF LuaInv, DebtIsCovered
      <3>6. CASE script = "ratelimit.lua"
        <4>1. /\ LevelAt(tokens, age, script) =
                   IF tokens + age * rate > MaxLag * rate + capacity THEN MaxLag * rate + capacity
                   ELSE tokens + age * rate
              /\ LevelAt(tokens, age + 1, script) =
                   IF tokens + (age + 1) * rate > MaxLag * rate + capacity
                   THEN MaxLag * rate + capacity ELSE tokens + (age + 1) * rate
          BY <3>1, <3>6, LevelOfBoth
        <4>2. LevelAt(tokens, age + 1, script) <= LevelAt(tokens, age, script) + rate
          BY <1>7, <3>1, <3>2, <4>1, LuaConstants
        <4> QED
          BY <1>1, <3>1, <3>5, <4>2
      <3>7. CASE script # "ratelimit.lua"
        <4>1. /\ LevelAt(tokens, age, script) =
                   tokens + (IF age * rate > MaxLag * rate + capacity THEN MaxLag * rate + capacity
                             ELSE age * rate)
              /\ LevelAt(tokens, age + 1, script) =
                   tokens + (IF (age + 1) * rate > MaxLag * rate + capacity
                             THEN MaxLag * rate + capacity ELSE (age + 1) * rate)
          BY <3>1, <3>7, LevelOfBoth
        <4>2. LevelAt(tokens, age + 1, script) <= LevelAt(tokens, age, script) + rate
          BY <1>7, <3>1, <3>2, <4>1, LuaConstants
        <4> QED
          BY <1>1, <3>1, <3>5, <4>2
      <3> QED
        BY <3>6, <3>7
    <2> QED
      BY <2>1, <2>2
  <1> QED
    BY <1>1, <1>5, <1>6, <1>8 DEF LuaInv, LevelRises

LEMMA LuaStep ==
  ASSUME LuaInv, [Lua!Next]_luaVars
  PROVE  LuaInv' /\ (LevelFalls \/ LevelRises \/ Deletes)
  <1>1. CASE Lua!Next
    <2>1. CASE \E c \in Client : Lua!ReadClock(c) \/ Lua!Eval1(c) \/ Lua!Eval2(c)
      BY <2>1, ClockIsRead, ScriptsTakeTokens
    <2>2. CASE Lua!ClearTokens \/ Lua!ClearTimestamp
      BY <2>2, ClearsDelete
    <2>3. CASE Lua!Tick
      BY <2>3, ClockTicks
    <2> QED
      BY <1>1, <2>1, <2>2, <2>3, Zenon DEF Lua!Next
  <1>2. CASE UNCHANGED luaVars
    <2>1. UNCHANGED <<script, tokens, age, lag, answer, accepted, clearing, clears, granted>>
      BY <1>2 DEF luaVars
    <2>2. LuaInv'
      BY <2>1 DEF LuaInv, Lua!TypeOK, DebtIsCovered, KeysTogether
    <2>3. LevelAt(tokens, age, script) \in Int
      BY LevelWithin
    <2> QED
      BY <2>1, <2>2, <2>3 DEF LevelFalls
  <1> QED
    BY <1>1, <1>2

LEMMA LuaBegins == Lua!Init => LuaInv
  <1> SUFFICES ASSUME Lua!Init PROVE LuaInv
    OBVIOUS
  <1>1. Lua!TypeOK
    <2>1. 0 \in 0..MaxClears /\ 0 \in Nat
      BY LuaConstants
    <2>2. lag \in [Client -> 0..MaxLag \cup {Nil}] /\ answer \in [Client -> -1..4 \cup {Nil}]
      BY DEF Lua!Init
    <2>3. accepted \in [Client -> BOOLEAN]
      BY DEF Lua!Init
    <2> QED
      BY <2>1, <2>2, <2>3 DEF Lua!Init, Lua!TypeOK
  <1> QED
    BY <1>1 DEF Lua!Init, LuaInv, DebtIsCovered, KeysTogether

\* A script fails on the keys that a clear leaves.
LEMMA ErrorsFollowClears ==
  ASSUME LuaInv, [Lua!Next]_luaVars, NEW c \in Client,
         answer[c] # Lua!Error, answer'[c] = Lua!Error
  PROVE  IF script = "ratelimit.lua" THEN clearing ELSE clears > 0 /\ age = Nil
  <1>1. answer[c] # -1 /\ answer'[c] = -1
    BY DEF Lua!Error
  <1>2. answer \in [Client -> -1..4 \cup {Nil}] /\ Nil # -1
    BY LuaConstants DEF LuaInv, Lua!TypeOK
  <1>3. PICK d \in Client : Lua!Eval1(d) \/ Lua!Eval2(d)
    <2>1. ASSUME NEW d \in Client PROVE ~ Lua!ReadClock(d)
      <3>1. SUFFICES ASSUME Lua!ReadClock(d) PROVE FALSE
        OBVIOUS
      <3>2. answer' = [answer EXCEPT ![d] = Nil]
        BY <3>1 DEF Lua!ReadClock
      <3> QED
        BY <1>1, <1>2, <3>2
    <2>2. answer' # answer
      BY <1>1
    <2> QED
      BY <2>1, <2>2 DEF Lua!Next, Lua!ClearTokens, Lua!ClearTimestamp, Lua!Tick, luaVars
  <1>4. \/ Fails(d) \/ Refuses(d) \/ Fills(d) \/ TakesStored(d) \/ Computes(d)
    BY <1>3, Evaluates
  <1>5. ASSUME NEW r \in 0..4, Lua!Answer(d, r)
        PROVE  FALSE
    <2>1. r \in -1..4 /\ r # -1
      OBVIOUS
    <2>2. answer' = [answer EXCEPT ![d] = r]
      BY <1>5 DEF Lua!Answer
    <2> QED
      BY <1>1, <1>2, <2>1, <2>2
  <1>6. \A r \in 0..4 : ~ Lua!Answer(d, r)
    BY <1>5
  <1>7. 0 \in 0..4 /\ 1 \in 0..4 /\ {1, 4} \subseteq 0..4 /\ 1..3 \subseteq 0..4
    OBVIOUS
  <1>8. ~ Refuses(d) /\ ~ Fills(d) /\ ~ TakesStored(d)
    BY <1>6, <1>7, Zenon DEF Refuses, Fills, TakesStored
  <1>9. ~ Computes(d)
    <2>1. ASSUME NEW n \in Int PROVE ~ Forgets(d, n) /\ ~ TakesNew(d, n)
      BY <1>6, <1>7, Zenon DEF Forgets, TakesNew
    <2> QED
      BY <2>1, Zenon DEF Computes
  <1>10. ~ (tokens # Nil /\ age # Nil) /\ (IF script = "ratelimit.lua" THEN age # Nil ELSE tokens # Nil)
    BY <1>4, <1>8, <1>9 DEF Fails, Lua!Arithmetic
  <1> QED
    BY <1>10 DEF LuaInv, KeysTogether

-----------------------------------------------------------------------------
(* Steps of LocalRateLimiter                                               *)

LEMMA LocalConstants ==
  /\ IsFiniteSet(Thread) /\ NoThread \notin Thread /\ NoLimiter \notin Limiter
  /\ LocalCapacity \in Nat \ {0} /\ Rate \in Nat \ {0} /\ Second \in Nat \ {0}
  /\ LocalMaxAge \in Nat /\ MaxClears \in Nat
  <1>1. Local!IsFiniteSet(Thread)
    BY RedisAssumption DEF Local!LimiterAssumption
  <1> QED
    BY <1>1, SameCardinality, RedisAssumption DEF Local!LimiterAssumption

LEMMA LocalGoes ==
  ASSUME Local!TypeOK, NEW t \in Thread, NEW from, NEW to \in Local!PCs, Local!Goto(t, from, to)
  PROVE  /\ threadAt' \in [Thread -> Local!PCs] /\ threadAt[t] = from /\ threadAt'[t] = to
         /\ \A u \in Thread \ {t} : threadAt'[u] = threadAt[u]
  BY DEF Local!TypeOK, Local!Goto

\* The numbers of threads at two sets of points.
LEMMA ThreadsAt ==
  ASSUME NEW P, NEW Q
  PROVE  /\ IsFiniteSet(At(P)) /\ Cardinality(At(P)) \in Nat
         /\ IsFiniteSet(Thread) /\ Cardinality(Thread) \in Nat
  <1>1. At(P) \subseteq Thread
    BY DEF At
  <1> QED
    BY <1>1, LocalConstants, FS_Subset, FS_CardinalityType

\* A thread that moves between other points leaves the threads at these as they were.
LEMMA AtStays ==
  ASSUME NEW t \in Thread, NEW P, threadAt[t] \notin P, threadAt'[t] \notin P,
         \A u \in Thread \ {t} : threadAt'[u] = threadAt[u]
  PROVE  At(P)' = At(P)
  BY DEF At

\* Past the map a thread has a limiter, and limiters are neither made nor stored.
PastMap == Local!PCs \ {"idle", "creating", "putting"}

LEMMA PastMapKeeps ==
  ASSUME LocalInv, NEW t \in Thread, threadAt[t] \in PastMap, threadAt'[t] \in PastMap,
         \A u \in Thread \ {t} : threadAt'[u] = threadAt[u],
         UNCHANGED <<limiterMap, limiters, limiterOf>>
  PROVE  EachMakesOne' /\ limiterOf[t] \in Limiter
  <1>1. At({"creating"})' = At({"creating"}) /\ At({"putting"})' = At({"putting"})
    <2>1. /\ threadAt[t] \notin {"creating"} /\ threadAt'[t] \notin {"creating"}
          /\ threadAt[t] \notin {"putting"} /\ threadAt'[t] \notin {"putting"}
      BY DEF PastMap
    <2> QED
      BY <2>1, AtStays
  <1>2. ASSUME NEW u \in Thread, threadAt'[u] \notin {"idle", "creating"}
        PROVE  limiterOf'[u] \in Limiter
    BY <1>2 DEF LocalInv, EachMakesOne, PastMap
  <1>3. limiterOf[t] \in Limiter
    BY DEF LocalInv, EachMakesOne, PastMap
  <1> QED
    BY <1>1, <1>2, <1>3 DEF LocalInv, EachMakesOne

LEMMA GetKeeps ==
  ASSUME LocalInv, NEW t \in Thread, Local!Get(t)
  PROVE  LocalInv'
  <1> DEFINE to == IF limiterMap = NoLimiter THEN "creating" ELSE "withCapacity"
  <1>1. /\ threadAt[t] \in {"idle", "ready"}
        /\ limiterOf' = [limiterOf EXCEPT ![t] = limiterMap]
        /\ threadAt' = [threadAt EXCEPT ![t] = to]
        /\ UNCHANGED <<limiterMap, limiters, capacityOf, rateOf, tokensOf, ageOf, ownerOf, lastOf,
                       localClears, localGranted>>
    BY DEF Local!Get, Local!fields
  <1>2. /\ threadAt' \in [Thread -> Local!PCs] /\ threadAt'[t] = to
        /\ \A u \in Thread \ {t} : threadAt'[u] = threadAt[u]
    <2>1. to \in Local!PCs
      BY DEF Local!PCs
    <2> HIDE DEF to
    <2> QED
      BY <1>1, <2>1 DEF LocalInv, Local!TypeOK
  <1>3. /\ limiterOf' \in [Thread -> Limiter \cup {NoLimiter}] /\ limiterOf'[t] = limiterMap
        /\ \A u \in Thread \ {t} : limiterOf'[u] = limiterOf[u]
    BY <1>1 DEF LocalInv, Local!TypeOK
  <1>4. Local!TypeOK'
    BY <1>1, <1>2, <1>3 DEF LocalInv, Local!TypeOK
  <1>5. ASSUME NEW u \in Thread, threadAt'[u] \notin {"idle", "creating"}
        PROVE  limiterOf'[u] \in Limiter
    <2>1. CASE u = t
      BY <1>2, <1>3, <1>5, <2>1 DEF LocalInv, Local!TypeOK
    <2>2. CASE u # t
      BY <1>2, <1>3, <1>5, <2>2 DEF LocalInv, EachMakesOne
    <2> QED
      BY <2>1, <2>2
  <1>6. At({"putting"})' = At({"putting"})
    <2>1. threadAt[t] \notin {"putting"} /\ threadAt'[t] \notin {"putting"}
      BY <1>1, <1>2
    <2> QED
      BY <1>2, <2>1, AtStays
  <1>7. IsFiniteSet(limiters) /\ Cardinality(limiters) \in Nat
    BY FS_CardinalityType DEF LocalInv, EachMakesOne
  <1>8. Cardinality(limiters) + Cardinality(At({"creating"})') <= Cardinality(Thread)
    <2>1. CASE limiterMap = NoLimiter
      <3>1. At({"creating"})' = At({"creating"}) \cup {t}
        BY <1>2, <2>1 DEF At
      <3>2. At({"putting"}) \cap At({"creating"})' = {} /\ At({"creating"})' \subseteq Thread
            /\ At({"putting"}) \subseteq Thread
        BY <1>1, <3>1 DEF At
      <3>3. /\ IsFiniteSet(At({"creating"})') /\ Cardinality(At({"creating"})') \in Nat
            /\ IsFiniteSet(At({"putting"})) /\ Cardinality(At({"putting"})) \in Nat
            /\ Cardinality(Thread) \in Nat
        BY <3>2, LocalConstants, FS_Subset, FS_CardinalityType
      <3>4. Cardinality(At({"putting"}) \cup At({"creating"})') =
              Cardinality(At({"putting"})) + Cardinality(At({"creating"})') - Cardinality({})
        BY <3>2, <3>3, FS_Union
      <3>5. Cardinality(At({"putting"}) \cup At({"creating"})') <= Cardinality(Thread)
        <4>1. At({"putting"}) \cup At({"creating"})' \subseteq Thread
          BY <3>2
        <4> QED
          BY <4>1, LocalConstants, FS_Subset
      <3>6. Cardinality(limiters) <= Cardinality(At({"putting"}))
        BY <2>1 DEF LocalInv, EachMakesOne
      <3>7. Cardinality(At({"putting"})) + Cardinality(At({"creating"})') <= Cardinality(Thread)
        BY <3>3, <3>4, <3>5, FS_EmptySet
      <3> QED
        BY <1>7, <3>3, <3>6, <3>7
    <2>2. CASE limiterMap # NoLimiter
      <3>1. threadAt[t] \notin {"creating"} /\ threadAt'[t] \notin {"creating"}
        BY <1>1, <1>2, <2>2
      <3>2. At({"creating"})' = At({"creating"})
        BY <1>2, <3>1, AtStays
      <3> QED
        BY <3>2 DEF LocalInv, EachMakesOne
    <2> QED
      BY <2>1, <2>2
  <1>9. EachMakesOne'
    BY <1>1, <1>5, <1>6, <1>7, <1>8 DEF LocalInv, EachMakesOne
  <1> QED
    BY <1>4, <1>9 DEF LocalInv

LEMMA CreateKeeps ==
  ASSUME LocalInv, NEW t \in Thread, Local!Create(t)
  PROVE  LocalInv'
  <1>1. PICK l \in Limiter \ limiters :
          /\ Local!Goto(t, "creating", "putting")
          /\ limiters' = limiters \cup {l}
          /\ limiterOf' = [limiterOf EXCEPT ![t] = l]
          /\ ageOf' = [ageOf EXCEPT ![l] = 0]
          /\ UNCHANGED <<limiterMap, capacityOf, rateOf, tokensOf, ownerOf, lastOf, localClears,
                         localGranted>>
    <2>1. (CHOOSE l \in Limiter \ limiters : TRUE) \in Limiter \ limiters
      BY DEF Local!Create, LocalInv, Local!TypeOK
    <2> QED
      BY <2>1 DEF Local!Create
  <1>2. /\ threadAt' \in [Thread -> Local!PCs] /\ threadAt[t] = "creating" /\ threadAt'[t] = "putting"
        /\ \A u \in Thread \ {t} : threadAt'[u] = threadAt[u]
    <2>1. "putting" \in Local!PCs
      BY DEF Local!PCs
    <2> QED
      BY <1>1, <2>1, LocalGoes DEF LocalInv
  <1>3. /\ limiterOf' \in [Thread -> Limiter \cup {NoLimiter}] /\ limiterOf'[t] = l
        /\ \A u \in Thread \ {t} : limiterOf'[u] = limiterOf[u]
    BY <1>1 DEF LocalInv, Local!TypeOK
  <1>4. Local!TypeOK'
    <2>1. ageOf' \in [Limiter -> 0..LocalMaxAge]
      BY <1>1, LocalConstants DEF LocalInv, Local!TypeOK
    <2> QED
      BY <1>1, <1>2, <1>3, <2>1 DEF LocalInv, Local!TypeOK
  <1>5. ASSUME NEW u \in Thread, threadAt'[u] \notin {"idle", "creating"}
        PROVE  limiterOf'[u] \in Limiter
    <2>1. CASE u = t
      BY <1>3, <2>1
    <2>2. CASE u # t
      BY <1>2, <1>3, <1>5, <2>2 DEF LocalInv, EachMakesOne
    <2> QED
      BY <2>1, <2>2
  <1>6. /\ IsFiniteSet(limiters) /\ Cardinality(limiters) \in Nat
        /\ IsFiniteSet(limiters') /\ Cardinality(limiters') = Cardinality(limiters) + 1
    BY <1>1, FS_CardinalityType, FS_AddElement DEF LocalInv, EachMakesOne
  <1>7. At({"creating"})' = At({"creating"}) \ {t} /\ t \in At({"creating"})
        /\ At({"putting"})' = At({"putting"}) \cup {t} /\ t \notin At({"putting"})
    BY <1>2 DEF At
  <1>8. /\ Cardinality(At({"creating"})') = Cardinality(At({"creating"})) - 1
        /\ Cardinality(At({"putting"})') = Cardinality(At({"putting"})) + 1
        /\ Cardinality(At({"creating"})) \in Nat /\ Cardinality(At({"putting"})) \in Nat
        /\ Cardinality(Thread) \in Nat
    <2>1. /\ IsFiniteSet(At({"creating"})) /\ IsFiniteSet(At({"putting"}))
          /\ Cardinality(At({"creating"})) \in Nat /\ Cardinality(At({"putting"})) \in Nat
          /\ Cardinality(Thread) \in Nat
      BY ThreadsAt
    <2>2. Cardinality(At({"creating"}) \ {t}) = Cardinality(At({"creating"})) - 1
      BY <1>7, <2>1, FS_RemoveElement
    <2>3. Cardinality(At({"putting"}) \cup {t}) = Cardinality(At({"putting"})) + 1
      BY <1>7, <2>1, FS_AddElement
    <2> QED
      BY <1>7, <2>1, <2>2, <2>3
  <1>9. /\ Cardinality(limiters') + Cardinality(At({"creating"})') <= Cardinality(Thread)
        /\ limiterMap' = NoLimiter => Cardinality(limiters') <= Cardinality(At({"putting"})')
    BY <1>1, <1>6, <1>8 DEF LocalInv, EachMakesOne
  <1>10. EachMakesOne'
    BY <1>5, <1>6, <1>9 DEF EachMakesOne
  <1> QED
    BY <1>4, <1>10 DEF LocalInv

LEMMA PutKeeps ==
  ASSUME LocalInv, NEW t \in Thread, Local!Put(t)
  PROVE  LocalInv'
  <1>1. /\ Local!Goto(t, "putting", "withCapacity") /\ limiterMap' = limiterOf[t]
        /\ UNCHANGED <<limiters, capacityOf, rateOf, tokensOf, ageOf, ownerOf, limiterOf, lastOf,
                       localClears, localGranted>>
    BY DEF Local!Put, Local!Stored, Local!fields
  <1>2. /\ threadAt' \in [Thread -> Local!PCs]
        /\ threadAt[t] = "putting" /\ threadAt'[t] = "withCapacity"
        /\ \A u \in Thread \ {t} : threadAt'[u] = threadAt[u]
    <2>1. "withCapacity" \in Local!PCs
      BY DEF Local!PCs
    <2> QED
      BY <1>1, <2>1, LocalGoes DEF LocalInv
  <1>3. limiterOf[t] \in Limiter
    BY <1>2 DEF LocalInv, EachMakesOne
  <1>4. Local!TypeOK'
    BY <1>1, <1>2, <1>3 DEF LocalInv, Local!TypeOK
  <1>5. At({"creating"})' = At({"creating"})
    <2>1. threadAt[t] \notin {"creating"} /\ threadAt'[t] \notin {"creating"}
      BY <1>2
    <2> QED
      BY <1>2, <2>1, AtStays
  <1>6. ASSUME NEW u \in Thread, threadAt'[u] \notin {"idle", "creating"}
        PROVE  limiterOf'[u] \in Limiter
    BY <1>1, <1>2, <1>3, <1>6 DEF LocalInv, EachMakesOne
  <1>7. limiterMap' # NoLimiter
    BY <1>1, <1>3, LocalConstants
  <1>8. EachMakesOne'
    BY <1>1, <1>5, <1>6, <1>7 DEF LocalInv, EachMakesOne
  <1> QED
    BY <1>4, <1>8 DEF LocalInv

\* A field of a limiter is set.
LEMMA FieldSet ==
  ASSUME NEW S, NEW f \in [Limiter -> S], NEW l \in Limiter, NEW x \in S
  PROVE  [f EXCEPT ![l] = x] \in [Limiter -> S]
  OBVIOUS

LEMMA LastSet ==
  ASSUME Local!TypeOK, NEW t \in Thread, NEW x \in Local!Ends
  PROVE  [lastOf EXCEPT ![t] = x] \in [Thread -> Local!Ends]
  BY DEF Local!TypeOK

LEMMA CappedIs ==
  ASSUME LocalInv, NEW l \in Limiter
  PROVE  Local!Capped(l) \in 0..LocalCapacity
  <1>1. /\ tokensOf[l] \in 0..LocalCapacity /\ ageOf[l] \in Nat /\ rateOf[l] \in Nat
        /\ capacityOf[l] \in 0..LocalCapacity /\ Second \in Nat \ {0} /\ LocalCapacity \in Nat
    BY LocalConstants DEF LocalInv, Local!TypeOK
  <1>2. ASSUME NEW a \in Nat, NEW n \in Nat \ {0} PROVE a \div n \in Nat
    OBVIOUS
  <1>3. ASSUME NEW m \in Nat, NEW n \in Nat PROVE m * n \in Nat
    OBVIOUS
  <1>4. (ageOf[l] \div Second) * rateOf[l] \in Nat
    <2>1. ageOf[l] \div Second \in Nat
      BY <1>1, <1>2
    <2> QED
      BY <1>1, <1>3, <2>1
  <1>5. Local!Refilled(l) \in Nat
    BY <1>1, <1>4 DEF Local!Refilled
  <1> QED
    BY <1>1, <1>5 DEF Local!Capped

\* The steps past the map.
LEMMA WithKeeps ==
  ASSUME LocalInv, NEW t \in Thread, Local!WithCapacity(t) \/ Local!WithRate(t)
  PROVE  LocalInv'
  <1>1. CASE Local!WithCapacity(t)
    <2>1. /\ Local!Goto(t, "withCapacity", "withRate")
          /\ capacityOf' = [capacityOf EXCEPT ![limiterOf[t]] = LocalCapacity]
          /\ UNCHANGED <<limiterMap, limiters, rateOf, tokensOf, ageOf, ownerOf, limiterOf, lastOf,
                         localClears, localGranted>>
      BY <1>1 DEF Local!WithCapacity
    <2>2. /\ threadAt' \in [Thread -> Local!PCs] /\ threadAt[t] \in PastMap /\ threadAt'[t] \in PastMap
          /\ \A u \in Thread \ {t} : threadAt'[u] = threadAt[u]
      <3>1. {"withCapacity", "withRate"} \subseteq PastMap /\ "withRate" \in Local!PCs
        BY DEF Local!PCs, PastMap
      <3> QED
        BY <2>1, <3>1, LocalGoes DEF LocalInv
    <2>3. EachMakesOne' /\ limiterOf[t] \in Limiter
      BY <2>1, <2>2, PastMapKeeps
    <2>4. capacityOf' \in [Limiter -> {0, LocalCapacity}]
      BY <2>1, <2>3 DEF LocalInv, Local!TypeOK
    <2> QED
      BY <2>1, <2>2, <2>3, <2>4 DEF LocalInv, Local!TypeOK
  <1>2. CASE Local!WithRate(t)
    <2>1. /\ Local!Goto(t, "withRate", "ready")
          /\ rateOf' = [rateOf EXCEPT ![limiterOf[t]] = Rate]
          /\ UNCHANGED <<limiterMap, limiters, capacityOf, tokensOf, ageOf, ownerOf, limiterOf, lastOf,
                         localClears, localGranted>>
      BY <1>2 DEF Local!WithRate
    <2>2. /\ threadAt' \in [Thread -> Local!PCs] /\ threadAt[t] \in PastMap /\ threadAt'[t] \in PastMap
          /\ \A u \in Thread \ {t} : threadAt'[u] = threadAt[u]
      <3>1. {"ready", "withRate"} \subseteq PastMap /\ "ready" \in Local!PCs
        BY DEF Local!PCs, PastMap
      <3> QED
        BY <2>1, <3>1, LocalGoes DEF LocalInv
    <2>3. EachMakesOne' /\ limiterOf[t] \in Limiter
      BY <2>1, <2>2, PastMapKeeps
    <2>4. rateOf' \in [Limiter -> {0, Rate}]
      BY <2>1, <2>3 DEF LocalInv, Local!TypeOK
    <2> QED
      BY <2>1, <2>2, <2>3, <2>4 DEF LocalInv, Local!TypeOK
  <1> QED
    BY <1>1, <1>2

LEMMA CallsKeep ==
  ASSUME LocalInv, NEW t \in Thread, Local!ApplyToken(t) \/ Local!Clear(t) \/ Local!GiveUp(t)
  PROVE  LocalInv'
  <1>1. PICK from \in {"ready", "tryLock", "tryLockToClear"},
             to \in {"ready", "tryLock", "tryLockToClear"}, end \in {"none", "IllegalMonitorState"} :
          /\ Local!Goto(t, from, to)
          /\ lastOf' = [lastOf EXCEPT ![t] = end]
          /\ UNCHANGED <<limiterMap, limiters, capacityOf, rateOf, tokensOf, ageOf, ownerOf, limiterOf,
                         localGranted>>
    <2>1. CASE Local!ApplyToken(t) \/ Local!Clear(t)
      BY <2>1 DEF Local!ApplyToken, Local!Clear, Local!fields
    <2>2. CASE Local!GiveUp(t)
      BY <2>2 DEF Local!GiveUp, Local!Goto, Local!fields
    <2> QED
      BY <2>1, <2>2
  <1>2. localClears' \in 0..MaxClears
    BY LocalConstants DEF Local!ApplyToken, Local!Clear, Local!GiveUp, LocalInv, Local!TypeOK
  <1>3. /\ threadAt' \in [Thread -> Local!PCs] /\ threadAt[t] \in PastMap /\ threadAt'[t] \in PastMap
        /\ \A u \in Thread \ {t} : threadAt'[u] = threadAt[u]
    <2>1. from \in PastMap /\ to \in PastMap /\ to \in Local!PCs
      BY DEF Local!PCs, PastMap
    <2> QED
      BY <1>1, <2>1, LocalGoes DEF LocalInv
  <1>4. EachMakesOne'
    BY <1>1, <1>3, PastMapKeeps
  <1>5. lastOf' \in [Thread -> Local!Ends]
    <2>1. end \in Local!Ends
      BY DEF Local!Ends
    <2> QED
      BY <1>1, <2>1, LastSet DEF LocalInv
  <1> QED
    BY <1>1, <1>2, <1>3, <1>4, <1>5 DEF LocalInv, Local!TypeOK

LEMMA LocksKeep ==
  ASSUME LocalInv, NEW t \in Thread, Local!TryLock(t) \/ Local!Unlock(t)
  PROVE  LocalInv'
  <1>1. PICK from \in {"tryLock", "tryLockToClear", "unlock"},
             to \in {"locked", "lockedToClear", "ready"}, holder \in Thread \cup {NoThread} :
          /\ Local!Goto(t, from, to)
          /\ ownerOf' = [ownerOf EXCEPT ![limiterOf[t]] = holder]
          /\ UNCHANGED <<limiterMap, limiters, capacityOf, rateOf, tokensOf, ageOf, limiterOf, lastOf,
                         localClears, localGranted>>
    BY DEF Local!TryLock, Local!Unlock, Local!fields
  <1>2. /\ threadAt' \in [Thread -> Local!PCs] /\ threadAt[t] \in PastMap /\ threadAt'[t] \in PastMap
        /\ \A u \in Thread \ {t} : threadAt'[u] = threadAt[u]
    <2>1. from \in PastMap /\ to \in PastMap /\ to \in Local!PCs
      BY DEF Local!PCs, PastMap
    <2> QED
      BY <1>1, <2>1, LocalGoes DEF LocalInv
  <1>3. EachMakesOne' /\ limiterOf[t] \in Limiter
    BY <1>1, <1>2, PastMapKeeps
  <1>4. ownerOf' \in [Limiter -> Thread \cup {NoThread}]
    BY <1>1, <1>3, FieldSet DEF LocalInv, Local!TypeOK
  <1> QED
    BY <1>1, <1>2, <1>3, <1>4 DEF LocalInv, Local!TypeOK

LEMMA ComputesKeep ==
  ASSUME LocalInv, NEW t \in Thread, Local!Compute(t) \/ Local!ComputeClear(t)
  PROVE  LocalInv'
  <1>1. PICK from \in {"locked", "lockedToClear"} : Local!Goto(t, from, "unlock")
    BY DEF Local!Compute, Local!ComputeClear
  <1>2. UNCHANGED <<limiterMap, limiters, capacityOf, rateOf, ownerOf, limiterOf, localClears>>
    BY DEF Local!Compute, Local!ComputeClear
  <1>3. /\ threadAt' \in [Thread -> Local!PCs] /\ threadAt[t] \in PastMap /\ threadAt'[t] \in PastMap
        /\ \A u \in Thread \ {t} : threadAt'[u] = threadAt[u]
    <2>1. from \in PastMap /\ "unlock" \in PastMap /\ "unlock" \in Local!PCs
      BY DEF Local!PCs, PastMap
    <2> QED
      BY <1>1, <2>1, LocalGoes DEF LocalInv
  <1>4. EachMakesOne' /\ limiterOf[t] \in Limiter
    BY <1>2, <1>3, PastMapKeeps
  <1> DEFINE l == limiterOf[t]
             n == Local!Capped(l)
  <1>5. /\ n \in 0..LocalCapacity /\ n \in Int
        /\ tokensOf \in [Limiter -> 0..LocalCapacity] /\ ageOf \in [Limiter -> 0..LocalMaxAge]
        /\ 0 \in 0..LocalMaxAge /\ 0 \in 0..LocalCapacity
        /\ localGranted \in Nat /\ localGranted + 1 \in Nat
    BY <1>4, CappedIs, LocalConstants DEF LocalInv, Local!TypeOK
  <1>6. {"refused", "granted", "cleared"} \subseteq Local!Ends
    BY DEF Local!Ends
  <1>7. /\ tokensOf' \in [Limiter -> 0..LocalCapacity] /\ ageOf' \in [Limiter -> 0..LocalMaxAge]
        /\ lastOf' \in [Thread -> Local!Ends] /\ localGranted' \in Nat
    <2>1. CASE /\ n < 1
               /\ tokensOf' = [tokensOf EXCEPT ![l] = n] /\ UNCHANGED ageOf
               /\ lastOf' = [lastOf EXCEPT ![t] = "refused"]
               /\ UNCHANGED localGranted
      <3> HIDE DEF n
      <3> QED
        BY <1>4, <1>5, <1>6, <2>1, FieldSet, LastSet DEF LocalInv
    <2>2. CASE /\ n >= 1
               /\ tokensOf' = [tokensOf EXCEPT ![l] = n - 1]
               /\ ageOf' = [ageOf EXCEPT ![l] = 0]
               /\ lastOf' = [lastOf EXCEPT ![t] = "granted"]
               /\ localGranted' = localGranted + 1
      <3>1. n - 1 \in 0..LocalCapacity
        BY <1>5, <2>2, LocalConstants
      <3> HIDE DEF n
      <3> QED
        BY <1>4, <1>5, <1>6, <2>2, <3>1, FieldSet, LastSet DEF LocalInv
    <2>3. CASE /\ tokensOf' = [tokensOf EXCEPT ![l] = 0]
               /\ ageOf' = [ageOf EXCEPT ![l] = 0]
               /\ lastOf' = [lastOf EXCEPT ![t] = "cleared"]
               /\ UNCHANGED localGranted
      BY <1>4, <1>5, <1>6, <2>3, FieldSet, LastSet DEF LocalInv
    <2> QED
      BY <2>1, <2>2, <2>3 DEF Local!Compute, Local!StampRefused, Local!ComputeClear
  <1> QED
    BY <1>2, <1>3, <1>4, <1>7 DEF LocalInv, Local!TypeOK

LEMMA LocalTickKeeps ==
  ASSUME LocalInv, Local!Tick
  PROVE  LocalInv'
  <1>1. /\ ageOf' = [l \in Limiter |->
                       IF l \in limiters /\ ageOf[l] < LocalMaxAge THEN ageOf[l] + 1 ELSE ageOf[l]]
        /\ localGranted' = 0
        /\ UNCHANGED <<limiterMap, limiters, capacityOf, rateOf, tokensOf, ownerOf, threadAt, limiterOf,
                       lastOf, localClears>>
    BY DEF Local!Tick
  <1>2. ageOf' \in [Limiter -> 0..LocalMaxAge]
    BY <1>1, LocalConstants DEF LocalInv, Local!TypeOK
  <1>3. Local!TypeOK'
    BY <1>1, <1>2 DEF LocalInv, Local!TypeOK
  <1>4. EachMakesOne'
    BY <1>1 DEF LocalInv, EachMakesOne, At
  <1> QED
    BY <1>3, <1>4 DEF LocalInv

LEMMA LocalStep == LocalInv /\ [Local!Next]_localVars => LocalInv'
  <1> SUFFICES ASSUME LocalInv, [Local!Next]_localVars PROVE LocalInv'
    OBVIOUS
  <1>1. CASE Local!Next
    <2>1. ASSUME NEW t \in Thread,
                 \/ Local!Get(t) \/ Local!Create(t) \/ Local!Put(t)
                 \/ Local!WithCapacity(t) \/ Local!WithRate(t)
                 \/ Local!ApplyToken(t) \/ Local!Clear(t) \/ Local!TryLock(t) \/ Local!GiveUp(t)
                 \/ Local!Compute(t) \/ Local!ComputeClear(t) \/ Local!Unlock(t)
          PROVE  LocalInv'
      BY <2>1, GetKeeps, CreateKeeps, PutKeeps, WithKeeps, CallsKeep, LocksKeep, ComputesKeep
    <2> QED
      BY <1>1, <2>1, LocalTickKeeps, Zenon DEF Local!Next
  <1>2. CASE UNCHANGED localVars
    BY <1>2 DEF localVars, LocalInv, Local!TypeOK, EachMakesOne, At
  <1> QED
    BY <1>1, <1>2

LEMMA LocalBegins == Local!Init => LocalInv
  <1> SUFFICES ASSUME Local!Init PROVE LocalInv
    OBVIOUS
  <1>1. Local!TypeOK
    BY LocalConstants DEF Local!Init, Local!TypeOK, Local!PCs, Local!Ends
  <1>2. At({"creating"}) = {} /\ At({"putting"}) = {} /\ limiters = {}
    BY DEF Local!Init, At
  <1>3. Cardinality({}) = 0 /\ IsFiniteSet({}) /\ Cardinality(Thread) \in Nat
    BY FS_EmptySet, FS_CardinalityType, LocalConstants
  <1>4. EachMakesOne
    BY <1>2, <1>3 DEF EachMakesOne, Local!Init
  <1> QED
    BY <1>1, <1>4 DEF LocalInv

-----------------------------------------------------------------------------
(* Sums over finite sets                                                   *)

\* A set of numbers that has 0 and, with a number, the next one has all of them: the
\* least number it lacks would be one more than a number it has.
LEMMA Induction ==
  ASSUME NEW T, 0 \in T, \A n \in Nat : n \in T => n + 1 \in T
  PROVE  Nat \subseteq T
  <1> DEFINE R == OpToRel(<, Nat)
             rest == Nat \ T
  <1>1. SUFFICES ASSUME rest # {} PROVE FALSE
    OBVIOUS
  <1>2. IsWellFoundedOn(R, Nat)
    BY NatLessThanWellFounded
  <1>3. \A x, y \in Nat : y < x => <<y, x>> \in R
    BY Zenon DEF OpToRel
  <1> HIDE DEF R
  <1>4. PICK x \in rest : \A y \in rest : ~ (<<y, x>> \in R)
    <2>1. rest \subseteq Nat
      OBVIOUS
    <2> HIDE DEF rest
    <2> QED
      BY <1>1, <1>2, <2>1, WFMin
  <1>5. x \in Nat /\ x # 0
    OBVIOUS
  <1>6. x - 1 \in Nat /\ x - 1 < x /\ (x - 1) + 1 = x
    BY <1>5
  <1>7. x - 1 \in rest
    BY <1>4, <1>6
  <1> QED
    BY <1>3, <1>4, <1>5, <1>6, <1>7

\* The same for the subsets of a finite set, by their size.
LEMMA SubsetInduction ==
  ASSUME NEW S, IsFiniteSet(S), NEW T,
         \A s \in SUBSET S :
           (\A t \in SUBSET s : Cardinality(t) < Cardinality(s) => t \in T) => s \in T
  PROVE  SUBSET S \subseteq T
  <1> DEFINE sizes == {n \in Nat : \A s \in SUBSET S : Cardinality(s) < n => s \in T}
  <1>1. \A s \in SUBSET S : IsFiniteSet(s) /\ Cardinality(s) \in Nat
    BY FS_Subset, FS_CardinalityType
  <1>2. 0 \in sizes
    BY <1>1
  <1>3. ASSUME NEW n \in Nat, n \in sizes PROVE n + 1 \in sizes
    <2>1. ASSUME NEW s \in SUBSET S, Cardinality(s) < n + 1 PROVE s \in T
      <3>1. ASSUME NEW t \in SUBSET s, Cardinality(t) < Cardinality(s) PROVE t \in T
        <4>1. t \in SUBSET S /\ Cardinality(t) < n
          BY <1>1, <2>1, <3>1
        <4> QED
          BY <1>3, <4>1
      <3> QED
        BY <3>1
    <2> QED
      BY <2>1
  <1> HIDE DEF sizes
  <1>4. Nat \subseteq sizes
    BY <1>2, <1>3, Induction
  <1>5. ASSUME NEW s \in SUBSET S PROVE s \in T
    <2>1. Cardinality(s) + 1 \in sizes /\ Cardinality(s) < Cardinality(s) + 1
      BY <1>1, <1>4
    <2> QED
      BY <2>1 DEF sizes
  <1> QED
    BY <1>5

\* A sum over a finite set of numbers, one element after the other.
Pick(s) == CHOOSE x \in s : TRUE
SumsUp(g, f, S) ==
  g = [s \in SUBSET S |-> IF s = {} THEN 0 ELSE f[Pick(s)] + g[s \ {Pick(s)}]]
Sums(f, S) == CHOOSE g : SumsUp(g, f, S)
Total(f, S) == Sums(f, S)[S]

LEMMA PickIs ==
  ASSUME NEW s, s # {}
  PROVE  /\ Pick(s) \in s
         /\ IsFiniteSet(s) => Cardinality(s \ {Pick(s)}) = Cardinality(s) - 1
  BY FS_RemoveElement DEF Pick

LEMMA SumsExist ==
  ASSUME NEW S, IsFiniteSet(S), NEW f \in [S -> Nat]
  PROVE  \E g \in [SUBSET S -> Nat] : SumsUp(g, f, S)
  <1> DEFINE Small(n) == {s \in SUBSET S : Cardinality(s) <= n}
             Right(g, n) == \A s \in Small(n) :
                              g[s] = IF s = {} THEN 0 ELSE f[Pick(s)] + g[s \ {Pick(s)}]
             sizes == {n \in Nat : \E g \in [Small(n) -> Nat] : Right(g, n)}
  <1>1. \A s \in SUBSET S : IsFiniteSet(s) /\ Cardinality(s) \in Nat
    BY FS_Subset, FS_CardinalityType
  <1>2. \A s \in SUBSET S : s # {} => /\ Pick(s) \in S /\ s \ {Pick(s)} \in SUBSET S
                                      /\ Cardinality(s \ {Pick(s)}) = Cardinality(s) - 1
    BY <1>1, PickIs
  <1>3. 0 \in sizes
    <2> DEFINE g == [s \in Small(0) |-> 0]
    <2>1. \A s \in Small(0) : s = {}
      BY <1>1, FS_EmptySet
    <2>2. g \in [Small(0) -> Nat] /\ Right(g, 0)
      BY <2>1
    <2> QED
      BY <2>2
  <1>4. ASSUME NEW n \in Nat, n \in sizes PROVE n + 1 \in sizes
    <2>1. PICK g \in [Small(n) -> Nat] : Right(g, n)
      BY <1>4
    <2> DEFINE h == [s \in Small(n + 1) |->
                       IF s = {} THEN 0 ELSE f[Pick(s)] + g[s \ {Pick(s)}]]
    <2>2. \A s \in Small(n + 1) : s # {} => Pick(s) \in S /\ s \ {Pick(s)} \in Small(n)
      BY <1>1, <1>2
    <2>3. Small(n) \subseteq Small(n + 1)
      BY <1>1
    <2>4. h \in [Small(n + 1) -> Nat]
      BY <2>2
    <2>5. \A s \in Small(n) : h[s] = g[s]
      BY <2>1, <2>3
    <2>6. Right(h, n + 1)
      <3>1. ASSUME NEW s \in Small(n + 1), s # {}
            PROVE  h[s] = f[Pick(s)] + h[s \ {Pick(s)}]
        <4>1. h[s \ {Pick(s)}] = g[s \ {Pick(s)}]
          BY <2>2, <2>5, <3>1
        <4> QED
          BY <3>1, <4>1
      <3> QED
        BY <3>1
    <2> HIDE DEF h, Small, Right
    <2> QED
      BY <2>4, <2>6
  <1>5. Cardinality(S) \in sizes
    <2> HIDE DEF sizes
    <2> QED
      BY <1>1, <1>3, <1>4, Induction
  <1>6. PICK g \in [Small(Cardinality(S)) -> Nat] : Right(g, Cardinality(S))
    BY <1>5
  <1>7. Small(Cardinality(S)) = SUBSET S
    BY <1>1, FS_Subset
  <1> QED
    <2>1. g \in [SUBSET S -> Nat] /\ SumsUp(g, f, S)
      BY <1>6, <1>7 DEF SumsUp
    <2> QED
      BY <2>1

LEMMA SumsIs ==
  ASSUME NEW S, IsFiniteSet(S), NEW f \in [S -> Nat]
  PROVE  /\ Sums(f, S) \in [SUBSET S -> Nat]
         /\ Sums(f, S)[{}] = 0
         /\ \A s \in SUBSET S : s # {} =>
              Sums(f, S)[s] = f[Pick(s)] + Sums(f, S)[s \ {Pick(s)}]
  <1> DEFINE G == Sums(f, S)
             T == {s \in SUBSET S : G[s] \in Nat}
  <1>1. G = [s \in SUBSET S |-> IF s = {} THEN 0 ELSE f[Pick(s)] + G[s \ {Pick(s)}]]
    <2>1. SumsUp(G, f, S)
      BY SumsExist, Zenon DEF Sums
    <2> QED
      BY <2>1 DEF SumsUp
  <1> HIDE DEF G
  <1>2. /\ G[{}] = 0
        /\ \A s \in SUBSET S : s # {} => G[s] = f[Pick(s)] + G[s \ {Pick(s)}]
    BY <1>1
  <1>3. ASSUME NEW s \in SUBSET S,
               \A t \in SUBSET s : Cardinality(t) < Cardinality(s) => t \in T
        PROVE  s \in T
    <2>1. CASE s = {}
      BY <1>2, <2>1
    <2>2. CASE s # {}
      <3>1. /\ Pick(s) \in S /\ s \ {Pick(s)} \in SUBSET s /\ Cardinality(s) \in Nat
            /\ Cardinality(s \ {Pick(s)}) = Cardinality(s) - 1
        BY <2>2, PickIs, FS_Subset, FS_CardinalityType
      <3>2. G[s \ {Pick(s)}] \in Nat /\ f[Pick(s)] \in Nat
        BY <1>3, <3>1
      <3> QED
        BY <1>2, <2>2, <3>2
    <2> QED
      BY <2>1, <2>2
  <1>4. SUBSET S \subseteq T
    <2> HIDE DEF T
    <2> QED
      BY <1>3, SubsetInduction
  <1>5. G \in [SUBSET S -> Nat]
    BY <1>1, <1>4
  <1> QED
    BY <1>2, <1>5 DEF G

\* Whichever element is taken out first, the sum is the same.
LEMMA SumsRemove ==
  ASSUME NEW S, IsFiniteSet(S), NEW f \in [S -> Nat]
  PROVE  \A s \in SUBSET S : \A x \in s : Sums(f, S)[s] = f[x] + Sums(f, S)[s \ {x}]
  <1> DEFINE G == Sums(f, S)
             T == {s \in SUBSET S : \A x \in s : G[s] = f[x] + G[s \ {x}]}
  <1>1. /\ G \in [SUBSET S -> Nat]
        /\ \A s \in SUBSET S : s # {} => G[s] = f[Pick(s)] + G[s \ {Pick(s)}]
    BY SumsIs
  <1> HIDE DEF G
  <1>2. ASSUME NEW s \in SUBSET S,
               \A t \in SUBSET s : Cardinality(t) < Cardinality(s) => t \in T
        PROVE  s \in T
    <2>1. ASSUME NEW x \in s, x # Pick(s) PROVE G[s] = f[x] + G[s \ {x}]
      <3> DEFINE y == Pick(s)
                 both == (s \ {x}) \ {y}
      <3>1. y \in s /\ IsFiniteSet(s) /\ Cardinality(s) \in Nat
        BY PickIs, FS_Subset, FS_CardinalityType
      <3>2. Cardinality(s \ {x}) = Cardinality(s) - 1 /\ Cardinality(s \ {y}) = Cardinality(s) - 1
        BY <3>1, FS_RemoveElement
      <3>3. s \ {x} \in T /\ s \ {y} \in T
        <4>1. /\ s \ {x} \in SUBSET s /\ Cardinality(s \ {x}) < Cardinality(s)
              /\ s \ {y} \in SUBSET s /\ Cardinality(s \ {y}) < Cardinality(s)
          BY <3>1, <3>2
        <4> HIDE DEF T, y
        <4> QED
          BY <1>2, <4>1
      <3>4. y \in s \ {x} /\ x \in s \ {y} /\ (s \ {y}) \ {x} = both
        BY <2>1, <3>1
      <3>5. G[s \ {x}] = f[y] + G[both] /\ G[s \ {y}] = f[x] + G[both]
        BY <3>3, <3>4
      <3>6. G[s] = f[y] + G[s \ {y}]
        BY <1>1, <3>1
      <3>7. f[x] \in Nat /\ f[y] \in Nat /\ G[both] \in Nat
        BY <1>1, <3>1
      <3> HIDE DEF y, both
      <3> QED
        BY <3>5, <3>6, <3>7
    <2>2. \A x \in s : G[s] = f[x] + G[s \ {x}]
      BY <1>1, <2>1
    <2> QED
      BY <2>2
  <1>3. SUBSET S \subseteq T
    <2> HIDE DEF T
    <2> QED
      BY <1>2, SubsetInduction
  <1> QED
    BY <1>3 DEF G

\* What a sum is depends on the elements of the set only.
LEMMA SumsAgree ==
  ASSUME NEW S, IsFiniteSet(S), NEW f \in [S -> Nat],
         NEW Q \in SUBSET S, NEW h \in [Q -> Nat], \A x \in Q : f[x] = h[x]
  PROVE  \A s \in SUBSET Q : Sums(f, S)[s] = Sums(h, Q)[s]
  <1> DEFINE G == Sums(f, S)
             H == Sums(h, Q)
             T == {s \in SUBSET Q : G[s] = H[s]}
  <1>1. IsFiniteSet(Q)
    BY FS_Subset
  <1>2. /\ G[{}] = 0 /\ H[{}] = 0
        /\ \A s \in SUBSET Q : s # {} => /\ G[s] = f[Pick(s)] + G[s \ {Pick(s)}]
                                         /\ H[s] = h[Pick(s)] + H[s \ {Pick(s)}]
    BY <1>1, SumsIs
  <1> HIDE DEF G, H
  <1>3. ASSUME NEW s \in SUBSET Q,
               \A t \in SUBSET s : Cardinality(t) < Cardinality(s) => t \in T
        PROVE  s \in T
    <2>1. CASE s = {}
      BY <1>2, <2>1
    <2>2. CASE s # {}
      <3>1. /\ Pick(s) \in Q /\ s \ {Pick(s)} \in SUBSET s /\ Cardinality(s) \in Nat
            /\ Cardinality(s \ {Pick(s)}) = Cardinality(s) - 1
        BY <1>1, <2>2, PickIs, FS_Subset, FS_CardinalityType
      <3>2. G[s \ {Pick(s)}] = H[s \ {Pick(s)}] /\ f[Pick(s)] = h[Pick(s)]
        BY <1>3, <3>1
      <3> QED
        BY <1>2, <2>2, <3>2
    <2> QED
      BY <2>1, <2>2
  <1>4. SUBSET Q \subseteq T
    <2> HIDE DEF T
    <2> QED
      BY <1>1, <1>3, SubsetInduction
  <1> QED
    BY <1>4 DEF G, H

\* There is one way to sum up.
LEMMA SumsUnique ==
  ASSUME NEW S, IsFiniteSet(S), NEW f \in [S -> Nat], NEW g, SumsUp(g, f, S)
  PROVE  g = Sums(f, S)
  <1> DEFINE G == Sums(f, S)
             T == {s \in SUBSET S : g[s] = G[s]}
  <1>1. /\ G \in [SUBSET S -> Nat] /\ G[{}] = 0
        /\ \A s \in SUBSET S : s # {} => G[s] = f[Pick(s)] + G[s \ {Pick(s)}]
    BY SumsIs
  <1>2. /\ g = [s \in SUBSET S |-> g[s]]
        /\ g[{}] = 0
        /\ \A s \in SUBSET S : s # {} => g[s] = f[Pick(s)] + g[s \ {Pick(s)}]
    BY DEF SumsUp
  <1> HIDE DEF G
  <1>3. ASSUME NEW s \in SUBSET S,
               \A t \in SUBSET s : Cardinality(t) < Cardinality(s) => t \in T
        PROVE  s \in T
    <2>1. CASE s = {}
      BY <1>1, <1>2, <2>1
    <2>2. CASE s # {}
      <3>1. /\ s \ {Pick(s)} \in SUBSET s /\ Cardinality(s) \in Nat
            /\ Cardinality(s \ {Pick(s)}) = Cardinality(s) - 1
        BY <2>2, PickIs, FS_Subset, FS_CardinalityType
      <3>2. g[s \ {Pick(s)}] = G[s \ {Pick(s)}]
        BY <1>3, <3>1
      <3> QED
        BY <1>1, <1>2, <2>2, <3>2
    <2> QED
      BY <2>1, <2>2
  <1>4. SUBSET S \subseteq T
    <2> HIDE DEF T
    <2> QED
      BY <1>3, SubsetInduction
  <1> QED
    BY <1>1, <1>2, <1>4 DEF G

\* Facts about totals.
LEMMA TotalIs ==
  ASSUME NEW S, IsFiniteSet(S), NEW f \in [S -> Nat]
  PROVE  /\ Total(f, S) \in Nat
         /\ S = {} => Total(f, S) = 0
         /\ \A x \in S : \A h \in [S \ {x} -> Nat] :
              (\A y \in S \ {x} : f[y] = h[y]) => Total(f, S) = f[x] + Total(h, S \ {x})
  <1>1. Total(f, S) \in Nat /\ (S = {} => Total(f, S) = 0)
    <2>1. S \in SUBSET S /\ Sums(f, S) \in [SUBSET S -> Nat] /\ Sums(f, S)[{}] = 0
      BY SumsIs
    <2> QED
      BY <2>1 DEF Total
  <1>2. ASSUME NEW x \in S, NEW h \in [S \ {x} -> Nat], \A y \in S \ {x} : f[y] = h[y]
        PROVE  Total(f, S) = f[x] + Total(h, S \ {x})
    <2>1. Sums(f, S)[S] = f[x] + Sums(f, S)[S \ {x}]
      BY SumsRemove
    <2>2. S \ {x} \in SUBSET S
      OBVIOUS
    <2>3. Sums(f, S)[S \ {x}] = Sums(h, S \ {x})[S \ {x}]
      BY <1>2, <2>2, SumsAgree
    <2> QED
      BY <2>1, <2>3 DEF Total
  <1> QED
    BY <1>1, <1>2

\* If one number changes, the total changes by as much.
LEMMA TotalChanges ==
  ASSUME NEW S, IsFiniteSet(S), NEW f \in [S -> Nat], NEW h \in [S -> Nat],
         NEW x \in S, \A y \in S \ {x} : h[y] = f[y]
  PROVE  /\ Total(h, S) = (Total(f, S) - f[x]) + h[x]
         /\ f[x] <= Total(f, S)
  <1> DEFINE r == [y \in S \ {x} |-> f[y]]
  <1>1. r \in [S \ {x} -> Nat] /\ \A y \in S \ {x} : f[y] = r[y] /\ h[y] = r[y]
    OBVIOUS
  <1>2. IsFiniteSet(S \ {x})
    BY FS_RemoveElement
  <1> HIDE DEF r
  <1>3. Total(f, S) = f[x] + Total(r, S \ {x}) /\ Total(h, S) = h[x] + Total(r, S \ {x})
    BY <1>1, TotalIs
  <1>4. Total(r, S \ {x}) \in Nat /\ f[x] \in Nat /\ h[x] \in Nat
    BY <1>1, <1>2, TotalIs
  <1> QED
    BY <1>3, <1>4

\* A new element adds its number.
LEMMA TotalGrows ==
  ASSUME NEW S, IsFiniteSet(S), NEW f \in [S -> Nat], NEW x, x \notin S,
         NEW h \in [S \cup {x} -> Nat], \A y \in S : h[y] = f[y]
  PROVE  Total(h, S \cup {x}) = h[x] + Total(f, S)
  <1>1. IsFiniteSet(S \cup {x}) /\ (S \cup {x}) \ {x} = S
    BY FS_AddElement
  <1>2. f \in [(S \cup {x}) \ {x} -> Nat] /\ x \in S \cup {x}
        /\ \A y \in (S \cup {x}) \ {x} : h[y] = f[y]
    BY <1>1
  <1> QED
    BY <1>1, <1>2, TotalIs

\* If every number rises by c at most, the total rises by c for each of them at most.
LEMMA TotalRises ==
  ASSUME NEW S, IsFiniteSet(S), NEW f \in [S -> Nat], NEW h \in [S -> Nat], NEW c \in Nat,
         \A x \in S : h[x] <= f[x] + c
  PROVE  Total(h, S) <= Total(f, S) + c * Cardinality(S)
  <1> DEFINE F == Sums(f, S)
             H == Sums(h, S)
             T == {s \in SUBSET S : H[s] <= F[s] + c * Cardinality(s)}
  <1>1. /\ F \in [SUBSET S -> Nat] /\ H \in [SUBSET S -> Nat] /\ F[{}] = 0 /\ H[{}] = 0
        /\ \A s \in SUBSET S : s # {} => /\ F[s] = f[Pick(s)] + F[s \ {Pick(s)}]
                                         /\ H[s] = h[Pick(s)] + H[s \ {Pick(s)}]
    BY SumsIs
  <1> HIDE DEF F, H
  <1>2. ASSUME NEW s \in SUBSET S,
               \A t \in SUBSET s : Cardinality(t) < Cardinality(s) => t \in T
        PROVE  s \in T
    <2>1. CASE s = {}
      BY <1>1, <2>1, FS_EmptySet
    <2>2. CASE s # {}
      <3>1. /\ Pick(s) \in S /\ s \ {Pick(s)} \in SUBSET s /\ Cardinality(s) \in Nat
            /\ Cardinality(s \ {Pick(s)}) = Cardinality(s) - 1
        BY <2>2, PickIs, FS_Subset, FS_CardinalityType
      <3>2. H[s \ {Pick(s)}] <= F[s \ {Pick(s)}] + c * (Cardinality(s) - 1)
        BY <1>2, <3>1
      <3>3. c * (Cardinality(s) - 1) + c = c * Cardinality(s) /\ c * (Cardinality(s) - 1) \in Int
            /\ c * Cardinality(s) \in Int
        BY <3>1
      <3>4. /\ H[s \ {Pick(s)}] \in Nat /\ F[s \ {Pick(s)}] \in Nat
            /\ h[Pick(s)] \in Nat /\ f[Pick(s)] \in Nat /\ h[Pick(s)] <= f[Pick(s)] + c
        BY <1>1, <3>1
      <3>5. ASSUME NEW a \in Nat, NEW b \in Nat, NEW k \in Nat, NEW l \in Nat, NEW m \in Int,
                   a <= b + m, k <= l + c
            PROVE  k + a <= (l + b) + (m + c)
        BY <3>5
      <3>6. h[Pick(s)] + H[s \ {Pick(s)}]
              <= (f[Pick(s)] + F[s \ {Pick(s)}]) + (c * (Cardinality(s) - 1) + c)
        BY <3>2, <3>3, <3>4, <3>5
      <3>7. H[s] <= F[s] + c * Cardinality(s)
        BY <1>1, <2>2, <3>3, <3>6
      <3> QED
        BY <3>7
    <2> QED
      BY <2>1, <2>2
  <1>3. SUBSET S \subseteq T
    <2> HIDE DEF T
    <2> QED
      BY <1>2, SubsetInduction
  <1> QED
    BY <1>3 DEF F, H, Total

\* If every number is c times another at most, so is the total.
LEMMA TotalBelow ==
  ASSUME NEW S, IsFiniteSet(S), NEW f \in [S -> Nat], NEW h \in [S -> Nat], NEW c \in Nat,
         \A x \in S : h[x] <= f[x] * c
  PROVE  Total(h, S) <= Total(f, S) * c
  <1> DEFINE F == Sums(f, S)
             H == Sums(h, S)
             T == {s \in SUBSET S : H[s] <= F[s] * c}
  <1>1. /\ F \in [SUBSET S -> Nat] /\ H \in [SUBSET S -> Nat] /\ F[{}] = 0 /\ H[{}] = 0
        /\ \A s \in SUBSET S : s # {} => /\ F[s] = f[Pick(s)] + F[s \ {Pick(s)}]
                                         /\ H[s] = h[Pick(s)] + H[s \ {Pick(s)}]
    BY SumsIs
  <1> HIDE DEF F, H
  <1>2. ASSUME NEW s \in SUBSET S,
               \A t \in SUBSET s : Cardinality(t) < Cardinality(s) => t \in T
        PROVE  s \in T
    <2>1. CASE s = {}
      BY <1>1, <2>1
    <2>2. CASE s # {}
      <3>1. /\ Pick(s) \in S /\ s \ {Pick(s)} \in SUBSET s /\ Cardinality(s) \in Nat
            /\ Cardinality(s \ {Pick(s)}) = Cardinality(s) - 1
        BY <2>2, PickIs, FS_Subset, FS_CardinalityType
      <3>2. H[s \ {Pick(s)}] <= F[s \ {Pick(s)}] * c
        BY <1>2, <3>1
      <3>3. /\ H[s \ {Pick(s)}] \in Nat /\ F[s \ {Pick(s)}] \in Nat
            /\ h[Pick(s)] \in Nat /\ f[Pick(s)] \in Nat /\ h[Pick(s)] <= f[Pick(s)] * c
        BY <1>1, <3>1
      <3>4. \A k, l \in Nat : (k + l) * c = k * c + l * c /\ k * c \in Nat /\ l * c \in Nat
        OBVIOUS
      <3>5. h[Pick(s)] + H[s \ {Pick(s)}] <= (f[Pick(s)] + F[s \ {Pick(s)}]) * c
        <4>1. /\ (f[Pick(s)] + F[s \ {Pick(s)}]) * c = f[Pick(s)] * c + F[s \ {Pick(s)}] * c
              /\ f[Pick(s)] * c \in Nat /\ F[s \ {Pick(s)}] * c \in Nat
          BY <3>3, <3>4
        <4> QED
          BY <3>2, <3>3, <4>1
      <3> QED
        BY <1>1, <2>2, <3>5
    <2> QED
      BY <2>1, <2>2
  <1>3. SUBSET S \subseteq T
    <2> HIDE DEF T
    <2> QED
      BY <1>2, SubsetInduction
  <1> QED
    BY <1>3 DEF F, H, Total

-----------------------------------------------------------------------------
(* What the limiters of a service hold together                            *)

LEMMA MadeBegins == Local!Init => LimitersMade
  BY DEF Local!Init, LimitersMade

LEMMA MadeKeeps ==
  ASSUME LocalInv, LimitersMade, [Local!Next]_localVars
  PROVE  LimitersMade'
  <1>1. /\ threadAt \in [Thread -> Local!PCs] /\ limiterOf \in [Thread -> Limiter \cup {NoLimiter}]
        /\ limiters \subseteq Limiter /\ capacityOf \in [Limiter -> {0, LocalCapacity}]
        /\ NoLimiter \notin Limiter
    BY LocalConstants DEF LocalInv, Local!TypeOK
  <1>2. ASSUME NEW t \in Thread, Local!Get(t) PROVE LimitersMade'
    BY <1>1, <1>2 DEF Local!Get, Local!fields, LimitersMade
  <1>3. ASSUME NEW t \in Thread, Local!Create(t) PROVE LimitersMade'
    <2>1. PICK l \in Limiter \ limiters :
            /\ threadAt[t] = "creating" /\ threadAt' = [threadAt EXCEPT ![t] = "putting"]
            /\ limiters' = limiters \cup {l} /\ limiterOf' = [limiterOf EXCEPT ![t] = l]
            /\ UNCHANGED <<limiterMap, capacityOf>>
      <3>1. (CHOOSE l \in Limiter \ limiters : TRUE) \in Limiter \ limiters
        BY <1>1, <1>3 DEF Local!Create
      <3> QED
        BY <1>3, <3>1 DEF Local!Create, Local!Goto
    <2> QED
      BY <1>1, <2>1 DEF LimitersMade
  <1>4. ASSUME NEW t \in Thread, Local!Put(t) PROVE LimitersMade'
    BY <1>1, <1>4 DEF Local!Put, Local!Stored, Local!Goto, Local!fields, LimitersMade
  <1>5. ASSUME NEW t \in Thread, Local!WithCapacity(t) PROVE LimitersMade'
    BY <1>1, <1>5 DEF Local!WithCapacity, Local!Goto, LimitersMade
  <1>6. ASSUME NEW t \in Thread,
               threadAt[t] \notin {"idle", "creating"},
               \A u \in Thread \ {t} : threadAt'[u] = threadAt[u],
               UNCHANGED <<limiterMap, limiters, limiterOf, capacityOf>>
        PROVE  LimitersMade'
    BY <1>6 DEF LimitersMade
  <1>7. ASSUME NEW t \in Thread,
               \/ Local!WithRate(t) \/ Local!ApplyToken(t) \/ Local!Clear(t) \/ Local!TryLock(t)
               \/ Local!GiveUp(t) \/ Local!Compute(t) \/ Local!ComputeClear(t) \/ Local!Unlock(t)
        PROVE  LimitersMade'
    <2>1. /\ threadAt[t] \notin {"idle", "creating"}
          /\ \A u \in Thread \ {t} : threadAt'[u] = threadAt[u]
      BY <1>1, <1>7 DEF Local!WithRate, Local!ApplyToken, Local!Clear, Local!TryLock, Local!GiveUp,
                        Local!Compute, Local!ComputeClear, Local!Unlock, Local!Goto
    <2>2. UNCHANGED <<limiterMap, limiters, limiterOf, capacityOf>>
      BY <1>7 DEF Local!WithRate, Local!ApplyToken, Local!Clear, Local!TryLock, Local!GiveUp,
                  Local!Compute, Local!ComputeClear, Local!Unlock, Local!fields
    <2> QED
      BY <1>6, <2>1, <2>2
  <1>8. CASE Local!Tick
    BY <1>8 DEF Local!Tick, LimitersMade
  <1>9. CASE UNCHANGED localVars
    BY <1>9 DEF localVars, LimitersMade
  <1> QED
    BY <1>2, <1>3, <1>4, <1>5, <1>7, <1>8, <1>9 DEF Local!Next

-----------------------------------------------------------------------------
(* Sums over the limiters                                                  *)

Sizes == [l \in limiters |-> capacityOf[l]]
Levels == [l \in limiters |-> Local!LevelOf(l)]

LEMMA LevelIsNat ==
  ASSUME LocalInv, NEW l \in Limiter
  PROVE  /\ capacityOf[l] \in Nat /\ tokensOf[l] \in Nat /\ ageOf[l] \in Nat
         /\ Local!LevelOf(l) \in Nat /\ Local!LevelOf(l) <= capacityOf[l] * Second
         /\ capacityOf[l] * Second \in Nat
         /\ tokensOf[l] * Second + ageOf[l] * Rate \in Nat
         /\ Local!LevelOf(l) <= tokensOf[l] * Second + ageOf[l] * Rate
  <1>1. capacityOf[l] \in Nat /\ tokensOf[l] \in Nat /\ ageOf[l] \in Nat /\ Second \in Nat /\ Rate \in Nat
    BY LocalConstants DEF LocalInv, Local!TypeOK
  <1>2. \A m, n \in Nat : m * n \in Nat
    OBVIOUS
  <1>3. /\ capacityOf[l] * Second \in Nat /\ tokensOf[l] * Second \in Nat /\ ageOf[l] * Rate \in Nat
    BY <1>1, <1>2
  <1> QED
    BY <1>1, <1>3 DEF Local!LevelOf, Local!Least

LEMMA LevelsAre ==
  LocalInv => /\ IsFiniteSet(limiters) /\ limiters \subseteq Limiter
              /\ Sizes \in [limiters -> Nat] /\ Levels \in [limiters -> Nat]
              /\ Total(Sizes, limiters) \in Nat
              /\ Total(Levels, limiters) \in 0..(Total(Sizes, limiters) * Second)
  <1> SUFFICES ASSUME LocalInv
               PROVE  /\ IsFiniteSet(limiters) /\ limiters \subseteq Limiter
                      /\ Sizes \in [limiters -> Nat] /\ Levels \in [limiters -> Nat]
                      /\ Total(Sizes, limiters) \in Nat
                      /\ Total(Levels, limiters) \in 0..(Total(Sizes, limiters) * Second)
    OBVIOUS
  <1>1. IsFiniteSet(limiters) /\ limiters \subseteq Limiter
    BY DEF LocalInv, EachMakesOne, Local!TypeOK
  <1>2. Sizes \in [limiters -> Nat] /\ Levels \in [limiters -> Nat]
    BY <1>1, LevelIsNat DEF Sizes, Levels
  <1>3. Total(Sizes, limiters) \in Nat /\ Total(Levels, limiters) \in Nat
    BY <1>1, <1>2, TotalIs
  <1>4. \A l \in limiters : Levels[l] <= Sizes[l] * Second
    BY <1>1, LevelIsNat DEF Sizes, Levels
  <1>5. Total(Levels, limiters) <= Total(Sizes, limiters) * Second
    BY <1>1, <1>2, <1>4, LocalConstants, TotalBelow
  <1>6. Total(Sizes, limiters) * Second \in Nat
    BY <1>3, LocalConstants
  <1> QED
    BY <1>1, <1>2, <1>3, <1>5, <1>6

\* The sums of the model are these totals.
LEMMA LevelsSum ==
  LocalInv => Local!Sum(Local!LevelOf) = Total(Levels, limiters)
  <1> SUFFICES ASSUME LocalInv PROVE Local!Sum(Local!LevelOf) = Total(Levels, limiters)
    OBVIOUS
  <1> DEFINE Up(g) == g = [s \in SUBSET limiters |->
                             IF s = {} THEN 0
                             ELSE Local!LevelOf(CHOOSE x \in s : TRUE) + g[s \ {CHOOSE x \in s : TRUE}]]
             g == CHOOSE g : Up(g)
  <1>1. Local!Sum(Local!LevelOf) = g[limiters]
    BY DEF Local!Sum, Local!MapThenSumSet, Local!MapThenFoldSet
  <1>2. \A h : Up(h) <=> SumsUp(h, Levels, limiters)
    <2>1. \A s \in SUBSET limiters : s # {} => Levels[Pick(s)] = Local!LevelOf(Pick(s))
      BY PickIs DEF Levels
    <2> QED
      BY <2>1 DEF SumsUp, Pick
  <1>3. \E h : SumsUp(h, Levels, limiters)
    BY LevelsAre, SumsExist
  <1>4. Up(g)
    <2> HIDE DEF Up
    <2> QED
      BY <1>2, <1>3, Zenon
  <1> HIDE DEF g, Up
  <1>5. g = Sums(Levels, limiters)
    BY <1>2, <1>4, LevelsAre, SumsUnique
  <1> QED
    BY <1>1, <1>5 DEF Total
LEMMA SizesSum ==
  LocalInv => Local!Sum(Local!CapacityOf) = Total(Sizes, limiters)
  <1> SUFFICES ASSUME LocalInv PROVE Local!Sum(Local!CapacityOf) = Total(Sizes, limiters)
    OBVIOUS
  <1> DEFINE Up(g) == g = [s \in SUBSET limiters |->
                             IF s = {} THEN 0
                             ELSE Local!CapacityOf(CHOOSE x \in s : TRUE) + g[s \ {CHOOSE x \in s : TRUE}]]
             g == CHOOSE g : Up(g)
  <1>1. Local!Sum(Local!CapacityOf) = g[limiters]
    BY DEF Local!Sum, Local!MapThenSumSet, Local!MapThenFoldSet
  <1>2. \A h : Up(h) <=> SumsUp(h, Sizes, limiters)
    <2>1. \A s \in SUBSET limiters : s # {} => Sizes[Pick(s)] = Local!CapacityOf(Pick(s))
      BY PickIs DEF Sizes, Local!CapacityOf
    <2> QED
      BY <2>1 DEF SumsUp, Pick
  <1>3. \E h : SumsUp(h, Sizes, limiters)
    BY LevelsAre, SumsExist
  <1>4. Up(g)
    <2> HIDE DEF Up
    <2> QED
      BY <1>2, <1>3, Zenon
  <1> HIDE DEF g, Up
  <1>5. g = Sums(Sizes, limiters)
    BY <1>2, <1>4, LevelsAre, SumsUnique
  <1> QED
    BY <1>1, <1>5 DEF Total

\* What a call computes: no more tokens than the level says, whole seconds only.
LEMMA CappedWithinLevel ==
  ASSUME LocalInv, NEW l \in Limiter
  PROVE  /\ Local!Capped(l) \in Nat
         /\ Local!Capped(l) * Second <= Local!LevelOf(l)
  <1>1. /\ capacityOf[l] \in Nat /\ tokensOf[l] \in Nat /\ ageOf[l] \in Nat
        /\ rateOf[l] \in {0, Rate} /\ Rate \in Nat /\ Second \in Nat \ {0}
    BY LocalConstants DEF LocalInv, Local!TypeOK
  <1>2. ASSUME NEW a \in Nat, NEW s \in Nat \ {0} PROVE a \div s \in Nat /\ (a \div s) * s <= a
    OBVIOUS
  <1>3. ASSUME NEW q \in Nat, NEW s \in Nat, NEW r \in Nat, NEW a \in Nat, q * s <= a
        PROVE  (q * r) * s <= a * r
    <2>1. (q * r) * s = (q * s) * r
      OBVIOUS
    <2>2. \A m, n \in Nat : m <= n => m * r <= n * r
      OBVIOUS
    <2> QED
      BY <1>3, <2>1, <2>2
  <1>4. \A m, n, s \in Nat : /\ m * n \in Nat /\ (m + n) * s = m * s + n * s
                             /\ (m <= n => m * s <= n * s)
    OBVIOUS
  <1> DEFINE q == ageOf[l] \div Second
             n == Local!Capped(l)
  <1>5. q \in Nat /\ q * Second <= ageOf[l]
    BY <1>1, <1>2
  <1> HIDE DEF q
  <1>6. rateOf[l] \in Nat /\ q * rateOf[l] \in Nat /\ ageOf[l] * rateOf[l] \in Nat
        /\ ageOf[l] * rateOf[l] <= ageOf[l] * Rate /\ ageOf[l] * Rate \in Nat
    BY <1>1, <1>4, <1>5
  <1>7. (q * rateOf[l]) * Second <= ageOf[l] * Rate
    <2>1. (q * rateOf[l]) * Second <= ageOf[l] * rateOf[l]
      BY <1>1, <1>3, <1>5, <1>6
    <2>2. (q * rateOf[l]) * Second \in Nat
      BY <1>1, <1>4, <1>6
    <2> QED
      BY <1>6, <2>1, <2>2
  <1>8. Local!Refilled(l) = tokensOf[l] + q * rateOf[l]
    BY DEF Local!Refilled, q
  <1>9. /\ n \in Nat /\ n <= capacityOf[l] /\ n <= tokensOf[l] + q * rateOf[l]
    BY <1>1, <1>6, <1>8 DEF Local!Capped
  <1> HIDE DEF n
  <1>10. n * Second <= capacityOf[l] * Second
    BY <1>1, <1>4, <1>9
  <1>11. n * Second <= tokensOf[l] * Second + ageOf[l] * Rate
    <2>1. n * Second <= (tokensOf[l] + q * rateOf[l]) * Second
      BY <1>1, <1>4, <1>6, <1>9
    <2>2. (tokensOf[l] + q * rateOf[l]) * Second = tokensOf[l] * Second + (q * rateOf[l]) * Second
      BY <1>1, <1>4, <1>6
    <2>3. /\ tokensOf[l] * Second \in Nat /\ (q * rateOf[l]) * Second \in Nat /\ n * Second \in Nat
      BY <1>1, <1>4, <1>6, <1>9
    <2> QED
      BY <1>6, <1>7, <2>1, <2>2, <2>3
  <1>12. n * Second <= Local!LevelOf(l)
    BY <1>10, <1>11 DEF Local!LevelOf, Local!Least
  <1> QED
    BY <1>9, <1>12 DEF n

-----------------------------------------------------------------------------
(* Steps of the bucket                                                     *)

LocalSize == Total(Sizes, limiters)
LocalLevel == Total(Levels, limiters)
NumbersRight ==
  /\ IsFiniteSet(limiters) /\ limiters \subseteq Limiter
  /\ Sizes \in [limiters -> Nat] /\ Levels \in [limiters -> Nat]
  /\ LocalSize \in Nat /\ LocalLevel \in 0..(LocalSize * Second)
  /\ Local!Sum(Local!CapacityOf) = LocalSize
  /\ Local!Sum(Local!LevelOf) = LocalLevel

LEMMA NumbersAre == LocalInv => NumbersRight
  BY LevelsAre, SizesSum, LevelsSum DEF NumbersRight, LocalSize, LocalLevel

\* Two sums that say what the bucket does: they stay, the level falls by a token that is
\* handed out, falls otherwise, a limiter gets its size, or the clock ticks.
Moves ==
  \/ LocalSize' = LocalSize /\ LocalLevel' = LocalLevel /\ localGranted' = localGranted
  \/ /\ LocalSize' = LocalSize /\ LocalLevel' <= LocalLevel - Second /\ localGranted' = localGranted + 1
  \/ LocalSize' = LocalSize /\ LocalLevel' <= LocalLevel /\ localGranted' = localGranted
  \/ /\ LocalSize' > LocalSize /\ localGranted' = localGranted
     /\ LocalLevel' <= LocalLevel + (LocalSize' - LocalSize) * Second
  \/ /\ LocalSize' = LocalSize /\ localGranted' = 0
     /\ LocalLevel' <= LocalLevel + Rate * Cardinality(Thread)

\* A step that changes one limiter.
LEMMA OneChanges ==
  ASSUME NumbersRight, NumbersRight', NEW l \in limiters, limiters' = limiters,
         \A m \in limiters \ {l} : /\ capacityOf'[m] = capacityOf[m] /\ tokensOf'[m] = tokensOf[m]
                                   /\ ageOf'[m] = ageOf[m]
  PROVE  /\ LocalSize' = (LocalSize - capacityOf[l]) + capacityOf'[l] /\ capacityOf[l] <= LocalSize
         /\ LocalLevel' = (LocalLevel - Local!LevelOf(l)) + Local!LevelOf(l)'
         /\ Local!LevelOf(l) <= LocalLevel
         /\ capacityOf[l] \in Nat /\ capacityOf'[l] \in Nat
         /\ Local!LevelOf(l) \in Nat /\ Local!LevelOf(l)' \in Nat
  <1>1. /\ IsFiniteSet(limiters) /\ Sizes \in [limiters -> Nat] /\ Levels \in [limiters -> Nat]
        /\ Sizes' \in [limiters -> Nat] /\ Levels' \in [limiters -> Nat]
    BY DEF NumbersRight
  <1>2. \A m \in limiters \ {l} : Sizes'[m] = Sizes[m]
    BY DEF Sizes
  <1>3. \A m \in limiters \ {l} : Levels'[m] = Levels[m]
    BY DEF Levels, Local!LevelOf
  <1>4. /\ Sizes[l] = capacityOf[l] /\ Sizes'[l] = capacityOf'[l]
        /\ Levels[l] = Local!LevelOf(l) /\ Levels'[l] = Local!LevelOf(l)'
    BY DEF Sizes, Levels
  <1>5. Total(Sizes', limiters) = (Total(Sizes, limiters) - Sizes[l]) + Sizes'[l]
        /\ Sizes[l] <= Total(Sizes, limiters)
    BY <1>1, <1>2, TotalChanges
  <1>6. Total(Levels', limiters) = (Total(Levels, limiters) - Levels[l]) + Levels'[l]
        /\ Levels[l] <= Total(Levels, limiters)
    BY <1>1, <1>3, TotalChanges
  <1>7. Sizes[l] \in Nat /\ Sizes'[l] \in Nat /\ Levels[l] \in Nat /\ Levels'[l] \in Nat
    BY <1>1
  <1> QED
    BY <1>4, <1>5, <1>6, <1>7 DEF LocalSize, LocalLevel

\* A step that leaves the limiters alone.
LEMMA NothingMoves ==
  ASSUME UNCHANGED <<limiters, capacityOf, tokensOf, ageOf, localGranted>>
  PROVE  Moves
  <1>1. Sizes' = Sizes
    BY DEF Sizes
  <1>2. Levels' = Levels
    BY DEF Levels, Local!LevelOf
  <1> QED
    BY <1>1, <1>2 DEF Moves, LocalSize, LocalLevel

\* A limiter is made without a size: nothing is in it.
LEMMA CreateMoves ==
  ASSUME LocalInv, LimitersMade, NumbersRight, NumbersRight', LocalInv',
         NEW t \in Thread, Local!Create(t)
  PROVE  Moves
  <1>1. PICK l \in Limiter \ limiters :
          /\ limiters' = limiters \cup {l}
          /\ ageOf' = [ageOf EXCEPT ![l] = 0]
          /\ UNCHANGED <<capacityOf, tokensOf, localGranted>>
    <2>1. (CHOOSE l \in Limiter \ limiters : TRUE) \in Limiter \ limiters
      BY DEF Local!Create, LocalInv, Local!TypeOK
    <2> QED
      BY <2>1 DEF Local!Create
  <1>2. /\ IsFiniteSet(limiters) /\ Sizes \in [limiters -> Nat] /\ Levels \in [limiters -> Nat]
        /\ Sizes' \in [limiters \cup {l} -> Nat] /\ Levels' \in [limiters \cup {l} -> Nat]
    BY <1>1 DEF NumbersRight
  <1>3. /\ \A m \in limiters : Sizes'[m] = Sizes[m]
        /\ \A m \in limiters : Levels'[m] = Levels[m]
    <2>1. \A m \in limiters : m \in limiters' /\ ageOf'[m] = ageOf[m]
      BY <1>1 DEF LocalInv, Local!TypeOK
    <2>2. \A m \in limiters : Sizes'[m] = Sizes[m]
      BY <1>1, <2>1 DEF Sizes
    <2>3. \A m \in limiters : Levels'[m] = Levels[m]
      BY <1>1, <2>1 DEF Levels, Local!LevelOf
    <2> QED
      BY <2>2, <2>3
  <1>4. Sizes'[l] = 0 /\ Levels'[l] = 0
    <2>1. capacityOf'[l] = 0 /\ l \in limiters'
      BY <1>1 DEF LimitersMade
    <2>2. ageOf'[l] \in Nat /\ tokensOf'[l] \in Nat /\ Second \in Nat /\ Rate \in Nat
      BY LocalConstants DEF LocalInv, Local!TypeOK
    <2>3. 0 * Second = 0 /\ tokensOf'[l] * Second + ageOf'[l] * Rate \in Nat
      BY <2>2
    <2>4. Local!LevelOf(l)' = 0
      BY <2>1, <2>3 DEF Local!LevelOf, Local!Least
    <2> QED
      BY <2>1, <2>4 DEF Sizes, Levels
  <1>5. Total(Sizes', limiters \cup {l}) = 0 + Total(Sizes, limiters)
    BY <1>1, <1>2, <1>3, <1>4, TotalGrows
  <1>6. Total(Levels', limiters \cup {l}) = 0 + Total(Levels, limiters)
    BY <1>1, <1>2, <1>3, <1>4, TotalGrows
  <1>7. LocalSize' = LocalSize /\ LocalLevel' = LocalLevel
    BY <1>1, <1>5, <1>6 DEF LocalSize, LocalLevel, NumbersRight
  <1> QED
    BY <1>1, <1>7 DEF Moves

LEMMA WithCapacityMoves ==
  ASSUME LocalInv, LimitersMade, NumbersRight, NumbersRight', LocalInv',
         NEW t \in Thread, Local!WithCapacity(t)
  PROVE  Moves
  <1>0. threadAt[t] = "withCapacity"
    BY DEF Local!WithCapacity, Local!Goto
  <1>l. PICK l \in limiters : l = limiterOf[t]
    BY <1>0 DEF LimitersMade
  <1>1. /\ capacityOf' = [capacityOf EXCEPT ![l] = LocalCapacity]
        /\ UNCHANGED <<limiters, tokensOf, ageOf, localGranted>>
    BY <1>l DEF Local!WithCapacity
  <1>2. l \in Limiter
    BY DEF NumbersRight
  <1>3. capacityOf'[l] = LocalCapacity /\ \A m \in limiters \ {l} : capacityOf'[m] = capacityOf[m]
    BY <1>1, <1>2 DEF LocalInv, Local!TypeOK
  <1>4. /\ LocalSize' = (LocalSize - capacityOf[l]) + capacityOf'[l]
        /\ LocalLevel' = (LocalLevel - Local!LevelOf(l)) + Local!LevelOf(l)'
        /\ Local!LevelOf(l) \in Nat /\ Local!LevelOf(l)' \in Nat /\ LocalLevel \in Nat /\ LocalSize \in Nat
    BY <1>1, <1>2, <1>3, OneChanges DEF NumbersRight
  <1>5. CASE capacityOf[l] = LocalCapacity
    <2>1. capacityOf' = capacityOf
      BY <1>1, <1>2, <1>5 DEF LocalInv, Local!TypeOK
    <2> QED
      BY <1>1, <2>1, NothingMoves
  <1>6. CASE capacityOf[l] = 0
    <2>1. LocalSize' - LocalSize = LocalCapacity /\ LocalSize' > LocalSize
      BY <1>3, <1>4, <1>6, LocalConstants
    <2>2. Local!LevelOf(l)' <= LocalCapacity * Second
      <3>1. tokensOf[l] \in Nat /\ ageOf[l] \in Nat /\ Second \in Nat /\ Rate \in Nat /\ LocalCapacity \in Nat
        BY <1>2, LocalConstants DEF LocalInv, Local!TypeOK
      <3>2. LocalCapacity * Second \in Int /\ tokensOf[l] * Second + ageOf[l] * Rate \in Int
        BY <3>1
      <3> QED
        BY <1>1, <1>3, <3>2 DEF Local!LevelOf, Local!Least
    <2>3. LocalCapacity * Second \in Nat
      BY LocalConstants
    <2>4. LocalLevel' <= LocalLevel + LocalCapacity * Second
      BY <1>4, <2>2, <2>3
    <2> QED
      BY <1>1, <2>1, <2>4 DEF Moves
  <1> QED
    BY <1>2, <1>5, <1>6 DEF LocalInv, Local!TypeOK

LEMMA ComputeMoves ==
  ASSUME LocalInv, LimitersMade, NumbersRight, NumbersRight', LocalInv',
         NEW t \in Thread, Local!Compute(t) \/ Local!ComputeClear(t)
  PROVE  Moves
  <1>1. /\ threadAt[t] \in {"locked", "lockedToClear"} /\ UNCHANGED <<limiters, capacityOf>>
    BY DEF Local!Compute, Local!ComputeClear, Local!Goto
  <1>l. PICK l \in limiters : l = limiterOf[t]
    BY <1>1 DEF LimitersMade
  <1> DEFINE n == Local!Capped(l)
  <1>2. l \in Limiter
    BY DEF NumbersRight
  <1>3. \/ n < 1 /\ tokensOf' = [tokensOf EXCEPT ![l] = n] /\ ageOf' = ageOf /\ localGranted' = localGranted
        \/ /\ n >= 1 /\ tokensOf' = [tokensOf EXCEPT ![l] = n - 1] /\ ageOf' = [ageOf EXCEPT ![l] = 0]
           /\ localGranted' = localGranted + 1
        \/ /\ tokensOf' = [tokensOf EXCEPT ![l] = 0] /\ ageOf' = [ageOf EXCEPT ![l] = 0]
           /\ localGranted' = localGranted
    BY <1>l DEF Local!Compute, Local!ComputeClear, Local!StampRefused
  <1>4. n \in Nat /\ n * Second <= Local!LevelOf(l)
    BY <1>2, CappedWithinLevel
  <1> HIDE DEF n
  <1>5. \A m \in limiters \ {l} : /\ capacityOf'[m] = capacityOf[m] /\ tokensOf'[m] = tokensOf[m]
                                  /\ ageOf'[m] = ageOf[m]
    BY <1>1, <1>2, <1>3 DEF LocalInv, Local!TypeOK, NumbersRight
  <1>6. /\ LocalSize' = (LocalSize - capacityOf[l]) + capacityOf'[l]
        /\ LocalLevel' = (LocalLevel - Local!LevelOf(l)) + Local!LevelOf(l)'
        /\ Local!LevelOf(l) \in Nat /\ Local!LevelOf(l)' \in Nat /\ LocalLevel \in Nat /\ LocalSize \in Nat
        /\ capacityOf[l] \in Nat
    BY <1>1, <1>2, <1>5, OneChanges DEF NumbersRight
  <1>7. LocalSize' = LocalSize
    BY <1>1, <1>6
  <1>8. /\ capacityOf[l] * Second \in Nat /\ tokensOf[l] * Second \in Nat /\ ageOf[l] * Rate \in Nat
        /\ tokensOf[l] \in Nat /\ ageOf[l] \in Nat /\ Second \in Nat /\ 0 * Second = 0 /\ 0 * Rate = 0
    <2>1. /\ capacityOf[l] \in Nat /\ tokensOf[l] \in Nat /\ ageOf[l] \in Nat /\ Second \in Nat /\ Rate \in Nat
      BY <1>2, LocalConstants DEF LocalInv, Local!TypeOK
    <2> QED
      BY <2>1
  <1>9. CASE n < 1 /\ tokensOf' = [tokensOf EXCEPT ![l] = n] /\ ageOf' = ageOf /\ localGranted' = localGranted
    <2>1. tokensOf'[l] = 0
      BY <1>2, <1>4, <1>9 DEF LocalInv, Local!TypeOK
    <2>2. Local!LevelOf(l)' <= Local!LevelOf(l)
      BY <1>1, <1>8, <1>9, <2>1 DEF Local!LevelOf, Local!Least
    <2>3. LocalLevel' <= LocalLevel
      BY <1>6, <2>2
    <2> QED
      BY <1>7, <1>9, <2>3 DEF Moves
  <1>10. CASE /\ n >= 1 /\ tokensOf' = [tokensOf EXCEPT ![l] = n - 1] /\ ageOf' = [ageOf EXCEPT ![l] = 0]
              /\ localGranted' = localGranted + 1
    <2>1. tokensOf'[l] = n - 1 /\ ageOf'[l] = 0
      BY <1>2, <1>10 DEF LocalInv, Local!TypeOK
    <2>2. (n - 1) * Second = n * Second - Second /\ n * Second \in Nat /\ (n - 1) * Second \in Int
      BY <1>4, <1>8
    <2>3. Local!LevelOf(l)' <= (n - 1) * Second + 0
      BY <1>1, <1>8, <2>1, <2>2 DEF Local!LevelOf, Local!Least
    <2>4. Local!LevelOf(l)' <= Local!LevelOf(l) - Second
      BY <1>4, <1>6, <1>8, <2>2, <2>3
    <2>5. LocalLevel' <= LocalLevel - Second
      BY <1>6, <1>8, <2>4
    <2> QED
      BY <1>7, <1>10, <2>5 DEF Moves
  <1>11. CASE /\ tokensOf' = [tokensOf EXCEPT ![l] = 0] /\ ageOf' = [ageOf EXCEPT ![l] = 0]
              /\ localGranted' = localGranted
    <2>1. tokensOf'[l] = 0 /\ ageOf'[l] = 0
      BY <1>2, <1>11 DEF LocalInv, Local!TypeOK
    <2>2. Local!LevelOf(l)' <= 0
      BY <1>1, <1>8, <2>1 DEF Local!LevelOf, Local!Least
    <2>3. LocalLevel' <= LocalLevel
      BY <1>6, <2>2
    <2> QED
      BY <1>7, <1>11, <2>3 DEF Moves
  <1> QED
    BY <1>3, <1>9, <1>10, <1>11

LEMMA TickMoves ==
  ASSUME LocalInv, NumbersRight, NumbersRight', LocalInv', Local!Tick
  PROVE  Moves
  <1>1. /\ ageOf' = [l \in Limiter |->
                       IF l \in limiters /\ ageOf[l] < LocalMaxAge THEN ageOf[l] + 1 ELSE ageOf[l]]
        /\ localGranted' = 0
        /\ UNCHANGED <<limiters, capacityOf, tokensOf>>
    BY DEF Local!Tick
  <1>2. Sizes' = Sizes
    BY <1>1 DEF Sizes
  <1>3. \A l \in limiters : Levels'[l] <= Levels[l] + Rate
    <2>1. ASSUME NEW l \in limiters PROVE Local!LevelOf(l)' <= Local!LevelOf(l) + Rate
      <3>1. /\ l \in Limiter /\ Rate \in Nat /\ Second \in Nat /\ ageOf[l] \in Nat
            /\ capacityOf[l] \in Nat /\ tokensOf[l] \in Nat
        BY LocalConstants DEF NumbersRight, LocalInv, Local!TypeOK
      <3>2. ageOf'[l] \in {ageOf[l], ageOf[l] + 1}
        BY <1>1, <3>1
      <3>3. /\ (ageOf[l] + 1) * Rate = ageOf[l] * Rate + Rate /\ ageOf[l] * Rate \in Nat
            /\ capacityOf[l] * Second \in Nat /\ tokensOf[l] * Second \in Nat
        BY <3>1
      <3>4. ageOf'[l] * Rate \in {ageOf[l] * Rate, ageOf[l] * Rate + Rate}
        BY <3>2, <3>3
      <3> QED
        BY <1>1, <3>1, <3>3, <3>4 DEF Local!LevelOf, Local!Least
    <2> QED
      BY <1>1, <2>1 DEF Levels
  <1>4. /\ IsFiniteSet(limiters) /\ Levels \in [limiters -> Nat] /\ Levels' \in [limiters -> Nat]
        /\ LocalLevel \in Nat /\ LocalLevel' \in Nat /\ Rate \in Nat
    BY <1>1, LocalConstants DEF NumbersRight
  <1>5. Total(Levels', limiters) <= Total(Levels, limiters) + Rate * Cardinality(limiters)
    BY <1>3, <1>4, TotalRises
  <1>6. Rate * Cardinality(limiters) <= Rate * Cardinality(Thread)
    <2>1. Cardinality(limiters) \in Nat /\ Cardinality(At({"creating"})) \in Nat
          /\ Cardinality(Thread) \in Nat
      BY <1>4, ThreadsAt, FS_CardinalityType
    <2>2. Cardinality(limiters) <= Cardinality(Thread)
      BY <2>1 DEF LocalInv, EachMakesOne
    <2>3. \A m, n \in Nat : m <= n => Rate * m <= Rate * n
      BY <1>4
    <2> QED
      BY <2>1, <2>2, <2>3
  <1>7. LocalLevel' <= LocalLevel + Rate * Cardinality(Thread)
    <2>1. LocalLevel' <= LocalLevel + Rate * Cardinality(limiters)
      BY <1>1, <1>5 DEF LocalLevel
    <2>2. Cardinality(limiters) \in Nat /\ Cardinality(Thread) \in Nat
      BY <1>4, ThreadsAt, FS_CardinalityType
    <2>3. Rate * Cardinality(limiters) \in Nat /\ Rate * Cardinality(Thread) \in Nat
      BY <1>4, <2>2
    <2> QED
      BY <1>4, <1>6, <2>1, <2>3
  <1>8. LocalSize' = LocalSize
    BY <1>1, <1>2 DEF LocalSize
  <1> QED
    BY <1>1, <1>7, <1>8 DEF Moves

LEMMA LocalMoves ==
  ASSUME LocalInv, LimitersMade, NumbersRight, NumbersRight', LocalInv', [Local!Next]_localVars
  PROVE  Moves
  <1>1. ASSUME NEW t \in Thread,
               \/ Local!Get(t) \/ Local!Put(t) \/ Local!WithRate(t) \/ Local!ApplyToken(t)
               \/ Local!Clear(t) \/ Local!TryLock(t) \/ Local!GiveUp(t) \/ Local!Unlock(t)
        PROVE  Moves
    <2>1. UNCHANGED <<limiters, capacityOf, tokensOf, ageOf, localGranted>>
      BY <1>1 DEF Local!Get, Local!Put, Local!WithRate, Local!ApplyToken, Local!Clear, Local!TryLock,
                  Local!GiveUp, Local!Unlock, Local!fields
    <2> QED
      BY <2>1, NothingMoves
  <1>2. CASE UNCHANGED localVars
    BY <1>2, NothingMoves DEF localVars
  <1> QED
    BY <1>1, <1>2, CreateMoves, WithCapacityMoves, ComputeMoves, TickMoves, Zenon DEF Local!Next

\* These moves are the bucket's.
LEMMA LocalBucketSteps ==
  ASSUME NumbersRight, NumbersRight', Moves
  PROVE  [Local!Bucket!Next]_(Local!Bucket!bucket)
  <1> DEFINE size == Local!Sum(Local!CapacityOf)
             level == Local!Sum(Local!LevelOf)
  <1>1. /\ size = LocalSize /\ level = LocalLevel /\ size' = LocalSize' /\ level' = LocalLevel'
        /\ LocalSize \in Nat /\ LocalLevel \in 0..(LocalSize * Second)
        /\ LocalSize' \in Nat /\ LocalLevel' \in 0..(LocalSize' * Second)
    BY DEF NumbersRight
  <1>2. /\ Local!Cardinality(Thread) = Cardinality(Thread) /\ Cardinality(Thread) \in Nat
        /\ Rate \in Nat /\ Second \in Nat \ {0}
        /\ LocalSize * Second \in Nat
        /\ Rate * Cardinality(Thread) \in Nat
    <2>1. Local!Cardinality(Thread) = Cardinality(Thread) /\ Cardinality(Thread) \in Nat
      BY SameCardinality, LocalConstants, FS_CardinalityType
    <2>2. LocalSize \in Nat /\ Rate \in Nat /\ Second \in Nat \ {0}
      BY <1>1, LocalConstants
    <2> QED
      BY <2>1, <2>2
  <1> HIDE DEF size, level
  <1>3. CASE LocalSize' = LocalSize /\ LocalLevel' = LocalLevel /\ localGranted' = localGranted
    BY <1>1, <1>3 DEF Local!Bucket!bucket, size, level
  <1>4. CASE LocalSize' = LocalSize /\ LocalLevel' <= LocalLevel - Second /\ localGranted' = localGranted + 1
    <2>1. level >= Second /\ level' \in 0..(level - Second) /\ size' = size
      BY <1>1, <1>2, <1>4
    <2>2. Local!Bucket!Take
      BY <1>4, <2>1 DEF Local!Bucket!Take, size, level
    <2> QED
      BY <2>2 DEF Local!Bucket!Next
  <1>5. CASE LocalSize' = LocalSize /\ LocalLevel' <= LocalLevel /\ localGranted' = localGranted
    <2>1. level' \in 0..level /\ size' = size
      BY <1>1, <1>2, <1>5
    <2>2. Local!Bucket!Lose
      BY <1>5, <2>1 DEF Local!Bucket!Lose, size, level
    <2> QED
      BY <2>2 DEF Local!Bucket!Next
  <1>6. CASE /\ LocalSize' > LocalSize /\ localGranted' = localGranted
             /\ LocalLevel' <= LocalLevel + (LocalSize' - LocalSize) * Second
    <2>1. PICK more \in Int : more = (LocalSize' - LocalSize) * Second
      <3>1. \A m, n \in Int : m * n \in Int
        OBVIOUS
      <3>2. LocalSize' - LocalSize \in Int /\ Second \in Int
        BY <1>1, <1>2
      <3> QED
        BY <3>1, <3>2
    <2>2. /\ size' \in Nat /\ size' > size /\ level' \in 0..(level + (size' - size) * Second)
      <3>1. (size' - size) * Second = more
        BY <1>1, <2>1
      <3>2. LocalLevel' \in Nat /\ LocalLevel \in Nat /\ LocalLevel' <= LocalLevel + more
        <4>1. LocalLevel \in Nat /\ LocalLevel' \in Nat
          BY DEF NumbersRight
        <4> QED
          BY <1>6, <2>1, <4>1
      <3>3. LocalLevel' \in 0..(LocalLevel + more)
        BY <3>2
      <3> QED
        BY <1>1, <1>6, <3>1, <3>3
    <2>3. Local!Bucket!Grow
      BY <1>6, <2>2 DEF Local!Bucket!Grow, size, level
    <2> QED
      BY <2>3 DEF Local!Bucket!Next
  <1>7. CASE /\ LocalSize' = LocalSize /\ localGranted' = 0
             /\ LocalLevel' <= LocalLevel + Rate * Cardinality(Thread)
    <2>1. level' \in 0..(IF level + Rate * Cardinality(Thread) < size * Second
                         THEN level + Rate * Cardinality(Thread) ELSE size * Second)
      BY <1>1, <1>2, <1>7
    <2>2. size' = size
      BY <1>1, <1>7
    <2>3. Local!Bucket!Tick
      BY <1>2, <1>7, <2>1, <2>2 DEF Local!Bucket!Tick, Local!Bucket!Full, size, level
    <2> QED
      BY <2>3 DEF Local!Bucket!Next
  <1> QED
    BY <1>3, <1>4, <1>5, <1>6, <1>7 DEF Moves

LEMMA LocalBucketBegins ==
  ASSUME Local!Init, NumbersRight
  PROVE  Local!Bucket!Init
  <1>1. Local!Sum(Local!CapacityOf) \in Nat
        /\ Local!Sum(Local!LevelOf) \in 0..(Local!Sum(Local!CapacityOf) * Second)
    BY DEF NumbersRight
  <1> QED
    BY <1>1 DEF Local!Init, Local!Bucket!Init, Local!Bucket!Full

-----------------------------------------------------------------------------
(* Steps of RedisQueue                                                     *)

LEMMA QueueConstants ==
  /\ IsFiniteSet(Producer) /\ Cardinality(Producer) \in Nat
  /\ Capacity \in Int /\ MaxBatch \in Nat \ {0} /\ MaxElements \in Nat
  BY QueueAssumption, FS_CardinalityType

LEMMA FunctionIsSeq ==
  ASSUME NEW S, NEW n \in Nat, NEW f \in [1..n -> S]
  PROVE  f \in Seq(S) /\ Len(f) = n
  <1>1. f \in Seq(S)
    BY SeqDef
  <1>2. DOMAIN f = 1..n /\ DOMAIN f = 1..Len(f) /\ Len(f) \in Nat
    BY <1>1, LenProperties
  <1>3. ASSUME NEW m \in Nat, NEW k \in Nat, 1..m = 1..k PROVE m = k
    <2>1. m \in 1..m \/ m = 0
      OBVIOUS
    <2>2. k \in 1..k \/ k = 0
      OBVIOUS
    <2> QED
      BY <1>3, <2>1, <2>2
  <1> QED
    BY <1>1, <1>2, <1>3

LEMMA RangeIs ==
  ASSUME NEW S, NEW s \in Seq(S)
  PROVE  /\ Range(s) \subseteq S /\ Len(s) \in Nat
         /\ \A i \in 1..Len(s) : s[i] \in S /\ s[i] \in Range(s)
         /\ \A x \in Range(s) : \E i \in 1..Len(s) : s[i] = x
  <1>1. Len(s) \in Nat /\ s \in [1..Len(s) -> S] /\ DOMAIN s = 1..Len(s)
    BY LenProperties
  <1> QED
    BY <1>1 DEF Range

LEMMA InRange ==
  ASSUME NEW S, NEW s, s \in Seq(S)
  PROVE  \A i \in 1..Len(s) : s[i] \in Range(s)
  BY RangeIs

LEMMA EmptyIs ==
  /\ <<>> \in Seq(Element) /\ Len(<<>>) = 0 /\ Range(<<>>) = {}
  <1>1. <<>> \in Seq(Element) /\ Len(<<>>) = 0
    BY EmptySeq
  <1>2. 1..0 = {}
    OBVIOUS
  <1> QED
    BY <1>1, <1>2, RangeIs

\* The elements of a piece of a sequence.
LEMMA PieceIs ==
  ASSUME NEW S, NEW s \in Seq(S), NEW m \in Int, NEW n \in Int, m >= 1, n <= Len(s), m <= n + 1
  PROVE  /\ SubSeq(s, m, n) \in Seq(S) /\ Len(SubSeq(s, m, n)) = (n - m) + 1
         /\ \A i \in 1..((n - m) + 1) : SubSeq(s, m, n)[i] = s[(m + i) - 1]
  <1>1. Len(s) \in Nat /\ \A i \in 1..Len(s) : s[i] \in S
    BY RangeIs
  <1>2. \A i \in m..n : s[i] \in S
    BY <1>1
  <1>3. /\ SubSeq(s, m, n) \in Seq(S)
        /\ Len(SubSeq(s, m, n)) = IF m <= n THEN n - m + 1 ELSE 0
        /\ \A i \in 1..n-m+1 : SubSeq(s, m, n)[i] = s[m+i-1]
    BY <1>2, SubSeqProperties
  <1> QED
    BY <1>3

\* Two places of the list have different elements, and so have the list and what take()
\* has returned.
LEMMA PlacesDiffer ==
  ASSUME QueueInv
  PROVE  /\ \A i, j \in 1..Len(queue) : queue[i] = queue[j] => i = j
         /\ Range(singles) \cap Range(queue) = {}
         /\ \A i, j \in 1..Len(singles) : singles[i] = singles[j] => i = j
  <1>1. queue \in Seq(Element) /\ singles \in Seq(Element)
    BY DEF QueueInv, TypeOK
  <1>2. \A e \in Element : e.nr \in Int
    BY QueueConstants DEF Element
  <1>3. /\ \A i \in 1..Len(queue) : queue[i].nr \in Int
        /\ \A i \in 1..Len(singles) : singles[i].nr \in Int
        /\ Len(queue) \in Nat /\ Len(singles) \in Nat
    BY <1>1, <1>2, RangeIs
  <1>4. ASSUME NEW i \in 1..Len(queue), NEW j \in 1..Len(queue), queue[i] = queue[j], i # j
        PROVE  FALSE
    <2>1. (i < j => queue[i].nr > queue[j].nr) /\ (j < i => queue[j].nr > queue[i].nr)
      BY <1>4 DEF QueueInv, ListInOrder
    <2>2. i < j \/ j < i
      BY <1>3, <1>4
    <2> QED
      BY <1>3, <1>4, <2>1, <2>2
  <1>5. ASSUME NEW i \in 1..Len(singles), NEW j \in 1..Len(singles), singles[i] = singles[j], i # j
        PROVE  FALSE
    <2>1. (i < j => singles[i].nr < singles[j].nr) /\ (j < i => singles[j].nr < singles[i].nr)
      BY <1>5 DEF QueueInv, SinglesInOrder
    <2>2. i < j \/ j < i
      BY <1>3, <1>5
    <2> QED
      BY <1>3, <1>5, <2>1, <2>2
  <1>6. ASSUME NEW e, e \in Range(singles), e \in Range(queue)
        PROVE  FALSE
    <2>1. PICK i \in 1..Len(singles) : singles[i] = e
      BY <1>1, <1>6, RangeIs
    <2>2. PICK j \in 1..Len(queue) : queue[j] = e
      BY <1>1, <1>6, RangeIs
    <2>3. singles[i].nr < queue[j].nr
      BY <2>1, <2>2 DEF QueueInv, ListInOrder
    <2> QED
      BY <1>3, <2>1, <2>2, <2>3
  <1> QED
    BY <1>4, <1>5, <1>6

\* A list of different elements has as many as its length.
LEMMA DifferentCount ==
  ASSUME NEW S, NEW s \in Seq(S), \A i, j \in 1..Len(s) : s[i] = s[j] => i = j
  PROVE  Len(s) = Cardinality(Range(s))
  <1>1. Len(s) \in Nat /\ s \in [1..Len(s) -> S] /\ DOMAIN s = 1..Len(s)
    BY LenProperties
  <1>2. IsFiniteSet(1..Len(s)) /\ Cardinality(1..Len(s)) = Len(s)
    BY <1>1, FS_Interval
  <1>3. s \in Bijection(1..Len(s), Range(s))
    <2>1. s \in [1..Len(s) -> Range(s)]
      BY <1>1, RangeIs
    <2>2. s \in Injection(1..Len(s), Range(s))
      BY <2>1 DEF Injection, IsInjective
    <2>3. s \in Surjection(1..Len(s), Range(s))
      BY <2>1, RangeIs DEF Surjection
    <2> QED
      BY <2>2, <2>3 DEF Bijection
  <1>4. ExistsBijection(1..Len(s), Range(s))
    BY <1>3 DEF ExistsBijection
  <1> QED
    BY <1>2, <1>4, FS_Bijection

LEMMA AddKeeps ==
  ASSUME QueueInv, NEW p \in Producer, Add(p)
  PROVE  QueueInv'
  <1>1. PICK n \in 1..MaxBatch :
          /\ source[p] = <<>> /\ offered[p] + n <= MaxElements
          /\ source' = [source EXCEPT ![p] = [i \in 1..n |-> [by |-> p, nr |-> offered[p] + i]]]
          /\ offered' = [offered EXCEPT ![p] = @ + n]
          /\ UNCHANGED <<queue, allowed, stored, singles, batches>>
    BY DEF Add
  <1>2. /\ offered \in [Producer -> 0..MaxElements] /\ source \in [Producer -> Seq(Element)]
        /\ allowed \in [Producer -> {NotYet} \cup 1..MaxBatch] /\ stored \subseteq Element
    BY DEF QueueInv, TypeOK
  <1>3. n \in Nat /\ offered[p] \in Nat /\ offered[p] + n \in 0..MaxElements /\ n <= MaxBatch
    BY <1>1, <1>2, QueueConstants
  <1> DEFINE new == [i \in 1..n |-> [by |-> p, nr |-> offered[p] + i]]
  <1>4. /\ new \in Seq(Element) /\ Len(new) = n
        /\ \A i \in 1..n : new[i] = [by |-> p, nr |-> offered[p] + i]
    <2>1. ASSUME NEW i \in 1..n PROVE [by |-> p, nr |-> offered[p] + i] \in Element
      <3>1. offered[p] + i \in 1..MaxElements
        BY <1>1, <1>3, QueueConstants
      <3> QED
        BY <3>1 DEF Element
    <2>2. new \in [1..n -> Element]
      BY <2>1
    <2>3. \A i \in 1..n : new[i] = [by |-> p, nr |-> offered[p] + i]
      OBVIOUS
    <2> HIDE DEF new
    <2> QED
      BY <1>3, <2>2, <2>3, FunctionIsSeq
  <1>5. /\ offered' \in [Producer -> 0..MaxElements] /\ offered'[p] = offered[p] + n
        /\ \A q \in Producer \ {p} : offered'[q] = offered[q]
    BY <1>1, <1>2, <1>3
  <1>6. /\ source' \in [Producer -> Seq(Element)] /\ source'[p] = new
        /\ \A q \in Producer \ {p} : source'[q] = source[q]
    <2> HIDE DEF new
    <2>1. source' = [source EXCEPT ![p] = new]
      BY <1>1 DEF new
    <2> QED
      BY <1>2, <1>4, <2>1
  <1> HIDE DEF new
  <1>7. TypeOK'
    BY <1>1, <1>5, <1>6 DEF QueueInv, TypeOK
  <1>8. allowed[p] = NotYet
    <2>1. allowed[p] # NotYet => allowed[p] <= 0
      BY <1>1, EmptyIs DEF QueueInv, SourceIsNewest
    <2> QED
      BY <1>2, <2>1, QueueConstants
  <1>9. SourceIsNewest'
    <2>1. ASSUME NEW q \in Producer
          PROVE  /\ Len(source'[q]) <= MaxBatch /\ Len(source'[q]) <= offered'[q]
                 /\ \A i \in 1..Len(source'[q]) :
                      source'[q][i] = [by |-> q, nr |-> (offered'[q] - Len(source'[q])) + i]
                 /\ allowed'[q] # NotYet => allowed'[q] <= Len(source'[q])
      <3>1. CASE q = p
        <4>1. (offered[p] + n) - n = offered[p] /\ n <= offered[p] + n
          BY <1>3
        <4> QED
          BY <1>1, <1>3, <1>4, <1>5, <1>6, <1>8, <3>1, <4>1
      <3>2. CASE q # p
        BY <1>1, <1>5, <1>6, <3>2 DEF QueueInv, SourceIsNewest
      <3> QED
        BY <3>1, <3>2
    <2> QED
      BY <2>1 DEF SourceIsNewest
  <1>10. StoredIsOlder'
    <2>1. ASSUME NEW e \in stored
          PROVE  e.nr <= offered'[e.by] - Len(source'[e.by])
      <3>1. e.nr <= offered[e.by] - Len(source[e.by]) /\ e.by \in Producer
        BY <1>2 DEF QueueInv, StoredIsOlder, Element
      <3>2. CASE e.by = p
        <4>1. offered[p] - 0 = offered[p] /\ (offered[p] + n) - n = offered[p]
          BY <1>3
        <4> QED
          BY <1>1, <1>4, <1>5, <1>6, <3>1, <3>2, <4>1, EmptyIs
      <3>3. CASE e.by # p
        BY <1>5, <1>6, <3>1, <3>3
      <3> QED
        BY <3>2, <3>3
    <2> QED
      BY <1>1, <2>1 DEF StoredIsOlder
  <1>11. ListInOrder' /\ SinglesInOrder' /\ EachInOnePlace'
    BY <1>1 DEF QueueInv, ListInOrder, SinglesInOrder, EachInOnePlace
  <1>12. RoomIsLeft'
    BY <1>1 DEF QueueInv, RoomIsLeft, Pushing, Limit
  <1> QED
    BY <1>7, <1>9, <1>10, <1>11, <1>12 DEF QueueInv

\* The producers that push, in numbers.
LEMMA PushingIs ==
  ASSUME NEW T, T \subseteq Producer
  PROVE  /\ IsFiniteSet(T) /\ Cardinality(T) \in Nat /\ Cardinality(T) <= Cardinality(Producer)
         /\ \A p \in Producer \ T : Cardinality(T) <= Cardinality(Producer) - 1
         /\ \A p \in T : Cardinality(T \ {p}) = Cardinality(T) - 1
         /\ Cardinality(T) * MaxBatch \in Nat
  <1>1. IsFiniteSet(T) /\ Cardinality(T) \in Nat /\ Cardinality(T) <= Cardinality(Producer)
    BY QueueConstants, FS_Subset, FS_CardinalityType
  <1>2. ASSUME NEW p \in Producer \ T
        PROVE  Cardinality(T) <= Cardinality(Producer) - 1
    <2>1. Cardinality(T \cup {p}) = Cardinality(T) + 1
      BY <1>1, FS_AddElement
    <2>2. Cardinality(T \cup {p}) <= Cardinality(Producer)
      <3>1. T \cup {p} \subseteq Producer
        OBVIOUS
      <3> QED
        BY <3>1, QueueConstants, FS_Subset
    <2> QED
      BY <1>1, <2>1, <2>2, QueueConstants
  <1>3. ASSUME NEW p \in T PROVE Cardinality(T \ {p}) = Cardinality(T) - 1
    BY <1>1, FS_RemoveElement
  <1>4. Cardinality(T) * MaxBatch \in Nat
    <2>1. ASSUME NEW m \in Nat, NEW n \in Nat PROVE m * n \in Nat
      OBVIOUS
    <2> QED
      BY <1>1, <2>1, QueueConstants
  <1> QED
    BY <1>1, <1>2, <1>3, <1>4

LEMMA LengthKeeps ==
  ASSUME QueueInv, NEW p \in Producer, ReadLength(p)
  PROVE  QueueInv'
  <1> DEFINE room == Room(Len(source[p]), Len(queue))
  <1>1. /\ source[p] # <<>> /\ allowed[p] = NotYet
        /\ IF room > 0 THEN allowed' = [allowed EXCEPT ![p] = room] /\ UNCHANGED source
           ELSE source' = [source EXCEPT ![p] = <<>>] /\ UNCHANGED allowed
        /\ UNCHANGED <<queue, offered, stored, singles, batches>>
    BY DEF ReadLength
  <1>2. /\ offered \in [Producer -> 0..MaxElements] /\ source \in [Producer -> Seq(Element)]
        /\ allowed \in [Producer -> {NotYet} \cup 1..MaxBatch] /\ stored \subseteq Element
        /\ queue \in Seq(Element)
    BY DEF QueueInv, TypeOK
  <1>3. /\ Len(queue) \in Nat /\ \A q \in Producer : Len(source[q]) \in Nat
        /\ Len(source[p]) <= MaxBatch
    BY <1>2, LenProperties DEF QueueInv, SourceIsNewest
  <1>4. /\ room \in Int /\ room <= Len(source[p])
        /\ Capacity > 0 /\ room > 0 => Len(queue) + room <= Capacity
    BY <1>3, QueueConstants DEF Room
  <1> HIDE DEF room
  <1>5. ListInOrder' /\ SinglesInOrder' /\ EachInOnePlace'
    BY <1>1 DEF QueueInv, ListInOrder, SinglesInOrder, EachInOnePlace
  <1>6. CASE room > 0
    <2>1. /\ allowed' = [allowed EXCEPT ![p] = room] /\ UNCHANGED <<source, offered, stored>>
          /\ room \in 1..MaxBatch /\ room # NotYet
      BY <1>1, <1>3, <1>4, <1>6, QueueConstants DEF NotYet
    <2>2. /\ allowed' \in [Producer -> {NotYet} \cup 1..MaxBatch] /\ allowed'[p] = room
          /\ \A q \in Producer \ {p} : allowed'[q] = allowed[q]
      BY <1>2, <2>1
    <2>3. TypeOK'
      BY <1>1, <2>1, <2>2 DEF QueueInv, TypeOK
    <2>4. StoredIsOlder'
      BY <2>1 DEF QueueInv, StoredIsOlder
    <2>5. SourceIsNewest'
      <3>1. ASSUME NEW q \in Producer
            PROVE  /\ Len(source[q]) <= MaxBatch /\ Len(source[q]) <= offered[q]
                   /\ \A i \in 1..Len(source[q]) :
                        source[q][i] = [by |-> q, nr |-> (offered[q] - Len(source[q])) + i]
        BY DEF QueueInv, SourceIsNewest
      <3>2. ASSUME NEW q \in Producer, allowed'[q] # NotYet PROVE allowed'[q] <= Len(source[q])
        <4>1. CASE q = p
          BY <1>4, <2>2, <4>1
        <4>2. CASE q # p
          BY <2>2, <3>2, <4>2 DEF QueueInv, SourceIsNewest
        <4> QED
          BY <4>1, <4>2
      <3> QED
        BY <2>1, <3>1, <3>2 DEF SourceIsNewest
    <2>6. RoomIsLeft'
      <3>1. SUFFICES ASSUME Capacity > 0
                     PROVE  \E q \in Pushing' :
                              Len(queue') + allowed'[q] + Cardinality(Pushing' \ {q}) * MaxBatch <= Limit
        BY DEF RoomIsLeft, Limit
      <3>2. p \in Pushing' /\ Pushing' \subseteq Producer
        BY <2>1, <2>2 DEF Pushing
      <3> DEFINE others == Cardinality(Pushing' \ {p})
      <3>3. /\ others \in Nat /\ others <= Cardinality(Producer) - 1
            /\ others * MaxBatch \in Nat
        <4>1. Pushing' \ {p} \subseteq Producer /\ p \in Producer \ (Pushing' \ {p})
          BY <3>2
        <4> QED
          BY <4>1, PushingIs
      <3> HIDE DEF others
      <3>4. /\ others * MaxBatch <= (Cardinality(Producer) - 1) * MaxBatch
            /\ (Cardinality(Producer) - 1) * MaxBatch \in Int
        <4>1. others \in Int /\ Cardinality(Producer) - 1 \in Int /\ MaxBatch \in Nat \ {0}
          BY <3>3, QueueConstants
        <4> QED
          BY <3>3, <4>1, InTokens
      <3>5. Len(queue) + room <= Capacity
        BY <1>4, <1>6, <3>1
      <3>6. Len(queue) + room + others * MaxBatch <= Limit
        BY <1>3, <1>4, <3>3, <3>4, <3>5, QueueConstants DEF Limit
      <3> QED
        BY <1>1, <2>2, <3>2, <3>6 DEF others
    <2> QED
      BY <1>5, <2>3, <2>4, <2>5, <2>6 DEF QueueInv
  <1>7. CASE ~ (room > 0)
    <2>1. source' = [source EXCEPT ![p] = <<>>] /\ UNCHANGED <<queue, allowed, offered, stored>>
      BY <1>1, <1>7
    <2>2. /\ source' \in [Producer -> Seq(Element)] /\ source'[p] = <<>> /\ Len(source'[p]) = 0
          /\ \A q \in Producer \ {p} : source'[q] = source[q]
      BY <1>2, <2>1, EmptyIs
    <2>3. TypeOK'
      BY <1>1, <2>1, <2>2 DEF QueueInv, TypeOK
    <2>4. ASSUME NEW q \in Producer
          PROVE  /\ Len(source'[q]) <= MaxBatch /\ Len(source'[q]) <= offered[q]
                 /\ \A i \in 1..Len(source'[q]) :
                      source'[q][i] = [by |-> q, nr |-> (offered[q] - Len(source'[q])) + i]
                 /\ allowed[q] # NotYet => allowed[q] <= Len(source'[q])
                 /\ offered[q] - Len(source[q]) <= offered[q] - Len(source'[q])
      <3>1. offered[q] \in Nat /\ Len(source[q]) \in Nat
        BY <1>2, <1>3, QueueConstants
      <3>2. CASE q = p
        BY <1>1, <2>2, <3>1, <3>2, QueueConstants
      <3>3. CASE q # p
        <4>1. source'[q] = source[q]
          BY <2>2, <3>3
        <4> QED
          BY <3>1, <4>1 DEF QueueInv, SourceIsNewest
      <3> QED
        BY <3>2, <3>3
    <2>5. SourceIsNewest'
      BY <2>1, <2>4 DEF SourceIsNewest
    <2>6. StoredIsOlder'
      <3>1. ASSUME NEW e \in stored PROVE e.nr <= offered[e.by] - Len(source'[e.by])
        <4>1. /\ e.by \in Producer /\ e.nr \in Int
              /\ e.nr <= offered[e.by] - Len(source[e.by])
          BY <1>2, QueueConstants DEF QueueInv, StoredIsOlder, Element
        <4>2. offered[e.by] \in Int /\ Len(source[e.by]) \in Int /\ Len(source'[e.by]) \in Int
          BY <1>2, <1>3, <2>2, <4>1, LenProperties
        <4>3. offered[e.by] - Len(source[e.by]) <= offered[e.by] - Len(source'[e.by])
          BY <2>4, <4>1
        <4> QED
          BY <4>1, <4>2, <4>3
      <3> QED
        BY <2>1, <3>1 DEF StoredIsOlder
    <2>7. RoomIsLeft'
      BY <2>1 DEF QueueInv, RoomIsLeft, Pushing, Limit
    <2> QED
      BY <1>5, <2>3, <2>5, <2>6, <2>7 DEF QueueInv
  <1> QED
    BY <1>6, <1>7

LEMMA ReversedIs ==
  ASSUME NEW S, NEW s \in Seq(S)
  PROVE  /\ Reverse(s) \in Seq(S) /\ Len(Reverse(s)) = Len(s)
         /\ \A i \in 1..Len(s) : Reverse(s)[i] = s[(Len(s) - i) + 1]
  <1>1. Len(s) \in Nat /\ \A i \in 1..Len(s) : s[i] \in S
    BY RangeIs
  <1>2. ASSUME NEW i \in 1..Len(s) PROVE s[(Len(s) - i) + 1] \in S
    <2>1. (Len(s) - i) + 1 \in 1..Len(s)
      BY <1>1
    <2> QED
      BY <1>1, <2>1
  <1>3. Reverse(s) \in [1..Len(s) -> S]
    BY <1>2 DEF Reverse
  <1>4. \A i \in 1..Len(s) : Reverse(s)[i] = s[(Len(s) - i) + 1]
    BY DEF Reverse
  <1> QED
    BY <1>1, <1>3, <1>4, FunctionIsSeq

LEMMA FieldsOf ==
  ASSUME NEW e, NEW p, NEW n, e = [by |-> p, nr |-> n]
  PROVE  e.by = p /\ e.nr = n
  OBVIOUS

\* The elements that LPUSH is given, and the list after it.
Older(p) == offered[p] - Len(source[p])

LEMMA PushedIs ==
  ASSUME QueueInv, NEW p \in Producer, Push(p)
  PROVE  /\ allowed[p] \in 1..MaxBatch /\ allowed[p] <= Len(source[p])
         /\ Older(p) \in Int /\ Len(queue) \in Nat /\ Len(source[p]) \in Nat /\ offered[p] \in Int
         /\ queue' \in Seq(Element) /\ Len(queue') = allowed[p] + Len(queue)
         /\ \A i \in 1..allowed[p] :
              queue'[i].by = p /\ queue'[i].nr = Older(p) + ((allowed[p] - i) + 1)
         /\ \A i \in 1..Len(queue') : i > allowed[p] => queue'[i] = queue[i - allowed[p]]
         /\ Range(Accepted(p)) \subseteq Element
         /\ \A e \in Range(Accepted(p)) : e.by = p /\ Older(p) < e.nr /\ e.nr <= offered[p]
         /\ Range(queue') = Range(Accepted(p)) \cup Range(queue)
  <1> DEFINE a == allowed[p]
             acc == Accepted(p)
             rev == Reverse(acc)
  <1>1. /\ offered[p] \in Nat /\ source[p] \in Seq(Element) /\ Len(source[p]) \in Nat
        /\ queue \in Seq(Element) /\ Len(queue) \in Nat
        /\ a \in {NotYet} \cup 1..MaxBatch /\ a > 0
    <2>1. offered[p] \in Nat /\ source[p] \in Seq(Element) /\ queue \in Seq(Element)
      BY QueueConstants DEF QueueInv, TypeOK
    <2>2. a \in {NotYet} \cup 1..MaxBatch /\ a > 0
      BY DEF QueueInv, TypeOK, Push
    <2> QED
      BY <2>1, <2>2, LenProperties
  <1>2. a \in 1..MaxBatch /\ a # NotYet
    BY <1>1, QueueConstants DEF NotYet
  <1>3. a <= Len(source[p])
    BY <1>2 DEF QueueInv, SourceIsNewest
  <1>4. /\ acc \in Seq(Element) /\ Len(acc) = a
        /\ \A i \in 1..a : acc[i] = source[p][i]
    <2>1. a \in Int /\ 1 <= a + 1 /\ (a - 1) + 1 = a /\ \A i \in 1..a : (1 + i) - 1 = i
      BY <1>2, QueueConstants
    <2>2. /\ acc \in Seq(Element) /\ Len(acc) = (a - 1) + 1
          /\ \A i \in 1..((a - 1) + 1) : acc[i] = source[p][(1 + i) - 1]
      BY <1>1, <1>3, <2>1, PieceIs DEF Accepted
    <2> QED
      BY <2>1, <2>2
  <1>5. /\ rev \in Seq(Element) /\ Len(rev) = a
        /\ \A i \in 1..a : rev[i] = acc[(a - i) + 1]
    BY <1>4, ReversedIs
  <1>6. queue' = rev \o queue
    BY DEF Push, LPush
  <1> HIDE DEF rev
  <1>7. Older(p) \in Int /\ \A i \in 1..a : acc[i] = [by |-> p, nr |-> Older(p) + i]
    <2>1. Older(p) \in Int
      BY <1>1 DEF Older
    <2>2. \A i \in 1..Len(source[p]) : source[p][i] = [by |-> p, nr |-> Older(p) + i]
      BY DEF QueueInv, SourceIsNewest, Older
    <2>3. \A i \in 1..a : i \in 1..Len(source[p])
      BY <1>1, <1>2, <1>3, QueueConstants
    <2> QED
      BY <1>4, <2>1, <2>2, <2>3
  <1> HIDE DEF acc, a
  <1>8. /\ queue' \in Seq(Element) /\ Len(queue') = a + Len(queue)
        /\ \A i \in 1..(a + Len(queue)) : queue'[i] = IF i <= a THEN rev[i] ELSE queue[i - a]
    <2>1. /\ rev \o queue \in Seq(Element) /\ Len(rev \o queue) = Len(rev) + Len(queue)
          /\ \A i \in 1..(Len(rev) + Len(queue)) :
               (rev \o queue)[i] = IF i <= Len(rev) THEN rev[i] ELSE queue[i - Len(rev)]
      BY <1>1, <1>5, ConcatProperties
    <2> QED
      BY <1>5, <1>6, <2>1
  <1>9. \A i \in 1..a : queue'[i] = [by |-> p, nr |-> Older(p) + ((a - i) + 1)]
    <2>1. ASSUME NEW i \in 1..a
          PROVE  queue'[i] = [by |-> p, nr |-> Older(p) + ((a - i) + 1)]
      <3>1. (a - i) + 1 \in 1..a /\ i \in 1..(a + Len(queue)) /\ i <= a
        BY <1>1, <1>2, QueueConstants
      <3>2. queue'[i] = acc[(a - i) + 1]
        BY <1>5, <1>8, <3>1
      <3> QED
        BY <1>7, <3>1, <3>2
    <2> QED
      BY <2>1
  <1>10. \A i \in 1..Len(queue') : i > a => queue'[i] = queue[i - a]
    BY <1>2, <1>8, QueueConstants
  <1>11. Range(acc) \subseteq Element
    BY <1>4, RangeIs
  <1>12. \A e \in Range(acc) : e.by = p /\ Older(p) < e.nr /\ e.nr <= offered[p]
    <2>1. ASSUME NEW e \in Range(acc) PROVE e.by = p /\ Older(p) < e.nr /\ e.nr <= offered[p]
      <3>1. PICK i \in 1..a : acc[i] = e
        BY <1>4, RangeIs
      <3>2. e.by = p /\ e.nr = Older(p) + i
        <4>1. e = [by |-> p, nr |-> Older(p) + i]
          BY <1>7, <3>1
        <4> QED
          BY <4>1, FieldsOf
      <3>3. Older(p) = offered[p] - Len(source[p])
        BY DEF Older
      <3>4. i <= Len(source[p])
        BY <1>1, <1>2, <1>3, QueueConstants DEF a
      <3> QED
        BY <1>1, <1>2, <3>2, <3>3, <3>4, QueueConstants
    <2> QED
      BY <2>1
  <1>13. Range(queue') = Range(acc) \cup Range(queue)
    <2>1. ASSUME NEW e \in Range(queue') PROVE e \in Range(acc) \cup Range(queue)
      <3>1. PICK i \in 1..Len(queue') : queue'[i] = e
        BY <1>8, RangeIs
      <3>2. CASE i <= a
        <4>1. (a - i) + 1 \in 1..a /\ i \in 1..a
          BY <1>1, <1>2, <1>8, <3>2, QueueConstants
        <4>2. e = acc[(a - i) + 1]
          BY <1>5, <1>8, <3>1, <3>2, <4>1
        <4> QED
          BY <1>4, <4>1, <4>2, RangeIs
      <3>3. CASE i > a
        <4>1. i - a \in 1..Len(queue)
          BY <1>1, <1>2, <1>8, <3>3, QueueConstants
        <4>2. e = queue[i - a]
          BY <1>10, <3>1, <3>3
        <4> QED
          BY <1>1, <4>1, <4>2, RangeIs
      <3> QED
        BY <1>1, <1>2, <1>8, <3>2, <3>3, QueueConstants
    <2>2. ASSUME NEW e \in Range(acc) PROVE e \in Range(queue')
      <3>1. PICK i \in 1..a : acc[i] = e
        BY <1>4, RangeIs
      <3>2. (a - i) + 1 \in 1..a /\ (a - ((a - i) + 1)) + 1 = i
            /\ (a - i) + 1 \in 1..Len(queue')
        BY <1>1, <1>2, <1>8, QueueConstants
      <3>3. queue'[(a - i) + 1] = [by |-> p, nr |-> Older(p) + i]
        BY <1>9, <3>2
      <3>4. queue'[(a - i) + 1] = e
        BY <1>7, <3>1, <3>3
      <3> QED
        BY <1>8, <3>2, <3>4, RangeIs
    <2>3. ASSUME NEW e \in Range(queue) PROVE e \in Range(queue')
      <3>1. PICK i \in 1..Len(queue) : queue[i] = e
        BY <1>1, RangeIs
      <3>2. a + i \in 1..Len(queue') /\ a + i > a /\ (a + i) - a = i
        BY <1>1, <1>2, <1>8, QueueConstants
      <3>3. queue'[a + i] = queue[(a + i) - a]
        BY <1>10, <3>2
      <3>4. queue'[a + i] = e
        BY <3>1, <3>2, <3>3
      <3> QED
        BY <1>8, <3>2, <3>4, RangeIs
    <2> QED
      BY <2>1, <2>2, <2>3
  <1>14. \A i \in 1..a : queue'[i].by = p /\ queue'[i].nr = Older(p) + ((a - i) + 1)
    <2>1. ASSUME NEW i \in 1..a
          PROVE  queue'[i].by = p /\ queue'[i].nr = Older(p) + ((a - i) + 1)
      <3>1. queue'[i] = [by |-> p, nr |-> Older(p) + ((a - i) + 1)]
        BY <1>9
      <3> QED
        BY <3>1, FieldsOf
    <2> QED
      BY <2>1
  <1>15. Len(queue) \in Nat /\ Len(source[p]) \in Nat /\ offered[p] \in Int /\ Older(p) \in Int
    BY <1>1, <1>7
  <1>16. queue' \in Seq(Element) /\ Len(queue') = a + Len(queue)
    BY <1>8
  <1> QED
    BY <1>2, <1>3, <1>10, <1>11, <1>12, <1>13, <1>14, <1>15, <1>16, Zenon DEF a, acc

LEMMA PushKeeps ==
  ASSUME QueueInv, NEW p \in Producer, Push(p)
  PROVE  QueueInv'
  <1> DEFINE a == allowed[p]
             new == Range(Accepted(p))
  <1>1. /\ stored' = stored \cup new
        /\ source' = [source EXCEPT ![p] = <<>>] /\ allowed' = [allowed EXCEPT ![p] = NotYet]
        /\ UNCHANGED <<offered, singles, batches>>
    BY DEF Push
  <1>2. /\ a \in 1..MaxBatch /\ a <= Len(source[p])
        /\ Older(p) \in Int /\ Len(queue) \in Nat /\ Len(source[p]) \in Nat /\ offered[p] \in Int
        /\ queue' \in Seq(Element) /\ Len(queue') = a + Len(queue)
        /\ \A i \in 1..a : queue'[i].by = p /\ queue'[i].nr = Older(p) + ((a - i) + 1)
        /\ \A i \in 1..Len(queue') : i > a => queue'[i] = queue[i - a]
        /\ new \subseteq Element
        /\ \A e \in new : e.by = p /\ Older(p) < e.nr /\ e.nr <= offered[p]
        /\ Range(queue') = new \cup Range(queue)
    BY PushedIs
  <1> HIDE DEF a, new
  <1>lengths. /\ a \in Int /\ 1 <= a /\ a <= MaxBatch /\ Len(queue) \in Nat /\ Older(p) \in Int
              /\ Len(queue') = a + Len(queue) /\ MaxBatch \in Int
    BY <1>2, QueueConstants
  <1>3. /\ offered \in [Producer -> 0..MaxElements] /\ source \in [Producer -> Seq(Element)]
        /\ allowed \in [Producer -> {NotYet} \cup 1..MaxBatch] /\ stored \subseteq Element
        /\ queue \in Seq(Element) /\ singles \in Seq(Element)
    BY DEF QueueInv, TypeOK
  <1>4. /\ source' \in [Producer -> Seq(Element)] /\ source'[p] = <<>> /\ Len(source'[p]) = 0
        /\ \A q \in Producer \ {p} : source'[q] = source[q]
    BY <1>1, <1>3, EmptyIs
  <1>5. /\ allowed' \in [Producer -> {NotYet} \cup 1..MaxBatch] /\ allowed'[p] = NotYet
        /\ \A q \in Producer \ {p} : allowed'[q] = allowed[q]
    BY <1>1, <1>3
  <1>6. TypeOK'
    BY <1>1, <1>2, <1>4, <1>5 DEF QueueInv, TypeOK
  <1>7. \A e \in stored : e \in Element /\ e.by \in Producer /\ e.nr \in Int
                        /\ (e.by = p => e.nr <= Older(p))
    BY <1>3, QueueConstants DEF QueueInv, StoredIsOlder, Older, Element
  <1>8. SourceIsNewest'
    <2>1. ASSUME NEW q \in Producer
          PROVE  /\ Len(source'[q]) <= MaxBatch /\ Len(source'[q]) <= offered[q]
                 /\ \A i \in 1..Len(source'[q]) :
                      source'[q][i] = [by |-> q, nr |-> (offered[q] - Len(source'[q])) + i]
                 /\ allowed'[q] # NotYet => allowed'[q] <= Len(source'[q])
      <3>1. CASE q = p
        <4>1. offered[q] \in Nat
          BY <1>3, QueueConstants
        <4> QED
          BY <1>4, <1>5, <3>1, <4>1, QueueConstants
      <3>2. CASE q # p
        <4>1. source'[q] = source[q] /\ allowed'[q] = allowed[q]
          BY <1>4, <1>5, <3>2
        <4> QED
          BY <4>1 DEF QueueInv, SourceIsNewest
      <3> QED
        BY <3>1, <3>2
    <2> QED
      BY <1>1, <2>1 DEF SourceIsNewest
  <1>9. StoredIsOlder'
    <2>1. ASSUME NEW e \in stored' PROVE e.nr <= offered[e.by] - Len(source'[e.by])
      <3>1. CASE e \in new
        <4>1. e.by = p /\ e.nr <= offered[p] /\ offered[p] - 0 = offered[p]
          BY <1>2, <3>1
        <4> QED
          BY <1>4, <4>1
      <3>2. CASE e \in stored /\ e.by = p
        <4>1. e.nr \in Int /\ e.nr <= Older(p) /\ Older(p) = offered[p] - Len(source[p])
          BY <1>7, <3>2 DEF Older
        <4>2. e.nr <= offered[p] - 0
          BY <1>2, <4>1
        <4> QED
          BY <1>4, <3>2, <4>2
      <3>3. CASE e \in stored /\ e.by # p
        <4>1. e.nr <= offered[e.by] - Len(source[e.by]) /\ source'[e.by] = source[e.by]
          BY <1>4, <1>7, <3>3 DEF QueueInv, StoredIsOlder
        <4> QED
          BY <4>1
      <3> QED
        BY <1>1, <3>1, <3>2, <3>3
    <2> QED
      BY <1>1, <2>1 DEF StoredIsOlder
  <1>10. Range(queue) \subseteq stored /\ Range(singles) \subseteq stored /\ batches \subseteq stored
    BY DEF QueueInv, EachInOnePlace
  <1>11. ListInOrder'
    <2>1. ASSUME NEW i \in 1..Len(queue'), NEW j \in 1..Len(queue'), i < j,
                 queue'[i].by = queue'[j].by
          PROVE  queue'[i].nr > queue'[j].nr
      <3>1. CASE j <= a
        <4>1. i \in 1..a /\ j \in 1..a
          BY <1>lengths, <2>1, <3>1
        <4>2. queue'[i].nr = Older(p) + ((a - i) + 1) /\ queue'[j].nr = Older(p) + ((a - j) + 1)
          BY <1>2, <4>1
        <4> QED
          BY <1>lengths, <2>1, <4>1, <4>2
      <3>2. CASE i <= a /\ j > a
        <4>1. i \in 1..a /\ j - a \in 1..Len(queue)
          BY <1>lengths, <2>1, <3>2
        <4>2. queue'[i].by = p /\ queue'[i].nr = Older(p) + ((a - i) + 1)
          BY <1>2, <4>1
        <4>3. queue'[j] = queue[j - a] /\ queue'[j] \in stored
          <5>1. queue'[j] = queue[j - a]
            BY <1>2, <3>2
          <5>2. queue[j - a] \in Range(queue)
            BY <1>3, <4>1, RangeIs
          <5> QED
            BY <1>10, <5>1, <5>2
        <4>4. queue'[j].nr \in Int /\ queue'[j].nr <= Older(p)
          BY <1>7, <2>1, <4>2, <4>3
        <4> QED
          BY <1>lengths, <4>1, <4>2, <4>4
      <3>3. CASE i > a
        <4>1. i - a \in 1..Len(queue) /\ j - a \in 1..Len(queue) /\ i - a < j - a /\ j > a
          BY <1>lengths, <2>1, <3>3
        <4>2. queue'[i] = queue[i - a] /\ queue'[j] = queue[j - a]
          BY <1>2, <3>3, <4>1
        <4> QED
          BY <2>1, <4>1, <4>2 DEF QueueInv, ListInOrder
      <3> QED
        BY <1>lengths, <3>1, <3>2, <3>3
    <2>2. ASSUME NEW i \in 1..Len(singles), NEW j \in 1..Len(queue'), singles[i].by = queue'[j].by
          PROVE  singles[i].nr < queue'[j].nr
      <3>1. CASE j <= a
        <4>1. j \in 1..a
          BY <1>lengths, <3>1
        <4>2. queue'[j].by = p /\ queue'[j].nr = Older(p) + ((a - j) + 1)
          BY <1>2, <4>1
        <4>3. singles[i] \in stored
          BY <1>3, <1>10, RangeIs
        <4>4. singles[i].nr \in Int /\ singles[i].nr <= Older(p)
          BY <1>7, <2>2, <4>2, <4>3
        <4> QED
          BY <1>lengths, <4>1, <4>2, <4>4
      <3>2. CASE j > a
        <4>1. j - a \in 1..Len(queue)
          BY <1>lengths, <3>2
        <4>2. queue'[j] = queue[j - a]
          BY <1>2, <3>2
        <4> QED
          BY <2>2, <4>1, <4>2 DEF QueueInv, ListInOrder
      <3> QED
        BY <1>lengths, <3>1, <3>2
    <2> QED
      BY <1>1, <2>1, <2>2 DEF ListInOrder
  <1>12. SinglesInOrder'
    BY <1>1 DEF QueueInv, SinglesInOrder
  <1>13. EachInOnePlace'
    <2>1. ASSUME NEW e \in new PROVE e \notin stored
      <3>1. e.by = p /\ Older(p) < e.nr
        BY <1>2
      <3> QED
        BY <1>2, <1>7, <3>1
    <2>2. new \cap batches = {}
      BY <1>10, <2>1
    <2> QED
      BY <1>1, <1>2, <2>2 DEF QueueInv, EachInOnePlace
  <1>14. RoomIsLeft'
    <2>1. SUFFICES ASSUME Capacity > 0 PROVE RoomIsLeft'
      BY DEF RoomIsLeft
    <2>2. Pushing' = Pushing \ {p} /\ p \in Pushing /\ Pushing \subseteq Producer
      <3>1. a # NotYet
        BY <1>2, QueueConstants DEF NotYet
      <3> QED
        BY <1>1, <1>5, <3>1 DEF Pushing, a
    <2>3. /\ Cardinality(Pushing) \in Int /\ Cardinality(Pushing') = Cardinality(Pushing) - 1
          /\ Cardinality(Pushing) * MaxBatch \in Int
          /\ Cardinality(Pushing') * MaxBatch = Cardinality(Pushing) * MaxBatch - MaxBatch
      <3>1. Cardinality(Pushing) \in Nat /\ Cardinality(Pushing \ {p}) = Cardinality(Pushing) - 1
            /\ Cardinality(Pushing) * MaxBatch \in Nat
        BY <2>2, PushingIs
      <3>2. \A n \in Int : (n - 1) * MaxBatch = n * MaxBatch - MaxBatch
        BY QueueConstants
      <3> QED
        BY <2>2, <3>1, <3>2
    <2>4. Limit' = Limit /\ Limit \in Int
      <3>1. \A m \in Int, n \in Nat : m * n \in Int
        OBVIOUS
      <3>2. (Cardinality(Producer) - 1) * MaxBatch \in Int
        BY <3>1, QueueConstants
      <3> QED
        BY <3>2, QueueConstants DEF Limit
    <2>5. CASE Len(queue) + Cardinality(Pushing) * MaxBatch <= Limit
      <3>1. Len(queue') + Cardinality(Pushing') * MaxBatch <= Limit
        BY <1>lengths, <2>3, <2>4, <2>5
      <3> QED
        BY <2>4, <3>1 DEF RoomIsLeft
    <2>6. CASE \E q \in Pushing :
                 Len(queue) + allowed[q] + Cardinality(Pushing \ {q}) * MaxBatch <= Limit
      <3>1. PICK q \in Pushing :
                 Len(queue) + allowed[q] + Cardinality(Pushing \ {q}) * MaxBatch <= Limit
        BY <2>6
      <3>2. CASE q = p
        <4>1. Len(queue') + Cardinality(Pushing') * MaxBatch <= Limit
          <5>1. (Len(queue) + a) + (Cardinality(Pushing) - 1) * MaxBatch <= Limit
            BY <2>2, <2>3, <3>1, <3>2 DEF a
          <5> QED
            BY <1>lengths, <2>3, <2>4, <5>1
        <4> QED
          BY <2>4, <4>1 DEF RoomIsLeft
      <3>3. CASE q # p
        <4>1. /\ q \in Pushing' /\ allowed'[q] = allowed[q] /\ allowed[q] \in Int
              /\ p \in Pushing \ {q} /\ Pushing \ {q} \subseteq Producer
              /\ Pushing' \ {q} = (Pushing \ {q}) \ {p}
          BY <1>3, <1>5, <2>2, <3>3, QueueConstants DEF NotYet
        <4>2. /\ Cardinality(Pushing \ {q}) \in Nat
              /\ Cardinality((Pushing \ {q}) \ {p}) = Cardinality(Pushing \ {q}) - 1
              /\ Cardinality(Pushing \ {q}) * MaxBatch \in Nat
          BY <4>1, PushingIs
        <4>3. \A n \in Int : (n - 1) * MaxBatch = n * MaxBatch - MaxBatch
          BY QueueConstants
        <4>4. Cardinality(Pushing' \ {q}) * MaxBatch = Cardinality(Pushing \ {q}) * MaxBatch - MaxBatch
          <5>1. Cardinality(Pushing' \ {q}) = Cardinality(Pushing \ {q}) - 1
            BY <4>1, <4>2
          <5> QED
            BY <4>2, <4>3, <5>1
        <4>5. Len(queue') + allowed'[q] + Cardinality(Pushing' \ {q}) * MaxBatch <= Limit
          <5>1. ASSUME NEW l \in Int, NEW k \in Int, NEW m \in Int, NEW x \in Int, NEW b \in Int,
                       NEW most \in Int, l + m + x <= most, k <= b
                PROVE  (k + l) + m + (x - b) <= most
            BY <5>1
          <5>2. a \in Int /\ a <= MaxBatch /\ MaxBatch \in Int /\ Len(queue) \in Int
                /\ Cardinality(Pushing \ {q}) * MaxBatch \in Int
            BY <1>2, <4>2, QueueConstants
          <5>3. (a + Len(queue)) + allowed[q] + (Cardinality(Pushing \ {q}) * MaxBatch - MaxBatch) <= Limit
            BY <2>4, <3>1, <4>1, <5>1, <5>2
          <5> QED
            BY <1>2, <4>1, <4>4, <5>3
        <4> QED
          BY <2>4, <4>1, <4>5 DEF RoomIsLeft
      <3> QED
        BY <3>2, <3>3
    <2> QED
      BY <2>1, <2>5, <2>6 DEF QueueInv, RoomIsLeft
  <1> QED
    BY <1>6, <1>8, <1>9, <1>11, <1>12, <1>13, <1>14 DEF QueueInv

\* Whoever takes leaves room and the producers as they are.
LEMMA TakersKeep ==
  ASSUME QueueInv, UNCHANGED <<offered, source, allowed, stored>>,
         queue' \in Seq(Element), Len(queue') <= Len(queue)
  PROVE  SourceIsNewest' /\ StoredIsOlder' /\ RoomIsLeft'
  <1>1. SourceIsNewest' /\ StoredIsOlder'
    BY DEF QueueInv, SourceIsNewest, StoredIsOlder
  <1>2. Pushing' = Pushing /\ Limit' = Limit /\ Pushing \subseteq Producer
    BY DEF Pushing, Limit
  <1>3. /\ Len(queue) \in Int /\ Len(queue') \in Int /\ Limit \in Int
        /\ Cardinality(Pushing) * MaxBatch \in Int
        /\ \A q \in Pushing : Cardinality(Pushing \ {q}) * MaxBatch \in Int /\ allowed[q] \in Int
    <2>1. Len(queue) \in Int /\ Len(queue') \in Int
      BY LenProperties DEF QueueInv, TypeOK
    <2>2. \A m \in Int, n \in Nat : m * n \in Int
      OBVIOUS
    <2>3. (Cardinality(Producer) - 1) * MaxBatch \in Int
      BY <2>2, QueueConstants
    <2>4. Limit \in Int
      BY <2>3, QueueConstants DEF Limit
    <2>5. Cardinality(Pushing) * MaxBatch \in Int
      BY <1>2, PushingIs
    <2>6. ASSUME NEW q \in Pushing
          PROVE  Cardinality(Pushing \ {q}) * MaxBatch \in Int /\ allowed[q] \in Int
      <3>1. Pushing \ {q} \subseteq Producer /\ q \in Producer
        BY <1>2
      <3>2. Cardinality(Pushing \ {q}) * MaxBatch \in Int
        BY <3>1, PushingIs
      <3> QED
        BY <3>1, <3>2, QueueConstants DEF QueueInv, TypeOK, NotYet
    <2> QED
      BY <2>1, <2>4, <2>5, <2>6
  <1>4. RoomIsLeft'
    <2>1. SUFFICES ASSUME Capacity > 0 PROVE RoomIsLeft'
      BY DEF RoomIsLeft
    <2>2. CASE Len(queue) + Cardinality(Pushing) * MaxBatch <= Limit
      <3>1. Len(queue') + Cardinality(Pushing) * MaxBatch <= Limit
        BY <1>3, <2>2
      <3> QED
        BY <1>2, <3>1 DEF RoomIsLeft
    <2>3. CASE \E q \in Pushing :
                 Len(queue) + allowed[q] + Cardinality(Pushing \ {q}) * MaxBatch <= Limit
      <3>1. PICK q \in Pushing :
                 Len(queue) + allowed[q] + Cardinality(Pushing \ {q}) * MaxBatch <= Limit
        BY <2>3
      <3>2. Len(queue') + allowed[q] + Cardinality(Pushing \ {q}) * MaxBatch <= Limit
        BY <1>3, <3>1
      <3> QED
        BY <1>2, <3>2 DEF RoomIsLeft
    <2> QED
      BY <2>1, <2>2, <2>3 DEF QueueInv, RoomIsLeft
  <1> QED
    BY <1>1, <1>4

LEMMA TakeOneKeeps ==
  ASSUME QueueInv, TakeOne
  PROVE  QueueInv'
  <1> DEFINE len == Len(queue)
             last == queue[len]
             n == Len(singles)
  <1>1. /\ queue # <<>> /\ singles' = Append(singles, last) /\ queue' = SubSeq(queue, 1, len - 1)
        /\ UNCHANGED <<offered, source, allowed, stored, batches>>
    BY DEF TakeOne, Last, Front
  <1>2. /\ queue \in Seq(Element) /\ singles \in Seq(Element) /\ n \in Nat
        /\ len \in Nat /\ 1 <= len /\ last \in Element /\ last \in Range(queue)
    <2>1. queue \in Seq(Element) /\ singles \in Seq(Element)
      BY DEF QueueInv, TypeOK
    <2>2. len \in Nat \ {0} /\ n \in Nat
      BY <1>1, <2>1, EmptySeq, LenProperties
    <2>3. len \in 1..len
      BY <2>2
    <2> QED
      BY <2>1, <2>2, <2>3, RangeIs
  <1>3. /\ queue' \in Seq(Element) /\ Len(queue') = len - 1
        /\ \A i \in 1..(len - 1) : queue'[i] = queue[i]
    <2>1. 1 \in Int /\ len - 1 \in Int /\ 1 <= (len - 1) + 1 /\ len - 1 <= len
          /\ ((len - 1) - 1) + 1 = len - 1 /\ \A i \in 1..(len - 1) : (1 + i) - 1 = i
      BY <1>2
    <2>2. /\ queue' \in Seq(Element) /\ Len(queue') = ((len - 1) - 1) + 1
          /\ \A i \in 1..(((len - 1) - 1) + 1) : queue'[i] = queue[(1 + i) - 1]
      BY <1>1, <1>2, <2>1, PieceIs
    <2> QED
      BY <2>1, <2>2
  <1>4. /\ singles' \in Seq(Element) /\ Len(singles') = n + 1 /\ singles'[n + 1] = last
        /\ \A i \in 1..n : singles'[i] = singles[i]
    BY <1>1, <1>2, AppendProperties
  <1> HIDE DEF len, last, n
  <1>5. TypeOK'
    BY <1>1, <1>3, <1>4 DEF QueueInv, TypeOK
  <1>6. SourceIsNewest' /\ StoredIsOlder' /\ RoomIsLeft'
    <2>1. Len(queue') <= Len(queue)
      BY <1>2, <1>3 DEF len
    <2> QED
      BY <1>1, <1>3, <2>1, TakersKeep
  <1>7. /\ \A i, j \in 1..len :
             i < j /\ queue[i].by = queue[j].by => queue[i].nr > queue[j].nr
        /\ \A i \in 1..n, j \in 1..len :
             singles[i].by = queue[j].by => singles[i].nr < queue[j].nr
        /\ \A i, j \in 1..n :
             i < j /\ singles[i].by = singles[j].by => singles[i].nr < singles[j].nr
    BY DEF QueueInv, ListInOrder, SinglesInOrder, len, n
  <1>8. /\ \A e \in Element : e.nr \in Int
        /\ \A i \in 1..len : queue[i] \in Element
    <2>1. \A e \in Element : e.nr \in Int
      BY QueueConstants DEF Element
    <2>2. \A i \in 1..len : queue[i] \in Element
      BY <1>2, RangeIs DEF len
    <2> QED
      BY <2>1, <2>2
  <1>9. ListInOrder'
    <2>1. ASSUME NEW i \in 1..Len(queue'), NEW j \in 1..Len(queue'), i < j,
                 queue'[i].by = queue'[j].by
          PROVE  queue'[i].nr > queue'[j].nr
      <3>1. i \in 1..len /\ j \in 1..len /\ i \in 1..(len - 1) /\ j \in 1..(len - 1)
        BY <1>2, <1>3
      <3> QED
        BY <1>3, <1>7, <2>1, <3>1
    <2>2. ASSUME NEW i \in 1..Len(singles'), NEW j \in 1..Len(queue'),
                 singles'[i].by = queue'[j].by
          PROVE  singles'[i].nr < queue'[j].nr
      <3>1. j \in 1..len /\ j \in 1..(len - 1) /\ j < len /\ len \in 1..len
        BY <1>2, <1>3
      <3>2. queue'[j] = queue[j]
        BY <1>3, <3>1
      <3>3. CASE i = n + 1
        <4>1. singles'[i] = queue[len]
          BY <1>4, <3>3 DEF last
        <4>2. queue[j].nr > queue[len].nr /\ queue[j].nr \in Int /\ queue[len].nr \in Int
          BY <1>7, <1>8, <2>2, <3>1, <3>2, <4>1
        <4> QED
          BY <3>2, <4>1, <4>2
      <3>4. CASE i # n + 1
        <4>1. i \in 1..n
          BY <1>2, <1>4, <3>4
        <4>2. singles'[i] = singles[i]
          BY <1>4, <4>1
        <4> QED
          BY <1>7, <2>2, <3>1, <3>2, <4>1, <4>2
      <3> QED
        BY <3>3, <3>4
    <2> QED
      BY <2>1, <2>2 DEF ListInOrder
  <1>10. SinglesInOrder'
    <2>1. ASSUME NEW i \in 1..Len(singles'), NEW j \in 1..Len(singles'), i < j,
                 singles'[i].by = singles'[j].by
          PROVE  singles'[i].nr < singles'[j].nr
      <3>1. i \in 1..n /\ (j \in 1..n \/ j = n + 1) /\ len \in 1..len
        BY <1>2, <1>4, <2>1
      <3>2. singles'[i] = singles[i]
        BY <1>4, <3>1
      <3>3. CASE j = n + 1
        <4>1. singles'[j] = queue[len]
          BY <1>4, <3>3 DEF last
        <4> QED
          BY <1>7, <2>1, <3>1, <3>2, <4>1
      <3>4. CASE j \in 1..n
        <4>1. singles'[j] = singles[j]
          BY <1>4, <3>4
        <4> QED
          BY <1>7, <2>1, <3>1, <3>2, <3>4, <4>1
      <3> QED
        BY <3>1, <3>3, <3>4
    <2> QED
      BY <2>1 DEF SinglesInOrder
  <1>11. Range(queue) = Range(queue') \cup {last}
    <2>1. ASSUME NEW e \in Range(queue) PROVE e \in Range(queue') \cup {last}
      <3>1. PICK i \in 1..len : queue[i] = e
        BY <1>2, RangeIs DEF len
      <3>2. CASE i = len
        BY <3>1, <3>2 DEF last
      <3>3. CASE i # len
        <4>1. i \in 1..(len - 1)
          BY <1>2, <3>3
        <4> QED
          BY <1>3, <3>1, <4>1, RangeIs
      <3> QED
        BY <3>2, <3>3
    <2>2. ASSUME NEW e \in Range(queue') PROVE e \in Range(queue)
      <3>1. PICK i \in 1..(len - 1) : queue'[i] = e
        BY <1>3, RangeIs
      <3>2. i \in 1..len
        BY <1>2
      <3> QED
        BY <1>2, <1>3, <3>1, <3>2, RangeIs DEF len
    <2> QED
      BY <1>2, <2>1, <2>2
  <1>12. Range(singles') = Range(singles) \cup {last}
    <2>1. ASSUME NEW e \in Range(singles') PROVE e \in Range(singles) \cup {last}
      <3>1. PICK i \in 1..(n + 1) : singles'[i] = e
        BY <1>4, RangeIs
      <3>2. CASE i = n + 1
        BY <1>4, <3>1, <3>2
      <3>3. CASE i # n + 1
        <4>1. i \in 1..n
          BY <1>2, <3>3
        <4> QED
          BY <1>2, <1>4, <3>1, <4>1, RangeIs DEF n
      <3> QED
        BY <3>2, <3>3
    <2>2. ASSUME NEW e \in Range(singles) PROVE e \in Range(singles')
      <3>1. PICK i \in 1..n : singles[i] = e
        BY <1>2, RangeIs DEF n
      <3>2. i \in 1..(n + 1)
        BY <1>2
      <3> QED
        BY <1>4, <3>1, <3>2, RangeIs
    <2>3. last \in Range(singles')
      <3>1. n + 1 \in 1..(n + 1)
        BY <1>2
      <3> QED
        BY <1>4, <3>1, RangeIs
    <2> QED
      BY <2>1, <2>2, <2>3
  <1>13. EachInOnePlace'
    BY <1>1, <1>11, <1>12 DEF QueueInv, EachInOnePlace
  <1> QED
    BY <1>5, <1>6, <1>9, <1>10, <1>13 DEF QueueInv

\* take(count) and clear move the head of the list away.
LEMMA HeadLeaves ==
  ASSUME QueueInv, NEW k \in 0..Len(queue),
         queue' = SubSeq(queue, k + 1, Len(queue)),
         batches' = batches \cup Range(SubSeq(queue, 1, k)),
         UNCHANGED <<offered, source, allowed, stored, singles>>
  PROVE  QueueInv'
  <1> DEFINE len == Len(queue)
             taken == SubSeq(queue, 1, k)
  <1>1. queue \in Seq(Element) /\ singles \in Seq(Element) /\ len \in Nat
    BY LenProperties DEF QueueInv, TypeOK
  <1>2. /\ queue' \in Seq(Element) /\ Len(queue') = len - k
        /\ \A i \in 1..(len - k) : queue'[i] = queue[i + k]
    <2>1. k + 1 \in Int /\ 1 <= k + 1 /\ k + 1 <= len + 1 /\ (len - (k + 1)) + 1 = len - k
          /\ \A i \in 1..(len - k) : ((k + 1) + i) - 1 = i + k
      BY <1>1
    <2>2. /\ queue' \in Seq(Element) /\ Len(queue') = (len - (k + 1)) + 1
          /\ \A i \in 1..((len - (k + 1)) + 1) : queue'[i] = queue[((k + 1) + i) - 1]
      <3> DEFINE left == SubSeq(queue, k + 1, len)
      <3>1. k + 1 \in Int /\ len \in Int /\ k + 1 >= 1 /\ len <= Len(queue) /\ k + 1 <= len + 1
        BY <1>1, <2>1
      <3>2. /\ left \in Seq(Element) /\ Len(left) = (len - (k + 1)) + 1
            /\ \A i \in 1..((len - (k + 1)) + 1) : left[i] = queue[((k + 1) + i) - 1]
        BY <1>1, <3>1, PieceIs
      <3>3. queue' = left
        OBVIOUS
      <3> QED
        BY <3>2, <3>3
    <2> QED
      BY <2>1, <2>2
  <1>3. /\ taken \in Seq(Element) /\ Len(taken) = k
        /\ \A i \in 1..k : taken[i] = queue[i]
    <2>1. k \in Int /\ 1 <= k + 1 /\ k <= len /\ (k - 1) + 1 = k /\ \A i \in 1..k : (1 + i) - 1 = i
      BY <1>1
    <2>2. /\ taken \in Seq(Element) /\ Len(taken) = (k - 1) + 1
          /\ \A i \in 1..((k - 1) + 1) : taken[i] = queue[(1 + i) - 1]
      BY <1>1, <2>1, PieceIs
    <2> QED
      BY <2>1, <2>2
  <1>4. batches' = batches \cup Range(taken)
    OBVIOUS
  <1> HIDE DEF len, taken
  <1>5. TypeOK'
    <2>1. Range(taken) \subseteq Element
      BY <1>3, RangeIs
    <2> QED
      BY <1>2, <1>4, <2>1 DEF QueueInv, TypeOK
  <1>6. SourceIsNewest' /\ StoredIsOlder' /\ RoomIsLeft'
    <2>1. Len(queue') <= Len(queue)
      BY <1>1, <1>2 DEF len
    <2> QED
      BY <1>2, <2>1, TakersKeep
  <1>7. /\ \A i, j \in 1..len :
             i < j /\ queue[i].by = queue[j].by => queue[i].nr > queue[j].nr
        /\ \A i \in 1..Len(singles), j \in 1..len :
             singles[i].by = queue[j].by => singles[i].nr < queue[j].nr
    BY DEF QueueInv, ListInOrder, len
  <1>8. ListInOrder'
    <2>1. ASSUME NEW i \in 1..Len(queue'), NEW j \in 1..Len(queue'), i < j,
                 queue'[i].by = queue'[j].by
          PROVE  queue'[i].nr > queue'[j].nr
      <3>1. i + k \in 1..len /\ j + k \in 1..len /\ i + k < j + k
        BY <1>1, <1>2, <2>1
      <3>2. queue'[i] = queue[i + k] /\ queue'[j] = queue[j + k]
        BY <1>2
      <3> QED
        BY <1>7, <2>1, <3>1, <3>2
    <2>2. ASSUME NEW i \in 1..Len(singles), NEW j \in 1..Len(queue'),
                 singles[i].by = queue'[j].by
          PROVE  singles[i].nr < queue'[j].nr
      <3>1. j + k \in 1..len
        BY <1>1, <1>2
      <3>2. queue'[j] = queue[j + k]
        BY <1>2
      <3> QED
        BY <1>7, <2>2, <3>1, <3>2
    <2> QED
      BY <2>1, <2>2 DEF ListInOrder
  <1>9. SinglesInOrder'
    BY DEF QueueInv, SinglesInOrder
  <1>left. \A j \in 1..Len(queue') : queue'[j] \in Range(queue')
    <2>1. queue' \in Seq(Element)
      BY <1>2
    <2> QED
      BY <2>1, InRange, Zenon
  <1>10. ASSUME NEW e \in Range(queue') PROVE e \in Range(queue) /\ e \notin Range(taken)
    <2>1. PICK i \in 1..(len - k) : queue'[i] = e
      BY <1>2, RangeIs
    <2>2. i + k \in 1..len /\ queue[i + k] = e
      <3>1. i + k \in 1..len
        BY <1>1
      <3>2. queue'[i] = queue[i + k]
        BY <1>2
      <3> QED
        BY <2>1, <3>1, <3>2
    <2>3. ASSUME e \in Range(taken) PROVE FALSE
      <3>1. PICK j \in 1..k : taken[j] = e
        BY <1>3, <2>3, RangeIs
      <3>2. j \in 1..len /\ queue[j] = e /\ j # i + k
        BY <1>1, <1>3, <3>1
      <3> QED
        BY <2>2, <3>2, PlacesDiffer DEF len
    <2> QED
      BY <1>1, <2>2, <2>3, RangeIs DEF len
  <1>11. ASSUME NEW e \in Range(taken) PROVE e \in Range(queue)
    <2>1. PICK i \in 1..k : taken[i] = e
      BY <1>3, RangeIs
    <2>2. i \in 1..len
      BY <1>1 DEF len
    <2> QED
      BY <1>1, <1>3, <2>1, <2>2, RangeIs DEF len
  <1>12. ASSUME NEW e \in Range(queue) PROVE e \in Range(taken) \cup Range(queue')
    <2>1. PICK i \in 1..len : queue[i] = e
      BY <1>1, RangeIs DEF len
    <2>2. CASE i <= k
      <3>1. i \in 1..k
        BY <1>1, <2>2 DEF len
      <3> QED
        BY <1>3, <2>1, <3>1, RangeIs
    <2>3. CASE i > k
      <3>1. i - k \in 1..(len - k) /\ (i - k) + k = i
        BY <1>1, <2>3 DEF len
      <3>2. queue'[i - k] = e
        BY <1>2, <2>1, <3>1
      <3>3. i - k \in 1..Len(queue')
        BY <1>2, <3>1
      <3>4. e \in Range(queue')
        BY <1>left, <3>2, <3>3, Zenon
      <3> QED
        BY <3>4
    <2>4. i <= k \/ i > k
      BY <1>1 DEF len
    <2> QED
      BY <2>2, <2>3, <2>4
  <1>13. EachInOnePlace'
    BY <1>4, <1>10, <1>11, <1>12, PlacesDiffer DEF QueueInv, EachInOnePlace
  <1> QED
    BY <1>5, <1>6, <1>8, <1>9, <1>13 DEF QueueInv

LEMMA QueueStep == QueueInv /\ [Next]_vars => QueueInv'
  <1> SUFFICES ASSUME QueueInv, [Next]_vars PROVE QueueInv'
    OBVIOUS
  <1>1. queue \in Seq(Element) /\ Len(queue) \in Nat
    BY LenProperties DEF QueueInv, TypeOK
  <1>2. ASSUME NEW n \in 1..MaxBatch, TakeMany(n) PROVE QueueInv'
    <2>1. /\ queue' = SubSeq(queue, n + 1, Len(queue))
          /\ batches' = batches \cup Range(SubSeq(queue, 1, IF n < Len(queue) THEN n ELSE Len(queue)))
          /\ UNCHANGED <<offered, source, allowed, stored, singles>>
      BY <1>2 DEF TakeMany, Trimmed
    <2>2. CASE n < Len(queue)
      <3>1. n \in 0..Len(queue)
        BY <1>1, <2>2, QueueConstants
      <3> QED
        BY <2>1, <2>2, <3>1, HeadLeaves
    <2>3. CASE ~ (n < Len(queue))
      <3>1. /\ Len(queue) \in 0..Len(queue) /\ Len(queue) + 1 \in Int /\ n + 1 \in Int
            /\ Len(queue) \in Int /\ Len(queue) < n + 1 /\ Len(queue) < Len(queue) + 1
        BY <1>1, <2>3, QueueConstants
      <3>2. SubSeq(queue, n + 1, Len(queue)) = SubSeq(queue, Len(queue) + 1, Len(queue))
        BY <3>1, SubSeqEmpty
      <3> QED
        BY <2>1, <2>3, <3>1, <3>2, HeadLeaves
    <2> QED
      BY <2>2, <2>3
  <1>3. ASSUME Clear PROVE QueueInv'
    <2>1. /\ queue' = <<>> /\ batches' = batches \cup Range(queue)
          /\ UNCHANGED <<offered, source, allowed, stored, singles>>
      BY <1>3 DEF Clear
    <2>2. /\ Len(queue) \in 0..Len(queue) /\ Len(queue) + 1 \in Int /\ Len(queue) \in Int
          /\ Len(queue) < Len(queue) + 1
      BY <1>1
    <2>3. SubSeq(queue, Len(queue) + 1, Len(queue)) = <<>>
      BY <2>2, SubSeqEmpty
    <2>4. SubSeq(queue, 1, Len(queue)) = queue
      BY <1>1, SubSeqFull
    <2> QED
      BY <2>1, <2>2, <2>3, <2>4, HeadLeaves
  <1>4. CASE UNCHANGED vars
    BY <1>4 DEF vars, QueueInv, TypeOK, SourceIsNewest, StoredIsOlder, ListInOrder, SinglesInOrder,
                EachInOnePlace, RoomIsLeft, Pushing, Limit
  <1> QED
    BY <1>2, <1>3, <1>4, AddKeeps, LengthKeeps, PushKeeps, TakeOneKeeps DEF Next

LEMMA QueueBegins == Init => QueueInv
  <1> SUFFICES ASSUME Init PROVE QueueInv
    OBVIOUS
  <1>1. /\ queue = <<>> /\ offered = [p \in Producer |-> 0] /\ source = [p \in Producer |-> <<>>]
        /\ allowed = [p \in Producer |-> NotYet] /\ stored = {} /\ singles = <<>> /\ batches = {}
    BY DEF Init
  <1>2. Len(queue) = 0 /\ Len(singles) = 0 /\ \A p \in Producer : Len(source[p]) = 0 /\ offered[p] = 0
    BY <1>1, EmptyIs
  <1>3. TypeOK
    BY <1>1, EmptyIs, QueueConstants DEF TypeOK
  <1>4. SourceIsNewest /\ StoredIsOlder /\ ListInOrder /\ SinglesInOrder
    <2>1. 1..0 = {} /\ 0 <= MaxBatch
      BY QueueConstants
    <2> QED
      BY <1>1, <1>2, <2>1 DEF SourceIsNewest, StoredIsOlder, ListInOrder, SinglesInOrder
  <1>5. EachInOnePlace
    BY <1>1, EmptyIs DEF EachInOnePlace
  <1>6. RoomIsLeft
    <2>1. SUFFICES ASSUME Capacity > 0 PROVE RoomIsLeft
      BY DEF RoomIsLeft
    <2>2. Pushing = {} /\ Cardinality({}) = 0
      BY <1>1, FS_EmptySet DEF Pushing
    <2>3. Cardinality(Producer) - 1 \in Nat
      <3>1. Cardinality(Producer) # 0
        BY QueueAssumption, FS_EmptySet
      <3> QED
        BY <3>1, QueueConstants
    <2>4. (Cardinality(Producer) - 1) * MaxBatch \in Nat
      <3>1. \A m \in Nat, n \in Nat : m * n \in Nat
        OBVIOUS
      <3> QED
        BY <2>3, <3>1, QueueConstants
    <2>5. 0 + 0 * MaxBatch <= Limit
      BY <2>1, <2>4, QueueConstants DEF Limit
    <2> QED
      BY <1>2, <2>2, <2>5 DEF RoomIsLeft
  <1> QED
    BY <1>3, <1>4, <1>5, <1>6 DEF QueueInv

\* The invariant is as much as QueueKept promises.
LEMMA QueueSuffices == QueueInv => QueueKept
  <1> SUFFICES ASSUME QueueInv PROVE QueueKept
    OBVIOUS
  <1>1. queue \in Seq(Element) /\ singles \in Seq(Element) /\ Len(queue) \in Nat
    BY LenProperties DEF QueueInv, TypeOK
  <1>2. Len(queue) = Cardinality(Range(queue)) /\ Len(singles) = Cardinality(Range(singles))
    BY <1>1, PlacesDiffer, DifferentCount
  <1>3. TakenOnce
    BY <1>2, PlacesDiffer DEF QueueInv, EachInOnePlace, TakenOnce
  <1>4. OvershootBounded
    <2>1. SUFFICES ASSUME Capacity > 0 PROVE Len(queue) <= Limit
      BY DEF OvershootBounded, Limit
    <2>2. Pushing \subseteq Producer /\ Cardinality(Pushing) * MaxBatch \in Nat
      <3>1. Pushing \subseteq Producer
        BY DEF Pushing
      <3> QED
        BY <3>1, PushingIs
    <2>3. Limit \in Int
      <3>1. \A m \in Int, n \in Nat : m * n \in Int
        OBVIOUS
      <3>2. (Cardinality(Producer) - 1) * MaxBatch \in Int
        BY <3>1, QueueConstants
      <3> QED
        BY <3>2, QueueConstants DEF Limit
    <2>4. CASE Len(queue) + Cardinality(Pushing) * MaxBatch <= Limit
      BY <1>1, <2>2, <2>3, <2>4
    <2>5. CASE \E q \in Pushing :
                 Len(queue) + allowed[q] + Cardinality(Pushing \ {q}) * MaxBatch <= Limit
      <3>1. PICK q \in Pushing :
                 Len(queue) + allowed[q] + Cardinality(Pushing \ {q}) * MaxBatch <= Limit
        BY <2>5
      <3>2. allowed[q] \in Nat
        BY <2>2, QueueConstants DEF QueueInv, TypeOK, Pushing
      <3>3. Cardinality(Pushing \ {q}) * MaxBatch \in Nat
        <4>1. Pushing \ {q} \subseteq Producer
          BY <2>2
        <4> QED
          BY <4>1, PushingIs
      <3> QED
        BY <1>1, <2>3, <3>1, <3>2, <3>3
    <2> QED
      BY <2>1, <2>4, <2>5 DEF QueueInv, RoomIsLeft
  <1> QED
    BY <1>3, <1>4 DEF QueueInv, QueueKept

-----------------------------------------------------------------------------
(* What the parts promise                                                  *)

\* The level of the bucket is the one of the keys.
LEMMA LevelOfKeys ==
  /\ Lua!Level = LevelAt(tokens, age, script)
  /\ Lua!Level' = LevelAt(tokens', age', script')
  BY DEF Lua!Level, LevelAt, Lua!Capped

LEMMA BucketBegins ==
  ASSUME Lua!Init, LuaInv
  PROVE  Lua!Bucket!Init
  <1>1. Lua!Size \in Nat /\ Lua!Level \in 0..Lua!Size
    BY LevelWithin, LevelOfKeys
  <1>2. Lua!Size * 1 = Lua!Size
    BY <1>1
  <1>3. granted = 0 /\ clears = 0 /\ ~ clearing
    BY DEF Lua!Init
  <1>4. 2 * clears - (IF clearing THEN 1 ELSE 0) = 0
    <2>1. (IF clearing THEN 1 ELSE 0) = 0
      BY <1>3, Zenon
    <2>2. 2 * clears = 0 /\ 0 - 0 = 0
      BY <1>3
    <2> QED
      BY <2>1, <2>2
  <1> QED
    BY <1>1, <1>2, <1>3, <1>4 DEF Lua!Bucket!Init, Lua!Bucket!Full

LEMMA BucketSteps ==
  ASSUME LuaInv, LuaInv', Lua!Level' \in 0..Lua!Size', LevelFalls \/ LevelRises \/ Deletes
  PROVE  [Lua!Bucket!Next]_(Lua!Bucket!bucket)
  <1> DEFINE cleared == 2 * clears - (IF clearing THEN 1 ELSE 0)
  <1>1. /\ Lua!Size \in Nat /\ Lua!Level \in 0..Lua!Size /\ Lua!Level' \in 0..Lua!Size
        /\ Lua!Size' = Lua!Size /\ script' = script
    <2>1. script' = script
      BY DEF LevelFalls, LevelRises, Deletes
    <2>2. Lua!Size' = Lua!Size
      BY <2>1 DEF Lua!Size
    <2> QED
      BY <2>1, <2>2, LevelWithin, LevelOfKeys
  <1>2. /\ LevelAt(tokens', age', script) = Lua!Level'
        /\ LevelAt(tokens, age, script) = Lua!Level
    BY <1>1, LevelOfKeys
  <1>3. clears \in Nat /\ rate \in Nat
    BY LuaConstants DEF LuaInv, Lua!TypeOK
  <1>4. CASE LevelFalls
    <2>1. cleared' = cleared
      BY <1>4 DEF LevelFalls
    <2>2. CASE granted' = granted + 1 /\ LevelAt(tokens', age', script) <= LevelAt(tokens, age, script) - 1
      <3>1. Lua!Level >= 1 /\ Lua!Level' \in 0..(Lua!Level - 1)
        BY <1>1, <1>2, <2>2
      <3>2. Lua!Bucket!Take
        BY <1>1, <2>1, <2>2, <3>1 DEF Lua!Bucket!Take
      <3> QED
        BY <3>2 DEF Lua!Bucket!Next
    <2>3. CASE granted' = granted /\ LevelAt(tokens', age', script) <= LevelAt(tokens, age, script)
      <3>1. Lua!Level' \in 0..Lua!Level
        BY <1>1, <1>2, <2>3
      <3>2. Lua!Bucket!Lose
        BY <1>1, <2>1, <2>3, <3>1 DEF Lua!Bucket!Lose
      <3> QED
        BY <3>2 DEF Lua!Bucket!Next
    <2> QED
      BY <1>4, <2>2, <2>3 DEF LevelFalls
  <1>5. CASE LevelRises
    <2>1. cleared' = cleared /\ granted' = 0
      BY <1>5 DEF LevelRises
    <2>2. Lua!Level' <= Lua!Level + rate
      BY <1>2, <1>5 DEF LevelRises
    <2>3. Lua!Level' \in 0..(IF Lua!Level + rate < Lua!Size * 1 THEN Lua!Level + rate ELSE Lua!Size * 1)
      BY <1>1, <1>3, <2>2
    <2>4. Lua!Bucket!Tick
      BY <1>1, <2>1, <2>3 DEF Lua!Bucket!Tick, Lua!Bucket!Full
    <2> QED
      BY <2>4 DEF Lua!Bucket!Next
  <1>6. CASE Deletes
    <2>1. cleared' = cleared + 1 /\ granted' = 0
      BY <1>3, <1>6 DEF Deletes
    <2>2. Lua!Level' \in 0..(Lua!Size * 1)
      BY <1>1
    <2>3. Lua!Bucket!Reset
      BY <1>1, <2>1, <2>2 DEF Lua!Bucket!Reset, Lua!Bucket!Full
    <2> QED
      BY <2>3 DEF Lua!Bucket!Next
  <1> QED
    BY <1>4, <1>5, <1>6

LEMMA PartsStep ==
  ASSUME [MCNext]_allVars
  PROVE  [Next]_vars /\ [Sms!Next]_smsVars /\ [Lua!Next]_luaVars /\ [Local!Next]_localVars
  BY DEF MCNext, QueuePart, SmsPart, LuaPart, LocalPart, InLocal, QueueDrained, allVars

LEMMA AllBegin == MCInit => Inv
  BY QueueBegins, SmsBegins, LuaBegins, LocalBegins DEF MCInit, Inv

LEMMA AllStep ==
  ASSUME Inv, [MCNext]_allVars
  PROVE  Inv'
  <1>1. QueueInv' /\ SmsInv' /\ LocalInv'
    BY PartsStep, QueueStep, SmsStep, LocalStep DEF Inv
  <1>2. LuaInv'
    BY PartsStep, LuaStep DEF Inv
  <1> QED
    BY <1>1, <1>2 DEF Inv

\* The inductive invariants of the four parts, whichever of them runs.
THEOREM InvHolds == MCSpec => []Inv
  <1>1. Inv /\ [MCNext]_allVars => Inv'
    BY AllStep
  <1> QED
    BY <1>1, AllBegin, PTL DEF MCSpec

\* However many producers read the length before others push, and whatever is taken or
\* cleared in between: no element is handed out twice or lost, the capacity is overshot
\* by no more than a batch for each other producer, and take() keeps the order.
THEOREM QueueKeptHolds == MCSpec => []QueueKept
  <1>1. Inv => QueueKept
    BY QueueSuffices DEF Inv
  <1> QED
    BY <1>1, InvHolds, PTL

\* However saves and verifications of any number of sessions interleave with crashes and
\* expiry: fewer than maxFailTimes wrong codes are answered FAILED between two resets of
\* the counter; a caller whose code was compared beyond the limit, and answered LOCKED,
\* is kept out until the lock ends, unless it dies before setting it; a code is accepted
\* at most once; and a session gets past the interval at most once.
THEOREM SmsGuardedHolds == MCSpec => []SmsGuarded
  <1>1. SmsInv => SmsGuarded
    <2> SUFFICES ASSUME SmsInv PROVE SmsGuarded
      OBVIOUS
    <2>1. Sms!FailuresBounded /\ Sms!OneBeyondEach /\ Sms!AcceptedOnce
      BY DEF SmsInv, FailuresCounted, CodeIsNew, Sms!FailuresBounded, Sms!AcceptedOnce
    <2>2. Sms!OneCodePerSession
      <3>1. Sending \subseteq Session
        BY DEF Sending
      <3>2. Cardinality(Sending) \in Nat
        BY <3>1, SmsConstants, FS_Subset, FS_CardinalityType
      <3>3. pending <= Cardinality(Session)
        BY <3>2, SmsConstants DEF SmsInv, Sms!TypeOK, SavesOverlap
      <3> QED
        BY <3>3, SameCardinality DEF Sms!OneCodePerSession
    <2> QED
      BY <2>1, <2>2 DEF SmsGuarded
  <1>2. Inv => SmsGuarded
    BY <1>1 DEF Inv
  <1> QED
    BY <1>2, InvHolds, PTL

\* However many threads miss the limiter before the first of them stores it, there are
\* no more limiters than threads.
THEOREM LocalLimitersHold == MCSpec => []LocalLimiters
  <1>1. LocalInv => LocalLimiters
    <2> SUFFICES ASSUME LocalInv PROVE LocalLimiters
      OBVIOUS
    <2>1. Cardinality(limiters) \in Nat /\ Cardinality(At({"creating"})) \in Nat
          /\ Cardinality(Thread) \in Nat
      BY ThreadsAt, FS_CardinalityType DEF LocalInv, EachMakesOne
    <2>2. Cardinality(limiters) <= Cardinality(Thread)
      BY <2>1 DEF LocalInv, EachMakesOne
    <2> QED
      BY <2>2, SameCardinality DEF LocalInv, LocalLimiters, Local!LimitersBounded
  <1>2. Inv => LocalLimiters
    BY <1>1 DEF Inv
  <1> QED
    BY <1>2, InvHolds, PTL

\* The type invariants of RedisQueue, SmsCode and LuaRateLimiter.
THEOREM TypesCorrect == MCSpec => []TypesOK
  <1>1. Inv => TypesOK
    BY DEF Inv, QueueInv, SmsInv, LuaInv, TypesOK
  <1> QED
    BY <1>1, InvHolds, PTL

\* ratelimit.lua and ratelimit2.lua implement TokenBucket, for any capacity, rate and
\* number of clients, however late a client's clock is, and whatever a clear deletes
\* in between; and only what a clear leaves makes them fail.
THEOREM LuaLimitedHolds == MCSpec => LuaLimited
  <1>1. MCInit => Lua!Bucket!Init
    BY AllBegin, BucketBegins DEF MCInit, Inv
  <1>2. Inv => Lua!Level \in 0..Lua!Size
    BY LevelWithin, LevelOfKeys DEF Inv
  <1>3. Inv /\ Inv' /\ (Lua!Level \in 0..Lua!Size)' /\ [MCNext]_allVars =>
          [Lua!Bucket!Next]_(Lua!Bucket!bucket)
    <2> SUFFICES ASSUME Inv, Inv', Lua!Level' \in 0..Lua!Size', [MCNext]_allVars
                 PROVE  [Lua!Bucket!Next]_(Lua!Bucket!bucket)
      OBVIOUS
    <2>1. LuaInv /\ LuaInv' /\ [Lua!Next]_luaVars
      BY PartsStep DEF Inv
    <2>2. LevelFalls \/ LevelRises \/ Deletes
      BY <2>1, LuaStep
    <2> QED
      BY <2>1, <2>2, BucketSteps
  <1>4. Inv /\ [MCNext]_allVars =>
          [\A c \in Client :
             answer[c] # Lua!Error /\ answer'[c] = Lua!Error =>
               IF script = "ratelimit.lua" THEN clearing ELSE clears > 0 /\ age = Nil]_(Lua!vars)
    <2> SUFFICES ASSUME Inv, [MCNext]_allVars, NEW c \in Client,
                        answer[c] # Lua!Error, answer'[c] = Lua!Error
                 PROVE  IF script = "ratelimit.lua" THEN clearing ELSE clears > 0 /\ age = Nil
      OBVIOUS
    <2>1. LuaInv /\ [Lua!Next]_luaVars
      BY PartsStep DEF Inv
    <2> QED
      BY <2>1, ErrorsFollowClears
  <1>5. MCSpec => Lua!BucketSpec
    BY <1>1, <1>2, <1>3, InvHolds, PTL DEF MCSpec, Lua!BucketSpec, Lua!Bucket!Spec
  <1>6. MCSpec => Lua!ErrorsComeFromClears
    BY <1>4, InvHolds, PTL DEF MCSpec, Lua!ErrorsComeFromClears
  <1> QED
    BY <1>5, <1>6, PTL DEF LuaLimited

\* All limiters of a service together are one token bucket of as many times the size and
\* the rate as there are threads, whoever makes a limiter, sets its size, takes from it or
\* clears it while others do.
THEOREM LocalBucketHolds == MCSpec => LocalBucket
  <1>1. MCSpec => []LimitersMade
    <2>1. MCInit => LimitersMade
      BY MadeBegins DEF MCInit
    <2>2. Inv /\ LimitersMade /\ [MCNext]_allVars => LimitersMade'
      BY PartsStep, MadeKeeps DEF Inv
    <2> QED
      BY <2>1, <2>2, InvHolds, PTL DEF MCSpec
  <1>2. Inv => NumbersRight
    BY NumbersAre DEF Inv
  <1>3. MCInit => Local!Bucket!Init
    BY AllBegin, <1>2, LocalBucketBegins DEF MCInit
  <1>4. Inv /\ Inv' /\ LimitersMade /\ NumbersRight /\ NumbersRight' /\ [MCNext]_allVars =>
          [Local!Bucket!Next]_(Local!Bucket!bucket)
    <2> SUFFICES ASSUME Inv, Inv', LimitersMade, NumbersRight, NumbersRight', [MCNext]_allVars
                 PROVE  [Local!Bucket!Next]_(Local!Bucket!bucket)
      OBVIOUS
    <2>1. LocalInv /\ LocalInv' /\ [Local!Next]_localVars
      BY PartsStep DEF Inv
    <2> QED
      BY <2>1, LocalMoves, LocalBucketSteps
  <1> QED
    BY <1>1, <1>2, <1>3, <1>4, InvHolds, PTL DEF MCSpec, LocalBucket, Local!BucketSpec, Local!Bucket!Spec
=============================================================================
