--------------------------- MODULE MCThreadsProofs ---------------------------
(***************************************************************************)
(* Theorems about the components of MCThreads for any number of threads,   *)
(* calls, instances and clients: what is proved of JdkLock and LazyInit    *)
(* holds of the composition, and the pool of SFTP clients keeps what is    *)
(* its own.                                                                *)
(***************************************************************************)
EXTENDS MCThreads, FiniteSetTheorems, TLAPS

LazyP == INSTANCE LazyInitProofs WITH at <- lazyAt
JdkP == INSTANCE JdkLockProofs WITH at <- lockAt
-----------------------------------------------------------------------------
(* SftpClientPool                                                          *)

Live == Sftp!Live

\* A thread has a client from borrowObject to returnObject; the pool may have taken it
\* away meanwhile, but gives it to nobody else as long as the thread has it.
ClientsHeld ==
  /\ \A t \in Two :
       /\ poolMine[t] # NoClient <=> poolAt[t] \in {"connect", "callback", "return"}
       /\ poolAt[t] = "connect" => place[poolMine[t]] = "new"
       /\ poolAt[t] \in {"callback", "return"} => place[poolMine[t]] \in {"used", "none"}
  /\ \A t, u \in Two : poolMine[t] = poolMine[u] /\ poolMine[t] # NoClient => t = u
  /\ \A c \in Client : place[c] \in {"new", "used"} => \E t \in Two : poolMine[t] = c

\* Only a client of the pool has a channel, and one that has a session without a channel
\* is being connected or has lost the channel.
SessionsKept ==
  /\ \A c \in channel : place[c] \in {"idle", "used"}
  /\ \A c \in session : place[c] = "new" \/ c \in channel \cup channelLost

PoolInv == Sftp!TypeOK /\ IsFiniteSet(Live) /\ ClientsHeld /\ SessionsKept

\* A client that comes into the pool or goes changes the number of the clients by one.
LEMMA LiveChanges ==
  ASSUME IsFiniteSet(Live), Cardinality(Live) <= maxTotal, maxTotal \in Nat,
         place \in [Client -> {"none", "new", "idle", "used"}],
         NEW c \in Client, NEW p \in {"none", "new", "idle", "used"},
         place' = [place EXCEPT ![c] = p], maxTotal' = maxTotal,
         p = "none" \/ place[c] # "none" \/ Cardinality(Live) < maxTotal
  PROVE  IsFiniteSet(Live') /\ Cardinality(Live') <= maxTotal'
  <1>1. Live = {d \in Client : place[d] # "none"} /\ Live' = {d \in Client : place'[d] # "none"}
    BY DEF Live, Sftp!Live
  <1>2. Cardinality(Live) \in Nat
    BY FS_CardinalityType
  <1>3. CASE p = "none" \/ place[c] # "none"
    <2>1. Live' \subseteq Live
      BY <1>1, <1>3
    <2>2. IsFiniteSet(Live') /\ Cardinality(Live') <= Cardinality(Live) /\ Cardinality(Live') \in Nat
      BY <2>1, FS_Subset, FS_CardinalityType
    <2> QED
      BY <1>2, <2>2
  <1>4. CASE place[c] = "none" /\ Cardinality(Live) < maxTotal
    <2>1. Live' = Live \/ Live' = Live \cup {c}
      BY <1>1, <1>4
    <2>2. c \notin Live
      BY <1>1, <1>4
    <2>3. IsFiniteSet(Live \cup {c}) /\ Cardinality(Live \cup {c}) = Cardinality(Live) + 1
      BY <2>2, FS_AddElement
    <2>4. Cardinality(Live) + 1 <= maxTotal
      BY <1>2, <1>4
    <2>5. CASE Live' = Live
      BY <2>5
    <2>6. CASE Live' = Live \cup {c}
      BY <2>3, <2>4, <2>6
    <2> QED
      BY <2>1, <2>5, <2>6
  <1> QED
    BY <1>3, <1>4

\* FiniteSets is extended by SftpClientPool and by this module.
LEMMA SameCardinality == \A S : Sftp!Cardinality(S) = Cardinality(S)
  BY DEF Sftp!Cardinality, Cardinality

LEMMA PoolTypeStep ==
  ASSUME PoolInv, [Sftp!Next]_clientVars
  PROVE  Sftp!TypeOK' /\ IsFiniteSet(Live')
  <1> USE DEF PoolInv, Sftp!TypeOK, Sftp!Points, Sftp!GoTo, Sftp!config, Sftp!Idle
  <1>0. maxTotal \in Nat
    BY ThreadsAssumption
  <1>00. Cardinality(Live) <= maxTotal
    BY SameCardinality DEF Live
  <1>000. Cardinality(Live') <= maxTotal' => (Sftp!Cardinality(Sftp!Live) <= maxTotal)'
    BY SameCardinality DEF Live
  <1>1. ASSUME UNCHANGED <<place, maxTotal>>
        PROVE  IsFiniteSet(Live') /\ (Sftp!Cardinality(Sftp!Live) <= maxTotal)'
    <2>1. Live' = Live
      BY <1>1 DEF Live, Sftp!Live
    <2> QED
      BY <1>00, <1>000, <1>1, <2>1
  <1>2. ASSUME NEW c \in Client, NEW p \in {"none", "new", "idle", "used"},
               place' = [place EXCEPT ![c] = p], maxTotal' = maxTotal,
               p = "none" \/ place[c] # "none" \/ Cardinality(Live) < maxTotal
        PROVE  IsFiniteSet(Live') /\ (Sftp!Cardinality(Sftp!Live) <= maxTotal)'
    BY <1>0, <1>00, <1>000, <1>2, LiveChanges
  <1>3. ASSUME NEW t \in Two, Sftp!Ask(t) PROVE Sftp!TypeOK' /\ IsFiniteSet(Live')
    BY <1>1, <1>3 DEF Sftp!Ask
  <1>4. ASSUME NEW t \in Two, NEW c \in Client, Sftp!BorrowIdle(t, c)
        PROVE  Sftp!TypeOK' /\ IsFiniteSet(Live')
    BY <1>2, <1>4 DEF Sftp!BorrowIdle
  <1>5. ASSUME NEW c \in Client, Sftp!Close(c)
        PROVE  channel' \subseteq session' /\ session' \subseteq Client
    BY <1>5 DEF Sftp!Close
  <1>6. ASSUME NEW t \in Two, NEW c \in Client, Sftp!DestroyInvalid(t, c)
        PROVE  Sftp!TypeOK' /\ IsFiniteSet(Live')
    BY <1>2, <1>5, <1>6 DEF Sftp!DestroyInvalid
  <1>7. ASSUME NEW t \in Two, NEW c \in Client, Sftp!ConnectSession(t, c)
        PROVE  Sftp!TypeOK' /\ IsFiniteSet(Live')
    BY <1>2, <1>7, SameCardinality DEF Sftp!ConnectSession, Live
  <1>8. ASSUME NEW t \in Two, poolAt[t] \in {"connect", "callback", "return"} PROVE poolMine[t] \in Client
    BY <1>8 DEF ClientsHeld
  <1>9. ASSUME NEW t \in Two, Sftp!OpenChannel(t) PROVE Sftp!TypeOK' /\ IsFiniteSet(Live')
    <2>1. poolMine[t] \in Client /\ place[poolMine[t]] = "new"
      BY <1>8, <1>9 DEF Sftp!OpenChannel, ClientsHeld
    <2> QED
      BY <1>2, <1>9, <2>1 DEF Sftp!OpenChannel
  <1>10. ASSUME NEW t \in Two, Sftp!CreateFails(t) PROVE Sftp!TypeOK' /\ IsFiniteSet(Live')
    <2>1. CASE /\ poolAt[t] = "connect"
               /\ Sftp!CloseSession(poolMine[t])
               /\ place' = [place EXCEPT ![poolMine[t]] = "none"]
               /\ poolMine' = [poolMine EXCEPT ![t] = NoClient]
               /\ Sftp!Rethrow(t)
               /\ UNCHANGED <<Sftp!config, channelLost>>
      <3>1. poolMine[t] \in Client /\ poolMine[t] \notin channel
        BY <1>8, <2>1 DEF ClientsHeld, SessionsKept
      <3> QED
        BY <1>2, <2>1, <3>1 DEF Sftp!CloseSession, Sftp!Rethrow
    <2>2. CASE /\ Sftp!GoTo(t, "threw")
               /\ UNCHANGED <<Sftp!config, place, session, channel, poolMine, channelLost>>
      BY <1>1, <2>2
    <2> QED
      BY <1>10, <2>1, <2>2 DEF Sftp!CreateFails
  <1>11. ASSUME NEW t \in Two, Sftp!TimeOut(t) \/ Sftp!CallbackEnds(t)
         PROVE  Sftp!TypeOK' /\ IsFiniteSet(Live')
    BY <1>1, <1>11 DEF Sftp!TimeOut, Sftp!CallbackEnds
  <1>12. ASSUME NEW t \in Two, Sftp!Return(t) PROVE Sftp!TypeOK' /\ IsFiniteSet(Live')
    <2>1. poolMine[t] \in Client
      BY <1>8, <1>12 DEF Sftp!Return
    <2>2. \E p \in {"none", "new", "idle", "used"} :
            /\ place' = [place EXCEPT ![poolMine[t]] = p]
            /\ p = "none" \/ place[poolMine[t]] # "none"
      BY <1>12, <2>1 DEF Sftp!Return, Sftp!PutBack
    <2> QED
      BY <1>2, <1>12, <2>1, <2>2 DEF Sftp!Return
  <1>13. ASSUME NEW c \in Client, Sftp!Abandon(c) PROVE Sftp!TypeOK' /\ IsFiniteSet(Live')
    BY <1>2, <1>5, <1>13 DEF Sftp!Abandon
  <1>14. ASSUME NEW c \in Client, Sftp!LoseChannel(c) \/ Sftp!LoseSession(c)
         PROVE  Sftp!TypeOK' /\ IsFiniteSet(Live')
    BY <1>1, <1>14 DEF Sftp!LoseChannel, Sftp!LoseSession
  <1>15. CASE UNCHANGED clientVars
    BY <1>1, <1>15 DEF clientVars
  <1> QED
    BY <1>3, <1>4, <1>6, <1>7, <1>9, <1>10, <1>11, <1>12, <1>13, <1>14, <1>15
       DEF Sftp!Next, Sftp!Call

LEMMA ClientsStep ==
  ASSUME PoolInv, [Sftp!Next]_clientVars
  PROVE  ClientsHeld'
  <1>0. ClientsHeld /\ NoClient \notin Client
    BY ThreadsAssumption DEF PoolInv
  <1>1. /\ place \in [Client -> {"none", "new", "idle", "used"}]
        /\ poolMine \in [Two -> Client \cup {NoClient}] /\ poolAt \in [Two -> Sftp!Points]
    BY DEF PoolInv, Sftp!TypeOK
  <1> USE <1>0, <1>1 DEF ClientsHeld, Sftp!GoTo
  <1>2. ASSUME NEW t \in Two, poolMine[t] = NoClient, NEW p \in {"idle", "borrow", "threw"},
               poolAt' = [poolAt EXCEPT ![t] = p], UNCHANGED <<place, poolMine>>
        PROVE  ClientsHeld'
    BY <1>2
  <1>3. ASSUME NEW t \in Two, Sftp!Ask(t) \/ Sftp!TimeOut(t) PROVE ClientsHeld'
    BY <1>2, <1>3 DEF Sftp!Ask, Sftp!TimeOut
  <1>4. ASSUME NEW t \in Two, NEW c \in Client, NEW q \in {"new", "used"}, NEW p,
               p = IF q = "new" THEN "connect" ELSE "callback",
               poolMine[t] = NoClient, \A u \in Two : poolMine[u] # c,
               place' = [place EXCEPT ![c] = q], poolMine' = [poolMine EXCEPT ![t] = c],
               poolAt' = [poolAt EXCEPT ![t] = p]
        PROVE  ClientsHeld'
    BY <1>4
  <1>5. ASSUME NEW t \in Two, NEW c \in Client, Sftp!BorrowIdle(t, c) PROVE ClientsHeld'
    BY <1>4, <1>5 DEF Sftp!BorrowIdle, Sftp!Idle
  <1>6. ASSUME NEW t \in Two, NEW c \in Client, Sftp!ConnectSession(t, c) PROVE ClientsHeld'
    BY <1>4, <1>6 DEF Sftp!ConnectSession
  <1>7. ASSUME NEW c \in Client, place[c] \in {"idle", "used"}, place' = [place EXCEPT ![c] = "none"],
               UNCHANGED <<poolMine, poolAt>>
        PROVE  ClientsHeld'
    BY <1>7
  <1>8. ASSUME NEW t \in Two, NEW c \in Client, Sftp!DestroyInvalid(t, c) PROVE ClientsHeld'
    BY <1>7, <1>8 DEF Sftp!DestroyInvalid, Sftp!Idle
  <1>9. ASSUME NEW c \in Client, Sftp!Abandon(c) PROVE ClientsHeld'
    BY <1>7, <1>9 DEF Sftp!Abandon
  <1>10. ASSUME NEW t \in Two, Sftp!OpenChannel(t) PROVE ClientsHeld'
    BY <1>10 DEF Sftp!OpenChannel
  <1>11. ASSUME NEW t \in Two, poolMine[t] \in Client, NEW q \in {"none", "idle"},
                place' = [place EXCEPT ![poolMine[t]] = q],
                poolMine' = [poolMine EXCEPT ![t] = NoClient],
                NEW p \in {"idle", "threw"}, poolAt' = [poolAt EXCEPT ![t] = p]
         PROVE  ClientsHeld'
    BY <1>11
  <1>12. ASSUME NEW t \in Two, Sftp!CreateFails(t) PROVE ClientsHeld'
    BY <1>2, <1>11, <1>12 DEF Sftp!CreateFails, Sftp!Rethrow
  <1>13. ASSUME NEW t \in Two, Sftp!Return(t) PROVE ClientsHeld'
    BY <1>11, <1>13 DEF Sftp!Return, Sftp!PutBack
  <1>14. ASSUME NEW t \in Two, Sftp!CallbackEnds(t) PROVE ClientsHeld'
    BY <1>14 DEF Sftp!CallbackEnds
  <1>15. CASE UNCHANGED clientVars \/ \E c \in Client : Sftp!LoseChannel(c) \/ Sftp!LoseSession(c)
    BY <1>15 DEF clientVars, Sftp!LoseChannel, Sftp!LoseSession
  <1> QED
    BY <1>3, <1>5, <1>6, <1>8, <1>9, <1>10, <1>12, <1>13, <1>14, <1>15 DEF Sftp!Next, Sftp!Call

LEMMA SessionsStep ==
  ASSUME PoolInv, [Sftp!Next]_clientVars
  PROVE  SessionsKept'
  <1>0. /\ SessionsKept /\ ClientsHeld /\ place \in [Client -> {"none", "new", "idle", "used"}]
        /\ channel \subseteq session /\ session \subseteq Client
    BY DEF PoolInv, Sftp!TypeOK
  <1> USE <1>0 DEF SessionsKept
  <1>1. ASSUME NEW c \in Client, place[c] \in {"idle", "used"}, Sftp!Close(c),
               place' = [place EXCEPT ![c] = "none"], UNCHANGED channelLost
        PROVE  SessionsKept'
    BY <1>1 DEF Sftp!Close
  <1>2. ASSUME UNCHANGED <<place, session, channel, channelLost>> PROVE SessionsKept'
    BY <1>2
  <1>3. ASSUME NEW t \in Two, Sftp!Ask(t) \/ Sftp!TimeOut(t) \/ Sftp!CallbackEnds(t)
        PROVE  SessionsKept'
    BY <1>2, <1>3 DEF Sftp!Ask, Sftp!TimeOut, Sftp!CallbackEnds
  <1>4. ASSUME NEW t \in Two, NEW c \in Client, Sftp!BorrowIdle(t, c) PROVE SessionsKept'
    BY <1>4 DEF Sftp!BorrowIdle, Sftp!Idle
  <1>5. ASSUME NEW t \in Two, NEW c \in Client, Sftp!DestroyInvalid(t, c) PROVE SessionsKept'
    BY <1>1, <1>5 DEF Sftp!DestroyInvalid, Sftp!Idle
  <1>6. ASSUME NEW t \in Two, NEW c \in Client, Sftp!ConnectSession(t, c) PROVE SessionsKept'
    BY <1>6 DEF Sftp!ConnectSession
  <1>7. ASSUME NEW t \in Two, Sftp!OpenChannel(t) PROVE SessionsKept'
    BY <1>7 DEF Sftp!OpenChannel
  <1>8. ASSUME NEW t \in Two, Sftp!CreateFails(t) PROVE SessionsKept'
    BY <1>2, <1>8 DEF Sftp!CreateFails, Sftp!CloseSession, ClientsHeld
  <1>9. ASSUME NEW t \in Two, Sftp!Return(t) PROVE SessionsKept'
    BY <1>9 DEF Sftp!Return, Sftp!PutBack
  <1>10. ASSUME NEW c \in Client, Sftp!Abandon(c) PROVE SessionsKept'
    BY <1>1, <1>10 DEF Sftp!Abandon
  <1>11. ASSUME NEW c \in Client, Sftp!LoseChannel(c) \/ Sftp!LoseSession(c) PROVE SessionsKept'
    BY <1>11 DEF Sftp!LoseChannel, Sftp!LoseSession
  <1>12. CASE UNCHANGED clientVars
    BY <1>2, <1>12 DEF clientVars
  <1> QED
    BY <1>3, <1>4, <1>5, <1>6, <1>7, <1>8, <1>9, <1>10, <1>11, <1>12 DEF Sftp!Next, Sftp!Call
-----------------------------------------------------------------------------
(* The parts together                                                      *)

\* Whatever the other parts do, a part makes the steps of its own specification.
LEMMA PartsStep ==
  ASSUME [MCNext]_allVars
  PROVE  /\ [Lazy!Next]_initVars
         /\ [Jdk!Next]_lockVars
         /\ [Sftp!Next]_clientVars
  BY DEF MCNext, InitPart, LockPart, PoolPart, InInit, InLock, InPool, InitEnds, allVars

\* SftpClientPool, as it runs here, keeps its clients and their sessions.
LEMMA PoolInvariant == MCSpec => []PoolInv
  <1>1. MCInit => PoolInv
    <2> SUFFICES ASSUME MCInit PROVE PoolInv
      OBVIOUS
    <2>1. Sftp!Init
      BY DEF MCInit
    <2>2. Live = {}
      BY <2>1 DEF Sftp!Init, Live, Sftp!Live
    <2>3. IsFiniteSet(Live) /\ Cardinality(Live) = 0
      BY <2>2, FS_EmptySet
    <2>4. Sftp!Cardinality(Sftp!Live) <= maxTotal
      BY <2>1, <2>3, SameCardinality, ThreadsAssumption DEF Live, Sftp!Init
    <2>5. Sftp!TypeOK
      BY <2>1, <2>4 DEF Sftp!Init, Sftp!TypeOK, Sftp!Points
    <2>6. ClientsHeld /\ SessionsKept
      BY <2>1, ThreadsAssumption DEF Sftp!Init, ClientsHeld, SessionsKept
    <2> QED
      BY <2>3, <2>5, <2>6 DEF PoolInv
  <1>2. PoolInv /\ [MCNext]_allVars => PoolInv'
    <2> SUFFICES ASSUME PoolInv, [MCNext]_allVars PROVE PoolInv'
      OBVIOUS
    <2>1. [Sftp!Next]_clientVars
      BY PartsStep
    <2>2. Sftp!TypeOK' /\ IsFiniteSet(Live')
      BY <2>1, PoolTypeStep
    <2>3. ClientsHeld' /\ SessionsKept'
      BY <2>1, ClientsStep, SessionsStep
    <2> QED
      BY <2>2, <2>3 DEF PoolInv
  <1> QED
    BY <1>1, <1>2, PTL DEF MCSpec

\* JdkLock, and what is proved of it, is the same from MCThreads and from JdkLockProofs.
LEMMA SameLock ==
  /\ Jdk!Init <=> JdkP!Init
  /\ [Jdk!Next]_lockVars <=> [JdkP!Next]_JdkP!jdkVars
  /\ Jdk!TypeOK <=> JdkP!TypeOK
  /\ Jdk!ExclusiveWithinInstance <=> JdkP!ExclusiveWithinInstance
  /\ Jdk!LeftOverOnlyWhenRefused <=> JdkP!LeftOverOnlyWhenRefused
  <1>1. Jdk!Init <=> JdkP!Init
    BY DEF Jdk!Init, JdkP!Init
  <1>2. Jdk!Next <=> JdkP!Next
    BY DEF Jdk!Next, JdkP!Next, Jdk!TryGet, JdkP!TryGet, Jdk!Release, JdkP!Release, Jdk!Finish,
               JdkP!Finish, Jdk!Expire, JdkP!Expire, Jdk!ContainsKey, JdkP!ContainsKey, Jdk!Put,
               JdkP!Put, Jdk!TryLock, JdkP!TryLock, Jdk!Remove, JdkP!Remove, Jdk!GoTo, JdkP!GoTo,
               Jdk!Unguard, JdkP!Unguard, Jdk!GuardFree, JdkP!GuardFree, Jdk!NoEntry,
               JdkP!NoEntry, Jdk!RemoveEntry, JdkP!RemoveEntry, Jdk!FreeGuard, JdkP!FreeGuard
  <1>3. [Jdk!Next]_lockVars <=> [JdkP!Next]_JdkP!jdkVars
    BY <1>2 DEF lockVars, JdkP!jdkVars
  <1>4. Jdk!TypeOK <=> JdkP!TypeOK
    BY DEF Jdk!TypeOK, JdkP!TypeOK, Jdk!Points, JdkP!Points
  <1>5. Jdk!ExclusiveWithinInstance <=> JdkP!ExclusiveWithinInstance
    BY DEF Jdk!ExclusiveWithinInstance, JdkP!ExclusiveWithinInstance, Jdk!OneInstance,
           JdkP!OneInstance, Jdk!Cardinality, JdkP!Cardinality
  <1>6. Jdk!LeftOverOnlyWhenRefused <=> JdkP!LeftOverOnlyWhenRefused
    BY DEF Jdk!LeftOverOnlyWhenRefused, JdkP!LeftOverOnlyWhenRefused
  <1> QED
    BY <1>1, <1>3, <1>4, <1>5, <1>6

\* So it is for LazyInit.
LEMMA SameInit ==
  /\ Lazy!Init <=> LazyP!Init
  /\ [Lazy!Next]_initVars <=> [LazyP!Next]_LazyP!lazyVars
  /\ Lazy!TypeOK <=> LazyP!TypeOK
  /\ Lazy!AtMostOnce <=> LazyP!AtMostOnce
  <1>1. Lazy!Init <=> LazyP!Init
    BY DEF Lazy!Init, LazyP!Init, Lazy!Kinds, LazyP!Kinds
  <1>2. Lazy!Next <=> LazyP!Next
    BY DEF Lazy!Next, LazyP!Next, Lazy!Call, LazyP!Call, Lazy!Step, LazyP!Step, Lazy!Test,
               LazyP!Test, Lazy!Enter, LazyP!Enter, Lazy!Retest, LazyP!Retest, Lazy!Initialised,
               LazyP!Initialised, Lazy!InitFails, LazyP!InitFails, Lazy!Leave, LazyP!Leave,
               Lazy!Use, LazyP!Use, Lazy!GoTo, LazyP!GoTo, Lazy!Plain, LazyP!Plain, Lazy!Free,
               LazyP!Free, Lazy!StillMissing, LazyP!StillMissing, Lazy!PublishesNow,
               LazyP!PublishesNow, Lazy!PublishFirst, LazyP!PublishFirst, Lazy!Unlock,
               LazyP!Unlock
  <1>3. [Lazy!Next]_initVars <=> [LazyP!Next]_LazyP!lazyVars
    BY <1>2 DEF initVars, LazyP!lazyVars
  <1>4. Lazy!TypeOK <=> LazyP!TypeOK
    BY DEF Lazy!TypeOK, LazyP!TypeOK, Lazy!Kinds, LazyP!Kinds, Lazy!Points, LazyP!Points
  <1>5. Lazy!AtMostOnce <=> LazyP!AtMostOnce
    BY DEF Lazy!AtMostOnce, LazyP!AtMostOnce, Lazy!PublishFirst, LazyP!PublishFirst
  <1> QED
    BY <1>1, <1>3, <1>4, <1>5

\* Side by side, JdkLock and LazyInit behave as on their own.
LEMMA PartsBehave == MCSpec => JdkP!Spec /\ LazyP!Spec
  <1>1. MCInit => JdkP!Init /\ LazyP!Init
    BY SameLock, SameInit DEF MCInit
  <1>2. [MCNext]_allVars => [JdkP!Next]_JdkP!jdkVars /\ [LazyP!Next]_LazyP!lazyVars
    BY PartsStep, SameLock, SameInit
  <1> QED
    BY <1>1, <1>2, PTL DEF MCSpec, JdkP!Spec, LazyP!Spec

\* A client that is out is one thread's and comes back with it, whatever fails, and an
\* open session belongs to a client of the pool unless its channel was lost before.
THEOREM PoolKeptHolds == MCSpec => []PoolKept
  <1>1. PoolInv => PoolKept
    <2> SUFFICES ASSUME PoolInv PROVE PoolKept
      OBVIOUS
    <2>1. ASSUME NEW c \in Client, place[c] \in {"used", "new"}
          PROVE  Sftp!Cardinality({t \in Two : poolMine[t] = c}) = 1
      <3>1. PICK t \in Two : poolMine[t] = c
        BY <2>1 DEF PoolInv, ClientsHeld
      <3>2. {u \in Two : poolMine[u] = c} = {t}
        BY <3>1, ThreadsAssumption DEF PoolInv, ClientsHeld
      <3> QED
        BY <3>2, FS_Singleton, SameCardinality
    <2>2. ASSUME NEW c \in Sftp!Idle, NEW t \in Two PROVE poolMine[t] # c
      BY ThreadsAssumption DEF PoolInv, ClientsHeld, Sftp!Idle, Sftp!TypeOK
    <2>3. Sftp!EveryClientReturns
      BY <2>1, <2>2 DEF Sftp!EveryClientReturns
    <2>4. Sftp!SessionsAccountedFor
      BY DEF PoolInv, SessionsKept, Sftp!SessionsAccountedFor
    <2> QED
      BY <2>3, <2>4 DEF PoolKept
  <1> QED
    BY <1>1, PoolInvariant, PTL

\* One initialisation runs at a time and none after a success, and through one instance a
\* key has one holder, unless its lock expires or is released by a stranger; a lock
\* without a holder is one whose release was refused.
THEOREM OneAtATimeHolds == MCSpec => []OneAtATime
  <1>1. JdkP!Spec => []JdkP!ExclusiveWithinInstance
    BY JdkP!ExclusiveWithinInstanceHolds, ThreadsAssumption
  <1>2. JdkP!Spec => []JdkP!LeftOverOnlyWhenRefused
    BY JdkP!LeftOverOnlyWhenRefusedHolds, ThreadsAssumption
  <1>3. LazyP!Spec => []LazyP!AtMostOnce
    BY LazyP!AtMostOnceHolds, ThreadsAssumption
  <1>4. LazyP!AtMostOnce /\ JdkP!ExclusiveWithinInstance /\ JdkP!LeftOverOnlyWhenRefused
        => OneAtATime
    BY SameLock, SameInit DEF OneAtATime
  <1> QED
    BY <1>1, <1>2, <1>3, <1>4, PartsBehave, PTL

\* The variables of the three parts have their types; in particular a guard or a monitor
\* has a thread exactly while that thread is inside, and the pool has no more clients
\* than it may have.
THEOREM TypesCorrect == MCSpec => []TypesOK
  <1>1. JdkP!Spec => []JdkP!TypeOK
    BY JdkP!TypeCorrect, ThreadsAssumption
  <1>2. LazyP!Spec => []LazyP!TypeOK
    BY LazyP!TypeCorrect, ThreadsAssumption
  <1>3. LazyP!TypeOK /\ JdkP!TypeOK /\ PoolInv => TypesOK
    BY SameLock, SameInit DEF TypesOK, PoolInv
  <1> QED
    BY <1>1, <1>2, <1>3, PartsBehave, PoolInvariant, PTL

\* Once says the same of both instances of LazyInit.
LEMMA SamePromise ==
  /\ Lazy!Promise!Init <=> LazyP!Promise!Init
  /\ Lazy!Promise!Next <=> LazyP!Promise!Next
  <1>1. Lazy!Promise!Init <=> LazyP!Promise!Init
    BY DEF Lazy!Promise!Init, LazyP!Promise!Init, Lazy!PublishFirst, LazyP!PublishFirst
  <1>2. Lazy!Promise!Next <=> LazyP!Promise!Next
    BY DEF Lazy!Promise!Next, LazyP!Promise!Next, Lazy!Promise!Succeed, LazyP!Promise!Succeed,
           Lazy!Promise!Fail, LazyP!Promise!Fail, Lazy!Promise!Begin, LazyP!Promise!Begin,
           Lazy!Promise!Return, LazyP!Promise!Return, Lazy!Promise!Again, LazyP!Promise!Again,
           Lazy!PublishFirst, LazyP!PublishFirst
  <1> QED
    BY <1>1, <1>2

\* The lazy initialisations implement Once.
THEOREM LazyOnceHolds == MCSpec => LazyOnce
  <1>1. LazyP!Spec => LazyP!OnceSpec
    BY LazyP!ImplementsOnce, ThreadsAssumption
  <1>2. LazyP!OnceSpec => LazyOnce
    BY SamePromise, PTL DEF LazyOnce, Lazy!OnceSpec, LazyP!OnceSpec, Lazy!Promise!Spec,
       LazyP!Promise!Spec, Lazy!PublishFirst, LazyP!PublishFirst
  <1> QED
    BY <1>1, <1>2, PartsBehave, PTL
=============================================================================
