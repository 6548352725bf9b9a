--------------------------- MODULE RedisLockRunner ---------------------------
(***************************************************************************)
(* The distributed lock of org.jsirenia.lock: one Redis key, the two Redis *)
(* implementations of the RedisLock interface, and the runners that call   *)
(* tryGetDistributedLock, the caller's callback and                        *)
(* releaseDistributedLock.                                                 *)
(*                                                                         *)
(* A caller is one runner object in the thread that calls its apply; its   *)
(* UUID is RequestId[c].  Time is discrete and every duration is counted   *)
(* down, so no clock needs a bound.  A step of Redis is atomic (each is    *)
(* one command or one Lua script); time passes between any two steps.      *)
(***************************************************************************)
EXTENDS Naturals

CONSTANTS
  Caller,        \* runner objects, each used by one thread
  NoCaller,
  Id, NoId,      \* UUIDs, and the absence of the key
  RequestId,     \* [Caller -> Id]
  Parent,        \* [Caller -> Caller \cup {NoCaller}]: whose callback runs it
  Mode,          \* [Caller -> Modes]: the runner's class or its retryMode
  LockClass,     \* "JedisLock" or "SpringRedisLock"
  ExpireTime,    \* the key's TTL
  SleepTime,     \* sleepMillisecond
  RetryTimeout,  \* retryTimeout
  RetryTimes     \* retryTimes

\* RedisLockRunner's three retry modes and the two subclasses of
\* SpringRedisLockRunner; SpringRedisLockRunner itself behaves like DEFAULT.
Modes == {"DEFAULT", "RETRY_TIMEOUT", "RETRY_TIMES",
          "RetryableRedisLockRunner", "TimeoutRedisLockRunner"}

ASSUME ConstantsAssumption ==
  /\ NoCaller \notin Caller
  /\ NoId \notin Id
  /\ RequestId \in [Caller -> Id]
  /\ Parent \in [Caller -> Caller \cup {NoCaller}]
  /\ \A c \in Caller : Parent[c] # NoCaller => Parent[Parent[c]] = NoCaller
  /\ Mode \in [Caller -> Modes]
  /\ LockClass \in {"JedisLock", "SpringRedisLock"}
  /\ ExpireTime \in Nat \ {0}
  /\ SleepTime \in Nat \ {0}
  /\ RetryTimeout \in Nat
  /\ RetryTimes \in Nat

VARIABLES
  holder,    \* value of the Redis key, NoId when there is none
  ttl,       \* what remains of the key's time to live, 0 when it has none
  pc,        \* where each caller is in apply
  elapsed,   \* time since apply began, as far as the timeout tests tell apart
  tried,     \* failed attempts, as far as the retry tests tell apart
  sleeping,  \* what remains of Thread.sleep
  result,    \* how the callback ended
  outcome,   \* how the last apply ended
  lease,     \* what remains of the lease the caller was granted
  intruded,  \* history: another caller was granted the lock during the section
  asked      \* history: refused attempts of this apply

vars == <<holder, ttl, pc, elapsed, tried, sleeping, result, outcome, lease, intruded, asked>>
key  == <<holder, ttl>>

PCs == {"idle", "try", "refused", "sleep", "callback", "release", "done", "crashed"}
Outcomes == {"none", "value", "callbackError", "notAcquired", "acquireError",
             "interrupted", "notReleased", "releaseError"}

InSection(c) == pc[c] \in {"callback", "release"}
Asking(c)    == pc[c] \in {"try", "refused", "sleep"}
Active(c)    == pc[c] \notin {"idle", "done", "crashed"}

Timed(c)     == Mode[c] \in {"RETRY_TIMEOUT", "TimeoutRedisLockRunner"}
Counting(c)  == Mode[c] \in {"RETRY_TIMES", "RetryableRedisLockRunner"}

\* Bounds of the counters: one more than any test in the code tells apart, and
\* more attempts than any apply makes.
ElapsedBound == RetryTimeout + 1
TriedBound   == RetryTimes + 2
AskedBound   == RetryTimeout + RetryTimes + 3

UpTo(n, bound) == IF n < bound THEN n + 1 ELSE bound
Down(n)        == IF n = 0 THEN 0 ELSE n - 1

\* The key may already hold somebody else's value, with no time to live.
Foreign == {i \in Id : \A c \in Caller : RequestId[c] # i}

Init ==
  /\ holder \in Foreign \cup {NoId}
  /\ ttl = 0
  /\ pc = [c \in Caller |-> "idle"]
  /\ elapsed = [c \in Caller |-> 0]
  /\ tried = [c \in Caller |-> 0]
  /\ sleeping = [c \in Caller |-> 0]
  /\ result = [c \in Caller |-> "none"]
  /\ outcome = [c \in Caller |-> "none"]
  /\ lease = [c \in Caller |-> 0]
  /\ intruded = [c \in Caller |-> FALSE]
  /\ asked = [c \in Caller |-> 0]
-----------------------------------------------------------------------------
(* The Redis side: the scripts of JedisLock and SpringRedisLock.           *)

Owns(c) == holder = RequestId[c]

\* Mutants: SET without NX, SET without PX, SET PX with a time to live that was
\* converted to milliseconds twice, release without its comparison.
GrantableAlways(c) == TRUE
SetPersistent(c) == holder' = RequestId[c] /\ ttl' = 0
SetMillisTwice(c) == holder' = RequestId[c] /\ ttl' = ExpireTime * 1000
OwnsAny(c) == holder # NoId

\* JedisLock sets the key again when it already holds the caller's id.
Grantable(c) ==
  \/ holder = NoId
  \/ LockClass = "JedisLock" /\ Owns(c)

Set(c) ==
  /\ holder' = RequestId[c]
  /\ ttl' = ExpireTime

Deletable(c) == Owns(c)

Delete ==
  /\ holder' = NoId
  /\ ttl' = 0
-----------------------------------------------------------------------------
(* apply                                                                   *)

\* tryedTimes of RetryableRedisLockRunner is a field that nothing resets; every
\* other count or clock is local to one apply, and read only while it asks.
StopAsking(C) ==
  /\ elapsed' = [c \in Caller |-> IF c \in C THEN 0 ELSE elapsed[c]]
  /\ asked' = [c \in Caller |-> IF c \in C THEN 0 ELSE asked[c]]
  /\ tried' = [c \in Caller |-> IF c \in C /\ Mode[c] # "RetryableRedisLockRunner"
                                 THEN 0 ELSE tried[c]]

Forget(C) ==
  /\ StopAsking(C)
  /\ lease' = [c \in Caller |-> IF c \in C THEN 0 ELSE lease[c]]
  /\ sleeping' = [c \in Caller |-> IF c \in C THEN 0 ELSE sleeping[c]]
  /\ result' = [c \in Caller |-> IF c \in C THEN "none" ELSE result[c]]

Finish(c, how) ==
  /\ pc' = [pc EXCEPT ![c] = "done"]
  /\ outcome' = [outcome EXCEPT ![c] = how]
  /\ Forget({c})

\* A thread whose callback calls another apply calls one at a time.
MayCall(c) ==
  Parent[c] # NoCaller =>
    /\ pc[Parent[c]] = "callback"
    /\ \A d \in Caller : Parent[d] = Parent[c] => ~ Active(d)

Apply(c) ==
  /\ pc[c] \in {"idle", "done"}
  /\ MayCall(c)
  /\ pc' = [pc EXCEPT ![c] = "try"]
  /\ outcome' = [outcome EXCEPT ![c] = "none"]
  /\ intruded' = [intruded EXCEPT ![c] = FALSE]
  /\ UNCHANGED <<key, elapsed, tried, sleeping, result, lease, asked>>

\* Every caller in its section sees the grant to someone else as an intrusion.
TryGranted(c) ==
  /\ pc[c] = "try"
  /\ Grantable(c)
  /\ Set(c)
  /\ pc' = [pc EXCEPT ![c] = "callback"]
  /\ lease' = [lease EXCEPT ![c] = ExpireTime]
  /\ intruded' = [d \in Caller |-> d # c /\ (intruded[d] \/ InSection(d))]
  /\ StopAsking({c})
  /\ UNCHANGED <<sleeping, result, outcome>>

TryRefused(c) ==
  /\ pc[c] = "try"
  /\ ~ Grantable(c)
  /\ pc' = [pc EXCEPT ![c] = "refused"]
  /\ tried' = IF Counting(c) THEN [tried EXCEPT ![c] = UpTo(@, TriedBound)] ELSE tried
  /\ asked' = IF Mode[c] = "RETRY_TIMES" THEN asked
              ELSE [asked EXCEPT ![c] = UpTo(@, AskedBound)]
  /\ UNCHANGED <<key, elapsed, sleeping, result, outcome, lease, intruded>>

\* The call to Redis fails before or after Redis has executed it.  The
\* exception leaves apply outside the try block: nothing is released.
TryLost(c) ==
  /\ pc[c] = "try"
  /\ \/ UNCHANGED key
     \/ Grantable(c) /\ Set(c)
  /\ Finish(c, "acquireError")
  /\ UNCHANGED intruded


\* Mutant: the counting runner retries once too often.
KeepTryingOnceMore(c) ==
  \/ Timed(c) /\ elapsed[c] < RetryTimeout
  \/ Mode[c] = "RETRY_TIMES"
  \/ Mode[c] = "RetryableRedisLockRunner" /\ tried[c] <= RetryTimes

\* The RETRY_TIMES loop has no exit but success: its counter only decides
\* whether it sleeps before the next attempt.
KeepTrying(c) ==
  \/ Mode[c] = "RETRY_TIMEOUT" /\ elapsed[c] < RetryTimeout
  \/ Mode[c] = "RETRY_TIMES"
  \/ Mode[c] = "RetryableRedisLockRunner" /\ tried[c] < RetryTimes
  \/ Mode[c] = "TimeoutRedisLockRunner" /\ elapsed[c] <= RetryTimeout

SleepsBeforeRetry(c) == Mode[c] = "RETRY_TIMES" => tried[c] <= RetryTimes

OnGetLockFailed(c) ==
  /\ pc[c] = "refused"
  /\ ~ KeepTrying(c)
  /\ Finish(c, "notAcquired")
  /\ UNCHANGED <<key, intruded>>

Sleep(c) ==
  /\ pc[c] = "refused"
  /\ KeepTrying(c)
  /\ SleepsBeforeRetry(c)
  /\ pc' = [pc EXCEPT ![c] = "sleep"]
  /\ sleeping' = [sleeping EXCEPT ![c] = SleepTime]
  /\ UNCHANGED <<key, elapsed, tried, result, outcome, lease, intruded, asked>>

RetryAtOnce(c) ==
  /\ pc[c] = "refused"
  /\ KeepTrying(c)
  /\ ~ SleepsBeforeRetry(c)
  /\ pc' = [pc EXCEPT ![c] = "try"]
  /\ UNCHANGED <<key, elapsed, tried, sleeping, result, outcome, lease, intruded, asked>>

Wake(c) ==
  /\ pc[c] = "sleep"
  /\ sleeping[c] = 0
  /\ pc' = [pc EXCEPT ![c] = "try"]
  /\ UNCHANGED <<key, elapsed, tried, sleeping, result, outcome, lease, intruded, asked>>

\* Thread.sleep throws InterruptedException.
Interrupt(c) ==
  /\ pc[c] = "sleep"
  /\ Finish(c, "interrupted")
  /\ UNCHANGED <<key, intruded>>

\* The callback returns or throws, after every apply it called has ended.
CallbackEnds(c) ==
  /\ pc[c] = "callback"
  /\ \A d \in Caller : Parent[d] = c => ~ Active(d)
  /\ \E how \in {"value", "callbackError"} : result' = [result EXCEPT ![c] = how]
  /\ pc' = [pc EXCEPT ![c] = "release"]
  /\ UNCHANGED <<key, elapsed, tried, sleeping, outcome, lease, intruded, asked>>

ReleaseOwn(c) ==
  /\ pc[c] = "release"
  /\ Deletable(c)
  /\ Delete
  /\ Finish(c, result[c])
  /\ UNCHANGED intruded

\* onReleaseLockFailed throws inside finally and replaces the callback's end.
ReleaseRefused(c) ==
  /\ pc[c] = "release"
  /\ ~ Deletable(c)
  /\ Finish(c, "notReleased")
  /\ UNCHANGED <<key, intruded>>

ReleaseLost(c) ==
  /\ pc[c] = "release"
  /\ \/ UNCHANGED key
     \/ Deletable(c) /\ Delete
  /\ Finish(c, "releaseError")
  /\ UNCHANGED intruded

\* A thread dies with every apply on its stack.
Root(c) == IF Parent[c] = NoCaller THEN c ELSE Parent[c]
Stack(c) == {d \in Caller : Root(d) = Root(c)}

Crash(c) ==
  /\ Active(c)
  /\ pc' = [d \in Caller |-> IF d \in Stack(c) THEN "crashed" ELSE pc[d]]
  /\ outcome' = [d \in Caller |-> IF d \in Stack(c) THEN "none" ELSE outcome[d]]
  /\ Forget(Stack(c))
  /\ UNCHANGED <<key, intruded>>

\* Time passes; Redis drops the key when its time to live has run out.
Tick ==
  /\ ttl' = Down(ttl)
  /\ holder' = IF ttl = 1 THEN NoId ELSE holder
  /\ elapsed' = [c \in Caller |-> IF Asking(c) /\ Timed(c)
                               THEN UpTo(elapsed[c], ElapsedBound) ELSE elapsed[c]]
  /\ sleeping' = [c \in Caller |-> Down(sleeping[c])]
  /\ lease' = [c \in Caller |-> Down(lease[c])]
  /\ UNCHANGED <<pc, tried, result, outcome, intruded, asked>>
-----------------------------------------------------------------------------
Progress(c) ==
  \/ TryGranted(c) \/ TryRefused(c)
  \/ OnGetLockFailed(c) \/ Sleep(c) \/ RetryAtOnce(c) \/ Wake(c)
  \/ CallbackEnds(c) \/ ReleaseOwn(c) \/ ReleaseRefused(c)

Fault(c) == TryLost(c) \/ ReleaseLost(c) \/ Interrupt(c) \/ Crash(c)

Next ==
  \/ \E c \in Caller : Apply(c) \/ Progress(c) \/ Fault(c)
  \/ Tick

Spec == Init /\ [][Next]_vars

\* A live thread takes its next step, a callback returns, and time passes.
\* Nothing makes a caller call apply, and no fault has to happen.
Fairness ==
  /\ WF_vars(Tick)
  /\ \A c \in Caller : WF_vars(Progress(c))

FairSpec == Spec /\ Fairness
-----------------------------------------------------------------------------
TypeOK ==
  /\ holder \in Id \cup {NoId}
  /\ ttl \in 0..ExpireTime
  /\ pc \in [Caller -> PCs]
  /\ elapsed \in [Caller -> 0..ElapsedBound]
  /\ tried \in [Caller -> 0..TriedBound]
  /\ sleeping \in [Caller -> 0..SleepTime]
  /\ result \in [Caller -> {"none", "value", "callbackError"}]
  /\ outcome \in [Caller -> Outcomes]
  /\ lease \in [Caller -> 0..ExpireTime]
  /\ intruded \in [Caller -> BOOLEAN]
  /\ asked \in [Caller -> 0..AskedBound]

\* Two callers whose leases are running are never in their sections together,
\* whatever replies were lost, whoever died and however late a release came.
MutualExclusion ==
  \A c, d \in Caller :
    InSection(c) /\ lease[c] > 0 /\ InSection(d) /\ lease[d] > 0 => c = d

\* Why these hold: in its section a caller owns the key exactly as long as its
\* lease runs, which is the key's own remaining time, and a section that still
\* owns the key was never intruded upon.
LeaseBacked ==
  \A c \in Caller : InSection(c) =>
    IF Owns(c) THEN lease[c] = ttl /\ ttl > 0 ELSE lease[c] = 0
Undisturbed ==
  \A c \in Caller :
    /\ Active(c) => outcome[c] = "none"
    /\ InSection(c) /\ Owns(c) => ~ intruded[c]
LockInvariant == LeaseBacked /\ Undisturbed

\* apply hands back the callback's own end only if no other caller was granted
\* the lock while the callback ran: an overrun lease is always reported.
NormalReturnWasExclusive ==
  \A c \in Caller : outcome[c] \in {"value", "callbackError"} => ~ intruded[c]

\* onReleaseLockFailed is called only for a lease that has run out: nobody
\* else can take the key away from a caller that is still within its lease.
ReleaseRefusedOnlyWhenExpired ==
  [][\A c \in Caller :
       outcome[c] # "notReleased" /\ outcome'[c] = "notReleased" => lease[c] = 0]_vars

\* The class comment of RedisLockRunner: with a fixed number of retries the
\* runner fails if the last one does not get the lock either.
FixedRetriesThenFailure ==
  \A c \in Caller : Mode[c] = "RETRY_TIMES" => tried[c] <= RetryTimes + 1

\* How often one apply may be refused: once per sleep until its time is over, or
\* retryTimes times in all, but once in any case.
Allowed(c) ==
  CASE Mode[c] = "RETRY_TIMEOUT" -> (RetryTimeout + SleepTime - 1) \div SleepTime + 1
    [] Mode[c] = "TimeoutRedisLockRunner" -> RetryTimeout \div SleepTime + 2
    [] Mode[c] = "RetryableRedisLockRunner" /\ RetryTimes > 0 -> RetryTimes
    [] OTHER -> 1

\* No apply is refused more often than its mode allows.  A RetryableRedisLockRunner
\* gives up when all its applies together were refused retryTimes times: a later
\* apply has what the earlier ones left, but always one attempt.
AttemptsCounted ==
  \A c \in Caller : Mode[c] # "RETRY_TIMES" =>
    /\ asked'[c] <= Allowed(c)
    /\ Mode[c] = "RetryableRedisLockRunner" /\ Asking(c) /\ outcome'[c] = "notAcquired"
         => IF asked[c] = 1 THEN tried[c] >= RetryTimes ELSE tried[c] = RetryTimes

\* Every apply that is not in RETRY_TIMES mode stops asking for the lock, whoever
\* else keeps taking it, and its refusals are counted as AttemptsCounted says.
AskingEnds ==
  /\ [][AttemptsCounted]_vars
  /\ \A c \in Caller :
       Mode[c] # "RETRY_TIMES" => (pc[c] = "try" ~> ~ Asking(c))

\* An apply called from the callback that holds the same key does not wait for
\* ever, in any mode: it ends, or the outer lease gives way although the thread
\* that holds it waits for the inner apply.
OuterLeaseGivesWay ==
  \A c \in Caller : Parent[c] # NoCaller =>
    ((Active(c) /\ Owns(Parent[c])) ~> (~ Active(c) \/ ~ Owns(Parent[c])))

\* The lock of a caller that died, or whose apply ended without a release since the
\* reply to its SET or to its release was lost, is free again after its time to
\* live, unless the same runner is asking again.
CrashedHolderExpires ==
  \A c \in Caller :
    (pc[c] \in {"crashed", "done"} /\ Owns(c)) ~> (holder # RequestId[c] \/ Active(c))

\* The runner gives its callers what LeaseMutex promises.
Section(c) ==
  IF InSection(c) THEN IF lease[c] > 0 THEN "inside" ELSE "overrun"
  ELSE IF outcome[c] \in {"value", "callbackError"} THEN "returned"
  ELSE IF outcome[c] = "none" THEN "out"
  ELSE "reported"

Mutex == INSTANCE LeaseMutex WITH section <- [c \in Caller |-> Section(c)]
MutexSpec == Mutex!Spec
=============================================================================
