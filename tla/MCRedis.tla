------------------------------- MODULE MCRedis -------------------------------
(***************************************************************************)
(* The components that keep their whole state in Redis, and the local      *)
(* rate limiter, which promises what the one in Redis does.  They share no *)
(* state, so one run checks them side by side: the initial state chooses a *)
(* part, and the others stay in their initial state.                       *)
(***************************************************************************)
EXTENDS RedisQueue

CONSTANTS
  Session, Code, NoCode,
  codeExpireSeconds, codeIntervalSeconds, lockSeconds, maxFailTimes,
  Client, capacity, rate, Nil, MaxLag, MaxAge, MaxClears,
  Thread, NoThread, Limiter, NoLimiter, LocalCapacity, Rate, Second, LocalMaxAge

VARIABLES
  part,  \* the component that runs
  code, codeTtl, times, timesTtl, intervalTtl, lockTtl,
  pc, input, failed, beyond, good, pending,
  script, tokens, age, lag, answer, accepted, clearing, clears, granted,
  limiterMap, limiters, capacityOf, rateOf, tokensOf, ageOf, ownerOf, threadAt, limiterOf,
  lastOf, localClears, localGranted

Sms == INSTANCE SmsCode
Lua == INSTANCE LuaRateLimiter
Local == INSTANCE LocalRateLimiter
           WITH Capacity <- LocalCapacity, MaxAge <- LocalMaxAge, map <- limiterMap,
                made <- limiters, capacity <- capacityOf, rate <- rateOf, tokens <- tokensOf,
                age <- ageOf, owner <- ownerOf, pc <- threadAt, mine <- limiterOf,
                last <- lastOf, clears <- localClears, granted <- localGranted

ASSUME RedisAssumption == Sms!SmsAssumption /\ Lua!LuaAssumption /\ Local!LimiterAssumption

smsVars == <<code, codeTtl, times, timesTtl, intervalTtl, lockTtl, pc, input,
             failed, beyond, good, pending>>
luaVars == <<script, tokens, age, lag, answer, accepted, clearing, clears, granted>>
localVars == <<limiterMap, limiters, capacityOf, rateOf, tokensOf, ageOf, ownerOf, threadAt,
               limiterOf, lastOf, localClears, localGranted>>
allVars == <<part, vars, smsVars, luaVars, localVars>>

MCInit ==
  /\ part \in {"queue", "sms", "lua", "local"}
  /\ Init /\ Sms!Init /\ Lua!Init /\ Local!Init
  /\ part # "lua" => script = "ratelimit.lua"

InLocal(A) == part = "local" /\ A /\ UNCHANGED <<part, vars, smsVars, luaVars>>

QueuePart == part = "queue" /\ Next /\ UNCHANGED <<part, smsVars, luaVars, localVars>>
SmsPart == part = "sms" /\ Sms!Next /\ UNCHANGED <<part, vars, luaVars, localVars>>
LuaPart == part = "lua" /\ Lua!Next /\ UNCHANGED <<part, vars, smsVars, localVars>>
LocalPart == InLocal(Local!Next)

\* Producers stop when they have offered all they have and the list is empty.
QueueDrained == part = "queue" /\ queue = <<>> /\ UNCHANGED allVars

MCNext == QueuePart \/ SmsPart \/ LuaPart \/ LocalPart \/ QueueDrained

MCSpec == MCInit /\ [][MCNext]_allVars

\* Time passes, and a thread that has its answer gets to leave the limiter's method.
MCFairSpec ==
  /\ MCSpec
  /\ WF_allVars(part = "sms" /\ Sms!Tick /\ UNCHANGED <<part, vars, luaVars, localVars>>)
  /\ WF_allVars(InLocal(Local!Tick))
  /\ \A t \in Thread : WF_allVars(InLocal(Local!Unlock(t)))
-----------------------------------------------------------------------------
\* Each property is the conjunction of properties of one part, stated and named in
\* the module of the part; TypeOK is the type invariant of RedisQueue.
TypesOK == TypeOK /\ Sms!TypeOK /\ Lua!TypeOK

\* DefaultRedisQueue: no element is handed out twice or lost, producers that read
\* the length at the same time overshoot the capacity by no more than one batch
\* each, and take() gives the elements of a producer in their order.
QueueKept == TakenOnce /\ OvershootBounded /\ SinglesInOrder

\* SmsCodeComponent: however saves, verifications, crashes and expiry interleave,
\* fewer than maxFailTimes wrong codes are answered FAILED, beyond them a caller that
\* does not die gets one more compared before the lock ends, a code is accepted at
\* most once, and a session gets a second code within the interval only from calls
\* that overlap.
SmsGuarded ==
  /\ Sms!FailuresBounded /\ Sms!OneBeyondEach
  /\ Sms!AcceptedOnce /\ Sms!OneCodePerSession

\* An id that is locked after too many failures is unlocked again, and a local limiter
\* that refuses again and again also grants again and again, though perhaps to others.
WaitsEnd == Sms!LockEnds /\ Local!NotAllRefusedForEver

\* ratelimit.lua is a token bucket, whatever the clocks of its callers say, and
\* only a clear that it slips into makes it fail.
LuaLimited == Lua!BucketSpec /\ Lua!ErrorsComeFromClears

\* LocalRateLimiter: a service has as many limiters as threads, or fewer, and all of
\* them together are one token bucket of that many times the size and the rate.
LocalLimiters == Local!LimitersBounded
LocalBucket == Local!BucketSpec
=============================================================================
