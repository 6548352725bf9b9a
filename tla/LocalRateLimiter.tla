-------------------------- MODULE LocalRateLimiter --------------------------
(***************************************************************************)
(* The limiter inside one JVM: getRateLimiter, which looks a service's     *)
(* limiter up in a static map or makes one, the two with.. methods, and    *)
(* applyToken and clear under the limiter's ReentrantLock.                 *)
(*                                                                         *)
(* Threads use it as its main does: getRateLimiter, withCapacity, withRate *)
(* (every thread with the same values), then applyToken.  What applyToken  *)
(* does between reading the clock and unlock touches only what the lock    *)
(* guards, so it is one step at the moment the clock is read.  As in       *)
(* LuaRateLimiter the clock is not a variable: age is how long ago the     *)
(* timestamp was, in ticks.                                                *)
(***************************************************************************)
EXTENDS Integers, FiniteSetsExt

CONSTANTS
  Thread, NoThread,
  Limiter, NoLimiter,  \* the objects that can be made
  Capacity, Rate,      \* what the threads configure
  Second,              \* ticks to the second, 1000 in the code
  MaxAge,              \* bound: ages beyond it fill the bucket all the same
  MaxClears            \* bound: calls of clear

\* What the constants must satisfy; assumed where they get their values.
LimiterAssumption ==
  /\ IsFiniteSet(Thread) /\ NoThread \notin Thread /\ NoLimiter \notin Limiter
  /\ Capacity \in Nat \ {0} /\ Rate \in Nat \ {0} /\ Second \in Nat \ {0}
  /\ MaxAge \in Nat /\ MaxClears \in Nat
  /\ (MaxAge \div Second) * Rate >= Capacity

VARIABLES
  map,                   \* the limiter the static map holds, or NoLimiter
  made,                  \* limiters that were constructed
  capacity, rate,        \* fields of each limiter; 0 until they are set
  tokens, age, owner,    \* tokens, now - timestamp, and who holds lock
  pc, mine,              \* each thread, and the limiter it works with
  last,                  \* how its last call ended
  clears,                \* calls of clear so far
  granted                \* history: tokens handed out since the clock ticked

fields == <<capacity, rate, tokens, age>>
vars == <<map, made, fields, owner, pc, mine, last, clears, granted>>

PCs == {"idle", "creating", "putting", "withCapacity", "withRate", "ready",
        "tryLock", "tryLockToClear", "locked", "lockedToClear", "unlock"}
Ends == {"none", "granted", "refused", "cleared", "IllegalMonitorState"}

Init ==
  /\ map = NoLimiter
  /\ made = {}
  /\ capacity = [l \in Limiter |-> 0]
  /\ rate = [l \in Limiter |-> 0]
  /\ tokens = [l \in Limiter |-> 0]
  /\ age = [l \in Limiter |-> 0]
  /\ owner = [l \in Limiter |-> NoThread]
  /\ pc = [t \in Thread |-> "idle"]
  /\ mine = [t \in Thread |-> NoLimiter]
  /\ last = [t \in Thread |-> "none"]
  /\ clears = 0
  /\ granted = 0

Goto(t, from, to) ==
  /\ pc[t] = from
  /\ pc' = [pc EXCEPT ![t] = to]
-----------------------------------------------------------------------------
(* getRateLimiter and the configuration                                    *)

\* map.get; a limiter that is not there is made by every thread that misses it.
Get(t) ==
  /\ pc[t] \in {"idle", "ready"}
  /\ mine' = [mine EXCEPT ![t] = map]
  /\ pc' = [pc EXCEPT ![t] = IF map = NoLimiter THEN "creating" ELSE "withCapacity"]
  /\ UNCHANGED <<map, made, fields, owner, last, clears, granted>>

\* Which of the objects it is makes no difference.
Create(t) ==
  /\ Goto(t, "creating", "putting")
  /\ made # Limiter
  /\ LET l == CHOOSE l \in Limiter \ made : TRUE IN
       /\ made' = made \cup {l}
       /\ mine' = [mine EXCEPT ![t] = l]
       /\ age' = [age EXCEPT ![l] = 0]
  /\ UNCHANGED <<map, capacity, rate, tokens, owner, last, clears, granted>>

\* Mutant: map.put is forgotten.
NotStored(t) == UNCHANGED map

Stored(t) == map' = mine[t]

Put(t) ==
  /\ Goto(t, "putting", "withCapacity")
  /\ Stored(t)
  /\ UNCHANGED <<made, fields, owner, mine, last, clears, granted>>

WithCapacity(t) ==
  /\ Goto(t, "withCapacity", "withRate")
  /\ capacity' = [capacity EXCEPT ![mine[t]] = Capacity]
  /\ UNCHANGED <<map, made, rate, tokens, age, owner, mine, last, clears, granted>>

WithRate(t) ==
  /\ Goto(t, "withRate", "ready")
  /\ rate' = [rate EXCEPT ![mine[t]] = Rate]
  /\ UNCHANGED <<map, made, capacity, tokens, age, owner, mine, last, clears, granted>>
-----------------------------------------------------------------------------
(* applyToken and clear                                                    *)

ApplyToken(t) ==
  /\ Goto(t, "ready", "tryLock")
  /\ last' = [last EXCEPT ![t] = "none"]
  /\ UNCHANGED <<map, made, fields, owner, mine, clears, granted>>

Clear(t) ==
  /\ clears < MaxClears
  /\ Goto(t, "ready", "tryLockToClear")
  /\ clears' = clears + 1
  /\ last' = [last EXCEPT ![t] = "none"]
  /\ UNCHANGED <<map, made, fields, owner, mine, granted>>

TryLock(t) ==
  /\ \/ Goto(t, "tryLock", "locked")
     \/ Goto(t, "tryLockToClear", "lockedToClear")
  /\ owner[mine[t]] = NoThread
  /\ owner' = [owner EXCEPT ![mine[t]] = t]
  /\ UNCHANGED <<map, made, fields, mine, last, clears, granted>>

\* The lock is not obtained within 200 ms, or the thread is interrupted while it
\* waits.  finally unlocks what the thread does not hold and throws, whatever
\* the body was about to return.
GiveUp(t) ==
  /\ pc[t] \in {"tryLock", "tryLockToClear"}
  /\ owner[mine[t]] # NoThread
  /\ pc' = [pc EXCEPT ![t] = "ready"]
  /\ last' = [last EXCEPT ![t] = "IllegalMonitorState"]
  /\ UNCHANGED <<map, made, fields, owner, mine, clears, granted>>

\* Whole seconds only: what is left of a second is lost with the timestamp.
Refilled(l) == tokens[l] + (age[l] \div Second) * rate[l]

\* Mutants: the bucket overflows; a refusal writes the timestamp as well.
Uncapped(l) == Refilled(l)
StampAlways(l) == age' = [age EXCEPT ![l] = 0]

Capped(l) == IF Refilled(l) > capacity[l] THEN capacity[l] ELSE Refilled(l)

StampRefused(l) == UNCHANGED age

Compute(t) ==
  LET l == mine[t]
      n == Capped(l)
  IN  /\ Goto(t, "locked", "unlock")
      /\ \/ /\ n < 1
            /\ tokens' = [tokens EXCEPT ![l] = n]
            /\ StampRefused(l)
            /\ last' = [last EXCEPT ![t] = "refused"]
            /\ UNCHANGED granted
         \/ /\ n >= 1
            /\ tokens' = [tokens EXCEPT ![l] = n - 1]
            /\ age' = [age EXCEPT ![l] = 0]
            /\ last' = [last EXCEPT ![t] = "granted"]
            /\ granted' = granted + 1
      /\ UNCHANGED <<map, made, capacity, rate, owner, mine, clears>>

ComputeClear(t) ==
  /\ Goto(t, "lockedToClear", "unlock")
  /\ tokens' = [tokens EXCEPT ![mine[t]] = 0]
  /\ age' = [age EXCEPT ![mine[t]] = 0]
  /\ last' = [last EXCEPT ![t] = "cleared"]
  /\ UNCHANGED <<map, made, capacity, rate, owner, mine, clears, granted>>

Unlock(t) ==
  /\ Goto(t, "unlock", "ready")
  /\ owner' = [owner EXCEPT ![mine[t]] = NoThread]
  /\ UNCHANGED <<map, made, fields, mine, last, clears, granted>>

Tick ==
  /\ age' = [l \in Limiter |-> IF l \in made /\ age[l] < MaxAge THEN age[l] + 1 ELSE age[l]]
  /\ granted' = 0
  /\ UNCHANGED <<map, made, capacity, rate, tokens, owner, pc, mine, last, clears>>

Next ==
  \/ \E t \in Thread :
       \/ Get(t) \/ Create(t) \/ Put(t) \/ WithCapacity(t) \/ WithRate(t)
       \/ ApplyToken(t) \/ Clear(t)
       \/ TryLock(t) \/ GiveUp(t) \/ Compute(t) \/ ComputeClear(t) \/ Unlock(t)
  \/ Tick

Spec == Init /\ [][Next]_vars

\* Time passes, and a thread that has its answer gets to leave the method.
FairSpec == Spec /\ WF_vars(Tick) /\ \A t \in Thread : WF_vars(Unlock(t))
-----------------------------------------------------------------------------
TypeOK ==
  /\ map \in Limiter \cup {NoLimiter}
  /\ made \subseteq Limiter
  /\ capacity \in [Limiter -> {0, Capacity}]
  /\ rate \in [Limiter -> {0, Rate}]
  /\ tokens \in [Limiter -> 0..Capacity]
  /\ age \in [Limiter -> 0..MaxAge]
  /\ owner \in [Limiter -> Thread \cup {NoThread}]
  /\ pc \in [Thread -> PCs]
  /\ mine \in [Thread -> Limiter \cup {NoLimiter}]
  /\ last \in [Thread -> Ends]
  /\ clears \in 0..MaxClears
  /\ granted \in Nat

\* getRateLimiter can hand out several limiters for one service, but only to
\* threads that were all there before the first was stored, and no thread makes
\* two: the service's limit is multiplied by the number of threads at most.  The
\* type invariant is the first conjunct.
LimitersBounded == TypeOK /\ Cardinality(made) <= Cardinality(Thread)

\* All limiters of the service together are one token bucket of the size and
\* the rate of so many buckets; clear only takes tokens out of it.
Least(m, n) == IF m < n THEN m ELSE n
LevelOf(l) == Least(capacity[l] * Second, tokens[l] * Second + age[l] * Rate)
Sum(f(_)) == MapThenSumSet(f, made)
CapacityOf(l) == capacity[l]

Bucket == INSTANCE TokenBucket
            WITH Rate <- Rate * Cardinality(Thread), Second <- Second,
                 capacity <- Sum(CapacityOf), level <- Sum(LevelOf),
                 resets <- 0
BucketSpec == Bucket!Spec

\* Losing the rest of a second never adds up, since only a grant writes the timestamp:
\* threads that are refused again and again are not all refused for ever.  Which of
\* them is granted is not said; one may be refused each time while others are granted.
NotAllRefusedForEver ==
  \A t \in Thread :
    []<>(pc[t] = "unlock" /\ last[t] = "refused") =>
      []<>(\E u \in Thread : pc[u] = "unlock" /\ last[u] = "granted")
=============================================================================
