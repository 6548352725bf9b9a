------------------------------- MODULE JdkLock -------------------------------
(***************************************************************************)
(* org.jsirenia.lock.JdkLock: the in-process stand-in for the Redis lock,  *)
(* for one lock key.  The cache of locks is static and shared; the         *)
(* ReentrantLock that guards it belongs to each instance, and is only ever *)
(* tried.  The request id is not looked at.                                *)
(***************************************************************************)
EXTENDS Naturals, FiniteSets

CONSTANTS Thread, NoThread, Instance

VARIABLES
  of,          \* the instance each thread uses
  guard,       \* per instance, the thread that has its ReentrantLock
  entry,       \* who put the lock the cache holds, NoThread when there is none
  locked,      \* threads that have locked the lock they put last
  at,          \* where each thread is
  holds,       \* threads that were granted the key and have not released it
  refusedRelease, \* threads whose last release returned false
  disturbed    \* a lock expired, or was released by somebody else, while it was held

jdkVars == <<of, guard, entry, locked, at, holds, refusedRelease, disturbed>>

Points == {"idle", "contains", "put", "tryLock", "remove", "illegalMonitor"}

Init ==
  /\ of \in [Thread -> Instance]
  /\ guard = [i \in Instance |-> NoThread]
  /\ entry = NoThread /\ locked = {}
  /\ at = [t \in Thread |-> "idle"]
  /\ holds = {} /\ refusedRelease = {}
  /\ disturbed = FALSE

GoTo(t, p) == at' = [at EXCEPT ![t] = p]
Unguard(t) == guard' = [guard EXCEPT ![of[t]] = NoThread]

\* Mutant: the cache is not asked.
AskNobody == TRUE

GuardFree(t) == guard[of[t]] = NoThread

\* tryGetDistributedLock: false when the instance is busy with another call.
TryGet(t) ==
  /\ at[t] \in {"idle", "illegalMonitor"} /\ t \notin holds
  /\ IF GuardFree(t)
     THEN guard' = [guard EXCEPT ![of[t]] = t] /\ GoTo(t, "contains")
     ELSE GoTo(t, "idle") /\ UNCHANGED guard
  /\ UNCHANGED <<of, entry, locked, holds, refusedRelease, disturbed>>

NoEntry == entry = NoThread

ContainsKey(t) ==
  /\ at[t] = "contains"
  /\ IF NoEntry
     THEN GoTo(t, "put") /\ UNCHANGED guard
     ELSE GoTo(t, "idle") /\ Unguard(t)
  /\ UNCHANGED <<of, entry, locked, holds, refusedRelease, disturbed>>

Put(t) ==
  /\ at[t] = "put"
  /\ entry' = t /\ locked' = locked \ {t}
  /\ GoTo(t, "tryLock")
  /\ UNCHANGED <<of, guard, holds, refusedRelease, disturbed>>

\* The lock is new, so this succeeds, whatever the cache holds by now.
TryLock(t) ==
  /\ at[t] = "tryLock"
  /\ locked' = locked \cup {t} /\ holds' = holds \cup {t}
  /\ refusedRelease' = refusedRelease \ {t}
  /\ GoTo(t, "idle") /\ Unguard(t)
  /\ UNCHANGED <<of, entry, disturbed>>

\* releaseDistributedLock, which anybody may call: false when the instance is busy.
Release(t) ==
  /\ at[t] \in {"idle", "illegalMonitor"}
  /\ IF GuardFree(t)
     THEN /\ guard' = [guard EXCEPT ![of[t]] = t]
          /\ GoTo(t, "remove")
          /\ UNCHANGED <<holds, refusedRelease>>
     ELSE /\ GoTo(t, "idle")
          /\ holds' = holds \ {t}
          /\ refusedRelease' = IF t \in holds THEN refusedRelease \cup {t} ELSE refusedRelease
          /\ UNCHANGED guard
  /\ UNCHANGED <<of, entry, locked, disturbed>>

RemoveEntry == entry' = NoThread

FreeGuard(t) == Unguard(t)

\* Only the thread that locked a lock can unlock it.
Remove(t) ==
  /\ at[t] = "remove"
  /\ RemoveEntry
  /\ GoTo(t, IF entry = NoThread \/ (entry = t /\ t \in locked) THEN "idle"
             ELSE "illegalMonitor")
  /\ locked' = locked \ {t}
  /\ holds' = holds \ {t}
  /\ disturbed' = (disturbed \/ entry \in holds \ {t})
  /\ FreeGuard(t)
  /\ UNCHANGED <<of, refusedRelease>>

\* The entry is five minutes old.
Expire ==
  /\ entry # NoThread
  /\ entry' = NoThread
  /\ disturbed' = TRUE
  /\ UNCHANGED <<of, guard, locked, at, holds, refusedRelease>>

\* The rest of a call that has begun.
Finish(t) == ContainsKey(t) \/ Put(t) \/ TryLock(t) \/ Remove(t)

Next ==
  \/ \E t \in Thread : TryGet(t) \/ Release(t) \/ Finish(t)
  \/ Expire

Spec == Init /\ [][Next]_jdkVars

\* Threads finish the calls they have begun.
FairSpec == Spec /\ \A t \in Thread : WF_jdkVars(Finish(t))
-----------------------------------------------------------------------------
\* Type invariant; the guard has the thread that is inside a method.
TypeOK ==
  /\ of \in [Thread -> Instance] /\ entry \in Thread \cup {NoThread}
  /\ guard \in [Instance -> Thread \cup {NoThread}]
  /\ at \in [Thread -> Points]
  /\ {locked, holds, refusedRelease} \subseteq SUBSET Thread
  /\ disturbed \in BOOLEAN
  /\ \A t \in Thread : at[t] \in {"contains", "put", "tryLock", "remove"} <=> guard[of[t]] = t

OneInstance == \A t, u \in Thread : of[t] = of[u]

\* Through one instance the key is granted to one thread at a time, until a lock
\* expires or is released by somebody who does not hold it.  Two instances do not
\* exclude each other between the question and the put.
ExclusiveWithinInstance ==
  OneInstance /\ ~ disturbed => Cardinality(holds) <= 1

\* A lock that stays in the cache without a holder is one whose release was
\* refused because its instance was busy: nothing else blocks the key for the
\* five minutes.
LeftOverOnlyWhenRefused ==
  entry # NoThread /\ (\A t \in Thread : at[t] \in {"idle", "illegalMonitor"})
    => entry \in holds \cup refusedRelease

\* A call comes back: nobody waits for a guard that is never given back.
GuardGivenBack ==
  \A i \in Instance : guard[i] # NoThread ~> guard[i] = NoThread
=============================================================================
