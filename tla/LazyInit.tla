------------------------------ MODULE LazyInit ------------------------------
(***************************************************************************)
(* The four double-checked initialisations of the library, which differ in *)
(* when they publish and in whether what they publish is safe to read      *)
(* without the monitor:                                                    *)
(*                                                                         *)
(*                publishes                 field read without monitor     *)
(*   Defer        before the callback runs  ConcurrentHashMap              *)
(*   LazyInitMap  after                     plain (initialized, map)       *)
(*   LazyRef      after                     volatile                       *)
(*   DubboProxy   before init() runs        plain (instance)               *)
(***************************************************************************)
EXTENDS Naturals

CONSTANTS
  Thread, NoThread,
  MaxCalls       \* bound: calls of each thread

VARIABLES
  kind,          \* which of the four
  flag,          \* the key is stored, initialized, the value or the instance is set
  ready,         \* the initialisation has succeeded
  monitor,       \* the thread in the synchronized block
  at,            \* where each thread is
  synced,        \* threads that have been in the block since it was published
  begun,         \* how many initialisations began, up to 2
  uses           \* calls of each thread so far

lazyVars == <<kind, flag, ready, monitor, at, synced, begun, uses>>

Kinds == {"Defer", "LazyInitMap", "LazyRef", "DubboProxy"}
Points == {"idle", "test", "enter", "retest", "init", "leave", "use",
           "returned", "threw", "sawNull"}

PublishFirst == kind \in {"Defer", "DubboProxy"}
Plain == kind \in {"LazyInitMap", "DubboProxy"}

Init ==
  /\ kind \in Kinds
  /\ flag = FALSE /\ ready = FALSE
  /\ monitor = NoThread
  /\ at = [t \in Thread |-> "idle"]
  /\ synced = {} /\ begun = 0
  /\ uses = [t \in Thread |-> 0]

GoTo(t, p) == at' = [at EXCEPT ![t] = p]

Call(t) ==
  /\ at[t] \in {"idle", "returned", "threw", "sawNull"}
  /\ uses[t] < MaxCalls
  /\ uses' = [uses EXCEPT ![t] = @ + 1]
  /\ GoTo(t, "test")
  /\ UNCHANGED <<kind, flag, ready, monitor, synced, begun>>

\* A plain field may show a thread that has not synchronized an old value.
Test(t) ==
  /\ at[t] = "test"
  /\ \/ flag /\ GoTo(t, "use")
     \/ ~ flag /\ GoTo(t, "enter")
     \/ flag /\ Plain /\ t \notin synced /\ GoTo(t, "enter")
  /\ UNCHANGED <<kind, flag, ready, monitor, synced, begun, uses>>

\* Mutant: there is no second test.
NotFlagged == TRUE

Free == monitor = NoThread

Enter(t) ==
  /\ at[t] = "enter" /\ Free
  /\ monitor' = t
  /\ synced' = IF flag THEN synced \cup {t} ELSE synced
  /\ GoTo(t, "retest")
  /\ UNCHANGED <<kind, flag, ready, begun, uses>>

StillMissing == ~ flag

PublishesNow == PublishFirst

Retest(t) ==
  /\ at[t] = "retest"
  /\ IF StillMissing
     THEN /\ GoTo(t, "init")
          /\ flag' = PublishesNow
          /\ begun' = IF begun = 2 THEN 2 ELSE begun + 1
          /\ synced' = synced \cup {t}
     ELSE GoTo(t, "leave") /\ UNCHANGED <<flag, begun, synced>>
  /\ UNCHANGED <<kind, ready, monitor, uses>>

Initialised(t) ==
  /\ at[t] = "init"
  /\ flag' = TRUE /\ ready' = TRUE
  /\ GoTo(t, "leave")
  /\ UNCHANGED <<kind, monitor, synced, begun, uses>>

Unlock(t) == monitor' = NoThread

\* The callback throws, or returns null where that is refused: the block is left,
\* and what was published before stays published.
InitFails(t) ==
  /\ at[t] = "init"
  /\ GoTo(t, "threw")
  /\ Unlock(t)
  /\ UNCHANGED <<kind, flag, ready, synced, begun, uses>>

Leave(t) ==
  /\ at[t] = "leave"
  /\ GoTo(t, "use")
  /\ Unlock(t)
  /\ UNCHANGED <<kind, flag, ready, synced, begun, uses>>

\* return, or map.get(k).  The second read of a plain field is not ordered after
\* the first one: a thread that was never in the block may still find null.
Use(t) ==
  /\ at[t] = "use"
  /\ \/ GoTo(t, "returned")
     \/ Plain /\ t \notin synced /\ GoTo(t, "sawNull")
  /\ UNCHANGED <<kind, flag, ready, monitor, synced, begun, uses>>

Step(t) == Test(t) \/ Enter(t) \/ Retest(t) \/ Initialised(t) \/ InitFails(t)
             \/ Leave(t) \/ Use(t)

Next == \E t \in Thread : Call(t) \/ Step(t)

Spec == Init /\ [][Next]_lazyVars

\* Threads run, and initialisers end.
FairSpec == Spec /\ \A t \in Thread : WF_lazyVars(Step(t))
-----------------------------------------------------------------------------
\* Type invariant, and the monitor has the thread that is in the block.
TypeOK ==
  /\ kind \in Kinds /\ flag \in BOOLEAN /\ ready \in BOOLEAN
  /\ at \in [Thread -> Points] /\ synced \subseteq Thread
  /\ begun \in 0..2 /\ uses \in [Thread -> 0..MaxCalls]
  /\ \A t \in Thread : monitor = t <=> at[t] \in {"retest", "init", "leave"}

\* "Executed once": nothing is initialised again after a success, and Defer and
\* DubboProxy do not even try again after a failure.
AtMostOnce ==
  /\ ready => \A t \in Thread : at[t] # "init"
  /\ PublishFirst => begun <= 1

\* The four implement Once: only Defer and DubboProxy let a call return while the
\* initialisation still runs, or for ever after it failed.
Promise == INSTANCE Once WITH
  early    <- PublishFirst,
  by       <- IF \E t \in Thread : at[t] = "init"
              THEN CHOOSE t \in Thread : at[t] = "init" ELSE NoThread,
  phase    <- IF \E t \in Thread : at[t] = "init" THEN "running"
              ELSE IF ready THEN "done" ELSE IF flag THEN "given up" ELSE "none",
  returned <- {t \in Thread : at[t] = "returned"}
OnceSpec == Promise!Spec

\* A call ends, whoever fails or waits.
CallsEnd ==
  \A t \in Thread : at[t] = "test" ~> at[t] \in {"returned", "threw", "sawNull"}
=============================================================================
