------------------------------- MODULE SmsCode -------------------------------
(***************************************************************************)
(* org.jsirenia.sms.SmsCodeComponent for one id: saveCode and verifyCode,  *)
(* called by any number of sessions at once, over four Redis keys:         *)
(*   id            the code               id#times     1 + failures        *)
(*   id#interval   a code was sent lately id#lock      too many failures   *)
(* Every Redis command, and the script of verifyCode, is one step.         *)
(* Remaining times to live are counted down and reach 0 when Redis drops   *)
(* the key.                                                                *)
(***************************************************************************)
EXTENDS Naturals, FiniteSets

CONSTANTS
  Session,              \* callers of the component
  Code, NoCode,         \* codes that are sent; a session may also submit a wrong one
  codeExpireSeconds,
  codeIntervalSeconds,
  lockSeconds,
  maxFailTimes

\* What the constants must satisfy; assumed where they get their values.
SmsAssumption ==
  /\ IsFiniteSet(Session) /\ NoCode \notin Code
  /\ codeExpireSeconds \in Nat \ {0}
  /\ codeIntervalSeconds \in Nat \ {0}
  /\ lockSeconds \in Nat \ {0}
  /\ maxFailTimes \in Nat \ {0}

VARIABLES
  code, codeTtl,   \* key id
  times, timesTtl, \* key id#times; no key when timesTtl = 0
  intervalTtl,     \* key id#interval
  lockTtl,         \* key id#lock
  pc,              \* [Session -> where its call is]
  input,           \* [Session -> the code it was called with]
  failed,          \* history: FAILED answers since times was last set
  beyond,          \* history: sessions whose wrong code was one too many and that did
                   \* not die since, until the lock ends
  good,            \* history: OK answers of verifyCode since the code was last set
  pending          \* history: saves answered OK whose interval is still running

keys == <<code, codeTtl, times, timesTtl, intervalTtl, lockTtl>>
vars == <<keys, pc, input, failed, beyond, good, pending>>

PCs == {"idle", "checkInterval", "setTimes", "setCode", "setInterval",
        "runScript", "setLock"}

\* Bound of the counter: one more than the test of the failures tells apart.
TimesBound == maxFailTimes + 1

Down(n) == IF n = 0 THEN 0 ELSE n - 1

Init ==
  /\ code = NoCode /\ codeTtl = 0
  /\ times = 0 /\ timesTtl = 0
  /\ intervalTtl = 0
  /\ lockTtl = 0
  /\ pc = [s \in Session |-> "idle"]
  /\ input = [s \in Session |-> NoCode]
  /\ failed = 0 /\ beyond = {}
  /\ good = 0
  /\ pending = 0

Goto(s, from, to) ==
  /\ pc[s] = from
  /\ pc' = [pc EXCEPT ![s] = to]

\* A call ends: its input is forgotten.
End(s, from) ==
  /\ Goto(s, from, "idle")
  /\ input' = [input EXCEPT ![s] = NoCode]
-----------------------------------------------------------------------------
(* saveCode                                                                *)

Unlocked == lockTtl = 0

\* A locked id answers LOCKED at once.
SaveCode(s, c) ==
  /\ Unlocked
  /\ Goto(s, "idle", "checkInterval")
  /\ input' = [input EXCEPT ![s] = c]
  /\ UNCHANGED <<keys, failed, beyond, good, pending>>

\* Mutant: the interval is not looked at.
TooFrequentNever == FALSE

TooFrequent == intervalTtl > 0

CheckInterval(s) ==
  /\ IF TooFrequent THEN End(s, "checkInterval")
     ELSE Goto(s, "checkInterval", "setTimes") /\ UNCHANGED input
  /\ UNCHANGED <<keys, failed, beyond, good, pending>>

SetTimes(s) ==
  /\ Goto(s, "setTimes", "setCode")
  /\ times' = 1 /\ timesTtl' = codeExpireSeconds
  /\ failed' = 0
  /\ UNCHANGED <<code, codeTtl, intervalTtl, lockTtl, input, beyond, good, pending>>

SetCode(s) ==
  /\ Goto(s, "setCode", "setInterval")
  /\ code' = input[s] /\ codeTtl' = codeExpireSeconds
  /\ good' = 0
  /\ UNCHANGED <<times, timesTtl, intervalTtl, lockTtl, input, failed, beyond, pending>>

\* saveCode answers OK.
SetInterval(s) ==
  /\ End(s, "setInterval")
  /\ intervalTtl' = codeIntervalSeconds
  /\ pending' = pending + 1
  /\ UNCHANGED <<code, codeTtl, times, timesTtl, lockTtl, failed, beyond, good>>
-----------------------------------------------------------------------------
(* verifyCode                                                              *)

VerifyCode(s, c) ==
  /\ Unlocked
  /\ Goto(s, "idle", "runScript")
  /\ input' = [input EXCEPT ![s] = c]
  /\ UNCHANGED <<keys, failed, beyond, good, pending>>

TooMany(n) == n > maxFailTimes

DeleteCode ==
  /\ code' = NoCode /\ codeTtl' = 0
  /\ times' = 0 /\ timesTtl' = 0

\* The script: no times key is -1 (EXPIRED); INCR; a match deletes both keys.
\* DEL answers 0 only for a key that is not there, which the match excludes.
ScriptExpired(s) ==
  /\ timesTtl = 0
  /\ End(s, "runScript")
  /\ UNCHANGED <<keys, failed, beyond, good, pending>>

ScriptMatches(s) ==
  /\ timesTtl > 0
  /\ input[s] = code /\ code # NoCode
  /\ DeleteCode
  /\ good' = good + 1
  /\ End(s, "runScript")
  /\ UNCHANGED <<intervalTtl, lockTtl, failed, beyond, pending>>

\* The count is not compared with the code's existence: a code that is gone, or
\* not there yet, is a mismatch as well.
ScriptFails(s) ==
  /\ timesTtl > 0
  /\ input[s] # code \/ code = NoCode
  /\ times' = IF times < TimesBound THEN times + 1 ELSE times
  /\ IF TooMany(times + 1)
     THEN /\ Goto(s, "runScript", "setLock")
          /\ beyond' = beyond \cup {s}
          /\ UNCHANGED <<input, failed>>
     ELSE /\ End(s, "runScript")
          /\ failed' = failed + 1
          /\ UNCHANGED beyond
  /\ UNCHANGED <<code, codeTtl, timesTtl, intervalTtl, lockTtl, good, pending>>

LockFor == lockSeconds

SetLock(s) ==
  /\ End(s, "setLock")
  /\ lockTtl' = LockFor
  /\ UNCHANGED <<code, codeTtl, times, timesTtl, intervalTtl, failed, beyond, good, pending>>

\* The process dies between two commands; what it has set stays.
Crash(s) ==
  /\ pc[s] # "idle"
  /\ End(s, pc[s])
  /\ beyond' = beyond \ {s}
  /\ UNCHANGED <<keys, failed, good, pending>>

Tick ==
  /\ codeTtl' = Down(codeTtl)
  /\ code' = IF codeTtl <= 1 THEN NoCode ELSE code
  /\ timesTtl' = Down(timesTtl)
  /\ times' = IF timesTtl <= 1 THEN 0 ELSE times
  /\ intervalTtl' = Down(intervalTtl)
  /\ pending' = IF intervalTtl <= 1 THEN 0 ELSE pending
  /\ lockTtl' = Down(lockTtl)
  /\ beyond' = IF lockTtl = 1 THEN {} ELSE beyond
  /\ UNCHANGED <<pc, input, failed, good>>

Save(s) ==
  \/ \E c \in Code : SaveCode(s, c)
  \/ CheckInterval(s) \/ SetTimes(s) \/ SetCode(s) \/ SetInterval(s)

Verify(s) ==
  \/ \E c \in Code : VerifyCode(s, c)
  \/ ScriptExpired(s) \/ ScriptMatches(s) \/ ScriptFails(s) \/ SetLock(s)

Next ==
  \/ \E s \in Session : Save(s) \/ Verify(s) \/ Crash(s)
  \/ Tick

Spec == Init /\ [][Next]_vars

\* Time passes; nobody has to call the component or to finish a call.
FairSpec == Spec /\ WF_vars(Tick)
-----------------------------------------------------------------------------
TypeOK ==
  /\ code \in Code \cup {NoCode} /\ codeTtl \in 0..codeExpireSeconds
  /\ times \in 0..TimesBound /\ timesTtl \in 0..codeExpireSeconds
  /\ intervalTtl \in 0..codeIntervalSeconds
  /\ lockTtl \in 0..lockSeconds
  /\ pc \in [Session -> PCs]
  /\ input \in [Session -> Code \cup {NoCode}]
  /\ failed \in Nat /\ beyond \in SUBSET Session /\ good \in Nat /\ pending \in Nat

\* However many sessions verify at once, fewer than maxFailTimes of them are
\* told FAILED between two resets of the counter: the next failure locks.  Wrong
\* codes that are compared beyond the limit and answered LOCKED are not counted.
FailuresBounded == failed < maxFailTimes

\* Those are bounded by the callers that verify at the same time: a caller whose
\* wrong code was one too many compares no other and saves none before the lock
\* has ended, unless it dies before it has set the lock.
OneBeyondEach == \A s \in beyond : pc[s] \in {"setLock", "idle"} /\ (pc[s] = "idle" => lockTtl > 0)

\* A code that was stored is accepted once, whoever submits it how often and
\* whatever saves are under way.
AcceptedOnce == good <= 1

\* An id is not locked for ever: whom the lock keeps out cannot prolong it.
LockEnds == []<>(lockTtl = 0)

\* The interval between two messages ("短信发送间隔") is read and then written:
\* of the saves within one interval no more than one for each session is
\* answered OK, so only calls that overlap can get past it.
OneCodePerSession == pending <= Cardinality(Session)
=============================================================================
