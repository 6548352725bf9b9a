----------------------------- MODULE JobLogUtil -----------------------------
(***************************************************************************)
(* org.jsirenia.log.JobLogUtil: the log context of one thread of a pool.   *)
(* withJob, withTask and withData change the key "uid" of the MDC around a *)
(* callback, which may call them again.  There is one more key to save the *)
(* uid in, whatever the depth.                                             *)
(*                                                                         *)
(* A uid is the sequence of what it is put together from: the job's own    *)
(* part, then one part per task or data.  The empty sequence is no uid.    *)
(***************************************************************************)
EXTENDS Naturals, SequencesExt

CONSTANTS
  MaxId,       \* Integer.MAX_VALUE, where a counter starts again from 0
  MaxDepth,    \* bound: calls within each other
  MaxCalls     \* bound: calls altogether

VARIABLES
  given,       \* the scheduling platform has put a uid into the MDC
  uid, ouid,   \* the keys UID_KEY and OUID_KEY of the MDC
  nextId,      \* taskid and dataid
  frames,      \* the calls that run, innermost last
  jobs, calls  \* uids made by withJob, and calls, so far

contextVars == <<given, uid, ouid, nextId, frames, jobs, calls>>

Empty == <<>>
GivenUid == <<<<"Given", 0>>>>
Kinds == {"Job", "Task", "Data"}

\* A frame: its kind; before, the uid when the call began; made, whether withJob
\* put a uid; plain, no call of withTask or withData has run inside it.
Init ==
  /\ given \in BOOLEAN
  /\ uid = IF given THEN GivenUid ELSE Empty
  /\ ouid = Empty
  /\ nextId = [k \in {"Task", "Data"} |-> 0]
  /\ frames = <<>>
  /\ jobs = 0 /\ calls = 0

MayCall == Len(frames) < MaxDepth /\ calls < MaxCalls

\* A call of withTask or withData leaves every enclosing call no longer plain.
Entered(kind, made) ==
  [i \in DOMAIN frames |-> [frames[i] EXCEPT !.plain = @ /\ kind = "Job"]]
    \o <<[kind |-> kind, before |-> uid, made |-> made, plain |-> TRUE]>>

\* Mutant: the uid stays saved after it was restored.
KeepSaved == ouid

NeedsUid == uid = Empty

\* withJob makes a uid only when the platform has not given one.
WithJob ==
  /\ MayCall
  /\ calls' = calls + 1
  /\ frames' = Entered("Job", NeedsUid)
  /\ IF NeedsUid THEN uid' = <<<<"Job", jobs>>>> /\ jobs' = jobs + 1
                 ELSE UNCHANGED <<uid, jobs>>
  /\ UNCHANGED <<given, ouid, nextId>>

Saved == IF uid # Empty THEN uid ELSE ouid

CountedUp(id) == IF id >= MaxId THEN 0 ELSE id + 1

\* withTask and withData: save the uid, take the next number where the caller
\* gave no name, and add the part to the uid if there is one.
WithPart(kind) ==
  /\ MayCall
  /\ calls' = calls + 1
  /\ frames' = Entered(kind, FALSE)
  /\ ouid' = Saved
  /\ uid' = IF uid = Empty THEN uid ELSE Append(uid, <<kind, nextId[kind]>>)
  /\ nextId' = [nextId EXCEPT ![kind] = CountedUp(@)]
  /\ UNCHANGED <<given, jobs>>

\* Another thread takes a number.
OtherThreadCounts(kind) ==
  /\ calls < MaxCalls
  /\ calls' = calls + 1
  /\ nextId' = [nextId EXCEPT ![kind] = CountedUp(@)]
  /\ UNCHANGED <<given, uid, ouid, frames, jobs>>

SavedAfter == Empty

\* The callback of the innermost call ends; whether it returns or throws, the
\* finally block is what follows.
JobEnds ==
  /\ frames # <<>> /\ Last(frames).kind = "Job"
  /\ uid' = IF Last(frames).made THEN Empty ELSE uid
  /\ frames' = Front(frames)
  /\ UNCHANGED <<given, ouid, nextId, jobs, calls>>

\* recoverUid
PartEnds ==
  /\ frames # <<>> /\ Last(frames).kind # "Job"
  /\ IF ouid # Empty THEN uid' = ouid /\ ouid' = SavedAfter
                     ELSE UNCHANGED <<uid, ouid>>
  /\ frames' = Front(frames)
  /\ UNCHANGED <<given, nextId, jobs, calls>>

Next ==
  \/ WithJob \/ JobEnds \/ PartEnds
  \/ \E kind \in {"Task", "Data"} : WithPart(kind) \/ OtherThreadCounts(kind)

Spec == Init /\ [][Next]_contextVars
-----------------------------------------------------------------------------
Part == (Kinds \cup {"Given"}) \X Nat

\* Type invariant; the counters stay below the largest int.
TypeOK ==
  /\ given \in BOOLEAN /\ uid \in Seq(Part) /\ ouid \in Seq(Part)
  /\ nextId \in [{"Task", "Data"} -> 0..MaxId]
  /\ \A i \in DOMAIN frames : frames[i].kind \in Kinds
  /\ Len(frames) <= MaxDepth /\ jobs \in 0..MaxCalls /\ calls \in 0..MaxCalls

\* A thread that goes back to its pool takes no uid of a job it began itself into
\* the next one, and no saved uid either, however the calls were nested.
PoolThreadIsClean ==
  ~ given /\ frames = <<>> => uid = Empty /\ ouid = Empty

\* Within a job that made its uid, every line carries that job's uid and not the
\* uid of another one: the parts are only added behind it.
LinesCarryTheirJob ==
  \A i \in DOMAIN frames :
    /\ IsPrefix(frames[i].before, uid)
    /\ frames[i].made => uid # Empty /\ Head(uid) = <<"Job", jobs - 1>>

\* recoverUid gives a call its uid back whenever no other call of withTask or
\* withData has run inside it.
PlainCallRestored == PartEnds /\ Last(frames).plain => uid' = Last(frames).before
=============================================================================
