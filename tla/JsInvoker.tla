------------------------------ MODULE JsInvoker ------------------------------
(***************************************************************************)
(* org.jsirenia.js.JsInvoker: scripts are evaluated once and the resulting *)
(* objects cached; a thread that watches the directory (FileWatcher) marks *)
(* the cached files that were modified, and the next evalFile reads a      *)
(* marked file again.  Everything but the watcher runs under one           *)
(* ReentrantLock, which evalFile takes a second time when it is called     *)
(* from an invoke.. method or from a script that one of them runs.         *)
(*                                                                         *)
(* A text is known by the number of its modification, 1 for the first.     *)
(***************************************************************************)
EXTENDS Naturals, SequencesExt

CONSTANTS
  Thread, NoThread,
  File,          \* the scripts in the watched directory
  NoKey,         \* null
  TextKey,       \* keys that evalText is called with; their text stays the same
  CacheSize,     \* 1000 in the code
  MaxVersion     \* bound: the number of the last modification of a file

Key == File \cup TextKey

ASSUME JsAssumption ==
  /\ NoThread \notin Thread /\ NoKey \notin Key /\ File \cap TextKey = {}
  /\ IsFiniteSet(File)
  /\ CacheSize \in Nat \ {0} /\ MaxVersion \in Nat \ {0}

VARIABLES
  version,        \* [Key -> number of the text on disk]
  event, batch,   \* files whose modification waits in the WatchService, and in
                  \* the list that pollEvents returned
  marking,        \* the file markChanged has found cached and will mark
  jsObjectCache,  \* its keys, eldest first
  object,         \* [Key -> number of the text whose object is cached, or 0]
  fileChangeCache,
  owner, holds,   \* the lock
  pc,             \* [Thread -> where it is]
  invoking,       \* threads inside an invoke.. method
  key, text,      \* [Thread -> the key its evalFile is for, and what it has read]
  noticed,        \* history: [File -> version marked when nobody was in its evalFile]
  missed,         \* history: threads that did not see a mark as the watcher put one
  overtaken       \* history: evaluations overlap, a wait for the lock timed out

watcher == <<version, event, batch, marking>>
caches == <<jsObjectCache, object, fileChangeCache>>
lock == <<owner, holds>>
history == <<noticed, missed, overtaken>>
vars == <<watcher, caches, lock, pc, invoking, key, text, history>>

Waiting == {"tryLock", "tryLockToInvoke"}
Evaluating == {"check", "readChanged", "remove", "read", "eval", "unlock"}
PCs == {"idle", "script"} \cup Waiting \cup Evaluating

Inside(t) == pc[t] \in Evaluating

Init ==
  /\ version = [k \in Key |-> 1]
  /\ event = {} /\ batch = {} /\ marking = NoKey
  /\ jsObjectCache = <<>> /\ fileChangeCache = <<>>
  /\ object = [k \in Key |-> 0]
  /\ owner = NoThread /\ holds = 0
  /\ pc = [t \in Thread |-> "idle"]
  /\ invoking = {}
  /\ key = [t \in Thread |-> NoKey]
  /\ text = [t \in Thread |-> 0]
  /\ noticed = [f \in File |-> 0]
  /\ missed = {}
  /\ overtaken = FALSE

Goto(t, from, to) ==
  /\ pc[t] = from
  /\ pc' = [pc EXCEPT ![t] = to]
-----------------------------------------------------------------------------
(* LRUCache, which orders its keys by their insertion                      *)

RemoveEldest(keys) == IF Len(keys) > CacheSize THEN Tail(keys) ELSE keys

PutKey(keys, k) ==
  IF k \in Range(keys) THEN keys ELSE RemoveEldest(Append(keys, k))

RemoveKey(keys, k) ==
  IF k \in Range(keys) THEN RemoveAt(keys, CHOOSE i \in DOMAIN keys : keys[i] = k) ELSE keys

PutObject(k, v) ==
  LET keys == PutKey(jsObjectCache, k)
  IN  /\ jsObjectCache' = keys
      /\ object' = [j \in Key |-> IF j = k THEN v
                                  ELSE IF j \in Range(keys) THEN object[j] ELSE 0]
-----------------------------------------------------------------------------
(* The watcher                                                             *)

Modify(f) ==
  /\ version[f] < MaxVersion
  /\ version' = [version EXCEPT ![f] = @ + 1]
  /\ event' = event \cup {f}
  /\ UNCHANGED <<batch, marking, caches, lock, pc, invoking, key, text, history>>

PollEvents ==
  /\ batch = {} /\ marking = NoKey /\ event # {}
  /\ batch' = event
  /\ event' = {}
  /\ UNCHANGED <<version, marking, caches, lock, pc, invoking, key, text, history>>

\* containsKey without the lock: it may miss a key while a put goes on.
FindCached(f) ==
  /\ marking = NoKey /\ f \in batch
  /\ batch' = batch \ {f}
  /\ \/ object[f] # 0 /\ marking' = f
     \/ object[f] = 0 /\ UNCHANGED marking
     \/ (\E t \in Thread : pc[t] = "eval") /\ UNCHANGED marking
  /\ UNCHANGED <<version, event, caches, lock, pc, invoking, key, text, history>>

\* No evalFile of f has begun and not ended, and no time-out let evaluations overlap.
Settled(f) == ~ overtaken /\ \A t \in Thread : Inside(t) => key[t] # f

\* put without the lock: it may be lost while a remove goes on.
Mark ==
  /\ marking # NoKey
  /\ \/ /\ fileChangeCache' = PutKey(fileChangeCache, marking)
        /\ noticed' = IF Settled(marking)
                      THEN [noticed EXCEPT ![marking] = version[marking]] ELSE noticed
     \/ (\E t \in Thread : pc[t] = "remove") /\ UNCHANGED <<fileChangeCache, noticed>>
  /\ marking' = NoKey
  /\ UNCHANGED <<version, event, batch, jsObjectCache, object, lock, pc, invoking,
                 key, text, missed, overtaken>>
-----------------------------------------------------------------------------
(* The lock                                                                *)

\* Mutants: the lock is not asked for; unlock is forgotten.
FreeAlways(t) == TRUE
Keep(t) == UNCHANGED lock

Free(t) == owner \in {NoThread, t}

\* unlock by a thread that does not hold the lock throws and changes nothing.
Release(t) ==
  /\ holds' = IF owner = t THEN holds - 1 ELSE holds
  /\ owner' = IF owner = t /\ holds = 1 THEN NoThread ELSE owner

Enter(t) ==
  \/ Goto(t, "tryLock", "check") /\ UNCHANGED invoking
  \/ Goto(t, "tryLockToInvoke", "script") /\ invoking' = invoking \cup {t}

TryLock(t) ==
  /\ Free(t)
  /\ Enter(t)
  /\ owner' = t
  /\ holds' = IF owner = t THEN holds + 1 ELSE 1
  /\ UNCHANGED <<watcher, caches, key, text, history>>

\* After lockTime the thread goes on without the lock.
TimeOut(t) ==
  /\ ~ Free(t)
  /\ Enter(t)
  /\ overtaken' = (overtaken \/ pc[t] = "tryLock")
  /\ noticed' = IF pc[t] = "tryLock" THEN [f \in File |-> 0] ELSE noticed
  /\ UNCHANGED <<watcher, caches, lock, key, text, missed>>

Back(t) == pc' = [pc EXCEPT ![t] = IF t \in invoking THEN "script" ELSE "idle"]

\* tryLock throws InterruptedException, also for a thread that holds the lock,
\* and finally unlocks all the same: a script that called evalFile loses the
\* lock of the invoke.. method it runs in.
Interrupt(t) ==
  /\ pc[t] \in Waiting
  /\ Back(t)
  /\ Release(t)
  /\ UNCHANGED <<watcher, caches, invoking, key, text, history>>
-----------------------------------------------------------------------------
(* evalFile, evalText and the invoke.. methods                             *)

EvalFile(t, k) ==
  /\ pc[t] \in {"idle", "script"}
  /\ pc' = [pc EXCEPT ![t] = "tryLock"]
  /\ key' = [key EXCEPT ![t] = k]
  /\ text' = [text EXCEPT ![t] = 0]
  /\ UNCHANGED <<watcher, caches, lock, invoking, history>>

\* Mutant: the marks are not looked at.
ChangedNever(k) == FALSE

Changed(k) == k \in Range(fileChangeCache)

\* evalText without a key evaluates and caches nothing; with one it is given its
\* text, which evalFile has to read.  containsKey may miss a mark while the
\* watcher puts another one.
Check(t) ==
  LET k == key[t]
  IN  /\ \/ /\ k = NoKey
            /\ Goto(t, "check", "unlock")
            /\ UNCHANGED <<text, missed>>
         \/ /\ Changed(k)
            /\ Goto(t, "check", IF k \in File THEN "readChanged" ELSE "remove")
            /\ UNCHANGED <<text, missed>>
         \/ /\ k # NoKey /\ (~ Changed(k) \/ marking # NoKey)
            /\ missed' = IF Changed(k) THEN missed \cup {t} ELSE missed
            /\ Goto(t, "check", IF object[k] # 0 THEN "unlock"
                                ELSE IF k \in File THEN "read" ELSE "eval")
            /\ text' = [text EXCEPT ![t] = IF object[k] # 0 \/ k \in File
                                           THEN object[k] ELSE version[k]]
      /\ UNCHANGED <<watcher, caches, lock, invoking, key, noticed, overtaken>>

ReadFileText(t) ==
  /\ Goto(t, "readChanged", "remove") \/ Goto(t, "read", "eval")
  /\ text' = [text EXCEPT ![t] = version[key[t]]]
  /\ UNCHANGED <<watcher, caches, lock, invoking, key, history>>

Unmark(t) ==
  /\ Goto(t, "remove", "eval")
  /\ fileChangeCache' = RemoveKey(fileChangeCache, key[t])
  /\ UNCHANGED <<watcher, jsObjectCache, object, lock, invoking, key, text, history>>

Eval(t) ==
  /\ Goto(t, "eval", "unlock")
  /\ PutObject(key[t], text[t])
  /\ UNCHANGED <<watcher, fileChangeCache, lock, invoking, key, text, history>>

\* The last to leave evalFile ends an overlap.
Leave(t) ==
  /\ Back(t)
  /\ Release(t)
  /\ key' = [key EXCEPT ![t] = NoKey]
  /\ text' = [text EXCEPT ![t] = 0]
  /\ missed' = missed \ {t}
  /\ overtaken' = (overtaken /\ \E u \in Thread \ {t} : Inside(u))
  /\ UNCHANGED <<watcher, caches, invoking>>

\* The file cannot be read, or the script fails.  If it was marked, the mark is
\* gone by then, and what was cached before stays.
Fail(t) ==
  /\ pc[t] \in {"readChanged", "read", "eval"}
  /\ Leave(t)
  /\ noticed' = [f \in File |-> IF f = key[t] /\ pc[t] = "eval" THEN 0 ELSE noticed[f]]

Unlock(t) ==
  /\ pc[t] = "unlock"
  /\ Leave(t)
  /\ UNCHANGED noticed

Invoke(t) ==
  /\ Goto(t, "idle", "tryLockToInvoke")
  /\ UNCHANGED <<watcher, caches, lock, invoking, key, text, history>>

\* invokeMethod returns or throws.
InvokeEnds(t) ==
  /\ Goto(t, "script", "idle")
  /\ invoking' = invoking \ {t}
  /\ Release(t)
  /\ UNCHANGED <<watcher, caches, key, text, history>>

Next ==
  \/ \E f \in File : Modify(f) \/ FindCached(f)
  \/ PollEvents \/ Mark
  \/ \E t \in Thread :
       \/ TryLock(t) \/ TimeOut(t) \/ Interrupt(t)
       \/ \E k \in Key \cup {NoKey} : EvalFile(t, k)
       \/ Check(t) \/ ReadFileText(t) \/ Unmark(t) \/ Eval(t) \/ Fail(t) \/ Unlock(t)
       \/ Invoke(t) \/ InvokeEnds(t)

Spec == Init /\ [][Next]_vars
-----------------------------------------------------------------------------
TypeOK ==
  /\ version \in [Key -> 1..MaxVersion]
  /\ event \subseteq File /\ batch \subseteq File /\ marking \in File \cup {NoKey}
  /\ jsObjectCache \in Seq(Key) /\ fileChangeCache \in Seq(File)
  /\ IsInjective(jsObjectCache) /\ Len(jsObjectCache) <= CacheSize
  /\ IsInjective(fileChangeCache) /\ Len(fileChangeCache) <= CacheSize
  /\ object \in [Key -> 0..MaxVersion]
  /\ Range(jsObjectCache) = {k \in Key : object[k] # 0}
  /\ owner \in Thread \cup {NoThread}
  /\ holds \in 0..2
  /\ pc \in [Thread -> PCs]
  /\ invoking \subseteq Thread
  /\ key \in [Thread -> Key \cup {NoKey}]
  /\ text \in [Thread -> 0..MaxVersion]
  /\ noticed \in [File -> 0..MaxVersion]
  /\ missed \subseteq Thread
  /\ overtaken \in BOOLEAN

\* "如果文件发生修改，会在下一次执行该脚本的函数时，读取文件内容" holds in the code
\* with exceptions, which this property leaves out.  A file that was marked is read
\* again by the next evalFile that returns, whatever threads call, events come late and
\* caches evict, unless
\*  - the watcher came while an evalFile of this file was under way, found it not yet
\*    cached or put a mark that this evalFile then removes, or its put was lost beside
\*    a remove: such a modification is not noticed;
\*  - a script of the file failed after its mark was removed, or a wait for the lock
\*    timed out: what was noticed before no longer counts;
\*  - this evalFile did not see the mark, as the watcher was putting another one: missed.
\* It takes as many marks as files: a mark that the cache of the marks has evicted is
\* lost.  The type invariant is the first conjunct.
MarkedIsReread ==
  /\ TypeOK
  /\ Cardinality(File) <= CacheSize =>
    \A t \in Thread :
      pc[t] = "unlock" /\ key[t] \in File /\ t \notin missed =>
        text[t] >= noticed[key[t]]

\* While every thread in evalFile has the lock, no object is replaced by one of an older
\* text.  Once a wait has timed out, evaluations overlap and the slower one does put an
\* older object back: those replacements are left out, until the last of them has ended.
NeverOlder ==
  [][\A k \in Key :
       object[k] # 0 /\ object'[k] # 0 /\ ~ overtaken => object'[k] >= object[k]]_vars

\* Whatever waits time out or are interrupted: a thread that is back from its
\* calls does not keep the lock, and no thread holds it more often than it has
\* calls that will give it back.
LockGivenBack ==
  /\ owner = NoThread <=> holds = 0
  /\ \A t \in Thread :
       owner = t => holds <= (IF Inside(t) THEN 1 ELSE 0) + (IF t \in invoking THEN 1 ELSE 0)
-----------------------------------------------------------------------------
\* Threads are alike, and so are files.
Symmetry == Permutations(Thread) \cup Permutations(File)
=============================================================================
