# jsirenia in TLA+

jsirenia is a Java 8 library of utilities (`src/src/main/java/org/jsirenia`, 168
files) with two Lua scripts for Redis (`src/src/main/resources`) and a web application
(`src/src/main/webapp`) whose pages encrypt with JavaScript: `jsencrypt.js`, the
components of CryptoJS 3.1.2, and `aescbc.js` on top of them.  Much of the Java is
stateless conversions and thin wrappers.  These modules model what keeps state or is
used by several threads, processes, tasks of a browser or nested calls at once, and
the algorithms of the scripts; check them with TLC on small instances; and prove the
most important results about eleven of them for every instance.

## 1. Inventory

### 1.1 Components of the Java library

| component | code | state it keeps | operations | hard behaviour |
|---|---|---|---|---|
| distributed lock | `lock/RedisLock`, `JedisLock`, `SpringRedisLock`, `RedisLockRunner`, `SpringRedisLockRunner`, `RetryableRedisLockRunner`, `TimeoutRedisLockRunner` | one Redis key with a time to live; in each runner a UUID, counters and clocks of the retries | `tryGetDistributedLock`, `releaseDistributedLock`, `apply`/`doTask`, `onGetLockFailed`, `onReleaseLockFailed` | leases that run out in the critical section, lost replies, crashed holders, nested `apply`, three ways to retry |
| Redis queue | `queue/RedisQueue`, `DefaultRedisQueue`, `SpringRedisQueue` | one Redis list | `add`, `take`, `take(count)`, `clear` | `add` with a capacity is two commands; `take` and `take(count)` work at different ends |
| SMS code | `sms/SmsCodeComponent` | four keys per id: code, failures, interval, lock | `saveCode`, `verifyCode` | sequences of commands that interleave or stop in the middle; keys that expire independently |
| distributed rate limiter | `ratelimit/RateLimiter`, `ratelimit.lua`, `ratelimit2.lua` | two keys per service: tokens, timestamp | `applyToken`, `clear` | the clock is read by the client and used later; `clear` is two commands |
| local rate limiter | `ratelimit/LocalRateLimiter` | static map, fields of a limiter under a `ReentrantLock` | `getRateLimiter`, `withCapacity`, `withRate`, `applyToken`, `clear` | check-then-act on the map; `unlock` without the lock |
| leader election | `leader/LeaderElection` | ephemeral sequential nodes in ZooKeeper; `thisNode`, `role` | `init`, `destroy`, child listener, `selectLeader` | one-shot watches, lists that are out of date, sessions that expire, listener against `init` |
| script invoker | `js/JsInvoker`, `file/FileWatcher`, `cache/LRUCache` | cache of evaluated scripts, cache of marks, a reentrant lock | `evalText`, `evalFile`, the `invoke..` methods, `markChanged` | a watcher thread that takes no lock, waits that time out, eviction |
| database client | `jdbc/DbClient` | a stack of connections per thread | `withConn`, `withTx`, queries, updates, inserts | nested calls that join or open a transaction, every JDBC call can fail |
| in-process lock | `lock/JdkLock` | a static cache of `ReentrantLock`s that expire, a lock per instance | `tryGetDistributedLock`, `releaseDistributedLock` | the guard of the shared cache belongs to an instance; a release that is refused |
| lazy initialisation | `defer/Defer`, `lazy/LazyInitMap`, `lazy/LazyRef`, `dubbo/proxy/DubboProxy` | a flag and a value, each under double-checked locking | `once`, `get`, `getInstance` | publishing before the initialisation, plain fields, initialisers that fail |
| job logs | `log/JobLogUtil` | the MDC of a thread, one more key to save the uid in | `withJob`, `withTask`, `withData` | calls in calls with one place to save, pool threads used again |
| batch iterator | `data/BatchData` | a page, an index, the last item | `hasNext`, `next`, `fillData` | pages that are exactly full, rows added meanwhile, producers that fail |
| SFTP pool | `ftp/SftpClientPool`, `SftpClientFactory`, `SftpClient` | clients, their sessions and channels | `doWithSftpClient`, the factory's methods, `close` | callbacks and connections that fail, what is returned to the pool |
| SQL scripts | `jdbc/ScriptRunner` | a statement in the making, a transaction | `runScript` and its options | errors in the middle, delimiters, commits by line or at the end |

What makes each of them correct:

* **Lock.**  No two callers are in their sections with running leases.  A caller
  whose callback's end is handed back had the lock to itself.  Asking ends; a
  dead holder's lock expires; a release is refused only after the lease ran out.
* **Queue.**  Every stored element leaves once; the capacity is overshot only by
  calls that overlap; first in, first out per producer through `take()`.
* **SMS code.**  Fewer than `maxFailTimes` guesses are answered as failed; a caller
  whose wrong guess is compared beyond the limit is kept out until the lock ends; a code
  is accepted once; the lock ends; the send interval is only passed by calls that overlap.
* **Rate limiters.**  Each is a token bucket of a size that can be named, and
  does not refuse all of its callers for ever.
* **Election.**  At most one candidate with a node leads; whoever is next takes
  over.
* **Scripts.**  A modification that was marked while nobody evaluated its file is read;
  objects do not get older while no wait for the lock has timed out; the lock comes back
  after every interrupted or timed out wait.
* **Database.**  The stack mirrors the calls; connections go back; a normal
  return means committed and an exception means nothing is left behind.

* **In-process lock.**  Through one instance a key has one holder; what blocks a key
  without a holder is a refused release; a guard is given back.
* **Lazy initialisation.**  A success is never repeated; a call returns before the
  initialisation has ended only where the flag is set first.
* **Job logs.**  A line carries the uid of its job; a pool thread is left clean.
* **Batch iterator.**  Every row once, in order; `hasNext` tells the truth.
* **SFTP pool.**  A client is one thread's and comes back; no session is orphaned.
* **SQL scripts.**  Lines reach the database once and in order; a return or an
  exception says what is committed.

How they interact: these are independent of each other inside the library.
`aop/JsAspect` calls `JsInvoker`, `exception/DatabaseExceptionCodeSource` loads
its table through `DbClient`, and `JsInvoker` owns a `FileWatcher` and two
`LRUCache`s, which is why `JsInvoker.tla` models those three classes together.
Everything else is shared through a server (Redis, ZooKeeper, the database), and
the models take that server's commands as their atomic steps.

### 1.2 Components of the pages

| component | code | state it keeps | operations | hard behaviour |
|---|---|---|---|---|
| big integers | `static/jsencrypt.js` (jsbn) | digits that a number shares with nobody, reducers | arithmetic, bits, strings, bytes, powers, inverses, primes | digits at the limits of a word, signs, three loops of different width, the estimate of a quotient |
| RSA keys | `static/jsencrypt.js` (`RSAKey`, `JSEncryptRSAKey`, `JSEncrypt`) | a key whose fields are set one after the other | `generate`, `generateAsync`, `getKey`, `encrypt`, `decrypt`, `setKey` | generation in many tasks, with calls between two of them |
| encodings | `static/jsencrypt.js` (asn1js, KJUR.asn1, PEM) | encoders keep what they gave last | DER both ways, hex, base 64, PKCS#1 padding | lengths and signs at their boundaries, text without padding, a cache that is not told |
| random pool | `static/jsencrypt.js` (prng4's pool) | bytes and a pointer | mouse moves, `rng_get_byte` | when it is full, seeding once |
| digests and ciphers | `static/CryptoJS-v3.1.2/components` | hashers and ciphers that buffer a part of a block | `update`, `finalize`, `reset`, `process`, `concat`, modes, paddings, formats, key derivation | data in pieces, words that hold more than their bytes, padding at a block's end |
| AES of the pages | `static/aescbc.js` | none | `encrypt`, `decrypt` with hex and base 64 | text that is read in the wrong encoding |

`aescbc.js` calls CryptoJS; `jsencrypt.js` stands alone, with its own numbers,
encodings and random bytes.  What makes them correct is the arithmetic or the standard
they implement: an operation on digits gives what integers give, whatever a message
is cut into its digest is that of the whole message, what is encrypted or encoded is
read again, and a key answers only when it is whole.

### 1.3 Not modelled

* `text`, `template` (`GenericTokenParser`, `JRender`, `JIndexRender`): stateless
  functions of one text, which a table of inputs tests.
* `array`, `collection`: each method is one or two calls of the JDK.
* `exception`: one map per module, filled by one query or from a file, without a
  protocol around it.
* `thread`: wrappers of `java.util.concurrent` without state of their own.
* `swagger`, `druid`, `aop`, `spring`, the filters in `dubbo`: configuration of
  frameworks and glue, one call each.
* `httpsecurity`, `security`: calls of the JDK's cryptography without state.
* `http`, `server`, `rpc`: I/O around Jetty, Netty and the HTTP client.
* `reflect`, `json`, `date`, `xml`, `properties`, `groovy`, `javassist`: stateless
  conversions, or one call of another library.
* `webapp/webjars/springfox-swagger-ui` (es5-shim, handlebars, marked, ..): the user
  interface of springfox; rendering that nothing of the repository calls.
* `lib-typedarrays.js` of CryptoJS: a constructor that no page uses.

## 2. Modules

| module | models | abstract specification it implements |
|---|---|---|
| `LeaseMutex` | what a caller of the lock may conclude | |
| `RedisLockRunner` | lock and runners, crashes, lost replies, time | `LeaseMutex` (`MutexSpec`) |
| `RedisQueue` | the queue, command by command | |
| `SmsCode` | one id of the component, command by command | |
| `TokenBucket` | what a rate limiter promises | |
| `LuaRateLimiter` | both scripts, the client's clock, `clear` | `TokenBucket` (`BucketSpec`) |
| `LocalRateLimiter` | the static map, the lock, the computation | `TokenBucket` (`BucketSpec`) |
| `LeaderElection` | candidates, ZkClient's event threads, sessions | |
| `JsInvoker` | threads, watcher, caches, lock | |
| `DbClient` | one thread's calls over JDBC | |
| `ScriptRunner` | one run of a script on a connection | |
| `JobLogUtil` | one pool thread's log context | |
| `BatchData` | the iterator and its producer | |
| `Once` | what a lazy initialisation promises | |
| `LazyInit` | the four double-checked initialisations | `Once` (`OnceSpec`) |
| `JdkLock` | the static cache and the guards of the instances | |
| `SftpClientPool` | the pool, its factory, sessions that are lost | |
| `BigInteger` | jsbn: arithmetic; conversions, reducers, powers, inverses, primes | integers (`BigIntegerCalls`) |
| `JsEncrypt` | RSA keys, generation in tasks, PKCS#1 answers | |
| `Asn1`, `RsaCodec` | reading and writing hex, base 64, DER, RSA keys, padding | each other (`RsaCodec`) |
| `EncoderCache` | the cached encodings of KJUR.asn1 | |
| `RandomPool` | the pool of random bytes | |
| `WordArrays` | 32-bit words, word arrays and text encodings | byte sequences (`EncodingCalls`) |
| `HashBlocks`, `Hasher` | the hashes, HMAC, PBKDF2 and EvpKDF | known digests and the definition of HMAC (`DigestCalls`) |
| `CipherCores`, `Ciphers` | AES, DES, Triple DES, RC4, Rabbit; modes, paddings, formats, `aescbc.js` | known ciphertexts (`CipherCalls`) |
| `MCRedisLockRunner` | values for the runs of the lock | |
| `MCRedis`, `MCCalls`, `MCThreads`, `MCJsLibrary`, `MCHmac` | runs of several components | |
| `RedisLockRunnerProofs`, `LeaderElectionProofs`, `JsInvokerProofs`, `JdkLockProofs`, `LazyInitProofs` | theorems about one component | |
| `MCThreadsProofs`, `MCCallsProofs`, `MCRedisProofs` | theorems about the compositions: SFTP pool; database client, job logs, batch iterator, SQL scripts; queue, SMS code, rate limiters | |

The definitions in the modules keep the names of the methods, and the comments
above them say what of the code a reader would not expect there.  An operator
that is commented as a *mutant* is not part of a specification: it is a likely
mistake in the definition below it (a dropped comparison, a forgotten reset), and
replacing that definition by it makes a property fail.  It shows that the property
says something about the code.

`MCRedis`, `MCCalls`, `MCThreads` and `MCJsLibrary` check components side by side that
share no state: `part` is chosen in the initial state, only that part moves, and the
state space is the sum of theirs.  A property of such a module is the conjunction of
named properties of the parts, under the same names as in the parts' modules.  Those of
`MCJsLibrary` and `MCHmac` are properties of the steps, about the state that a step
reaches; what that state determines is passed to the part's operator as an argument.

### 2.1 Lock

`holder`/`ttl` is the Redis key, everything else is indexed by the caller, that is
a runner object in the thread that calls `apply`.  `Apply`, `TryGranted`,
`TryRefused`, `OnGetLockFailed`, `Sleep`, `RetryAtOnce`, `Wake`, `CallbackEnds`,
`ReleaseOwn` and `ReleaseRefused` are the steps of `apply` in the order of the
code.  `TryLost` and `ReleaseLost` are calls to Redis of which only the reply, or
nothing at all, is lost; `Interrupt` is an interrupted sleep, `Crash` the death of
a thread with every `apply` on its stack.  `LockClass` switches between the two
scripts, which differ in one thing: `JedisLock` grants a key again to the id that
holds it already.  `Mode` is the runner's class or its `retryMode`; `Parent` says
in whose callback an `apply` runs.  `intruded`, `lease` and `outcome` are history.

Time is discrete; every duration is counted down, so there is no clock that would
have to be bounded.  `elapsed` and `tried` stop one above the largest value a test
in the code can tell apart (`ElapsedBound`, `TriedBound`).

### 2.2 Queue

`queue` is the list with Redis' head first.  `Add`, `ReadLength` and `Push` are the
three points of `add`; the producer's argument stays in `source` between LLEN and
LPUSH, which is where producers overtake each other.  `take()` is RPOP and takes
the oldest; `take(count)` is a script of LRANGE 0..count-1 and LTRIM and takes the
newest.  `MaxElements` bounds how many elements a producer ever offers.

### 2.3 SMS code

One id.  `SaveCode`, `CheckInterval`, `SetTimes`, `SetCode`, `SetInterval` are the
commands of `saveCode` in their order; `VerifyCode`, the three outcomes of its
script, and `SetLock` are `verifyCode`.  `Crash` stops a session between any two.
`failed`, `good` and `pending` count answers for the properties, and `beyond` has the
sessions whose wrong guess the script compared beyond the limit: they are told that there
were too many, but a guess was tried.  Their number is not bounded when sessions die
before they set the lock; `OneBeyondEach` says that each session that lives has one such
guess and then is kept out until the lock ends.  `TimesBound` stops the count of failures
one above the test.

### 2.4 Rate limiters

A `TokenBucket` gains at most `Rate` tokens a second, and gives one for every
request it lets through.  `Lose` allows an implementation to forget parts of
tokens, never to invent them.

In `LuaRateLimiter` the timestamp and the clients' clocks are kept as ages, so that
time needs no bound other than `MaxAge`, beyond which a bucket is full whatever it
held (the assumption `LuaAssumption` states what makes it large enough).  `Eval1`
and `Eval2` are the scripts, one disjunct for each path and return value.
`EqualsInteger1` is the comparison of a `Long` with an `Integer` in `applyToken`.
The refinement says exactly how large the buckets really are, see section 3.

In `LocalRateLimiter` the threads look the limiter up, may make one, configure it
and use it; `tryLock`, the computation and `unlock` are separate steps.  `GiveUp`
is the `finally` that unlocks what the thread does not hold.

### 2.5 Election

`Subscribe`, `ExistsLeader`, `CreatePath`, `CreateNode` and `AssignThisNode` are
`init`; `ReadChildren` and `SelectLeader` are the event thread of ZkClient, with
`list` what it has read; `watch` and `event` are the one-shot watch and the queue
behind it.  ZooKeeper and ZkClient are modelled from how the class uses them and
marked external: `EndSession`, `Reconnect`, `Notify`.

### 2.6 Scripts

A text is known by the number of its modification.  `EvalFile`, `TryLock` (or
`TimeOut`, or `Interrupt`), `Check`, `ReadFileText`, `Unmark`, `Eval`/`Fail` and
`Unlock` are `evalFile`; `Invoke` and `InvokeEnds` the methods that run a script
under the same lock, in which `EvalFile` may be called again.  `PollEvents`,
`FindCached` and `Mark` are the watcher.  The caches are `LinkedHashMap`s that the
watcher uses without the lock; of the outcomes of such a race the model has the
lost put (`Mark` while a `remove` goes on) and the missed lookup (`FindCached`
while a `put` goes on, `Check` while the watcher puts).

A modification can get lost, and the class comment (`JsInvoker.java:27`) does not say so:
the watcher marks only what it finds cached, so a file that is modified after it was read
and before it is put is not marked, or its mark is taken away by that evaluation; the mark
is removed before a script is evaluated that may fail; and a wait that timed out lets an
evaluation put an older object over a newer one.  `MarkedIsReread` leaves these cases out
(`Settled` is the first, `missed` the lookup that raced with the watcher), `NeverOlder` the
evaluations that overlap after a time-out (`overtaken`); both say what holds otherwise.
An evaluation is one step between the reading of the text and the put.

### 2.7 Database

`frames` is the Java stack, `connStack` the `ThreadLocal`.  `WithConn`, `WithTx` and
`Statement` begin a call, `Execute`, `Throw` and `Catch` are what callbacks do, and
the last four actions are the ends of `withTxInternal` and `withConn`, with every
JDBC call in them succeeding or failing.  `MaxDepth` and `MaxUpdates` bound the
nesting and the rows.

### 2.8 SQL scripts

`SetAutoCommit`, `HandleLine` or `FullScript`, `Commit`, `Check` and `Failed` are
`runScript` with its options: the whole script at once (`sendFullScript`) or line by
line, with a delimiter on a line of its own or at the end of a line, with or without
`autoCommit` and `stopOnError`.  A script is any sequence of at most `MaxLines` lines out
of the kinds the code tells apart.  Reading a line, setting `autoCommit`, making a
statement and setting it up, executing it, the commit and the rollback may each fail.  An
execute or a commit that fails may have been done; a warning under `throwWarning` is such
a failure of `execute`.  A rollback that fails is swallowed, and what was pending then stays
so on the caller's connection.  The failure of `close`, which the code ignores, and those
of printing results, which it catches, change nothing that is modelled.  `executed`,
`pending` and `committed` follow what the database was given.

### 2.9 Job logs

`uid` and `ouid` are the two keys of the MDC; the frames are the calls of `withJob`,
`withTask` and `withData` that run.  A uid is the sequence of its parts.  The one place
to save the uid is used by every depth, so a `withData` in a `withTask` overwrites what
the outer call saved: `PlainCallRestored` says what holds all the same, namely that a
call without others inside gives the uid back.  Numbers come from counters other
threads use too (`nextId`).

### 2.10 Batch iterator

`HasNext` and `NextItem` are the iterator, `ProducerFails` and `ListRefused` what can go
wrong in `fillData`, `AddRow` is somebody else adding rows, and the producer reads what follows the last row that was
consumed, as the example in `BatchData.main` does.  `promised` is what the last
`hasNext` said, so that calling it twice, or not at all, is told apart.

### 2.11 In-process lock

One key.  `ContainsKey`, `Put` and `TryLock` are three steps, because the
`ReentrantLock` around them is a field of the instance while the cache is static.
`Expire` is the cache's five minutes; `Release` may be called by anybody, and is
refused while the instance serves another call.

### 2.12 Lazy initialisation

The four classes differ in two things, when they publish and whether what they
publish may be read without the monitor (`PublishFirst`, `Plain`).  A plain field may
show a thread that has not been in the block an old value: it then goes into the block
for nothing, or, on its second read, gets null after having seen the flag (`sawNull`).
`Once` knows neither locks nor fields.

### 2.13 SFTP pool

The pool of commons-pool2 is external: it validates a client when it lends it, makes
one when it has room, and makes callers wait.  `session` and `channel` can be lost at
any time.  The pool takes a client back whatever its callback did; what protects the
next caller is the validation, if it is switched on (`validates`).

### 2.14 `jsencrypt.js`

*Numbers.*  A number is the array of its digits with `t` and `s`, as in jsbn.  The
digits have 3 or 4 bits instead of 26 to 30, with each of the three multiply-and-add
loops the browser picks from; everything that depends on the width
(`DV`, `FV`, `F1`, `F2`, the low primes' products, the windows of `modPow`) is
derived as the code derives it.  The quotient's floating-point estimate in `divRemTo`
is computed exactly, with the truncation the code makes.  `invDigit` doubles the bits
that are right until the digit is full; the step that needs 16-bit digits, windows
of 4 to 6 bits and radices wider than a digit do not occur at this width.
A number is the integer it stands for until it is called: the state of `BigIntegerCalls`
is that integer and the call, one of a set of values that has the boundaries of one to
four digits with one of a set of operands, and its property `NumbersRight` compares every
result, digit by digit, with TLA+'s integers.

*Keys.*  `JsEncrypt` has one `JSEncrypt` object.  `generateAsync` is four functions
that leave a timer for each other; `Task` runs the pending one; `Call`, which is `encrypt`,
`sign` or, without an answer, any other method that takes the key, and `setKey` come
between two of them.  Any candidate for a prime may be drawn.  The fields of the key are set as they are found, so a call in the middle sees
some of them: `KeysWhole` says that whoever gets an answer got it from a whole key, that it
is the power of the message, computed with TLA+'s integers, and that the key opens it again.
Two keys are left out of that: one whose text was cut off in its exponent, which has
exponent 0 and answers 1 for every message, and a generated one with p = q, which the code
does not exclude.  With B = 8 both primes have four bits, so they come in either order (the
code then exchanges them) and equal; E = 7 and the message 27 make sure that a wrong
exponent shows: 27 is not its own power, and `doPrivate` has to add p before it can
subtract, when a key is generated as when one is set.  15 passes Miller-Rabin in this instance when the
base drawn is 2 (as real pseudo-primes do for some bases), so that `generateAsync` meets candidates that
are refused by a later test.

*Encodings.*  `Asn1` reads and `RsaCodec` writes; `ReadAgain` says that values
out of a set that has the boundaries (127, 128, -128, -129, ..., lengths of one and two
bytes) are read again as they were written.  An object identifier whose second arc is 40 or more under arc 2
and hexadecimal text of odd length in `hex2b64` are left out: the code does not
support them.  `EncoderCache` has the objects' caches: `setValueHex` and other setters
that do not mark an object as changed leave the old encoding (`StaleOnlyWhenUntold`
says that nothing else does).

*Random bytes.*  The pool is filled at load time where the browser has `crypto`, by
mouse moves otherwise, and the rest by `Math.random` when the first byte is wanted.
After that byte the pool is wiped and later moves never reach the generator.

### 2.15 CryptoJS and `aescbc.js`

`WordArrays` computes 32-bit operations on halves of 16 bits, because TLC's integers
have 32 bits and a sign, and keeps the words behind `sigBytes` as the code does, which
matters: `concat` and `clamp` treat them differently.  `HashBlocks` and
`CipherCores` are the real algorithms with their real constants, not placeholders.
`Hasher` and `Ciphers` model the buffering (`_append`, `_process`, `_minBufferSize`),
the last block of every hash and every padding, the modes' state between blocks, and
the text formats.  Hashing and encrypting are deterministic, so the state of `DigestCalls` and
`CipherCalls` records the calls: which hasher or cipher, where the pieces end that it was
given, in every order of `Cuts` and `Splits`, the random bytes that were drawn, and the
caller's key, which some ciphers change.  `Digest`, `Ciphertext` and `Opened` are what
comes out of such calls, and are compared with the same message in one call, with the
standard, and with digests, keys and ciphertexts computed by OpenSSL and Python's hashlib.  `WithPassword` is encryption in one call
with a string for a key, and `AesCbc` a text through the pairs of functions of
`aescbc.js`.

## 3. What the runs check and show

| run | instance | checks | distinct states |
|---|---|---|---|
| `lock_contend` | 3 callers, each with one of the ways to retry that end (`TimeoutRedisLockRunner`, RETRY_TIMEOUT, `RetryableRedisLockRunner` with 2 attempts), any number of applies each, `SpringRedisLock`, lease 1 | mutual exclusion, exclusive normal returns, the implementation of `LeaseMutex`; asking ends, after the number of attempts the mode allows | 186 158 |
| `lock_retry` | 3 callers, one in the callback of another, `JedisLock`, lease 3 | types; the inductive invariant; an outer lease gives way; the key of a dead holder, or of a lost reply, expires; refusals only after the lease | 15 338 |
| `lock_retrytimes` | 3 callers in the retry modes | *violated*: a fixed number of retries | |
| `redis` | the queue with 2 producers, capacity 2, batches of 2 and 4 elements each; the SMS code with 2 sessions, 2 codes, life times 3, 2 and 2; both scripts with 2 clients, capacity 3, rate 2, replies up to 2 s late and a clear; the local limiter with 2 threads, 3 possible limiters and 2 ticks to the second | queue: nothing lost or doubled, bounded overshoot, order; SMS: bounded failed answers, one guess beyond the limit for each caller that lives, one acceptance, one message per session and interval; both limiters are token buckets, errors only because of a clear, at most one limiter per thread; locks end and the local limiter does not refuse everybody for ever | 385 701 |
| `lua_result` | 1 client | *violated*: a token that was taken is reported | |
| `leader` | 2 candidates, sessions that expire and come back, crashes | one leader with a node, it is the first, the next takes over | 72 520 |
| `leader_alone` | 1 candidate | *violated*: the time without a leader ends | |
| `js` | 2 threads, 2 files and 1 text key, 2 cache entries, 2 versions of each file | what was marked while nobody evaluated the file is read again, objects do not get older while no wait timed out, the lock comes back | 1 679 380 |
| `calls` | database client: 3 connections, 3 calls deep, 3 updates; job logs: 4 deep, 6 calls, 2 numbers; batch iterator: pages of 2, up to 5 rows, 2 failures; scripts of up to 3 lines with every option | stack, pool and commits follow the calls; lines carry their job's uid and pool threads are left clean; every row once and `hasNext` true; script transactions | 444 940 |
| `threads` | 3 threads with 2 calls each in the lazy initialisations; 3 threads and 2 instances of `JdkLock`; 2 threads, 3 clients, 2 at a time in the SFTP pool | one holder, one success, `Once` is implemented, clients and sessions accounted for, every call ends | 116 728 |
| `jslib` | every part of `jsencrypt.js` and CryptoJS, see 2.14 and 2.15 | arithmetic, codes, keys, digests, ciphers; the callback of a key generation is called | 22 904 |
| `hmac` | HMAC with SHA-224 and SHA-384 | *violated*: the digest is the standard's | |

### Results worth knowing

* The lock is safe in the sense a lease can be: a section that overran is *always*
  told so (`NormalReturnWasExclusive`), because a release after the lease deletes
  nothing and `onReleaseLockFailed` throws in `finally`, replacing the value.  An
  `apply` inside the callback of another one for the same key does not deadlock:
  it waits for the outer lease to run out, and the outer call then reports it.
* The token buckets are larger than the constant `capacity` suggests.  Each client
  whose clock is read `MaxLag` seconds early adds to them, and `ratelimit2.lua`
  keeps the timestamp while tokens last and then counts the whole time since, so
  that nearly two buckets (`2 * capacity - 1`) can be handed out at once.  With a
  `clear` between two of its commands `ratelimit2.lua` fails for good, until the
  next `clear`: the timestamp is missing and only written when tokens are.
* `getRateLimiter` multiplies a service's limit by at most the number of threads
  that first ask for it at the same time.
* `take()` and `take(count)` are at different ends of the list; the order of one
  producer survives, that of the whole queue does not.
* The election never has two leaders with a node, but a candidate whose session
  expired keeps its role until it hears otherwise, and its node is never made
  again.
* `DbClient`'s joined calls commit: `withTx` within `withConn` commits what the
  outer call has done so far, so an outer exception takes back only the rest
  (`nested` in `ThrowMeansNothing`).
* `JdkLock`: two instances do not exclude each other between the question and the
  put, so that both callers are granted the key.  `ExclusiveWithinInstance` needs
  `OneInstance`.  A release while the instance is busy is refused without another
  attempt, and blocks the key until it expires.
* `Defer.once` and `DubboProxy` let a call return while the initialisation runs or
  after it failed, and never try again; `LazyInitMap` and `LazyRef` do neither.  The
  `OnceSpec` of the first two is weaker by exactly `early`.
* `JobLogUtil`: nested `withTask` and `withData` lose the outer call's saved uid; lines after
  the inner call still begin with their job's uid.
* CryptoJS: a message may be cut anywhere.  `finalize` leaves a hasher that is not to
  be used before `reset`.  `NoPadding` under ECB and CBC drops a block that is not
  full; unpadding believes the last byte; `ZeroPadding` takes a message's own last
  zeros away; Rabbit changes the byte order of its caller's key words; SHA-3 pads as
  Keccak did before the standard.
* `jsencrypt.js`: `getKey` with a callback never calls it when there is a key already;
  a public key whose text ends before its exponent answers with 1 for everything.
* `aescbc.js`: `decrypt` of a base 64 text without the format reads it as UTF-8.

### Findings

1. `RedisLockRunner.java:150`: in the mode RETRY_TIMES the loop never gives up.
   The class comment promises a failure after the last retry; the counter only
   decides whether the loop sleeps, and after the last retry it asks at once and
   for ever (`lock_retrytimes`).
2. `RateLimiter.java:40`: `result.equals(1)` compares a `Long` with an `Integer`,
   so `applyToken` answers false for every token it takes (`lua_result`).
3. `LeaderElection.java:67`: the event of a candidate's own node can be handled
   while `thisNode` is still null.  `selectLeader` then does not know its node,
   and a lone candidate stays without the role (`leader_alone`).
4. `core.js:226` (CryptoJS): `concat` to an array that ends with a whole word pushes all
   of the other's words, also those behind its `sigBytes`.  SHA-224 and SHA-384
   shorten a digest by setting `sigBytes` only, so HMAC's second hash is given words that
   are no part of the inner digest, and its end mark is ored onto one of them:
   `HmacSHA224` and `HmacSHA384` (`sha224.js:52`) are not the HMACs of the standard
   (`hmac`).

## 4. Bounds and fairness

**Why the bounds are enough.**  Three callers are one that holds the lock, one that
waits and one that intrudes or runs inside another.  In `lock_retry` a lease of 3 has
ticks inside and one that ends it, and `SleepTime` 1 makes a sleeper wake within it; in
`lock_contend` every tick ends a lease, so that the three callers overtake each other
all the time, and two attempts and a second `apply` of the same runner tell a counter that is
reset from the one of `RetryableRedisLockRunner`, which is not.
Two producers with batches of 2 and capacity 2 overshoot, are cut off and have no
room at all; 4 elements let a producer come back after that.  Two sessions are
needed for every race of the SMS commands, and the life times are pairwise as in
the configuration (the code outlives the interval).  Capacity 3, rate 2 and a lag
of 2 s let a bucket be empty, filled in part and overflow, and clients come with
times before the timestamp.  In the local limiter a second is two ticks so that
half a second can be lost; three limiters leave room for one more than the bound.
Two candidates are a leader and a successor, each of which can come back with an
old role.  Two cache entries for three keys make every entry be evicted.  Depth 3
has a call inside a call inside a call, the least with a middle one to join.
Depth 4 of log contexts has two pairs of calls that share the place for the uid;
pages of 2 and 5 rows have full, half and empty pages; scripts of 3 lines have a statement
of two lines with another before or behind it.  Three threads are one in the block, one that waits and one
that comes by without it; two clients for two threads make the pool wait when one is
invalid.  In `jslib` the values of the calculator are the neighbours of the powers of
the digit size up to four digits; the messages' cuts are inside the first block, at
the last byte that leaves room for the length (of the hashes with blocks of 64 bytes), at
a block's end and two blocks long;
each mode, padding and cipher occurs, with messages that end in and at a block.  What
depends on messages of 2^32 bits and more is not reached.

**Fairness.**  `Spec` never has fairness; `FairSpec` adds it where a property needs it.

* `RedisLockRunner`: weak fairness of `Tick` (time passes) and of each caller's
  `Progress` (a thread that runs goes on, a callback returns).  Faults never have
  to happen, and nobody has to call `apply`.
* `SmsCode`: weak fairness of `Tick` only.  `LockEnds` needs no more: a crashed or
  idle session cannot keep the lock.
* `LocalRateLimiter`: `Tick`, and `Unlock` of every thread: between the answer and
  the end of the method there is only `finally`.
* `LeaderElection`: the event thread (`ReadChildren`, `SelectLeader`) and the
  thread in `init`.  Sessions need not expire or come back.

* `JdkLock`: the rest of a call that has begun.  `LazyInit`: the steps of a thread in a call;
  initialisers end.
* `SftpClientPool`: weak fairness of a thread's steps in a call, strong fairness of its
  wait's end: five seconds are over at some time, however often others take the clients
  that come back.
* `JsEncrypt`: weak fairness of `Task`, since a browser runs the timers that are due,
  and strong fairness of drawing a lucky number: candidates are independent draws.

Deadlock is checked in every run but those of `LeaderElection` and the JavaScript
parts: the election stops when every process is dead, and a calculator, a digest or an
encoded value is at its end when it has its result.  Where a part of `redis`, `calls` or
`threads` has nothing more to do, a step of its own says when (`QueueDrained`,
`Over`, `InitEnds`).  `js` uses the symmetry of the threads; its properties are safety properties
and no definition tells threads apart.

## 5. Proofs

TLAPS checks eight modules to the last leaf.

`RedisLockRunnerProofs`, for every set of callers, every mix of runners and nested
calls, both lock classes and all durations (`ConstantsAssumption`):

* `TypeCorrect`: `Spec => []TypeOK`.
* `MutualExclusionHolds`, `NormalReturnWasExclusiveHolds`, `LockInvariantHolds`: the
  invariants of `lock_contend` and `lock_retry`.
* `ReleaseRefusedOnlyWhenExpiredHolds`: the action property of that name.
* `ImplementsLeaseMutex`: `Spec => MutexSpec`.

All but the first assume `OwnRequestIds`: no two callers have the same UUID, which
is what `UUID.randomUUID` per runner is for.  Without it a caller would release
another's lock.  Mutual exclusion is not inductive: nothing in it says why the next
grant finds no running lease.  The strengthening `LockInvariant` does: a caller in
its section owns the key exactly as long as its lease runs, and the lease *is* the
key's remaining time (`LeaseBacked`); a section that owns the key was not intruded
upon, and a call that is running has no outcome yet (`Undisturbed`).  Two running
leases then are the remaining time of one key with two values, which cannot be.
`lock_retry` checks `LockInvariant` as well.

`LeaderElectionProofs`, for any set of candidates and with no bound:

* `TypeCorrect`: `thisNode` is null or the candidate's own node, and every number
  is below the next one.
* `OneLiveLeaderHolds` and `LeaderIsFirstHolds`.

The invariant `IInv` adds that live nodes have different numbers (`Numbering`),
that a live node missing from a list that was read is younger than the whole list
(`ListIsPrefix`: this is why a listener may act on an old list), and that a
candidate leads only after it has assigned `thisNode` (`LeaderHasNode`, without
which not even the types are inductive).

Every strengthening named below was an invariant of a TLC run (the run of its
component) before it was proved.

`JsInvokerProofs`, for any threads, files, texts and sizes of the caches:

* `TypeCorrect`, `LockGivenBackHolds`, `MarkedIsRereadHolds`, `NeverOlderHolds`: the three
  properties of `js`, with the exceptions they state (2.6), and the types.  The inductive invariant `IInv` adds to them
  `CallsInOrder` (where a thread is goes with what its call is for and has read),
  `OneEvaluates` (a thread inside `evalFile` has the lock unless a wait in front of it
  timed out), `NewerComes` (what is about to replace an object is not older) and
  `NoticedIsRead` (a modification that was noticed is still marked, or the cache
  has nothing older, or a thread is about to store it).
  `MarkedIsReread` alone is not inductive: it speaks of the end of a call, and
  the mark is taken in its middle.

`JdkLockProofs`, for any threads and instances:

* `TypeCorrect`, with the guards: an instance has one thread between the question and
  the end of its method.
* `ExclusiveWithinInstanceHolds`, `LeftOverOnlyWhenRefusedHolds`.  The strengthening
  `CacheKept` says what the cache holds
  at each point of the method: nothing before the put, the thread's own lock after it and
  as long as it holds the key.

`LazyInitProofs`, for any threads and any number of calls:

* `TypeCorrect`, with the monitor.
* `AtMostOnceHolds`.  The strengthening `FlagTells` is what the second test relies on:
  a success was published, nobody is in the initialiser of a class that publishes
  afterwards once the flag is set, and whoever publishes first begins with the flag
  unset and nothing begun.
* `ImplementsOnce`: `Spec => OnceSpec`.  Every step maps to a step of `Once` or a stutter;
  an attempt begins with the second test and ends with the initialiser, and
  `Use` is the return.

Both are stated for `NoThread` outside the set of threads.

`MCThreadsProofs`, about the composition that `threads` checks, whatever the sets of
threads, instances and clients are:

* `OneAtATimeHolds` and `LazyOnceHolds` carry the theorems of the two modules above over:
  a step of the composition is one of the part or leaves it alone.
* `PoolKeptHolds`.  The inductive invariant is `PoolInv`: `ClientsHeld` ties a thread's
  point in its call to its client, which no other thread has, although the pool may have
  taken it away meanwhile; `SessionsKept` says that only clients of the pool have channels
  and that a session without one is being connected or has lost it.
  `SessionsAccountedFor` alone is not inductive: a client that is destroyed gives its
  session back only if it has a channel.
* `TypesCorrect`.

`MCCallsProofs`, about the composition that `calls` checks, for any bounds and sizes, as
long as a page has at least one row (`CallsAssumption`; with pages of none the code reads
the same page for ever):

* `DbTransactionsHold`: `StackMatchesCalls`, `NoneLeftOpen`, `ReturnMeansCommitted` and
  `ThrowMeansNothing`.  `DbInv` adds how the calls lie over the stack of connections
  (`Nested`: each connection is another one, and a statement runs alone); that work that is
  not committed belongs to a call that runs (`WorkIsOpen`, `WorkIsOfThisCall`); that
  without an exception everything is committed or still to be so (`NothingLost`); and
  that what is committed was committed last (`CommittedTold`).
* `LogContextsHold`: `LogInv` says whose the uid is (`UidMadeOnce`, `UidIsOwned`) and, although
  the one place to save it is overwritten, that what is in it is what the innermost
  `withTask` or `withData` found (`SavedByInnermost`, `PlainIsSaved`).
* `BatchRowsHold`: `BatchInv` says that the page follows the last item consumed
  (`PageFollows`), that it is full or ends where the table ended (`PageIsFull`), and that
  an answer of `hasNext` stays true (`AnswersHold`).
* `ScriptTransactionsHold`: `ScriptInv` relates what was executed, and the statement in the
  making, to the lines read (`LinesRead`), and what is committed and pending to what was
  executed (`Some`, `Transaction`); `WholeOnce` is about the script in one piece.
  `LinesInOrder` is stated with quantifiers over positions, not with a filter of
  a sequence, which would need an induction over the script.
* `StepsToldHold`, the two action properties of the run, and `TypesCorrect`.

`MCRedisProofs`, about the composition that `redis` checks, for any finite sets of
producers, sessions, threads and clients and any sizes and times.  The specification is
`MCSpec`; the run's `MCFairSpec` adds fairness to it.

* `QueueKeptHolds`.  `QueueInv` adds to the properties that what a producer has not pushed
  are its newest elements (`SourceIsNewest`, `StoredIsOlder`), that the list has each
  producer's elements newest first (`ListInOrder`), and `RoomIsLeft`, from which the bound
  on the overshoot follows: whoever read the length last pushes no more than there was room
  for then, and each of the others one batch at most.  `OvershootBounded` alone is not
  inductive, because a producer's answer of LLEN grows old.
* `SmsGuardedHolds`.  `SmsInv` says that the counter in Redis is ahead of the answers
  (`FailuresCounted`), that a session that has guessed beyond the limit is about to set the
  lock or finds it set (`OneBeyondEach`, which is inductive with the types), that a code that is still there was not accepted (`CodeIsNew`), and
  that the codes sent within the interval and the sessions about to send one are no more
  than the sessions (`SavesOverlap`).
* `LocalLimitersHold`.  `LocalInv` counts the limiters that were made together with the
  threads about to make one (`EachMakesOne`).
* `LocalBucketHolds`: `BucketSpec` of the local limiter.  Its level and size are sums over
  the limiters that were made, so the proof has its own induction: a set of sizes that has
  0 and with each number the next has all (`Induction`, from the least number it would
  lack), and the same for the subsets of a finite set (`SubsetInduction`).  From these follow
  that the recursive function behind `MapThenSumSet` exists, that the order in which it sums
  makes no difference, and what a sum does when one number changes, one is added, or all of
  them rise (`TotalChanges`, `TotalGrows`, `TotalRises`).  `LimitersMade` is the invariant
  the steps need: a limiter that was not made has no size yet.
* `LuaLimitedHolds`: `BucketSpec` and `ErrorsComeFromClears`.  Every step maps to `Take`,
  `Lose`, `Tick` or `Reset` of `TokenBucket` or to a stutter.  `LuaInv` is what this needs:
  what the bucket lacks falls in between the time that was written and now (`DebtIsCovered`),
  and one of the two keys is missing only because of a clear (`KeysTogether`).
* `TypesCorrect`.

Only model-checked: every liveness property (out of the prover's reach, like `ENABLED`):
`AskingEnds`, `SuccessorTakesOver`, `CallsEnd`, `WaitsEnd`, `CallbackComes` and the others
named under fairness; and the JavaScript parts, whose
algorithms are RECURSIVE operators: the prover has no SMT backend in a module that
reaches one, so what they compute is checked on the inputs of `jslib` and `hmac` only.

## 6. Plan

Done: every component that keeps state, and the scripts of the pages; theorems about every
Java component that is modelled.  What is left:

1. Theorems about the parts of the JavaScript that are state machines without recursive
   operators: `EncoderCache`, `RandomPool` and the steps of `JsEncrypt`.
2. Pure functions of the Java side against reference definitions:
   `GenericTokenParser`, `JRender`, `JIndexRender`.

## 7. What the models leave out

* What callbacks, scripts and SQL compute; formatting, logging and configuration
  (setters are constants).
* `JsInvoker`: scripts that call back into the invoker while `evalFile` evaluates them
  (an evaluation is one step), script objects that are null, an OVERFLOW of the WatchService (whose
  null context ends the watcher thread), `invoke..` inside `invoke..`.
* `LeaderElection`: ACLs, data changes, failures of the calls in `init` (they end
  the candidate's thread as `Crash` does).
* `DbClient`: the wait for an exhausted pool (the DataSource refuses instead), and
  what the placeholders of a statement are replaced by.
* `RedisQueue`, `RateLimiter`: lost replies (a caller that gets an exception from
  Redis learns nothing, and the components do not repeat the command).
* Failures of Redis itself (loss of keys on restart or fail-over): every component
  that uses Redis takes it as a reliable store, and so do the models.
* `DatabaseExceptionCodeSource` stores codes under `module + "."` and the code, while
  `getMsg` looks them up without the module; there is no state machine in it to model.
* `BatchData`: producers that do not page by the last item.
* `SftpClient`: the file operations, which are calls into JSch.
* `ScriptRunner`: printing of results, `removeCRs`, what `escapeProcessing` does to a text,
  and exceptions of `execute` other than `SQLException`.
* `jsencrypt.js`: Arcfour (random bytes are any bytes), strings of dates, the parser of X.509
  beyond a public key, the inverse of 0 modulo an odd number (which never returns),
  what a key with p = q answers.
* CryptoJS: `clone`, the inheritance helpers of `Base`, messages of 2^32 bits and more,
  unpadding a block of zeros with `ZeroPadding` (which never ends), ciphertext without salt that begins
  as a salted one does.

## 8. Running it

    tlc -workers 2 -config LeaderElection.cfg LeaderElection
    tlc -workers 2 -config RedisLockRunner_contend.cfg MCRedisLockRunner
    tlapm RedisLockRunnerProofs.tla
    tlc -workers 2 -config MCThreads.cfg MCThreads
    tlapm MCCallsProofs.tla
    tlapm MCRedisProofs.tla

`PROJECT.json` lists components, runs, mutants, the lines of the code behind every
definition, hazards, findings and theorems.
