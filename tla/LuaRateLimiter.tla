--------------------------- MODULE LuaRateLimiter ---------------------------
(***************************************************************************)
(* The distributed limiter: RateLimiter.applyToken and clear, and the two  *)
(* scripts, ratelimit.lua and its successor ratelimit2.lua, which          *)
(* RateLimiter loads.  A client reads its clock, in seconds, and then has  *)
(* Redis run the script with that time; in between other clients may run   *)
(* theirs with a later time.                                               *)
(*                                                                         *)
(* The clock is not a variable: what is kept is how long ago, in seconds,  *)
(* the timestamp key was written and each client read the time.            *)
(***************************************************************************)
EXTENDS Integers, FiniteSets

CONSTANTS
  Client,
  capacity, rate,
  Nil,         \* redis.call('get', ..) of a key that is not there
  MaxLag,      \* bound: seconds between reading the clock and the script
  MaxAge,      \* bound: ages beyond it refill the bucket all the same
  MaxClears    \* bound: calls of clear

\* What the constants must satisfy; assumed where they get their values.
LuaAssumption ==
  /\ capacity \in Nat \ {0} /\ rate \in Nat \ {0} /\ Nil \notin Int
  /\ MaxLag \in Nat /\ MaxAge \in Nat /\ MaxClears \in Nat
  /\ (MaxAge - 2 * MaxLag) * rate > capacity

VARIABLES
  script,    \* the script the clients have loaded
  tokens,    \* key service:tokens, or Nil
  age,       \* now minus key service:timestamp, or Nil
  lag,       \* [Client -> now minus the time it has read, Nil when it has not]
  answer,    \* [Client -> the script's return value, Error, or Nil]
  accepted,  \* [Client -> what applyToken returned]
  clearing,  \* a clear is between its two DEL
  clears,    \* how often clear was called
  granted    \* history: tokens handed out since the clock last ticked or a clear

\* The script was stopped by an error, jedis.eval throws.
Error == -1

keys == <<tokens, age>>
Scripts == {"ratelimit.lua", "ratelimit2.lua"}
vars == <<script, keys, lag, answer, accepted, clearing, clears, granted>>

Init ==
  /\ script \in Scripts
  /\ tokens = Nil
  /\ age = Nil
  /\ lag = [c \in Client |-> Nil]
  /\ answer = [c \in Client |-> Nil]
  /\ accepted = [c \in Client |-> FALSE]
  /\ clearing = FALSE
  /\ clears = 0
  /\ granted = 0

\* applyToken reads System.currentTimeMillis()/1000.
ReadClock(c) ==
  /\ lag[c] = Nil
  /\ lag' = [lag EXCEPT ![c] = 0]
  /\ answer' = [answer EXCEPT ![c] = Nil]
  /\ accepted' = [accepted EXCEPT ![c] = FALSE]
  /\ UNCHANGED <<script, keys, clearing, clears, granted>>

\* jedis.eval returns a Long and applyToken compares it with the Integer 1:
\* Long.equals is false for every Integer.
EqualsInteger1(result) == FALSE

\* Mutants: set tokenskey is forgotten; no overflow check.
StoreTimestampOnly(n, written) == age' = written /\ UNCHANGED tokens
Uncapped(n) == n

Store(n, written) == tokens' = n /\ age' = written

\* The script answers r to c; every r above zero is a token.
Answer(c, r) ==
  /\ answer' = [answer EXCEPT ![c] = r]
  /\ accepted' = [accepted EXCEPT ![c] = EqualsInteger1(r)]
  /\ granted' = IF r > 0 THEN granted + 1 ELSE granted
  /\ lag' = [lag EXCEPT ![c] = Nil]
  /\ UNCHANGED <<script, clearing, clears>>

Capped(n) == IF n > capacity THEN capacity ELSE n

\* tokens + (now - timestamp) * rate
Refilled(c) == tokens + (age - lag[c]) * rate

\* Arithmetic on a key that is not there stops the script with an error.
Arithmetic == tokens # Nil /\ age # Nil

Eval1(c) ==
  /\ script = "ratelimit.lua"
  /\ lag[c] # Nil
  /\ \/ age = Nil /\ Store(capacity - 1, lag[c]) /\ Answer(c, 1)
     \/ age # Nil /\ ~ Arithmetic /\ UNCHANGED keys /\ Answer(c, Error)
     \/ /\ Arithmetic
        /\ LET n == Capped(Refilled(c))
           IN  IF n < 1 THEN Store(n, lag[c]) /\ Answer(c, 0)
               ELSE Store(n - 1, lag[c]) /\ Answer(c, 1)

\* The four answers tell which path gave the token.
Eval2(c) ==
  /\ script = "ratelimit2.lua"
  /\ lag[c] # Nil
  /\ \/ tokens = Nil /\ Store(capacity - 1, lag[c]) /\ Answer(c, 4)
     \/ tokens # Nil /\ tokens > 0 /\ Store(tokens - 1, age) /\ Answer(c, 1)
     \/ tokens # Nil /\ tokens < 1 /\ ~ Arithmetic /\ UNCHANGED keys /\ Answer(c, Error)
     \/ /\ tokens # Nil /\ tokens < 1 /\ Arithmetic
        /\ LET n == Refilled(c)
           IN  CASE n > capacity -> Store(capacity - 1, lag[c]) /\ Answer(c, 2)
                 [] n < 1        -> UNCHANGED keys /\ Answer(c, 0)
                 [] OTHER        -> Store(n - 1, lag[c]) /\ Answer(c, 3)

\* clear is two DEL.
ClearTokens ==
  /\ ~ clearing /\ clears < MaxClears
  /\ tokens' = Nil
  /\ clearing' = TRUE
  /\ clears' = clears + 1
  /\ granted' = 0
  /\ UNCHANGED <<script, age, lag, answer, accepted>>

ClearTimestamp ==
  /\ clearing
  /\ age' = Nil
  /\ clearing' = FALSE
  /\ granted' = 0
  /\ UNCHANGED <<script, tokens, lag, answer, accepted, clears>>

Older(a, bound) == IF a = Nil THEN Nil ELSE IF a < bound THEN a + 1 ELSE bound

Tick ==
  /\ \A c \in Client : lag[c] # MaxLag
  /\ age' = Older(age, MaxAge)
  /\ lag' = [c \in Client |-> Older(lag[c], MaxLag)]
  /\ granted' = 0
  /\ UNCHANGED <<script, tokens, answer, accepted, clearing, clears>>

Next ==
  \/ \E c \in Client : ReadClock(c) \/ Eval1(c) \/ Eval2(c)
  \/ ClearTokens \/ ClearTimestamp
  \/ Tick

Spec == Init /\ [][Next]_vars
-----------------------------------------------------------------------------
TypeOK ==
  /\ script \in Scripts
  /\ tokens \in (-(MaxLag * rate)..capacity) \cup {Nil}
  /\ age \in 0..MaxAge \cup {Nil}
  /\ lag \in [Client -> 0..MaxLag \cup {Nil}]
  /\ answer \in [Client -> -1..4 \cup {Nil}]
  /\ accepted \in [Client -> BOOLEAN]
  /\ clearing \in BOOLEAN
  /\ clears \in 0..MaxClears
  /\ granted \in Nat

\* Both scripts are token buckets, for any number of clients, also for those
\* whose time is out of date when their script runs; a clear fills the bucket.
\* But the buckets are larger than the constant capacity ("令牌桶容量").  A
\* client is served from the bucket of up to MaxLag seconds ago, so what has
\* fallen in since comes on top.  And ratelimit2.lua leaves the timestamp alone
\* while tokens last and then counts the whole time since: when it hands out
\* its last token, a second bucket stands behind the first.
Size ==
  (IF script = "ratelimit.lua" THEN capacity ELSE 2 * capacity - 1) + MaxLag * rate

Level ==
  MaxLag * rate +
  CASE tokens = Nil -> capacity
    [] tokens # Nil /\ age = Nil ->
         IF script = "ratelimit.lua" THEN capacity ELSE tokens
    [] OTHER ->
         IF script = "ratelimit.lua" THEN Capped(tokens + (age - MaxLag) * rate)
         ELSE tokens + Capped((age - MaxLag) * rate)

Bucket == INSTANCE TokenBucket
            WITH Rate <- rate, Second <- 1, capacity <- Size, level <- Level,
                 resets <- 2 * clears - (IF clearing THEN 1 ELSE 0)
BucketSpec == Bucket!Spec

\* A script fails only because a clear that it slips into leaves one key without
\* the other.  With ratelimit.lua that is over with the clear's second DEL; with
\* ratelimit2.lua the tokens that were stored in between run out and are never
\* filled up again.
ErrorsComeFromClears ==
  [][\A c \in Client :
       answer[c] # Error /\ answer'[c] = Error =>
         IF script = "ratelimit.lua" THEN clearing ELSE clears > 0 /\ age = Nil]_vars

\* "取到令牌返回值大于零，没取到令牌返回0": a client whose script answered more
\* than zero has its token, and applyToken tells it so.
TokenMeansTrue == \A c \in Client : answer[c] \in 1..4 => accepted[c]
=============================================================================
