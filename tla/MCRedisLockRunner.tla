-------------------------- MODULE MCRedisLockRunner --------------------------
(* Small instances of RedisLockRunner.                                     *)
EXTENDS RedisLockRunner, TLC

CONSTANTS c1, c2, c3

\* One runner object per caller, as in the source: new RedisLockRunner(..).apply(..).
OwnId == [c \in Caller |-> c]
NoParent == [c \in Caller |-> NoCaller]

\* c2 runs inside the callback of c1, as RedisLockRunner.test does.
C2InC1 == [NoParent EXCEPT ![c2] = c1]

\* Every way to ask again that ends, against each other; RedisLockRunner.test's two
\* runners against a third that asks once.
RetryModes == c1 :> "TimeoutRedisLockRunner" @@ c2 :> "RETRY_TIMEOUT"
                @@ c3 :> "RetryableRedisLockRunner"
NestedModes == c1 :> "RETRY_TIMEOUT" @@ c2 :> "RETRY_TIMES" @@ c3 :> "DEFAULT"
=============================================================================
