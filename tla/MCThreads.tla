------------------------------ MODULE MCThreads ------------------------------
(***************************************************************************)
(* The components whose state threads of one JVM share, and that do not    *)
(* share any with each other: one run checks them side by side.  The       *)
(* initial state chooses a part, the others stay in their initial state.   *)
(***************************************************************************)
EXTENDS Naturals

CONSTANTS
  Thread, NoThread,  \* for the lock and the initialisations
  Two,               \* fewer threads, for the pool
  MaxCalls,
  Instance,
  Client, NoClient, MaxTotal

VARIABLES
  part,
  kind, flag, ready, monitor, lazyAt, synced, begun, uses,
  of, guard, entry, locked, lockAt, holds, refusedRelease, disturbed,
  validates, maxTotal, place, session, channel, poolMine, poolAt, channelLost

initVars == <<kind, flag, ready, monitor, lazyAt, synced, begun, uses>>
lockVars == <<of, guard, entry, locked, lockAt, holds, refusedRelease, disturbed>>
clientVars == <<validates, maxTotal, place, session, channel, poolMine, poolAt,
                channelLost>>
allVars == <<part, initVars, lockVars, clientVars>>

Lazy == INSTANCE LazyInit WITH at <- lazyAt
Jdk == INSTANCE JdkLock WITH at <- lockAt
Sftp == INSTANCE SftpClientPool WITH Thread <- Two, mine <- poolMine, at <- poolAt

ASSUME ThreadsAssumption ==
  /\ Two \subseteq Thread /\ NoThread \notin Thread /\ NoClient \notin Client
  /\ MaxCalls \in Nat /\ MaxTotal \in Nat

Parts == {"LazyInit", "JdkLock", "SftpClientPool"}

\* The configuration of a part that does not run is of no interest.
MCInit ==
  /\ part \in Parts
  /\ Lazy!Init /\ Jdk!Init /\ Sftp!Init
  /\ part # "LazyInit" => kind = "Defer"
  /\ part # "JdkLock" => of = [t \in Thread |-> CHOOSE i \in Instance : TRUE]
  /\ part # "SftpClientPool" => validates /\ maxTotal = 1

InInit(A) == part = "LazyInit" /\ A /\ UNCHANGED <<part, lockVars, clientVars>>
InLock(A) == part = "JdkLock" /\ A /\ UNCHANGED <<part, initVars, clientVars>>
InPool(A) == part = "SftpClientPool" /\ A /\ UNCHANGED <<part, initVars, lockVars>>

InitPart == InInit(Lazy!Next)
LockPart == InLock(Jdk!Next)
PoolPart == InPool(Sftp!Next)

\* Every thread has made all its calls.
InitEnds ==
  /\ part = "LazyInit"
  /\ \A t \in Thread : uses[t] = MaxCalls /\ lazyAt[t] \in {"returned", "threw", "sawNull"}
  /\ UNCHANGED allVars

MCNext == InitPart \/ LockPart \/ PoolPart \/ InitEnds

\* The fairness of each part, as its own module states it.
MCSpec ==
  /\ MCInit /\ [][MCNext]_allVars
  /\ \A t \in Thread : WF_allVars(InInit(Lazy!Step(t)))
  /\ \A t \in Thread : WF_allVars(InLock(Jdk!Finish(t)))
  /\ \A t \in Two : WF_allVars(InPool(Sftp!Call(t))) /\ SF_allVars(InPool(Sftp!Served(t)))
-----------------------------------------------------------------------------
\* Each property is the conjunction of properties of one part, stated and named in
\* the module of the part.
TypesOK == Lazy!TypeOK /\ Jdk!TypeOK /\ Sftp!TypeOK

\* LazyInit and JdkLock: a success is never initialised again, and through one
\* instance a key has one holder at a time until a lock expires or is released by a
\* stranger; a lock without a holder is one whose release was refused.
OneAtATime ==
  /\ Lazy!AtMostOnce
  /\ Jdk!ExclusiveWithinInstance /\ Jdk!LeftOverOnlyWhenRefused

\* The lazy initialisations implement Once: a call returns before the
\* initialisation has ended, or after it failed, only where the flag is set first.
LazyOnce == Lazy!OnceSpec

\* SftpClientPool: a client that is out is one thread's, whatever callbacks throw,
\* and an open session belongs to a client of the pool.
PoolKept == Sftp!EveryClientReturns /\ Sftp!SessionsAccountedFor

\* Whoever fails, waits or gives up: an initialising call ends, the guard of a
\* JdkLock is given back, and asking for an SFTP client has an answer.
CallsEnd == Lazy!CallsEnd /\ Jdk!GuardGivenBack /\ Sftp!AskingEnds
=============================================================================
