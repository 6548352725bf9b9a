--------------------------- MODULE SftpClientPool ---------------------------
(***************************************************************************)
(* org.jsirenia.ftp: SftpClientPool.doWithSftpClient, SftpClientFactory    *)
(* and SftpClient.close over the GenericObjectPool of commons-pool2, which *)
(* is external.  A client is a channel over a session of its own; either   *)
(* can be lost.                                                            *)
(***************************************************************************)
EXTENDS Naturals, FiniteSets

CONSTANTS
  Thread,
  Client, NoClient,
  MaxTotal         \* bound: the largest pool

VARIABLES
  validates,       \* configuration: testOnBorrow
  maxTotal,        \* configuration: clients the pool allows
  place,           \* per client: "none", "new", "idle" or "used"
  session,         \* clients whose session is connected
  channel,         \* clients whose channel is connected
  mine,            \* the variable client of each thread
  at,              \* where each thread is
  channelLost      \* history: clients whose channel alone was lost

config == <<validates, maxTotal>>
poolVars == <<config, place, session, channel, mine, at, channelLost>>

Points == {"idle", "borrow", "connect", "callback", "return", "threw"}

Init ==
  /\ validates \in BOOLEAN /\ maxTotal \in 1..MaxTotal
  /\ place = [c \in Client |-> "none"]
  /\ session = {} /\ channel = {} /\ channelLost = {}
  /\ mine = [t \in Thread |-> NoClient]
  /\ at = [t \in Thread |-> "idle"]

Live == {c \in Client : place[c] # "none"}
Idle == {c \in Client : place[c] = "idle"}

GoTo(t, p) == at' = [at EXCEPT ![t] = p]

\* Mutants: a client is not put back; close() forgets the channel; create tries
\* again instead of throwing.
OnlyAfterSuccess(t) == UNCHANGED place
CloseSessionOnly(c) == session' = session \ {c} /\ UNCHANGED channel
AskAgain(t) == GoTo(t, "borrow")

\* SftpClient.close: a client whose channel is gone already keeps its session.
Close(c) ==
  IF c \in channel
  THEN channel' = channel \ {c} /\ session' = session \ {c}
  ELSE UNCHANGED <<channel, session>>

Ask(t) ==
  /\ at[t] \in {"idle", "threw"}
  /\ GoTo(t, "borrow")
  /\ UNCHANGED <<config, place, session, channel, mine, channelLost>>

\* external: borrowObject with an idle client ...
BorrowIdle(t, c) ==
  /\ at[t] = "borrow" /\ c \in Idle
  /\ validates => c \in channel
  /\ place' = [place EXCEPT ![c] = "used"]
  /\ mine' = [mine EXCEPT ![t] = c]
  /\ GoTo(t, "callback")
  /\ UNCHANGED <<config, session, channel, channelLost>>

\* ... which it destroys when isValid() says no ...
DestroyInvalid(t, c) ==
  /\ at[t] = "borrow" /\ c \in Idle
  /\ validates /\ c \notin channel
  /\ place' = [place EXCEPT ![c] = "none"]
  /\ Close(c)
  /\ UNCHANGED <<config, mine, at, channelLost>>

\* ... or with a new one; create() opens the session, then the channel ...
ConnectSession(t, c) ==
  /\ at[t] = "borrow" /\ Idle = {}
  /\ Cardinality(Live) < maxTotal
  /\ place[c] = "none" /\ \A u \in Thread : mine[u] # c
  /\ place' = [place EXCEPT ![c] = "new"]
  /\ session' = session \cup {c}
  /\ channelLost' = channelLost \ {c}
  /\ mine' = [mine EXCEPT ![t] = c]
  /\ GoTo(t, "connect")
  /\ UNCHANGED <<config, channel>>

OpenChannel(t) ==
  /\ at[t] = "connect"
  /\ mine[t] \in session
  /\ channel' = channel \cup {mine[t]}
  /\ place' = [place EXCEPT ![mine[t]] = "used"]
  /\ GoTo(t, "callback")
  /\ UNCHANGED <<config, session, mine, channelLost>>

CloseSession(c) ==
  /\ session' = session \ {c}
  /\ UNCHANGED channel

Rethrow(t) == GoTo(t, "threw")

\* openChannel or connect throws JSchException; so may the session's connect.
CreateFails(t) ==
  \/ /\ at[t] = "connect"
     /\ CloseSession(mine[t])
     /\ place' = [place EXCEPT ![mine[t]] = "none"]
     /\ mine' = [mine EXCEPT ![t] = NoClient]
     /\ Rethrow(t)
     /\ UNCHANGED <<config, channelLost>>
  \/ /\ at[t] = "borrow" /\ Idle = {} /\ Cardinality(Live) < maxTotal
     /\ GoTo(t, "threw")
     /\ UNCHANGED <<config, place, session, channel, mine, channelLost>>

\* ... or, after 5000 milliseconds without one, with NoSuchElementException.
TimeOut(t) ==
  /\ at[t] = "borrow" /\ Idle = {} /\ Cardinality(Live) >= maxTotal
  /\ GoTo(t, "threw")
  /\ UNCHANGED <<config, place, session, channel, mine, channelLost>>

\* The callback returns or throws.
CallbackEnds(t) ==
  /\ at[t] = "callback"
  /\ GoTo(t, "return")
  /\ UNCHANGED <<config, place, session, channel, mine, channelLost>>

\* returnObject; a client that the pool has taken away is not put back.
PutBack(t) ==
  place' = [place EXCEPT ![mine[t]] = IF @ = "used" THEN "idle" ELSE @]

Return(t) ==
  /\ at[t] = "return"
  /\ PutBack(t)
  /\ mine' = [mine EXCEPT ![t] = NoClient]
  /\ GoTo(t, "idle")
  /\ UNCHANGED <<config, session, channel, channelLost>>

\* external: AbandonedConfig, a client that is used for too long is destroyed.
Abandon(c) ==
  /\ place[c] = "used"
  /\ place' = [place EXCEPT ![c] = "none"]
  /\ Close(c)
  /\ UNCHANGED <<config, mine, at, channelLost>>

\* The server closes the channel, or the connection breaks with all that is in it.
LoseChannel(c) ==
  /\ c \in channel
  /\ channel' = channel \ {c} /\ channelLost' = channelLost \cup {c}
  /\ UNCHANGED <<config, place, session, mine, at>>

LoseSession(c) ==
  /\ c \in session
  /\ session' = session \ {c} /\ channel' = channel \ {c}
  /\ UNCHANGED <<config, place, mine, at, channelLost>>

Call(t) ==
  \/ \E c \in Client : BorrowIdle(t, c) \/ DestroyInvalid(t, c) \/ ConnectSession(t, c)
  \/ OpenChannel(t) \/ CreateFails(t) \/ TimeOut(t) \/ CallbackEnds(t) \/ Return(t)

\* What ends the wait for a client.
Served(t) == TimeOut(t) \/ \E c \in Client : BorrowIdle(t, c) \/ ConnectSession(t, c)

Next ==
  \/ \E t \in Thread : Ask(t) \/ Call(t)
  \/ \E c \in Client : Abandon(c) \/ LoseChannel(c) \/ LoseSession(c)

Spec == Init /\ [][Next]_poolVars

\* Callbacks end, and the 5 seconds are over at some time however often others take
\* the clients that come back: that is the strong fairness.
FairSpec == Spec /\ \A t \in Thread : WF_poolVars(Call(t)) /\ SF_poolVars(Served(t))
-----------------------------------------------------------------------------
\* Type invariant; no channel is open without its session.
TypeOK ==
  /\ validates \in BOOLEAN /\ maxTotal \in 1..MaxTotal
  /\ place \in [Client -> {"none", "new", "idle", "used"}]
  /\ channel \subseteq session /\ session \subseteq Client /\ channelLost \subseteq Client
  /\ mine \in [Thread -> Client \cup {NoClient}] /\ at \in [Thread -> Points]
  /\ Cardinality(Live) <= maxTotal

\* A client that is out of the pool is somebody's, whatever the callbacks did: no
\* failure drains the pool, and no two threads have the same client.
EveryClientReturns ==
  /\ \A c \in Client : place[c] \in {"used", "new"} =>
       Cardinality({t \in Thread : mine[t] = c}) = 1
  /\ \A c \in Idle, t \in Thread : mine[t] # c

\* A session that is open belongs to a client of the pool.  The exception is
\* close(), which does nothing when the channel is gone before the session.
SessionsAccountedFor ==
  \A c \in session : place[c] # "none" \/ c \in channelLost

\* A thread that asks for a client gets one, or an exception.
AskingEnds ==
  \A t \in Thread : at[t] = "borrow" ~> at[t] \in {"callback", "threw"}
=============================================================================
