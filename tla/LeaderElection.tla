--------------------------- MODULE LeaderElection ---------------------------
(***************************************************************************)
(* org.jsirenia.leader.LeaderElection over ZooKeeper and ZkClient: every   *)
(* candidate makes an ephemeral sequential node below /leader, and its     *)
(* child listener compares the smallest node with its own.                 *)
(*                                                                         *)
(* init runs in the candidate's own thread, the listener in the event      *)
(* thread of its ZkClient.  A watch is used up by one change; the event    *)
(* thread sets it again when it reads the children, and what it has read   *)
(* may be out of date when the listener is called.                         *)
(***************************************************************************)
EXTENDS Naturals, FiniteSets

CONSTANT Candidate

VARIABLES
  path,        \* /leader exists
  next,        \* the number of the next sequential node
  node,        \* [Candidate -> number of its node, 0 before it has made one]
  live,        \* candidates whose node exists
  session,     \* [Candidate -> "connected", "expired" or "dead"]
  subscribed,  \* candidates whose listener is subscribed
  watch,       \* candidates with a watch in the ZooKeeper server
  event,       \* candidates with an event in their queue
  reading,     \* candidates whose event thread is between reading and listener
  list,        \* [Candidate -> the nodes its event thread has read]
  pc,          \* [Candidate -> where init is]
  thisNode,    \* [Candidate -> Nat, 0 is null]
  role,        \* [Candidate -> role]
  queued       \* history: candidates that finished init behind another one

zookeeper == <<path, next, node, live>>
client == <<subscribed, watch, event, reading, list>>
vars == <<zookeeper, session, client, pc, thisNode, role, queued>>

PCs == {"new", "subscribed", "create", "path", "created", "ready"}

Init ==
  /\ path \in BOOLEAN
  /\ next = 1
  /\ node = [c \in Candidate |-> 0]
  /\ live = {}
  /\ session = [c \in Candidate |-> "connected"]
  /\ subscribed = {} /\ watch = {} /\ event = {} /\ reading = {}
  /\ list = [c \in Candidate |-> {}]
  /\ pc = [c \in Candidate |-> "new"]
  /\ thisNode = [c \in Candidate |-> 0]
  /\ role = [c \in Candidate |-> "ROLE_FLOWER"]
  /\ queued = {}

Connected(c) == session[c] = "connected"
Smaller(d, c) == d \in live /\ node[d] < node[c]
First(c) == c \in live /\ \A d \in Candidate : ~ Smaller(d, c)

\* The children of /leader, or /leader itself, have changed.
Notify == event' = event \cup watch /\ watch' = {}

Goto(c, from, to) ==
  /\ Connected(c)
  /\ pc[c] = from
  /\ pc' = [pc EXCEPT ![c] = to]
-----------------------------------------------------------------------------
(* init                                                                    *)

Subscribe(c) ==
  /\ Goto(c, "new", "subscribed")
  /\ subscribed' = subscribed \cup {c}
  /\ watch' = watch \cup {c}
  /\ UNCHANGED <<zookeeper, session, event, reading, list, thisNode, role, queued>>

ExistsLeader(c) ==
  /\ Goto(c, "subscribed", IF path THEN "create" ELSE "path")
  /\ UNCHANGED <<zookeeper, session, client, thisNode, role, queued>>

\* createPersistent(path, true) does not mind that somebody else was first.
CreatePath(c) ==
  /\ Goto(c, "path", "create")
  /\ path' = TRUE
  /\ IF path THEN UNCHANGED <<watch, event>> ELSE Notify
  /\ UNCHANGED <<next, node, live, session, subscribed, reading, list, thisNode, role, queued>>

CreateNode(c) ==
  /\ Goto(c, "create", "created")
  /\ node' = [node EXCEPT ![c] = next]
  /\ next' = next + 1
  /\ live' = live \cup {c}
  /\ Notify
  /\ UNCHANGED <<path, session, subscribed, reading, list, thisNode, role, queued>>

\* Mutants: the newest node is taken for the candidate's own; the path is not cut
\* off, so that thisNode is the name of no child.
NewestNode(c) == next - 1
WholePath(c) == 0

CreatedNode(c) == node[c]

\* thisNode is known to the listener only now.
AssignThisNode(c) ==
  /\ Goto(c, "created", "ready")
  /\ thisNode' = [thisNode EXCEPT ![c] = CreatedNode(c)]
  /\ queued' = IF \E d \in Candidate : Smaller(d, c) THEN queued \cup {c} ELSE queued
  /\ UNCHANGED <<zookeeper, session, client, role>>

\* destroy only unsubscribes: the node and the role stay as they are.
Destroy(c) ==
  /\ Connected(c) /\ pc[c] = "ready" /\ c \in subscribed
  /\ subscribed' = subscribed \ {c}
  /\ UNCHANGED <<zookeeper, session, watch, event, reading, list, pc, thisNode, role, queued>>
-----------------------------------------------------------------------------
(* The event thread of ZkClient and the listener                           *)

Rewatch(c) == watch' = watch \cup {c}

ReadChildren(c) ==
  /\ Connected(c) /\ c \in event /\ c \in subscribed /\ c \notin reading
  /\ event' = event \ {c}
  /\ Rewatch(c)
  /\ reading' = reading \cup {c}
  /\ list' = [list EXCEPT ![c] = {node[d] : d \in live}]
  /\ UNCHANGED <<zookeeper, session, subscribed, pc, thisNode, role, queued>>

\* Mutant: the list is not sorted, any of its nodes may come first.
AnyNode(c) == thisNode[c] \in list[c]

IsMinNode(c) ==
  thisNode[c] \in list[c] /\ \A n \in list[c] : thisNode[c] <= n

\* Whoever has become leader stays it, unless no node is left at all.
SelectLeader(c) ==
  /\ c \in reading /\ session[c] # "dead"
  /\ reading' = reading \ {c}
  /\ list' = [list EXCEPT ![c] = {}]
  /\ role' = [role EXCEPT ![c] =
                IF list[c] = {} THEN "ROLE_FLOWER"
                ELSE IF IsMinNode(c) THEN "ROLE_LEADER" ELSE @]
  /\ UNCHANGED <<zookeeper, session, subscribed, watch, event, pc, thisNode, queued>>
-----------------------------------------------------------------------------
(* Sessions                                                                *)

\* The node of c disappears with its session, and so does its watch.
EndSession(c, how) ==
  /\ session' = [session EXCEPT ![c] = how]
  /\ live' = live \ {c}
  /\ event' = IF c \in live THEN event \cup (watch \ {c}) ELSE event
  /\ watch' = IF c \in live THEN {} ELSE watch \ {c}
  /\ UNCHANGED <<path, next, node, subscribed, reading, list, pc, thisNode, role, queued>>

\* The server does not hear from c for too long; c does not know it yet.
Expire(c) == Connected(c) /\ EndSession(c, "expired")

\* The process of c dies.
Crash(c) == session[c] # "dead" /\ EndSession(c, "dead")

\* ZkClient opens a new session and has every listener read again; nobody makes
\* the node again.
Reconnect(c) ==
  /\ session[c] = "expired"
  /\ session' = [session EXCEPT ![c] = "connected"]
  /\ event' = IF c \in subscribed THEN event \cup {c} ELSE event
  /\ UNCHANGED <<zookeeper, subscribed, watch, reading, list, pc, thisNode, role, queued>>

InitStep(c) ==
  \/ Subscribe(c) \/ ExistsLeader(c) \/ CreatePath(c) \/ CreateNode(c)
  \/ AssignThisNode(c)

Next ==
  \E c \in Candidate :
    \/ InitStep(c) \/ Destroy(c)
    \/ ReadChildren(c) \/ SelectLeader(c)
    \/ Expire(c) \/ Crash(c) \/ Reconnect(c)

Spec == Init /\ [][Next]_vars

\* The event thread of a connected client works through its queue, and the
\* thread that runs init goes on.
FairSpec ==
  /\ Spec
  /\ \A c \in Candidate :
       /\ WF_vars(ReadChildren(c)) /\ WF_vars(SelectLeader(c))
       /\ WF_vars(InitStep(c))
-----------------------------------------------------------------------------
TypeOK ==
  /\ path \in BOOLEAN
  /\ next \in Nat \ {0}
  /\ node \in [Candidate -> Nat]
  /\ live \subseteq Candidate
  /\ session \in [Candidate -> {"connected", "expired", "dead"}]
  /\ subscribed \subseteq Candidate /\ watch \subseteq Candidate
  /\ event \subseteq Candidate /\ reading \subseteq Candidate
  /\ list \in [Candidate -> SUBSET Nat]
  /\ pc \in [Candidate -> PCs]
  /\ thisNode \in [Candidate -> Nat]
  /\ \A c \in Candidate : node[c] < next /\ thisNode[c] \in {0, node[c]}
  /\ role \in [Candidate -> {"ROLE_LEADER", "ROLE_FLOWER"}]
  /\ queued \subseteq Candidate

\* Of the candidates whose node still exists no two think they lead, however
\* late their event threads look at what they have read.
OneLiveLeader ==
  \A c, d \in live :
    role[c] = "ROLE_LEADER" /\ role[d] = "ROLE_LEADER" => c = d

\* Why this holds: numbers only grow, so a live node that was the smallest when
\* the children were read is the smallest as long as it lives.
LeaderIsFirst == \A c \in live : role[c] = "ROLE_LEADER" => First(c)

\* A candidate that finished init behind another one leads when those before it
\* are gone.
SuccessorTakesOver ==
  \A c \in Candidate :
    (c \in queued /\ First(c) /\ c \in subscribed) ~>
      (role[c] = "ROLE_LEADER" \/ c \notin live \/ c \notin subscribed)

\* "在一小段时间内，会有主节点不存在的情况": that there is no leader lasts only for
\* a while; the first candidate that is set up becomes one.
LeaderlessOnlyForAWhile ==
  \A c \in Candidate :
    (pc[c] = "ready" /\ First(c) /\ c \in subscribed) ~>
      (role[c] = "ROLE_LEADER" \/ c \notin live \/ c \notin subscribed)
=============================================================================
