------------------------ MODULE LeaderElectionProofs ------------------------
(* Theorems about LeaderElection for any number of candidates.             *)
EXTENDS LeaderElection, TLAPS

\* Sequential nodes are told apart by their numbers, and every list of children
\* was read when its nodes were the only ones that had been made.
Numbering ==
  /\ \A c \in live : node[c] > 0
  /\ \A c, d \in live : node[c] = node[d] => c = d
  /\ \A c \in Candidate : \A n \in list[c] : 0 < n /\ n < next

\* A node that is missing from a list is younger than all of the list.
ListIsPrefix ==
  \A c \in reading : \A d \in live :
    node[d] \in list[c] \/ \A n \in list[c] : n < node[d]

\* Only a candidate that has assigned thisNode leads.
LeaderHasNode ==
  \A c \in Candidate :
    /\ thisNode[c] # 0 => pc[c] = "ready"
    /\ role[c] = "ROLE_LEADER" => pc[c] = "ready"

IInv == TypeOK /\ Numbering /\ ListIsPrefix /\ LeaderHasNode /\ LeaderIsFirst

\* The initial states satisfy the invariant.
LEMMA InitInvariant == Init => IInv
  BY DEF Init, IInv, TypeOK, Numbering, ListIsPrefix, LeaderHasNode, LeaderIsFirst, PCs

\* Every step keeps the types; a candidate that makes its node has not assigned
\* thisNode yet.
LEMMA TypeStep ==
  ASSUME TypeOK, LeaderHasNode, [Next]_vars
  PROVE  TypeOK'
  <1> USE DEF TypeOK, PCs, zookeeper, client
  <1>1. ASSUME NEW c \in Candidate, Subscribe(c) PROVE TypeOK'
    BY <1>1 DEF Subscribe, Goto
  <1>2. ASSUME NEW c \in Candidate, ExistsLeader(c) PROVE TypeOK'
    BY <1>2 DEF ExistsLeader, Goto
  <1>3. ASSUME NEW c \in Candidate, CreatePath(c) PROVE TypeOK'
    BY <1>3 DEF CreatePath, Goto, Notify
  <1>4. ASSUME NEW c \in Candidate, CreateNode(c) PROVE TypeOK'
    <2>1. /\ pc' = [pc EXCEPT ![c] = "created"]
          /\ node' = [node EXCEPT ![c] = next]
          /\ next' = next + 1
          /\ live' = live \cup {c}
          /\ event' = event \cup watch /\ watch' = {}
          /\ UNCHANGED <<path, session, subscribed, reading, list, thisNode, role, queued>>
      BY <1>4 DEF CreateNode, Goto, Notify
    <2>2. \A d \in Candidate : node'[d] < next' /\ thisNode'[d] \in {0, node'[d]}
      BY <1>4, <2>1 DEF LeaderHasNode, CreateNode, Goto
    <2> QED
      BY <2>1, <2>2
  <1>5. ASSUME NEW c \in Candidate, AssignThisNode(c) PROVE TypeOK'
    <2>1. /\ UNCHANGED <<zookeeper, session, client, role>>
          /\ pc' = [pc EXCEPT ![c] = "ready"]
          /\ thisNode' = [thisNode EXCEPT ![c] = node[c]]
          /\ queued' \in {queued, queued \cup {c}}
      BY <1>5 DEF AssignThisNode, Goto, CreatedNode
    <2> QED
      BY <2>1
  <1>6. ASSUME NEW c \in Candidate, Destroy(c) PROVE TypeOK'
    BY <1>6 DEF Destroy
  <1>7. ASSUME NEW c \in Candidate, ReadChildren(c) PROVE TypeOK'
    BY <1>7 DEF ReadChildren, Rewatch
  <1>8. ASSUME NEW c \in Candidate, SelectLeader(c) PROVE TypeOK'
    BY <1>8 DEF SelectLeader
  <1>9. ASSUME NEW c \in Candidate, Expire(c) \/ Crash(c) PROVE TypeOK'
    BY <1>9 DEF Expire, Crash, EndSession
  <1>10. ASSUME NEW c \in Candidate, Reconnect(c) PROVE TypeOK'
    BY <1>10 DEF Reconnect
  <1>11. CASE UNCHANGED vars
    BY <1>11 DEF vars
  <1> QED
    BY <1>1, <1>2, <1>3, <1>4, <1>5, <1>6, <1>7, <1>8, <1>9, <1>10, <1>11
    DEF Next, InitStep

-----------------------------------------------------------------------------
(* The step that makes a node and the step that uses a list are the two    *)
(* that could break the order; every other step only removes candidates.   *)

\* A new node is younger than every node there is and every node ever read.
LEMMA CreateNodeKeeps ==
  ASSUME IInv, TypeOK', NEW c \in Candidate, CreateNode(c)
  PROVE  IInv'
  <1> USE DEF IInv, TypeOK
  <1>1. /\ node'[c] = next /\ next' = next + 1 /\ live' = live \cup {c}
        /\ next > 0 /\ role[c] # "ROLE_LEADER" /\ thisNode[c] = 0
    BY DEF CreateNode, Goto, LeaderHasNode
  <1>2. \A d \in Candidate \ {c} : node'[d] = node[d] /\ node[d] < next
    BY DEF CreateNode
  <1>3. /\ UNCHANGED <<list, reading, role, thisNode>>
        /\ \A d \in Candidate \ {c} : pc'[d] = pc[d]
    BY DEF CreateNode, Goto
  <1>4. Numbering'
    BY <1>1, <1>2, <1>3 DEF Numbering
  <1>5. ListIsPrefix'
    BY <1>1, <1>2, <1>3 DEF ListIsPrefix, Numbering
  <1>6. LeaderHasNode'
    BY <1>1, <1>3 DEF LeaderHasNode
  <1>7. LeaderIsFirst'
    BY <1>1, <1>2, <1>3 DEF LeaderIsFirst, First, Smaller
  <1> QED
    BY <1>4, <1>5, <1>6, <1>7

\* A live candidate whose node is the smallest of an outdated list is still the
\* first: every node that is missing from the list is younger.
LEMMA SelectLeaderKeeps ==
  ASSUME IInv, TypeOK', NEW c \in Candidate, SelectLeader(c)
  PROVE  IInv'
  <1> USE DEF IInv, TypeOK
  <1>1. /\ UNCHANGED <<zookeeper, thisNode, pc>>
        /\ c \in reading /\ reading' = reading \ {c}
        /\ list'[c] = {}
        /\ \A d \in Candidate \ {c} : list'[d] = list[d] /\ role'[d] = role[d]
    BY DEF SelectLeader
  <1>2. role'[c] = "ROLE_LEADER" => role[c] = "ROLE_LEADER" \/ IsMinNode(c)
    BY DEF SelectLeader
  <1>3. Numbering' /\ ListIsPrefix'
    BY <1>1 DEF Numbering, ListIsPrefix, zookeeper
  <1>4. IsMinNode(c) => thisNode[c] # 0 /\ thisNode[c] = node[c]
    BY DEF IsMinNode, Numbering
  <1>5. LeaderHasNode'
    BY <1>1, <1>2, <1>4 DEF LeaderHasNode
  <1>6. ASSUME c \in live, IsMinNode(c)
        PROVE  \A d \in live : node[c] <= node[d]
    BY <1>1, <1>4, <1>6 DEF IsMinNode, ListIsPrefix
  <1>7. LeaderIsFirst'
    BY <1>1, <1>2, <1>6 DEF LeaderIsFirst, First, Smaller, zookeeper
  <1> QED
    BY <1>3, <1>5, <1>7

\* Every other step leaves numbers, lists and roles alone, or reads a new list.
LEMMA InvariantStep == IInv /\ [Next]_vars => IInv'
  <1> SUFFICES ASSUME IInv, [Next]_vars PROVE IInv'
    OBVIOUS
  <1>1. TypeOK'
    BY TypeStep DEF IInv
  <1>2. ASSUME NEW c \in Candidate,
               Subscribe(c) \/ ExistsLeader(c) \/ CreatePath(c) \/ Destroy(c) \/ Reconnect(c)
        PROVE  IInv'
    <2>1. UNCHANGED <<next, node, live, reading, list, thisNode, role>>
      BY <1>2 DEF Subscribe, ExistsLeader, CreatePath, Destroy, Reconnect, zookeeper, client
    <2>2. \A d \in Candidate : pc[d] = "ready" => pc'[d] = "ready"
      BY <1>2 DEF Subscribe, ExistsLeader, CreatePath, Destroy, Reconnect, Goto, IInv, TypeOK
    <2> QED
      BY <1>1, <2>1, <2>2 DEF IInv, Numbering, ListIsPrefix, LeaderHasNode, LeaderIsFirst,
                              First, Smaller
  <1>3. ASSUME NEW c \in Candidate, CreateNode(c) PROVE IInv'
    BY <1>1, <1>3, CreateNodeKeeps
  <1>4. ASSUME NEW c \in Candidate, AssignThisNode(c) PROVE IInv'
    <2>1. UNCHANGED <<next, node, live, reading, list, role>>
      BY <1>4 DEF AssignThisNode, zookeeper, client
    <2>2. /\ pc'[c] = "ready"
          /\ \A d \in Candidate \ {c} : pc'[d] = pc[d] /\ thisNode'[d] = thisNode[d]
      BY <1>4 DEF AssignThisNode, Goto, IInv, TypeOK
    <2> QED
      BY <1>1, <2>1, <2>2 DEF IInv, Numbering, ListIsPrefix, LeaderHasNode, LeaderIsFirst,
                              First, Smaller
  <1>5. ASSUME NEW c \in Candidate, ReadChildren(c) PROVE IInv'
    <2>1. UNCHANGED <<next, node, live, pc, thisNode, role>>
      BY <1>5 DEF ReadChildren, zookeeper
    <2>2. /\ reading' = reading \cup {c}
          /\ list'[c] = {node[d] : d \in live}
          /\ \A d \in Candidate \ {c} : list'[d] = list[d]
      BY <1>5 DEF ReadChildren, IInv, TypeOK
    <2>3. Numbering'
      BY <2>1, <2>2 DEF IInv, TypeOK, Numbering
    <2>4. ListIsPrefix'
      BY <2>1, <2>2 DEF IInv, TypeOK, ListIsPrefix
    <2> QED
      BY <1>1, <2>1, <2>3, <2>4 DEF IInv, LeaderHasNode, LeaderIsFirst, First, Smaller
  <1>6. ASSUME NEW c \in Candidate, SelectLeader(c) PROVE IInv'
    BY <1>1, <1>6, SelectLeaderKeeps
  <1>7. ASSUME NEW c \in Candidate, Expire(c) \/ Crash(c) PROVE IInv'
    <2>1. /\ UNCHANGED <<next, node, reading, list, pc, thisNode, role>>
          /\ live' \subseteq live
      BY <1>7 DEF Expire, Crash, EndSession
    <2> QED
      BY <1>1, <2>1 DEF IInv, Numbering, ListIsPrefix, LeaderHasNode, LeaderIsFirst,
                        First, Smaller
  <1>8. CASE UNCHANGED vars
    BY <1>1, <1>8 DEF vars, zookeeper, client, IInv, Numbering, ListIsPrefix, LeaderHasNode,
                      LeaderIsFirst, First, Smaller
  <1> QED
    BY <1>2, <1>3, <1>4, <1>5, <1>6, <1>7, <1>8 DEF Next, InitStep

\* LeaderElection is type correct: in particular thisNode is null or the
\* candidate's own node.
THEOREM TypeCorrect == Spec => []TypeOK
<1>1. IInv => TypeOK
  BY DEF IInv
<1> QED
  BY <1>1, InitInvariant, InvariantStep, PTL DEF Spec

\* Among the candidates whose node still exists at most one has the role of
\* leader, and it is the one whose node is the oldest.
THEOREM OneLiveLeaderHolds == Spec => [](OneLiveLeader /\ LeaderIsFirst)
<1>1. IInv => OneLiveLeader
  <2> SUFFICES ASSUME IInv, NEW c \in live, NEW d \in live,
                      role[c] = "ROLE_LEADER", role[d] = "ROLE_LEADER"
               PROVE  c = d
    BY DEF OneLiveLeader
  <2>1. c \in Candidate /\ d \in Candidate /\ node[c] \in Nat /\ node[d] \in Nat
    BY DEF IInv, TypeOK
  <2>2. ~ (node[d] < node[c]) /\ ~ (node[c] < node[d])
    BY <2>1 DEF IInv, LeaderIsFirst, First, Smaller
  <2> QED
    BY <2>1, <2>2 DEF IInv, Numbering
<1>2. IInv => LeaderIsFirst
  BY DEF IInv
<1> QED
  BY <1>1, <1>2, InitInvariant, InvariantStep, PTL DEF Spec

\* A leader with a node has the oldest of the nodes there are: no listener takes the
\* role because of a list that is out of date.
THEOREM LeaderIsFirstHolds == Spec => []LeaderIsFirst
<1>1. IInv => LeaderIsFirst
  BY DEF IInv
<1> QED
  BY <1>1, InitInvariant, InvariantStep, PTL DEF Spec
=============================================================================
