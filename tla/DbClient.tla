------------------------------ MODULE DbClient ------------------------------
(***************************************************************************)
(* org.jsirenia.jdbc.DbClient in one thread: withConn, withTx and the      *)
(* statements, nested in each other's callbacks, over the thread's stack   *)
(* of connections (a ThreadLocal, so threads meet only in the DataSource). *)
(*                                                                         *)
(* frames is the Java stack: the calls of withConn and withTxInternal that *)
(* have not ended.  Each step is a callback's next deed or the end of the  *)
(* innermost call.  Every call into JDBC can throw.                        *)
(***************************************************************************)
EXTENDS Naturals, FiniteSets, SequencesExt

CONSTANTS
  Conn,        \* the connections of the DataSource
  NoConn,      \* null
  MaxDepth,    \* bound: calls within each other
  MaxUpdates   \* bound: rows changed within one outermost call

ASSUME DbAssumption ==
  /\ NoConn \notin Conn
  /\ MaxDepth \in Nat \ {0} /\ MaxUpdates \in Nat

VARIABLES
  frames,     \* calls that run, innermost last
  connStack,  \* connStackHolder
  flow,       \* the innermost callback runs, or is left by what was thrown
  inUse,      \* connections the DataSource has handed out and not got back
  leaked,     \* of these, those no call can close any more
  updates,    \* rows changed so far, numbered, within this outermost call
  work,       \* [Conn -> those that are not committed]
  committed,  \* those that are
  outcome,    \* how the outermost call ended
  caught,     \* history: a callback has caught something
  nested,     \* history: a call within another callback has returned normally
  doubtful    \* history: a commit, rollback or close failed, or an Error passed

database == <<work, committed>>
history == <<caught, nested, doubtful>>
pool == <<inUse, leaked>>
call == <<updates, outcome, history>>
vars == <<frames, connStack, flow, pool, database, call>>

Update == 1..MaxUpdates
\* withConn and withTx run the caller's code, "statement" and "finish" a lambda
\* of DbClient itself: one statement to execute, and nothing left but to return.
Kinds == {"withConn", "withTx", "statement", "finish"}
Frame == [kind : Kinds, conn : Conn]

Init ==
  /\ frames = <<>> /\ connStack = <<>>
  /\ flow = "callback"
  /\ inUse = {} /\ leaked = {}
  /\ updates = 0
  /\ work = [c \in Conn |-> {}] /\ committed = {}
  /\ outcome = "none"
  /\ caught = FALSE /\ nested = FALSE /\ doubtful = FALSE

Top == Last(frames)
Idle == frames = <<>>
HasConn == connStack # <<>>
InCallback == flow = "callback" /\ ~ Idle /\ Top.kind \in {"withConn", "withTx"}
MayCall == Idle \/ InCallback

\* An outermost call begins.
Begin ==
  IF Idle
  THEN /\ updates' = 0 /\ committed' = {} /\ outcome' = "none"
       /\ caught' = FALSE /\ nested' = FALSE /\ doubtful' = FALSE
  ELSE UNCHANGED <<committed, call>>

\* A call ends; its caller's callback goes on, or is left by what was thrown.
End(rest, what) ==
  /\ frames' = rest
  /\ flow' = IF rest = <<>> THEN "callback" ELSE what
  /\ outcome' = IF rest = <<>> THEN what ELSE outcome
  /\ nested' = (nested \/ (what = "callback" /\ rest # <<>> /\ Last(rest).kind # "finish"))
  /\ UNCHANGED updates
-----------------------------------------------------------------------------
(* Connections                                                             *)

\* Mutant: push comes before conn = openConn().
PushedNull(c) == Append(connStack, NoConn)

Pushed(c) == Append(connStack, c)

\* kinds are the frames the call starts with, the innermost last.
Open(kinds) ==
  \E c \in Conn \ inUse :
    /\ inUse' = inUse \cup {c}
    /\ connStack' = Pushed(c)
    /\ frames' = frames \o [i \in DOMAIN kinds |-> [kind |-> kinds[i], conn |-> c]]
    /\ Begin
    /\ UNCHANGED <<flow, leaked, work>>

\* finally: the connection is popped only if it is on top.
Pop(c) == IF connStack # <<>> /\ Last(connStack) = c THEN Front(connStack) ELSE connStack

\* No connection is got, or one that cannot be configured: conn is still null
\* in withConn, so nothing is rolled back, popped or closed.
OpenFails ==
  /\ \/ UNCHANGED pool
     \/ \E c \in Conn \ inUse : inUse' = inUse \cup {c} /\ leaked' = leaked \cup {c}
  /\ connStack' = Pop(NoConn)
  /\ flow' = IF Idle THEN "callback" ELSE "exception"
  /\ UNCHANGED <<frames, database, call>>

\* Mutant: commit is called in finally.
CommitInFinally(c) == committed' = committed \cup work[c] /\ work' = [work EXCEPT ![c] = {}]

Commit(c) ==
  /\ committed' = committed \cup work[c]
  /\ work' = [work EXCEPT ![c] = {}]

Rollback(c) ==
  /\ work' = [work EXCEPT ![c] = {}]
  /\ UNCHANGED committed

\* What becomes of open work when a commit is lost or its connection closed is
\* the driver's choice.
Either(c) == Commit(c) \/ Rollback(c)

Close(c) ==
  /\ inUse' = inUse \ {c}
  /\ UNCHANGED <<leaked, doubtful>>

CloseFails(c) ==
  /\ leaked' = leaked \cup {c}
  /\ doubtful' = TRUE
  /\ UNCHANGED inUse

\* Nothing more than close is left to do, and that may fail as well.
CommitFails(c) ==
  /\ Either(c)
  /\ doubtful' = TRUE
  /\ \/ inUse' = inUse \ {c} /\ UNCHANGED leaked
     \/ leaked' = leaked \cup {c} /\ UNCHANGED inUse

\* Nor is anything else done for an Error.
RollbackFails(c) == CommitFails(c)
-----------------------------------------------------------------------------
(* Calls                                                                   *)

WithConn ==
  /\ MayCall /\ Len(frames) < MaxDepth
  /\ Open(<<"withConn">>) \/ OpenFails

\* withTx joins the connection on top of the stack, whoever opened it.
WithTx ==
  /\ MayCall /\ Len(frames) < MaxDepth
  /\ IF HasConn
     THEN /\ frames' = Append(frames, [kind |-> "withTx", conn |-> Last(connStack)])
          /\ UNCHANGED <<connStack, flow, pool, database, call>>
     ELSE Open(<<"finish", "withTx">>) \/ OpenFails

\* A statement outside of every call is given a connection of its own.
Statement ==
  /\ MayCall /\ ~ HasConn
  /\ Open(<<"statement">>) \/ OpenFails

\* The statement's lambda has done what it has to.
Done == IF Top.kind = "statement" THEN [frames EXCEPT ![Len(frames)].kind = "finish"] ELSE frames

\* It goes to the connection on top of the stack.  It may throw, a query or an
\* update without effect, an insert also after its row is there.
Execute ==
  /\ flow = "callback" /\ HasConn /\ ~ Idle /\ Top.kind # "finish"
  /\ \/ /\ updates < MaxUpdates /\ Last(connStack) \in inUse
        /\ updates' = updates + 1
        /\ work' = [work EXCEPT ![Last(connStack)] = @ \cup {updates'}]
        /\ \/ frames' = Done /\ UNCHANGED flow
           \/ flow' = "exception" /\ UNCHANGED frames
     \/ flow' = "exception" /\ UNCHANGED <<frames, updates, work>>
  /\ UNCHANGED <<connStack, pool, committed, outcome, history>>

\* The callback throws an Exception or an Error, or catches either.
Throw ==
  /\ InCallback
  /\ flow' \in {"exception", "error"}
  /\ UNCHANGED <<frames, connStack, pool, database, call>>

Catch ==
  /\ flow # "callback" /\ Top.kind \in {"withConn", "withTx"}
  /\ flow' = "callback"
  /\ caught' = TRUE
  /\ UNCHANGED <<frames, connStack, pool, database, updates, outcome, nested, doubtful>>
-----------------------------------------------------------------------------
(* The end of withTxInternal                                               *)

TxReturns ==
  /\ InCallback /\ Top.kind = "withTx"
  /\ \/ /\ Commit(Top.conn)
        /\ End(Front(frames), "callback")
        /\ UNCHANGED doubtful
     \/ /\ Either(Top.conn) \/ UNCHANGED database
        /\ End(Front(frames), "exception")
        /\ doubtful' = TRUE
  /\ UNCHANGED <<connStack, pool, caught>>

\* catch (Exception e) does not catch an Error.
TxThrows ==
  /\ flow # "callback" /\ Top.kind = "withTx"
  /\ \/ flow = "exception" /\ Rollback(Top.conn) /\ UNCHANGED doubtful
     \/ UNCHANGED database /\ doubtful' = TRUE
  /\ End(Front(frames), flow)
  /\ UNCHANGED <<connStack, pool, caught>>
-----------------------------------------------------------------------------
(* The end of withConn                                                     *)

\* close is called on every way out; it may throw.
ConnReturns ==
  /\ flow = "callback" /\ ~ Idle /\ Top.kind \in {"withConn", "finish"}
  /\ connStack' = Pop(Top.conn)
  /\ \/ Commit(Top.conn) /\ Close(Top.conn) /\ End(Front(frames), "callback")
     \/ Commit(Top.conn) /\ CloseFails(Top.conn) /\ End(Front(frames), "exception")
     \/ CommitFails(Top.conn) /\ End(Front(frames), "exception")
  /\ UNCHANGED caught

ConnThrows ==
  /\ flow # "callback" /\ Top.kind # "withTx"
  /\ connStack' = Pop(Top.conn)
  /\ \/ flow = "exception" /\ Rollback(Top.conn) /\ Close(Top.conn)
     \/ flow = "exception" /\ Rollback(Top.conn) /\ CloseFails(Top.conn)
     \/ RollbackFails(Top.conn)
  /\ End(Front(frames), flow)
  /\ UNCHANGED caught

Next ==
  \/ WithConn \/ WithTx \/ Statement
  \/ Execute \/ Throw \/ Catch
  \/ TxReturns \/ TxThrows \/ ConnReturns \/ ConnThrows

Spec == Init /\ [][Next]_vars
-----------------------------------------------------------------------------
TypeOK ==
  /\ frames \in Seq(Frame)
  /\ connStack \in Seq(Conn)
  /\ flow \in {"callback", "exception", "error"}
  /\ leaked \subseteq inUse /\ inUse \subseteq Conn
  /\ updates \in 0..MaxUpdates
  /\ work \in [Conn -> SUBSET Update] /\ committed \subseteq Update
  /\ outcome \in {"none", "callback", "exception", "error"}
  /\ caught \in BOOLEAN /\ nested \in BOOLEAN /\ doubtful \in BOOLEAN

\* However calls are nested and whichever step of them fails: the thread's stack
\* holds the connections of the calls that run, in their order, and a call that
\* joined runs on the connection that is on top when it goes on.  Owned counts those
\* of the first i calls that have opened a connection.
Owned(fs, i) == Cardinality({j \in 1..i : fs[j].kind # "withTx"})
StackMatchesCalls ==
  /\ Len(connStack) = Owned(frames, Len(frames))
  /\ \A i \in DOMAIN frames :
       Owned(frames, i) > 0 /\ frames[i].conn = connStack[Owned(frames, i)]

\* Every connection goes back to the DataSource with the call it was opened for,
\* but for those that failed while they were configured or closed.
NoneLeftOpen == inUse \ leaked = {frames[i].conn : i \in DOMAIN frames}

\* A call that returns has committed everything that was done in it, unless one
\* of its callbacks has caught what was thrown inside: a rollback in a joined
\* call takes back what the outer call has done as well.
ReturnMeansCommitted ==
  Idle /\ outcome = "callback" /\ ~ caught => committed = 1..updates

\* A call that throws has left nothing behind, unless a call within it returned,
\* and committed what the outer one had done so far, or JDBC itself failed.
ThrowMeansNothing ==
  Idle /\ outcome \in {"exception", "error"} /\ ~ nested /\ ~ doubtful => committed = {}
=============================================================================
