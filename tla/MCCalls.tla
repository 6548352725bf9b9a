------------------------------- MODULE MCCalls -------------------------------
(***************************************************************************)
(* The components that belong to one thread, whose difficulty is what      *)
(* calls within calls and failing calls leave behind.  They share nothing, *)
(* so one run checks them side by side: the initial state chooses a part,  *)
(* the others stay in their initial state.                                 *)
(***************************************************************************)
EXTENDS DbClient

CONSTANTS
  MaxId, LogDepth, MaxCalls,
  FetchSize, MaxRows, MaxFails,
  MaxLines

VARIABLES
  part,
  given, uid, ouid, nextId, logFrames, jobs, calls,
  rows, data, loaded, index, prevItem, handed, promised, ended, atRead, rejected, fails,
  options, script, pos, delimiter, command, executed, pending, scriptCommitted,
  openStatements, stage

logVars == <<given, uid, ouid, nextId, logFrames, jobs, calls>>
batchVars == <<rows, data, loaded, index, prevItem, handed, promised, ended, atRead,
               rejected, fails>>
scriptVars == <<options, script, pos, delimiter, command, executed, pending,
                scriptCommitted, openStatements, stage>>
allVars == <<part, vars, logVars, batchVars, scriptVars>>

Log == INSTANCE JobLogUtil WITH MaxDepth <- LogDepth, frames <- logFrames
Batch == INSTANCE BatchData
Script == INSTANCE ScriptRunner WITH committed <- scriptCommitted

\* An iteration without a page size has no end.
ASSUME CallsAssumption ==
  /\ FetchSize \in Nat \ {0} /\ MaxRows \in Nat /\ MaxFails \in Nat
  /\ MaxId \in Nat /\ LogDepth \in Nat /\ MaxCalls \in Nat /\ MaxLines \in Nat

\* The inputs of a part that does not run are of no interest.
MCInit ==
  /\ part \in {"DbClient", "JobLogUtil", "BatchData", "ScriptRunner"}
  /\ Init /\ Batch!Init /\ Log!Init
  /\ part # "JobLogUtil" => given
  /\ part # "BatchData" => rows = 0
  /\ \/ part = "ScriptRunner" /\ Script!Init
     \/ /\ part # "ScriptRunner" /\ Script!Begun
        /\ script = <<>> /\ options = CHOOSE o \in Script!Options : TRUE

DbPart == part = "DbClient" /\ Next /\ UNCHANGED <<part, logVars, batchVars, scriptVars>>
LogPart == part = "JobLogUtil" /\ Log!Next /\ UNCHANGED <<part, vars, batchVars, scriptVars>>
BatchPart == part = "BatchData" /\ Batch!Next /\ UNCHANGED <<part, vars, logVars, scriptVars>>
ScriptPart == part = "ScriptRunner" /\ Script!Next /\ UNCHANGED <<part, vars, logVars, batchVars>>

\* The outermost call has returned and there is no more to do.
Over ==
  /\ \/ part = "JobLogUtil" /\ logFrames = <<>>
     \/ part = "BatchData" /\ ended
     \/ part = "ScriptRunner" /\ stage \in {"ok", "threw"}
  /\ UNCHANGED allVars

MCNext == DbPart \/ LogPart \/ BatchPart \/ ScriptPart \/ Over

MCSpec == MCInit /\ [][MCNext]_allVars
-----------------------------------------------------------------------------
\* Each property is the conjunction of properties of one part, stated and named in
\* the module of the part; those of DbClient have no prefix.
TypesOK == TypeOK /\ Log!TypeOK /\ Batch!TypeOK /\ Script!TypeOK

\* DbClient: the stack of connections matches the calls that run, none stays open,
\* a return means that the work is committed and an exception that none of it is,
\* except as the conjuncts say of calls that joined a transaction.
DbTransactions ==
  StackMatchesCalls /\ NoneLeftOpen /\ ReturnMeansCommitted /\ ThrowMeansNothing

\* ScriptRunner: lines reach the database in order and once, and the transaction is
\* as the return or the exception says: all of it or nothing.
ScriptTransactions ==
  /\ Script!LinesInOrder /\ Script!ThrowMeansNothing
  /\ Script!ReturnMeansCommitted

\* JobLogUtil: a pool thread is left clean, and lines carry the uid of their job.
LogContexts == Log!PoolThreadIsClean /\ Log!LinesCarryTheirJob

\* BatchData: hasNext tells the truth through page ends, repeated calls and producers
\* that fail: what it promises is the next row, and the end is after the last one.
BatchRows == Batch!TrueMeansNext /\ Batch!FalseMeansAll

\* No row is left out or handed out twice, whoever asks hasNext or does not, and a
\* withTask or withData without others inside gives its uid back.
StepsTold == [][Batch!NoGapNoRepeat /\ Log!PlainCallRestored]_allVars
=============================================================================
