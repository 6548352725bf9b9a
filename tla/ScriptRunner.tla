---------------------------- MODULE ScriptRunner ----------------------------
(***************************************************************************)
(* org.jsirenia.jdbc.ScriptRunner.runScript: one run over one script on    *)
(* one connection.  A line is told apart by whether it holds text of a     *)
(* statement and by the delimiter it holds; a statement is the sequence of *)
(* the numbers of the lines it is put together from.  Reading a line and   *)
(* every call of JDBC may fail, and what a failing execute or commit asked *)
(* for may have been done all the same.  A warning that throwWarning turns *)
(* into an exception is such a failure of execute.                         *)
(***************************************************************************)
EXTENDS Naturals, SequencesExt

CONSTANTS MaxLines     \* bound: lines of the script

VARIABLES
  options,     \* autoCommit, stopOnError, sendFullScript, fullLineDelimiter
  script,      \* the lines
  pos,         \* lines read so far
  delimiter,
  command,     \* the lines of the statement that is not complete yet
  executed,    \* statements passed to execute
  pending,     \* statements that succeeded and are neither committed nor rolled back
  committed,
  openStatements, \* statements of JDBC that close was not called for
  stage        \* where runScript is

scriptVars == <<options, script, pos, delimiter, command, executed, pending,
                committed, openStatements, stage>>

Delimiters == {";", "/"}
Sql == [kind : {"sql"}, text : BOOLEAN, delim : Delimiters \cup {""}]
SetDelimiter == [kind : {"@DELIMITER"}, delim : Delimiters \cup {""}]
Line == Sql \cup SetDelimiter \cup {[kind |-> "comment"]}
Options == [autoCommit : BOOLEAN, stopOnError : BOOLEAN, sendFullScript : BOOLEAN,
            fullLineDelimiter : BOOLEAN]
Stages == {"setAutoCommit", "lines", "commit", "check", "failed", "ok", "threw"}

Begun ==
  /\ pos = 0 /\ delimiter = ";" /\ command = <<>>
  /\ executed = <<>> /\ pending = <<>> /\ committed = <<>>
  /\ openStatements = 0
  /\ stage = "setAutoCommit"

Init ==
  /\ options \in Options
  /\ script \in UNION {[1..n -> Line] : n \in 0..MaxLines}
  /\ Begun


\* A connection that cannot be set up is not touched again.
SetAutoCommit ==
  /\ stage = "setAutoCommit"
  /\ stage' \in {"lines", "threw"}
  /\ UNCHANGED <<options, script, pos, delimiter, command, executed, pending,
                 committed, openStatements>>

\* Mutant: the command is not emptied.
KeepCommand == Append(command, pos + 1)

\* What succeeded is committed at once, or waits for the end of the transaction.
Succeeded(s) ==
  IF options.autoCommit
  THEN committed' = Append(committed, s) /\ UNCHANGED pending
  ELSE pending' = Append(pending, s) /\ UNCHANGED committed

StopsOnError == options.stopOnError

AfterError == "failed"

\* executeStatement.  A statement that cannot be made or set up ends the script; an
\* error of its execution does so only when stopOnError says so, whether or not the
\* database did what it was asked.  A statement that failed is not closed then.
Execute(s, next) ==
  \/ /\ UNCHANGED <<executed, pending, committed>>
     /\ stage' = AfterError /\ openStatements' \in {openStatements, openStatements + 1}
  \/ /\ executed' = Append(executed, s)
     /\ Succeeded(s) /\ stage' = next /\ UNCHANGED openStatements
  \/ /\ executed' = Append(executed, s)
     /\ Succeeded(s) \/ UNCHANGED <<pending, committed>>
     /\ IF StopsOnError
        THEN stage' = AfterError /\ openStatements' = openStatements + 1
        ELSE stage' = next /\ UNCHANGED openStatements

Ready(line) ==
  /\ line.delim = delimiter
  /\ options.fullLineDelimiter => ~ line.text

Emptied == <<>>

\* handleLine
HandleLine ==
  /\ stage = "lines" /\ ~ options.sendFullScript /\ pos < Len(script)
  /\ pos' = pos + 1
  /\ LET line == script[pos + 1] IN
     \/ /\ line.kind = "comment"
        /\ UNCHANGED <<delimiter, command, executed, pending, committed, openStatements, stage>>
     \/ /\ line.kind = "@DELIMITER" /\ line.delim # ""
        /\ delimiter' = line.delim
        /\ UNCHANGED <<command, executed, pending, committed, openStatements, stage>>
     \/ /\ line.kind = "@DELIMITER" /\ line.delim = ""    \* substring(11, 12) throws
        /\ stage' = "failed"
        /\ UNCHANGED <<delimiter, command, executed, pending, committed, openStatements>>
     \/ /\ line.kind = "sql" /\ Ready(line)
        /\ Execute(Append(command, pos + 1), "lines")
        /\ command' = IF stage' = "lines" THEN Emptied ELSE Append(command, pos + 1)
        /\ UNCHANGED delimiter
     \/ /\ line.kind = "sql" /\ ~ Ready(line)
        /\ command' = IF line.text \/ line.delim # "" THEN Append(command, pos + 1)
                      ELSE command
        /\ UNCHANGED <<delimiter, executed, pending, committed, openStatements, stage>>
  /\ UNCHANGED <<options, script>>

EndOfLines ==
  /\ stage = "lines" /\ ~ options.sendFullScript /\ pos = Len(script)
  /\ stage' = "commit"
  /\ UNCHANGED <<options, script, pos, delimiter, command, executed, pending,
                 committed, openStatements>>

\* executeFullScript: the whole text is one statement.
FullScript ==
  /\ stage = "lines" /\ options.sendFullScript
  /\ pos' = Len(script)
  /\ Execute([i \in 1..Len(script) |-> i], "commit")
  /\ UNCHANGED <<options, script, delimiter, command>>

\* readLine throws.
ReadFails ==
  /\ stage = "lines"
  /\ stage' = "failed"
  /\ UNCHANGED <<options, script, pos, delimiter, command, executed, pending,
                 committed, openStatements>>

\* commitConnection: the answer of a commit that was done may be lost.  The missing
\* terminator is looked for after it.
Commit ==
  /\ stage = "commit"
  /\ \/ /\ committed' = committed \o pending /\ pending' = <<>>
        /\ stage' \in {"check", "failed"}
     \/ /\ stage' = "failed"
        /\ UNCHANGED <<pending, committed>>
  /\ UNCHANGED <<options, script, pos, delimiter, command, executed, openStatements>>

Missing == command # <<>>

\* rollbackConnection: a failure is swallowed, and the work stays pending.
RollBack == pending' \in {<<>>, pending}

\* checkForMissingLineTerminator, and the finally block of runScript.
Check ==
  /\ stage = "check"
  /\ stage' = IF Missing THEN "threw" ELSE "ok"
  /\ RollBack
  /\ UNCHANGED <<options, script, pos, delimiter, command, executed, committed, openStatements>>

Failed ==
  /\ stage = "failed"
  /\ stage' = "threw"
  /\ RollBack
  /\ UNCHANGED <<options, script, pos, delimiter, command, executed, committed, openStatements>>

Next == \/ SetAutoCommit \/ HandleLine \/ EndOfLines \/ FullScript \/ ReadFails
        \/ Commit \/ Check \/ Failed

Spec == Init /\ [][Next]_scriptVars
-----------------------------------------------------------------------------
\* The lines that hold something of a statement, as far as they were read.
StatementLines ==
  {i \in 1..pos : script[i].kind = "sql" /\ (script[i].text \/ script[i].delim # "")}

\* The numbers of lines in a statement go up, and from one statement to the next.
Increasing(s) == \A i, j \in DOMAIN s : i < j => s[i] < s[j]
Before(s, t) == \A i \in DOMAIN s, j \in DOMAIN t : s[i] < t[j]
InOrder(ss) ==
  /\ \A k \in DOMAIN ss : Increasing(ss[k])
  /\ \A k, l \in DOMAIN ss : k < l => Before(ss[k], ss[l])

\* Type invariant; an unfinished run leaves at most one statement open.
TypeOK ==
  /\ options \in Options /\ stage \in Stages
  /\ pos \in 0..Len(script) /\ delimiter \in Delimiters
  /\ \A s \in {executed, pending, committed} : Len(s) <= MaxLines + 1
  /\ openStatements \in 0..1

\* Every line of a statement goes to the database once and in order, in the
\* statement it belongs to, whichever delimiters are set in between.
LinesInOrder ==
  LET unsent == IF executed # <<>> /\ Last(executed) = command THEN <<>> ELSE command
      statements == Append(executed, unsent)
  IN  ~ options.sendFullScript =>
        /\ InOrder(statements)
        /\ UNION {Range(statements[k]) : k \in DOMAIN statements} = StatementLines

\* Without autoCommit an exception means that the database is as before, unless all
\* of the script was executed and the commit was done: then everything that
\* succeeded is in it, and only the answer of the commit or the terminator of the
\* last statement is missing.
ThrowMeansNothing ==
  stage = "threw" /\ ~ options.autoCommit /\ committed # <<>> =>
    /\ pos = Len(script) /\ pending = <<>>
    /\ Range(committed) \subseteq Range(executed) /\ InOrder(committed)
    /\ options.stopOnError => committed = executed

\* A normal return means that nothing waits and every statement was closed, and with
\* stopOnError that every statement of the script was executed and committed.
ReturnMeansCommitted ==
  stage = "ok" =>
    /\ pending = <<>> /\ command = <<>> /\ openStatements = 0
    /\ options.stopOnError => committed = executed
=============================================================================
