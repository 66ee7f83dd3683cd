----------------------------- MODULE SqliteConn -----------------------------
(***************************************************************************)
(* CSQLiteDB: connections to one SQLite file, each used by one thread at a *)
(* time (under db_mtx_ of its session).  Execute wraps a statement in BEGIN *)
(* EXCLUSIVE and COMMIT; PrepareSql and StepSql repeat a call that is busy *)
(* a bounded number of times, and Execute repeats BEGIN for as long as it  *)
(* fails.  ExecuteSelect and Next run a query row by row.                  *)
(*                                                                         *)
(* SQLite is external, modelled by what this use of it relies on: a        *)
(* rollback journal (the PRAGMA of start() that asks for WAL is prepared   *)
(* and never stepped), one exclusive writer or any number of readers, BUSY *)
(* for whoever comes in between, and failures of its own, named in Faults. *)
(* sqlite3_prepare_v2 overwrites the handle it is given, with null when it *)
(* fails; who prepared a statement has to release it, on each path.        *)
(* A failed sqlite3_open_v2 leaves the connection closed, which is a       *)
(* stuttering step.                                                        *)
(***************************************************************************)
EXTENDS Naturals, FiniteSets

CONSTANTS Conns,     \* connections
          None,      \* no connection
          Attempts,  \* iSQLEttempts_
          Faults,    \* what may fail, see AllFaults
          MaxCalls   \* bound: calls of one connection, so contention ends

\* The statements, prepared or stepped, and the number of a query's columns (which
\* setActive checks; it is 1 in the query of today).
AllFaults == {"begin", "sql", "commit", "query", "columns"}

ASSUME SqliteAssumption ==
  /\ None \notin Conns
  /\ Attempts \in Nat \ {0}
  /\ Faults \subseteq AllFaults
  /\ MaxCalls \in Nat

VARIABLES
  writer,     \* SQLite: the connection with the EXCLUSIVE lock, or None
  readers,    \* SQLite: the connections with the SHARED lock of a query
  inTx,       \* SQLite: the connection has a transaction open
  pending,    \* SQLite: the calls whose statement ran in the open transaction
  committed,  \* SQLite: the calls whose statement is durable
  open,       \* isConnected()
  stage,      \* the statement the connection is at, "idle": none
  op,         \* "prepare" (in PrepareSql), "step" (in StepSql), "done" (after
              \* the last row)
  pStmt,      \* SQLLITEConnection::pStmt is set
  handles,    \* SQLite: the number of statements not finalized
  n,          \* attempts of the current PrepareSql or StepSql
  calls,      \* the number of the connection's current or last call
  failed,     \* the statement of the current Execute failed
  result,     \* history: what Execute returned last, NoResult before
  lost,       \* history: the calls whose COMMIT failed
  left        \* history: how many callers left without ReleaseStatement

sqlite == <<writer, readers, inTx, pending, committed>>
history == <<result, lost>>
statement == <<pStmt, handles, left>>
call == <<stage, op, n, calls, failed, history>>
vars == <<sqlite, open, statement, call>>

NoResult == [call |-> 0, ok |-> FALSE]
Stages == {"begin", "sql", "commit", "query", "idle"}

Init ==
  /\ writer = None
  /\ readers = {}
  /\ inTx = [c \in Conns |-> FALSE]
  /\ pending = [c \in Conns |-> {}]
  /\ committed = [c \in Conns |-> {}]
  /\ open = [c \in Conns |-> FALSE]
  /\ stage = [c \in Conns |-> "idle"]
  /\ op = [c \in Conns |-> "prepare"]
  /\ pStmt = [c \in Conns |-> FALSE]
  /\ handles = [c \in Conns |-> 0]
  /\ n = [c \in Conns |-> 0]
  /\ calls = [c \in Conns |-> 0]
  /\ failed = [c \in Conns |-> FALSE]
  /\ result = [c \in Conns |-> NoResult]
  /\ lost = [c \in Conns |-> {}]
  /\ left = [c \in Conns |-> 0]

-----------------------------------------------------------------------------
\* The handle is finalized if there is one.
ReleaseStmt(c) ==
  /\ handles' = [handles EXCEPT ![c] = IF pStmt[c] THEN @ - 1 ELSE @]
  /\ pStmt' = [pStmt EXCEPT ![c] = FALSE]
  /\ UNCHANGED left

\* A failed PrepareSql leaves a null handle; one that was stepped is released.
Abandon(c) ==
  IF op[c] = "step" THEN ReleaseStmt(c)
  ELSE /\ pStmt' = [pStmt EXCEPT ![c] = FALSE]
       /\ UNCHANGED <<handles, left>>

\* The connection comes to statement s, which PrepareSql is called for.
Goto(c, s) ==
  /\ stage' = [stage EXCEPT ![c] = s]
  /\ op' = [op EXCEPT ![c] = "prepare"]
  /\ n' = [n EXCEPT ![c] = 0]

\* Mutant: the test of the statement's result is inverted.
Succeeded_Inverted(c) == failed[c]

Succeeded(c) == ~failed[c]

Return(c) ==
  /\ Goto(c, "idle")
  /\ result' = [result EXCEPT ![c] = [call |-> calls[c], ok |-> Succeeded(c)]]

\* COMMIT failed: EndTransaction returns false and Execute goes on.
NoCommit(c) ==
  /\ Return(c) /\ Abandon(c)
  /\ lost' = [lost EXCEPT ![c] = @ \union {calls[c]}]

OpenConnection(c) ==
  /\ stage[c] = "idle" /\ ~open[c]
  /\ open' = [open EXCEPT ![c] = TRUE]
  /\ UNCHANGED <<sqlite, statement, call>>

Call(c, s) ==
  /\ stage[c] = "idle" /\ open[c] /\ calls[c] < MaxCalls
  /\ calls' = [calls EXCEPT ![c] = @ + 1]
  /\ failed' = [failed EXCEPT ![c] = FALSE]
  /\ Goto(c, s)
  /\ UNCHANGED <<sqlite, open, statement, history>>

Execute(c) == Call(c, "begin")
ExecuteSelect(c) == Call(c, "query")

\* Execute on a connection that is not open returns -1 (and ExecuteSelect
\* nullptr, which changes nothing).
ExecuteClosed(c) ==
  /\ stage[c] = "idle" /\ ~open[c] /\ calls[c] < MaxCalls
  /\ calls' = [calls EXCEPT ![c] = @ + 1]
  /\ result' = [result EXCEPT ![c] = [call |-> calls'[c], ok |-> FALSE]]
  /\ UNCHANGED <<sqlite, open, statement, stage, op, n, failed, lost>>

\* Another connection's lock is in the way of the statement.  (To prepare BEGIN
\* takes no lock.)
Busy(c) ==
  /\ op[c] # "done"
  /\ \/ writer \notin {None, c} /\ <<stage[c], op[c]>> # <<"begin", "prepare">>
     \/ stage[c] = "begin" /\ op[c] = "step" /\ ~inTx[c] /\ readers \ {c} # {}

\* Mutant: Execute goes on in the transaction that is open already.
BeginAgain_GoesOn(c) == Goto(c, IF inTx[c] THEN "sql" ELSE "begin") /\ Abandon(c)

BeginAgain(c) == Goto(c, "begin") /\ Abandon(c)

\* Mutant: Execute returns without the COMMIT.
EndAfterFailure_Skipped(c) == Goto(c, "idle") /\ Abandon(c)

\* Mutant: the failed statement is not released before the COMMIT.
EndAfterFailure_Unreleased(c) == Goto(c, "commit") /\ UNCHANGED statement

EndAfterFailure(c) == Goto(c, "commit") /\ Abandon(c)

\* Mutant: the failure of the statement is not recorded.
Fail_Ignored(c) == UNCHANGED failed

Fail(c) == failed' = [failed EXCEPT ![c] = TRUE]

\* PrepareSql or StepSql gave up, or SQLite reported an error: BEGIN is tried
\* again, a failed statement is followed by COMMIT, and a failed COMMIT changes
\* nothing of what Execute returns.  After a failed query ReleaseStatement finds
\* the handle null.
GiveUp(c) ==
  \/ stage[c] = "begin" /\ BeginAgain(c) /\ UNCHANGED <<failed, history>>
  \/ stage[c] = "sql" /\ EndAfterFailure(c) /\ Fail(c) /\ UNCHANGED history
  \/ stage[c] = "commit" /\ NoCommit(c) /\ UNCHANGED failed
  \/ stage[c] = "query" /\ Goto(c, "idle") /\ Abandon(c) /\ UNCHANGED <<failed, history>>

\* Mutant: one attempt more.
MoreAttempts_Off(c) == n[c] < Attempts

MoreAttempts(c) == n[c] + 1 < Attempts

\* The loop of PrepareSql and of StepSql: BUSY, wait, try again, give up.
Retry(c) ==
  /\ stage[c] # "idle" /\ Busy(c)
  /\ \/ /\ MoreAttempts(c)
        /\ n' = [n EXCEPT ![c] = @ + 1]
        /\ UNCHANGED <<statement, stage, op, failed, history>>
     \/ ~MoreAttempts(c) /\ GiveUp(c)
  /\ UNCHANGED <<sqlite, open, calls>>

PrepareOk(c) ==
  /\ stage[c] # "idle" /\ op[c] = "prepare" /\ ~Busy(c)
  /\ op' = [op EXCEPT ![c] = "step"]
  /\ n' = [n EXCEPT ![c] = 0]
  /\ pStmt' = [pStmt EXCEPT ![c] = TRUE]
  /\ handles' = [handles EXCEPT ![c] = @ + 1]
  /\ UNCHANGED <<sqlite, open, left, stage, calls, failed, history>>

\* sqlite3_prepare_v2 fails for another reason than a lock.
PrepareFails(c) ==
  /\ stage[c] \in Faults /\ op[c] = "prepare" /\ ~Busy(c)
  /\ GiveUp(c)
  /\ UNCHANGED <<sqlite, open, calls>>

\* The prepared statement s is stepped.
Step(c, s) == stage[c] = s /\ op[c] = "step" /\ ~Busy(c)

Begin(c) ==
  /\ Step(c, "begin") /\ ~inTx[c]
  /\ writer' = c
  /\ inTx' = [inTx EXCEPT ![c] = TRUE]
  /\ Goto(c, "sql") /\ ReleaseStmt(c)
  /\ UNCHANGED <<readers, pending, committed, open, calls, failed, history>>

\* BEGIN fails for another reason than a lock: inside a transaction it always
\* does.
BeginFails(c) ==
  /\ Step(c, "begin")
  /\ inTx[c] \/ "begin" \in Faults
  /\ GiveUp(c)
  /\ UNCHANGED <<sqlite, open, calls>>

\* The statement is done.
Statement(c) ==
  /\ Step(c, "sql") /\ inTx[c]
  /\ pending' = [pending EXCEPT ![c] = @ \union {calls[c]}]
  /\ Goto(c, "commit") /\ ReleaseStmt(c)
  /\ UNCHANGED <<writer, readers, inTx, committed, open, calls, failed, history>>

\* SQLite may undo the whole transaction when a statement of it fails.
AutoRollback(c) ==
  /\ pending' = [pending EXCEPT ![c] = {}]
  /\ inTx' = [inTx EXCEPT ![c] = FALSE]
  /\ writer' = None
  /\ UNCHANGED <<readers, committed>>

StatementFails(c) ==
  /\ Step(c, "sql") /\ "sql" \in Faults
  /\ GiveUp(c)
  /\ UNCHANGED sqlite \/ AutoRollback(c)
  /\ UNCHANGED <<open, calls>>

Commit(c) ==
  /\ Step(c, "commit") /\ inTx[c]
  /\ committed' = [committed EXCEPT ![c] = @ \union pending[c]]
  /\ pending' = [pending EXCEPT ![c] = {}]
  /\ inTx' = [inTx EXCEPT ![c] = FALSE]
  /\ writer' = None
  /\ Return(c) /\ ReleaseStmt(c)
  /\ UNCHANGED <<readers, open, calls, failed, lost>>

\* COMMIT fails: the transaction stays open or is undone; without a transaction
\* there is nothing to commit.
CommitFails(c) ==
  /\ Step(c, "commit")
  /\ \/ ~inTx[c] /\ UNCHANGED sqlite
     \/ inTx[c] /\ "commit" \in Faults /\ UNCHANGED sqlite
     \/ inTx[c] /\ "commit" \in Faults /\ AutoRollback(c)
  /\ NoCommit(c)
  /\ UNCHANGED <<open, calls, failed>>

\* Next(): a row, with the SHARED lock kept for the next one, ...
NextRow(c) ==
  /\ Step(c, "query")
  /\ readers' = readers \union {c}
  /\ n' = [n EXCEPT ![c] = 0]
  /\ UNCHANGED <<writer, inTx, pending, committed, open, statement, stage, op,
                 calls, failed, history>>

\* ... the end of the rows, which releases nothing, ...
NextEnd(c) ==
  /\ Step(c, "query")
  /\ readers' = readers \ {c}
  /\ op' = [op EXCEPT ![c] = "done"]
  /\ UNCHANGED <<writer, inTx, pending, committed, open, statement, stage, n,
                 calls, failed, history>>

\* ... or an error.
NextFails(c) ==
  /\ Step(c, "query") /\ "query" \in Faults
  /\ readers' = readers \ {c}
  /\ GiveUp(c)
  /\ UNCHANGED <<writer, inTx, pending, committed, open, calls>>

\* A query that is prepared and not stepped yet.
Unstepped(c) == stage[c] = "query" /\ op[c] = "step" /\ n[c] = 0 /\ c \notin readers

\* The caller's ReleaseStatement: after the last row, or at once (start()).
ReleaseStatement(c) ==
  /\ op[c] = "done" \/ Unstepped(c)
  /\ Goto(c, "idle") /\ ReleaseStmt(c)
  /\ UNCHANGED <<sqlite, open, calls, failed, history>>

\* setActive returns at once when the result has not one column.
LeaveStatement(c) ==
  /\ Unstepped(c) /\ "columns" \in Faults
  /\ Goto(c, "idle")
  /\ left' = [left EXCEPT ![c] = @ + 1]
  /\ UNCHANGED <<sqlite, open, pStmt, handles, calls, failed, history>>

\* A call of CSQLiteDB goes on.
Run(c) ==
  \/ Retry(c) \/ PrepareOk(c) \/ PrepareFails(c)
  \/ Begin(c) \/ BeginFails(c)
  \/ Statement(c) \/ StatementFails(c)
  \/ Commit(c) \/ CommitFails(c)
  \/ NextEnd(c) \/ NextFails(c) \/ ReleaseStatement(c) \/ LeaveStatement(c)

\* Every connection has made its calls.
Finished ==
  /\ \A c \in Conns : stage[c] = "idle" /\ calls[c] = MaxCalls
  /\ UNCHANGED vars

Next ==
  \/ \E c \in Conns : \/ OpenConnection(c) \/ Execute(c) \/ ExecuteClosed(c)
                     \/ ExecuteSelect(c) \/ Run(c) \/ NextRow(c)
  \/ Finished

Spec == Init /\ [][Next]_vars

\* Every thread goes on with its call, a query comes to its last row, and a BEGIN
\* that may be prepared and may succeed does not fail for ever.
FairSpec ==
  /\ Spec
  /\ \A c \in Conns : /\ WF_vars(Run(c)) /\ SF_vars(NextEnd(c))
                     /\ SF_vars(PrepareOk(c)) /\ SF_vars(Begin(c))

-----------------------------------------------------------------------------
\* Types of the variables.
TypeOK ==
  /\ writer \in Conns \union {None}
  /\ readers \subseteq Conns
  /\ inTx \in [Conns -> BOOLEAN]
  /\ pending \in [Conns -> SUBSET Nat]
  /\ committed \in [Conns -> SUBSET Nat]
  /\ open \in [Conns -> BOOLEAN]
  /\ stage \in [Conns -> Stages]
  /\ op \in [Conns -> {"prepare", "step", "done"}]
  /\ pStmt \in [Conns -> BOOLEAN]
  /\ handles \in [Conns -> Nat]
  /\ n \in [Conns -> 0 .. Attempts - 1]
  /\ calls \in [Conns -> 0 .. MaxCalls]
  /\ failed \in [Conns -> BOOLEAN]
  /\ result \in [Conns -> [call : 0 .. MaxCalls, ok : BOOLEAN]]
  /\ lost \in [Conns -> SUBSET Nat]
  /\ left \in [Conns -> Nat]

\* When PrepareSql overwrites the handle, and when a call is over, every statement
\* was finalized on whichever path the call took, but those that setActive left
\* because of their columns (no later call finalizes them, and sqlite3_close
\* refuses the connection).
StatementsReleased == \A c \in Conns : op[c] = "prepare" => handles[c] = left[c]

\* A connection that is not in a call leaves no transaction and no lock behind
\* for the other sessions to wait for, unless the COMMIT of its last Execute failed.
TransactionClosed ==
  \A c \in Conns : stage[c] = "idle" =>
    /\ c \notin readers
    /\ inTx[c] \/ writer = c => result[c].call \in lost[c]

\* What Execute reported as done is durable, and a call whose COMMIT failed never
\* is, although its statement may stay in a transaction that is still open.
ReportedIsDurable ==
  \A c \in Conns : /\ result[c].ok => result[c].call \in committed[c] \union lost[c]
                   /\ lost[c] \intersect committed[c] = {}

\* What Execute reported as failed left nothing behind, now or later.
FailedIsAbsent ==
  \A c \in Conns : ~result[c].ok => result[c].call \notin committed[c]

\* Every call comes to an end, however the connections get in each other's way.
CallsReturn == \A c \in Conns : stage[c] # "idle" ~> stage[c] = "idle"

\* The connections that a failed COMMIT left with their transaction.
Held == {c \in Conns : inTx[c] /\ stage[c] \notin {"sql", "commit"}}

\* Every call comes to an end, unless a COMMIT failed and left its transaction.
CallsReturnUnlessHeld ==
  \A c \in Conns : stage[c] # "idle" ~>
    stage[c] = "idle" \/ \E d \in Held : result[d].call \in lost[d]

-----------------------------------------------------------------------------
\* DbCalls' view of a connection: what it is asked for at a stage.
AskedFor(s) == IF s = "idle" THEN "nothing"
               ELSE IF s = "query" THEN "query" ELSE "execute"

doing == [c \in Conns |-> AskedFor(stage[c])]

Promised == INSTANCE DbCalls WITH held <- Held

\* Statements, transactions, retries and locks hide behind calls that take effect
\* at once, or fail, or are lost with their COMMIT.
ImplementsDbCalls == Promised!Spec
=============================================================================
