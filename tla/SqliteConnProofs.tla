--------------------------- MODULE SqliteConnProofs ---------------------------
(***************************************************************************)
(* Theorems about SqliteConn, for any number of connections, attempts and  *)
(* calls and every choice of Faults, a failing COMMIT included.            *)
(***************************************************************************)
EXTENDS SqliteConn, TLAPS

\* A statement is prepared exactly while it is stepped or its rows are at their end;
\* other handles are those that setActive left.
StatementInv ==
  \A c \in Conns :
    IF op[c] = "prepare" THEN handles[c] = left[c]
    ELSE pStmt[c] /\ handles[c] = left[c] + 1

\* Who has a transaction open has the EXCLUSIVE lock, and a SHARED lock belongs
\* to a query and excludes every other writer.
LockInv ==
  \A c \in Conns :
    /\ inTx[c] <=> writer = c
    /\ stage[c] = "sql" => inTx[c]
    /\ c \in readers => stage[c] = "query" /\ op[c] = "step" /\ writer \in {None, c}
    /\ op[c] = "done" => stage[c] = "query"
    /\ stage[c] = "idle" => op[c] = "prepare"

\* Numbers of calls: a statement that ran belongs to a call that began, the
\* statement of the current call has not run before its stage, and a failed one
\* never runs.
CallOk(c) ==
  /\ \A k \in pending[c] \union committed[c] : k \in 1 .. calls[c]
  /\ result[c].call <= calls[c]
  /\ stage[c] # "idle" => result[c].call < calls[c]
  /\ stage[c] \in {"begin", "sql", "query"} =>
       ~failed[c] /\ calls[c] \notin pending[c] \union committed[c]
  /\ stage[c] = "commit" /\ failed[c] =>
       calls[c] \notin pending[c] \union committed[c]
  /\ ~result[c].ok => result[c].call \notin pending[c] \union committed[c]

CallInv == \A c \in Conns : CallOk(c)

\* What an open transaction holds: nothing before the statement ran, and the call
\* to be reported after it did.  A call whose COMMIT failed stays out of the
\* durable ones because its connection never gets to another COMMIT.
TxOk(c) ==
  /\ stage[c] # "idle" \/ inTx[c] => open[c]
  /\ stage[c] # "idle" => calls[c] \notin committed[c] \union lost[c]
  /\ \A k \in lost[c] : k <= calls[c] /\ k \notin committed[c]
  /\ ~inTx[c] \/ stage[c] = "sql" => pending[c] = {}
  /\ stage[c] = "commit" => pending[c] = IF failed[c] THEN {} ELSE {calls[c]}
  /\ inTx[c] /\ stage[c] \notin {"sql", "commit"} => result[c].call \in lost[c]
  /\ result[c].ok => result[c].call \in committed[c] \union lost[c]

TxInv == \A c \in Conns : TxOk(c)

\* The types of the variables of a running statement.
CallType ==
  /\ stage \in [Conns -> Stages]
  /\ op \in [Conns -> {"prepare", "step", "done"}]
  /\ n \in [Conns -> 0 .. Attempts - 1]

StatementType ==
  /\ pStmt \in [Conns -> BOOLEAN]
  /\ handles \in [Conns -> Nat]
  /\ left \in [Conns -> Nat]

HistoryType ==
  /\ result \in [Conns -> [call : 0 .. MaxCalls, ok : BOOLEAN]]
  /\ lost \in [Conns -> SUBSET Nat]

IInv ==
  /\ TypeOK
  /\ StatementInv
  /\ LockInv
  /\ CallInv
  /\ TxInv

-----------------------------------------------------------------------------
\* Starting the next statement keeps the types of the statement's variables.
LEMMA GotoType ==
  ASSUME TypeOK, NEW c \in Conns, NEW s \in Stages, Goto(c, s)
  PROVE  CallType'
PROOF
<1>1. 0 \in 0 .. Attempts - 1
  BY SqliteAssumption
<1> QED
  BY <1>1 DEF TypeOK, Goto, CallType

\* So does the return from Execute after a COMMIT that failed, with the types of
\* its result.
LEMMA NoCommitType ==
  ASSUME TypeOK, NEW c \in Conns, NoCommit(c)
  PROVE  CallType' /\ HistoryType'
PROOF
<1>1. CallType'
  BY GotoType DEF NoCommit, Return, Stages
<1>2. [call |-> calls[c], ok |-> Succeeded(c)] \in [call : 0 .. MaxCalls, ok : BOOLEAN]
  BY DEF TypeOK, Succeeded
<1> QED
  BY <1>1, <1>2 DEF TypeOK, NoCommit, Return, HistoryType

\* So does a statement that is given up.
LEMMA GiveUpType ==
  ASSUME TypeOK, NEW c \in Conns, GiveUp(c)
  PROVE  CallType' /\ HistoryType' /\ failed' \in [Conns -> BOOLEAN]
PROOF
<1>1. CASE NoCommit(c) /\ UNCHANGED failed
  BY <1>1, NoCommitType DEF TypeOK
<1>2. CASE /\ \E s \in Stages : Goto(c, s)
           /\ UNCHANGED history /\ (UNCHANGED failed \/ Fail(c))
  <2>1. PICK s \in Stages : Goto(c, s)
    BY <1>2
  <2>2. CallType'
    BY <2>1, GotoType
  <2> QED
    BY <1>2, <2>2 DEF TypeOK, Fail, HistoryType, history
<1> QED
  BY <1>1, <1>2 DEF GiveUp, BeginAgain, EndAfterFailure, Stages

\* Releasing a statement that was stepped leaves none of the call.
LEMMA ReleaseKeeps ==
  ASSUME TypeOK, StatementInv, NEW c \in Conns, op[c] # "prepare", ReleaseStmt(c),
         op' = [op EXCEPT ![c] = "prepare"]
  PROVE  StatementType' /\ StatementInv'
PROOF
<1>1. pStmt[c] /\ handles[c] = left[c] + 1 /\ left[c] \in Nat
  BY DEF StatementInv, TypeOK
<1>2. handles' = [handles EXCEPT ![c] = left[c]]
  <2>1. handles' = [handles EXCEPT ![c] = IF pStmt[c] THEN @ - 1 ELSE @]
    BY DEF ReleaseStmt
  <2>2. handles[c] - 1 = left[c]
    BY <1>1
  <2> QED
    BY <1>1, <2>1, <2>2 DEF TypeOK
<1>3. StatementType'
  BY <1>1, <1>2 DEF ReleaseStmt, TypeOK, StatementType
<1>4. ASSUME NEW d \in Conns
      PROVE  IF op'[d] = "prepare" THEN handles'[d] = left'[d]
             ELSE pStmt'[d] /\ handles'[d] = left'[d] + 1
  BY <1>2, <1>4 DEF ReleaseStmt, StatementInv, TypeOK
<1> QED
  BY <1>3, <1>4 DEF StatementInv

\* So does what a failed call does with its handle.
LEMMA AbandonKeeps ==
  ASSUME TypeOK, StatementInv, NEW c \in Conns, op[c] # "done", Abandon(c),
         op' = [op EXCEPT ![c] = "prepare"]
  PROVE  StatementType' /\ StatementInv'
PROOF
<1>1. CASE op[c] = "step"
  BY <1>1, ReleaseKeeps DEF Abandon
<1>2. CASE op[c] = "prepare"
  BY <1>2 DEF Abandon, TypeOK, StatementType, StatementInv
<1> QED
  BY <1>1, <1>2 DEF TypeOK

\* A statement that is given up is abandoned.
LEMMA GiveUpKeeps ==
  ASSUME TypeOK, StatementInv, NEW c \in Conns, op[c] # "done", GiveUp(c)
  PROVE  StatementType' /\ StatementInv'
PROOF
<1>1. Abandon(c) /\ op' = [op EXCEPT ![c] = "prepare"]
  BY DEF GiveUp, BeginAgain, EndAfterFailure, NoCommit, Return, Goto
<1> QED
  BY <1>1, AbandonKeeps

\* Every step keeps the handles with the calls that prepared them.
LEMMA StatementsStep ==
  ASSUME TypeOK, StatementInv, LockInv, [Next]_vars
  PROVE  StatementType' /\ StatementInv'
PROOF
<1> DEFINE Kept == StatementType' /\ StatementInv'
<1>1. CASE UNCHANGED <<statement, op>>
  BY <1>1 DEF statement, TypeOK, StatementType, StatementInv
<1>2. ASSUME NEW c \in Conns, OpenConnection(c) \/ ExecuteClosed(c) \/ NextRow(c)
      PROVE  Kept
  BY <1>1, <1>2 DEF OpenConnection, ExecuteClosed, NextRow, call
<1>3. ASSUME NEW c \in Conns, Execute(c) \/ ExecuteSelect(c) PROVE Kept
  <2>1. stage[c] = "idle" /\ op' = [op EXCEPT ![c] = "prepare"] /\ UNCHANGED statement
    BY <1>3 DEF Execute, ExecuteSelect, Call, Goto
  <2>2. op[c] = "prepare"
    BY <2>1 DEF LockInv
  <2> QED
    BY <2>1, <2>2 DEF statement, TypeOK, StatementType, StatementInv
<1>4. ASSUME NEW c \in Conns, Retry(c) PROVE Kept
  <2>1. CASE UNCHANGED <<statement, op>>
    BY <1>1, <2>1
  <2>2. CASE GiveUp(c)
    BY <1>4, <2>2, GiveUpKeeps DEF Retry, Busy
  <2> QED
    BY <1>4, <2>1, <2>2 DEF Retry
<1>5. ASSUME NEW c \in Conns, PrepareOk(c) PROVE Kept
  <2>1. /\ op[c] = "prepare" /\ op' = [op EXCEPT ![c] = "step"]
        /\ pStmt' = [pStmt EXCEPT ![c] = TRUE]
        /\ handles' = [handles EXCEPT ![c] = @ + 1]
        /\ UNCHANGED left
    BY <1>5 DEF PrepareOk
  <2> QED
    BY <2>1 DEF TypeOK, StatementType, StatementInv
<1>6. ASSUME NEW c \in Conns, GiveUp(c), op[c] \in {"prepare", "step"} PROVE Kept
  BY <1>6, GiveUpKeeps
<1>7. ASSUME NEW c \in Conns, PrepareFails(c) \/ BeginFails(c) \/ StatementFails(c) \/ NextFails(c)
      PROVE  Kept
  BY <1>6, <1>7 DEF PrepareFails, BeginFails, StatementFails, NextFails, Step
<1>8. ASSUME NEW c \in Conns, Begin(c) \/ Statement(c) \/ Commit(c) \/ ReleaseStatement(c)
      PROVE  Kept
  <2>1. op[c] # "prepare" /\ ReleaseStmt(c) /\ op' = [op EXCEPT ![c] = "prepare"]
    BY <1>8 DEF Begin, Statement, Commit, ReleaseStatement, Unstepped, Step, Return, Goto
  <2> QED
    BY <2>1, ReleaseKeeps
<1>9. ASSUME NEW c \in Conns, CommitFails(c) PROVE Kept
  <2>1. op[c] = "step" /\ Abandon(c) /\ op' = [op EXCEPT ![c] = "prepare"]
    BY <1>9 DEF CommitFails, NoCommit, Step, Return, Goto
  <2> QED
    BY <2>1, AbandonKeeps
<1>10. ASSUME NEW c \in Conns, NextEnd(c) PROVE Kept
  <2>1. op[c] = "step" /\ op' = [op EXCEPT ![c] = "done"] /\ UNCHANGED statement
    BY <1>10 DEF NextEnd, Step
  <2> QED
    BY <2>1 DEF statement, TypeOK, StatementType, StatementInv
<1>11. ASSUME NEW c \in Conns, LeaveStatement(c) PROVE Kept
  <2>1. /\ op[c] = "step" /\ op' = [op EXCEPT ![c] = "prepare"]
        /\ left' = [left EXCEPT ![c] = @ + 1]
        /\ UNCHANGED <<pStmt, handles>>
    BY <1>11 DEF LeaveStatement, Unstepped, Goto
  <2> QED
    BY <2>1 DEF TypeOK, StatementType, StatementInv
<1>12. CASE UNCHANGED vars
  BY <1>1, <1>12 DEF vars, call
<1> QED
  BY <1>2, <1>3, <1>4, <1>5, <1>7, <1>8, <1>9, <1>10, <1>11, <1>12
     DEF Next, Run, Finished

\* Every step keeps the types.
LEMMA TypeStep ==
  ASSUME TypeOK, StatementInv, LockInv, [Next]_vars
  PROVE  TypeOK'
PROOF
<1>0. StatementType'
  BY StatementsStep
<1> USE SqliteAssumption, <1>0 DEF TypeOK, Stages, NoResult, StatementType
<1>1. ASSUME NEW c \in Conns, OpenConnection(c) PROVE TypeOK'
  BY <1>1 DEF OpenConnection, sqlite, call, history
<1>2. ASSUME NEW c \in Conns, Execute(c) PROVE TypeOK'
  BY <1>2 DEF Execute, Call, Goto, sqlite, call, history
<1>3. ASSUME NEW c \in Conns, ExecuteClosed(c) PROVE TypeOK'
  BY <1>3 DEF ExecuteClosed, sqlite, call, history
<1>4. ASSUME NEW c \in Conns, ExecuteSelect(c) PROVE TypeOK'
  BY <1>4 DEF ExecuteSelect, Call, Goto, sqlite, call, history
<1>5. ASSUME NEW c \in Conns, Retry(c) PROVE TypeOK'
  <2>1. CASE MoreAttempts(c)
    BY <1>5, <2>1 DEF Retry, MoreAttempts, sqlite, history
  <2>2. CASE ~MoreAttempts(c)
    BY <1>5, <2>2, GiveUpType DEF Retry, CallType, HistoryType, sqlite, history
  <2> QED
    BY <2>1, <2>2
<1>6. ASSUME NEW c \in Conns, PrepareOk(c) PROVE TypeOK'
  BY <1>6 DEF PrepareOk, sqlite, call, history
<1>7. ASSUME NEW c \in Conns, Begin(c) PROVE TypeOK'
  BY <1>7 DEF Begin, Step, Goto, Busy, sqlite, call, history
<1>8. ASSUME NEW c \in Conns, BeginFails(c) PROVE TypeOK'
  BY <1>8, GiveUpType DEF BeginFails, CallType, HistoryType, sqlite
<1>9. ASSUME NEW c \in Conns, Statement(c) PROVE TypeOK'
  BY <1>9 DEF Statement, Step, Goto, sqlite, call, history
<1>10. ASSUME NEW c \in Conns, StatementFails(c) PROVE TypeOK'
  BY <1>10, GiveUpType DEF StatementFails, CallType, HistoryType, AutoRollback, sqlite, history
<1>11. ASSUME NEW c \in Conns, Commit(c) PROVE TypeOK'
  BY <1>11 DEF Commit, Step, Return, Goto, Succeeded, sqlite,
       call, history
<1>12. ASSUME NEW c \in Conns, CommitFails(c) PROVE TypeOK'
  BY <1>12, NoCommitType DEF CommitFails, CallType, HistoryType, AutoRollback, sqlite, history
<1>13. ASSUME NEW c \in Conns, NextRow(c) PROVE TypeOK'
  BY <1>13 DEF NextRow, Step, Busy, sqlite, call, history
<1>14. ASSUME NEW c \in Conns, NextEnd(c) PROVE TypeOK'
  BY <1>14 DEF NextEnd, Step, Goto, sqlite, call, history
<1>15. ASSUME NEW c \in Conns, PrepareFails(c) PROVE TypeOK'
  BY <1>15, GiveUpType DEF PrepareFails, CallType, HistoryType, sqlite
<1>16. ASSUME NEW c \in Conns, NextFails(c) PROVE TypeOK'
  BY <1>16, GiveUpType DEF NextFails, CallType, HistoryType
<1>17. ASSUME NEW c \in Conns, ReleaseStatement(c) \/ LeaveStatement(c) PROVE TypeOK'
  <2>1. Goto(c, "idle") /\ UNCHANGED <<sqlite, open, calls, failed, history>>
    BY <1>17 DEF ReleaseStatement, LeaveStatement
  <2>2. CallType'
    BY <2>1, GotoType
  <2> QED
    BY <2>1, <2>2 DEF CallType, sqlite, history
<1>18. CASE UNCHANGED vars
  BY <1>18 DEF vars, sqlite, call, history
<1> QED
  BY <1>1, <1>2, <1>3, <1>4, <1>5, <1>6, <1>7, <1>8, <1>9, <1>10, <1>11,
       <1>12, <1>13, <1>14, <1>15, <1>16, <1>17, <1>18 DEF Next, Run, Finished

\* Every step keeps locks and transactions together.
LEMMA LockStep ==
  ASSUME TypeOK, LockInv, [Next]_vars
  PROVE  LockInv'
PROOF
<1> USE SqliteAssumption DEF TypeOK, LockInv
<1>1. ASSUME NEW c \in Conns, OpenConnection(c) PROVE LockInv'
  BY <1>1 DEF OpenConnection, sqlite, call, history
<1>2. ASSUME NEW c \in Conns, Execute(c) PROVE LockInv'
  BY <1>2 DEF Execute, Call, Goto, sqlite, call, history
<1>3. ASSUME NEW c \in Conns, ExecuteClosed(c) PROVE LockInv'
  BY <1>3 DEF ExecuteClosed, sqlite, call, history
<1>4. ASSUME NEW c \in Conns, ExecuteSelect(c) PROVE LockInv'
  BY <1>4 DEF ExecuteSelect, Call, Goto, sqlite, call, history
<1>5. ASSUME NEW c \in Conns, Retry(c) PROVE LockInv'
  BY <1>5 DEF Retry, MoreAttempts, GiveUp, BeginAgain, EndAfterFailure, Fail, NoCommit, Return,
       Goto, Succeeded, Busy, sqlite, call, history
<1>6. ASSUME NEW c \in Conns, PrepareOk(c) PROVE LockInv'
  BY <1>6 DEF PrepareOk, sqlite, call, history
<1>7. ASSUME NEW c \in Conns, Begin(c) PROVE LockInv'
  BY <1>7 DEF Begin, Step, Goto, Busy, sqlite, call, history
<1>8. ASSUME NEW c \in Conns, BeginFails(c) PROVE LockInv'
  BY <1>8 DEF BeginFails, Step, GiveUp, BeginAgain, EndAfterFailure, Fail, NoCommit, Return,
       Goto, Succeeded, sqlite, call, history
<1>9. ASSUME NEW c \in Conns, Statement(c) PROVE LockInv'
  BY <1>9 DEF Statement, Step, Goto, sqlite, call, history
<1>10. ASSUME NEW c \in Conns, StatementFails(c) PROVE LockInv'
  BY <1>10 DEF StatementFails, Step, GiveUp, BeginAgain, EndAfterFailure, Fail, NoCommit, Return,
       Goto, Succeeded, AutoRollback, sqlite, call, history
<1>11. ASSUME NEW c \in Conns, Commit(c) PROVE LockInv'
  BY <1>11 DEF Commit, Step, Return, Goto, Succeeded, sqlite,
       call, history
<1>12. ASSUME NEW c \in Conns, CommitFails(c) PROVE LockInv'
  BY <1>12 DEF CommitFails, NoCommit, Step, Return, Goto, Succeeded,
       AutoRollback, sqlite, call, history
<1>13. ASSUME NEW c \in Conns, NextRow(c) PROVE LockInv'
  BY <1>13 DEF NextRow, Step, Busy, sqlite, call, history
<1>14. ASSUME NEW c \in Conns, NextEnd(c) PROVE LockInv'
  BY <1>14 DEF NextEnd, Step, Goto, sqlite, call, history
<1>15. ASSUME NEW c \in Conns, PrepareFails(c) PROVE LockInv'
  BY <1>15 DEF PrepareFails, GiveUp, BeginAgain, EndAfterFailure, Fail, NoCommit, Return,
       Goto, Succeeded, sqlite, history
<1>16. ASSUME NEW c \in Conns, NextFails(c) PROVE LockInv'
  BY <1>16 DEF NextFails, Step, GiveUp, Goto, history
<1>17. ASSUME NEW c \in Conns, ReleaseStatement(c) \/ LeaveStatement(c) PROVE LockInv'
  BY <1>17 DEF ReleaseStatement, LeaveStatement, Unstepped, Goto, sqlite, history
<1>18. CASE UNCHANGED vars
  BY <1>18 DEF vars, sqlite, call, history
<1> QED
  BY <1>1, <1>2, <1>3, <1>4, <1>5, <1>6, <1>7, <1>8, <1>9, <1>10, <1>11,
       <1>12, <1>13, <1>14, <1>15, <1>16, <1>17, <1>18 DEF Next, Run, Finished

\* A return that commits nothing keeps the numbers of calls in order.
LEMMA ReturnKeepsCalls ==
  ASSUME TypeOK, CallInv, NEW c \in Conns, stage[c] = "commit", Return(c),
         UNCHANGED <<committed, calls, failed>>,
         \A d \in Conns : pending'[d] \subseteq pending[d]
  PROVE  CallInv'
PROOF
<1> USE DEF TypeOK, CallInv, CallOk
<1>1. /\ stage' = [stage EXCEPT ![c] = "idle"]
      /\ result' = [result EXCEPT ![c] = [call |-> calls[c], ok |-> ~failed[c]]]
  BY DEF Return, Goto, Succeeded
<1>2. CallOk(c)'
  <2>1. /\ stage'[c] = "idle" /\ calls'[c] = calls[c]
        /\ result'[c].call = calls[c]
        /\ result'[c].ok <=> ~failed[c]
    BY <1>1
  <2>2. CallOk(c) /\ pending'[c] \subseteq pending[c] /\ committed'[c] = committed[c]
    OBVIOUS
  <2> QED
    BY <2>1, <2>2
<1>3. ASSUME NEW d \in Conns, d # c PROVE CallOk(d)'
  BY <1>1, <1>3
<1> QED
  BY <1>2, <1>3

\* Every step keeps the numbers of calls in order.
LEMMA CallStep ==
  ASSUME TypeOK, LockInv, CallInv, [Next]_vars
  PROVE  CallInv'
PROOF
<1> USE SqliteAssumption DEF TypeOK, LockInv, CallInv, CallOk
<1>1. ASSUME NEW c \in Conns, OpenConnection(c) PROVE CallInv'
  BY <1>1 DEF OpenConnection, sqlite, call, history
<1>2. ASSUME NEW c \in Conns, Execute(c) PROVE CallInv'
  BY <1>2 DEF Execute, Call, Goto, sqlite, call, history
<1>3. ASSUME NEW c \in Conns, ExecuteClosed(c) PROVE CallInv'
  BY <1>3 DEF ExecuteClosed, sqlite, call, history
<1>4. ASSUME NEW c \in Conns, ExecuteSelect(c) PROVE CallInv'
  BY <1>4 DEF ExecuteSelect, Call, Goto, sqlite, call, history
<1>5. ASSUME NEW c \in Conns, Retry(c) PROVE CallInv'
  <2>1. CASE MoreAttempts(c)
    BY <1>5, <2>1 DEF Retry, sqlite, history
  <2>2. CASE ~MoreAttempts(c) /\ stage[c] = "commit"
    BY <1>5, <2>2, ReturnKeepsCalls DEF Retry, GiveUp, NoCommit, Goto, sqlite, history
  <2>3. CASE ~MoreAttempts(c) /\ stage[c] # "commit"
    BY <1>5, <2>3 DEF Retry, GiveUp, BeginAgain, EndAfterFailure, Fail, NoCommit, Goto, Busy, sqlite, history
  <2> QED
    BY <2>1, <2>2, <2>3
<1>6. ASSUME NEW c \in Conns, PrepareOk(c) PROVE CallInv'
  BY <1>6 DEF PrepareOk, sqlite, call, history
<1>7. ASSUME NEW c \in Conns, Begin(c) PROVE CallInv'
  BY <1>7 DEF Begin, Step, Goto, Busy, sqlite, call, history
<1>8. ASSUME NEW c \in Conns, BeginFails(c) PROVE CallInv'
  BY <1>8 DEF BeginFails, Step, GiveUp, BeginAgain, EndAfterFailure, Fail, NoCommit, Return,
       Goto, Succeeded, sqlite, call, history
<1>9. ASSUME NEW c \in Conns, Statement(c) PROVE CallInv'
  BY <1>9 DEF Statement, Step, Goto, sqlite, call, history
<1>10. ASSUME NEW c \in Conns, StatementFails(c) PROVE CallInv'
  BY <1>10 DEF StatementFails, Step, GiveUp, BeginAgain, EndAfterFailure, Fail, NoCommit, Return,
       Goto, Succeeded, AutoRollback, sqlite, call, history
<1>11. ASSUME NEW c \in Conns, Commit(c) PROVE CallInv'
  BY <1>11 DEF Commit, Step, Return, Goto, Succeeded, sqlite,
       call, history
<1>12. ASSUME NEW c \in Conns, CommitFails(c) PROVE CallInv'
  <2>1. /\ \A d \in Conns : pending'[d] \subseteq pending[d]
        /\ UNCHANGED committed
    BY <1>12 DEF CommitFails, AutoRollback, sqlite, history
  <2> QED
    BY <1>12, <2>1, ReturnKeepsCalls DEF CommitFails, NoCommit, Step
<1>13. ASSUME NEW c \in Conns, NextRow(c) PROVE CallInv'
  BY <1>13 DEF NextRow, Step, Busy, sqlite, call, history
<1>14. ASSUME NEW c \in Conns, NextEnd(c) PROVE CallInv'
  BY <1>14 DEF NextEnd, Step, Goto, sqlite, call, history
<1>15. ASSUME NEW c \in Conns, PrepareFails(c) PROVE CallInv'
  <2>1. CASE stage[c] = "commit"
    BY <1>15, <2>1, ReturnKeepsCalls DEF PrepareFails, GiveUp, NoCommit, sqlite
  <2>2. CASE stage[c] # "commit"
    BY <1>15, <2>2 DEF PrepareFails, GiveUp, BeginAgain, EndAfterFailure, Fail, Goto,
         sqlite, history
  <2> QED
    BY <2>1, <2>2
<1>16. ASSUME NEW c \in Conns, NextFails(c) PROVE CallInv'
  BY <1>16 DEF NextFails, Step, GiveUp, Goto, history
<1>17. ASSUME NEW c \in Conns, ReleaseStatement(c) \/ LeaveStatement(c) PROVE CallInv'
  BY <1>17 DEF ReleaseStatement, LeaveStatement, Unstepped, Goto, sqlite, history
<1>18. CASE UNCHANGED vars
  BY <1>18 DEF vars, sqlite, call, history
<1> QED
  BY <1>1, <1>2, <1>3, <1>4, <1>5, <1>6, <1>7, <1>8, <1>9, <1>10, <1>11,
       <1>12, <1>13, <1>14, <1>15, <1>16, <1>17, <1>18 DEF Next, Run, Finished

\* A return without a COMMIT leaves the call lost or failed.
LEMMA NoCommitTx ==
  ASSUME TypeOK, LockInv, CallInv, TxInv, NEW c \in Conns, stage[c] = "commit",
         NoCommit(c), UNCHANGED <<committed, calls, failed, open>>,
         UNCHANGED sqlite \/ AutoRollback(c)
  PROVE  TxInv'
PROOF
<1> USE DEF TypeOK, TxOk
<1>1. /\ stage' = [stage EXCEPT ![c] = "idle"]
      /\ result' = [result EXCEPT ![c] = [call |-> calls[c], ok |-> ~failed[c]]]
      /\ lost' = [lost EXCEPT ![c] = @ \union {calls[c]}]
  BY DEF NoCommit, Return, Goto, Succeeded
<1>2. /\ pending'[c] = {} \/ (pending'[c] = pending[c] /\ inTx'[c] = inTx[c])
      /\ inTx'[c] => inTx[c]
      /\ pending'[c] # {} => inTx'[c]
  BY DEF AutoRollback, sqlite, TxInv
<1>3. TxOk(c)'
  <2>1. /\ stage'[c] = "idle" /\ result'[c].call = calls[c]
        /\ lost'[c] = lost[c] \union {calls[c]}
    BY <1>1
  <2>2. TxOk(c) /\ calls[c] \in Nat
    BY DEF TxInv
  <2> QED
    BY <1>2, <2>1, <2>2
<1>4. ASSUME NEW d \in Conns, d # c PROVE TxOk(d)'
  <2>1. /\ stage'[d] = stage[d] /\ result'[d] = result[d] /\ lost'[d] = lost[d]
        /\ inTx'[d] = inTx[d] /\ pending'[d] = pending[d]
    BY <1>1, <1>4 DEF AutoRollback, sqlite
  <2>2. TxOk(d)
    BY DEF TxInv
  <2> QED
    BY <2>1, <2>2
<1> HIDE DEF TypeOK, TxOk
<1> QED
  BY <1>3, <1>4 DEF TxInv

\* A new call has a number of its own.
LEMMA CallTx ==
  ASSUME TypeOK, CallInv, TxInv, NEW c \in Conns, NEW s \in {"begin", "query"},
         Call(c, s)
  PROVE  TxInv'
PROOF
<1>1. /\ stage[c] = "idle" /\ open[c] /\ stage' = [stage EXCEPT ![c] = s]
      /\ calls' = [calls EXCEPT ![c] = @ + 1]
      /\ failed' = [failed EXCEPT ![c] = FALSE]
      /\ UNCHANGED <<inTx, pending, committed, open, result, lost>>
  BY DEF Call, Goto, sqlite, history
<1>2. TxOk(c)'
  <2>1. TxOk(c) /\ CallOk(c) /\ calls[c] \in Nat /\ lost[c] \subseteq Nat
    BY DEF TxInv, CallInv, TypeOK
  <2>2. calls'[c] = calls[c] + 1 /\ stage'[c] = s
    BY <1>1 DEF TypeOK
  <2>3. calls'[c] \notin committed[c] \union lost[c]
    BY <2>1, <2>2 DEF CallOk, TxOk
  <2> QED
    BY <1>1, <2>1, <2>2, <2>3 DEF TxOk
<1>3. ASSUME NEW d \in Conns, d # c PROVE TxOk(d)'
  BY <1>1, <1>3 DEF TypeOK, TxInv, TxOk
<1> QED
  BY <1>2, <1>3 DEF TxInv

\* Every step keeps what the transactions hold.
LEMMA TxStep ==
  ASSUME TypeOK, LockInv, CallInv, TxInv, [Next]_vars
  PROVE  TxInv'
PROOF
<1> USE SqliteAssumption DEF TypeOK, LockInv, TxInv, TxOk
<1>1. ASSUME NEW c \in Conns, OpenConnection(c) PROVE TxInv'
  BY <1>1 DEF OpenConnection, sqlite, call, history
<1>2. ASSUME NEW c \in Conns, Execute(c) PROVE TxInv'
  BY <1>2, CallTx DEF Execute
<1>3. ASSUME NEW c \in Conns, ExecuteClosed(c) PROVE TxInv'
  BY <1>3 DEF ExecuteClosed, sqlite
<1>4. ASSUME NEW c \in Conns, ExecuteSelect(c) PROVE TxInv'
  BY <1>4, CallTx DEF ExecuteSelect
<1>5. ASSUME NEW c \in Conns, Retry(c) PROVE TxInv'
  <2>1. CASE MoreAttempts(c)
    BY <1>5, <2>1 DEF Retry, sqlite, history
  <2>2. CASE ~MoreAttempts(c) /\ stage[c] = "commit"
    <3>1. NoCommit(c) /\ UNCHANGED <<sqlite, open, calls, failed>>
      BY <1>5, <2>2 DEF Retry, GiveUp
    <3> HIDE DEF TypeOK, LockInv, TxInv
    <3> QED
      BY <2>2, <3>1, NoCommitTx DEF sqlite
  <2>3. CASE ~MoreAttempts(c) /\ stage[c] # "commit"
    BY <1>5, <2>3 DEF Retry, GiveUp, BeginAgain, EndAfterFailure, Fail, Goto,
         Busy, sqlite, history
  <2> QED
    BY <2>1, <2>2, <2>3
<1>6. ASSUME NEW c \in Conns, PrepareOk(c) PROVE TxInv'
  BY <1>6 DEF PrepareOk, sqlite, history
<1>7. ASSUME NEW c \in Conns, Begin(c) PROVE TxInv'
  BY <1>7 DEF Begin, Step, Goto, history
<1>8. ASSUME NEW c \in Conns, BeginFails(c) PROVE TxInv'
  BY <1>8 DEF BeginFails, Step, GiveUp, BeginAgain, Goto, sqlite, history
<1>9. ASSUME NEW c \in Conns, Statement(c) PROVE TxInv'
  BY <1>9 DEF Statement, Step, CallInv, CallOk, Goto, history
<1>10. ASSUME NEW c \in Conns, StatementFails(c) PROVE TxInv'
  <2>1. /\ stage[c] = "sql" /\ stage' = [stage EXCEPT ![c] = "commit"]
        /\ failed' = [failed EXCEPT ![c] = TRUE]
        /\ UNCHANGED <<open, calls, committed, lost, result>>
    BY <1>10 DEF StatementFails, Step, GiveUp, EndAfterFailure, Fail, Goto,
         AutoRollback, sqlite, history
  <2>2. CASE UNCHANGED sqlite
    BY <2>1, <2>2 DEF sqlite
  <2>3. CASE AutoRollback(c)
    BY <2>1, <2>3 DEF AutoRollback
  <2> QED
    BY <1>10, <2>2, <2>3 DEF StatementFails
<1>11. ASSUME NEW c \in Conns, Commit(c) PROVE TxInv'
  <2>1. /\ stage' = [stage EXCEPT ![c] = "idle"]
        /\ inTx' = [inTx EXCEPT ![c] = FALSE]
        /\ pending' = [pending EXCEPT ![c] = {}]
        /\ result' = [result EXCEPT ![c] = [call |-> calls[c], ok |-> ~failed[c]]]
        /\ committed' = [committed EXCEPT ![c] = @ \union pending[c]]
        /\ UNCHANGED <<calls, failed, open, lost>>
    BY <1>11 DEF Commit, Return, Goto, Succeeded
  <2>2. TxOk(c)'
    <3>1. /\ stage'[c] = "idle" /\ ~inTx'[c] /\ pending'[c] = {}
          /\ result'[c].call = calls[c] /\ (result'[c].ok <=> ~failed[c])
          /\ committed'[c] = committed[c] \union pending[c]
      BY <2>1
    <3>2. /\ stage[c] = "commit" /\ calls[c] \in Nat
          /\ pending[c] = IF failed[c] THEN {} ELSE {calls[c]}
      BY <1>11 DEF Commit, Step
    <3>3. calls[c] \notin lost[c] /\ \A k \in lost[c] : k <= calls[c] /\ k \notin committed[c]
      BY <3>2
    <3> QED
      BY <2>1, <3>1, <3>2, <3>3
  <2>3. ASSUME NEW d \in Conns, d # c PROVE TxOk(d)'
    BY <2>1, <2>3
  <2> HIDE DEF TypeOK, LockInv, TxOk
  <2> QED
    BY <2>2, <2>3
<1>12. ASSUME NEW c \in Conns, CommitFails(c) PROVE TxInv'
  <2>1. /\ stage[c] = "commit" /\ NoCommit(c)
        /\ UNCHANGED <<committed, calls, failed, open>>
        /\ UNCHANGED sqlite \/ AutoRollback(c)
    BY <1>12 DEF CommitFails, Step, AutoRollback, sqlite
  <2> HIDE DEF TypeOK, LockInv, TxInv
  <2> QED
    BY <2>1, NoCommitTx
<1>13. ASSUME NEW c \in Conns, NextRow(c) PROVE TxInv'
  BY <1>13 DEF NextRow, history
<1>14. ASSUME NEW c \in Conns, NextEnd(c) PROVE TxInv'
  BY <1>14 DEF NextEnd, Step, Goto, history
<1>15. ASSUME NEW c \in Conns, PrepareFails(c) PROVE TxInv'
  <2>1. CASE stage[c] = "commit"
    <3>1. NoCommit(c) /\ UNCHANGED <<sqlite, open, calls, failed>>
      BY <1>15, <2>1 DEF PrepareFails, GiveUp
    <3> HIDE DEF TypeOK, LockInv, TxInv
    <3> QED
      BY <2>1, <3>1, NoCommitTx DEF sqlite
  <2>2. CASE stage[c] # "commit"
    BY <1>15, <2>2 DEF PrepareFails, GiveUp, BeginAgain, EndAfterFailure, Fail, Goto,
         sqlite, history
  <2> QED
    BY <2>1, <2>2
<1>16. ASSUME NEW c \in Conns, NextFails(c) PROVE TxInv'
  BY <1>16 DEF NextFails, Step, GiveUp, Goto, history
<1>17. ASSUME NEW c \in Conns, ReleaseStatement(c) \/ LeaveStatement(c) PROVE TxInv'
  <2>1. /\ stage[c] = "query" /\ stage' = [stage EXCEPT ![c] = "idle"]
        /\ UNCHANGED <<inTx, pending, committed, open, calls, failed, lost, result>>
    BY <1>17 DEF ReleaseStatement, LeaveStatement, Unstepped, Goto, sqlite, history
  <2>2. ~inTx[c] \/ result[c].call \in lost[c]
    BY <2>1
  <2> QED
    BY <2>1, <2>2
<1>18. CASE UNCHANGED vars
  BY <1>18 DEF vars, sqlite, call, history
<1> QED
  BY <1>1, <1>2, <1>3, <1>4, <1>5, <1>6, <1>7, <1>8, <1>9, <1>10, <1>11,
       <1>12, <1>13, <1>14, <1>15, <1>16, <1>17, <1>18 DEF Next, Run, Finished

-----------------------------------------------------------------------------
\* The inductive invariant: transactions and locks belong together, statements of
\* a call run once and in its own stage.
THEOREM Invariance == Spec => []IInv
PROOF
<1>1. Init => IInv
  <2> USE SqliteAssumption DEF Init, Stages, NoResult
  <2>1. Init => TypeOK
    <3>1. 0 \in 0 .. Attempts - 1 /\ 0 \in 0 .. MaxCalls
      OBVIOUS
    <3> QED
      BY <3>1 DEF TypeOK
  <2>2. Init => StatementInv /\ LockInv
    BY DEF StatementInv, LockInv
  <2>3. Init => CallInv /\ TxInv
    BY DEF CallInv, CallOk, TxInv, TxOk
  <2> QED
    BY <2>1, <2>2, <2>3 DEF IInv
<1>2. IInv /\ [Next]_vars => IInv'
  BY TypeStep, StatementsStep, LockStep, CallStep, TxStep DEF IInv
<1> QED
  BY <1>1, <1>2, PTL DEF Spec

\* The variables keep their types.
THEOREM TypeCorrect == Spec => []TypeOK
PROOF
<1>1. IInv => TypeOK
  BY DEF IInv
<1> QED
  BY <1>1, Invariance, PTL

\* Whatever fails, every path of a call finalizes the statement that it prepared before
\* the next one is prepared, but the early return of setActive.
THEOREM StatementsCorrect == Spec => []StatementsReleased
PROOF
<1>1. IInv => StatementsReleased
  BY DEF IInv, StatementInv, StatementsReleased
<1> QED
  BY <1>1, Invariance, PTL

\* What Execute reported as failed is never committed, whatever fails, COMMIT
\* included.
THEOREM FailedCorrect == Spec => []FailedIsAbsent
PROOF
<1>1. IInv => FailedIsAbsent
  BY DEF IInv, CallInv, CallOk, FailedIsAbsent
<1> QED
  BY <1>1, Invariance, PTL

\* A connection outside its calls holds no lock, and a transaction only if COMMIT
\* failed in its last Execute.
THEOREM TransactionCorrect == Spec => []TransactionClosed
PROOF
<1>1. IInv => TransactionClosed
  BY DEF IInv, LockInv, TxInv, TxOk, TransactionClosed
<1> QED
  BY <1>1, Invariance, PTL

\* What Execute reported as done is durable or its COMMIT failed, and a call whose
\* COMMIT failed is never durable.
THEOREM DurableCorrect == Spec => []ReportedIsDurable
PROOF
<1>1. IInv => ReportedIsDurable
  BY DEF IInv, TxInv, TxOk, ReportedIsDurable
<1> QED
  BY <1>1, Invariance, PTL

-----------------------------------------------------------------------------
\* A step of connection c to stage s shows only in what c is asked for.
LEMMA DoingChange ==
  ASSUME TypeOK, NEW c \in Conns, NEW s \in Stages, stage' = [stage EXCEPT ![c] = s]
  PROVE  doing' = [doing EXCEPT ![c] = AskedFor(s)]
PROOF
  BY DEF TypeOK, doing

\* A step between two stages of one kind of call leaves the promise as it is, if it
\* neither ends a held transaction nor holds one.
LEMMA HiddenStep ==
  ASSUME TypeOK, NEW c \in Conns, NEW s \in Stages, stage' = [stage EXCEPT ![c] = s],
         AskedFor(s) = AskedFor(stage[c]), UNCHANGED <<calls, committed, lost, result>>,
         \A d \in Conns : d \in Held' <=> d \in Held
  PROVE  UNCHANGED Promised!vars
PROOF
<1>1. doing' = doing
  BY DoingChange DEF TypeOK, doing
<1>2. Held' = Held
  BY DEF Held
<1> QED
  BY <1>1, <1>2 DEF Promised!vars

\* A return from Execute without a COMMIT fails or loses the call.
LEMMA LoseStep ==
  ASSUME IInv, NEW c \in Conns, stage[c] = "commit", NoCommit(c),
         UNCHANGED <<committed, calls>>, UNCHANGED sqlite \/ AutoRollback(c)
  PROVE  Promised!Next
PROOF
<1>1. /\ stage' = [stage EXCEPT ![c] = "idle"]
      /\ result' = [result EXCEPT ![c] = [call |-> calls[c], ok |-> ~failed[c]]]
      /\ lost' = [lost EXCEPT ![c] = @ \union {calls[c]}]
  BY DEF NoCommit, Return, Goto, Succeeded
<1>2. doing' = [doing EXCEPT ![c] = "nothing"] /\ doing[c] = "execute"
  <2>1. AskedFor("idle") = "nothing" /\ AskedFor(stage[c]) = "execute"
    BY DEF AskedFor
  <2> QED
    BY <1>1, <2>1, DoingChange DEF IInv, Stages, doing
<1>3. \A d \in Conns : d # c => stage'[d] = stage[d] /\ (inTx'[d] <=> inTx[d])
  BY <1>1 DEF IInv, TypeOK, AutoRollback, sqlite
<1>4. Held' \in {Held, Held \union {c}}
  <2>1. c \notin Held
    BY DEF Held
  <2>2. \A d \in Conns : d # c => (d \in Held' <=> d \in Held)
    BY <1>3 DEF Held
  <2>3. Held' \subseteq Conns /\ Held \subseteq Conns
    BY DEF Held
  <2>4. CASE c \in Held'
    BY <2>2, <2>3, <2>4
  <2>5. CASE c \notin Held'
    BY <2>1, <2>2, <2>3, <2>5
  <2> QED
    BY <2>4, <2>5
<1>5. ~failed[c] => Held = {}
  <2>1. ASSUME ~failed[c] PROVE writer = c
    <3>1. pending[c] = {calls[c]}
      BY <2>1 DEF IInv, TxInv, TxOk
    <3> QED
      BY <3>1 DEF IInv, TxInv, TxOk, LockInv
  <2>2. writer = c => \A d \in Conns : inTx[d] => d = c
    BY DEF IInv, LockInv
  <2> QED
    BY <2>1, <2>2 DEF Held
<1>6. CASE failed[c]
  <2>1. [call |-> calls[c], ok |-> ~failed[c]] = [call |-> calls[c], ok |-> FALSE]
    BY <1>6
  <2>2. Promised!Lose(c, FALSE)
    BY <1>1, <1>2, <1>4, <2>1 DEF Promised!Lose, Promised!Report, Promised!Add
  <2> QED
    BY <2>2 DEF Promised!Next
<1>7. CASE ~failed[c]
  <2>1. [call |-> calls[c], ok |-> ~failed[c]] = [call |-> calls[c], ok |-> TRUE]
    BY <1>7
  <2>2. Promised!Lose(c, TRUE)
    BY <1>1, <1>2, <1>4, <1>5, <1>7, <2>1
       DEF Promised!Lose, Promised!Report, Promised!Add
  <2> QED
    BY <2>2 DEF Promised!Next
<1> QED
  BY <1>6, <1>7

\* Every step of the connections is a step of the promise or leaves it as it is.
LEMMA DbStep ==
  ASSUME IInv, [Next]_vars
  PROVE  [Promised!Next]_(Promised!vars)
PROOF
<1> USE DEF Stages
<1>1. ASSUME NEW c \in Conns, OpenConnection(c) PROVE UNCHANGED Promised!vars
  BY <1>1 DEF OpenConnection, Promised!vars, doing, Held, sqlite, call, history
<1>2. ASSUME NEW c \in Conns, NEW s \in {"begin", "query"}, Call(c, s)
      PROVE  Promised!Next
  <2>1. /\ stage[c] = "idle" /\ stage' = [stage EXCEPT ![c] = s]
        /\ calls' = [calls EXCEPT ![c] = @ + 1]
        /\ UNCHANGED <<inTx, committed, lost, result>>
    BY <1>2 DEF Call, Goto, sqlite, history
  <2>2. doing' = [doing EXCEPT ![c] = AskedFor(s)] /\ doing[c] = "nothing"
    BY <2>1, DoingChange DEF IInv, doing, AskedFor
  <2>3. Held' = Held
    BY <2>1 DEF IInv, TypeOK, Held
  <2>4. AskedFor(s) \in {"execute", "query"}
    BY DEF AskedFor
  <2>5. Promised!Start(c, AskedFor(s))
    BY <2>1, <2>2, <2>3 DEF Promised!Start
  <2> QED
    BY <2>4, <2>5 DEF Promised!Next
<1>3. ASSUME NEW c \in Conns, ExecuteClosed(c) PROVE Promised!Next
  <2>1. Promised!Refuse(c)
    BY <1>3 DEF ExecuteClosed, Promised!Refuse, doing, AskedFor, Held, sqlite
  <2> QED
    BY <2>1 DEF Promised!Next
<1>4. ASSUME NEW c \in Conns, stage[c] = "query", Goto(c, "idle"),
             UNCHANGED <<inTx, committed, calls, history>>
      PROVE  Promised!Next
  <2>1. stage' = [stage EXCEPT ![c] = "idle"]
    BY <1>4 DEF Goto
  <2>2. doing' = [doing EXCEPT ![c] = "nothing"] /\ doing[c] = "query"
    BY <1>4, <2>1, DoingChange DEF IInv, doing, AskedFor
  <2>3. Held' = Held
    BY <1>4, <2>1 DEF IInv, TypeOK, Held
  <2>4. Promised!Answer(c)
    BY <1>4, <2>2, <2>3 DEF Promised!Answer, history
  <2> QED
    BY <2>4 DEF Promised!Next
<1>5. ASSUME NEW c \in Conns, GiveUp(c), stage[c] # "commit",
             UNCHANGED <<calls, committed>>, UNCHANGED inTx \/ (AutoRollback(c) /\ stage[c] = "sql")
      PROVE  [Promised!Next]_(Promised!vars)
  <2>1. CASE stage[c] = "begin"
    <3>1. stage' = [stage EXCEPT ![c] = "begin"] /\ UNCHANGED <<inTx, lost, result>>
      BY <1>5, <2>1 DEF GiveUp, BeginAgain, Goto, history
    <3> QED
      BY <1>5, <2>1, <3>1, HiddenStep DEF IInv, TypeOK, Held
  <2>2. CASE stage[c] = "sql"
    <3>1. stage' = [stage EXCEPT ![c] = "commit"] /\ UNCHANGED <<lost, result>>
      BY <1>5, <2>2 DEF GiveUp, EndAfterFailure, Goto, history
    <3>2. AskedFor("commit") = AskedFor(stage[c])
      BY <2>2 DEF AskedFor
    <3>3. \A d \in Conns : d \in Held' <=> d \in Held
      BY <1>5, <2>2, <3>1 DEF IInv, TypeOK, Held, AutoRollback
    <3> QED
      BY <1>5, <3>1, <3>2, <3>3, HiddenStep DEF IInv
  <2>3. CASE stage[c] = "query"
    BY <1>4, <1>5, <2>3 DEF GiveUp, history
  <2> QED
    BY <1>5, <2>1, <2>2, <2>3 DEF GiveUp
<1>6. ASSUME NEW c \in Conns, Retry(c) PROVE [Promised!Next]_(Promised!vars)
  <2>1. CASE UNCHANGED <<stage, history>>
    BY <1>6, <2>1 DEF Retry, Promised!vars, doing, Held, sqlite, history
  <2>2. CASE GiveUp(c) /\ stage[c] # "commit"
    BY <1>5, <1>6, <2>2 DEF Retry, sqlite
  <2>3. CASE GiveUp(c) /\ stage[c] = "commit"
    <3>1. NoCommit(c)
      BY <2>3 DEF GiveUp
    <3> QED
      BY <1>6, <2>3, <3>1, LoseStep DEF Retry, sqlite
  <2> QED
    BY <1>6, <2>1, <2>2, <2>3 DEF Retry
<1>7. ASSUME NEW c \in Conns, PrepareOk(c) \/ NextRow(c) \/ NextEnd(c)
      PROVE  UNCHANGED Promised!vars
  BY <1>7 DEF PrepareOk, NextRow, NextEnd, Promised!vars, doing, Held, sqlite, history
<1>8. ASSUME NEW c \in Conns, Begin(c) PROVE UNCHANGED Promised!vars
  <2>1. /\ stage[c] = "begin" /\ stage' = [stage EXCEPT ![c] = "sql"]
        /\ ~inTx[c] /\ inTx' = [inTx EXCEPT ![c] = TRUE]
        /\ UNCHANGED <<calls, committed, lost, result>>
    BY <1>8 DEF Begin, Step, Goto, history
  <2>2. AskedFor("sql") = AskedFor(stage[c])
    BY <2>1 DEF AskedFor
  <2>3. \A d \in Conns : d \in Held' <=> d \in Held
    BY <2>1 DEF IInv, TypeOK, Held
  <2> QED
    BY <2>1, <2>2, <2>3, HiddenStep DEF IInv
<1>9. ASSUME NEW c \in Conns, Statement(c) PROVE UNCHANGED Promised!vars
  <2>1. /\ stage[c] = "sql" /\ stage' = [stage EXCEPT ![c] = "commit"]
        /\ UNCHANGED <<inTx, calls, committed, lost, result>>
    BY <1>9 DEF Statement, Step, Goto, history
  <2>2. AskedFor("commit") = AskedFor(stage[c])
    BY <2>1 DEF AskedFor
  <2>3. \A d \in Conns : d \in Held' <=> d \in Held
    BY <2>1 DEF IInv, TypeOK, Held
  <2> QED
    BY <2>1, <2>2, <2>3, HiddenStep DEF IInv
<1>10. ASSUME NEW c \in Conns, BeginFails(c) \/ StatementFails(c)
       PROVE  [Promised!Next]_(Promised!vars)
  <2>1. /\ GiveUp(c) /\ stage[c] # "commit" /\ UNCHANGED <<calls, committed>>
        /\ UNCHANGED inTx \/ (AutoRollback(c) /\ stage[c] = "sql")
    BY <1>10 DEF BeginFails, StatementFails, Step, AutoRollback, sqlite
  <2> QED
    BY <1>5, <2>1
<1>11. ASSUME NEW c \in Conns, Commit(c) PROVE Promised!Next
  <2>1. /\ stage[c] = "commit" /\ inTx[c] /\ stage' = [stage EXCEPT ![c] = "idle"]
        /\ inTx' = [inTx EXCEPT ![c] = FALSE]
        /\ committed' = [committed EXCEPT ![c] = @ \union pending[c]]
        /\ result' = [result EXCEPT ![c] = [call |-> calls[c], ok |-> ~failed[c]]]
        /\ UNCHANGED <<calls, lost>>
    BY <1>11 DEF Commit, Step, Return, Goto, Succeeded
  <2>2. doing' = [doing EXCEPT ![c] = "nothing"] /\ doing[c] = "execute"
    <3>1. AskedFor("idle") = "nothing" /\ AskedFor(stage[c]) = "execute"
      BY <2>1 DEF AskedFor
    <3> QED
      BY <2>1, <3>1, DoingChange DEF IInv, doing
  <2>3. Held = {} /\ Held' = {}
    BY <2>1 DEF IInv, TypeOK, LockInv, Held
  <2>4. CASE failed[c]
    <3>1. pending[c] = {}
      BY <2>1, <2>4 DEF IInv, TxInv, TxOk
    <3>2. UNCHANGED committed
      BY <2>1, <3>1 DEF IInv, TypeOK
    <3>3. [call |-> calls[c], ok |-> ~failed[c]] = [call |-> calls[c], ok |-> FALSE]
      BY <2>4
    <3>4. Promised!Fail(c)
      BY <2>1, <2>2, <2>3, <3>2, <3>3 DEF Promised!Fail, Promised!Report
    <3> QED
      BY <3>4 DEF Promised!Next
  <2>5. CASE ~failed[c]
    <3>1. pending[c] = {calls[c]}
      BY <2>1, <2>5 DEF IInv, TxInv, TxOk
    <3>2. [call |-> calls[c], ok |-> ~failed[c]] = [call |-> calls[c], ok |-> TRUE]
      BY <2>5
    <3>3. Promised!Done(c)
      BY <2>1, <2>2, <2>3, <3>1, <3>2 DEF Promised!Done, Promised!Report, Promised!Add
    <3> QED
      BY <3>3 DEF Promised!Next
  <2> QED
    BY <2>4, <2>5
<1>12. ASSUME NEW c \in Conns, CommitFails(c) PROVE Promised!Next
  <2>1. /\ stage[c] = "commit" /\ NoCommit(c) /\ UNCHANGED <<committed, calls>>
        /\ UNCHANGED sqlite \/ AutoRollback(c)
    BY <1>12 DEF CommitFails, Step, AutoRollback, sqlite
  <2> QED
    BY <2>1, LoseStep
<1>13. ASSUME NEW c \in Conns, ReleaseStatement(c) \/ LeaveStatement(c) PROVE Promised!Next
  <2>1. /\ stage[c] = "query" /\ Goto(c, "idle")
        /\ UNCHANGED <<inTx, committed, calls, history>>
    BY <1>13 DEF ReleaseStatement, LeaveStatement, Unstepped, sqlite, IInv, LockInv
  <2> QED
    BY <1>4, <2>1
<1>14. ASSUME NEW c \in Conns, PrepareFails(c) \/ NextFails(c)
       PROVE  [Promised!Next]_(Promised!vars)
  <2>1. GiveUp(c) /\ UNCHANGED <<calls, committed, inTx>>
    BY <1>14 DEF PrepareFails, NextFails, sqlite
  <2>2. CASE stage[c] # "commit"
    BY <1>5, <2>1, <2>2
  <2>3. CASE stage[c] = "commit"
    <3>1. NoCommit(c)
      BY <2>1, <2>3 DEF GiveUp
    <3>2. UNCHANGED sqlite
      BY <1>14, <2>3 DEF PrepareFails, NextFails, Step
    <3> QED
      BY <2>1, <2>3, <3>1, <3>2, LoseStep
  <2> QED
    BY <2>2, <2>3
<1>15. CASE UNCHANGED vars
  BY <1>15 DEF vars, Promised!vars, doing, Held, sqlite, call, history
<1> QED
  BY <1>1, <1>2, <1>3, <1>6, <1>7, <1>8, <1>9, <1>10, <1>11, <1>12, <1>13,
     <1>14, <1>15 DEF Next, Run, Finished, Execute, ExecuteSelect

\* The connections implement the promise: a call takes effect at once, or fails and
\* leaves nothing behind, or is lost with its COMMIT, after which nobody's call is
\* done while the transaction is held.
THEOREM Refinement == Spec => ImplementsDbCalls
PROOF
<1>1. Init => Promised!Init
  <2>1. Init => doing = [c \in Conns |-> "nothing"] /\ Held = {}
    BY DEF Init, doing, AskedFor, Held
  <2> QED
    BY <2>1 DEF Init, Promised!Init, NoResult
<1>2. IInv /\ [Next]_vars => [Promised!Next]_(Promised!vars)
  BY DbStep
<1> QED
  BY <1>1, <1>2, Invariance, PTL DEF Spec, ImplementsDbCalls, Promised!Spec
=============================================================================
