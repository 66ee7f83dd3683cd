------------------------------- MODULE DbCalls -------------------------------
(***************************************************************************)
(* What CSQLiteDB promises about its calls, without BEGIN, COMMIT, retries, *)
(* statement handles and locks: Execute takes effect at once, together with *)
(* its report, or reports a failure and leaves nothing behind.  The failure *)
(* that is not reported is the one of COMMIT: the call is reported as done, *)
(* is never durable, and may leave its connection in the way of every later *)
(* statement.                                                              *)
(***************************************************************************)
EXTENDS Naturals

CONSTANT Conns

VARIABLES
  doing,      \* what a connection is asked for: "nothing", "execute", "query"
  calls,      \* the number of its current or last call
  committed,  \* the durable calls
  lost,       \* the calls whose COMMIT failed
  result,     \* what Execute returned last
  held        \* the connections a failed COMMIT left with a transaction

vars == <<doing, calls, committed, lost, result, held>>

Init ==
  /\ doing = [c \in Conns |-> "nothing"]
  /\ calls = [c \in Conns |-> 0]
  /\ committed = [c \in Conns |-> {}]
  /\ lost = [c \in Conns |-> {}]
  /\ result = [c \in Conns |-> [call |-> 0, ok |-> FALSE]]
  /\ held = {}

Start(c, what) ==
  /\ doing[c] = "nothing"
  /\ doing' = [doing EXCEPT ![c] = what]
  /\ calls' = [calls EXCEPT ![c] = @ + 1]
  /\ UNCHANGED <<committed, lost, result, held>>

\* Execute on a closed connection.
Refuse(c) ==
  /\ doing[c] = "nothing"
  /\ calls' = [calls EXCEPT ![c] = @ + 1]
  /\ result' = [result EXCEPT ![c] = [call |-> calls'[c], ok |-> FALSE]]
  /\ UNCHANGED <<doing, committed, lost, held>>

Answer(c) ==
  /\ doing[c] = "query"
  /\ doing' = [doing EXCEPT ![c] = "nothing"]
  /\ UNCHANGED <<calls, committed, lost, result, held>>

Report(c, ok) ==
  /\ doing[c] = "execute"
  /\ doing' = [doing EXCEPT ![c] = "nothing"]
  /\ result' = [result EXCEPT ![c] = [call |-> calls[c], ok |-> ok]]
  /\ UNCHANGED calls

Add(f, c) == f' = [f EXCEPT ![c] = @ \union {calls[c]}]

\* The call is done and durable; nobody's transaction is in its way.
Done(c) ==
  /\ held = {}
  /\ Report(c, TRUE)
  /\ Add(committed, c)
  /\ UNCHANGED <<lost, held>>

\* The statement failed and its transaction ended.
Fail(c) ==
  /\ Report(c, FALSE)
  /\ UNCHANGED <<committed, lost, held>>

\* COMMIT failed, and Execute reports what the statement did.
Lose(c, ok) ==
  /\ ok => held = {}
  /\ Report(c, ok)
  /\ Add(lost, c)
  /\ held' \in {held, held \union {c}}
  /\ UNCHANGED committed

Next ==
  \E c \in Conns : \/ \E what \in {"execute", "query"} : Start(c, what)
                   \/ Refuse(c) \/ Answer(c) \/ Done(c) \/ Fail(c)
                   \/ \E ok \in BOOLEAN : Lose(c, ok)

Spec == Init /\ [][Next]_vars
=============================================================================
