----------------------------- MODULE Conversation -----------------------------
(***************************************************************************)
(* What a session promises its client, without bytes, buffer, queue and     *)
(* threads: they take turns.  In its turn the session executes one command  *)
(* that was sent, later than all those before, or none.  Then it answers,   *)
(* or gives the turn back, or says no more.  A Fibonacci request gives the  *)
(* turn back and is owed a number, whoever's turn it is when that is told,  *)
(* and it is told once.                                                    *)
(***************************************************************************)
EXTENDS Integers, Sequences

CONSTANTS W,   \* the range of the numbers
          Fib  \* the number that is owed for each of them

VARIABLES
  asked,     \* how many commands the client sent
  turn,      \* "client", "session", "answer" (an answer is on its way), "nobody"
  over,      \* the session was stopped
  executed,  \* the commands that were executed, in their order
  owed,      \* the numbers that are owed, and for which command
  fibs       \* those that were told

vars == <<asked, turn, over, executed, owed, fibs>>

Init ==
  /\ asked = 0
  /\ turn = "client"
  /\ over = FALSE
  /\ executed = <<>>
  /\ owed = {} /\ fibs = {}

Ask ==
  /\ asked' = asked + 1
  /\ UNCHANGED <<turn, over, executed, owed, fibs>>

Passes(from, to) == turn = from /\ turn' = to

\* A read brought something, or failed.
Hear ==
  /\ Passes("client", "session")
  /\ UNCHANGED <<asked, over, executed, owed, fibs>>

InOrder(k) == k \in 1 .. asked /\ \A i \in 1 .. Len(executed) : executed[i] < k

\* A command is executed: answered, done in silence, or the last one.
Execute(k) ==
  /\ ~over
  /\ InOrder(k)
  /\ \/ \E to \in {"client", "answer", "nobody"} : Passes("session", to) /\ over' = FALSE
     \/ Passes("session", "nobody") /\ over' = TRUE
  /\ executed' = Append(executed, k)
  /\ UNCHANGED <<asked, owed, fibs>>

\* A Fibonacci request is executed.
Owe(k, n) ==
  /\ ~over
  /\ InOrder(k)
  /\ Passes("session", "client")
  /\ executed' = Append(executed, k)
  /\ owed' = owed \union {[cmd |-> k, n |-> n]}
  /\ UNCHANGED <<asked, over, fibs>>

\* There was no command, or a part of one or more of them.
Miss ==
  /\ ~over
  /\ Passes("session", "client") \/ Passes("session", "answer")
  /\ UNCHANGED <<asked, over, executed, owed, fibs>>

\* The session hears no more.
Close ==
  /\ Passes("session", "nobody")
  /\ over' = TRUE
  /\ UNCHANGED <<asked, executed, owed, fibs>>

\* The answer is sent.
Answered ==
  /\ Passes("answer", "client")
  /\ UNCHANGED <<asked, over, executed, owed, fibs>>

Stop ==
  /\ over' = TRUE
  /\ UNCHANGED <<asked, turn, executed, owed, fibs>>

\* Nothing was told for the command before, and the largest number never is.
Tell(o) ==
  /\ ~over
  /\ o \in owed /\ o.n < W - 1
  /\ \A f \in fibs : f.cmd # o.cmd
  /\ owed' = owed \ {o}
  /\ fibs' = fibs \union {[cmd |-> o.cmd, n |-> o.n, value |-> Fib[o.n]]}
  /\ UNCHANGED <<asked, turn, over, executed>>

\* Nobody is there any more to be told.
Forget(o) ==
  /\ over
  /\ o \in owed
  /\ owed' = owed \ {o}
  /\ UNCHANGED <<asked, turn, over, executed, fibs>>

Next ==
  \/ Ask \/ Hear \/ Miss \/ Close \/ Answered \/ Stop
  \/ \E k \in 1 .. asked : Execute(k) \/ \E n \in 0 .. W - 1 : Owe(k, n)
  \/ \E o \in owed : Tell(o) \/ Forget(o)

Spec == Init /\ [][Next]_vars
=============================================================================
