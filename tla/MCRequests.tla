------------------------------ MODULE MCRequests ------------------------------
(* An instance of Requests for TLC. *)
EXTENDS Requests

Number(m) == [kind |-> "number", n |-> m]
NoText == [kind |-> "missing", n |-> 0]
OfFibo(text) == [command |-> "fibo", message |-> text, event |-> FALSE]

\* Numbers of 3 bits: one whose Fibonacci number overflows and the largest, which
\* -1 stands for; no number at all; and a command of each other kind.
SomeMessages ==
  {OfFibo(Number(-1)), OfFibo(Number(6))} \union
  {[command |-> c, message |-> NoText, event |-> TRUE] : c \in {"ping", "fibo", "", "exit", "stop"}}
SomeEnds == {<<NL>>, <<NUL>>}

FibUpTo[n \in 0 .. 7] ==
  IF n <= 2 THEN 1 ELSE (FibUpTo[n - 1] + FibUpTo[n - 2]) % 8
=============================================================================
