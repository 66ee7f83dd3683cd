------------------------------ MODULE SessionIO ------------------------------
(***************************************************************************)
(* One CClientSession seen over time: the read that is always on its way,  *)
(* the answers being written, the tasks posted for fibo, and the timer that *)
(* drops a client which stays silent.                                      *)
(*                                                                         *)
(* timer_ never says why it calls on_check_ping: do_read sets a new expiry, *)
(* which cancels the wait armed before, and boost::bind drops the error    *)
(* code, so the handler of a cancelled wait and that of an expired one are *)
(* the same function.  It tells them apart by the age of last_ping_ alone, *)
(* and nothing arms the timer again after it.                              *)
(*                                                                         *)
(* Time passes in milliseconds.  Points in time are kept as ages or as the *)
(* time that is left, so the model is finite without a bound on the clock. *)
(* A timer handler that is ready waits at most Latency ms for a thread of  *)
(* the pool; a message, an error and the end of a write may take any time. *)
(* A handler is one step: those of a session share no lock across a call   *)
(* that waits (ClientRegistry has the interleavings of stop()).            *)
(***************************************************************************)
EXTENDS Naturals, FiniteSets

CONSTANTS MaxTimeout,   \* TimeoutToDropConnection, in ms
          Latency,      \* the longest a ready timer handler waits, in ms
          Kinds,        \* the messages the client sends, by their effect
          MaxFibo,      \* bound: fibo requests posted or being written
          MaxReady      \* bound: timer handlers that become ready in one ms

\* "answer": answered, then the next read; "fibo": the task is posted and the
\* next read started; "reread": only the next read (a camera event, an empty
\* message); "unknown": a command on_read has no branch for; "exit".
AllKinds == {"answer", "fibo", "reread", "unknown", "exit"}

ASSUME SessionAssumption ==
  /\ MaxTimeout \in Nat \ {0}
  /\ Latency \in Nat
  /\ Kinds \subseteq AllKinds
  /\ MaxFibo \in Nat
  /\ MaxReady \in Nat

VARIABLES
  started_,   \* CClientSession::started_
  reading,    \* async_reads outstanding
  answers,    \* async_writes outstanding whose completion calls do_read
  fibo,       \* do_get_fibo tasks posted and not yet run
  fiboSent,   \* async_writes outstanding that do_get_fibo started
  wait,       \* the time left until timer_ expires, or NoWait
  ready,      \* ready[a]: timer handlers that have been ready for a ms
  pingAge,    \* the age of last_ping_ (MaxTimeout stands for more, too)
  silent,     \* the client does not send any more
  readAges,   \* history: the ages of the calls of do_read (up to MaxTimeout)
  lastRead    \* history: the age of the last one (up to Overdue)

vars == <<started_, reading, answers, fibo, fiboSent, wait, ready, pingAge,
          silent, readAges, lastRead>>
history == <<readAges, lastRead>>

NoWait == MaxTimeout + 1
Overdue == MaxTimeout + Latency + 1
Older(a) == IF a < MaxTimeout THEN a + 1 ELSE a

\* start() has set last_ping_ and called do_read.
Init ==
  /\ started_ = TRUE
  /\ reading = 1
  /\ answers = 0
  /\ fibo = 0
  /\ fiboSent = 0
  /\ wait = MaxTimeout
  /\ ready = [a \in 0 .. Latency |-> 0]
  /\ pingAge = 0
  /\ silent = FALSE
  /\ readAges = {0}
  /\ lastRead = 0

-----------------------------------------------------------------------------
\* expires_from_now makes a handler of the wait that was armed.
post_check_ping ==
  /\ ready[0] < MaxReady
  /\ ready' = IF wait = NoWait THEN ready ELSE [ready EXCEPT ![0] = @ + 1]
  /\ wait' = MaxTimeout

\* Mutant: the timer is armed again, but nothing is read.
do_read_TimerOnly(done) ==
  /\ post_check_ping
  /\ reading' = reading - done
  /\ readAges' = readAges \union {0}
  /\ lastRead' = 0

\* The next async_read takes the place of the done ones that were taken.
do_read(done) ==
  /\ post_check_ping
  /\ reading' = reading - done + 1
  /\ readAges' = readAges \union {0}
  /\ lastRead' = 0

\* on_read returns without a call of do_read.
NoRead ==
  /\ reading' = reading - 1
  /\ UNCHANGED <<wait, ready, history>>

\* on_read for a message of a started session.
OnAnswered ==
  /\ "answer" \in Kinds
  /\ answers' = answers + 1
  /\ NoRead
  /\ UNCHANGED <<started_, fibo>>

OnFibo ==
  /\ "fibo" \in Kinds /\ fibo + fiboSent < MaxFibo
  /\ fibo' = fibo + 1
  /\ do_read(1)
  /\ UNCHANGED <<started_, answers>>

OnReread ==
  /\ "reread" \in Kinds
  /\ do_read(1)
  /\ UNCHANGED <<started_, answers, fibo>>

OnUnknown ==
  /\ "unknown" \in Kinds
  /\ NoRead
  /\ UNCHANGED <<started_, answers, fibo>>

\* stop(), to the end or until shutdown() fails: on_read catches that, and do_write
\* leaves the error unsent.
OnExit ==
  /\ "exit" \in Kinds
  /\ started_' = FALSE
  /\ NoRead
  /\ UNCHANGED <<answers, fibo>>

OnMessage ==
  /\ reading > 0 /\ started_ /\ ~silent
  /\ OnAnswered \/ OnFibo \/ OnReread \/ OnUnknown \/ OnExit
  /\ UNCHANGED <<fiboSent, pingAge, silent>>

\* The read fails (the peer closed, or stop() cancelled it), or it completes
\* for a session that was stopped meanwhile.
OnReadError ==
  /\ reading > 0
  /\ started_' = FALSE
  /\ NoRead
  /\ UNCHANGED <<answers, fibo, fiboSent, pingAge, silent>>

\* The answer was written, or its write failed: both start the next read.
WriteDone ==
  /\ answers > 0
  /\ answers' = answers - 1
  /\ do_read(0)
  /\ UNCHANGED <<started_, fibo, fiboSent, pingAge, silent>>

\* Mutant: the task runs although none was posted.
Posted_Always == TRUE

Posted == fibo > 0

\* Mutant: the answer is written with read_on_write left at its default.
WriteFibo_Reads ==
  /\ answers' = answers + 1
  /\ UNCHANGED fiboSent

WriteFibo ==
  /\ fiboSent' = fiboSent + 1
  /\ UNCHANGED answers

\* do_get_fibo on any thread of the pool: its do_write leaves reading to others.
DoGetFibo ==
  /\ Posted
  /\ fibo' = fibo - 1
  /\ \/ started_ /\ WriteFibo
     \/ ~started_ /\ UNCHANGED <<answers, fiboSent>>
  /\ UNCHANGED <<started_, reading, wait, ready, pingAge, silent, history>>

FiboWritten ==
  /\ fiboSent > 0
  /\ fiboSent' = fiboSent - 1
  /\ UNCHANGED <<started_, reading, answers, fibo, wait, ready, pingAge, silent,
                 history>>

-----------------------------------------------------------------------------
\* Mutants: the delay is compared with a timeout one millisecond off.
Expired_WholeTimeout == pingAge >= MaxTimeout
Expired_Early == pingAge >= MaxTimeout - 2

Expired == pingAge >= MaxTimeout - 1

\* One handler of timer_ that has been ready for a ms, of whichever kind.
OnCheckPing(a) ==
  /\ ready[a] > 0
  /\ ready' = [ready EXCEPT ![a] = @ - 1]
  /\ \/ Expired /\ started_' = FALSE
     \/ ~Expired /\ UNCHANGED started_
  /\ pingAge' = 0
  /\ UNCHANGED <<reading, answers, fibo, fiboSent, wait, silent, history>>

\* The expiry of timer_ is reached.
Expire ==
  /\ wait = 0
  /\ wait' = NoWait
  /\ ready' = [ready EXCEPT ![0] = @ + 1]
  /\ UNCHANGED <<started_, reading, answers, fibo, fiboSent, pingAge, silent,
                 history>>

\* A millisecond passes, unless a handler has to run first.
Tick ==
  /\ wait # 0 /\ ready[Latency] = 0
  /\ wait' = IF wait = NoWait THEN NoWait ELSE wait - 1
  /\ ready' = [a \in 0 .. Latency |-> IF a = 0 THEN 0 ELSE ready[a - 1]]
  /\ pingAge' = Older(pingAge)
  /\ readAges' = {Older(a) : a \in readAges}
  /\ lastRead' = IF lastRead < Overdue THEN lastRead + 1 ELSE lastRead
  /\ UNCHANGED <<started_, reading, answers, fibo, fiboSent, silent>>

GoSilent ==
  /\ ~silent
  /\ silent' = TRUE
  /\ UNCHANGED <<started_, reading, answers, fibo, fiboSent, wait, ready, pingAge,
                 history>>

Next ==
  \/ OnMessage \/ OnReadError \/ WriteDone \/ DoGetFibo \/ FiboWritten
  \/ \E a \in 0 .. Latency : OnCheckPing(a)
  \/ Expire \/ Tick \/ GoSilent

Spec == Init /\ [][Next]_vars

\* The clock runs and the pool runs the handlers of timer_; neither a message
\* nor the end of a write is promised.
FairSpec ==
  /\ Spec
  /\ WF_vars(Tick)
  /\ WF_vars(Expire)
  /\ \A a \in 0 .. Latency : WF_vars(OnCheckPing(a))

-----------------------------------------------------------------------------
\* Types of the variables; the counts of operations are never negative.
TypeOK ==
  /\ started_ \in BOOLEAN
  /\ reading \in Nat
  /\ answers \in Nat
  /\ fibo \in Nat
  /\ fiboSent \in Nat
  /\ wait \in 0 .. NoWait
  /\ ready \in [0 .. Latency -> Nat]
  /\ pingAge \in 0 .. MaxTimeout
  /\ silent \in BOOLEAN
  /\ readAges \subseteq 0 .. MaxTimeout
  /\ lastRead \in 0 .. Overdue

\* read_buffer_ has one user: the session reads once at a time, and a write
\* whose completion will read excludes a read on its way (why do_get_fibo
\* passes false to do_write).
OneReadChain == reading + answers <= 1

\* A started session waits for its client or is about to.
Listening == started_ => reading + answers > 0

\* No command that the server knows, no failed write and no late handler leaves
\* a started session deaf; the branch that on_read lacks does.
DeafOnlyIfUnknown == [][Listening /\ ~Listening' => OnMessage /\ OnUnknown]_vars

\* Two async_writes never share the socket and write_buffer_ (asio requires
\* that no other write is performed until an async_write completes).
WritesExclusive == answers + fiboSent <= 1

\* A started session is never left without a timer handler that will look at
\* it, although on_check_ping arms no timer and any read cancels the wait.
TimerCovers == started_ => wait # NoWait \/ \E a \in 0 .. Latency : ready[a] > 0

\* Whatever becomes of its client and its writes, a session is dropped at the
\* latest MaxTimeout after its last do_read, plus what the handler waits for a
\* thread (the bounded form of IdleIsDropped).
DroppedInTime == started_ => lastRead <= MaxTimeout + Latency

\* A session is dropped for silence only if it called do_read for no message
\* since MaxTimeout - 1 ms, but for those whose timer handler is not run yet.
DroppedOnlyIfSilent ==
  [][started_ /\ ~started_' /\ ready' # ready =>
       \A r \in readAges : r <= Latency \/ r >= MaxTimeout - 1]_vars

\* The inductive invariant behind TimerCovers and DroppedOnlyIfSilent, when no
\* handler is more than a millisecond late.
TimerInv ==
  \* last_ping_ is at most a millisecond younger than the wait that is armed
  /\ started_ /\ wait # NoWait => pingAge + wait + 1 >= MaxTimeout
  \* after the expiry it is old enough, and the handler that sees so is ready
  /\ started_ /\ wait = NoWait =>
       pingAge + 1 >= MaxTimeout /\ \E a \in 0 .. Latency : ready[a] > 0
  \* the handlers that are ready belong to waits from before the armed one
  /\ wait # NoWait => \A a \in 0 .. Latency : ready[a] > 0 => MaxTimeout <= wait + a
  \* every do_read renews last_ping_, by a handler that is ready if not yet
  /\ started_ => \A r \in readAges :
       pingAge <= r \/ \E a \in 0 .. Latency : a >= r /\ ready[a] > 0

\* The armed wait is the one of the last do_read; after its expiry one of the
\* handlers that are ready has been so since then.
ReadInv ==
  /\ wait # NoWait => lastRead + wait = MaxTimeout
  /\ started_ /\ wait = NoWait =>
       \E a \in 0 .. Latency : ready[a] > 0 /\ lastRead <= MaxTimeout + a

\* A client that does not send any more is dropped, whatever its session was
\* doing (TimeoutToDropConnection).
IdleIsDropped == silent ~> ~started_
=============================================================================
