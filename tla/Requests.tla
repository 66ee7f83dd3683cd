------------------------------- MODULE Requests -------------------------------
(***************************************************************************)
(* From the bytes a client sends to the commands that run: the read buffer  *)
(* of a CClientSession, on_read and the checks of CJsonParser, and the      *)
(* Fibonacci requests that the pool of threads computes.                   *)
(*                                                                         *)
(* The client sends commands one after another without waiting.  TCP keeps *)
(* their order and nothing else: a read brings any number of bytes that are *)
(* on their way.  A command is two tokens, its head and its tail, and may be *)
(* followed by a line feed or a NUL; neither part of a command, nor more    *)
(* than one command, is JSON.                                              *)
(*                                                                         *)
(* The queue is io_context's: the handlers that are ready, in their order.  *)
(* A handler is one step but for do_get_fibo, whose loop may last: it is a  *)
(* step per iteration, and its thread is taken meanwhile.                  *)
(***************************************************************************)
EXTENDS Integers, Sequences, FiniteSets

CONSTANTS Messages,    \* the commands the client may send
          Ends,        \* what may follow a command
          W,           \* 2^64: the range of size_t
          Fib,         \* the Fibonacci numbers modulo W
          NThreads,    \* threads of the pool
          BufferSize,  \* MAX_READ_BUFFER, in tokens
          MaxSent,     \* bound: commands sent
          MaxOthers    \* bound: handlers of other sessions

Commands == {"", "get_last_event", "login", "ping", "who", "fibo", "exit"}

\* A text: a number, the empty text, another one, or none at all.
Texts == [kind : {"number", "empty", "word", "missing"}, n : Int]

\* A command by what on_read asks of it; "" is a JSON without "command".
AllMessages == [command : STRING, message : Texts, event : BOOLEAN]

\* Tokens.
HeadOf(k) == [of |-> k, part |-> "head"]
TailOf(k) == [of |-> k, part |-> "tail"]
NL == [of |-> 0, part |-> "nl"]    \* CR or LF
NUL == [of |-> 0, part |-> "nul"]
Tokens == [of : 0 .. MaxSent, part : {"head", "tail", "nl", "nul"}]

ASSUME RequestsAssumption ==
  /\ Messages \subseteq AllMessages
  /\ Ends \subseteq {<<>>, <<NL>>, <<NUL>>}
  /\ W \in Nat /\ W > 3
  /\ NThreads \in Nat \ {0}
  /\ MaxSent \in Nat /\ MaxOthers \in Nat
  /\ BufferSize \in Nat /\ BufferSize > 3 * MaxSent  \* no read fills the buffer

\* The reference: Fib[0] stands for what is answered to 0.
ASSUME FibAssumption ==
  /\ Fib \in [0 .. W - 1 -> 0 .. W - 1]
  /\ \A n \in 0 .. 2 : Fib[n] = 1
  /\ \A n \in 3 .. W - 1 : Fib[n] = (Fib[n - 1] + Fib[n - 2]) % W

VARIABLES
  sent,         \* history: the commands the client sent
  stream,       \* the bytes on their way
  started_,     \* CClientSession::started_
  reading,      \* async_reads outstanding
  read_buffer_,
  got,          \* what the read that is being handled brought
  writing,      \* async_writes outstanding whose completion calls do_read
  queue,        \* the handlers that are ready
  running,      \* the calls of do_get_fibo that threads of the pool are in
  others,       \* bound: handlers of other sessions so far
  executed,     \* history: the commands whose JSON on_read has dispatched
  alone,        \* history: the commands that a read brought alone
  fibs          \* history: the answers to Fibonacci requests

client == <<sent, stream>>
session == <<started_, reading, read_buffer_, got, writing>>
pool == <<queue, running, others>>
history == <<executed, alone, fibs>>
vars == <<client, session, pool, history>>

Jobs == [what : {"read", "failed", "written", "fibo", "other"},
         cmd : 0 .. MaxSent, n : 0 .. W - 1]
Job(what) == [what |-> what, cmd |-> 0, n |-> 0]
FiboJob(k, m) == [what |-> "fibo", cmd |-> k, n |-> m]

Zeroes == [j \in 1 .. BufferSize |-> NUL]

\* start() has called do_read.
Init ==
  /\ sent = <<>> /\ stream = <<>>
  /\ started_ = TRUE /\ reading = 1 /\ read_buffer_ = Zeroes /\ got = <<>>
  /\ writing = 0
  /\ queue = <<>> /\ running = {} /\ others = 0
  /\ executed = <<>> /\ alone = {} /\ fibs = {}

-----------------------------------------------------------------------------
Send(m, end) ==
  /\ Len(sent) < MaxSent
  /\ sent' = Append(sent, m)
  /\ stream' = stream \o <<HeadOf(Len(sent) + 1), TailOf(Len(sent) + 1)>> \o end
  /\ UNCHANGED <<session, pool, history>>

\* async_read, transfer_at_least(1): the first bytes on their way.
Receive(n) ==
  /\ reading > 0 /\ started_
  /\ got' = SubSeq(stream, 1, n)
  /\ stream' = SubSeq(stream, n + 1, Len(stream))
  /\ read_buffer_' = [j \in 1 .. BufferSize |->
                        IF j <= n THEN stream[j] ELSE read_buffer_[j]]
  /\ reading' = reading - 1
  /\ queue' = Append(queue, Job("read"))
  /\ UNCHANGED <<sent, started_, writing, running, others, history>>

\* The peer closed the connection, or stop() did.
ReadFails ==
  /\ reading > 0
  /\ reading' = reading - 1
  /\ queue' = Append(queue, Job("failed"))
  /\ UNCHANGED <<client, started_, read_buffer_, got, writing, running, others,
                 history>>

\* The end of an async_write, well or not.
WriteEnds ==
  /\ writing > 0
  /\ writing' = writing - 1
  /\ queue' = Append(queue, Job("written"))
  /\ UNCHANGED <<client, started_, reading, read_buffer_, got, running, others,
                 history>>

\* stop(), called by the timer.
Drop ==
  /\ started_
  /\ started_' = FALSE
  /\ UNCHANGED <<client, reading, read_buffer_, got, writing, pool, history>>

\* A handler of another session becomes ready.
Other ==
  /\ others < MaxOthers
  /\ others' = others + 1
  /\ queue' = Append(queue, Job("other"))
  /\ UNCHANGED <<client, session, running, history>>

-----------------------------------------------------------------------------
\* A thread of the pool is free and takes the first handler.
Take(what) ==
  /\ Cardinality(running) < NThreads
  /\ queue # <<>> /\ Head(queue).what = what

Done == queue' = Tail(queue)

\* Mutant: the computation is not posted.
Post_Lost(job) == queue' = Tail(queue)

Post(job) == queue' = Append(Tail(queue), job)

\* Mutant: the buffer keeps what the read before left in it.
Zeroed_Not == read_buffer_

Zeroed == Zeroes

do_read ==
  /\ reading' = reading + 1
  /\ read_buffer_' = Zeroed
  /\ UNCHANGED <<started_, writing>>

\* do_write of an answer, by the handler of a started session.
do_write ==
  /\ writing' = writing + 1
  /\ UNCHANGED <<started_, reading, read_buffer_>>

NoAnswer == UNCHANGED <<started_, reading, read_buffer_, writing>>

\* The bytes of inMsg: those that strlen counts, without the line feeds.
Kept(bytes) ==
  {j \in DOMAIN bytes : bytes[j] # NL /\ \A i \in 1 .. j : bytes[i] # NUL}

\* validateData passes: inMsg is one whole command.
IsCommand(bytes, k) ==
  \E i, j \in Kept(bytes) :
    i < j /\ Kept(bytes) = {i, j} /\ bytes[i] = HeadOf(k) /\ bytes[j] = TailOf(k)

\* getMessage throws; an event lacks a plate or its confidence.
Refused(m) ==
  \/ m.command \in {"login", "fibo"} /\ m.message.kind = "missing"
  \/ m.command = "" /\ ~m.event

\* in >> n: a number modulo W, the largest one for a text out of range, 0 for
\* a word; the empty text leaves n as it was, uninitialised.
Parsed(text) ==
  CASE text.kind = "number" -> {IF -W < text.n /\ text.n < W THEN text.n % W ELSE W - 1}
    [] text.kind = "empty"  -> 0 .. W - 1
    [] OTHER                -> {0}

\* on_fibo: the computation is posted, the next read started.
on_fibo(k) ==
  /\ \E n \in Parsed(sent[k].message) : Post(FiboJob(k, n))
  /\ do_read

\* on_ipcam_event posts, too (EventStore has what).
on_ipcam_event ==
  /\ Post(Job("other"))
  /\ do_read

\* The branches of on_read for a JSON: a request that is answered, or refused
\* with an answer; one whose work is posted; exit; and the branch that is missing.
Dispatch(k) ==
  LET m == sent[k] IN
  \/ Refused(m) /\ do_write /\ Done
  \/ /\ ~Refused(m)
     /\ \/ m.command \in {"get_last_event", "login", "ping", "who"} /\ do_write /\ Done
        \/ m.command = "fibo" /\ on_fibo(k)
        \/ m.command = "" /\ on_ipcam_event
        \/ /\ m.command = "exit"
           /\ started_' = FALSE /\ Done
           /\ UNCHANGED <<reading, read_buffer_, writing>>
        \/ m.command \notin Commands /\ NoAnswer /\ Done

\* Mutant: bytes that begin with a terminator are taken for an empty message.
Empty_First(bytes) == bytes[1] \in {NL, NUL}

Empty(bytes) == Kept(bytes) = {}

\* on_read for bytes of a started session: a command, nothing, or a part of one
\* or more of them, which are answered with the error of the parser.
OnRead ==
  /\ Take("read") /\ started_
  /\ \/ \E k \in 1 .. Len(sent) :
          /\ IsCommand(read_buffer_, k) /\ ~Empty(read_buffer_)
          /\ Dispatch(k)
          /\ executed' = Append(executed, k)
     \/ /\ Empty(read_buffer_)
        /\ do_read /\ Done
        /\ UNCHANGED executed
     \/ /\ \A k \in 1 .. Len(sent) : ~IsCommand(read_buffer_, k)
        /\ ~Empty(read_buffer_)
        /\ do_write /\ Done
        /\ UNCHANGED executed
  /\ alone' = alone \union {k \in 1 .. Len(sent) : IsCommand(got, k)}
  /\ got' = <<>>
  /\ UNCHANGED <<client, running, others, fibs>>

\* on_read with an error, or for a session that was stopped meanwhile.
OnReadEnds ==
  /\ \/ Take("failed")
     \/ Take("read") /\ ~started_
  /\ started_' = FALSE /\ got' = <<>>
  /\ Done
  /\ UNCHANGED <<client, reading, read_buffer_, writing, running, others, history>>

\* The completion of do_write's async_write.
OnWritten ==
  /\ Take("written")
  /\ do_read /\ Done
  /\ UNCHANGED <<client, got, running, others, history>>

\* Any other handler.
OnOther ==
  /\ Take("other")
  /\ Done
  /\ UNCHANGED <<client, session, running, others, history>>

-----------------------------------------------------------------------------
\* Mutant: the loop begins one number too early.
First_Two == 2

First == 3

\* do_get_fibo is entered: a and b are the numbers before the i-th.
DoGetFibo ==
  /\ Take("fibo")
  /\ Done
  /\ running' = running \union
       {[cmd |-> Head(queue).cmd, n |-> Head(queue).n, i |-> First, a |-> 1, b |-> 1]}
  /\ UNCHANGED <<client, session, others, history>>

\* Mutants: i is never incremented; the sum does not wrap.
Iterated_Stays(r) == [r EXCEPT !.a = r.b, !.b = (r.a + r.b) % W]
Iterated_Wide(r) == [r EXCEPT !.i = (r.i + 1) % W, !.a = r.b, !.b = r.a + r.b]

Iterated(r) ==
  [r EXCEPT !.i = (r.i + 1) % W, !.a = r.b, !.b = (r.a + r.b) % W]

\* An iteration of the loop.
Iterate(r) ==
  /\ r.i <= r.n
  /\ running' = (running \ {r}) \union {Iterated(r)}
  /\ UNCHANGED <<client, session, queue, others, history>>

\* Mutant: an answer is written for a session that was stopped.
Written_Always(r) == fibs' = fibs \union {[cmd |-> r.cmd, n |-> r.n, value |-> r.b]}

Written(r) ==
  fibs' = IF started_ THEN fibs \union {[cmd |-> r.cmd, n |-> r.n, value |-> r.b]}
          ELSE fibs

\* The loop ends and b is the answer, if the session is still there.  Its write
\* calls no do_read (SessionIO has these writes).
Answer(r) ==
  /\ r.i > r.n
  /\ running' = running \ {r}
  /\ Written(r)
  /\ UNCHANGED <<client, session, queue, others, executed, alone>>

Handle == OnRead \/ OnReadEnds \/ OnWritten \/ OnOther \/ DoGetFibo

Compute(k) == \E r \in running : r.cmd = k /\ (Iterate(r) \/ Answer(r))

Next ==
  \/ \E m \in Messages, end \in Ends : Send(m, end)
  \/ \E n \in 1 .. Len(stream) : Receive(n)
  \/ ReadFails \/ WriteEnds \/ Drop \/ Other
  \/ Handle
  \/ \E k \in 1 .. MaxSent : Compute(k)

Spec == Init /\ [][Next]_vars

\* Threads that are free take handlers in their order, and those that compute go
\* on; nothing is asked of the client or of TCP.
FairSpec ==
  /\ Spec
  /\ WF_vars(Handle)
  /\ \A k \in 1 .. MaxSent : WF_vars(Compute(k))

-----------------------------------------------------------------------------
Calls == [cmd : 1 .. MaxSent, n : 0 .. W - 1, i : 0 .. W - 1, a : 0 .. W - 1,
          b : 0 .. W - 1]

\* Types of the variables.
TypeOK ==
  /\ sent \in Seq(Messages) /\ Len(sent) <= MaxSent
  /\ stream \in Seq(Tokens)
  /\ started_ \in BOOLEAN
  /\ reading \in Nat /\ writing \in Nat
  /\ read_buffer_ \in [1 .. BufferSize -> Tokens]
  /\ got \in Seq(Tokens)
  /\ queue \in Seq(Jobs)
  /\ running \subseteq Calls
  /\ others \in 0 .. MaxOthers
  /\ executed \in Seq(1 .. MaxSent)
  /\ alone \subseteq 1 .. MaxSent
  /\ fibs \subseteq [cmd : 1 .. MaxSent, n : 0 .. W - 1, value : 0 .. W - 1]

\* However TCP cuts and joins the bytes, a command is executed at most once, and
\* never after a later one: nothing of a read remains for the next.
ExecutedOnce ==
  \A i, j \in 1 .. Len(executed) : i < j => executed[i] < executed[j]

\* A command that one read brings alone is executed, whatever reads came before it.
AloneExecuted == \A k \in alone : \E i \in 1 .. Len(executed) : executed[i] = k

\* Bytes of a command are not dropped in silence by a started session: they are
\* executed or answered with an error, unless a NUL comes before them.
ReadAnswered ==
  [][OnRead /\ Kept(got) # {} => executed' # executed \/ writing' > writing]_vars

\* The answer to a Fibonacci request is the number it asks for, modulo 2^64, with
\* several of them computed at a time (the comment at CClientSession.cpp:288 counts
\* them otherwise: its 2nd number is 2).
FiboCorrect ==
  \A f \in fibs :
    /\ f.value = Fib[f.n]
    /\ LET text == sent[f.cmd].message
       IN  text.kind = "number" /\ 0 <= text.n /\ text.n < W => f.n = text.n

\* As long as a thread is not in a computation without end, for the largest n, the
\* handlers of all sessions are served.
Endless == {r \in running : r.n = W - 1}
Served == queue # <<>> ~> queue = <<>> \/ Cardinality(Endless) = NThreads

\* Every request is answered, unless its own n or those of others have no end.
FiboAnswered ==
  \A k \in 1 .. MaxSent :
    (\E i \in 1 .. Len(executed) : /\ executed[i] = k /\ sent[k].command = "fibo"
                                  /\ ~Refused(sent[k])) ~>
      \/ \E f \in fibs : f.cmd = k
      \/ ~started_
      \/ \E r \in Endless : r.cmd = k
      \/ Cardinality(Endless) = NThreads

-----------------------------------------------------------------------------
\* Conversation's view of the session: who is to act next, and the numbers that
\* are posted or computed.
Waits(what) == \E j \in 1 .. Len(queue) : queue[j].what = what

turn == IF reading > 0 THEN "client"
        ELSE IF writing > 0 \/ Waits("written") THEN "answer"
        ELSE IF Waits("read") \/ Waits("failed") THEN "session"
        ELSE "nobody"

Owed(job) == [cmd |-> job.cmd, n |-> job.n]

owed == {Owed(queue[j]) : j \in {i \in 1 .. Len(queue) : queue[i].what = "fibo"}}
          \union {Owed(r) : r \in running}

Talk == INSTANCE Conversation WITH asked <- Len(sent), over <- ~started_

\* Bytes, buffer, queue and threads hide behind a conversation in turns, in which
\* commands run in their order and a number that is owed is told once.
ImplementsConversation == Talk!Spec
=============================================================================
