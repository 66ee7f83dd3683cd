---------------------------- MODULE RequestsProofs ----------------------------
(***************************************************************************)
(* Theorems about Requests, for any commands and terminators, any numbers   *)
(* of commands, threads and handlers of other sessions, and any W.         *)
(***************************************************************************)
EXTENDS Requests, TLAPS

\* The handlers of the session's one chain of reads and answers.
Chain == {"read", "failed", "written"}

\* The read buffer has one user at a time.
ChainInv ==
  /\ reading + writing <= 1
  /\ reading + writing > 0 => \A j \in 1 .. Len(queue) : queue[j].what \notin Chain
  /\ \A i, j \in 1 .. Len(queue) :
       queue[i].what \in Chain /\ queue[j].what \in Chain => i = j

IsHead(t) == t.part = "head"

\* The commands on their way are in order and come after those executed.
StreamInv ==
  /\ Len(stream) <= 3 * Len(sent)
  /\ \A j \in 1 .. Len(stream) : stream[j].of <= Len(sent)
  /\ \A i, j \in 1 .. Len(stream) :
       i < j /\ IsHead(stream[i]) /\ IsHead(stream[j]) => stream[i].of < stream[j].of
  /\ \A i \in 1 .. Len(executed) : executed[i] <= Len(sent)
  /\ \A i \in 1 .. Len(executed), j \in 1 .. Len(stream) :
       IsHead(stream[j]) => executed[i] < stream[j].of

\* A read that waits for its handler: the buffer holds its bytes and zeroes.
ReadInv ==
  /\ Len(got) < BufferSize
  /\ \A j \in 1 .. Len(got) : got[j].of <= Len(sent)
  /\ \A j \in 1 .. BufferSize :
       read_buffer_[j] = IF j <= Len(got) THEN got[j] ELSE NUL
  /\ \A i \in 1 .. Len(executed), j \in 1 .. Len(got) :
       IsHead(got[j]) => executed[i] < got[j].of
  /\ \A i \in 1 .. Len(got), j \in 1 .. Len(stream) :
       IsHead(got[i]) /\ IsHead(stream[j]) => got[i].of < stream[j].of

BufferInv ==
  /\ reading > 0 => read_buffer_ = Zeroes
  /\ (\E j \in 1 .. Len(queue) : queue[j].what = "read") => ReadInv

\* A computation that is posted or running is one of a command that was sent,
\* and with an end it has the numbers before its i-th.
Asked(k, n) == k \in 1 .. Len(sent) /\ n \in Parsed(sent[k].message)

Computed(r) ==
  /\ Asked(r.cmd, r.n)
  /\ r.n < W - 1 => /\ r.i = 3 \/ (3 < r.i /\ r.i <= r.n + 1)
                    /\ r.a = Fib[r.i - 2] /\ r.b = Fib[r.i - 1]

FiboInv ==
  /\ \A j \in 1 .. Len(queue) :
       queue[j].what = "fibo" => Asked(queue[j].cmd, queue[j].n)
  /\ \A r \in running : Computed(r)
  /\ \A f \in fibs : Asked(f.cmd, f.n) /\ f.value = Fib[f.n]

IInv ==
  /\ TypeOK
  /\ ChainInv
  /\ StreamInv
  /\ BufferInv
  /\ FiboInv
  /\ ExecutedOnce
  /\ AloneExecuted

-----------------------------------------------------------------------------
\* What in >> n leaves in n is a size_t.
LEMMA ParsedType ==
  ASSUME NEW text \in Texts
  PROVE  Parsed(text) \subseteq 0 .. W - 1
  BY RequestsAssumption DEF Parsed, Texts

\* What Dispatch may do.
LEMMA DispatchEffect ==
  ASSUME TypeOK, NEW k \in 1 .. Len(sent), queue # <<>>, Dispatch(k)
  PROVE  /\ \/ queue' = Tail(queue)
            \/ queue' = Append(Tail(queue), Job("other"))
            \/ \E n \in Parsed(sent[k].message) : queue' = Append(Tail(queue), FiboJob(k, n))
         /\ \/ reading' = reading + 1 /\ read_buffer_' = Zeroes /\ writing' = writing
            \/ /\ reading' = reading /\ read_buffer_' = read_buffer_
               /\ writing' \in {writing, writing + 1}
         /\ started_' \in BOOLEAN
PROOF
<1> USE DEF Done, Post, do_read, do_write, NoAnswer, Zeroed
<1>1. CASE Refused(sent[k]) /\ do_write /\ Done
  BY <1>1 DEF TypeOK
<1>2. CASE do_write /\ Done
  BY <1>2 DEF TypeOK
<1>3. CASE on_fibo(k)
  BY <1>3 DEF on_fibo, TypeOK
<1>4. CASE on_ipcam_event
  BY <1>4 DEF on_ipcam_event, TypeOK
<1>5. CASE started_' = FALSE /\ Done /\ UNCHANGED <<reading, read_buffer_, writing>>
  BY <1>5 DEF TypeOK
<1>6. CASE NoAnswer /\ Done
  BY <1>6 DEF TypeOK
<1> HIDE DEF Done, Post, do_read, do_write, NoAnswer, Zeroed
<1> QED
  BY <1>1, <1>2, <1>3, <1>4, <1>5, <1>6 DEF Dispatch

\* What the handler of a read may do.
LEMMA ReadEffect ==
  ASSUME TypeOK, OnRead
  PROVE  /\ \/ queue' = Tail(queue)
            \/ queue' = Append(Tail(queue), Job("other"))
            \/ \E k \in 1 .. Len(sent) : \E n \in Parsed(sent[k].message) :
                 queue' = Append(Tail(queue), FiboJob(k, n))
         /\ \/ reading' = reading + 1 /\ read_buffer_' = Zeroes /\ writing' = writing
            \/ /\ reading' = reading /\ read_buffer_' = read_buffer_
               /\ writing' \in {writing, writing + 1}
         /\ started_' \in BOOLEAN
         /\ \/ executed' = executed /\ \A k \in 1 .. Len(sent) : ~IsCommand(read_buffer_, k)
            \/ \E k \in 1 .. Len(sent) :
                 IsCommand(read_buffer_, k) /\ executed' = Append(executed, k)
         /\ alone' = alone \union {k \in 1 .. Len(sent) : IsCommand(got, k)}
         /\ got' = <<>>
         /\ UNCHANGED <<client, running, others, fibs>>
         /\ queue # <<>> /\ Head(queue).what = "read"
PROOF
<1>1. queue # <<>> /\ Head(queue).what = "read"
  BY DEF OnRead, Take
<1>2. CASE \E k \in 1 .. Len(sent) : /\ IsCommand(read_buffer_, k)
                                     /\ Dispatch(k) /\ executed' = Append(executed, k)
  BY <1>1, <1>2, DispatchEffect DEF OnRead
<1>3. CASE Empty(read_buffer_) /\ do_read /\ Done /\ UNCHANGED executed
  <2>1. \A k : ~IsCommand(read_buffer_, k)
    BY <1>3 DEF Empty, IsCommand
  <2>2. started_' \in BOOLEAN
    BY <1>3 DEF do_read, TypeOK
  <2> QED
    BY <1>1, <1>3, <2>1, <2>2 DEF OnRead, do_read, Zeroed, Done
<1>4. CASE /\ \A k \in 1 .. Len(sent) : ~IsCommand(read_buffer_, k)
           /\ do_write /\ Done /\ UNCHANGED executed
  BY <1>1, <1>4 DEF OnRead, do_write, Done, TypeOK
<1> QED
  BY <1>2, <1>3, <1>4 DEF OnRead

-----------------------------------------------------------------------------
\* The first handler is a job of the queue, and the others remain.
LEMMA QueueRest ==
  ASSUME TypeOK, queue # <<>>
  PROVE  /\ Len(queue) > 0 /\ Head(queue) = queue[1] /\ Head(queue) \in Jobs
         /\ Tail(queue) \in Seq(Jobs) /\ Len(Tail(queue)) = Len(queue) - 1
         /\ \A j \in 1 .. Len(Tail(queue)) : Tail(queue)[j] = queue[j + 1]
  BY DEF TypeOK

\* The jobs that are posted.
LEMMA JobTypes ==
  /\ \A w \in {"read", "failed", "written", "fibo", "other"} : Job(w) \in Jobs
  /\ \A k \in 1 .. MaxSent, n \in 0 .. W - 1 : FiboJob(k, n) \in Jobs
  BY RequestsAssumption DEF Job, FiboJob, Jobs

\* What a command asks for is a size_t.
LEMMA ParsedOfSent ==
  ASSUME TypeOK, NEW k \in 1 .. Len(sent)
  PROVE  Parsed(sent[k].message) \subseteq 0 .. W - 1 /\ k \in 1 .. MaxSent
PROOF
<1>1. sent[k] \in AllMessages /\ k \in 1 .. MaxSent
  BY RequestsAssumption DEF TypeOK
<1>2. sent[k].message \in Texts
  BY <1>1 DEF AllMessages
<1> QED
  BY <1>1, <1>2, ParsedType

\* The type of a buffer that was zeroed.
LEMMA ZeroesType == Zeroes \in [1 .. BufferSize -> Tokens]
  BY RequestsAssumption DEF Zeroes, Tokens, NUL

\* Every step keeps the types.
LEMMA TypeStep ==
  ASSUME TypeOK, FiboInv
  PROVE  [Next]_vars => TypeOK'
PROOF
<1> USE RequestsAssumption
<1>1. ASSUME NEW m \in Messages, NEW end \in Ends, Send(m, end) PROVE TypeOK'
  <2> DEFINE k == Len(sent) + 1
  <2>1. HeadOf(k) \in Tokens /\ TailOf(k) \in Tokens /\ NL \in Tokens /\ NUL \in Tokens
    BY <1>1 DEF Send, TypeOK, HeadOf, TailOf, Tokens, NL, NUL
  <2>2. <<HeadOf(k), TailOf(k)>> \in Seq(Tokens)
    BY <2>1
  <2>5. end \in {<<>>, <<NL>>, <<NUL>>}
    BY <1>1
  <2>6. end \in Seq(Tokens)
    <3>1. CASE end = <<>>
      BY <3>1
    <3>2. CASE end = <<NL>>
      BY <2>1, <3>2
    <3>3. CASE end = <<NUL>>
      BY <2>1, <3>3
    <3> QED
      BY <2>5, <3>1, <3>2, <3>3
  <2>3. stream' \in Seq(Tokens)
    BY <1>1, <2>2, <2>6 DEF Send, TypeOK
  <2>4. sent' \in Seq(Messages) /\ Len(sent') <= MaxSent
    BY <1>1 DEF Send, TypeOK
  <2> QED
    BY <1>1, <2>3, <2>4 DEF Send, TypeOK, session, pool, history
<1>2. ASSUME NEW n \in 1 .. Len(stream), Receive(n) PROVE TypeOK'
  <2>1. got' \in Seq(Tokens) /\ stream' \in Seq(Tokens)
    BY <1>2 DEF Receive, TypeOK
  <2>2. read_buffer_' \in [1 .. BufferSize -> Tokens]
    BY <1>2 DEF Receive, TypeOK
  <2>3. queue' \in Seq(Jobs)
    BY <1>2, JobTypes DEF Receive, TypeOK
  <2> QED
    BY <1>2, <2>1, <2>2, <2>3 DEF Receive, TypeOK, history
<1>3. ASSUME ReadFails PROVE TypeOK'
  BY <1>3, JobTypes DEF ReadFails, TypeOK, client, history
<1>4. ASSUME WriteEnds PROVE TypeOK'
  BY <1>4, JobTypes DEF WriteEnds, TypeOK, client, history
<1>5. ASSUME Drop PROVE TypeOK'
  BY <1>5 DEF Drop, TypeOK, client, pool, history
<1>6. ASSUME Other PROVE TypeOK'
  BY <1>6, JobTypes DEF Other, TypeOK, client, session, history
<1>7. ASSUME OnRead PROVE TypeOK'
  <2>0. queue # <<>>
    BY <1>7, ReadEffect
  <2>1. queue' \in Seq(Jobs)
    <3>1. CASE queue' = Tail(queue)
      BY <2>0, <3>1, QueueRest
    <3>2. CASE queue' = Append(Tail(queue), Job("other"))
      BY <2>0, <3>2, QueueRest, JobTypes
    <3>3. ASSUME NEW k \in 1 .. Len(sent), NEW n \in Parsed(sent[k].message),
                 queue' = Append(Tail(queue), FiboJob(k, n))
          PROVE  queue' \in Seq(Jobs)
      <4>1. FiboJob(k, n) \in Jobs
        BY JobTypes, ParsedOfSent
      <4> QED
        BY <2>0, <3>3, <4>1, QueueRest
    <3> QED
      BY <1>7, <3>1, <3>2, <3>3, ReadEffect
  <2>2. executed' \in Seq(1 .. MaxSent) /\ alone' \subseteq 1 .. MaxSent
    <3>1. Len(sent) \in Nat /\ Len(sent) <= MaxSent /\ executed \in Seq(1 .. MaxSent)
      BY DEF TypeOK
    <3>2. alone' \subseteq 1 .. MaxSent
      <4>1. alone' = alone \union {k \in 1 .. Len(sent) : IsCommand(got, k)}
        BY <1>7, ReadEffect
      <4>2. {k \in 1 .. Len(sent) : IsCommand(got, k)} \subseteq 1 .. MaxSent
        BY <3>1
      <4> QED
        BY <4>1, <4>2 DEF TypeOK
    <3>3. CASE executed' = executed
      BY <3>1, <3>2, <3>3
    <3>4. ASSUME NEW k \in 1 .. Len(sent), executed' = Append(executed, k)
          PROVE  executed' \in Seq(1 .. MaxSent)
      BY <3>1, <3>4
    <3> QED
      BY <1>7, <3>1, <3>2, <3>3, <3>4, ReadEffect
  <2>3. reading' \in Nat /\ writing' \in Nat /\ read_buffer_' \in [1 .. BufferSize -> Tokens]
    <3>1. reading \in Nat /\ writing \in Nat /\ read_buffer_ \in [1 .. BufferSize -> Tokens]
      BY DEF TypeOK
    <3>2. \/ reading' = reading + 1 /\ read_buffer_' = Zeroes /\ writing' = writing
          \/ /\ reading' = reading /\ read_buffer_' = read_buffer_
             /\ writing' = writing \/ writing' = writing + 1
      BY <1>7, ReadEffect
    <3> QED
      BY <3>1, <3>2, ZeroesType
  <2> QED
    <3>1. started_' \in BOOLEAN /\ got' = <<>> /\ UNCHANGED <<client, running, others, fibs>>
      BY <1>7, ReadEffect
    <3>2. got' \in Seq(Tokens)
      BY <3>1
    <3> QED
      BY <2>1, <2>2, <2>3, <3>1, <3>2 DEF TypeOK, client
<1>8. ASSUME OnReadEnds PROVE TypeOK'
  <2>1. queue # <<>> /\ queue' = Tail(queue)
    BY <1>8 DEF OnReadEnds, Take, Done
  <2>2. got' = <<>> /\ got' \in Seq(Tokens)
    BY <1>8 DEF OnReadEnds
  <2> QED
    BY <1>8, <2>1, <2>2, QueueRest DEF OnReadEnds, TypeOK, client, history
<1>9. ASSUME OnWritten PROVE TypeOK'
  <2>1. queue # <<>> /\ queue' = Tail(queue)
    BY <1>9 DEF OnWritten, Take, Done
  <2>2. queue' \in Seq(Jobs)
    BY <2>1, QueueRest
  <2>3. /\ reading' = reading + 1 /\ read_buffer_' = Zeroes
        /\ UNCHANGED <<client, started_, writing, got, running, others, history>>
    BY <1>9 DEF OnWritten, do_read, Zeroed
  <2>4. reading' \in Nat /\ read_buffer_' \in [1 .. BufferSize -> Tokens]
    BY <2>3, ZeroesType DEF TypeOK
  <2> QED
    BY <2>2, <2>3, <2>4 DEF TypeOK, client, history
<1>10. ASSUME OnOther PROVE TypeOK'
  BY <1>10, QueueRest DEF OnOther, Take, Done, TypeOK, client, session, history
<1>11. ASSUME DoGetFibo PROVE TypeOK'
  <2>1. queue # <<>> /\ Head(queue).what = "fibo" /\ queue' = Tail(queue)
    BY <1>11 DEF DoGetFibo, Take, Done
  <2>2. Head(queue).cmd \in 1 .. Len(sent) /\ Head(queue).n \in 0 .. W - 1
    <3>1. Head(queue) = queue[1] /\ Head(queue) \in Jobs /\ 1 \in 1 .. Len(queue)
      BY <2>1, QueueRest DEF TypeOK
    <3>2. Asked(Head(queue).cmd, Head(queue).n)
      BY <2>1, <3>1 DEF FiboInv
    <3> QED
      BY <3>1, <3>2 DEF Asked, Jobs
  <2>3. running' \subseteq Calls
    BY <1>11, <2>2 DEF DoGetFibo, First, Calls, TypeOK
  <2> QED
    BY <1>11, <2>1, <2>3, QueueRest DEF DoGetFibo, TypeOK, client, session, history
<1>12. ASSUME NEW r \in running, Iterate(r) PROVE TypeOK'
  <2>1. r \in Calls
    BY DEF TypeOK
  <2>2. (r.i + 1) % W \in 0 .. W - 1 /\ (r.a + r.b) % W \in 0 .. W - 1
    BY <2>1 DEF Calls
  <2>3. Iterated(r) \in Calls
    BY <2>1, <2>2 DEF Iterated, Calls
  <2> QED
    BY <1>12, <2>3 DEF Iterate, TypeOK, client, session, history
<1>13. ASSUME NEW r \in running, Answer(r) PROVE TypeOK'
  BY <1>13 DEF Answer, Written, Calls, TypeOK, client, session
<1>14. ASSUME UNCHANGED vars PROVE TypeOK'
  BY <1>14 DEF vars, client, session, pool, history, TypeOK
<1> QED
  BY <1>1, <1>2, <1>3, <1>4, <1>5, <1>6, <1>7, <1>8, <1>9, <1>10, <1>11, <1>12, <1>13,
     <1>14 DEF Next, Handle, Compute

-----------------------------------------------------------------------------
\* No job of the chain waits; one at most.
NoneOf(q) == \A j \in 1 .. Len(q) : q[j].what \notin Chain
OneOf(q) ==
  \A i, j \in 1 .. Len(q) : q[i].what \in Chain /\ q[j].what \in Chain => i = j

\* A job that is appended, and one that is taken.
LEMMA Pushed ==
  ASSUME NEW q \in Seq(Jobs), NEW job \in Jobs
  PROVE  /\ NoneOf(q) => OneOf(Append(q, job))
         /\ NoneOf(q) /\ job.what \notin Chain => NoneOf(Append(q, job))
         /\ OneOf(q) /\ job.what \notin Chain => OneOf(Append(q, job))
  BY DEF NoneOf, OneOf

\* What is left of a queue without its first job.
LEMMA Taken ==
  ASSUME NEW q \in Seq(Jobs), q # <<>>
  PROVE  /\ Tail(q) \in Seq(Jobs)
         /\ NoneOf(q) => NoneOf(Tail(q)) /\ Head(q).what \notin Chain
         /\ OneOf(q) => OneOf(Tail(q))
         /\ OneOf(q) /\ Head(q).what \in Chain => NoneOf(Tail(q))
PROOF
<1>1. /\ Len(q) > 0 /\ Head(q) = q[1] /\ Len(Tail(q)) = Len(q) - 1
      /\ \A j \in 1 .. Len(Tail(q)) : Tail(q)[j] = q[j + 1]
      /\ Tail(q) \in Seq(Jobs)
  OBVIOUS
<1>2. NoneOf(q) => NoneOf(Tail(q)) /\ Head(q).what \notin Chain
  BY <1>1 DEF NoneOf
<1>3. OneOf(q) => OneOf(Tail(q))
  BY <1>1 DEF OneOf
<1>4. OneOf(q) /\ Head(q).what \in Chain => NoneOf(Tail(q))
  BY <1>1 DEF NoneOf, OneOf
<1> QED
  BY <1>1, <1>2, <1>3, <1>4

\* Every step keeps the read buffer to one user.
LEMMA ChainStep ==
  ASSUME TypeOK, ChainInv
  PROVE  [Next]_vars => ChainInv'
PROOF
<1> DEFINE C(p, q) == /\ p <= 1
                      /\ p > 0 => NoneOf(q)
                      /\ OneOf(q)
<1>1. ChainInv <=> C(reading + writing, queue)
  BY DEF ChainInv, NoneOf, OneOf
<1>2. ChainInv' <=> C(reading' + writing', queue')
  BY DEF ChainInv, NoneOf, OneOf
<1>3. /\ reading \in Nat /\ writing \in Nat /\ queue \in Seq(Jobs)
      /\ C(reading + writing, queue)
  BY <1>1 DEF TypeOK
<1>4. SUFFICES [Next]_vars => C(reading' + writing', queue')
  BY <1>2
<1>5. \A w \in {"read", "failed", "written", "fibo", "other"} :
        Job(w) \in Jobs /\ Job(w).what = w
  BY JobTypes DEF Job
<1>6. ASSUME queue # <<>>
      PROVE  /\ Tail(queue) \in Seq(Jobs)
             /\ C(reading + writing, Tail(queue))
             /\ Head(queue).what \in Chain =>
                  reading + writing = 0 /\ NoneOf(Tail(queue))
  BY <1>3, <1>6, Taken
<1>7. ASSUME UNCHANGED <<reading, writing, queue>> PROVE C(reading' + writing', queue')
  BY <1>3, <1>7
<1>8. ASSUME NEW m \in Messages, NEW end \in Ends, Send(m, end)
      PROVE  C(reading' + writing', queue')
  BY <1>7, <1>8 DEF Send, session, pool
<1>9. ASSUME NEW n \in 1 .. Len(stream), Receive(n) PROVE C(reading' + writing', queue')
  <2>1. reading' + writing' = 0 /\ NoneOf(queue) /\ queue' = Append(queue, Job("read"))
    BY <1>3, <1>9 DEF Receive
  <2> QED
    BY <1>3, <1>5, <2>1, Pushed
<1>10. ASSUME ReadFails PROVE C(reading' + writing', queue')
  <2>1. reading' + writing' = 0 /\ NoneOf(queue) /\ queue' = Append(queue, Job("failed"))
    BY <1>3, <1>10 DEF ReadFails
  <2> QED
    BY <1>3, <1>5, <2>1, Pushed
<1>11. ASSUME WriteEnds PROVE C(reading' + writing', queue')
  <2>1. reading' + writing' = 0 /\ NoneOf(queue) /\ queue' = Append(queue, Job("written"))
    BY <1>3, <1>11 DEF WriteEnds
  <2> QED
    BY <1>3, <1>5, <2>1, Pushed
<1>12. ASSUME Drop PROVE C(reading' + writing', queue')
  BY <1>7, <1>12 DEF Drop, pool
<1>13. ASSUME Other PROVE C(reading' + writing', queue')
  <2>1. queue' = Append(queue, Job("other")) /\ UNCHANGED <<reading, writing>>
    BY <1>13 DEF Other, session
  <2>2. Job("other") \in Jobs /\ Job("other").what \notin Chain
    BY <1>5 DEF Chain
  <2> QED
    BY <1>3, <2>1, <2>2, Pushed
<1>14. ASSUME OnRead PROVE C(reading' + writing', queue')
  <2>1. queue # <<>> /\ Head(queue).what \in Chain
    BY <1>14, ReadEffect DEF Chain
  <2>2. Tail(queue) \in Seq(Jobs) /\ reading = 0 /\ writing = 0 /\ NoneOf(Tail(queue))
    BY <1>3, <1>6, <2>1
  <2>3. reading' + writing' <= 1
    BY <1>14, <2>2, ReadEffect
  <2>4. ASSUME NEW job \in Jobs, job.what \in {"fibo", "other"},
               queue' = Append(Tail(queue), job)
        PROVE  NoneOf(queue')
    BY <2>2, <2>4, Pushed DEF Chain
  <2>5. \A k \in 1 .. Len(sent) : \A n \in Parsed(sent[k].message) :
          FiboJob(k, n) \in Jobs /\ FiboJob(k, n).what = "fibo"
    BY JobTypes, ParsedOfSent DEF FiboJob
  <2>6. NoneOf(queue')
    BY <1>5, <1>14, <2>2, <2>4, <2>5, ReadEffect
  <2>7. OneOf(queue')
    BY <2>6 DEF NoneOf, OneOf
  <2> QED
    BY <2>3, <2>6, <2>7
<1>15. ASSUME OnReadEnds PROVE C(reading' + writing', queue')
  <2>1. queue # <<>> /\ queue' = Tail(queue) /\ UNCHANGED <<reading, writing>>
    BY <1>15 DEF OnReadEnds, Take, Done
  <2> QED
    BY <1>6, <2>1
<1>16. ASSUME OnWritten PROVE C(reading' + writing', queue')
  <2>1. /\ queue # <<>> /\ queue' = Tail(queue) /\ Head(queue).what \in Chain
        /\ reading' = reading + 1 /\ writing' = writing
    BY <1>16 DEF OnWritten, Take, Done, do_read, Chain
  <2>2. reading + writing = 0 /\ NoneOf(queue') /\ OneOf(queue')
    BY <1>6, <2>1
  <2>3. reading' + writing' = 1
    BY <1>3, <2>1, <2>2
  <2> QED
    BY <2>2, <2>3
<1>17. ASSUME OnOther \/ DoGetFibo PROVE C(reading' + writing', queue')
  <2>1. queue # <<>> /\ queue' = Tail(queue) /\ UNCHANGED <<reading, writing>>
    BY <1>17 DEF OnOther, DoGetFibo, Take, Done, session
  <2> QED
    BY <1>6, <2>1
<1>18. ASSUME NEW r, Iterate(r) \/ Answer(r) PROVE C(reading' + writing', queue')
  BY <1>7, <1>18 DEF Iterate, Answer, session
<1>19. ASSUME UNCHANGED vars PROVE C(reading' + writing', queue')
  BY <1>7, <1>19 DEF vars, session, pool
<1> HIDE DEF C
<1> QED
  BY <1>8, <1>9, <1>10, <1>11, <1>12, <1>13, <1>14, <1>15, <1>16, <1>17, <1>18, <1>19
     DEF Next, Handle, Compute

-----------------------------------------------------------------------------
\* Bytes are one command at most.
LEMMA OneCommand ==
  ASSUME NEW bytes, DOMAIN bytes \subseteq Nat, NEW k \in Nat, NEW l \in Nat,
         IsCommand(bytes, k), IsCommand(bytes, l)
  PROVE  k = l
PROOF
<1>1. PICK i \in Kept(bytes), j \in Kept(bytes) :
        i < j /\ Kept(bytes) = {i, j} /\ bytes[i] = HeadOf(k)
  BY DEF IsCommand
<1>2. PICK p \in Kept(bytes), q \in Kept(bytes) :
        p < q /\ Kept(bytes) = {p, q} /\ bytes[p] = HeadOf(l)
  BY DEF IsCommand
<1>3. Kept(bytes) \subseteq Nat
  BY DEF Kept
<1>4. i = p
  BY <1>1, <1>2, <1>3
<1> QED
  BY <1>1, <1>2, <1>4 DEF HeadOf

\* The buffer holds the command that was read, and no other.
LEMMA BufferHasRead ==
  ASSUME TypeOK, ReadInv
  PROVE  Kept(read_buffer_) = Kept(got) /\ \A j \in Kept(got) : read_buffer_[j] = got[j]
PROOF
<1>1. DOMAIN read_buffer_ = 1 .. BufferSize /\ DOMAIN got = 1 .. Len(got)
      /\ Len(got) \in Nat /\ Len(got) < BufferSize /\ BufferSize \in Nat
  BY RequestsAssumption DEF TypeOK, ReadInv
<1>2. \A j \in 1 .. Len(got) : read_buffer_[j] = got[j]
  BY <1>1 DEF ReadInv
<1>3. \A j \in 1 .. BufferSize : j > Len(got) => read_buffer_[j] = NUL
  BY <1>1 DEF ReadInv
<1>4. ASSUME NEW j \in Kept(read_buffer_) PROVE j \in Kept(got)
  <2>1. j \in 1 .. BufferSize /\ read_buffer_[j] # NL /\ \A i \in 1 .. j : read_buffer_[i] # NUL
    BY <1>1, <1>4 DEF Kept
  <2>2. j \in 1 .. Len(got)
    BY <1>1, <1>3, <2>1
  <2>3. \A i \in 1 .. j : i \in 1 .. Len(got)
    BY <1>1, <2>2
  <2> QED
    BY <1>1, <1>2, <2>1, <2>2, <2>3 DEF Kept
<1>5. ASSUME NEW j \in Kept(got) PROVE j \in Kept(read_buffer_)
  <2>1. j \in 1 .. Len(got) /\ got[j] # NL /\ \A i \in 1 .. j : got[i] # NUL
    BY <1>1, <1>5 DEF Kept
  <2>2. \A i \in 1 .. j : i \in 1 .. Len(got)
    BY <1>1, <2>1
  <2> QED
    BY <1>1, <1>2, <2>1, <2>2 DEF Kept
<1> QED
  BY <1>1, <1>2, <1>4, <1>5 DEF Kept

\* The buffer holds a command exactly if the read brought it.
LEMMA SameCommand ==
  ASSUME TypeOK, ReadInv, NEW k
  PROVE  /\ IsCommand(read_buffer_, k) <=> IsCommand(got, k)
         /\ IsCommand(got, k) => \E j \in 1 .. Len(got) : got[j] = HeadOf(k)
PROOF
<1>1. Kept(got) \subseteq 1 .. Len(got)
  BY DEF Kept, TypeOK
<1> QED
  BY <1>1, BufferHasRead DEF IsCommand

-----------------------------------------------------------------------------
\* The elements of a sequence.
LEMMA ElementOf ==
  ASSUME NEW S, NEW s \in Seq(S)
  PROVE  Len(s) \in Nat /\ \A i \in 1 .. Len(s) : s[i] \in S
  OBVIOUS

\* The numbers of commands.
LEMMA NumberTypes ==
  ASSUME TypeOK
  PROVE  /\ \A j \in 1 .. Len(stream) : stream[j].of \in Nat
         /\ \A j \in 1 .. Len(got) : got[j].of \in Nat
         /\ \A i \in 1 .. Len(executed) : executed[i] \in Nat
         /\ Len(stream) \in Nat /\ Len(got) \in Nat /\ Len(executed) \in Nat
         /\ Len(sent) \in Nat
PROOF
<1>1. \A t \in Tokens : t.of \in Nat
  BY RequestsAssumption DEF Tokens
<1>2. stream \in Seq(Tokens) /\ got \in Seq(Tokens) /\ executed \in Seq(1 .. MaxSent)
      /\ sent \in Seq(Messages)
  BY DEF TypeOK
<1>3. /\ \A j \in 1 .. Len(stream) : stream[j] \in Tokens
      /\ \A j \in 1 .. Len(got) : got[j] \in Tokens
      /\ Len(stream) \in Nat /\ Len(got) \in Nat /\ Len(sent) \in Nat
  BY <1>2
<1>4. Len(executed) \in Nat /\ \A i \in 1 .. Len(executed) : executed[i] \in 1 .. MaxSent
  BY <1>2, ElementOf
<1>5. \A k \in 1 .. MaxSent : k \in Nat
  OBVIOUS
<1> QED
  BY <1>1, <1>3, <1>4, <1>5

\* What the client adds to the bytes on their way.
LEMMA SendEffect ==
  ASSUME TypeOK, NEW m \in Messages, NEW end \in Ends, Send(m, end)
  PROVE  /\ Len(sent') = Len(sent) + 1 /\ Len(sent) \in Nat /\ executed' = executed
         /\ Len(stream) \in Nat /\ Len(stream') \in Nat
         /\ Len(stream) <= Len(stream') /\ Len(stream') <= Len(stream) + 3
         /\ \A j \in 1 .. Len(stream') :
              \/ j <= Len(stream) /\ stream'[j] = stream[j]
              \/ /\ j > Len(stream) /\ stream'[j].of \in {Len(sent) + 1, 0}
                 /\ IsHead(stream'[j]) =>
                      j = Len(stream) + 1 /\ stream'[j].of = Len(sent) + 1
PROOF
<1> DEFINE k == Len(sent) + 1
           new == <<HeadOf(k), TailOf(k)>> \o end
<1>1. Len(sent') = k /\ Len(sent) \in Nat /\ executed' = executed
  BY DEF Send, TypeOK, history
<1>2. end \in {<<>>, <<NL>>, <<NUL>>}
  BY RequestsAssumption
<1>3. /\ Len(new) \in Nat /\ 2 <= Len(new) /\ Len(new) <= 3
      /\ new[1] = HeadOf(k) /\ new[2] = TailOf(k)
      /\ Len(new) = 3 => new[3] \in {NL, NUL}
      /\ new \in Seq({HeadOf(k), TailOf(k), NL, NUL})
  <2>1. CASE end = <<>>
    BY <2>1
  <2>2. CASE end = <<NL>>
    BY <2>2
  <2>3. CASE end = <<NUL>>
    BY <2>3
  <2> QED
    BY <1>2, <2>1, <2>2, <2>3
<1>4. \A j \in 1 .. Len(new) :
        new[j].of \in {k, 0} /\ (IsHead(new[j]) <=> j = 1) /\ (j = 1 => new[j].of = k)
  BY <1>1, <1>3 DEF IsHead, HeadOf, TailOf, NL, NUL
<1>5. stream' = stream \o new
  <2>1. CASE end = <<>>
    BY <2>1 DEF Send, TypeOK
  <2>2. CASE end = <<NL>>
    BY <2>2 DEF Send, TypeOK
  <2>3. CASE end = <<NUL>>
    BY <2>3 DEF Send, TypeOK
  <2> QED
    BY <1>2, <2>1, <2>2, <2>3
<1> HIDE DEF new
<1>6. /\ Len(stream') = Len(stream) + Len(new) /\ Len(stream) \in Nat
      /\ \A j \in 1 .. Len(stream') :
           stream'[j] = IF j <= Len(stream) THEN stream[j] ELSE new[j - Len(stream)]
  BY <1>3, <1>5 DEF TypeOK
<1>7. \A j \in 1 .. Len(stream') :
        \/ j <= Len(stream) /\ stream'[j] = stream[j]
        \/ /\ j > Len(stream) /\ stream'[j].of \in {k, 0}
           /\ IsHead(stream'[j]) => j = Len(stream) + 1 /\ stream'[j].of = k
  BY <1>3, <1>4, <1>6
<1>8. Len(new) <= 3 /\ Len(new) \in Nat
  BY <1>3, Zenon
<1> HIDE DEF k
<1>9. Len(stream) <= Len(stream') /\ Len(stream') <= Len(stream) + 3 /\ Len(stream') \in Nat
  BY <1>6, <1>8
<1> USE DEF k
<1> QED
  BY <1>1, <1>6, <1>7, <1>9

\* What a read takes from the bytes on their way.
LEMMA ReceiveEffect ==
  ASSUME TypeOK, StreamInv, NEW n \in 1 .. Len(stream), Receive(n)
  PROVE  /\ Len(got') = n /\ \A j \in 1 .. n : got'[j] = stream[j]
         /\ Len(stream') = Len(stream) - n
         /\ \A j \in 1 .. Len(stream) - n : stream'[j] = stream[n + j]
         /\ n < BufferSize
PROOF
<1>1. Len(stream) \in Nat /\ Len(sent) \in Nat /\ stream \in Seq(Tokens)
      /\ Len(sent) <= MaxSent
  BY DEF TypeOK
<1>2. n < BufferSize
  BY <1>1, RequestsAssumption DEF StreamInv
<1>3. got' = SubSeq(stream, 1, n) /\ stream' = SubSeq(stream, n + 1, Len(stream))
  BY DEF Receive
<1> QED
  BY <1>1, <1>2, <1>3

\* Every step keeps the commands on their way in order.
LEMMA StreamStep ==
  ASSUME TypeOK, ChainInv, StreamInv, BufferInv
  PROVE  [Next]_vars => StreamInv'
PROOF
<1>1. ASSUME UNCHANGED <<sent, stream, executed>> PROVE StreamInv'
  BY <1>1 DEF StreamInv
<1>2. ASSUME NEW m \in Messages, NEW end \in Ends, Send(m, end) PROVE StreamInv'
  <2> DEFINE k == Len(sent) + 1
  <2>1. Len(sent') = k /\ Len(sent) \in Nat /\ executed' = executed
    BY <1>2, SendEffect
  <2>6. /\ Len(stream) \in Nat /\ Len(stream') \in Nat
        /\ Len(stream) <= Len(stream') /\ Len(stream') <= Len(stream) + 3
    BY <1>2, SendEffect
  <2>7. \A j \in 1 .. Len(stream') :
          \/ j <= Len(stream) /\ stream'[j] = stream[j]
          \/ /\ j > Len(stream) /\ stream'[j].of \in {k, 0}
             /\ IsHead(stream'[j]) => j = Len(stream) + 1 /\ stream'[j].of = k
    BY <1>2, SendEffect
  <2>8. \A j \in 1 .. Len(stream) : stream[j].of \in Nat
    BY NumberTypes
  <2>9. \A i \in 1 .. Len(executed) : executed[i] \in Nat
    BY NumberTypes
  <2>10. Len(stream') <= 3 * Len(sent')
    <3>1. Len(stream) <= 3 * Len(sent)
      BY DEF StreamInv
    <3> QED
      BY <2>1, <2>6, <3>1
  <2>11. \A j \in 1 .. Len(stream') : stream'[j].of <= Len(sent')
    BY <2>1, <2>7, <2>8 DEF StreamInv
  <2>12. ASSUME NEW i \in 1 .. Len(stream'), NEW j \in 1 .. Len(stream'),
                i < j, IsHead(stream'[i]), IsHead(stream'[j])
         PROVE  stream'[i].of < stream'[j].of
    <3>1. CASE j <= Len(stream)
      BY <2>6, <2>7, <2>12, <3>1 DEF StreamInv
    <3>2. CASE j > Len(stream)
      <4>1. stream'[j].of = k /\ j = Len(stream) + 1
        BY <2>6, <2>7, <2>12, <3>2
      <4>2. i \in 1 .. Len(stream) /\ stream'[i] = stream[i]
        BY <2>6, <2>7, <2>12, <4>1
      <4>3. stream[i].of <= Len(sent) /\ stream[i].of \in Nat
        BY <2>8, <4>2 DEF StreamInv
      <4> QED
        BY <2>1, <4>1, <4>2, <4>3
    <3> QED
      BY <2>6, <3>1, <3>2
  <2>13. ASSUME NEW i \in 1 .. Len(executed), NEW j \in 1 .. Len(stream'), IsHead(stream'[j])
         PROVE  executed[i] < stream'[j].of
    <3>1. CASE j <= Len(stream)
      BY <2>6, <2>7, <2>13, <3>1 DEF StreamInv
    <3>2. CASE j > Len(stream)
      <4>1. stream'[j].of = k
        BY <2>6, <2>7, <2>13, <3>2
      <4>2. executed[i] <= Len(sent) /\ executed[i] \in Nat
        BY <2>9 DEF StreamInv
      <4> QED
        BY <2>1, <4>1, <4>2
    <3> QED
      BY <2>6, <3>1, <3>2
  <2>14. \A i \in 1 .. Len(executed) : executed[i] <= Len(sent')
    BY <2>1, <2>9 DEF StreamInv
  <2> QED
    BY <2>1, <2>10, <2>11, <2>12, <2>13, <2>14 DEF StreamInv
<1>3. ASSUME NEW n \in 1 .. Len(stream), Receive(n) PROVE StreamInv'
  <2>1. /\ Len(stream') = Len(stream) - n
        /\ \A j \in 1 .. Len(stream) - n : stream'[j] = stream[n + j]
    BY <1>3, ReceiveEffect
  <2>2. UNCHANGED <<sent, executed>>
    BY <1>3 DEF Receive, history
  <2>3. n \in Nat /\ Len(stream) \in Nat /\ Len(sent) \in Nat
    BY NumberTypes
  <2>4. Len(stream') <= 3 * Len(sent)
    <3>1. Len(stream) <= 3 * Len(sent) /\ n > 0
      BY DEF StreamInv
    <3> QED
      BY <2>1, <2>3, <3>1
  <2>5. \A j \in 1 .. Len(stream') : j \in 1 .. Len(stream) - n /\ n + j \in 1 .. Len(stream)
    BY <2>1, <2>3
  <2>6. \A j \in 1 .. Len(stream') : stream'[j].of <= Len(sent)
    BY <2>1, <2>5 DEF StreamInv
  <2>7. \A i, j \in 1 .. Len(stream') :
          i < j /\ IsHead(stream'[i]) /\ IsHead(stream'[j]) => stream'[i].of < stream'[j].of
    <3>1. \A i, j \in 1 .. Len(stream') : i < j => n + i < n + j
      BY <2>1, <2>3
    <3> QED
      BY <2>1, <2>5, <3>1 DEF StreamInv
  <2>8. \A i \in 1 .. Len(executed), j \in 1 .. Len(stream') :
          IsHead(stream'[j]) => executed[i] < stream'[j].of
    BY <2>1, <2>5 DEF StreamInv
  <2> QED
    BY <2>2, <2>4, <2>6, <2>7, <2>8 DEF StreamInv
<1>4. ASSUME OnRead PROVE StreamInv'
  <2>1. UNCHANGED <<sent, stream>>
    BY <1>4, ReadEffect DEF client
  <2>2. CASE executed' = executed
    BY <1>1, <2>1, <2>2
  <2>3. ASSUME NEW k \in 1 .. Len(sent), IsCommand(read_buffer_, k),
               executed' = Append(executed, k)
        PROVE  StreamInv'
    <3>1. ReadInv
      BY <1>4, ReadEffect, QueueRest DEF BufferInv
    <3>2. PICK p \in 1 .. Len(got) : got[p] = HeadOf(k)
      BY <2>3, <3>1, SameCommand
    <3>3. \A j \in 1 .. Len(stream) : IsHead(stream[j]) => k < stream[j].of
      BY <3>1, <3>2 DEF ReadInv, IsHead, HeadOf
    <3>4. /\ Len(executed') = Len(executed) + 1 /\ executed \in Seq(1 .. MaxSent)
          /\ \A i \in 1 .. Len(executed') :
               executed'[i] = IF i <= Len(executed) THEN executed[i] ELSE k
      BY <2>3 DEF TypeOK
    <3> QED
      <4>1. sent' = sent /\ stream' = stream
        BY <2>1
      <4>2. k \in Nat /\ k <= Len(sent)
        BY NumberTypes
      <4>3. \A i \in 1 .. Len(executed') : executed'[i] <= Len(sent)
        BY <3>4, <4>2 DEF StreamInv
      <4>4. \A i \in 1 .. Len(executed'), j \in 1 .. Len(stream) :
              IsHead(stream[j]) => executed'[i] < stream[j].of
        BY <3>3, <3>4, <4>2 DEF StreamInv
      <4> QED
        BY <4>1, <4>3, <4>4 DEF StreamInv
  <2> QED
    BY <1>4, <2>2, <2>3, ReadEffect
<1>5. ASSUME ReadFails \/ WriteEnds \/ Drop \/ Other \/ OnReadEnds \/ OnWritten \/ OnOther
             \/ DoGetFibo
      PROVE  StreamInv'
  BY <1>1, <1>5 DEF ReadFails, WriteEnds, Drop, Other, OnReadEnds, OnWritten, OnOther,
     DoGetFibo, client, history
<1>6. ASSUME NEW r, Iterate(r) \/ Answer(r) PROVE StreamInv'
  BY <1>1, <1>6 DEF Iterate, Answer, client, history
<1>7. ASSUME UNCHANGED vars PROVE StreamInv'
  BY <1>1, <1>7 DEF vars, client, history
<1> QED
  BY <1>2, <1>3, <1>4, <1>5, <1>6, <1>7 DEF Next, Handle, Compute

-----------------------------------------------------------------------------
HasRead(q) == \E j \in 1 .. Len(q) : q[j].what = "read"

\* A job that is appended is a read only if it says so.
LEMMA ReadPushed ==
  ASSUME NEW q \in Seq(Jobs), NEW job \in Jobs
  PROVE  HasRead(Append(q, job)) => HasRead(q) \/ job.what = "read"
  BY DEF HasRead

\* A queue without its first job has no read that it did not have.
LEMMA ReadTaken ==
  ASSUME NEW q \in Seq(Jobs), q # <<>>
  PROVE  HasRead(Tail(q)) => HasRead(q)
PROOF
<1>1. /\ Len(q) > 0 /\ Len(Tail(q)) = Len(q) - 1 /\ Len(q) \in Nat
      /\ \A j \in 1 .. Len(Tail(q)) : Tail(q)[j] = q[j + 1]
  OBVIOUS
<1> QED
  BY <1>1 DEF HasRead

\* A queue without a job of the chain has no read.
LEMMA NoneRead ==
  ASSUME NEW q, NoneOf(q)
  PROVE  ~HasRead(q)
  BY DEF NoneOf, HasRead, Chain

\* What the end of a chain job leaves.
LEMMA ChainTaken ==
  ASSUME TypeOK, ChainInv, queue # <<>>, Head(queue).what \in Chain
  PROVE  NoneOf(Tail(queue)) /\ reading = 0 /\ writing = 0
PROOF
<1>1. queue \in Seq(Jobs) /\ OneOf(queue)
  BY DEF TypeOK, ChainInv, OneOf
<1>2. Head(queue) = queue[1] /\ 1 \in 1 .. Len(queue)
  BY QueueRest DEF TypeOK
<1>3. reading + writing <= 0
  BY <1>2 DEF ChainInv, TypeOK
<1>4. NoneOf(Tail(queue))
  BY <1>1, Taken
<1> QED
  BY <1>3, <1>4 DEF TypeOK

\* Every step keeps what the buffer of the chain holds.
LEMMA BufferStep ==
  ASSUME TypeOK, ChainInv, StreamInv, BufferInv
  PROVE  [Next]_vars => BufferInv'
PROOF
<1>1. /\ reading > 0 => read_buffer_ = Zeroes
      /\ HasRead(queue) => ReadInv
  BY DEF BufferInv, HasRead
<1>2. SUFFICES [Next]_vars => /\ reading' > 0 => read_buffer_' = Zeroes
                              /\ HasRead(queue') => ReadInv'
  BY DEF BufferInv, HasRead
<1> DEFINE B == /\ reading' > 0 => read_buffer_' = Zeroes
                /\ HasRead(queue') => ReadInv'
<1>3. queue \in Seq(Jobs) /\ reading \in Nat /\ writing \in Nat
  BY DEF TypeOK
<1>4. \A w \in {"read", "failed", "written", "fibo", "other"} :
        Job(w) \in Jobs /\ Job(w).what = w
  BY JobTypes DEF Job
<1>5. ASSUME UNCHANGED <<reading, read_buffer_, got, executed, stream, sent>>,
             HasRead(queue') => HasRead(queue)
      PROVE  B
  BY <1>1, <1>5 DEF ReadInv
<1>6. ASSUME NEW m \in Messages, NEW end \in Ends, Send(m, end) PROVE B
  <2>1. UNCHANGED <<reading, read_buffer_, got, executed, queue>>
    BY <1>6 DEF Send, session, pool, history
  <2>2. ASSUME HasRead(queue) PROVE ReadInv'
    <3>1. ReadInv
      BY <1>1, <2>2
    <3>2. Len(sent') = Len(sent) + 1 /\ Len(sent) \in Nat
      BY <1>6 DEF Send, TypeOK
    <3>3. \A j \in 1 .. Len(stream') :
            IsHead(stream'[j]) => \/ j \in 1 .. Len(stream) /\ stream'[j] = stream[j]
                                  \/ stream'[j].of = Len(sent) + 1
      BY <1>6, SendEffect
    <3>4. \A i \in 1 .. Len(got) : got[i].of \in Nat
      BY NumberTypes
    <3>5. \A i \in 1 .. Len(got), j \in 1 .. Len(stream') :
            IsHead(got[i]) /\ IsHead(stream'[j]) => got[i].of < stream'[j].of
      <4> SUFFICES ASSUME NEW i \in 1 .. Len(got), NEW j \in 1 .. Len(stream'),
                          IsHead(got[i]), IsHead(stream'[j])
                   PROVE  got[i].of < stream'[j].of
        OBVIOUS
      <4>1. CASE j \in 1 .. Len(stream) /\ stream'[j] = stream[j]
        BY <3>1, <4>1 DEF ReadInv
      <4>2. CASE stream'[j].of = Len(sent) + 1
        <5>1. got[i].of <= Len(sent) /\ got[i].of \in Nat
          BY <3>1, <3>4 DEF ReadInv
        <5> QED
          BY <3>2, <4>2, <5>1
      <4> QED
        BY <3>3, <4>1, <4>2
    <3>6. \A j \in 1 .. Len(got) : got[j].of <= Len(sent')
      BY <3>1, <3>2, <3>4 DEF ReadInv
    <3> QED
      BY <2>1, <3>1, <3>5, <3>6 DEF ReadInv
  <2> QED
    BY <1>1, <2>1, <2>2
<1>7. ASSUME NEW n \in 1 .. Len(stream), Receive(n) PROVE B
  <2>1. reading = 1 /\ reading' = 0 /\ read_buffer_ = Zeroes
    BY <1>1, <1>3, <1>7 DEF Receive, ChainInv
  <2>2. ReadInv'
    <3>1. /\ read_buffer_' = [j \in 1 .. BufferSize |->
                                IF j <= n THEN stream[j] ELSE read_buffer_[j]]
          /\ UNCHANGED <<sent, executed>>
      BY <1>7 DEF Receive, history
    <3>2. \A j \in 1 .. BufferSize : read_buffer_'[j] = IF j <= n THEN stream[j] ELSE NUL
      BY <2>1, <3>1 DEF Zeroes
    <3>3. n \in Nat /\ Len(stream) \in Nat
      BY NumberTypes
    <3>4. /\ Len(got') = n /\ \A j \in 1 .. n : got'[j] = stream[j]
          /\ Len(stream') = Len(stream) - n
          /\ \A j \in 1 .. Len(stream) - n : stream'[j] = stream[n + j]
          /\ n < BufferSize
      BY <1>7, ReceiveEffect
    <3>5. \A j \in 1 .. BufferSize :
            read_buffer_'[j] = IF j <= Len(got') THEN got'[j] ELSE NUL
      BY <3>2, <3>3, <3>4
    <3>12. \A i \in 1 .. n : i \in 1 .. Len(stream)
      BY <3>3
    <3>13. \A i \in 1 .. n, j \in 1 .. Len(stream) - n :
             n + j \in 1 .. Len(stream) /\ i < n + j
      BY <3>3
    <3>6. \A i \in 1 .. Len(executed), j \in 1 .. n :
            IsHead(stream[j]) => executed[i] < stream[j].of
      BY <3>12 DEF StreamInv
    <3>7. \A i \in 1 .. n, j \in 1 .. Len(stream) - n :
            IsHead(stream[i]) /\ IsHead(stream[n + j]) => stream[i].of < stream[n + j].of
      <4>1. \A i, j \in 1 .. Len(stream) :
              i < j /\ IsHead(stream[i]) /\ IsHead(stream[j]) => stream[i].of < stream[j].of
        BY DEF StreamInv
      <4> QED
        BY <3>12, <3>13, <4>1
    <3>8. \A j \in 1 .. n : stream[j].of <= Len(sent)
      BY <3>12 DEF StreamInv
    <3>9. \A j \in 1 .. Len(got') : got'[j].of <= Len(sent')
      BY <3>1, <3>4, <3>8
    <3>10. \A i \in 1 .. Len(executed'), j \in 1 .. Len(got') :
             IsHead(got'[j]) => executed'[i] < got'[j].of
      BY <3>1, <3>4, <3>6
    <3>11. \A i \in 1 .. Len(got'), j \in 1 .. Len(stream') :
             IsHead(got'[i]) /\ IsHead(stream'[j]) => got'[i].of < stream'[j].of
      BY <3>4, <3>7
    <3> QED
      BY <3>4, <3>5, <3>9, <3>10, <3>11 DEF ReadInv
  <2> QED
    BY <2>1, <2>2
<1>8. ASSUME ReadFails PROVE B
  <2>1. NoneOf(queue) /\ reading' = 0 /\ queue' = Append(queue, Job("failed"))
    BY <1>3, <1>8 DEF ReadFails, ChainInv, NoneOf
  <2>2. ~HasRead(queue')
    BY <1>3, <1>4, <2>1, NoneRead, ReadPushed
  <2> QED
    BY <2>1, <2>2
<1>9. ASSUME WriteEnds PROVE B
  <2>1. NoneOf(queue) /\ reading' = 0 /\ queue' = Append(queue, Job("written"))
    BY <1>3, <1>9 DEF WriteEnds, ChainInv, NoneOf
  <2>2. ~HasRead(queue')
    BY <1>3, <1>4, <2>1, NoneRead, ReadPushed
  <2> QED
    BY <2>1, <2>2
<1>10. ASSUME Drop PROVE B
  BY <1>5, <1>10 DEF Drop, client, pool, history
<1>11. ASSUME Other PROVE B
  <2>1. HasRead(queue') => HasRead(queue)
    BY <1>3, <1>4, <1>11, ReadPushed DEF Other
  <2> QED
    BY <1>5, <1>11, <2>1 DEF Other, client, session, history
<1>12. ASSUME OnRead PROVE B
  <2>1. queue # <<>> /\ Head(queue).what \in Chain
    BY <1>12, ReadEffect DEF Chain
  <2>2. NoneOf(Tail(queue)) /\ reading = 0 /\ Tail(queue) \in Seq(Jobs)
    BY <2>1, ChainTaken, QueueRest
  <2>3. reading' > 0 => read_buffer_' = Zeroes
    BY <1>12, <2>2, ReadEffect
  <2>4. ASSUME NEW job \in Jobs, job.what # "read", queue' = Append(Tail(queue), job)
        PROVE  ~HasRead(queue')
    BY <2>2, <2>4, NoneRead, ReadPushed
  <2>5. \A k \in 1 .. Len(sent) : \A n \in Parsed(sent[k].message) :
          FiboJob(k, n) \in Jobs /\ FiboJob(k, n).what # "read"
    BY JobTypes, ParsedOfSent DEF FiboJob
  <2>6. Job("other") \in Jobs /\ Job("other").what # "read"
    BY <1>4
  <2>7. ~HasRead(queue')
    BY <1>12, <2>2, <2>4, <2>5, <2>6, NoneRead, ReadEffect
  <2> QED
    BY <2>3, <2>7
<1>13. ASSUME OnReadEnds \/ OnWritten PROVE B
  <2>1. queue # <<>> /\ Head(queue).what \in Chain /\ queue' = Tail(queue)
    BY <1>13 DEF OnReadEnds, OnWritten, Take, Done, Chain
  <2>2. ~HasRead(queue') /\ reading = 0
    BY <2>1, ChainTaken, NoneRead
  <2>3. reading' > 0 => read_buffer_' = Zeroes
    BY <1>13, <2>2 DEF OnReadEnds, OnWritten, do_read, Zeroed
  <2> QED
    BY <2>2, <2>3
<1>14. ASSUME OnOther \/ DoGetFibo PROVE B
  <2>1. queue # <<>> /\ queue' = Tail(queue)
    BY <1>14 DEF OnOther, DoGetFibo, Take, Done
  <2>2. HasRead(queue') => HasRead(queue)
    BY <1>3, <2>1, ReadTaken
  <2> QED
    BY <1>5, <1>14, <2>2 DEF OnOther, DoGetFibo, client, session, history
<1>15. ASSUME NEW r, Iterate(r) \/ Answer(r) PROVE B
  BY <1>5, <1>15 DEF Iterate, Answer, client, session, history
<1>16. ASSUME UNCHANGED vars PROVE B
  BY <1>5, <1>16 DEF vars, client, session, pool, history
<1> HIDE DEF B
<1>17. [Next]_vars => B
  BY <1>6, <1>7, <1>8, <1>9, <1>10, <1>11, <1>12, <1>13, <1>14, <1>15, <1>16
     DEF Next, Handle, Compute
<1> QED
  BY <1>17 DEF B

-----------------------------------------------------------------------------
\* One iteration takes the two numbers before the i-th to those before the next.
LEMMA Iteration ==
  ASSUME NEW r \in Calls, r.n < W - 1, 3 <= r.i, r.i <= r.n,
         r.a = Fib[r.i - 2], r.b = Fib[r.i - 1]
  PROVE  /\ Iterated(r).i = r.i + 1
         /\ Iterated(r).a = Fib[r.i - 1] /\ Iterated(r).b = Fib[r.i]
         /\ Iterated(r).cmd = r.cmd /\ Iterated(r).n = r.n
PROOF
<1>1. /\ W \in Nat /\ W > 3 /\ r.i \in Nat /\ r.n \in Nat
      /\ Iterated(r) = [r EXCEPT !.i = (r.i + 1) % W, !.a = r.b, !.b = (r.a + r.b) % W]
  BY RequestsAssumption DEF Calls, Iterated
<1>2. (r.i + 1) % W = r.i + 1
  BY <1>1
<1>3. r.i \in 3 .. W - 1
  BY <1>1
<1>4. Fib[r.i] = (Fib[r.i - 1] + Fib[r.i - 2]) % W
  BY <1>3, FibAssumption
<1>5. r.a \in Int /\ r.b \in Int
  BY <1>1 DEF Calls
<1>6. (r.a + r.b) % W = Fib[r.i]
  <2>1. r.a + r.b = Fib[r.i - 1] + Fib[r.i - 2]
    BY <1>5
  <2> QED
    BY <1>4, <2>1
<1>7. /\ Iterated(r).i = (r.i + 1) % W /\ Iterated(r).a = r.b
      /\ Iterated(r).b = (r.a + r.b) % W
      /\ Iterated(r).cmd = r.cmd /\ Iterated(r).n = r.n
  BY <1>1 DEF Calls
<1> QED
  BY <1>2, <1>6, <1>7

\* A computation that ends has the number it was asked for.
LEMMA NumberOfAnswer ==
  ASSUME NEW r \in Calls, Computed(r), r.i > r.n, r.n < W - 1
  PROVE  r.b = Fib[r.n]
PROOF
<1>1. r.i \in Nat /\ r.n \in Nat
  BY DEF Calls
<1>2. CASE 3 < r.i /\ r.i <= r.n + 1
  <2>1. r.i - 1 = r.n
    BY <1>1, <1>2
  <2> QED
    BY <2>1 DEF Computed
<1>3. CASE r.i = 3
  <2>1. r.n \in 0 .. 2 /\ r.i - 1 = 2
    BY <1>1, <1>3
  <2>2. Fib[r.n] = 1 /\ Fib[2] = 1
    BY <2>1, FibAssumption
  <2> QED
    BY <2>1, <2>2 DEF Computed
<1> QED
  BY <1>2, <1>3 DEF Computed

\* A request that was made remains one.
LEMMA AskedRemains ==
  ASSUME TypeOK, NEW m \in Messages, sent' = sent \/ sent' = Append(sent, m),
         NEW k, NEW n, Asked(k, n)
  PROVE  Asked(k, n)'
PROOF
<1>1. sent \in Seq(Messages)
  BY DEF TypeOK
<1>2. k \in 1 .. Len(sent') /\ sent'[k] = sent[k]
  BY <1>1 DEF Asked
<1> QED
  BY <1>2 DEF Asked

\* Every step keeps the computations to the numbers that were asked for.
LEMMA FiboStep ==
  ASSUME TypeOK, FiboInv
  PROVE  [Next]_vars => FiboInv'
PROOF
<1> DEFINE J(q) == \A j \in 1 .. Len(q) : q[j].what = "fibo" => Asked(q[j].cmd, q[j].n)
<1>1. queue \in Seq(Jobs) /\ J(queue)
  BY DEF TypeOK, FiboInv
<1>2. ASSUME NEW q \in Seq(Jobs), NEW job \in Jobs, J(q),
             job.what = "fibo" => Asked(job.cmd, job.n)
      PROVE  J(Append(q, job))
  BY <1>2
<1>3. ASSUME queue # <<>>
      PROVE  /\ J(Tail(queue)) /\ Tail(queue) \in Seq(Jobs)
             /\ Head(queue).what = "fibo" => Asked(Head(queue).cmd, Head(queue).n)
  BY <1>1, <1>3, QueueRest
<1>4. \A w \in {"read", "failed", "written", "other"} :
        Job(w) \in Jobs /\ Job(w).what # "fibo"
  BY JobTypes DEF Job
<1>5. ASSUME J(queue'), UNCHANGED <<sent, running, fibs>> PROVE FiboInv'
  <2>1. J(queue)'
    BY <1>5 DEF Asked
  <2> QED
    BY <1>5, <2>1 DEF FiboInv, Computed, Asked
<1>6. ASSUME NEW m \in Messages, NEW end \in Ends, Send(m, end) PROVE FiboInv'
  <2>1. sent' = Append(sent, m) /\ UNCHANGED <<queue, running, fibs>>
    BY <1>6 DEF Send, pool, history
  <2>2. \A k, n : Asked(k, n) => Asked(k, n)'
    BY <2>1, AskedRemains
  <2>3. J(queue)'
    BY <1>1, <2>1, <2>2
  <2>4. \A r \in running' : Computed(r)'
    BY <2>1, <2>2 DEF FiboInv, Computed
  <2>5. \A f \in fibs' : Asked(f.cmd, f.n)' /\ f.value = Fib[f.n]
    BY <2>1, <2>2 DEF FiboInv
  <2> QED
    BY <2>3, <2>4, <2>5 DEF FiboInv
<1>7. ASSUME NEW n \in 1 .. Len(stream), Receive(n) PROVE FiboInv'
  <2>1. J(queue')
    BY <1>1, <1>2, <1>4, <1>7 DEF Receive
  <2> QED
    BY <1>5, <1>7, <2>1 DEF Receive, history
<1>8. ASSUME ReadFails PROVE FiboInv'
  <2>1. J(queue')
    BY <1>1, <1>2, <1>4, <1>8 DEF ReadFails
  <2> QED
    BY <1>5, <1>8, <2>1 DEF ReadFails, client, history
<1>9. ASSUME WriteEnds PROVE FiboInv'
  <2>1. J(queue')
    BY <1>1, <1>2, <1>4, <1>9 DEF WriteEnds
  <2> QED
    BY <1>5, <1>9, <2>1 DEF WriteEnds, client, history
<1>10. ASSUME Drop PROVE FiboInv'
  BY <1>1, <1>5, <1>10 DEF Drop, client, pool, history
<1>11. ASSUME Other PROVE FiboInv'
  <2>1. J(queue')
    BY <1>1, <1>2, <1>4, <1>11 DEF Other
  <2> QED
    BY <1>5, <1>11, <2>1 DEF Other, client, session, history
<1>12. ASSUME OnRead PROVE FiboInv'
  <2>1. queue # <<>> /\ UNCHANGED <<sent, running, fibs>>
    BY <1>12, ReadEffect DEF client
  <2>2. ASSUME NEW k \in 1 .. Len(sent), NEW n \in Parsed(sent[k].message)
        PROVE  J(Append(Tail(queue), FiboJob(k, n)))
    <3>1. FiboJob(k, n) \in Jobs
      BY JobTypes, ParsedOfSent
    <3>2. Asked(FiboJob(k, n).cmd, FiboJob(k, n).n)
      BY DEF FiboJob, Asked
    <3> QED
      BY <1>2, <1>3, <2>1, <3>1, <3>2
  <2>3. J(Append(Tail(queue), Job("other")))
    BY <1>2, <1>3, <1>4, <2>1
  <2>4. J(Tail(queue))
    BY <1>3, <2>1
  <2> HIDE DEF J
  <2>5. J(queue')
    BY <1>12, <2>2, <2>3, <2>4, ReadEffect
  <2> QED
    BY <1>5, <2>1, <2>5
<1>13. ASSUME OnReadEnds \/ OnWritten \/ OnOther PROVE FiboInv'
  <2>1. queue # <<>> /\ queue' = Tail(queue) /\ UNCHANGED <<sent, running, fibs>>
    BY <1>13 DEF OnReadEnds, OnWritten, OnOther, Take, Done, client, history
  <2> QED
    BY <1>3, <1>5, <2>1
<1>14. ASSUME DoGetFibo PROVE FiboInv'
  <2>1. /\ queue # <<>> /\ Head(queue).what = "fibo" /\ queue' = Tail(queue)
        /\ UNCHANGED <<sent, fibs>>
        /\ running' = running \union {[cmd |-> Head(queue).cmd, n |-> Head(queue).n,
                                       i |-> 3, a |-> 1, b |-> 1]}
    BY <1>14 DEF DoGetFibo, Take, Done, First, client, history
  <2>2. Asked(Head(queue).cmd, Head(queue).n)
    BY <1>3, <2>1
  <2>3. Fib[3 - 2] = 1 /\ Fib[3 - 1] = 1
    BY FibAssumption
  <2>4. ASSUME NEW c, c = [cmd |-> Head(queue).cmd, n |-> Head(queue).n, i |-> 3,
                           a |-> 1, b |-> 1]
        PROVE  Computed(c)
    <3>1. /\ c.cmd = Head(queue).cmd /\ c.n = Head(queue).n
          /\ c.i = 3 /\ c.a = 1 /\ c.b = 1
      BY <2>4
    <3>2. Fib[c.i - 2] = 1 /\ Fib[c.i - 1] = 1
      BY <2>3, <3>1
    <3>3. Asked(c.cmd, c.n)
      BY <2>2, <3>1, Zenon
    <3>4. c.i = 3 /\ c.a = Fib[c.i - 2] /\ c.b = Fib[c.i - 1]
      BY <3>1, <3>2
    <3> QED
      BY <3>3, <3>4 DEF Computed
  <2>5. \A r \in running' : Computed(r)
    BY <2>1, <2>4 DEF FiboInv
  <2>6. J(queue')
    BY <1>3, <2>1
  <2>7. \A r \in running' : Computed(r)'
    BY <2>1, <2>5 DEF Computed, Asked
  <2>8. J(queue)'
    BY <2>1, <2>6 DEF Asked
  <2> QED
    BY <2>1, <2>7, <2>8 DEF FiboInv, Asked
<1>15. ASSUME NEW r \in running, Iterate(r) PROVE FiboInv'
  <2>1. /\ UNCHANGED <<sent, queue, fibs>> /\ r.i <= r.n
        /\ running' = (running \ {r}) \union {Iterated(r)}
    BY <1>15 DEF Iterate, client, history
  <2>2. Computed(r) /\ r \in Calls
    BY DEF FiboInv, TypeOK
  <2>3. Computed(Iterated(r))
    <3>1. Iterated(r).cmd = r.cmd /\ Iterated(r).n = r.n
      BY <2>2 DEF Iterated, Calls
    <3>2. CASE r.n < W - 1
      <4>1. r.i \in Nat /\ r.n \in Nat /\ 3 <= r.i
        BY <2>2, <3>2 DEF Computed, Calls
      <4>2. /\ Iterated(r).i = r.i + 1
            /\ Iterated(r).a = Fib[r.i - 1] /\ Iterated(r).b = Fib[r.i]
        BY <2>1, <2>2, <3>2, <4>1, Iteration DEF Computed
      <4>3. (r.i + 1) - 2 = r.i - 1 /\ (r.i + 1) - 1 = r.i /\ 3 < r.i + 1 /\ r.i + 1 <= r.n + 1
        BY <2>1, <4>1
      <4> QED
        BY <2>2, <3>1, <4>2, <4>3 DEF Computed
    <3>3. CASE ~(r.n < W - 1)
      BY <2>2, <3>1, <3>3 DEF Computed
    <3> QED
      BY <3>2, <3>3
  <2>4. \A x \in running' : Computed(x)
    BY <2>1, <2>3 DEF FiboInv
  <2> QED
    BY <2>1, <2>4 DEF FiboInv, Computed, Asked
<1>16. ASSUME NEW r \in running, Answer(r) PROVE FiboInv'
  <2>1. /\ UNCHANGED <<sent, queue>> /\ r.i > r.n
        /\ running' = running \ {r}
        /\ fibs' \subseteq fibs \union {[cmd |-> r.cmd, n |-> r.n, value |-> r.b]}
    BY <1>16 DEF Answer, Written, client
  <2>2. Computed(r) /\ r \in Calls /\ W \in Nat /\ W > 3
    BY RequestsAssumption DEF FiboInv, TypeOK
  <2>3. r.i \in Nat /\ r.n \in Nat /\ r.i <= W - 1
    BY <2>2 DEF Calls
  <2>4. r.n < W - 1
    BY <2>1, <2>2, <2>3
  <2>5. r.b = Fib[r.n]
    BY <2>1, <2>2, <2>4, NumberOfAnswer
  <2>6. \A f \in fibs' : Asked(f.cmd, f.n) /\ f.value = Fib[f.n]
    BY <2>1, <2>2, <2>5 DEF FiboInv, Computed
  <2> QED
    BY <2>1, <2>6 DEF FiboInv, Computed, Asked
<1>17. ASSUME UNCHANGED vars PROVE FiboInv'
  BY <1>1, <1>5, <1>17 DEF vars, client, pool, history
<1> HIDE DEF J
<1> QED
  BY <1>6, <1>7, <1>8, <1>9, <1>10, <1>11, <1>12, <1>13, <1>14, <1>15, <1>16, <1>17
     DEF Next, Handle, Compute

-----------------------------------------------------------------------------
\* Every step that executes a command executes one that comes after the others,
\* and the one that its read brought alone.
LEMMA ExecutedStep ==
  ASSUME TypeOK, BufferInv, ExecutedOnce, AloneExecuted
  PROVE  [Next]_vars => ExecutedOnce' /\ AloneExecuted'
PROOF
<1>1. ASSUME UNCHANGED <<executed, alone>> PROVE ExecutedOnce' /\ AloneExecuted'
  BY <1>1 DEF ExecutedOnce, AloneExecuted
<1>2. ASSUME OnRead PROVE ExecutedOnce' /\ AloneExecuted'
  <2>1. ReadInv
    BY <1>2, ReadEffect, QueueRest DEF BufferInv
  <2>2. alone' = alone \union {k \in 1 .. Len(sent) : IsCommand(read_buffer_, k)}
    BY <1>2, <2>1, ReadEffect, SameCommand
  <2>3. Len(executed) \in Nat
    BY NumberTypes
  <2>4. CASE executed' = executed /\ \A k \in 1 .. Len(sent) : ~IsCommand(read_buffer_, k)
    <3>1. alone' = alone
      BY <2>2, <2>4
    <3> QED
      BY <1>1, <2>4, <3>1
  <2>5. ASSUME NEW k \in 1 .. Len(sent), IsCommand(read_buffer_, k),
               executed' = Append(executed, k)
        PROVE  ExecutedOnce' /\ AloneExecuted'
    <3>1. /\ Len(executed') = Len(executed) + 1
          /\ \A i \in 1 .. Len(executed) : executed'[i] = executed[i]
          /\ executed'[Len(executed) + 1] = k
      BY <2>5 DEF TypeOK
    <3>2. PICK p \in 1 .. Len(got) : got[p] = HeadOf(k)
      BY <2>1, <2>5, SameCommand
    <3>3. \A i \in 1 .. Len(executed) : executed[i] < k
      BY <2>1, <3>2 DEF ReadInv, IsHead, HeadOf
    <3>4. ExecutedOnce'
      BY <2>3, <3>1, <3>3 DEF ExecutedOnce
    <3>5. \A l \in 1 .. Len(sent) : IsCommand(read_buffer_, l) => l = k
      <4>1. DOMAIN read_buffer_ \subseteq Nat
        BY RequestsAssumption DEF TypeOK
      <4>2. \A l \in 1 .. Len(sent) : l \in Nat
        BY NumberTypes
      <4> QED
        BY <2>5, <4>1, <4>2, OneCommand
    <3>6. alone' \subseteq alone \union {k}
      BY <2>2, <3>5
    <3>7. ASSUME NEW l \in alone' PROVE \E i \in 1 .. Len(executed') : executed'[i] = l
      <4>1. CASE l = k
        BY <2>3, <3>1, <4>1
      <4>2. CASE l \in alone
        <5>1. PICK i \in 1 .. Len(executed) : executed[i] = l
          BY <4>2 DEF AloneExecuted
        <5> QED
          BY <2>3, <3>1, <5>1
      <4> QED
        BY <3>6, <3>7, <4>1, <4>2
    <3> QED
      BY <3>4, <3>7 DEF AloneExecuted
  <2> QED
    BY <1>2, <2>4, <2>5, ReadEffect
<1>3. ASSUME \/ \E m \in Messages, end \in Ends : Send(m, end)
             \/ \E n \in 1 .. Len(stream) : Receive(n)
             \/ ReadFails \/ WriteEnds \/ Drop \/ Other
             \/ OnReadEnds \/ OnWritten \/ OnOther \/ DoGetFibo
      PROVE  ExecutedOnce' /\ AloneExecuted'
  BY <1>1, <1>3 DEF Send, Receive, ReadFails, WriteEnds, Drop, Other, OnReadEnds, OnWritten,
     OnOther, DoGetFibo, history
<1>4. ASSUME NEW r, Iterate(r) \/ Answer(r) PROVE ExecutedOnce' /\ AloneExecuted'
  BY <1>1, <1>4 DEF Iterate, Answer, history
<1>5. ASSUME UNCHANGED vars PROVE ExecutedOnce' /\ AloneExecuted'
  BY <1>1, <1>5 DEF vars, history
<1> QED
  BY <1>2, <1>3, <1>4, <1>5 DEF Next, Handle, Compute

-----------------------------------------------------------------------------
\* The inductive invariant: what is on its way, in the buffer and in the queue is
\* in the order of the commands, and each computation is on its way to its number.
THEOREM Invariance == Spec => []IInv
PROOF
<1>1. Init => IInv
  <2> SUFFICES ASSUME Init PROVE IInv
    OBVIOUS
  <2>1. TypeOK
    <3>1. <<>> \in Seq(Messages) /\ <<>> \in Seq(Tokens) /\ <<>> \in Seq(Jobs)
          /\ <<>> \in Seq(1 .. MaxSent) /\ Len(<<>>) = 0
      OBVIOUS
    <3> QED
      BY <3>1, ZeroesType, RequestsAssumption DEF Init, TypeOK
  <2>2. Len(queue) = 0 /\ Len(stream) = 0 /\ Len(executed) = 0 /\ Len(sent) = 0
    BY DEF Init
  <2>3. ChainInv
    BY <2>2 DEF Init, ChainInv
  <2>4. StreamInv
    BY <2>2 DEF StreamInv
  <2>5. BufferInv
    BY <2>2 DEF Init, BufferInv
  <2>6. FiboInv
    BY <2>2 DEF Init, FiboInv
  <2>7. ExecutedOnce /\ AloneExecuted
    BY <2>2 DEF Init, ExecutedOnce, AloneExecuted
  <2> QED
    BY <2>1, <2>3, <2>4, <2>5, <2>6, <2>7 DEF IInv
<1>2. IInv /\ [Next]_vars => IInv'
  BY TypeStep, ChainStep, StreamStep, BufferStep, FiboStep, ExecutedStep DEF IInv
<1> QED
  BY <1>1, <1>2, PTL DEF Spec

\* The types of the variables.
THEOREM TypeCorrect == Spec => []TypeOK
PROOF
<1>1. IInv => TypeOK
  BY DEF IInv
<1> QED
  BY <1>1, Invariance, PTL

\* No command is executed twice or after a later one, however TCP cuts the bytes.
THEOREM OnceCorrect == Spec => []ExecutedOnce
PROOF
<1>1. IInv => ExecutedOnce
  BY DEF IInv
<1> QED
  BY <1>1, Invariance, PTL

\* A command that a read brings alone is executed.
THEOREM AloneCorrect == Spec => []AloneExecuted
PROOF
<1>1. IInv => AloneExecuted
  BY DEF IInv
<1> QED
  BY <1>1, Invariance, PTL

\* The answers to Fibonacci requests, for every width of size_t and every text.
THEOREM FiboNumbersCorrect == Spec => []FiboCorrect
PROOF
<1>1. IInv => FiboCorrect
  <2> SUFFICES ASSUME IInv, NEW f \in fibs
               PROVE  /\ f.value = Fib[f.n]
                      /\ LET text == sent[f.cmd].message
                         IN  text.kind = "number" /\ 0 <= text.n /\ text.n < W => f.n = text.n
    BY DEF FiboCorrect
  <2> DEFINE text == sent[f.cmd].message
  <2>1. f.value = Fib[f.n] /\ f.cmd \in 1 .. Len(sent) /\ f.n \in Parsed(text)
    BY DEF IInv, FiboInv, Asked
  <2>2. sent[f.cmd] \in AllMessages
    BY <2>1, RequestsAssumption DEF IInv, TypeOK
  <2>3. text \in Texts
    BY <2>2 DEF AllMessages
  <2> HIDE DEF text
  <2>4. ASSUME text.kind = "number", 0 <= text.n, text.n < W PROVE f.n = text.n
    <3>1. text.n \in Int /\ W \in Nat /\ W > 3
      BY <2>3, RequestsAssumption DEF Texts
    <3>2. text.n % W = text.n /\ -W < text.n
      BY <2>4, <3>1
    <3> QED
      BY <2>1, <2>4, <3>2 DEF Parsed
  <2> USE DEF text
  <2> QED
    BY <2>1, <2>4
<1> QED
  BY <1>1, Invariance, PTL

\* ReadAnswered is a theorem, too: a read that brings bytes of a command is
\* executed or answered.
THEOREM AnsweredCorrect == Spec => ReadAnswered
PROOF
<1>1. IInv /\ [Next]_vars =>
        [OnRead /\ Kept(got) # {} => executed' # executed \/ writing' > writing]_vars
  <2> SUFFICES ASSUME IInv, OnRead, Kept(got) # {}
               PROVE  executed' # executed \/ writing' > writing
    OBVIOUS
  <2>1. TypeOK /\ BufferInv
    BY DEF IInv
  <2>2. ReadInv
    BY <2>1, ReadEffect, QueueRest DEF BufferInv
  <2>3. ~Empty(read_buffer_)
    BY <2>1, <2>2, BufferHasRead DEF Empty
  <2>4. CASE \E k \in 1 .. Len(sent) : executed' = Append(executed, k)
    BY <2>1, <2>4 DEF TypeOK
  <2>5. CASE do_write
    BY <2>1, <2>5 DEF do_write, TypeOK
  <2> QED
    BY <2>3, <2>4, <2>5 DEF OnRead
<1> QED
  BY <1>1, Invariance, PTL DEF Spec, ReadAnswered
=============================================================================
