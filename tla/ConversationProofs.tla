-------------------------- MODULE ConversationProofs --------------------------
(***************************************************************************)
(* Proof that Requests implements Conversation, for any commands and        *)
(* terminators, any numbers of commands, threads and handlers of other      *)
(* sessions, and any W: the session and its client take turns, and a number *)
(* that is owed for a Fibonacci request is told once.                      *)
(***************************************************************************)
EXTENDS RequestsProofs

\* The computations that are posted in a queue, and whether one is for command k.
Posts(q) == {Owed(q[j]) : j \in {i \in 1 .. Len(q) : q[i].what = "fibo"}}

PostedIn(q, k) == \E j \in 1 .. Len(q) : q[j].what = "fibo" /\ q[j].cmd = k

SingleIn(q) ==
  \A i, j \in 1 .. Len(q) :
    q[i].what = "fibo" /\ q[j].what = "fibo" /\ q[i].cmd = q[j].cmd => i = j

Ran(k) == \E i \in 1 .. Len(executed) : executed[i] = k

\* A Fibonacci request was executed, and is at most once in the queue, on a thread
\* or told.
OwedInv ==
  /\ SingleIn(queue)
  /\ \A r, s \in running : r.cmd = s.cmd => r = s
  /\ \A r \in running : ~PostedIn(queue, r.cmd)
  /\ \A f \in fibs : ~PostedIn(queue, f.cmd) /\ \A r \in running : r.cmd # f.cmd
  /\ \A k : PostedIn(queue, k) => Ran(k)
  /\ \A r \in running \union fibs : Ran(r.cmd)

-----------------------------------------------------------------------------
\* Any other job in the queue changes nothing of what is posted.
LEMMA PushOther ==
  ASSUME NEW q \in Seq(Jobs), NEW job \in Jobs, job.what # "fibo"
  PROVE  /\ SingleIn(q) => SingleIn(Append(q, job))
         /\ \A k : PostedIn(Append(q, job), k) <=> PostedIn(q, k)
         /\ Posts(Append(q, job)) = Posts(q)
PROOF
<1>1. /\ Len(q) \in Nat /\ Len(Append(q, job)) = Len(q) + 1
      /\ \A j \in 1 .. Len(q) : Append(q, job)[j] = q[j]
      /\ Append(q, job)[Len(q) + 1] = job
  OBVIOUS
<1>2. \A i \in 1 .. Len(Append(q, job)) :
        Append(q, job)[i].what = "fibo" => i \in 1 .. Len(q)
  BY <1>1
<1>3. SingleIn(q) => SingleIn(Append(q, job))
  BY <1>1, <1>2 DEF SingleIn
<1>4. \A k : PostedIn(Append(q, job), k) <=> PostedIn(q, k)
  BY <1>1, <1>2 DEF PostedIn
<1>5. {i \in 1 .. Len(Append(q, job)) : Append(q, job)[i].what = "fibo"}
        = {i \in 1 .. Len(q) : q[i].what = "fibo"}
  BY <1>1, <1>2
<1>6. Posts(Append(q, job)) = Posts(q)
  BY <1>1, <1>5 DEF Posts
<1> QED
  BY <1>3, <1>4, <1>6

\* A computation that is posted.
LEMMA PushFibo ==
  ASSUME NEW q \in Seq(Jobs), NEW job \in Jobs, job.what = "fibo"
  PROVE  /\ SingleIn(q) /\ ~PostedIn(q, job.cmd) => SingleIn(Append(q, job))
         /\ \A k : PostedIn(Append(q, job), k) <=> PostedIn(q, k) \/ k = job.cmd
         /\ Posts(Append(q, job)) = Posts(q) \union {Owed(job)}
PROOF
<1>1. /\ Len(q) \in Nat /\ Len(Append(q, job)) = Len(q) + 1
      /\ \A j \in 1 .. Len(q) : Append(q, job)[j] = q[j]
      /\ Append(q, job)[Len(q) + 1] = job
  OBVIOUS
<1>2. 1 .. Len(Append(q, job)) = (1 .. Len(q)) \union {Len(q) + 1}
  BY <1>1
<1>3. SingleIn(q) /\ ~PostedIn(q, job.cmd) => SingleIn(Append(q, job))
  BY <1>1, <1>2 DEF SingleIn, PostedIn
<1>4. \A k : PostedIn(Append(q, job), k) <=> PostedIn(q, k) \/ k = job.cmd
  BY <1>1, <1>2 DEF PostedIn
<1>5. {i \in 1 .. Len(Append(q, job)) : Append(q, job)[i].what = "fibo"}
        = {i \in 1 .. Len(q) : q[i].what = "fibo"} \union {Len(q) + 1}
  BY <1>1, <1>2
<1>6. Posts(Append(q, job)) = Posts(q) \union {Owed(job)}
  BY <1>1, <1>5 DEF Posts
<1> QED
  BY <1>3, <1>4, <1>6

\* A job that is taken.
LEMMA TakePost ==
  ASSUME NEW q \in Seq(Jobs), q # <<>>
  PROVE  /\ SingleIn(q) => SingleIn(Tail(q))
         /\ \A k : PostedIn(Tail(q), k) => PostedIn(q, k)
         /\ Head(q).what # "fibo" => Posts(Tail(q)) = Posts(q)
         /\ Head(q).what = "fibo" =>
              /\ Posts(q) = Posts(Tail(q)) \union {Owed(Head(q))}
              /\ PostedIn(q, Head(q).cmd)
              /\ SingleIn(q) => ~PostedIn(Tail(q), Head(q).cmd)
PROOF
<1>1. /\ Len(q) \in Nat /\ Len(q) > 0 /\ Head(q) = q[1] /\ Len(Tail(q)) = Len(q) - 1
      /\ \A j \in 1 .. Len(Tail(q)) : Tail(q)[j] = q[j + 1]
  OBVIOUS
<1>2. \A j \in 1 .. Len(Tail(q)) : j + 1 \in 1 .. Len(q) /\ j + 1 # 1
  BY <1>1
<1>3. \A j \in 1 .. Len(q) : j = 1 \/ (j - 1 \in 1 .. Len(Tail(q)) /\ Tail(q)[j - 1] = q[j])
  BY <1>1
<1>4. SingleIn(q) => SingleIn(Tail(q))
  BY <1>1, <1>2 DEF SingleIn
<1>5. \A k : PostedIn(Tail(q), k) => PostedIn(q, k)
  BY <1>1, <1>2 DEF PostedIn
<1>6. Posts(Tail(q)) \subseteq Posts(q)
  BY <1>1, <1>2 DEF Posts
<1>7. ASSUME NEW o \in Posts(q)
      PROVE  o \in Posts(Tail(q)) \/ (Head(q).what = "fibo" /\ o = Owed(Head(q)))
  <2>1. PICK j \in 1 .. Len(q) : q[j].what = "fibo" /\ o = Owed(q[j])
    BY DEF Posts
  <2>2. CASE j = 1
    BY <1>1, <2>1, <2>2
  <2>3. CASE j - 1 \in 1 .. Len(Tail(q)) /\ Tail(q)[j - 1] = q[j]
    BY <2>1, <2>3 DEF Posts
  <2> QED
    BY <1>3, <2>2, <2>3
<1>8. Head(q).what # "fibo" => Posts(Tail(q)) = Posts(q)
  BY <1>6, <1>7
<1>9. ASSUME Head(q).what = "fibo"
      PROVE  /\ Posts(q) = Posts(Tail(q)) \union {Owed(Head(q))}
             /\ PostedIn(q, Head(q).cmd)
             /\ SingleIn(q) => ~PostedIn(Tail(q), Head(q).cmd)
  <2>1. 1 \in 1 .. Len(q)
    BY <1>1
  <2>2. Owed(Head(q)) \in Posts(q)
    BY <1>1, <1>9, <2>1 DEF Posts
  <2>3. PostedIn(q, Head(q).cmd)
    BY <1>1, <1>9, <2>1 DEF PostedIn
  <2>4. SingleIn(q) => ~PostedIn(Tail(q), Head(q).cmd)
    BY <1>1, <1>2, <1>9, <2>1 DEF SingleIn, PostedIn
  <2> QED
    BY <1>6, <1>7, <2>2, <2>3, <2>4
<1> QED
  BY <1>4, <1>5, <1>8, <1>9

-----------------------------------------------------------------------------
\* Commands that were executed remain so.
LEMMA RanRemains ==
  ASSUME TypeOK, NEW k, Ran(k), NEW c,
         executed' = executed \/ executed' = Append(executed, c)
  PROVE  Ran(k)'
PROOF
<1>1. executed \in Seq(1 .. MaxSent)
  BY DEF TypeOK
<1>2. PICK i \in 1 .. Len(executed) : executed[i] = k
  BY DEF Ran
<1>3. i \in 1 .. Len(executed') /\ executed'[i] = k
  BY <1>1, <1>2
<1> QED
  BY <1>3 DEF Ran

\* A step of no computation, after which nothing more is posted than before.
LEMMA OwedKept ==
  ASSUME TypeOK, OwedInv, UNCHANGED <<running, fibs>>, NEW c,
         executed' = executed \/ executed' = Append(executed, c),
         SingleIn(queue'), \A k : PostedIn(queue', k) => PostedIn(queue, k)
  PROVE  OwedInv'
PROOF
<1>1. \A k : Ran(k) => Ran(k)'
  BY RanRemains
<1>2. \A k : PostedIn(queue, k)' => PostedIn(queue, k)
  BY DEF PostedIn
<1>3. SingleIn(queue)'
  BY DEF SingleIn
<1>4. /\ \A r, s \in running' : r.cmd = s.cmd => r = s
      /\ \A r \in running' : ~PostedIn(queue, r.cmd)'
      /\ \A f \in fibs' : ~PostedIn(queue, f.cmd)' /\ \A r \in running' : r.cmd # f.cmd
  BY <1>2 DEF OwedInv
<1>5. \A k : PostedIn(queue, k)' => Ran(k)'
  BY <1>1, <1>2 DEF OwedInv
<1>6. \A r \in running' \union fibs' : Ran(r.cmd)'
  BY <1>1 DEF OwedInv
<1> QED
  BY <1>3, <1>4, <1>5, <1>6 DEF OwedInv

\* A read executes a command later than all those before.
LEMMA ReadInOrder ==
  ASSUME TypeOK, BufferInv, OnRead
  PROVE  \A k \in 1 .. Len(sent) : IsCommand(read_buffer_, k) =>
           \A i \in 1 .. Len(executed) : executed[i] < k
PROOF
<1>1. ReadInv
  BY ReadEffect, QueueRest DEF BufferInv
<1>2. ASSUME NEW k \in 1 .. Len(sent), IsCommand(read_buffer_, k)
      PROVE  \A i \in 1 .. Len(executed) : executed[i] < k
  <2>1. PICK p \in 1 .. Len(got) : got[p] = HeadOf(k)
    BY <1>1, <1>2, SameCommand
  <2> QED
    BY <1>1, <2>1 DEF ReadInv, IsHead, HeadOf
<1> QED
  BY <1>2

\* The session neither reads on nor answers.
Quiet == UNCHANGED <<reading, read_buffer_, writing>>

\* What the handler of a read does, command by command: the session answers, reads
\* on or does neither; the number of a Fibonacci request is posted, and the session
\* reads on.
LEMMA ReadParts ==
  ASSUME TypeOK, BufferInv, OnRead
  PROVE  /\ queue # <<>> /\ Head(queue).what = "read" /\ started_
         /\ UNCHANGED <<sent, running, fibs>>
         /\ \/ \E k \in 1 .. Len(sent) :
                 /\ \A i \in 1 .. Len(executed) : executed[i] < k
                 /\ executed' = Append(executed, k)
                 /\ \/ /\ \E n \in 0 .. W - 1 : Post(FiboJob(k, n))
                       /\ do_read
                    \/ /\ Done \/ Post(Job("other"))
                       /\ do_read \/ do_write \/ (Quiet /\ started_' \in BOOLEAN)
            \/ Done /\ executed' = executed /\ (do_read \/ do_write)
PROOF
<1>1. /\ queue # <<>> /\ Head(queue).what = "read" /\ started_
      /\ UNCHANGED <<sent, running, fibs>>
  BY DEF OnRead, Take, client
<1>2. CASE \E k \in 1 .. Len(sent) : /\ IsCommand(read_buffer_, k)
                                     /\ Dispatch(k) /\ executed' = Append(executed, k)
  <2>1. PICK k \in 1 .. Len(sent) : /\ IsCommand(read_buffer_, k)
                                    /\ Dispatch(k) /\ executed' = Append(executed, k)
    BY <1>2
  <2>2. \A i \in 1 .. Len(executed) : executed[i] < k
    BY <2>1, ReadInOrder
  <2>3. \/ /\ \E n \in 0 .. W - 1 : Post(FiboJob(k, n))
           /\ do_read
        \/ /\ Done \/ Post(Job("other"))
           /\ do_read \/ do_write \/ (Quiet /\ started_' \in BOOLEAN)
    <3>1. CASE do_write /\ Done
      BY <3>1
    <3>2. CASE on_fibo(k)
      BY <3>2, ParsedOfSent DEF on_fibo
    <3>3. CASE on_ipcam_event
      BY <3>3 DEF on_ipcam_event
    <3>4. CASE started_' = FALSE /\ Done /\ UNCHANGED <<reading, read_buffer_, writing>>
      BY <3>4 DEF Quiet
    <3>5. CASE NoAnswer /\ Done
      <4>1. started_' \in BOOLEAN
        BY <3>5 DEF NoAnswer, TypeOK
      <4> QED
        BY <3>5, <4>1 DEF NoAnswer, Quiet
    <3> QED
      BY <2>1, <3>1, <3>2, <3>3, <3>4, <3>5 DEF Dispatch
  <2> QED
    BY <1>1, <2>1, <2>2, <2>3
<1>3. CASE Done /\ executed' = executed /\ (do_read \/ do_write)
  BY <1>1, <1>3
<1> QED
  BY <1>2, <1>3 DEF OnRead

-----------------------------------------------------------------------------
\* Every step keeps the computations to one for each request.
LEMMA OwedStep ==
  ASSUME TypeOK, BufferInv, OwedInv
  PROVE  [Next]_vars => OwedInv'
PROOF
<1>1. queue \in Seq(Jobs)
  BY DEF TypeOK
<1>2. \A w \in {"read", "failed", "written", "other"} :
        Job(w) \in Jobs /\ Job(w).what # "fibo"
  BY JobTypes DEF Job
<1>3. SingleIn(queue)
  BY DEF OwedInv
<1>4. ASSUME UNCHANGED <<queue, running, fibs, executed>> PROVE OwedInv'
  BY <1>3, <1>4, OwedKept DEF OwedInv
<1>5. ASSUME NEW w \in {"read", "failed", "written", "other"},
             queue' = Append(queue, Job(w)), UNCHANGED <<running, fibs, executed>>
      PROVE  OwedInv'
  <2>1. SingleIn(queue') /\ \A k : PostedIn(queue', k) => PostedIn(queue, k)
    BY <1>1, <1>2, <1>3, <1>5, PushOther
  <2> QED
    BY <1>5, <2>1, OwedKept
<1>6. ASSUME queue # <<>>, queue' = Tail(queue), UNCHANGED <<running, fibs, executed>>
      PROVE  OwedInv'
  <2>1. SingleIn(queue') /\ \A k : PostedIn(queue', k) => PostedIn(queue, k)
    BY <1>1, <1>3, <1>6, TakePost
  <2> QED
    BY <1>6, <2>1, OwedKept
<1>7. ASSUME OnRead PROVE OwedInv'
  <2>1. queue # <<>> /\ UNCHANGED <<running, fibs>>
    BY <1>7, ReadParts
  <2>2. /\ Tail(queue) \in Seq(Jobs) /\ SingleIn(Tail(queue))
        /\ \A k : PostedIn(Tail(queue), k) => PostedIn(queue, k)
    BY <1>1, <1>3, <2>1, TakePost, Taken
  <2>3. CASE Done /\ executed' = executed
    BY <1>6, <2>1, <2>3 DEF Done
  <2>4. ASSUME NEW k \in 1 .. Len(sent), executed' = Append(executed, k),
               \A i \in 1 .. Len(executed) : executed[i] < k
        PROVE  /\ Done \/ Post(Job("other")) => OwedInv'
               /\ \A n \in 0 .. W - 1 : Post(FiboJob(k, n)) => OwedInv'
    <3>1. CASE Done
      <4>1. SingleIn(queue') /\ \A m : PostedIn(queue', m) => PostedIn(queue, m)
        BY <2>2, <3>1 DEF Done
      <4> QED
        BY <2>1, <2>4, <4>1, OwedKept
    <3>2. CASE Post(Job("other"))
      <4>1. queue' = Append(Tail(queue), Job("other"))
        BY <3>2 DEF Post
      <4>2. SingleIn(queue') /\ \A m : PostedIn(queue', m) => PostedIn(Tail(queue), m)
        BY <1>2, <2>2, <4>1, PushOther
      <4> QED
        BY <2>1, <2>2, <2>4, <4>2, OwedKept
    <3>3. ASSUME NEW n \in 0 .. W - 1, Post(FiboJob(k, n)) PROVE OwedInv'
      <4>1. /\ queue' = Append(Tail(queue), FiboJob(k, n)) /\ FiboJob(k, n) \in Jobs
            /\ FiboJob(k, n).what = "fibo" /\ FiboJob(k, n).cmd = k
        BY <3>3, JobTypes, ParsedOfSent DEF Post, FiboJob
      <4>2. ~Ran(k)
        BY <2>4, NumberTypes DEF Ran
      <4>3. ~PostedIn(queue, k) /\ \A r \in running \union fibs : r.cmd # k
        BY <4>2 DEF OwedInv
      <4>4. SingleIn(queue') /\ \A m : PostedIn(queue', m) => PostedIn(queue, m) \/ m = k
        <5>1. ~PostedIn(Tail(queue), k)
          BY <2>2, <4>3
        <5>2. /\ SingleIn(Append(Tail(queue), FiboJob(k, n)))
              /\ \A m : PostedIn(Append(Tail(queue), FiboJob(k, n)), m) <=>
                         PostedIn(Tail(queue), m) \/ m = k
          BY <2>2, <4>1, <5>1, PushFibo
        <5> QED
          BY <2>2, <4>1, <5>2
      <4>5. Ran(k)' /\ \A m : Ran(m) => Ran(m)'
        <5>1. executed \in Seq(1 .. MaxSent)
          BY DEF TypeOK
        <5>2. Len(executed) + 1 \in 1 .. Len(executed') /\ executed'[Len(executed) + 1] = k
          BY <2>4, <5>1
        <5> QED
          BY <2>4, <5>2, RanRemains DEF Ran
      <4>6. SingleIn(queue)' /\ \A m : PostedIn(queue, m)' => PostedIn(queue, m) \/ m = k
        BY <4>4 DEF SingleIn, PostedIn
      <4>7. \A r, q \in running' : r.cmd = q.cmd => r = q
        BY <2>1 DEF OwedInv
      <4>8. \A r \in running' : ~PostedIn(queue, r.cmd)'
        BY <2>1, <4>3, <4>6 DEF OwedInv
      <4>9. \A f \in fibs' : ~PostedIn(queue, f.cmd)' /\ \A r \in running' : r.cmd # f.cmd
        BY <2>1, <4>3, <4>6 DEF OwedInv
      <4>10. \A m : PostedIn(queue, m)' => Ran(m)'
        BY <4>5, <4>6 DEF OwedInv
      <4>11. \A r \in running' \union fibs' : Ran(r.cmd)'
        BY <2>1, <4>5 DEF OwedInv
      <4> QED
        BY <4>6, <4>7, <4>8, <4>9, <4>10, <4>11 DEF OwedInv
    <3> QED
      BY <3>1, <3>2, <3>3
  <2> QED
    BY <1>7, <2>3, <2>4, ReadParts
<1>8. ASSUME DoGetFibo PROVE OwedInv'
  <2> DEFINE h == Head(queue)
             c == [cmd |-> h.cmd, n |-> h.n, i |-> First, a |-> 1, b |-> 1]
  <2>1. /\ queue # <<>> /\ h.what = "fibo" /\ queue' = Tail(queue)
        /\ running' = running \union {c}
        /\ UNCHANGED <<executed, fibs>>
    BY <1>8 DEF DoGetFibo, Take, Done, history
  <2>2. c.cmd = h.cmd
    OBVIOUS
  <2> HIDE DEF c, h
  <2>3. /\ SingleIn(queue') /\ \A k : PostedIn(queue', k) => PostedIn(queue, k)
        /\ PostedIn(queue, h.cmd) /\ ~PostedIn(queue', h.cmd)
    BY <1>1, <1>3, <2>1, TakePost DEF h
  <2>4. SingleIn(queue)' /\ \A k : PostedIn(queue, k)' => PostedIn(queue, k) /\ k # h.cmd
    BY <2>3 DEF SingleIn, PostedIn
  <2>5. \A k : Ran(k)' <=> Ran(k)
    BY <2>1 DEF Ran
  <2>6. \A r \in running : r.cmd # h.cmd
    BY <2>3 DEF OwedInv
  <2>7. \A f \in fibs : f.cmd # h.cmd
    BY <2>3 DEF OwedInv
  <2>8. \A r, s \in running' : r.cmd = s.cmd => r = s
    BY <2>1, <2>2, <2>6 DEF OwedInv
  <2>9. \A r \in running' : ~PostedIn(queue, r.cmd)'
    BY <2>1, <2>2, <2>4 DEF OwedInv
  <2>10. \A f \in fibs' : ~PostedIn(queue, f.cmd)' /\ \A r \in running' : r.cmd # f.cmd
    BY <2>1, <2>2, <2>4, <2>7 DEF OwedInv
  <2>11. \A k : PostedIn(queue, k)' => Ran(k)'
    BY <2>4, <2>5 DEF OwedInv
  <2>12. \A r \in running' \union fibs' : Ran(r.cmd)'
    BY <2>1, <2>2, <2>3, <2>5 DEF OwedInv
  <2> QED
    BY <2>4, <2>8, <2>9, <2>10, <2>11, <2>12 DEF OwedInv
<1>9. ASSUME NEW r \in running, Iterate(r) PROVE OwedInv'
  <2>1. /\ running' = (running \ {r}) \union {Iterated(r)}
        /\ UNCHANGED <<queue, executed, fibs>>
    BY <1>9 DEF Iterate, history
  <2>2. Iterated(r).cmd = r.cmd
    BY DEF Iterated, Calls, TypeOK
  <2>3. \A q \in running' : \E p \in running : /\ q.cmd = p.cmd
                                              /\ q = IF p = r THEN Iterated(r) ELSE p
    BY <2>1, <2>2
  <2>4. SingleIn(queue)' /\ \A k : /\ PostedIn(queue, k)' <=> PostedIn(queue, k)
                                   /\ Ran(k)' <=> Ran(k)
    BY <1>3, <2>1 DEF SingleIn, PostedIn, Ran
  <2>5. \A p, q \in running' : p.cmd = q.cmd => p = q
    BY <2>3 DEF OwedInv
  <2>6. \A q \in running' : ~PostedIn(queue, q.cmd)' /\ Ran(q.cmd)'
    BY <2>3, <2>4 DEF OwedInv
  <2>7. \A f \in fibs' : /\ ~PostedIn(queue, f.cmd)' /\ Ran(f.cmd)'
                         /\ \A q \in running' : q.cmd # f.cmd
    BY <2>1, <2>3, <2>4 DEF OwedInv
  <2>8. \A k : PostedIn(queue, k)' => Ran(k)'
    BY <2>4 DEF OwedInv
  <2> QED
    BY <2>4, <2>5, <2>6, <2>7, <2>8 DEF OwedInv
<1>10. ASSUME NEW r \in running, Answer(r) PROVE OwedInv'
  <2>1. /\ running' = running \ {r} /\ UNCHANGED <<queue, executed>>
        /\ fibs' \subseteq fibs \union {[cmd |-> r.cmd, n |-> r.n, value |-> r.b]}
    BY <1>10 DEF Answer, Written
  <2>2. SingleIn(queue)' /\ \A k : /\ PostedIn(queue, k)' <=> PostedIn(queue, k)
                                   /\ Ran(k)' <=> Ran(k)
    BY <1>3, <2>1 DEF SingleIn, PostedIn, Ran
  <2>3. \A f \in fibs' : f \in fibs \/ f.cmd = r.cmd
    BY <2>1
  <2>4. \A q \in running' : q \in running /\ q.cmd # r.cmd
    BY <2>1 DEF OwedInv
  <2>5. \A f \in fibs' : /\ ~PostedIn(queue, f.cmd)' /\ Ran(f.cmd)'
                         /\ \A q \in running' : q.cmd # f.cmd
    BY <2>2, <2>3, <2>4 DEF OwedInv
  <2>6. /\ \A p, q \in running' : p.cmd = q.cmd => p = q
        /\ \A q \in running' : ~PostedIn(queue, q.cmd)' /\ Ran(q.cmd)'
        /\ \A k : PostedIn(queue, k)' => Ran(k)'
    BY <2>2, <2>4 DEF OwedInv
  <2> QED
    BY <2>2, <2>5, <2>6 DEF OwedInv
<1>11. ASSUME \/ \E m \in Messages, end \in Ends : Send(m, end)
              \/ Drop
       PROVE  OwedInv'
  BY <1>4, <1>11 DEF Send, Drop, pool, history
<1>12. ASSUME (\E n \in 1 .. Len(stream) : Receive(n)) \/ ReadFails \/ WriteEnds \/ Other
       PROVE  OwedInv'
  BY <1>5, <1>12 DEF Receive, ReadFails, WriteEnds, Other, history
<1>13. ASSUME OnReadEnds \/ OnWritten \/ OnOther PROVE OwedInv'
  BY <1>6, <1>13 DEF OnReadEnds, OnWritten, OnOther, Take, Done, history
<1>14. ASSUME UNCHANGED vars PROVE OwedInv'
  BY <1>4, <1>14 DEF vars, pool, history
<1> QED
  BY <1>7, <1>8, <1>9, <1>10, <1>11, <1>12, <1>13, <1>14 DEF Next, Handle, Compute

-----------------------------------------------------------------------------
\* Whose turn it is, by reads and writes on their way and by the queue.
Has(q, what) == \E j \in 1 .. Len(q) : q[j].what = what

TurnOf(r, w, q) ==
  IF r > 0 THEN "client"
  ELSE IF w > 0 \/ Has(q, "written") THEN "answer"
  ELSE IF Has(q, "read") \/ Has(q, "failed") THEN "session"
  ELSE "nobody"

\* The turn, before and after a step.
LEMMA TurnIs ==
  /\ turn = TurnOf(reading, writing, queue)
  /\ turn' = TurnOf(reading', writing', queue')
  BY DEF turn, Waits, TurnOf, Has

\* With no job of the chain in the queue the turn is told by the counts.
LEMMA TurnNone ==
  ASSUME NEW q, NoneOf(q), NEW r, NEW w
  PROVE  TurnOf(r, w, q) = IF r > 0 THEN "client" ELSE IF w > 0 THEN "answer" ELSE "nobody"
PROOF
<1>1. ~Has(q, "written") /\ ~Has(q, "read") /\ ~Has(q, "failed")
  BY DEF NoneOf, Has, Chain
<1> QED
  BY <1>1 DEF TurnOf

\* What a job that becomes ready makes of the turn.
LEMMA TurnPushed ==
  ASSUME NEW q \in Seq(Jobs), NEW job \in Jobs
  PROVE  /\ job.what \notin Chain =>
              \A r, w : TurnOf(r, w, Append(q, job)) = TurnOf(r, w, q)
         /\ NoneOf(q) /\ job.what = "written" => TurnOf(0, 0, Append(q, job)) = "answer"
         /\ NoneOf(q) /\ job.what \in {"read", "failed"} =>
              TurnOf(0, 0, Append(q, job)) = "session"
PROOF
<1>1. /\ Len(q) \in Nat /\ Len(Append(q, job)) = Len(q) + 1
      /\ \A j \in 1 .. Len(q) : Append(q, job)[j] = q[j]
      /\ Append(q, job)[Len(q) + 1] = job
  OBVIOUS
<1>2. 1 .. Len(Append(q, job)) = (1 .. Len(q)) \union {Len(q) + 1}
  BY <1>1
<1>3. \A what : Has(Append(q, job), what) <=> Has(q, what) \/ job.what = what
  BY <1>1, <1>2 DEF Has
<1>4. NoneOf(q) => ~Has(q, "written") /\ ~Has(q, "read") /\ ~Has(q, "failed")
  BY DEF NoneOf, Has, Chain
<1>5. ASSUME job.what \notin Chain, NEW r, NEW w
      PROVE  TurnOf(r, w, Append(q, job)) = TurnOf(r, w, q)
  BY <1>3, <1>5 DEF TurnOf, Chain
<1>6. NoneOf(q) /\ job.what = "written" => TurnOf(0, 0, Append(q, job)) = "answer"
  BY <1>3 DEF TurnOf
<1>7. NoneOf(q) /\ job.what \in {"read", "failed"} => TurnOf(0, 0, Append(q, job)) = "session"
  BY <1>3, <1>4 DEF TurnOf
<1> QED
  BY <1>5, <1>6, <1>7

\* What the first job says of the turn.
LEMMA TurnTaken ==
  ASSUME NEW q \in Seq(Jobs), q # <<>>
  PROVE  /\ Head(q).what \notin Chain => \A r, w : TurnOf(r, w, Tail(q)) = TurnOf(r, w, q)
         /\ OneOf(q) /\ Head(q).what = "written" => TurnOf(0, 0, q) = "answer"
         /\ OneOf(q) /\ Head(q).what \in {"read", "failed"} => TurnOf(0, 0, q) = "session"
PROOF
<1>1. /\ Len(q) \in Nat /\ 1 \in 1 .. Len(q) /\ Head(q) = q[1]
      /\ Len(Tail(q)) = Len(q) - 1
      /\ \A j \in 1 .. Len(Tail(q)) : Tail(q)[j] = q[j + 1] /\ j + 1 \in 1 .. Len(q)
      /\ \A j \in 1 .. Len(q) : j = 1 \/ (j - 1 \in 1 .. Len(Tail(q)) /\ Tail(q)[j - 1] = q[j])
  OBVIOUS
<1>2. \A what : Has(q, what) <=> Has(Tail(q), what) \/ Head(q).what = what
  BY <1>1 DEF Has
<1>3. ASSUME Head(q).what \notin Chain, NEW r, NEW w
      PROVE  TurnOf(r, w, Tail(q)) = TurnOf(r, w, q)
  BY <1>2, <1>3 DEF TurnOf, Chain
<1>4. Head(q).what = "written" => TurnOf(0, 0, q) = "answer"
  BY <1>2 DEF TurnOf
<1>5. ASSUME OneOf(q), Head(q).what \in {"read", "failed"} PROVE TurnOf(0, 0, q) = "session"
  <2>1. ~Has(q, "written")
    BY <1>1, <1>5 DEF OneOf, Has, Chain
  <2>2. Has(q, "read") \/ Has(q, "failed")
    BY <1>2, <1>5
  <2> QED
    BY <2>1, <2>2 DEF TurnOf
<1> QED
  BY <1>3, <1>4, <1>5

\* A step that Conversation does not see.
LEMMA Hidden ==
  ASSUME UNCHANGED <<sent, started_, executed, fibs>>, turn' = turn, owed' = owed
  PROVE  UNCHANGED Talk!vars
  BY DEF Talk!vars

\* The numbers that are owed by the queue and by the threads.
Computing(R) == {Owed(r) : r \in R}

\* What is owed, before and after a step.
LEMMA OwedIs ==
  /\ owed = Posts(queue) \union Computing(running)
  /\ owed' = Posts(queue') \union Computing(running')
  BY DEF owed, Posts, Computing

-----------------------------------------------------------------------------
\* The handler of a read is the session's turn: a command is executed, a number
\* owed, or nothing executed.
LEMMA TalkRead ==
  ASSUME TypeOK, ChainInv, BufferInv, OnRead
  PROVE  Talk!Next
PROOF
<1>1. /\ queue # <<>> /\ Head(queue).what = "read" /\ started_
      /\ UNCHANGED <<sent, running, fibs>>
  BY ReadParts
<1>2. /\ queue \in Seq(Jobs) /\ OneOf(queue) /\ reading = 0 /\ writing = 0
      /\ Tail(queue) \in Seq(Jobs) /\ NoneOf(Tail(queue))
  BY <1>1, ChainTaken, Taken DEF TypeOK, ChainInv, OneOf, Chain
<1>3. turn = "session"
  BY <1>1, <1>2, TurnTaken, TurnIs
<1>4. Posts(queue) = Posts(Tail(queue))
  BY <1>1, <1>2, TakePost
<1>5. \A w \in {"other"} : Job(w) \in Jobs /\ Job(w).what = "other"
  BY JobTypes DEF Job
<1>6. ASSUME Done \/ Post(Job("other"))
      PROVE  NoneOf(queue') /\ Posts(queue') = Posts(queue)
  <2>1. CASE Done
    BY <1>2, <1>4, <2>1 DEF Done
  <2>2. CASE Post(Job("other"))
    <3>1. queue' = Append(Tail(queue), Job("other"))
      BY <2>2 DEF Post
    <3>2. NoneOf(queue')
      BY <1>2, <1>5, <3>1, Pushed DEF Chain
    <3>3. Posts(queue') = Posts(Tail(queue))
      BY <1>2, <1>5, <3>1, PushOther
    <3> QED
      BY <1>4, <3>2, <3>3
  <2> QED
    BY <1>6, <2>1, <2>2
<1>7. ASSUME NoneOf(queue')
      PROVE  /\ do_read => turn' = "client" /\ started_' = started_
             /\ do_write => turn' = "answer" /\ started_' = started_
             /\ Quiet => turn' = "nobody"
  BY <1>2, <1>7, TurnNone, TurnIs DEF do_read, do_write, Quiet
<1>8. ASSUME Posts(queue') = Posts(queue) PROVE owed' = owed
  BY <1>1, <1>8, OwedIs
<1>9. CASE Done /\ executed' = executed /\ (do_read \/ do_write)
  <2>1. owed' = owed /\ NoneOf(queue')
    BY <1>6, <1>8, <1>9
  <2>2. Talk!Miss
    BY <1>1, <1>3, <1>7, <1>9, <2>1 DEF Talk!Miss, Talk!Passes
  <2> QED
    BY <2>2 DEF Talk!Next
<1>10. ASSUME NEW k \in 1 .. Len(sent), executed' = Append(executed, k),
              \A i \in 1 .. Len(executed) : executed[i] < k
       PROVE  /\ \A n \in 0 .. W - 1 : Post(FiboJob(k, n)) /\ do_read => Talk!Next
              /\ (Done \/ Post(Job("other"))) /\ (do_read \/ do_write \/ (Quiet /\ started_' \in BOOLEAN))
                   => Talk!Next
  <2>1. Talk!InOrder(k)
    BY <1>10 DEF Talk!InOrder
  <2>2. ASSUME NEW n \in 0 .. W - 1, Post(FiboJob(k, n)), do_read PROVE Talk!Next
    <3>1. /\ queue' = Append(Tail(queue), FiboJob(k, n)) /\ FiboJob(k, n) \in Jobs
          /\ FiboJob(k, n).what = "fibo" /\ FiboJob(k, n).cmd = k /\ FiboJob(k, n).n = n
      BY <2>2, JobTypes, ParsedOfSent DEF Post, FiboJob
    <3>2. NoneOf(queue')
      BY <1>2, <3>1, Pushed DEF Chain
    <3>3. Posts(queue') = Posts(queue) \union {[cmd |-> k, n |-> n]}
      BY <1>2, <1>4, <3>1, PushFibo DEF Owed
    <3>4. owed' = owed \union {[cmd |-> k, n |-> n]}
      BY <1>1, <3>3, OwedIs
    <3>5. Talk!Owe(k, n)
      BY <1>1, <1>3, <1>7, <1>10, <2>1, <2>2, <3>2, <3>4 DEF Talk!Owe, Talk!Passes
    <3> QED
      BY <2>2, <3>5 DEF Talk!Next
  <2>3. ASSUME Done \/ Post(Job("other")),
               do_read \/ do_write \/ (Quiet /\ started_' \in BOOLEAN)
        PROVE  Talk!Next
    <3>1. owed' = owed /\ NoneOf(queue')
      BY <1>6, <1>8, <2>3
    <3>2. CASE do_read \/ do_write \/ (Quiet /\ started_' = TRUE)
      BY <1>1, <1>3, <1>7, <1>10, <2>1, <3>1, <3>2 DEF Talk!Next, Talk!Execute, Talk!Passes
    <3>3. CASE Quiet /\ started_' = FALSE
      BY <1>1, <1>3, <1>7, <1>10, <2>1, <3>1, <3>3 DEF Talk!Next, Talk!Execute, Talk!Passes
    <3> QED
      BY <2>3, <3>2, <3>3
  <2> QED
    BY <2>2, <2>3
<1> QED
  BY <1>9, <1>10, ReadParts

\* A number that was computed is told, or its client is gone.
LEMMA TalkAnswer ==
  ASSUME TypeOK, FiboInv, OwedInv, NEW r \in running, Answer(r)
  PROVE  Talk!Next
PROOF
<1> DEFINE o == Owed(r)
<1>1. /\ r.i > r.n /\ running' = running \ {r}
      /\ fibs' = IF started_ THEN fibs \union {[cmd |-> r.cmd, n |-> r.n, value |-> r.b]} ELSE fibs
      /\ UNCHANGED <<sent, started_, reading, writing, queue, executed>>
  BY DEF Answer, Written, client, session
<1>2. r \in Calls /\ Computed(r) /\ W \in Nat /\ W > 3 /\ started_ \in BOOLEAN
  BY RequestsAssumption DEF TypeOK, FiboInv
<1>3. r.n < W - 1
  BY <1>1, <1>2 DEF Calls
<1>4. r.b = Fib[r.n]
  BY <1>1, <1>2, <1>3, NumberOfAnswer
<1>5. o.cmd = r.cmd /\ o.n = r.n
  BY DEF Owed
<1>6. o \in owed
  BY OwedIs DEF Computing
<1>7. o \notin Posts(queue)
  BY DEF OwedInv, PostedIn, Posts, Owed
<1>8. Computing(running') = Computing(running) \ {o}
  <2>1. \A q \in running' : Owed(q) # o
    BY <1>1, <1>5 DEF OwedInv, Owed
  <2>2. \A q \in running : q \in running' \/ q = r
    BY <1>1
  <2>3. running' \subseteq running
    BY <1>1
  <2> QED
    BY <2>1, <2>2, <2>3 DEF Computing
<1>9. owed' = owed \ {o}
  BY <1>1, <1>7, <1>8, OwedIs
<1>10. turn' = turn
  BY <1>1, TurnIs
<1>11. CASE started_
  <2>1. \A f \in fibs : f.cmd # o.cmd
    BY <1>5 DEF OwedInv
  <2>2. fibs' = fibs \union {[cmd |-> o.cmd, n |-> o.n, value |-> Fib[o.n]]}
    BY <1>1, <1>4, <1>5, <1>11
  <2> HIDE DEF o
  <2>3. Talk!Tell(o)
    BY <1>1, <1>3, <1>5, <1>6, <1>9, <1>10, <1>11, <2>1, <2>2 DEF Talk!Tell
  <2> QED
    BY <1>6, <2>3 DEF Talk!Next
<1>12. CASE ~started_
  <2> HIDE DEF o
  <2>1. Talk!Forget(o)
    BY <1>1, <1>6, <1>9, <1>10, <1>12 DEF Talk!Forget
  <2> QED
    BY <1>6, <2>1 DEF Talk!Next
<1> QED
  BY <1>11, <1>12

\* The other steps: the turn passes, or the step is hidden.
LEMMA TalkStep ==
  ASSUME TypeOK, ChainInv, BufferInv, FiboInv, OwedInv
  PROVE  [Next]_vars => [Talk!Next]_(Talk!vars)
PROOF
<1>1. /\ queue \in Seq(Jobs) /\ OneOf(queue) /\ reading \in Nat /\ writing \in Nat
      /\ reading + writing <= 1
      /\ reading + writing > 0 => NoneOf(queue)
  BY DEF TypeOK, ChainInv, OneOf, NoneOf
<1>2. \A w \in {"read", "failed", "written", "other"} : Job(w) \in Jobs /\ Job(w).what = w
  BY JobTypes DEF Job
<1>3. ASSUME NEW w \in {"read", "failed", "written", "other"}, UNCHANGED running,
             queue' = Append(queue, Job(w))
      PROVE  owed' = owed
  BY <1>1, <1>2, <1>3, PushOther, OwedIs
<1>4. ASSUME queue # <<>>, Head(queue).what # "fibo", UNCHANGED running, queue' = Tail(queue)
      PROVE  owed' = owed
  BY <1>1, <1>4, TakePost, OwedIs
<1>5. ASSUME NEW m \in Messages, NEW end \in Ends, Send(m, end) PROVE Talk!Next
  <2>1. sent' = Append(sent, m) /\ UNCHANGED <<session, pool, history>>
    BY <1>5 DEF Send
  <2>2. Len(sent)' = Len(sent) + 1
    BY <2>1 DEF TypeOK
  <2>3. turn' = turn /\ owed' = owed
    BY <2>1, TurnIs, OwedIs DEF session, pool
  <2>4. Talk!Ask
    BY <2>1, <2>2, <2>3 DEF Talk!Ask, session, history
  <2> QED
    BY <2>4 DEF Talk!Next
<1>6. ASSUME NEW w \in {"read", "failed"}, reading > 0, reading' = reading - 1,
             queue' = Append(queue, Job(w)),
             UNCHANGED <<sent, started_, writing, running, executed, fibs>>
      PROVE  Talk!Next
  <2>1. reading = 1 /\ writing = 0 /\ NoneOf(queue)
    BY <1>1, <1>6
  <2>2. turn = "client" /\ turn' = "session"
    BY <1>1, <1>2, <1>6, <2>1, TurnNone, TurnPushed, TurnIs
  <2>3. Talk!Hear
    BY <1>3, <1>6, <2>2 DEF Talk!Hear, Talk!Passes
  <2> QED
    BY <2>3 DEF Talk!Next
<1>7. ASSUME NEW n \in 1 .. Len(stream), Receive(n) PROVE Talk!Next
  BY <1>6, <1>7 DEF Receive, history
<1>8. ASSUME ReadFails PROVE Talk!Next
  BY <1>6, <1>8 DEF ReadFails, client, history
<1>9. ASSUME WriteEnds PROVE UNCHANGED Talk!vars
  <2>1. /\ writing > 0 /\ writing' = writing - 1 /\ queue' = Append(queue, Job("written"))
        /\ UNCHANGED <<sent, started_, reading, running, executed, fibs>>
    BY <1>9 DEF WriteEnds, client, history
  <2>2. reading = 0 /\ writing = 1 /\ NoneOf(queue)
    BY <1>1, <2>1
  <2>3. turn = "answer" /\ turn' = "answer"
    BY <1>1, <1>2, <2>1, <2>2, TurnNone, TurnPushed, TurnIs
  <2> QED
    BY <1>3, <2>1, <2>3, Hidden
<1>10. ASSUME Drop PROVE Talk!Next
  <2>1. started_' = FALSE /\ UNCHANGED <<sent, reading, writing, queue, running, executed, fibs>>
    BY <1>10 DEF Drop, client, pool, history
  <2>2. Talk!Stop
    BY <2>1, TurnIs, OwedIs DEF Talk!Stop
  <2> QED
    BY <2>2 DEF Talk!Next
<1>11. ASSUME Other PROVE UNCHANGED Talk!vars
  <2>1. /\ queue' = Append(queue, Job("other"))
        /\ UNCHANGED <<sent, started_, reading, writing, running, executed, fibs>>
    BY <1>11 DEF Other, client, session, history
  <2>2. turn' = turn
    BY <1>1, <1>2, <2>1, TurnPushed, TurnIs DEF Chain
  <2> QED
    BY <1>3, <2>1, <2>2, Hidden
<1>12. ASSUME queue # <<>>, Head(queue).what \in Chain
       PROVE  /\ reading = 0 /\ writing = 0 /\ NoneOf(Tail(queue))
              /\ turn = IF Head(queue).what = "written" THEN "answer" ELSE "session"
  <2>1. reading = 0 /\ writing = 0 /\ NoneOf(Tail(queue))
    BY <1>12, ChainTaken
  <2> QED
    BY <1>1, <1>12, <2>1, TurnTaken, TurnIs DEF Chain
<1>13. ASSUME OnReadEnds PROVE Talk!Next
  <2>1. /\ queue # <<>> /\ Head(queue).what \in {"read", "failed"} /\ queue' = Tail(queue)
        /\ started_' = FALSE
        /\ UNCHANGED <<sent, reading, writing, running, executed, fibs>>
    BY <1>13 DEF OnReadEnds, Take, Done, client, history
  <2>2. turn = "session" /\ turn' = "nobody"
    BY <1>12, <2>1, TurnNone, TurnIs DEF Chain
  <2>3. Talk!Close
    BY <1>4, <2>1, <2>2 DEF Talk!Close, Talk!Passes
  <2> QED
    BY <2>3 DEF Talk!Next
<1>14. ASSUME OnWritten PROVE Talk!Next
  <2>1. /\ queue # <<>> /\ Head(queue).what = "written" /\ queue' = Tail(queue)
        /\ reading' = reading + 1
        /\ UNCHANGED <<sent, started_, writing, running, executed, fibs>>
    BY <1>14 DEF OnWritten, Take, Done, do_read, client, history
  <2>2. turn = "answer" /\ turn' = "client"
    BY <1>12, <2>1, TurnNone, TurnIs DEF Chain
  <2>3. Talk!Answered
    BY <1>4, <2>1, <2>2 DEF Talk!Answered, Talk!Passes
  <2> QED
    BY <2>3 DEF Talk!Next
<1>15. ASSUME OnOther PROVE UNCHANGED Talk!vars
  <2>1. /\ queue # <<>> /\ Head(queue).what = "other" /\ queue' = Tail(queue)
        /\ UNCHANGED <<sent, started_, reading, writing, running, executed, fibs>>
    BY <1>15 DEF OnOther, Take, Done, client, session, history
  <2>2. turn' = turn
    BY <1>1, <2>1, TurnTaken, TurnIs DEF Chain
  <2> QED
    BY <1>4, <2>1, <2>2, Hidden
<1>16. ASSUME DoGetFibo PROVE UNCHANGED Talk!vars
  <2> DEFINE c == [cmd |-> Head(queue).cmd, n |-> Head(queue).n, i |-> First, a |-> 1, b |-> 1]
  <2>1. /\ queue # <<>> /\ Head(queue).what = "fibo" /\ queue' = Tail(queue)
        /\ running' = running \union {c}
        /\ UNCHANGED <<sent, started_, reading, writing, executed, fibs>>
    BY <1>16 DEF DoGetFibo, Take, Done, client, session, history
  <2>2. turn' = turn
    BY <1>1, <2>1, TurnTaken, TurnIs DEF Chain
  <2>3. Owed(c) = Owed(Head(queue))
    BY DEF Owed
  <2> HIDE DEF c
  <2>4. Posts(queue) = Posts(queue') \union {Owed(c)}
    BY <1>1, <2>1, <2>3, TakePost
  <2>5. Computing(running') = Computing(running) \union {Owed(c)}
    BY <2>1 DEF Computing
  <2>6. owed' = owed
    BY <2>4, <2>5, OwedIs
  <2> QED
    BY <2>1, <2>2, <2>6, Hidden
<1>17. ASSUME NEW r \in running, Iterate(r) PROVE UNCHANGED Talk!vars
  <2>1. /\ running' = (running \ {r}) \union {Iterated(r)}
        /\ UNCHANGED <<sent, started_, reading, writing, queue, executed, fibs>>
    BY <1>17 DEF Iterate, client, session, history
  <2>2. Iterated(r).cmd = r.cmd /\ Iterated(r).n = r.n
    BY DEF Iterated, Calls, TypeOK
  <2>3. Computing(running') = Computing(running)
    BY <2>1, <2>2 DEF Computing, Owed
  <2> QED
    BY <2>1, <2>3, TurnIs, OwedIs, Hidden
<1>18. ASSUME UNCHANGED vars PROVE UNCHANGED Talk!vars
  <2>1. UNCHANGED <<sent, started_, reading, writing, queue, running, executed, fibs>>
    BY <1>18 DEF vars, client, session, pool, history
  <2> QED
    BY <2>1, TurnIs, OwedIs, Hidden
<1>19. ASSUME Next PROVE Talk!Next \/ UNCHANGED Talk!vars
  BY <1>5, <1>7, <1>8, <1>9, <1>10, <1>11, <1>13, <1>14, <1>15, <1>16, <1>17, <1>19,
     TalkRead, TalkAnswer DEF Next, Handle, Compute
<1> QED
  BY <1>18, <1>19

\* Requests implements Conversation: the session and its client take turns, commands
\* run in their order, and the number a Fibonacci request is owed is told once,
\* whatever the client sends, however TCP cuts it and whichever thread computes.
THEOREM Refinement == Spec => ImplementsConversation
PROOF
<1>1. Init => Talk!Init
  <2> SUFFICES ASSUME Init PROVE Talk!Init
    OBVIOUS
  <2>1. Len(sent) = 0 /\ started_ = TRUE /\ reading = 1 /\ executed = <<>> /\ fibs = {}
        /\ queue = <<>> /\ running = {} /\ Len(queue) = 0
    BY DEF Init
  <2>2. turn = "client"
    BY <2>1 DEF turn
  <2>3. owed = {}
    BY <2>1 DEF owed
  <2> QED
    BY <2>1, <2>2, <2>3 DEF Talk!Init
<1>2. Init => OwedInv
  BY DEF Init, OwedInv, SingleIn, PostedIn
<1>3. IInv /\ OwedInv /\ [Next]_vars => OwedInv'
  BY OwedStep DEF IInv
<1>4. IInv /\ OwedInv /\ [Next]_vars => [Talk!Next]_(Talk!vars)
  BY TalkStep DEF IInv
<1> QED
  BY <1>1, <1>2, <1>3, <1>4, Invariance, PTL DEF Spec, ImplementsConversation, Talk!Spec
=============================================================================
