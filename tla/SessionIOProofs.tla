--------------------------- MODULE SessionIOProofs ---------------------------
(***************************************************************************)
(* Proofs about SessionIO: the read chain for every value of the constants, *)
(* the timer for every timeout, when no handler is later than 1 ms.        *)
(***************************************************************************)
EXTENDS SessionIO, TLAPS

\* Every step keeps the types: no count of operations falls below zero.
LEMMA TypeStep ==
  ASSUME TypeOK, [Next]_vars
  PROVE  TypeOK'
<1> USE SessionAssumption DEF TypeOK, NoWait, Overdue, history
<1>1. CASE OnMessage
  <2> USE <1>1 DEF OnMessage
  <2>1. CASE OnAnswered
    BY <2>1 DEF OnAnswered, NoRead
  <2>2. CASE OnFibo
    BY <2>2 DEF OnFibo, do_read, post_check_ping
  <2>3. CASE OnReread
    BY <2>3 DEF OnReread, do_read, post_check_ping
  <2>4. CASE OnUnknown
    BY <2>4 DEF OnUnknown, NoRead
  <2>5. CASE OnExit
    <3>1. started_' \in BOOLEAN
      BY <2>5, Zenon DEF OnExit
    <3> QED BY <2>5, <3>1 DEF OnExit, NoRead
  <2> QED BY <2>1, <2>2, <2>3, <2>4, <2>5
<1>2. CASE OnReadError
  <2>1. started_' \in BOOLEAN
    BY <1>2, Zenon DEF OnReadError
  <2>2. reading' \in Nat
    BY <1>2 DEF OnReadError, NoRead
  <2> QED BY <1>2, <2>1, <2>2 DEF OnReadError, NoRead
<1>3. CASE WriteDone
  BY <1>3 DEF WriteDone, do_read, post_check_ping
<1>4. CASE DoGetFibo
  BY <1>4 DEF DoGetFibo, Posted, WriteFibo
<1>5. CASE FiboWritten
  BY <1>5 DEF FiboWritten
<1>6. ASSUME NEW a \in 0 .. Latency, OnCheckPing(a)
      PROVE  TypeOK'
  <2>1. started_' \in BOOLEAN
    BY <1>6, Zenon DEF OnCheckPing
  <2> QED BY <1>6, <2>1 DEF OnCheckPing
<1>7. CASE Expire
  BY <1>7 DEF Expire
<1>8. CASE Tick
  <2>1. ready' \in [0 .. Latency -> Nat]
    BY <1>8 DEF Tick
  <2>2. wait' \in 0 .. NoWait
    BY <1>8 DEF Tick
  <2>3. pingAge' \in 0 .. MaxTimeout /\ readAges' \subseteq 0 .. MaxTimeout
    BY <1>8 DEF Tick, Older
  <2>4. lastRead' \in 0 .. Overdue
    BY <1>8 DEF Tick
  <2> QED BY <1>8, <2>1, <2>2, <2>3, <2>4 DEF Tick
<1>9. CASE GoSilent
  BY <1>9 DEF GoSilent
<1>10. CASE UNCHANGED vars
  BY <1>10 DEF vars
<1> QED
  BY <1>1, <1>2, <1>3, <1>4, <1>5, <1>6, <1>7, <1>8, <1>9, <1>10 DEF Next

\* The variables keep their types.
THEOREM TypeCorrect == Spec => []TypeOK
<1>1. Init => TypeOK
  <2> SUFFICES ASSUME Init
               PROVE  TypeOK
    OBVIOUS
  <2>1. wait \in 0 .. NoWait /\ pingAge \in 0 .. MaxTimeout /\ readAges \subseteq 0 .. MaxTimeout
    BY SessionAssumption DEF Init, NoWait
  <2>2. lastRead \in 0 .. Overdue
    BY SessionAssumption DEF Init, Overdue
  <2> QED BY <2>1, <2>2 DEF Init, TypeOK
<1>2. TypeOK /\ [Next]_vars => TypeOK'
  BY TypeStep
<1> QED BY <1>1, <1>2, PTL DEF Spec

\* No schedule makes two reads of one session, or a read beside an answer whose
\* completion will read.
THEOREM ReadChainCorrect == Spec => []OneReadChain
<1>1. Init => OneReadChain
  BY DEF Init, OneReadChain
<1>2. TypeOK /\ OneReadChain /\ [Next]_vars => OneReadChain'
  <2> SUFFICES ASSUME TypeOK, OneReadChain, [Next]_vars
               PROVE  OneReadChain'
    OBVIOUS
  <2> USE DEF TypeOK, OneReadChain
  <2>1. CASE OnMessage
    <3>1. reading = 1 /\ answers = 0
      BY <2>1 DEF OnMessage
    <3>2. CASE OnAnswered
      BY <3>1, <3>2 DEF OnAnswered, NoRead
    <3>3. CASE OnFibo \/ OnReread
      BY <3>1, <3>3 DEF OnFibo, OnReread, do_read
    <3>4. CASE OnUnknown \/ OnExit
      BY <3>1, <3>4 DEF OnUnknown, OnExit, NoRead
    <3> QED BY <2>1, <3>2, <3>3, <3>4 DEF OnMessage
  <2>2. CASE OnReadError
    BY <2>2 DEF OnReadError, NoRead
  <2>3. CASE WriteDone
    BY <2>3 DEF WriteDone, do_read
  <2>4. CASE UNCHANGED <<reading, answers>>
    BY <2>4
  <2> QED
    BY <2>1, <2>2, <2>3, <2>4 DEF Next, DoGetFibo, Posted, WriteFibo, FiboWritten,
       OnCheckPing, Expire, Tick, GoSilent, vars
<1> QED BY <1>1, <1>2, TypeCorrect, PTL DEF Spec

\* No handler but the one of an unknown command leaves a started session with
\* neither a read nor an answer that will read.
THEOREM DeafCorrect == Spec => DeafOnlyIfUnknown
<1>1. TypeOK /\ Next => [Listening /\ ~Listening' => OnMessage /\ OnUnknown]_vars
  <2> SUFFICES ASSUME TypeOK, Next, Listening, ~Listening'
               PROVE  OnMessage /\ OnUnknown
    OBVIOUS
  <2> USE DEF TypeOK, Listening
  <2>1. CASE OnMessage
    <3>1. CASE OnAnswered
      BY <2>1, <3>1 DEF OnMessage, OnAnswered, NoRead
    <3>2. CASE OnFibo \/ OnReread
      <4>1. reading' = reading - 1 + 1 /\ answers' = answers /\ reading > 0
        BY <2>1, <3>2 DEF OnMessage, OnFibo, OnReread, do_read
      <4> QED BY <4>1
    <3>3. CASE OnExit
      BY <3>3 DEF OnExit
    <3> QED BY <2>1, <3>1, <3>2, <3>3 DEF OnMessage
  <2>2. CASE OnReadError
    BY <2>2 DEF OnReadError
  <2>3. CASE WriteDone
    <3>1. reading' = reading - 0 + 1 /\ answers' = answers - 1 /\ answers > 0
      BY <2>3 DEF WriteDone, do_read
    <3> QED BY <3>1
  <2>4. CASE reading' = reading /\ answers' = answers /\ (started_' => started_)
    BY <2>4
  <2> QED
    BY <2>1, <2>2, <2>3, <2>4 DEF Next, DoGetFibo, Posted, WriteFibo, FiboWritten,
       OnCheckPing, Expire, Tick, GoSilent
<1>2. TypeOK /\ [Next]_vars => [Listening /\ ~Listening' => OnMessage /\ OnUnknown]_vars
  BY <1>1
<1> QED BY <1>2, TypeCorrect, PTL DEF Spec, DeafOnlyIfUnknown

-----------------------------------------------------------------------------
\* A call of do_read arms the timer, and some handler renews last_ping_ soon.
LEMMA DoReadStep ==
  ASSUME TypeOK, TimerInv, NEW d \in Nat, do_read(d), UNCHANGED <<started_, pingAge>>
  PROVE  TimerInv'
<1> USE SessionAssumption DEF TypeOK, NoWait
<1>1. wait' = MaxTimeout /\ readAges' = readAges \union {0}
  BY DEF do_read, post_check_ping
<1>2. \A a \in 0 .. Latency : ready[a] > 0 => ready'[a] > 0
  BY DEF do_read, post_check_ping
<1>3. started_ => \E a \in 0 .. Latency : ready'[a] > 0
  <2>1. CASE wait = NoWait
    BY <1>2, <2>1 DEF TimerInv
  <2>2. CASE wait # NoWait
    BY <2>2 DEF do_read, post_check_ping
  <2> QED BY <2>1, <2>2
<1> QED BY <1>1, <1>2, <1>3 DEF TimerInv

\* A handler of timer_ that is at most 1 ms late does not deceive the next one.
LEMMA CheckPingStep ==
  ASSUME Latency <= 1, TypeOK, TimerInv, NEW a \in 0 .. Latency, OnCheckPing(a)
  PROVE  TimerInv'
<1> USE SessionAssumption DEF TypeOK, NoWait, OnCheckPing, history
<1>1. \A b \in 0 .. Latency : ready'[b] > 0 => ready[b] > 0
  OBVIOUS
<1>2. started_' => started_ /\ pingAge < MaxTimeout - 1
  <2>1. started_' => started_ /\ ~Expired
    BY Zenon
  <2> QED BY <2>1 DEF Expired
<1>3. started_' => wait # NoWait
  BY <1>2 DEF TimerInv
<1>4. started_' => pingAge' + wait' + 1 >= MaxTimeout
  BY <1>2, <1>3 DEF TimerInv
<1>5. wait' # NoWait =>
        \A b \in 0 .. Latency : ready'[b] > 0 => MaxTimeout <= wait' + b
  BY <1>1 DEF TimerInv
<1>6. \A r \in readAges' : pingAge' <= r
  OBVIOUS
<1> QED BY <1>3, <1>4, <1>5, <1>6 DEF TimerInv

\* Ages and the time that is left change together.
LEMMA TickStep ==
  ASSUME TypeOK, TimerInv, Tick
  PROVE  TimerInv'
<1> USE SessionAssumption DEF TypeOK, NoWait
<1>1. \A a \in 0 .. Latency : ready[a] > 0 => a + 1 \in 0 .. Latency /\ ready'[a + 1] > 0
  BY DEF Tick
<1>2. \A b \in 0 .. Latency : ready'[b] > 0 => b - 1 \in 0 .. Latency /\ ready[b - 1] > 0
  BY DEF Tick
<1>3. started_' /\ wait' # NoWait => pingAge' + wait' + 1 >= MaxTimeout
  BY DEF Tick, TimerInv, Older
<1>4. started_' /\ wait' = NoWait => pingAge' + 1 >= MaxTimeout
  BY DEF Tick, TimerInv, Older
<1>5. started_' /\ wait' = NoWait => \E a \in 0 .. Latency : ready'[a] > 0
  <2> SUFFICES ASSUME started_', wait' = NoWait
               PROVE  \E a \in 0 .. Latency : ready'[a] > 0
    OBVIOUS
  <2>1. started_ /\ wait = NoWait
    BY DEF Tick
  <2>2. PICK a \in 0 .. Latency : ready[a] > 0
    BY <2>1 DEF TimerInv
  <2> QED BY <1>1, <2>2
<1>6. ASSUME wait' # NoWait, NEW b \in 0 .. Latency, ready'[b] > 0
      PROVE  MaxTimeout <= wait' + b
  BY <1>2, <1>6 DEF Tick, TimerInv
<1>7. ASSUME started_', NEW q \in readAges'
      PROVE  pingAge' <= q \/ \E a \in 0 .. Latency : a >= q /\ ready'[a] > 0
  <2>1. PICK r \in readAges : q = Older(r)
    BY <1>7 DEF Tick
  <2>2. CASE pingAge <= r
    <3>1. pingAge' = Older(pingAge) /\ pingAge \in 0 .. MaxTimeout /\ r \in 0 .. MaxTimeout
      BY DEF Tick
    <3> QED BY <2>1, <2>2, <3>1 DEF Older
  <2>3. CASE \E a \in 0 .. Latency : a >= r /\ ready[a] > 0
    <3>1. PICK a \in 0 .. Latency : a >= r /\ ready[a] > 0
      BY <2>3
    <3>2. a + 1 \in 0 .. Latency /\ ready'[a + 1] > 0 /\ a + 1 >= q
      BY <1>1, <2>1, <3>1 DEF Older
    <3> QED BY <3>2
  <2> QED BY <1>7, <2>2, <2>3 DEF Tick, TimerInv
<1> QED BY <1>3, <1>4, <1>5, <1>6, <1>7 DEF TimerInv

\* Every step keeps the timer's invariant when no handler is later than 1 ms.
LEMMA TimerStep ==
  ASSUME Latency <= 1, TypeOK, TimerInv, [Next]_vars
  PROVE  TimerInv'
<1> USE SessionAssumption DEF history
<1>1. ASSUME UNCHANGED <<wait, ready, pingAge, readAges>>, started_' => started_
      PROVE  TimerInv'
  BY <1>1 DEF TimerInv, TypeOK
<1>2. CASE OnMessage
  <2>1. CASE OnFibo \/ OnReread
    BY <1>2, <2>1, DoReadStep DEF OnMessage, OnFibo, OnReread
  <2>2. CASE OnAnswered \/ OnUnknown \/ OnExit
    BY <1>1, <1>2, <2>2 DEF OnMessage, OnAnswered, OnUnknown, OnExit, NoRead
  <2> QED BY <1>2, <2>1, <2>2 DEF OnMessage
<1>3. CASE WriteDone
  BY <1>3, DoReadStep DEF WriteDone
<1>4. CASE \E a \in 0 .. Latency : OnCheckPing(a)
  BY <1>4, CheckPingStep
<1>5. CASE Expire
  BY <1>5 DEF Expire, TimerInv, TypeOK, NoWait
<1>6. CASE Tick
  BY <1>6, TickStep
<1>7. CASE OnReadError \/ DoGetFibo \/ FiboWritten \/ GoSilent \/ UNCHANGED vars
  BY <1>1, <1>7 DEF OnReadError, NoRead, DoGetFibo, FiboWritten, GoSilent, vars
<1> QED BY <1>2, <1>3, <1>4, <1>5, <1>6, <1>7 DEF Next

\* The timer's invariant holds in every reachable state.
LEMMA TimerInvariance ==
  ASSUME Latency <= 1
  PROVE  Spec => []TimerInv
<1>1. Init => TimerInv
  BY SessionAssumption DEF Init, TimerInv, NoWait
<1>2. TypeOK /\ TimerInv /\ [Next]_vars => TimerInv'
  BY TimerStep
<1> QED BY <1>1, <1>2, TypeCorrect, PTL DEF Spec

\* While handlers are at most 1 ms late, a started session always has a wait
\* armed or a handler ready: none is forgotten, whatever the timeout.
THEOREM TimerCoversCorrect ==
  ASSUME Latency <= 1
  PROVE  Spec => []TimerCovers
<1>1. TimerInv => TimerCovers
  BY DEF TimerInv, TimerCovers
<1> QED BY <1>1, TimerInvariance, PTL

\* Each step keeps the wait and the last do_read together; a handler that runs
\* after the expiry finds the session expired.
LEMMA ReadStep ==
  ASSUME TypeOK, TimerInv, ReadInv, [Next]_vars
  PROVE  ReadInv'
<1> USE SessionAssumption DEF TypeOK, NoWait, Overdue, history
<1>1. ASSUME UNCHANGED <<wait, ready, lastRead>>, started_' => started_
      PROVE  ReadInv'
  BY <1>1 DEF ReadInv
<1>2. ASSUME NEW d \in Nat, do_read(d)
      PROVE  ReadInv'
  BY <1>2 DEF do_read, post_check_ping, ReadInv
<1>3. CASE OnMessage
  <2>1. CASE OnFibo \/ OnReread
    BY <1>2, <2>1 DEF OnFibo, OnReread
  <2>2. CASE OnAnswered \/ OnUnknown \/ OnExit
    BY <1>1, <2>2 DEF OnAnswered, OnUnknown, OnExit, NoRead
  <2> QED BY <1>3, <2>1, <2>2 DEF OnMessage
<1>4. CASE WriteDone
  BY <1>2, <1>4 DEF WriteDone
<1>5. ASSUME NEW a \in 0 .. Latency, OnCheckPing(a)
      PROVE  ReadInv'
  <2>1. UNCHANGED <<wait, lastRead>>
    BY <1>5 DEF OnCheckPing
  <2>2. wait = NoWait /\ started_ => ~started_'
    <3>1. wait = NoWait /\ started_ => Expired
      BY DEF TimerInv, Expired
    <3> QED BY <1>5, <3>1, Zenon DEF OnCheckPing
  <2>3. started_' => started_
    BY <1>5, Zenon DEF OnCheckPing
  <2> QED BY <2>1, <2>2, <2>3 DEF ReadInv
<1>6. CASE Expire
  BY <1>6 DEF Expire, ReadInv
<1>7. CASE Tick
  <2>1. wait' # NoWait => wait # NoWait /\ wait \in 1 .. MaxTimeout /\ wait' = wait - 1
    BY <1>7 DEF Tick
  <2>2. wait' # NoWait => lastRead' = lastRead + 1
    BY <1>7, <2>1 DEF Tick, ReadInv
  <2>3. ASSUME started_', wait' = NoWait
        PROVE  \E a \in 0 .. Latency : ready'[a] > 0 /\ lastRead' <= MaxTimeout + a
    <3>1. started_ /\ wait = NoWait /\ lastRead' \in Nat /\ lastRead' <= lastRead + 1
      BY <1>7, <2>3 DEF Tick
    <3>2. PICK a \in 0 .. Latency : ready[a] > 0 /\ lastRead <= MaxTimeout + a
      BY <3>1 DEF ReadInv
    <3>3. a + 1 \in 0 .. Latency /\ ready'[a + 1] > 0
      BY <1>7, <3>2 DEF Tick
    <3> QED BY <3>1, <3>2, <3>3
  <2> QED BY <2>1, <2>2, <2>3 DEF ReadInv
<1>8. CASE OnReadError \/ DoGetFibo \/ FiboWritten \/ GoSilent \/ UNCHANGED vars
  BY <1>1, <1>8 DEF OnReadError, NoRead, DoGetFibo, FiboWritten, GoSilent, vars
<1> QED BY <1>3, <1>4, <1>5, <1>6, <1>7, <1>8 DEF Next

\* While handlers are at most 1 ms late, no session outlives its last do_read by
\* more than the timeout and that millisecond, whatever its client does.
THEOREM InTimeCorrect ==
  ASSUME Latency <= 1
  PROVE  Spec => []DroppedInTime
<1>1. Init => ReadInv
  BY SessionAssumption DEF Init, ReadInv, NoWait
<1>2. TypeOK /\ TimerInv /\ ReadInv /\ [Next]_vars => ReadInv'
  BY ReadStep
<1>3. TypeOK /\ ReadInv => DroppedInTime
  BY SessionAssumption DEF TypeOK, ReadInv, DroppedInTime, NoWait
<1> QED BY <1>1, <1>2, <1>3, TimerInvariance, TypeCorrect, PTL DEF Spec

\* While handlers are at most 1 ms late, no session is dropped for silence when
\* a do_read of the last MaxTimeout - 1 ms has been seen by the timer.
THEOREM DroppedCorrect ==
  ASSUME Latency <= 1
  PROVE  Spec => DroppedOnlyIfSilent
<1>1. TypeOK /\ TimerInv /\ [Next]_vars =>
        [started_ /\ ~started_' /\ ready' # ready =>
           \A r \in readAges : r <= Latency \/ r >= MaxTimeout - 1]_vars
  <2> SUFFICES ASSUME TypeOK, TimerInv, Next, started_, ~started_', ready' # ready,
                      NEW r \in readAges
               PROVE  r <= Latency \/ r >= MaxTimeout - 1
    OBVIOUS
  <2>1. PICK a \in 0 .. Latency : OnCheckPing(a)
    BY DEF Next, OnMessage, OnAnswered, OnFibo, OnReread, OnUnknown, OnExit,
       OnReadError, NoRead, WriteDone, DoGetFibo, FiboWritten, Expire, Tick, GoSilent
  <2>2. pingAge >= MaxTimeout - 1
    BY <2>1, SessionAssumption DEF OnCheckPing, Expired, TypeOK
  <2>3. pingAge <= r \/ \E b \in 0 .. Latency : b >= r
    BY DEF TimerInv
  <2> QED BY <2>2, <2>3, SessionAssumption DEF TypeOK
<1> QED BY <1>1, TimerInvariance, TypeCorrect, PTL DEF Spec, DroppedOnlyIfSilent
=============================================================================
