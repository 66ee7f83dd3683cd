-------------------------- MODULE ClientListProofs --------------------------
(***************************************************************************)
(* Proof that the handlers of ClientRegistry implement ClientList, for any  *)
(* number of sessions and threads, any commands and either fault: every     *)
(* step of a thread is a step of the list or hidden.                       *)
(***************************************************************************)
EXTENDS ClientRegistryProofs

\* A change of one thread's duty, and nobody else's, is ClientList's Goes.
LEMMA DutyStep ==
  ASSUME NEW t \in Threads, NEW from, NEW to,
         Duty(t) = from, Duty(t)' = to,
         \A u \in Threads \ {t} : Duty(u)' = Duty(u)
  PROVE  List!Goes(t, from, to)
<1>1. \A u \in Threads : Duty(u)' = IF u = t THEN to ELSE Duty(u)
  OBVIOUS
<1> QED BY <1>1 DEF List!Goes

\* What ClientList does not see: the sessions are where they were, and no
\* thread owes more or less than before.
SameLife == UNCHANGED <<fresh, clients, started_, caught>>

SameDuty(u) ==
  Duty(u)' = Duty(u) /\ Whom(u)' = Whom(u) /\ Telling(u)' = Telling(u)

Hidden ==
  /\ SameLife /\ UNCHANGED clients_changed_
  /\ \A u \in Threads : SameDuty(u)

\* A hidden step leaves every variable of ClientList alone.
LEMMA HiddenStutters == Hidden => UNCHANGED List!vars
<1> SUFFICES ASSUME Hidden
             PROVE  UNCHANGED List!vars
  OBVIOUS
<1>1. \A s \in Sessions : Life(s)' = Life(s)
  BY DEF Hidden, SameLife, Life
<1>2. [s \in Sessions |-> Life(s)]' = [s \in Sessions |-> Life(s)]
  BY <1>1
<1>3. /\ [t \in Threads |-> Duty(t)]' = [t \in Threads |-> Duty(t)]
      /\ [t \in Threads |-> Whom(t)]' = [t \in Threads |-> Whom(t)]
      /\ [t \in Threads |-> Telling(t)]' = [t \in Threads |-> Telling(t)]
  BY DEF Hidden, SameDuty
<1> QED BY <1>2, <1>3 DEF List!vars, Hidden

\* A thread that moves between two points at which it has no duty, or the
\* same one, does nothing that ClientList sees.
LEMMA MoveKeepsDuty ==
  ASSUME TypeOK, NEW t \in Threads, NEW p, Goto(t, p), UNCHANGED <<me, todo>>,
         \/ pc[t] \in Leaves /\ p \in Leaves
         \/ pc[t] \in Owes /\ p \in Owes
         \/ pc[t] \in Tells /\ p \in Tells
         \/ pc[t] \notin Leaves \union Owes \union Tells
              /\ p \notin Leaves \union Owes \union Tells
  PROVE  \A u \in Threads : SameDuty(u)
BY DEF TypeOK, Goto, SameDuty, Duty, Whom, Telling, Leaves, Owes, Tells

\* The same for a handler that begins or ends, or a stop() that returns.
LEMMA CallKeepsDuty ==
  ASSUME TypeOK, NEW t \in Threads, pc[t] \notin Leaves \union Owes \union Tells,
         \/ Finish(t) \/ Resume(t)
         \/ \E s \in Sessions, p \in {"start_reg", "stop_cs", "read", "cp_cs"} :
              Call(t, s, p)
  PROVE  \A u \in Threads : SameDuty(u)
<1> USE DEF TypeOK, Goto, SameDuty, Duty, Whom, Telling, Leaves, Owes, Tells
<1>1. CASE Finish(t)
  BY <1>1 DEF Finish
<1>2. CASE Resume(t)
  BY <1>2 DEF Resume
<1>3. CASE \E s \in Sessions, p \in {"start_reg", "stop_cs", "read", "cp_cs"} :
             Call(t, s, p)
  <2>1. PICK s \in Sessions, p \in {"start_reg", "stop_cs", "read", "cp_cs"} :
          Call(t, s, p)
    BY <1>3
  <2> QED BY <2>1 DEF Call
<1> QED BY <1>1, <1>2, <1>3

-----------------------------------------------------------------------------
\* The steps between the handlers' points are hidden, as are the crashes.
LEMMA HiddenStep ==
  ASSUME TypeOK, NEW t \in Threads,
         \/ LockCs(t) \/ LockClients(t) \/ StartReading(t) \/ StartDbFails(t)
         \/ OnReadUnknown(t) \/ DoWrite(t) \/ OnEventStopped(t) \/ Reread(t)
         \/ OnLogin(t) \/ OnPing(t) \/ OnClientsCopy(t) \/ OnClientsName(t)
         \/ StopThrows(t) \/ UpdateNext(t) \/ CheckPing(t) \/ CheckPingEnd(t)
  PROVE  Hidden
<1> USE RegistryAssumption
<1> USE DEF code, asio, thread, flags, locals, rest
<1> DEFINE Duties == Leaves \union Owes \union Tells
           Keeps == \A u \in Threads : SameDuty(u)
<1>0. SameLife /\ UNCHANGED clients_changed_
  BY DEF SameLife, LockCs, LockClients, StartReading, StartDbFails, OnReadUnknown,
         DoWrite, OnEventStopped, Reread, OnLogin, OnPing, OnClientsCopy,
         OnClientsName, StopThrows, UpdateNext, CheckPing, CheckPingEnd, do_read
<1>1. ASSUME LockCs(t) PROVE Keeps
  <2>1. Goto(t, CsNext[pc[t]]) /\ UNCHANGED <<me, todo>> /\ pc[t] \in CsWait
    BY <1>1 DEF LockCs
  <2>2. \/ pc[t] \in Tells /\ CsNext[pc[t]] \in Tells
        \/ pc[t] \notin Duties /\ CsNext[pc[t]] \notin Duties
    BY <2>1 DEF CsWait, CsNext, Leaves, Owes, Tells
  <2> QED BY <2>1, <2>2, MoveKeepsDuty
<1>2. ASSUME LockClients(t) PROVE Keeps
  <2>1. Goto(t, RegNext[pc[t]]) /\ UNCHANGED <<me, todo>> /\ pc[t] \in RegWait
    BY <1>2 DEF LockClients
  <2>2. \/ pc[t] \in Leaves /\ RegNext[pc[t]] \in Leaves
        \/ pc[t] \in Owes /\ RegNext[pc[t]] \in Owes
        \/ pc[t] \notin Duties /\ RegNext[pc[t]] \notin Duties
    BY <2>1 DEF RegWait, RegNext, Leaves, Owes, Tells
  <2> QED BY <2>1, <2>2, MoveKeepsDuty
<1>3. ASSUME StartDbFails(t) \/ StopThrows(t) PROVE Keeps
  BY <1>3 DEF StartDbFails, StopThrows, SameDuty, Duty, Whom, Telling
<1>4. ASSUME \/ StartReading(t) \/ OnReadUnknown(t) \/ OnEventStopped(t)
             \/ Reread(t) \/ CheckPingEnd(t)
      PROVE  Keeps
  <2>1. Finish(t) /\ pc[t] \notin Duties
    BY <1>4 DEF StartReading, OnReadUnknown, OnEventStopped, Reread, CheckPingEnd,
                Leaves, Owes, Tells
  <2> QED BY <2>1, CallKeepsDuty
<1>5. ASSUME DoWrite(t) PROVE Keeps
  <2>1. CASE pc[t] = "write"
    <3>1. Finish(t) /\ pc[t] \notin Duties
      BY <1>5, <2>1 DEF DoWrite, Leaves, Owes, Tells
    <3> QED BY <3>1, CallKeepsDuty
  <2>2. CASE pc[t] # "write"
    <3>1. /\ Goto(t, WriteNext[pc[t]]) /\ UNCHANGED <<me, todo>>
          /\ pc[t] \in {"login_write", "ping_write"}
      BY <1>5, <2>2 DEF DoWrite, WriteNext
    <3>2. \/ pc[t] \in Owes /\ WriteNext[pc[t]] \in Owes
          \/ pc[t] \notin Duties /\ WriteNext[pc[t]] \notin Duties
      BY <3>1 DEF WriteNext, Leaves, Owes, Tells
    <3> QED BY <3>1, <3>2, MoveKeepsDuty
  <2> QED BY <2>1, <2>2
<1>6. ASSUME OnLogin(t) PROVE Keeps
  <2>1. Goto(t, "login_write") /\ UNCHANGED <<me, todo>> /\ pc[t] = "login"
    BY <1>6 DEF OnLogin
  <2> QED BY <2>1, MoveKeepsDuty DEF Owes
<1>7. ASSUME OnPing(t) PROVE Keeps
  <2>1. Goto(t, "ping_write") /\ UNCHANGED <<me, todo>> /\ pc[t] = "ping"
    BY <1>7 DEF OnPing
  <2> QED BY <2>1, MoveKeepsDuty DEF Leaves, Owes, Tells
<1>8. ASSUME OnClientsCopy(t) \/ OnClientsName(t) PROVE Keeps
  <2>1. /\ pc[t] \notin Duties
        /\ UNCHANGED me
        /\ \A u \in Threads \ {t} : pc'[u] = pc[u] /\ todo'[u] = todo[u]
        /\ pc'[t] \notin Duties
    BY <1>8 DEF TypeOK, OnClientsCopy, OnClientsName, Goto, Leaves, Owes, Tells
  <2> QED BY <2>1 DEF SameDuty, Duty, Whom, Telling
<1>9. ASSUME UpdateNext(t) PROVE Keeps
  <2>1. Goto(t, "upd_cs") /\ UNCHANGED <<me, todo>> /\ pc[t] = "upd_next"
    BY <1>9 DEF UpdateNext
  <2> QED BY <2>1, MoveKeepsDuty DEF Tells
<1>10. ASSUME CheckPing(t) PROVE Keeps
  <2>1. /\ Goto(t, "stop_cs") \/ Goto(t, "cp_end")
        /\ UNCHANGED <<me, todo>> /\ pc[t] = "cp_check"
    BY <1>10 DEF CheckPing
  <2>2. \A p \in {"cp_check", "stop_cs", "cp_end"} : p \notin Duties
    BY DEF Leaves, Owes, Tells
  <2> HIDE DEF Duties, Keeps
  <2>3. CASE Goto(t, "stop_cs")
    BY <2>1, <2>2, <2>3, MoveKeepsDuty DEF Duties, Keeps
  <2>4. CASE Goto(t, "cp_end")
    BY <2>1, <2>2, <2>4, MoveKeepsDuty DEF Duties, Keeps
  <2> QED BY <2>1, <2>3, <2>4
<1> HIDE DEF Keeps
<1>11. Keeps
  BY <1>1, <1>2, <1>3, <1>4, <1>5, <1>6, <1>7, <1>8, <1>9, <1>10
<1> QED BY <1>0, <1>11 DEF Hidden, Keeps

\* A handler that begins for a read, a write or the timer is hidden.
LEMMA HiddenDispatch ==
  ASSUME TypeOK, NEW t \in Threads, NEW s \in Sessions,
         OnRead(t, s) \/ WriteDone(t, s) \/ OnCheckPing(t, s)
  PROVE  Hidden
<1> USE DEF code, asio, thread, flags, locals, rest
<1>1. SameLife /\ UNCHANGED clients_changed_
  BY DEF SameLife, OnRead, WriteDone, OnCheckPing, do_read
<1>2. CASE WriteDone(t, s)
  BY <1>1, <1>2 DEF WriteDone, Hidden, SameDuty, Duty, Whom, Telling
<1>3. CASE OnRead(t, s) \/ OnCheckPing(t, s)
  <2>1. PICK p \in {"stop_cs", "read", "cp_cs"} : Call(t, s, p)
    BY <1>3 DEF OnRead, OnCheckPing
  <2>2. pc[t] \notin Leaves \union Owes \union Tells
    BY <2>1 DEF Call, Leaves, Owes, Tells
  <2>3. \A u \in Threads : SameDuty(u)
    BY <2>1, <2>2, CallKeepsDuty
  <2> QED BY <1>1, <2>3 DEF Hidden
<1> QED BY <1>2, <1>3

-----------------------------------------------------------------------------
\* Accepting a client is Arrive.
LEMMA AcceptIsArrive ==
  ASSUME IInv, NEW t \in Threads, NEW s \in Sessions, Accept(t, s)
  PROVE  List!Arrive(s)
<1> USE DEF code, asio, thread, flags, locals, rest
<1>1. /\ s \in fresh /\ s \notin clients /\ s \notin caught
      /\ fresh' = fresh \ {s} /\ UNCHANGED <<clients, caught>>
  BY DEF Accept, IInv, StartInv, Pushed, ListedIffStarted
<1>2. started_' = [started_ EXCEPT ![s] = TRUE]
  BY DEF Accept
<1>3. List!Becomes(s, "new", "arriving")
  <2>1. Life(s) = "new"
    BY <1>1 DEF Life
  <2>2. \A r \in Sessions : Life(r)' = IF r = s THEN "arriving" ELSE Life(r)
    BY <1>1, <1>2 DEF Life, IInv, TypeOK
  <2> QED BY <2>1, <2>2 DEF List!Becomes
<1>4. \A u \in Threads : SameDuty(u)
  <2>1. Call(t, s, "start_reg") /\ pc[t] \notin Leaves \union Owes \union Tells
    BY DEF Accept, Call, Leaves, Owes, Tells
  <2> QED BY <2>1, CallKeepsDuty DEF IInv
<1> QED BY <1>3, <1>4 DEF List!Arrive, SameDuty, Accept

\* start() lists the session: Join.
LEMMA StartPushIsJoin ==
  ASSUME IInv, NEW t \in Threads, StartPush(t)
  PROVE  List!Join(me[t])
<1> USE DEF code, asio, thread, flags, locals, rest
<1>1. me[t] \in Sessions /\ me[t] \notin fresh /\ me[t] \notin clients
  BY DEF StartPush, IInv, TypeOK, StartInv, Pushed
<1>2. started_[me[t]] /\ clients' = clients \union {me[t]}
  BY DEF StartPush, IInv, StartInv
<1>3. /\ UNCHANGED <<fresh, started_, clients_changed_, me, todo, caught>>
      /\ me[t] \notin caught
  BY <1>1 DEF StartPush, IInv, ListedIffStarted
<1>4. List!Becomes(me[t], "arriving", "listed")
  <2>1. Life(me[t]) = "arriving"
    BY <1>1, <1>2, <1>3 DEF Life
  <2>2. \A r \in Sessions : Life(r)' = IF r = me[t] THEN "listed" ELSE Life(r)
    BY <1>1, <1>2, <1>3 DEF Life
  <2> QED BY <1>1, <2>1, <2>2 DEF List!Becomes
<1>5. \A u \in Threads : SameDuty(u)
  <2>1. Goto(t, "start_db") /\ pc[t] = "start_push"
    BY DEF StartPush
  <2>2. \A p \in {"start_db", "start_push"} :
          p \notin Leaves \union Owes \union Tells
    BY DEF Leaves, Owes, Tells
  <2> QED BY <1>3, <2>1, <2>2, MoveKeepsDuty DEF IInv
<1> QED BY <1>3, <1>4, <1>5 DEF List!Join, SameDuty

\* The command login of a started session is Login, every other one is hidden.
LEMMA CommandIsLoginOrHidden ==
  ASSUME IInv, NEW t \in Threads, OnReadCommand(t)
  PROVE  List!Login(t, me[t]) \/ Hidden
<1> USE DEF code, asio, thread, flags, locals, rest
<1>1. /\ pc[t] = "read" /\ me[t] \in Sessions
      /\ SameLife /\ UNCHANGED clients_changed_
  BY DEF OnReadCommand, IInv, TypeOK, SameLife
<1>2. CASE Finish(t)
  BY <1>1, <1>2, CallKeepsDuty DEF IInv, Hidden, Leaves, Owes, Tells
<1>3. CASE ~Finish(t)
  <2>1. PICK p \in Commands : Goto(t, p) /\ UNCHANGED locals /\ started_[me[t]]
    BY <1>3 DEF OnReadCommand, started
  <2>2. CASE p = "login"
    <3>1. Life(me[t]) = "listed"
      BY <1>1, <2>1 DEF Life, IInv, StartInv, Pushed, ListedIffStarted
    <3>2. List!Goes(t, "nothing", "owes")
      <4>1. Duty(t) = "nothing" /\ Duty(t)' = "owes"
        BY <1>1, <2>1, <2>2 DEF Goto, Duty, Leaves, Owes, Tells, IInv, TypeOK
      <4>2. \A u \in Threads \ {t} : Duty(u)' = Duty(u)
        BY <2>1, <2>2 DEF Goto, Duty, IInv, TypeOK
      <4> QED BY <4>1, <4>2, DutyStep
    <3>3. \A u \in Threads : Whom(u)' = Whom(u) /\ Telling(u)' = Telling(u)
      BY <1>1, <2>1, <2>2 DEF Goto, Whom, Telling, Leaves, Tells, IInv, TypeOK
    <3>4. \A s \in Sessions : Life(s)' = Life(s)
      BY <1>1 DEF SameLife, Life
    <3>5. List!Login(t, me[t])
      BY <1>1, <3>1, <3>2, <3>3, <3>4 DEF List!Login
    <3> QED BY <3>5
  <2>3. CASE p # "login"
    <3>1. p \notin Leaves \union Owes \union Tells
      BY <2>3, RegistryAssumption DEF AllCommands, Leaves, Owes, Tells
    <3>2. pc[t] \notin Leaves \union Owes \union Tells
      BY <1>1 DEF Leaves, Owes, Tells
    <3>3. \A u \in Threads : SameDuty(u)
      BY <2>1, <3>1, <3>2, MoveKeepsDuty DEF IInv
    <3> QED BY <1>1, <3>3 DEF Hidden
  <2> QED BY <2>2, <2>3
<1> QED BY <1>2, <1>3

\* Clearing a session's flag is Clear: the session was on the list.
LEMMA PingClearIsClear ==
  ASSUME IInv, NEW t \in Threads, OnPingClear(t)
  PROVE  List!Clear(me[t])
<1> USE DEF code, asio, thread, flags, locals, rest
<1>1. /\ pc[t] = "ping_clear" /\ me[t] \in Sessions
      /\ SameLife
      /\ clients_changed_' = [clients_changed_ EXCEPT ![me[t]] = FALSE]
      /\ Finish(t)
  BY DEF OnPingClear, IInv, TypeOK, SameLife
<1>2. Life(me[t]) \notin {"new", "arriving"}
  BY <1>1 DEF Life, IInv, StartInv, Pushed, ListedIffStarted
<1>3. \A u \in Threads : SameDuty(u)
  BY <1>1, CallKeepsDuty DEF IInv, Leaves, Owes, Tells
<1>4. \A s \in Sessions : Life(s)' = Life(s)
  BY <1>1 DEF SameLife, Life
<1> QED BY <1>1, <1>2, <1>3, <1>4 DEF List!Clear, SameDuty

\* The stop() that finds the session started is the one that takes it off the
\* list (Leave); the others are hidden.
LEMMA StopCheckIsLeaveOrHidden ==
  ASSUME IInv, NEW t \in Threads, StopCheck(t)
  PROVE  List!Leave(t, me[t]) \/ Hidden
<1> USE DEF code, asio, thread, flags, locals, rest
<1>1. /\ pc[t] \in {"stop_check", "exit_check"} /\ me[t] \in Sessions
      /\ UNCHANGED <<fresh, clients, clients_changed_, caught>>
  BY DEF StopCheck, IInv, TypeOK
<1>2. CASE started_[me[t]]
  <2>1. /\ started_' = [started_ EXCEPT ![me[t]] = FALSE]
        /\ Goto(t, "stop_reg") /\ UNCHANGED locals
    BY <1>2 DEF StopCheck, Stopped
  <2>2. me[t] \in clients /\ me[t] \notin fresh /\ me[t] \notin caught
    BY <1>1, <1>2 DEF IInv, StartInv, Pushed, ListedIffStarted
  <2>3. List!Becomes(me[t], "listed", "leaving")
    <3>1. Life(me[t]) = "listed"
      BY <1>2, <2>2 DEF Life
    <3>2. \A r \in Sessions :
            Life(r)' = IF r = me[t] THEN "leaving" ELSE Life(r)
      BY <1>1, <2>1, <2>2 DEF Life, IInv, TypeOK
    <3> QED BY <1>1, <3>1, <3>2 DEF List!Becomes
  <2>4. List!Goes(t, "nothing", "leaves")
    <3>1. Duty(t) = "nothing" /\ Duty(t)' = "leaves"
      BY <1>1, <2>1 DEF Goto, Duty, Leaves, Owes, Tells, IInv, TypeOK
    <3>2. \A u \in Threads \ {t} : Duty(u)' = Duty(u)
      BY <2>1 DEF Goto, Duty, IInv, TypeOK
    <3> QED BY <3>1, <3>2, DutyStep
  <2>5. \A u \in Threads : /\ Whom(u)' = IF u = t THEN me[t] ELSE Whom(u)
                           /\ Telling(u)' = Telling(u)
    BY <1>1, <2>1 DEF Goto, Whom, Telling, Leaves, Tells, IInv, TypeOK
  <2>6. List!Leave(t, me[t])
    BY <1>1, <2>3, <2>4, <2>5 DEF List!Leave
  <2> QED BY <2>6
<1>3. CASE ~started_[me[t]]
  <2>1. ReturnFromStop(t) /\ UNCHANGED started_
    BY <1>3 DEF StopCheck
  <2>2. Finish(t) \/ Resume(t)
    BY <2>1 DEF ReturnFromStop
  <2>3. \A u \in Threads : SameDuty(u)
    BY <1>1, <2>2, CallKeepsDuty DEF IInv, Leaves, Owes, Tells
  <2> QED BY <1>1, <2>1, <2>3 DEF Hidden, SameLife
<1> QED BY <1>2, <1>3

\* The exit that throws half-way is Stick: the session stays on the list.
LEMMA ExitThrowsIsStick ==
  ASSUME IInv, NEW t \in Threads, ExitThrows(t)
  PROVE  List!Stick(me[t])
<1> USE DEF code, asio, thread, flags, locals, rest
<1>1. /\ pc[t] = "exit_check" /\ me[t] \in Sessions /\ Goto(t, "write")
      /\ started_[me[t]] /\ started_' = [started_ EXCEPT ![me[t]] = FALSE]
      /\ caught' = caught \union {me[t]}
      /\ UNCHANGED <<fresh, clients, clients_changed_, me, todo>>
  BY DEF ExitThrows, Stopped, IInv, TypeOK
<1>2. me[t] \in clients /\ me[t] \notin fresh /\ me[t] \notin caught
  BY <1>1 DEF IInv, StartInv, Pushed, ListedIffStarted
<1>3. List!Becomes(me[t], "listed", "stuck")
  <2>1. Life(me[t]) = "listed"
    BY <1>1, <1>2 DEF Life
  <2>2. \A r \in Sessions : Life(r)' = IF r = me[t] THEN "stuck" ELSE Life(r)
    BY <1>1, <1>2 DEF Life, IInv, TypeOK
  <2> QED BY <1>1, <2>1, <2>2 DEF List!Becomes
<1>4. \A u \in Threads : SameDuty(u)
  BY <1>1, MoveKeepsDuty DEF IInv, Leaves, Owes, Tells
<1> QED BY <1>1, <1>3, <1>4 DEF List!Stick, SameDuty

\* stop() erases its session, which is on the list: Left.
LEMMA StopEraseIsLeft ==
  ASSUME IInv, NEW t \in Threads, StopErase(t)
  PROVE  List!Left(t, me[t])
<1> USE DEF code, asio, thread, flags, locals, rest
<1>1. /\ pc[t] = "stop_erase" /\ me[t] \in Sessions
      /\ clients' = clients \ {me[t]}
      /\ Goto(t, "upd_reg")
      /\ UNCHANGED <<fresh, started_, clients_changed_, me, todo, caught>>
  BY DEF StopErase, Without, IInv, TypeOK
<1>2. /\ me[t] \in clients /\ me[t] \notin fresh
      /\ ~started_[me[t]] /\ me[t] \notin caught
  BY <1>1 DEF IInv, StopInv, StartInv
<1>3. List!Becomes(me[t], "leaving", "gone")
  <2>1. Life(me[t]) = "leaving"
    BY <1>2 DEF Life
  <2>2. \A r \in Sessions : Life(r)' = IF r = me[t] THEN "gone" ELSE Life(r)
    BY <1>1, <1>2 DEF Life
  <2> QED BY <1>1, <2>1, <2>2 DEF List!Becomes
<1>4. List!Goes(t, "leaves", "owes")
  <2>1. Duty(t) = "leaves" /\ Duty(t)' = "owes"
    BY <1>1 DEF Goto, Duty, Leaves, Owes, Tells, IInv, TypeOK
  <2>2. \A u \in Threads \ {t} : Duty(u)' = Duty(u)
    BY <1>1 DEF Goto, Duty, IInv, TypeOK
  <2> QED BY <2>1, <2>2, DutyStep
<1>5. /\ Whom(t) = me[t]
      /\ \A u \in Threads : /\ Whom(u)' = IF u = t THEN None ELSE Whom(u)
                            /\ Telling(u)' = Telling(u)
  BY <1>1 DEF Goto, Whom, Telling, Leaves, Tells, IInv, TypeOK
<1> QED BY <1>1, <1>3, <1>4, <1>5 DEF List!Left

\* Copying the list for the notification is Announce.
LEMMA UpdateCopyIsAnnounce ==
  ASSUME IInv, NEW t \in Threads, UpdateCopy(t)
  PROVE  List!Announce(t)
<1> USE DEF code, asio, thread, flags, locals, rest
<1>1. /\ pc[t] = "upd_copy" /\ Goto(t, "upd_next")
      /\ todo' = [todo EXCEPT ![t] = clients]
      /\ SameLife /\ UNCHANGED <<clients_changed_, me>>
  BY DEF UpdateCopy, SameLife
<1>2. List!OnList = clients
  <2>1. \A s \in Sessions :
          [r \in Sessions |-> Life(r)][s] \in {"listed", "leaving", "stuck"}
            <=> s \in clients
    BY DEF Life, IInv, StartInv, Pushed, ListedIffStarted
  <2> QED BY <2>1 DEF List!OnList, IInv, TypeOK
<1>3. List!Goes(t, "owes", "tells")
  <2>1. Duty(t) = "owes" /\ Duty(t)' = "tells"
    BY <1>1 DEF Goto, Duty, Leaves, Owes, Tells, IInv, TypeOK
  <2>2. \A u \in Threads \ {t} : Duty(u)' = Duty(u)
    BY <1>1 DEF Goto, Duty, IInv, TypeOK
  <2> QED BY <2>1, <2>2, DutyStep
<1>4. \A u \in Threads : /\ Telling(u)' = IF u = t THEN clients ELSE Telling(u)
                         /\ Whom(u)' = Whom(u)
  BY <1>1 DEF Goto, Whom, Telling, Leaves, Tells, IInv, TypeOK
<1>5. \A s \in Sessions : Life(s)' = Life(s)
  BY <1>1 DEF SameLife, Life
<1> QED BY <1>1, <1>2, <1>3, <1>4, <1>5 DEF List!Announce

\* Setting the flag of one session of the copy is Tell.
LEMMA UpdateSetIsTell ==
  ASSUME IInv, NEW t \in Threads, UpdateSet(t)
  PROVE  List!Tell(t, target[t])
<1> USE DEF code, asio, thread, flags, locals, rest
<1>1. /\ pc[t] = "upd_set" /\ Goto(t, "upd_next")
      /\ todo' = [todo EXCEPT ![t] = todo[t] \ {target[t]}]
      /\ clients_changed_' = [clients_changed_ EXCEPT ![target[t]] = TRUE]
      /\ SameLife /\ UNCHANGED me
  BY DEF UpdateSet, Remaining, SameLife
<1>2. target[t] \in Sessions /\ target[t] \in todo[t]
  BY <1>1 DEF IInv, TypeOK, CallInv
<1>3. Duty(t) = "tells" /\ Telling(t) = todo[t]
  BY <1>1 DEF Duty, Telling, Leaves, Owes, Tells
<1>4. \A u \in Threads :
        /\ Telling(u)' = IF u = t THEN Telling(u) \ {target[t]} ELSE Telling(u)
        /\ Whom(u)' = Whom(u) /\ Duty(u)' = Duty(u)
  BY <1>1 DEF Goto, Duty, Whom, Telling, Leaves, Owes, Tells, IInv, TypeOK
<1>5. \A s \in Sessions : Life(s)' = Life(s)
  BY <1>1 DEF SameLife, Life
<1> QED BY <1>1, <1>2, <1>3, <1>4, <1>5 DEF List!Tell

\* The end of the loop is Over: nobody is left to tell.
LEMMA UpdateDoneIsOver ==
  ASSUME IInv, NEW t \in Threads, UpdateDone(t)
  PROVE  List!Over(t)
<1> USE DEF code, asio, thread, flags, locals, rest
<1>1. /\ pc[t] = "upd_next" /\ todo[t] = {}
      /\ Finish(t) \/ Resume(t)
      /\ SameLife /\ UNCHANGED clients_changed_
  BY DEF UpdateDone, ReturnFromStop, SameLife
<1>2. \E p \in {"idle", "cp_end"} :
         /\ Goto(t, p)
         /\ todo' = [todo EXCEPT ![t] = {}]
         /\ \A u \in Threads \ {t} : me'[u] = me[u]
  <2>1. CASE Finish(t)
    BY <2>1 DEF Finish, IInv, TypeOK
  <2>2. CASE Resume(t)
    BY <2>2 DEF Resume, IInv, TypeOK
  <2> QED BY <1>1, <2>1, <2>2
<1>3. PICK p \in {"idle", "cp_end"} :
         /\ Goto(t, p)
         /\ todo' = [todo EXCEPT ![t] = {}]
         /\ \A u \in Threads \ {t} : me'[u] = me[u]
  BY <1>2
<1>4. List!Goes(t, "tells", "nothing")
  <2>1. Duty(t) = "tells" /\ Duty(t)' = "nothing"
    BY <1>1, <1>3 DEF Goto, Duty, Leaves, Owes, Tells, IInv, TypeOK
  <2>2. \A u \in Threads \ {t} : Duty(u)' = Duty(u)
    BY <1>3 DEF Goto, Duty, IInv, TypeOK
  <2> QED BY <2>1, <2>2, DutyStep
<1>5. /\ Telling(t) = {}
      /\ \A u \in Threads : Telling(u)' = Telling(u) /\ Whom(u)' = Whom(u)
  BY <1>1, <1>3 DEF Goto, Whom, Telling, Leaves, Tells, IInv, TypeOK
<1>6. \A s \in Sessions : Life(s)' = Life(s)
  BY <1>1 DEF SameLife, Life
<1> QED BY <1>1, <1>4, <1>5, <1>6 DEF List!Over

-----------------------------------------------------------------------------
\* Every step of a handler is a step of ClientList or hidden from it.
LEMMA ListNext == IInv /\ [Next]_vars => [List!Next]_(List!vars)
<1> SUFFICES ASSUME IInv, [Next]_vars
             PROVE  [List!Next]_(List!vars)
  OBVIOUS
<1>0. TypeOK
  BY DEF IInv
<1>1. ASSUME NEW t \in Threads, Run(t)
      PROVE  List!Next \/ Hidden
  <2>1. pc[t] # "idle" => me[t] \in Sessions /\ target[t] \in Sessions
    BY <1>0 DEF TypeOK
  <2>2. CASE \/ LockCs(t) \/ LockClients(t) \/ StartReading(t) \/ StartDbFails(t)
             \/ OnReadUnknown(t) \/ DoWrite(t) \/ OnEventStopped(t) \/ Reread(t)
             \/ OnLogin(t) \/ OnPing(t) \/ OnClientsCopy(t) \/ OnClientsName(t)
             \/ StopThrows(t) \/ UpdateNext(t) \/ CheckPing(t) \/ CheckPingEnd(t)
    BY <1>0, <2>2, HiddenStep
  <2>3. CASE StartPush(t)
    BY <2>1, <2>3, StartPushIsJoin DEF StartPush, List!Next
  <2>4. CASE OnReadCommand(t)
    BY <2>1, <2>4, CommandIsLoginOrHidden DEF OnReadCommand, List!Next
  <2>5. CASE OnPingClear(t)
    BY <2>1, <2>5, PingClearIsClear DEF OnPingClear, List!Next
  <2>6. CASE StopCheck(t)
    BY <2>1, <2>6, StopCheckIsLeaveOrHidden DEF StopCheck, List!Next
  <2>7. CASE ExitThrows(t)
    BY <2>1, <2>7, ExitThrowsIsStick DEF ExitThrows, List!Next
  <2>8. CASE StopErase(t)
    BY <2>1, <2>8, StopEraseIsLeft DEF StopErase, List!Next
  <2>9. CASE UpdateCopy(t)
    BY <2>9, UpdateCopyIsAnnounce DEF List!Next
  <2>10. CASE UpdateSet(t)
    BY <2>1, <2>10, UpdateSetIsTell DEF UpdateSet, List!Next
  <2>11. CASE UpdateDone(t)
    BY <2>11, UpdateDoneIsOver DEF List!Next
  <2> QED
    BY <1>1, <2>2, <2>3, <2>4, <2>5, <2>6, <2>7, <2>8, <2>9, <2>10,
       <2>11
    DEF Run
<1>2. ASSUME NEW t \in Threads, NEW s \in Sessions, Dispatch(t, s)
      PROVE  List!Next \/ Hidden
  <2>1. CASE Accept(t, s)
    BY <2>1, AcceptIsArrive DEF List!Next
  <2>2. CASE OnRead(t, s) \/ WriteDone(t, s) \/ OnCheckPing(t, s)
    BY <1>0, <2>2, HiddenDispatch
  <2> QED BY <1>2, <2>1, <2>2 DEF Dispatch
<1>3. ASSUME UNCHANGED vars
      PROVE  Hidden
  BY <1>3 DEF vars, code, asio, thread, flags, locals, rest, Hidden, SameLife,
              SameDuty, Duty, Whom, Telling
<1>4. List!Next \/ Hidden
  BY <1>1, <1>2, <1>3 DEF Next, Exhausted
<1> QED BY <1>4, HiddenStutters

\* No session was accepted, no thread has a duty.
LEMMA ListInit == Init => List!Init
BY DEF Init, List!Init, Life, Duty, Whom, Telling, Leaves, Owes, Tells

\* The handlers implement ClientList: of the stops of one session one removes it, or
\* is an exit that leaves it stuck on the list, and every login and departure is told
\* to everyone who is on the list after it, for any number of sessions and threads.
THEOREM Refinement == Spec => ImplementsClientList
<1>1. Init => List!Init
  BY ListInit
<1>2. IInv /\ [Next]_vars => [List!Next]_(List!vars)
  BY ListNext
<1> QED BY <1>1, <1>2, Invariance, PTL DEF Spec, ImplementsClientList, List!Spec
=============================================================================
