------------------------ MODULE ClientRegistryProofs ------------------------
(***************************************************************************)
(* Proofs about ClientRegistry, for any number of sessions and threads, any *)
(* commands and either fault: its types, that the mutexes never close a    *)
(* cycle of waiting handlers, and that the list holds the started sessions. *)
(***************************************************************************)
EXTENDS ClientRegistry, WellFoundedInduction, TLAPS

\* Every step keeps the types: each session and thread a handler names exists.
LEMMA TypeStep ==
  ASSUME TypeOK, [Next]_vars
  PROVE  TypeOK'
<1> USE RegistryAssumption
<1> USE DEF TypeOK, code, asio, thread, flags, locals, rest,
            started, Stopped, Without, Remaining, Armed, PCs, CsWait, CsHeld, RegWait,
            RegHeld, CsNext, RegNext, WriteNext, Goto
<1>1. ASSUME NEW t \in Threads, LockCs(t) PROVE TypeOK'
  BY <1>1 DEF LockCs
<1>2. ASSUME NEW t \in Threads, LockClients(t) PROVE TypeOK'
  BY <1>2 DEF LockClients
<1>3. ASSUME NEW t \in Threads, StartPush(t) PROVE TypeOK'
  BY <1>3 DEF StartPush
<1>4. ASSUME NEW t \in Threads, StartReading(t) PROVE TypeOK'
  BY <1>4 DEF StartReading, do_read, Finish
<1>5. ASSUME NEW t \in Threads, StartDbFails(t) PROVE TypeOK'
  BY <1>5 DEF StartDbFails
<1>6. ASSUME NEW t \in Threads, OnReadCommand(t) PROVE TypeOK'
  <2>1. CASE started_[me[t]]
    <3>1. PICK p \in Commands : Goto(t, p)
      BY <1>6, <2>1 DEF OnReadCommand
    <3>2. p \in PCs /\ p # "idle" /\ pc[t] # "idle"
      BY <1>6 DEF AllCommands, OnReadCommand
    <3> QED BY <1>6, <2>1, <3>1, <3>2 DEF OnReadCommand
  <2>2. CASE ~started_[me[t]]
    <3>1. Finish(t) /\ pc[t] = "read"
      BY <1>6, <2>2 DEF OnReadCommand
    <3> QED BY <1>6, <3>1 DEF OnReadCommand, Finish
  <2> QED BY <2>1, <2>2
<1>7. ASSUME NEW t \in Threads, OnReadUnknown(t) PROVE TypeOK'
  BY <1>7 DEF OnReadUnknown, Finish
<1>8. ASSUME NEW t \in Threads, Reread(t) PROVE TypeOK'
  BY <1>8 DEF Reread, do_read, Finish
<1>9. ASSUME NEW t \in Threads, DoWrite(t) PROVE TypeOK'
  <2>1. CASE pc[t] = "write"
    <3>1. Finish(t) /\ pc[t] # "idle"
      BY <1>9, <2>1 DEF DoWrite
    <3>2. writing' \in [Sessions -> BOOLEAN]
      BY <1>9, <3>1 DEF DoWrite
    <3> QED BY <1>9, <3>1, <3>2 DEF DoWrite, Finish
  <2>2. CASE pc[t] # "write"
    <3>1. WriteNext[pc[t]] \in PCs /\ pc[t] # "idle"
      BY <1>9, <2>2 DEF DoWrite
    <3> QED BY <1>9, <2>2, <3>1 DEF DoWrite
  <2> QED BY <2>1, <2>2
<1>10. ASSUME NEW t \in Threads, OnLogin(t) PROVE TypeOK'
  BY <1>10 DEF OnLogin
<1>11. ASSUME NEW t \in Threads, OnPing(t) PROVE TypeOK'
  BY <1>11 DEF OnPing
<1>12. ASSUME NEW t \in Threads, OnPingClear(t) PROVE TypeOK'
  BY <1>12 DEF OnPingClear, Finish
<1>13. ASSUME NEW t \in Threads, OnClientsCopy(t) PROVE TypeOK'
  BY <1>13 DEF OnClientsCopy
<1>14. ASSUME NEW t \in Threads, OnClientsName(t) PROVE TypeOK'
  BY <1>14 DEF OnClientsName
<1>15. ASSUME NEW t \in Threads, StopCheck(t) PROVE TypeOK'
  <2>1. cs_' \in [Sessions -> Threads \union {None}]
    BY <1>15 DEF StopCheck, Unlock
  <2>2. CASE started_[me[t]]
    <3>1. /\ started_' \in [Sessions -> BOOLEAN]
          /\ pc' = [pc EXCEPT ![t] = "stop_reg"]
          /\ UNCHANGED <<clients, clients_cs, clients_changed_, asio, locals, rest>>
      BY <1>15, <2>2 DEF StopCheck
    <3> QED BY <1>15, <2>1, <3>1 DEF StopCheck
  <2>3. CASE ~started_[me[t]]
    <3>1. /\ ReturnFromStop(t) /\ UNCHANGED started_
          /\ pc[t] \in {"stop_check", "exit_check"}
      BY <1>15, <2>3 DEF StopCheck
    <3>2. CASE Resume(t)
      BY <1>15, <2>1, <3>1, <3>2 DEF StopCheck, Resume
    <3>3. CASE Finish(t)
      BY <1>15, <2>1, <3>1, <3>3 DEF StopCheck, Finish
    <3> QED BY <3>1, <3>2, <3>3 DEF ReturnFromStop
  <2> QED BY <2>2, <2>3
<1>16. ASSUME NEW t \in Threads, StopThrows(t) PROVE TypeOK'
  BY <1>16 DEF StopThrows
<1>17. ASSUME NEW t \in Threads, StopErase(t) PROVE TypeOK'
  BY <1>17 DEF StopErase
<1>18. ASSUME NEW t \in Threads, UpdateCopy(t) PROVE TypeOK'
  BY <1>18 DEF UpdateCopy
<1>19. ASSUME NEW t \in Threads, UpdateNext(t) PROVE TypeOK'
  BY <1>19 DEF UpdateNext
<1>20. ASSUME NEW t \in Threads, UpdateSet(t) PROVE TypeOK'
  BY <1>20 DEF UpdateSet, Unlock
<1>21. ASSUME NEW t \in Threads, UpdateDone(t) PROVE TypeOK'
  <2>1. CASE Resume(t)
    BY <1>21, <2>1 DEF UpdateDone, Resume
  <2>2. CASE Finish(t)
    BY <1>21, <2>2 DEF UpdateDone, Finish
  <2> QED BY <1>21, <2>1, <2>2 DEF UpdateDone, ReturnFromStop
<1>22. ASSUME NEW t \in Threads, CheckPing(t) PROVE TypeOK'
  BY <1>22 DEF CheckPing
<1>23. ASSUME NEW t \in Threads, CheckPingEnd(t) PROVE TypeOK'
  BY <1>23 DEF CheckPingEnd, Unlock, Finish
<1>24. ASSUME NEW t \in Threads, NEW s \in Sessions, Accept(t, s) PROVE TypeOK'
  BY <1>24 DEF Accept, Call
<1>25. ASSUME NEW t \in Threads, NEW s \in Sessions, OnRead(t, s) PROVE TypeOK'
  <2>1. PICK p \in {"stop_cs", "read"} : Call(t, s, p)
    BY <1>25 DEF OnRead
  <2> QED BY <1>25, <2>1 DEF OnRead, Call
<1>26. ASSUME NEW t \in Threads, NEW s \in Sessions, WriteDone(t, s) PROVE
   TypeOK'
  BY <1>26 DEF WriteDone, do_read
<1>27. ASSUME NEW t \in Threads, NEW s \in Sessions, OnCheckPing(t, s) PROVE
   TypeOK'
  BY <1>27 DEF OnCheckPing, Call
<1>28. ASSUME NEW t \in Threads, OnEventStopped(t) PROVE TypeOK'
  BY <1>28 DEF OnEventStopped, Finish
<1>29. CASE UNCHANGED vars
  BY <1>29 DEF vars
<1>30. ASSUME NEW t \in Threads, ExitThrows(t) PROVE TypeOK'
  BY <1>30 DEF ExitThrows, Unlock
<1> QED
  BY <1>1, <1>2, <1>3, <1>4, <1>5, <1>6, <1>7, <1>8, <1>9, <1>10, <1>11,
     <1>12, <1>13, <1>14, <1>15, <1>16, <1>17, <1>18, <1>19, <1>20, <1>21,
     <1>22, <1>23, <1>24, <1>25, <1>26, <1>27, <1>28, <1>29, <1>30 DEF Next, Run, Dispatch,
     Exhausted

\* A step of thread t that neither takes nor releases a mutex.
LockFree(t) ==
  /\ UNCHANGED <<cs_, clients_cs, outer>> /\ ~outer[t]
  /\ {pc[t], pc'[t]} \intersect (CsHeld \union RegHeld) = {}
  /\ \A u \in Threads \ {t} :
       pc'[u] = pc[u] /\ me'[u] = me[u] /\ target'[u] = target[u]

\* Such a step keeps the owners of all mutexes in line with the threads.
LEMMA LockFreeKeeps ==
  ASSUME TypeOK, LockInv, NEW t \in Threads, LockFree(t)
  PROVE  LockInv'
BY DEF TypeOK, LockInv, Holds, LockFree

\* The handlers' steps outside the sections under a mutex are such steps.
LEMMA LockFreeStep ==
  ASSUME TypeOK, CallInv, NEW t \in Threads,
         \/ StartReading(t) \/ OnReadCommand(t) \/ OnReadUnknown(t) \/ Reread(t)
         \/ DoWrite(t) \/ OnLogin(t) \/ OnPing(t) \/ OnPingClear(t)
         \/ OnClientsName(t) \/ OnEventStopped(t)
         \/ \E s \in Sessions : Accept(t, s) \/ OnRead(t, s) \/ OnCheckPing(t, s)
  PROVE  LockFree(t)
<1> USE RegistryAssumption
<1> USE DEF code, asio, thread, flags, locals, rest
<1> DEFINE Free == {"idle", "start_db", "read", "reread", "login", "ping",
                    "ping_clear", "who_next", "stop_cs", "exit_cs", "cp_cs", "start_reg",
                    "who_reg", "upd_reg", "login_write", "ping_write", "write"}
<1>1. Free \intersect (CsHeld \union RegHeld) = {}
  BY DEF CsHeld, RegHeld
<1>2. pc[t] \in Free \ {"stop_cs", "upd_reg"}
  BY DEF StartReading, OnReadCommand, OnReadUnknown, Reread, DoWrite, OnLogin,
         OnPing, OnPingClear, OnClientsName, OnEventStopped, Accept, OnRead,
         OnCheckPing, Call, WriteNext
<1>3. ~outer[t]
  BY <1>2 DEF CallInv, StopPCs, StopErased
<1>4. UNCHANGED <<cs_, clients_cs, outer>>
  BY DEF StartReading, OnReadCommand, OnReadUnknown, Reread, DoWrite, OnLogin,
         OnPing, OnPingClear, OnClientsName, OnEventStopped, Accept, OnRead,
         OnCheckPing, Call, Finish, do_read
<1> DEFINE Others == \A u \in Threads \ {t} :
                       pc'[u] = pc[u] /\ me'[u] = me[u] /\ target'[u] = target[u]
<1>5. ASSUME NEW p \in Free, Goto(t, p), UNCHANGED <<me, target>>
      PROVE  pc'[t] \in Free /\ Others
  BY <1>5 DEF TypeOK, Goto
<1>6. ASSUME Finish(t) PROVE pc'[t] \in Free /\ Others
  BY <1>6 DEF TypeOK, Finish, Goto
<1>7. ASSUME NEW s \in Sessions, NEW p \in Free, Call(t, s, p)
      PROVE  pc'[t] \in Free /\ Others
  BY <1>7 DEF TypeOK, Call, Goto
<1>8. \/ Finish(t)
      \/ \E p \in Free : Goto(t, p) /\ UNCHANGED <<me, target>>
      \/ \E s \in Sessions, p \in Free : Call(t, s, p)
  <2>1. CASE \/ StartReading(t) \/ OnReadUnknown(t) \/ Reread(t)
             \/ OnPingClear(t) \/ OnEventStopped(t)
    BY <2>1 DEF StartReading, OnReadUnknown, Reread, OnPingClear, OnEventStopped
  <2>2. CASE OnReadCommand(t)
    <3>1. Commands \subseteq Free
      BY DEF AllCommands
    <3> QED BY <2>2, <3>1 DEF OnReadCommand
  <2>3. CASE DoWrite(t)
    <3>1. pc[t] # "write" => WriteNext[pc[t]] \in Free
      BY <2>3 DEF DoWrite, WriteNext
    <3> QED BY <2>3, <3>1 DEF DoWrite
  <2>4. CASE OnLogin(t) \/ OnPing(t)
    BY <2>4 DEF OnLogin, OnPing
  <2>5. CASE OnClientsName(t)
    <3>1. CASE UNCHANGED pc
      BY <2>5, <3>1 DEF OnClientsName, Goto, TypeOK
    <3>2. CASE Goto(t, "write")
      BY <2>5, <3>2 DEF OnClientsName
    <3> QED BY <2>5, <3>1, <3>2 DEF OnClientsName
  <2>6. CASE \E s \in Sessions : Accept(t, s) \/ OnRead(t, s) \/ OnCheckPing(t, s)
    <3>1. PICK s \in Sessions : Accept(t, s) \/ OnRead(t, s) \/ OnCheckPing(t, s)
      BY <2>6
    <3>2. \E p \in Free : Call(t, s, p)
      BY <3>1 DEF Accept, OnRead, OnCheckPing
    <3> QED BY <3>2
  <2> QED BY <2>1, <2>2, <2>3, <2>4, <2>5, <2>6
<1> HIDE DEF Free, Others
<1>9. pc'[t] \in Free /\ Others
  BY <1>5, <1>6, <1>7, <1>8
<1> QED BY <1>1, <1>2, <1>3, <1>4, <1>9 DEF LockFree, Others

\* Every step that takes or releases a mutex keeps its owner in line with where
\* the threads are.
LEMMA LockInvStep ==
  ASSUME TypeOK, TypeOK', LockInv, CallInv, [Next]_vars
  PROVE  LockInv'
<1> USE RegistryAssumption
<1>1. ASSUME NEW t \in Threads,
             \/ StartReading(t) \/ OnReadCommand(t) \/ OnReadUnknown(t) \/ Reread(t)
             \/ DoWrite(t) \/ OnLogin(t) \/ OnPing(t) \/ OnPingClear(t)
             \/ OnClientsName(t) \/ OnEventStopped(t)
             \/ \E s \in Sessions :
                  Accept(t, s) \/ OnRead(t, s) \/ OnCheckPing(t, s)
      PROVE  LockInv'
  BY <1>1, LockFreeStep, LockFreeKeeps
<1>2. ASSUME \/ UNCHANGED vars
             \/ \E t \in Threads :
                  \/ StartDbFails(t) \/ StopThrows(t)
                  \/ \E s \in Sessions : WriteDone(t, s)
      PROVE  LockInv'
  <2>1. UNCHANGED <<cs_, clients_cs, outer, pc, me, target>>
    BY <1>2 DEF vars, code, thread, locals, StartDbFails, StopThrows, WriteDone
  <2> QED BY <2>1 DEF LockInv, Holds
<1> USE DEF TypeOK, code, asio, thread, flags, locals, rest, PCs, CsWait, CsHeld,
            RegWait, RegHeld, StopErased, StopPCs, CsNext, RegNext, Goto,
            LockInv, Holds, CallInv
<1>3. ASSUME NEW t \in Threads, LockCs(t) PROVE LockInv'
  BY <1>3 DEF LockCs
<1>4. ASSUME NEW t \in Threads, LockClients(t) PROVE LockInv'
  BY <1>4 DEF LockClients
<1>5. ASSUME NEW t \in Threads, StartPush(t) PROVE LockInv'
  BY <1>5 DEF StartPush
<1>6. ASSUME NEW t \in Threads, OnClientsCopy(t) PROVE LockInv'
  BY <1>6 DEF OnClientsCopy
<1>7. ASSUME NEW t \in Threads, StopCheck(t) PROVE LockInv'
  <2>1. /\ pc[t] \in {"stop_check", "exit_check"}
        /\ me[t] \in Sessions /\ target[t] = me[t]
        /\ UNCHANGED clients_cs
        /\ cs_' = [cs_ EXCEPT ![me[t]] = IF outer[t] THEN t ELSE None]
    BY <1>7 DEF StopCheck, Unlock
  <2>2. CASE started_[me[t]]
    <3>1. Goto(t, "stop_reg") /\ UNCHANGED locals
      BY <1>7, <2>2 DEF StopCheck
    <3> QED BY <2>1, <3>1
  <2>3. CASE outer[t] /\ Resume(t)
    BY <2>1, <2>3 DEF Resume
  <2>4. CASE ~outer[t] /\ Finish(t)
    BY <2>1, <2>4 DEF Finish
  <2> QED BY <1>7, <2>2, <2>3, <2>4 DEF StopCheck, ReturnFromStop
<1>8. ASSUME NEW t \in Threads, StopErase(t) PROVE LockInv'
  BY <1>8 DEF StopErase
<1>9. ASSUME NEW t \in Threads, UpdateCopy(t) PROVE LockInv'
  BY <1>9 DEF UpdateCopy
<1>10. ASSUME NEW t \in Threads, UpdateNext(t) PROVE LockInv'
  BY <1>10 DEF UpdateNext
<1>11. ASSUME NEW t \in Threads, UpdateSet(t) PROVE LockInv'
  BY <1>11 DEF UpdateSet, Unlock
<1>12. ASSUME NEW t \in Threads, UpdateDone(t) PROVE LockInv'
  <2>1. pc[t] = "upd_next" /\ UNCHANGED <<cs_, clients_cs>>
    BY <1>12 DEF UpdateDone
  <2>2. CASE outer[t] /\ Resume(t)
    BY <2>1, <2>2 DEF Resume
  <2>3. CASE ~outer[t] /\ Finish(t)
    BY <2>1, <2>3 DEF Finish
  <2> QED BY <1>12, <2>2, <2>3 DEF UpdateDone, ReturnFromStop
<1>13. ASSUME NEW t \in Threads, CheckPing(t) PROVE LockInv'
  BY <1>13 DEF CheckPing
<1>14. ASSUME NEW t \in Threads, CheckPingEnd(t) PROVE LockInv'
  <2>1. ~outer[t] /\ target[t] = me[t] /\ pc[t] = "cp_end" /\ me[t] \in Sessions
    BY <1>14 DEF CheckPingEnd
  <2>2. cs_' = [cs_ EXCEPT ![me[t]] = None] /\ UNCHANGED clients_cs /\ Finish(t)
    BY <1>14, <2>1 DEF CheckPingEnd, Unlock
  <2> QED BY <2>1, <2>2 DEF Finish
<1>15. ASSUME NEW t \in Threads, ExitThrows(t) PROVE LockInv'
  <2>1. /\ pc[t] = "exit_check" /\ ~outer[t]
        /\ me[t] \in Sessions /\ target[t] = me[t]
    BY <1>15 DEF ExitThrows
  <2>2. /\ cs_' = [cs_ EXCEPT ![me[t]] = None] /\ Goto(t, "write")
        /\ UNCHANGED <<clients_cs, locals>>
    BY <1>15, <2>1 DEF ExitThrows, Unlock
  <2> QED BY <2>1, <2>2
<1> HIDE DEF TypeOK, LockInv, CallInv
<1> QED
  BY <1>1, <1>2, <1>3, <1>4, <1>5, <1>6, <1>7, <1>8, <1>9, <1>10, <1>11, <1>12,
     <1>13, <1>14, <1>15 DEF Next, Run, Dispatch, Exhausted

\* Every step keeps the thread's target the one its counter calls for.
LEMMA CallInvStep ==
  ASSUME TypeOK, TypeOK', CallInv, [Next]_vars
  PROVE  CallInv'
<1> USE RegistryAssumption
<1> USE DEF TypeOK, code, asio, thread, flags, locals, rest,
            started, Stopped, Without, Remaining, Armed, PCs, CsWait, CsHeld, RegWait,
            RegHeld, StopErased, StopPCs, CsNext, RegNext, WriteNext, Goto,
               CallInv
<1>1. ASSUME NEW t \in Threads, LockCs(t) PROVE CallInv'
  BY <1>1 DEF LockCs
<1>2. ASSUME NEW t \in Threads, LockClients(t) PROVE CallInv'
  BY <1>2 DEF LockClients
<1>3. ASSUME NEW t \in Threads, StartPush(t) PROVE CallInv'
  BY <1>3 DEF StartPush
<1>4. ASSUME NEW t \in Threads, StartReading(t) PROVE CallInv'
  BY <1>4 DEF StartReading, do_read, Finish
<1>5. ASSUME NEW t \in Threads, StartDbFails(t) PROVE CallInv'
  BY <1>5 DEF StartDbFails
<1>6. ASSUME NEW t \in Threads, OnReadCommand(t) PROVE CallInv'
  BY <1>6 DEF OnReadCommand, Finish, AllCommands
<1>7. ASSUME NEW t \in Threads, OnReadUnknown(t) PROVE CallInv'
  BY <1>7 DEF OnReadUnknown, Finish
<1>8. ASSUME NEW t \in Threads, Reread(t) PROVE CallInv'
  BY <1>8 DEF Reread, do_read, Finish
<1>9. ASSUME NEW t \in Threads, DoWrite(t) PROVE CallInv'
  BY <1>9 DEF DoWrite, Finish
<1>10. ASSUME NEW t \in Threads, OnLogin(t) PROVE CallInv'
  BY <1>10 DEF OnLogin
<1>11. ASSUME NEW t \in Threads, OnPing(t) PROVE CallInv'
  BY <1>11 DEF OnPing
<1>12. ASSUME NEW t \in Threads, OnPingClear(t) PROVE CallInv'
  BY <1>12 DEF OnPingClear, Finish
<1>13. ASSUME NEW t \in Threads, OnClientsCopy(t) PROVE CallInv'
  BY <1>13 DEF OnClientsCopy
<1>14. ASSUME NEW t \in Threads, OnClientsName(t) PROVE CallInv'
  BY <1>14 DEF OnClientsName
<1>15. ASSUME NEW t \in Threads, StopCheck(t) PROVE CallInv'
  BY <1>15 DEF StopCheck, Unlock, ReturnFromStop, Resume, Finish
<1>16. ASSUME NEW t \in Threads, StopThrows(t) PROVE CallInv'
  BY <1>16 DEF StopThrows
<1>17. ASSUME NEW t \in Threads, StopErase(t) PROVE CallInv'
  BY <1>17 DEF StopErase
<1>18. ASSUME NEW t \in Threads, UpdateCopy(t) PROVE CallInv'
  BY <1>18 DEF UpdateCopy
<1>19. ASSUME NEW t \in Threads, UpdateNext(t) PROVE CallInv'
  BY <1>19 DEF UpdateNext
<1>20. ASSUME NEW t \in Threads, UpdateSet(t) PROVE CallInv'
  BY <1>20 DEF UpdateSet, Unlock
<1>21. ASSUME NEW t \in Threads, UpdateDone(t) PROVE CallInv'
  BY <1>21 DEF UpdateDone, ReturnFromStop, Resume, Finish
<1>22. ASSUME NEW t \in Threads, CheckPing(t) PROVE CallInv'
  BY <1>22 DEF CheckPing
<1>23. ASSUME NEW t \in Threads, CheckPingEnd(t) PROVE CallInv'
  BY <1>23 DEF CheckPingEnd, Unlock, Finish
<1>24. ASSUME NEW t \in Threads, NEW s \in Sessions, Accept(t, s) PROVE
   CallInv'
  BY <1>24 DEF Accept, Call
<1>25. ASSUME NEW t \in Threads, NEW s \in Sessions, OnRead(t, s) PROVE
   CallInv'
  BY <1>25 DEF OnRead, Call
<1>26. ASSUME NEW t \in Threads, NEW s \in Sessions, WriteDone(t, s) PROVE
   CallInv'
  BY <1>26 DEF WriteDone, do_read
<1>27. ASSUME NEW t \in Threads, NEW s \in Sessions, OnCheckPing(t, s) PROVE
   CallInv'
  BY <1>27 DEF OnCheckPing, Call
<1>28. ASSUME NEW t \in Threads, OnEventStopped(t) PROVE CallInv'
  BY <1>28 DEF OnEventStopped, Finish
<1>29. CASE UNCHANGED vars
  BY <1>29 DEF vars
<1>30. ASSUME NEW t \in Threads, ExitThrows(t) PROVE CallInv'
  BY <1>30 DEF ExitThrows
<1> QED
  BY <1>1, <1>2, <1>3, <1>4, <1>5, <1>6, <1>7, <1>8, <1>9, <1>10, <1>11,
     <1>12, <1>13, <1>14, <1>15, <1>16, <1>17, <1>18, <1>19, <1>20, <1>21,
     <1>22, <1>23, <1>24, <1>25, <1>26, <1>27, <1>28, <1>29, <1>30 DEF Next, Run, Dispatch,
     Exhausted
\* Every step keeps start() alone with its session until it is listed.
LEMMA StartInvStep ==
  ASSUME TypeOK, TypeOK', StartInv, [Next]_vars
  PROVE  StartInv'
<1> USE RegistryAssumption
<1> USE DEF TypeOK, code, asio, thread, flags, locals, rest,
            started, Stopped, Without, Remaining, Armed, PCs, CsWait, CsHeld, RegWait,
            RegHeld, StopErased, StopPCs, CsNext, RegNext, WriteNext, Goto,
               StartInv, Pushed
<1>1. ASSUME NEW t \in Threads, LockCs(t) PROVE StartInv'
  BY <1>1 DEF LockCs
<1>2. ASSUME NEW t \in Threads, LockClients(t) PROVE StartInv'
  BY <1>2 DEF LockClients
<1>3. ASSUME NEW t \in Threads, StartPush(t) PROVE StartInv'
  BY <1>3 DEF StartPush
<1>4. ASSUME NEW t \in Threads, StartReading(t) PROVE StartInv'
  BY <1>4 DEF StartReading, do_read, Finish
<1>5. ASSUME NEW t \in Threads, StartDbFails(t) PROVE StartInv'
  BY <1>5 DEF StartDbFails
<1>6. ASSUME NEW t \in Threads, OnReadCommand(t) PROVE StartInv'
  BY <1>6 DEF OnReadCommand, Finish, AllCommands
<1>7. ASSUME NEW t \in Threads, OnReadUnknown(t) PROVE StartInv'
  BY <1>7 DEF OnReadUnknown, Finish
<1>8. ASSUME NEW t \in Threads, Reread(t) PROVE StartInv'
  BY <1>8 DEF Reread, do_read, Finish
<1>9. ASSUME NEW t \in Threads, DoWrite(t) PROVE StartInv'
  <2>1. /\ UNCHANGED <<clients, started_, leftAt, fresh, reading, timers>>
        /\ writing' \in {writing, [writing EXCEPT ![me[t]] = TRUE]}
        /\ pc[t] \in DOMAIN WriteNext /\ me[t] \in Sessions /\ Pushed(me[t])
    BY <1>9 DEF DoWrite
  <2>2. CASE Finish(t)
    BY <2>1, <2>2 DEF Finish
  <2>3. CASE pc[t] # "write"
    BY <1>9, <2>1, <2>3 DEF DoWrite
  <2> QED BY <1>9, <2>2, <2>3 DEF DoWrite
<1>10. ASSUME NEW t \in Threads, OnLogin(t) PROVE StartInv'
  BY <1>10 DEF OnLogin
<1>11. ASSUME NEW t \in Threads, OnPing(t) PROVE StartInv'
  BY <1>11 DEF OnPing
<1>12. ASSUME NEW t \in Threads, OnPingClear(t) PROVE StartInv'
  BY <1>12 DEF OnPingClear, Finish
<1>13. ASSUME NEW t \in Threads, OnClientsCopy(t) PROVE StartInv'
  BY <1>13 DEF OnClientsCopy
<1>14. ASSUME NEW t \in Threads, OnClientsName(t) PROVE StartInv'
  BY <1>14 DEF OnClientsName
<1>15. ASSUME NEW t \in Threads, StopCheck(t) PROVE StartInv'
  BY <1>15 DEF StopCheck, Unlock, ReturnFromStop, Resume, Finish
<1>16. ASSUME NEW t \in Threads, StopThrows(t) PROVE StartInv'
  BY <1>16 DEF StopThrows
<1>17. ASSUME NEW t \in Threads, StopErase(t) PROVE StartInv'
  BY <1>17 DEF StopErase
<1>18. ASSUME NEW t \in Threads, UpdateCopy(t) PROVE StartInv'
  BY <1>18 DEF UpdateCopy
<1>19. ASSUME NEW t \in Threads, UpdateNext(t) PROVE StartInv'
  BY <1>19 DEF UpdateNext
<1>20. ASSUME NEW t \in Threads, UpdateSet(t) PROVE StartInv'
  BY <1>20 DEF UpdateSet, Unlock
<1>21. ASSUME NEW t \in Threads, UpdateDone(t) PROVE StartInv'
  BY <1>21 DEF UpdateDone, ReturnFromStop, Resume, Finish
<1>22. ASSUME NEW t \in Threads, CheckPing(t) PROVE StartInv'
  BY <1>22 DEF CheckPing
<1>23. ASSUME NEW t \in Threads, CheckPingEnd(t) PROVE StartInv'
  BY <1>23 DEF CheckPingEnd, Unlock, Finish
<1>24. ASSUME NEW t \in Threads, NEW s \in Sessions, Accept(t, s) PROVE
   StartInv'
  BY <1>24 DEF Accept, Call
<1>25. ASSUME NEW t \in Threads, NEW s \in Sessions, OnRead(t, s) PROVE
   StartInv'
  BY <1>25 DEF OnRead, Call
<1>26. ASSUME NEW t \in Threads, NEW s \in Sessions, WriteDone(t, s) PROVE
   StartInv'
  BY <1>26 DEF WriteDone, do_read
<1>27. ASSUME NEW t \in Threads, NEW s \in Sessions, OnCheckPing(t, s) PROVE
   StartInv'
  BY <1>27 DEF OnCheckPing, Call
<1>28. ASSUME NEW t \in Threads, OnEventStopped(t) PROVE StartInv'
  BY <1>28 DEF OnEventStopped, Finish
<1>29. CASE UNCHANGED vars
  BY <1>29 DEF vars
<1>30. ASSUME NEW t \in Threads, ExitThrows(t) PROVE StartInv'
  BY <1>30 DEF ExitThrows
<1> QED
  BY <1>1, <1>2, <1>3, <1>4, <1>5, <1>6, <1>7, <1>8, <1>9, <1>10, <1>11,
     <1>12, <1>13, <1>14, <1>15, <1>16, <1>17, <1>18, <1>19, <1>20, <1>21,
     <1>22, <1>23, <1>24, <1>25, <1>26, <1>27, <1>28, <1>29, <1>30 DEF Next, Run, Dispatch,
     Exhausted
\* Every step keeps the order in which the sessions left the list.
LEMMA LeaveInvStep ==
  ASSUME TypeOK, TypeOK', LeaveInv, CallInv, StartInv, [Next]_vars
  PROVE  LeaveInv'
<1> USE RegistryAssumption
<1> USE DEF TypeOK, code, asio, thread, flags, locals, rest,
            started, Stopped, Without, Remaining, Armed, PCs, CsWait, CsHeld, RegWait,
            RegHeld, StopErased, StopPCs, CsNext, RegNext, WriteNext, Goto,
               LeaveInv, CallInv, StartInv, Pushed
<1>1. ASSUME NEW t \in Threads, LockCs(t) PROVE LeaveInv'
  BY <1>1 DEF LockCs
<1>2. ASSUME NEW t \in Threads, LockClients(t) PROVE LeaveInv'
  BY <1>2 DEF LockClients
<1>3. ASSUME NEW t \in Threads, StartPush(t) PROVE LeaveInv'
  BY <1>3 DEF StartPush
<1>4. ASSUME NEW t \in Threads, StartReading(t) PROVE LeaveInv'
  BY <1>4 DEF StartReading, do_read, Finish
<1>5. ASSUME NEW t \in Threads, StartDbFails(t) PROVE LeaveInv'
  BY <1>5 DEF StartDbFails
<1>6. ASSUME NEW t \in Threads, OnReadCommand(t) PROVE LeaveInv'
  BY <1>6 DEF OnReadCommand, Finish, AllCommands
<1>7. ASSUME NEW t \in Threads, OnReadUnknown(t) PROVE LeaveInv'
  BY <1>7 DEF OnReadUnknown, Finish
<1>8. ASSUME NEW t \in Threads, Reread(t) PROVE LeaveInv'
  BY <1>8 DEF Reread, do_read, Finish
<1>9. ASSUME NEW t \in Threads, DoWrite(t) PROVE LeaveInv'
  BY <1>9 DEF DoWrite, Finish
<1>10. ASSUME NEW t \in Threads, OnLogin(t) PROVE LeaveInv'
  BY <1>10 DEF OnLogin
<1>11. ASSUME NEW t \in Threads, OnPing(t) PROVE LeaveInv'
  BY <1>11 DEF OnPing
<1>12. ASSUME NEW t \in Threads, OnPingClear(t) PROVE LeaveInv'
  BY <1>12 DEF OnPingClear, Finish
<1>13. ASSUME NEW t \in Threads, OnClientsCopy(t) PROVE LeaveInv'
  BY <1>13 DEF OnClientsCopy
<1>14. ASSUME NEW t \in Threads, OnClientsName(t) PROVE LeaveInv'
  BY <1>14 DEF OnClientsName
<1>15. ASSUME NEW t \in Threads, StopCheck(t) PROVE LeaveInv'
  <2>1. /\ pc[t] \in {"stop_check", "exit_check"}
        /\ UNCHANGED <<clients, departures, leftAt>>
    BY <1>15 DEF StopCheck
  <2>2. CASE started_[me[t]]
    <3>1. Goto(t, "stop_reg") /\ UNCHANGED locals
      BY <1>15, <2>2 DEF StopCheck
    <3> QED BY <2>1, <3>1
  <2>3. CASE Resume(t)
    BY <2>1, <2>3 DEF Resume
  <2>4. CASE ~outer[t] /\ Finish(t)
    BY <2>1, <2>4 DEF Finish
  <2> QED BY <1>15, <2>2, <2>3, <2>4 DEF StopCheck, ReturnFromStop
<1>16. ASSUME NEW t \in Threads, StopThrows(t) PROVE LeaveInv'
  BY <1>16 DEF StopThrows
<1>17. ASSUME NEW t \in Threads, StopErase(t) PROVE LeaveInv'
  <2>1. /\ pc[t] = "stop_erase" /\ pc' = [pc EXCEPT ![t] = "upd_reg"]
        /\ UNCHANGED <<me, todo, outer>> /\ clients' = clients \ {me[t]}
        /\ me[t] \in Sessions /\ departures \in Nat
    BY <1>17 DEF StopErase
  <2>2. CASE me[t] \in clients
    <3>1. /\ departures' = departures + 1
          /\ leftAt' = [leftAt EXCEPT ![me[t]] = departures + 1]
      BY <1>17, <2>2 DEF StopErase
    <3>2. \A s \in Sessions :
            /\ leftAt[s] \in Nat /\ leftAt'[s] \in Nat /\ leftAt[s] <= departures
            /\ leftAt'[s] = IF s = me[t] THEN departures + 1 ELSE leftAt[s]
      BY <3>1
    <3>3. leftAt[me[t]] = 0
      BY <2>2
    <3> QED BY <2>1, <3>1, <3>2, <3>3
  <2>3. CASE me[t] \notin clients
    <3>1. UNCHANGED <<departures, leftAt>> /\ leftAt[me[t]] > 0
      BY <1>17, <2>1, <2>3 DEF StopErase
    <3> QED BY <2>1, <3>1
  <2> QED BY <2>2, <2>3
<1>18. ASSUME NEW t \in Threads, UpdateCopy(t) PROVE LeaveInv'
  BY <1>18 DEF UpdateCopy
<1>19. ASSUME NEW t \in Threads, UpdateNext(t) PROVE LeaveInv'
  BY <1>19 DEF UpdateNext
<1>20. ASSUME NEW t \in Threads, UpdateSet(t) PROVE LeaveInv'
  BY <1>20 DEF UpdateSet, Unlock
<1>21. ASSUME NEW t \in Threads, UpdateDone(t) PROVE LeaveInv'
  BY <1>21 DEF UpdateDone, ReturnFromStop, Resume, Finish
<1>22. ASSUME NEW t \in Threads, CheckPing(t) PROVE LeaveInv'
  BY <1>22 DEF CheckPing
<1>23. ASSUME NEW t \in Threads, CheckPingEnd(t) PROVE LeaveInv'
  BY <1>23 DEF CheckPingEnd, Unlock, Finish
<1>24. ASSUME NEW t \in Threads, NEW s \in Sessions, Accept(t, s) PROVE
   LeaveInv'
  BY <1>24 DEF Accept, Call
<1>25. ASSUME NEW t \in Threads, NEW s \in Sessions, OnRead(t, s) PROVE
   LeaveInv'
  BY <1>25 DEF OnRead, Call
<1>26. ASSUME NEW t \in Threads, NEW s \in Sessions, WriteDone(t, s) PROVE
   LeaveInv'
  BY <1>26 DEF WriteDone, do_read
<1>27. ASSUME NEW t \in Threads, NEW s \in Sessions, OnCheckPing(t, s) PROVE
   LeaveInv'
  BY <1>27 DEF OnCheckPing, Call
<1>28. ASSUME NEW t \in Threads, OnEventStopped(t) PROVE LeaveInv'
  BY <1>28 DEF OnEventStopped, Finish
<1>29. CASE UNCHANGED vars
  BY <1>29 DEF vars
<1>30. ASSUME NEW t \in Threads, ExitThrows(t) PROVE LeaveInv'
  BY <1>30 DEF ExitThrows
<1> QED
  BY <1>1, <1>2, <1>3, <1>4, <1>5, <1>6, <1>7, <1>8, <1>9, <1>10, <1>11,
     <1>12, <1>13, <1>14, <1>15, <1>16, <1>17, <1>18, <1>19, <1>20, <1>21,
     <1>22, <1>23, <1>24, <1>25, <1>26, <1>27, <1>28, <1>29, <1>30 DEF Next, Run, Dispatch,
     Exhausted
\* Every step keeps the list the set of the started sessions, apart from those
\* that a failed exit left there and those inside start() and stop(), and each
\* of the latter in one stop().
LEMMA ListStep ==
  ASSUME TypeOK, TypeOK', ListedIffStarted, StopInv, StartInv, [Next]_vars
  PROVE  ListedIffStarted' /\ StopInv'
<1> USE RegistryAssumption
<1> USE DEF TypeOK, code, asio, thread, flags, locals, rest,
            started, Stopped, Without, Remaining, Armed, PCs, CsWait, CsHeld, RegWait,
            RegHeld, StopErased, StopPCs, CsNext, RegNext, WriteNext, Goto
<1> DEFINE Starts == {"start_reg", "start_push"}
<1> DEFINE Stops == {"stop_reg", "stop_erase"}
<1> DEFINE Kept ==
      /\ UNCHANGED <<clients, started_, caught>>
      /\ \A u \in Threads :
           /\ pc[u] \in Starts => pc'[u] \in Starts /\ me'[u] = me[u]
           /\ pc[u] \in Stops <=> pc'[u] \in Stops
           /\ pc[u] \in Stops => me'[u] = me[u]
<1> DEFINE Goal == ListedIffStarted' /\ StopInv'
<1>0. ASSUME Kept PROVE Goal
  <2>1. ListedIffStarted'
    BY <1>0 DEF ListedIffStarted
  <2>2. StopInv'
    BY <1>0 DEF StopInv
  <2> QED BY <2>1, <2>2
<1>1. ASSUME NEW t \in Threads, LockCs(t) PROVE Kept
  BY <1>1 DEF LockCs
<1>2. ASSUME NEW t \in Threads, LockClients(t) PROVE Kept
  BY <1>2 DEF LockClients
<1>3. ASSUME NEW t \in Threads, StartPush(t) PROVE Goal
  <2>1. ListedIffStarted'
    BY <1>3 DEF StartPush, ListedIffStarted, StartInv, Pushed
  <2>2. StopInv'
    BY <1>3 DEF StartPush, StopInv
  <2> QED BY <2>1, <2>2
<1>4. ASSUME NEW t \in Threads, StartReading(t) PROVE Kept
  BY <1>4 DEF StartReading, do_read, Finish
<1>5. ASSUME NEW t \in Threads, StartDbFails(t) PROVE Kept
  BY <1>5 DEF StartDbFails
<1>6. ASSUME NEW t \in Threads, OnReadCommand(t) PROVE Kept
  BY <1>6 DEF OnReadCommand, Finish, AllCommands
<1>7. ASSUME NEW t \in Threads, OnReadUnknown(t) PROVE Kept
  BY <1>7 DEF OnReadUnknown, Finish
<1>8. ASSUME NEW t \in Threads, Reread(t) PROVE Kept
  BY <1>8 DEF Reread, do_read, Finish
<1>9. ASSUME NEW t \in Threads, DoWrite(t) PROVE Kept
  <2>1. UNCHANGED <<clients, started_, caught>> /\ pc[t] \in DOMAIN WriteNext
    BY <1>9 DEF DoWrite
  <2>2. CASE Finish(t)
    BY <2>1, <2>2 DEF Finish
  <2>3. CASE pc[t] # "write"
    BY <1>9, <2>1, <2>3 DEF DoWrite
  <2> QED BY <1>9, <2>2, <2>3 DEF DoWrite
<1>10. ASSUME NEW t \in Threads, OnLogin(t) PROVE Kept
  BY <1>10 DEF OnLogin
<1>11. ASSUME NEW t \in Threads, OnPing(t) PROVE Kept
  BY <1>11 DEF OnPing
<1>12. ASSUME NEW t \in Threads, OnPingClear(t) PROVE Kept
  BY <1>12 DEF OnPingClear, Finish
<1>13. ASSUME NEW t \in Threads, OnClientsCopy(t) PROVE Kept
  BY <1>13 DEF OnClientsCopy
<1>14. ASSUME NEW t \in Threads, OnClientsName(t) PROVE Kept
  BY <1>14 DEF OnClientsName
<1>15. ASSUME NEW t \in Threads, StopCheck(t) PROVE Goal
  <2>1. CASE started_[me[t]]
    <3>1. ListedIffStarted'
      BY <1>15, <2>1 DEF StopCheck, ListedIffStarted, StartInv, Pushed
    <3>2. me[t] \in clients /\ me[t] \notin caught
      BY <1>15, <2>1 DEF StopCheck, ListedIffStarted, StartInv
    <3>3. \A u \in Threads : me[u] = me[t] => pc[u] \notin Stops
      BY <2>1 DEF StartInv
    <3>4. StopInv'
      BY <1>15, <2>1, <3>2, <3>3 DEF StopCheck, StopInv
    <3> QED BY <3>1, <3>4
  <2>2. ASSUME ~started_[me[t]] PROVE Kept
    <3>1. CASE Resume(t)
      BY <1>15, <2>2, <3>1 DEF StopCheck, Resume
    <3>2. CASE Finish(t)
      BY <1>15, <2>2, <3>2 DEF StopCheck, Finish
    <3> QED BY <1>15, <2>2, <3>1, <3>2 DEF StopCheck, ReturnFromStop
  <2> HIDE DEF Kept, Goal
  <2> QED BY <2>1, <2>2, <1>0
<1>16. ASSUME NEW t \in Threads, StopThrows(t) PROVE Kept
  BY <1>16 DEF StopThrows
<1>17. ASSUME NEW t \in Threads, StopErase(t) PROVE Goal
  <2>1. ListedIffStarted'
    BY <1>17 DEF StopErase, ListedIffStarted, StartInv, StopInv, Pushed
  <2>2. StopInv'
    BY <1>17 DEF StopErase, StopInv
  <2> QED BY <2>1, <2>2
<1>18. ASSUME NEW t \in Threads, UpdateCopy(t) PROVE Kept
  BY <1>18 DEF UpdateCopy
<1>19. ASSUME NEW t \in Threads, UpdateNext(t) PROVE Kept
  BY <1>19 DEF UpdateNext
<1>20. ASSUME NEW t \in Threads, UpdateSet(t) PROVE Kept
  BY <1>20 DEF UpdateSet, Unlock
<1>21. ASSUME NEW t \in Threads, UpdateDone(t) PROVE Kept
  <2>1. CASE Resume(t)
    BY <1>21, <2>1 DEF UpdateDone, Resume
  <2>2. CASE Finish(t)
    BY <1>21, <2>2 DEF UpdateDone, Finish
  <2> QED BY <1>21, <2>1, <2>2 DEF UpdateDone, ReturnFromStop
<1>22. ASSUME NEW t \in Threads, CheckPing(t) PROVE Kept
  BY <1>22 DEF CheckPing
<1>23. ASSUME NEW t \in Threads, CheckPingEnd(t) PROVE Kept
  BY <1>23 DEF CheckPingEnd, Unlock, Finish
<1>24. ASSUME NEW t \in Threads, NEW s \in Sessions, Accept(t, s) PROVE
   Goal
  <2>1. ListedIffStarted'
    BY <1>24 DEF Accept, Call, ListedIffStarted, StartInv, Pushed
  <2>2. StopInv'
    BY <1>24 DEF Accept, Call, StopInv
  <2> QED BY <2>1, <2>2
<1>25. ASSUME NEW t \in Threads, NEW s \in Sessions, OnRead(t, s) PROVE Kept
  BY <1>25 DEF OnRead, Call
<1>26. ASSUME NEW t \in Threads, NEW s \in Sessions, WriteDone(t, s) PROVE Kept
  BY <1>26 DEF WriteDone, do_read
<1>27. ASSUME NEW t \in Threads, NEW s \in Sessions, OnCheckPing(t, s) PROVE Kept
  BY <1>27 DEF OnCheckPing, Call
<1>28. ASSUME NEW t \in Threads, OnEventStopped(t) PROVE Kept
  BY <1>28 DEF OnEventStopped, Finish
<1>29. ASSUME UNCHANGED vars PROVE Kept
  BY <1>29 DEF vars
<1>31. ASSUME NEW t \in Threads, ExitThrows(t) PROVE Goal
  <2>1. me[t] \in clients
    BY <1>31 DEF ExitThrows, ListedIffStarted, StartInv
  <2>2. ListedIffStarted'
    BY <1>31, <2>1 DEF ExitThrows, ListedIffStarted
  <2>3. \A u \in Threads : me[u] = me[t] => pc[u] \notin Stops
    BY <1>31 DEF ExitThrows, StartInv
  <2>4. StopInv'
    BY <1>31, <2>3 DEF ExitThrows, StopInv
  <2> QED BY <2>2, <2>4
<1> HIDE DEF Kept, Goal
<1>30. Goal
  BY <1>0, <1>1, <1>2, <1>3, <1>4, <1>5, <1>6, <1>7, <1>8, <1>9, <1>10, <1>11,
     <1>12, <1>13, <1>14, <1>15, <1>16, <1>17, <1>18, <1>19, <1>20, <1>21,
     <1>22, <1>23, <1>24, <1>25, <1>26, <1>27, <1>28, <1>29, <1>31 DEF Next, Run,
     Dispatch, Exhausted
<1> QED BY <1>30 DEF Goal

-----------------------------------------------------------------------------
\* The initial state satisfies the inductive invariant.
LEMMA InitIInv == Init => IInv
<1> SUFFICES ASSUME Init
             PROVE  IInv
  OBVIOUS
<1> USE RegistryAssumption DEF Init
<1>1. TypeOK
  BY DEF TypeOK, PCs
<1>2. LockInv
  BY DEF LockInv, Holds, CsHeld, RegHeld
<1>3. CallInv
  BY DEF CallInv
<1>4. StartInv
  BY DEF StartInv, Pushed
<1>5. LeaveInv
  BY DEF LeaveInv
<1>6. ListedIffStarted
  BY DEF ListedIffStarted
<1>7. StopInv
  BY DEF StopInv
<1> QED BY <1>1, <1>2, <1>3, <1>4, <1>5, <1>6, <1>7 DEF IInv

\* Every step of the program keeps the inductive invariant.
LEMMA NextIInv == IInv /\ [Next]_vars => IInv'
<1> SUFFICES ASSUME IInv, [Next]_vars
             PROVE  IInv'
  OBVIOUS
<1>1. TypeOK'
  BY TypeStep DEF IInv
<1>2. LockInv' /\ CallInv'
  BY <1>1, LockInvStep, CallInvStep DEF IInv
<1>3. StartInv' /\ LeaveInv'
  BY <1>1, StartInvStep, LeaveInvStep DEF IInv
<1>4. ListedIffStarted' /\ StopInv'
  BY <1>1, ListStep DEF IInv
<1> QED BY <1>1, <1>2, <1>3, <1>4 DEF IInv

\* The invariant holds in every reachable state of the program.
THEOREM Invariance == Spec => []IInv
  BY InitIInv, NextIInv, PTL DEF Spec

\* The variables keep their types; every running handler has a session.
THEOREM TypeCorrect == Spec => []TypeOK
<1>1. IInv => TypeOK
  BY DEF IInv
<1> QED BY <1>1, Invariance, PTL

\* Only a session inside start() is started and not listed; only one inside the
\* stop() that is about to erase it, or stopped by an exit whose shutdown()
\* failed, is listed and not started; and the latter stays so for ever.
THEOREM ListedCorrect == Spec => []ListedIffStarted
<1>1. IInv => ListedIffStarted
  BY DEF IInv
<1> QED BY <1>1, Invariance, PTL

-----------------------------------------------------------------------------
\* A non-empty set of numbers with an upper bound has a largest element.
LEMMA NatMax ==
  ASSUME NEW K, K \subseteq Nat, K # {},
         NEW d \in Nat, \A k \in K : k <= d
  PROVE  \E m \in K : \A k \in K : k <= m
<1> DEFINE D == {d - k : k \in K}
<1>1. D \subseteq Nat /\ D # {}
  <2>1. \A k \in K : d - k \in Nat
    OBVIOUS
  <2>2. D \subseteq Nat
    BY <2>1
  <2>3. D # {}
    OBVIOUS
  <2> QED BY <2>2, <2>3
<1> DEFINE LT == OpToRel(<, Nat)
<1>2. PICK x \in D : \A y \in D : ~(<<y, x>> \in LT)
  <2>1. IsWellFoundedOn(LT, Nat)
    BY NatLessThanWellFounded
  <2> HIDE DEF LT
  <2> QED BY <1>1, <2>1, WFMin
<1>3. \A y \in Nat, z \in Nat : y < z => <<y, z>> \in LT
  BY DEF OpToRel
<1>4. PICK m \in K : x = d - m
  OBVIOUS
<1>5. \A k \in K : d - k \in D
  OBVIOUS
<1> HIDE DEF D, LT
<1>6. \A k \in K : ~(d - k < d - m)
  BY <1>1, <1>2, <1>3, <1>4, <1>5
<1> QED BY <1>6

\* Along a chain of waiting threads, the owner of the first mutex is inside the
\* stop() of on_check_ping and owns the mutex of its own session.
LEMMA OwnerIsLeaving ==
  ASSUME IInv, NEW t \in Threads, NEW u \in Threads, NEW v \in Threads,
         NEW w \in Threads, WaitsFor(t, u), WaitsFor(u, v), WaitsFor(v, w)
  PROVE  pc[t] \in CsWait /\ outer[u] /\ pc[u] = "upd_cs" /\ me[u] = target[t]
<1> USE DEF CsWait, CsHeld, RegWait, RegHeld, CsNext, RegNext
<1>1. pc[u] \notin CsHeld /\ pc[u] \notin RegHeld
  BY DEF WaitsFor
<1>2. pc[t] \in CsWait /\ cs_[target[t]] = u
  BY <1>1 DEF WaitsFor, IInv, LockInv
<1>3. target[t] \in Sessions
  BY <1>2 DEF IInv, TypeOK
<1>4. outer[u] /\ me[u] = target[t] /\ cs_[me[u]] = u
  BY <1>1, <1>2, <1>3 DEF IInv, LockInv, Holds
<1>5. pc[u] \in {"stop_cs", "stop_reg", "upd_reg", "upd_cs"}
  BY <1>4 DEF WaitsFor, IInv, CallInv, StopPCs, StopErased
<1>6. pc[u] # "stop_cs"
  <2>1. SUFFICES ASSUME pc[u] = "stop_cs"
                 PROVE  FALSE
    OBVIOUS
  <2>2. target[u] = me[u]
    BY <2>1 DEF IInv, CallInv
  <2> QED BY <1>4, <2>1, <2>2 DEF WaitsFor
<1>7. pc[u] \notin RegWait
  <2>1. SUFFICES ASSUME pc[u] \in RegWait
                 PROVE  FALSE
    OBVIOUS
  <2>2. clients_cs = v
    BY <2>1 DEF WaitsFor
  <2>3. pc[v] \in RegHeld
    BY <2>2 DEF IInv, LockInv
  <2> QED BY <2>3 DEF WaitsFor
<1> QED BY <1>2, <1>4, <1>5, <1>6, <1>7

\* The inductive invariant excludes a group of threads that wait for each
\* other: along the waits the sessions would have left the list ever later.
LEMMA NoCycle == IInv => NoWaitCycle
<1> SUFFICES ASSUME IInv, NEW S \in SUBSET Threads, S # {},
                    \A t \in S : \E u \in S : WaitsFor(t, u)
             PROVE  FALSE
  BY DEF NoWaitCycle
<1> DEFINE Owner(t, u) == outer[u] /\ pc[u] = "upd_cs" /\ me[u] = target[t]
<1>1. \A t \in S : \E u \in S : Owner(t, u)
  <2> TAKE t \in S
  <2>1. PICK u \in S : WaitsFor(t, u)
    OBVIOUS
  <2>2. PICK v \in S : WaitsFor(u, v)
    OBVIOUS
  <2>3. PICK w \in S : WaitsFor(v, w)
    OBVIOUS
  <2>4. Owner(t, u)
    BY <2>1, <2>2, <2>3, OwnerIsLeaving
  <2> QED BY <2>4
<1> DEFINE U == {u \in S : outer[u] /\ pc[u] = "upd_cs"}
           K == {leftAt[me[u]] : u \in U}
<1>2. \A u \in U : /\ me[u] \in Sessions /\ target[u] \in Sessions
                   /\ leftAt[me[u]] \in Nat /\ leftAt[target[u]] \in Nat
  BY DEF IInv, TypeOK
<1>3. K \subseteq Nat /\ K # {}
  BY <1>1, <1>2
<1>4. departures \in Nat /\ \A k \in K : k <= departures
  BY <1>2 DEF IInv, TypeOK, LeaveInv
<1>5. PICK m \in K : \A k \in K : k <= m
  <2> HIDE DEF K
  <2> QED BY <1>3, <1>4, NatMax
<1>6. PICK u \in U : m = leftAt[me[u]]
  BY <1>5
<1>7. PICK v \in S : Owner(u, v)
  BY <1>1, <1>6
<1>8. leftAt[me[v]] > 0 /\ leftAt[me[v]] <= leftAt[me[u]]
  <2>1. v \in U /\ leftAt[me[v]] \in K
    BY <1>7
  <2>2. leftAt[me[v]] > 0
    BY <1>7 DEF IInv, LeaveInv, StopErased
  <2> QED BY <1>5, <1>6, <2>1, <2>2
<1>9. leftAt[target[u]] = 0 \/ leftAt[target[u]] > leftAt[me[u]]
  <2>1. target[u] \in todo[u]
    BY <1>6 DEF IInv, CallInv
  <2> QED BY <1>6, <2>1 DEF IInv, LeaveInv, StopErased
<1> QED BY <1>2, <1>6, <1>7, <1>8, <1>9

\* The handlers never wait for each other's mutexes in a cycle, whatever the
\* number of clients and of threads.
THEOREM NoDeadlock == Spec => []NoWaitCycle
  BY Invariance, NoCycle, PTL

\* The owner of a mutex that is taken for a section is a running handler which,
\* when it is blocked, waits for another section.
LEMMA BlockedOwnerWaits ==
  ASSUME IInv, NEW u \in Threads, Blocked(u),
         \/ \E s \in Sessions : cs_[s] = u
         \/ clients_cs = u
  PROVE  pc[u] # "idle" /\ \E v \in Threads : WaitsFor(u, v)
<1> USE DEF CsWait, CsHeld, RegWait, RegHeld, CsNext, RegNext, WriteNext
<1>1. pc[u] \notin CsHeld /\ pc[u] \notin RegHeld
  BY DEF Blocked, WaitsFor
<1>2. outer[u]
  BY <1>1 DEF IInv, LockInv, Holds
<1>3. pc[u] \in StopPCs
  BY <1>2 DEF IInv, CallInv
<1>4. \E v \in Threads : WaitsFor(u, v)
  BY <1>3 DEF Blocked, StopPCs, StopErased
<1> QED BY <1>3, <1>4 DEF StopPCs, StopErased

\* Whenever handlers run, one of them needs no mutex of another: the pool as a
\* whole never stands still, for any number of clients and threads.
THEOREM PoolGoesOn == Spec => []SomeoneGoes
<1>1. IInv => SomeoneGoes
  <2> SUFFICES ASSUME IInv, NEW t0 \in Threads, pc[t0] # "idle",
                      \A t \in Threads : pc[t] # "idle" => Blocked(t)
               PROVE  FALSE
    BY DEF SomeoneGoes
  <2> DEFINE S == {t \in Threads : pc[t] # "idle" /\ \E u \in Threads : WaitsFor(t, u)}
  <2>1. \A u \in Threads :
          (\E s \in Sessions : cs_[s] = u) \/ clients_cs = u => u \in S
    <3> SUFFICES ASSUME NEW u \in Threads,
                        (\E s \in Sessions : cs_[s] = u) \/ clients_cs = u
                 PROVE  u \in S
      OBVIOUS
    <3>1. pc[u] # "idle"
      BY DEF IInv, LockInv, Holds, CallInv, StopPCs, StopErased, CsHeld, RegHeld
    <3>2. Blocked(u)
      BY <3>1
    <3> QED BY <3>1, <3>2, BlockedOwnerWaits
  <2>2. S # {}
    <3>1. Blocked(t0) /\ me[t0] \in Sessions
      BY DEF IInv, TypeOK
    <3>2. CASE \E u \in Threads : WaitsFor(t0, u)
      BY <3>2
    <3>3. CASE \E s \in Sessions : cs_[s] # None
      <4>1. PICK s \in Sessions : cs_[s] # None
        BY <3>3
      <4>2. cs_[s] \in Threads
        BY <4>1 DEF IInv, TypeOK
      <4> QED BY <2>1, <4>2
    <3>4. todo[t0] \subseteq Sessions
      BY DEF IInv, TypeOK
    <3> QED BY <3>1, <3>2, <3>3, <3>4 DEF Blocked
  <2>3. \A t \in S : \E u \in S : WaitsFor(t, u)
    <3> SUFFICES ASSUME NEW t \in S
                 PROVE  \E u \in S : WaitsFor(t, u)
      OBVIOUS
    <3>1. PICK u \in Threads : WaitsFor(t, u)
      OBVIOUS
    <3>2. target[t] \in Sessions
      BY DEF IInv, TypeOK
    <3>3. u \in S
      BY <2>1, <3>1, <3>2 DEF WaitsFor
    <3> QED BY <3>1, <3>3
  <2>4. NoWaitCycle
    BY NoCycle
  <2> HIDE DEF S
  <2>5. S \in (SUBSET Threads) \ {{}}
    BY <2>2 DEF S
  <2> QED BY <2>3, <2>4, <2>5 DEF NoWaitCycle
<1> QED BY <1>1, Invariance, PTL
=============================================================================
