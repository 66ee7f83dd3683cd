--------------------------- MODULE ClientRegistry ---------------------------
(***************************************************************************)
(* The list of connected clients and the locks around it.                  *)
(*                                                                         *)
(* A pool of threads runs asio handlers.  A handler belongs to one         *)
(* CClientSession; handlers of one session may run on several threads at   *)
(* once, because nothing serialises them except two kinds of recursive     *)
(* mutex: cs_, one per session, and clients_cs, which guards the global    *)
(* vector `clients'.  on_check_ping keeps its session's cs_ for its whole  *)
(* duration, and the stop() it may call takes clients_cs and then the cs_  *)
(* of every other listed session, one after the other.                     *)
(*                                                                         *)
(* A handler is a program counter per thread; the names of the counter are *)
(* <function>_<point>.  Where a thread may hold one lock and want another  *)
(* (stop, update_clients_changed, on_check_ping), and for clients_cs, the  *)
(* lock is taken in one step and the section it protects, with the         *)
(* release, is the next step.  The other sections under cs_ take no second *)
(* lock; they are one step that needs the lock to be free.  Time is        *)
(* abstracted: on_check_ping may find the session expired whenever it runs *)
(* (SessionIO has the clock).                                              *)
(***************************************************************************)
EXTENDS Naturals, FiniteSets

CONSTANTS Sessions,   \* the CClientSession objects the server may create
          Threads,    \* the threads that call io_context_.run()
          None,       \* no session, no thread
          Commands,   \* the commands the clients send, by where they lead
          Faults,     \* the failing calls considered: "db_open", "shutdown"
          MaxTimers   \* bound: timer handlers of a session not yet run

\* Where on_read goes next: login, ping, who, exit, a command that is answered
\* at once (get_last_event, or an error), one that is followed by the next read
\* at once (fibo, a camera event, an empty message).
AllCommands == {"login", "ping", "who_reg", "exit_cs", "write", "reread"}

ASSUME RegistryAssumption ==
  /\ None \notin Sessions
  /\ None \notin Threads
  /\ Commands \subseteq AllCommands
  /\ Faults \subseteq {"db_open", "shutdown"}
  /\ MaxTimers \in Nat

VARIABLES
  clients,           \* the vector of listed sessions (no duplicates: a set)
  clients_cs,        \* owner of the mutex of clients
  cs_,               \* owner of each session's mutex
  started_,          \* CClientSession::started_
  clients_changed_,  \* CClientSession::clients_changed_
  fresh,             \* sessions that no client was accepted into yet
  acceptor_,         \* an async_accept is outstanding
  reading,           \* the session has an async_read outstanding
  writing,           \* the session has an async_write outstanding
  timers,            \* async_waits of timer_ whose handler has not run yet
  pc,                \* where the handler of each thread is
  me,                \* the session whose handler the thread runs
  target,            \* the session whose cs_ the thread takes or holds next
  todo,              \* the rest of the thread's clients_copy
  seen,              \* on_ping: the value of clients_changed_ it read
  outer,             \* on_check_ping called stop() and holds cs_ around it
  departures,        \* history: how many sessions were erased from clients
  leftAt,            \* history: the number of the session's erasure, 0: none
  crashed,           \* the process was terminated
  caught             \* history: sessions whose shutdown() failed under `exit'

flags == <<started_, clients_changed_>>
code == <<clients, clients_cs, cs_, flags>>
asio == <<fresh, acceptor_, reading, writing, timers>>
locals == <<me, target, todo, seen, outer>>
thread == <<pc, locals>>
rest == <<departures, leftAt, crashed, caught>>
vars == <<code, asio, thread, rest>>

-----------------------------------------------------------------------------
(* Where a thread waits for a lock, and where it is once it has it.        *)

CsNext == [cp_cs |-> "cp_check", stop_cs |-> "stop_check",
           exit_cs |-> "exit_check", upd_cs |-> "upd_set"]

RegNext == [start_reg |-> "start_push", stop_reg |-> "stop_erase",
            upd_reg |-> "upd_copy", who_reg |-> "who_copy"]

\* do_write takes cs_ of its own session twice, holding nothing else.
WriteNext == [login_write |-> "upd_reg", ping_write |-> "ping_clear",
              write |-> "idle"]

CsWait == DOMAIN CsNext
CsHeld == {"cp_check", "cp_end", "stop_check", "exit_check", "upd_set"}
RegWait == DOMAIN RegNext
RegHeld == {"start_push", "stop_erase", "upd_copy", "who_copy"}
StopErased == {"upd_reg", "upd_copy", "upd_next", "upd_cs", "upd_set"}
StopPCs == {"stop_cs", "stop_check", "stop_reg", "stop_erase"} \union StopErased
PCs == CsWait \union CsHeld \union RegWait \union RegHeld \union DOMAIN WriteNext
         \union {"idle", "start_db", "read", "login", "ping", "ping_clear",
                 "reread", "upd_next", "who_next"}

Init ==
  /\ clients = {}
  /\ clients_cs = None
  /\ cs_ = [s \in Sessions |-> None]
  /\ started_ = [s \in Sessions |-> FALSE]
  /\ clients_changed_ = [s \in Sessions |-> FALSE]
  /\ fresh = Sessions
  /\ acceptor_ = TRUE
  /\ reading = [s \in Sessions |-> FALSE]
  /\ writing = [s \in Sessions |-> FALSE]
  /\ timers = [s \in Sessions |-> 0]
  /\ pc = [t \in Threads |-> "idle"]
  /\ me = [t \in Threads |-> None]
  /\ target = [t \in Threads |-> None]
  /\ todo = [t \in Threads |-> {}]
  /\ seen = [t \in Threads |-> FALSE]
  /\ outer = [t \in Threads |-> FALSE]
  /\ departures = 0
  /\ leftAt = [s \in Sessions |-> 0]
  /\ crashed = FALSE
  /\ caught = {}

-----------------------------------------------------------------------------
(* Steps every handler is made of.                                         *)

Goto(t, p) == pc' = [pc EXCEPT ![t] = p]

\* The handler is called for session s and begins at p.
Call(t, s, p) ==
  /\ pc[t] = "idle"
  /\ Goto(t, p)
  /\ me' = [me EXCEPT ![t] = s]
  /\ target' = [target EXCEPT ![t] = s]
  /\ UNCHANGED <<todo, seen, outer>>

\* The handler returns to io_context::run().
Finish(t) ==
  /\ Goto(t, "idle")
  /\ me' = [me EXCEPT ![t] = None]
  /\ target' = [target EXCEPT ![t] = None]
  /\ todo' = [todo EXCEPT ![t] = {}]
  /\ seen' = [seen EXCEPT ![t] = FALSE]
  /\ UNCHANGED outer

\* Mutant: the mutex does not count, the inner unlock releases it.
Unlock_NotRecursive(t, s) == cs_' = [cs_ EXCEPT ![s] = None]

\* Leaving a scoped_lock of cs_: an outer scoped_lock of the same thread on
\* the same recursive mutex keeps it locked.
Unlock(t, s) ==
  cs_' = [cs_ EXCEPT ![s] = IF outer[t] /\ s = me[t] THEN t ELSE None]

\* The call of stop() in on_check_ping returns.
Resume(t) ==
  /\ Goto(t, "cp_end")
  /\ target' = [target EXCEPT ![t] = me[t]]
  /\ todo' = [todo EXCEPT ![t] = {}]
  /\ outer' = [outer EXCEPT ![t] = FALSE]
  /\ UNCHANGED <<me, seen>>

\* stop() returns to on_check_ping when that called it, else the handler ends.
ReturnFromStop(t) ==
  \/ outer[t] /\ Resume(t)
  \/ ~outer[t] /\ Finish(t)

\* A scoped_lock of the cs_ of the session target[t] (a recursive mutex).
LockCs(t) ==
  /\ pc[t] \in CsWait
  /\ cs_[target[t]] \in {None, t}
  /\ cs_' = [cs_ EXCEPT ![target[t]] = t]
  /\ Goto(t, CsNext[pc[t]])
  /\ UNCHANGED <<clients, clients_cs, flags, asio, locals, rest>>

\* A scoped_lock of clients_cs.
LockClients(t) ==
  /\ pc[t] \in RegWait
  /\ clients_cs = None
  /\ clients_cs' = t
  /\ Goto(t, RegNext[pc[t]])
  /\ UNCHANGED <<clients, cs_, flags, asio, locals, rest>>

\* Mutant: the session is read from as if it were not stopped.
started_Always(s) == TRUE

started(s) == started_[s]

\* do_read: re-arms the timer, which leaves the cancelled wait's handler to
\* run as well, and starts the next async_read.  Needs cs_ for a moment.
do_read(s) ==
  /\ cs_[s] = None
  /\ timers' = [timers EXCEPT ![s] = @ + 1]
  /\ reading' = [reading EXCEPT ![s] = TRUE]

-----------------------------------------------------------------------------
(* Accepting a client.                                                     *)

\* CServer::do_accept calls start(), whose first statement is unlocked.
Accept(t, s) ==
  /\ acceptor_ /\ s \in fresh
  /\ Call(t, s, "start_reg")
  /\ acceptor_' = FALSE
  /\ fresh' = fresh \ {s}
  /\ started_' = [started_ EXCEPT ![s] = TRUE]
  /\ UNCHANGED <<clients, clients_cs, cs_, clients_changed_, reading, writing,
                 timers, rest>>

StartPush(t) ==
  /\ pc[t] = "start_push"
  /\ clients' = clients \union {me[t]}
  /\ clients_cs' = None
  /\ Goto(t, "start_db")
  /\ UNCHANGED <<cs_, flags, asio, locals, rest>>

\* The rest of start() and of do_accept: the database is open, the first read
\* is started and the next client can be accepted.
StartReading(t) ==
  /\ pc[t] = "start_db"
  /\ do_read(me[t])
  /\ acceptor_' = TRUE
  /\ Finish(t)
  /\ UNCHANGED <<code, fresh, writing, rest>>

\* start() only logs that the database did not open; ExecuteSelect then
\* returns nullptr and start() calls a virtual function through it.
StartDbFails(t) ==
  /\ pc[t] = "start_db" /\ "db_open" \in Faults
  /\ crashed' = TRUE
  /\ UNCHANGED <<code, asio, thread, departures, leftAt, caught>>

-----------------------------------------------------------------------------
(* on_read and the commands it dispatches.                                 *)

\* async_read completes: with an error on_read calls stop(), else it asks
\* started().
OnRead(t, s) ==
  /\ reading[s] /\ timers[s] < MaxTimers
  /\ \/ Call(t, s, "stop_cs")
     \/ Call(t, s, "read")
  /\ reading' = [reading EXCEPT ![s] = FALSE]
  /\ UNCHANGED <<code, fresh, acceptor_, writing, timers, rest>>

OnReadCommand(t) ==
  /\ pc[t] = "read" /\ cs_[me[t]] = None
  /\ IF started(me[t])
       THEN /\ \E p \in Commands : Goto(t, p)
            /\ UNCHANGED locals
       ELSE Finish(t)
  /\ UNCHANGED <<code, asio, rest>>

\* A command name on_read does not know: no answer and no further read.
OnReadUnknown(t) ==
  /\ pc[t] = "read" /\ cs_[me[t]] = None
  /\ started(me[t])
  /\ Finish(t)
  /\ UNCHANGED <<code, asio, rest>>

\* on_ipcam_event asks started() again and leaves a stopped session alone.
OnEventStopped(t) ==
  /\ pc[t] = "reread" /\ cs_[me[t]] = None
  /\ ~started(me[t])
  /\ Finish(t)
  /\ UNCHANGED <<code, asio, rest>>

Reread(t) ==
  /\ pc[t] = "reread"
  /\ do_read(me[t])
  /\ Finish(t)
  /\ UNCHANGED <<code, fresh, acceptor_, writing, rest>>

\* do_write does nothing for a session that is no longer started.
DoWrite(t) ==
  /\ pc[t] \in DOMAIN WriteNext
  /\ cs_[me[t]] = None
  /\ writing' = IF started(me[t]) THEN [writing EXCEPT ![me[t]] = TRUE]
                                   ELSE writing
  /\ IF pc[t] = "write"
       THEN Finish(t)
       ELSE /\ Goto(t, WriteNext[pc[t]])
            /\ UNCHANGED locals
  /\ UNCHANGED <<code, fresh, acceptor_, reading, timers, rest>>

\* The completion handler of async_write starts the next read, whatever the
\* error code and whether or not the session is started.
WriteDone(t, s) ==
  /\ pc[t] = "idle" /\ writing[s]
  /\ writing' = [writing EXCEPT ![s] = FALSE]
  /\ do_read(s)
  /\ UNCHANGED <<code, fresh, acceptor_, thread, rest>>

OnLogin(t) ==
  /\ pc[t] = "login" /\ cs_[me[t]] = None
  /\ Goto(t, "login_write")
  /\ UNCHANGED <<code, asio, locals, rest>>

OnPing(t) ==
  /\ pc[t] = "ping" /\ cs_[me[t]] = None
  /\ seen' = [seen EXCEPT ![t] = clients_changed_[me[t]]]
  /\ Goto(t, "ping_write")
  /\ UNCHANGED <<code, asio, me, target, todo, outer, rest>>

\* The flag is cleared after the answer was written, without cs_.
OnPingClear(t) ==
  /\ pc[t] = "ping_clear"
  /\ clients_changed_' = [clients_changed_ EXCEPT ![me[t]] = FALSE]
  /\ Finish(t)
  /\ UNCHANGED <<clients, clients_cs, cs_, started_, asio, rest>>

OnClientsCopy(t) ==
  /\ pc[t] = "who_copy"
  /\ todo' = [todo EXCEPT ![t] = clients]
  /\ clients_cs' = None
  /\ Goto(t, "who_next")
  /\ UNCHANGED <<clients, cs_, flags, asio, me, target, seen, outer, rest>>

\* username() of one session of the copy; after the last one, the answer.
OnClientsName(t) ==
  /\ pc[t] = "who_next"
  /\ \/ /\ \E s \in todo[t] : /\ cs_[s] = None
                             /\ todo' = [todo EXCEPT ![t] = @ \ {s}]
        /\ UNCHANGED pc
     \/ /\ todo[t] = {}
        /\ Goto(t, "write")
        /\ UNCHANGED todo
  /\ UNCHANGED <<code, asio, me, target, seen, outer, rest>>

-----------------------------------------------------------------------------
(* stop() and update_clients_changed().                                    *)

\* Mutant: stop() does not reset started_.
Stopped_NotReset(s) == started_

Stopped(s) == [started_ EXCEPT ![s] = FALSE]

\* stop() as the command exit, the read error and on_check_ping call it.
StopCheck(t) ==
  /\ pc[t] \in {"stop_check", "exit_check"}
  /\ Unlock(t, me[t])
  /\ \/ /\ started_[me[t]]
        /\ started_' = Stopped(me[t])
        /\ Goto(t, "stop_reg")
        /\ UNCHANGED locals
     \/ /\ ~started_[me[t]]
        /\ ReturnFromStop(t)
        /\ UNCHANGED started_
  /\ UNCHANGED <<clients, clients_cs, clients_changed_, asio, rest>>

\* sock_.shutdown() throws when the peer has reset the connection.  Nothing on
\* the stack of a read error or of on_check_ping catches it: the process ends
\* (its memory is not looked at any more and stays as it was).
StopThrows(t) ==
  /\ pc[t] = "stop_check" /\ started_[me[t]] /\ "shutdown" \in Faults
  /\ crashed' = TRUE
  /\ UNCHANGED <<code, asio, thread, departures, leftAt, caught>>

\* The command exit calls stop() inside on_read's try.  The catch makes an error
\* answer of the exception, which do_write leaves unsent for a stopped session;
\* the session is not taken off the list, and no later stop() does it.
ExitThrows(t) ==
  /\ pc[t] = "exit_check" /\ started_[me[t]] /\ "shutdown" \in Faults
  /\ Unlock(t, me[t])
  /\ started_' = Stopped(me[t])
  /\ caught' = caught \union {me[t]}
  /\ Goto(t, "write")
  /\ UNCHANGED <<clients, clients_cs, clients_changed_, asio, locals, departures,
                 leftAt, crashed>>

\* Mutant: the session is notified with the others and leaves the list later.
Without_NotYet(s) == clients

Without(s) == clients \ {s}

StopErase(t) ==
  /\ pc[t] = "stop_erase"
  /\ clients' = Without(me[t])
  /\ IF me[t] \in clients
       THEN /\ departures' = departures + 1
            /\ leftAt' = [leftAt EXCEPT ![me[t]] = departures + 1]
       ELSE UNCHANGED <<departures, leftAt>>
  /\ clients_cs' = None
  /\ Goto(t, "upd_reg")
  /\ UNCHANGED <<cs_, flags, asio, locals, crashed, caught>>

UpdateCopy(t) ==
  /\ pc[t] = "upd_copy"
  /\ todo' = [todo EXCEPT ![t] = clients]
  /\ clients_cs' = None
  /\ Goto(t, "upd_next")
  /\ UNCHANGED <<clients, cs_, flags, asio, me, target, seen, outer, rest>>

\* The loop over clients_copy: set_clients_changed() of one session after the
\* other, each under that session's cs_.
UpdateNext(t) ==
  /\ pc[t] = "upd_next"
  /\ \E s \in todo[t] : target' = [target EXCEPT ![t] = s]
  /\ Goto(t, "upd_cs")
  /\ UNCHANGED <<code, asio, me, todo, seen, outer, rest>>

\* Mutant: the loop does not go on to the next session.
Remaining_All(t) == todo[t]

\* Mutant: the loop ends after its first session.
Remaining_None(t) == {}

Remaining(t) == todo[t] \ {target[t]}

UpdateSet(t) ==
  /\ pc[t] = "upd_set"
  /\ clients_changed_' = [clients_changed_ EXCEPT ![target[t]] = TRUE]
  /\ todo' = [todo EXCEPT ![t] = Remaining(t)]
  /\ Unlock(t, target[t])
  /\ Goto(t, "upd_next")
  /\ UNCHANGED <<clients, clients_cs, started_, asio, me, target, seen, outer,
                 rest>>

UpdateDone(t) ==
  /\ pc[t] = "upd_next" /\ todo[t] = {}
  /\ ReturnFromStop(t)
  /\ UNCHANGED <<code, asio, rest>>

-----------------------------------------------------------------------------
(* on_check_ping, the handler of timer_, for expired and cancelled waits.  *)

\* Mutant: the handler runs although no wait was armed.
Armed_Always(s) == TRUE

Armed(s) == timers[s] > 0

OnCheckPing(t, s) ==
  /\ Armed(s)
  /\ timers' = [timers EXCEPT ![s] = @ - 1]
  /\ Call(t, s, "cp_cs")
  /\ UNCHANGED <<code, fresh, acceptor_, reading, writing, rest>>

CheckPing(t) ==
  /\ pc[t] = "cp_check"
  /\ \/ /\ Goto(t, "stop_cs")
        /\ outer' = [outer EXCEPT ![t] = TRUE]
     \/ /\ Goto(t, "cp_end")
        /\ UNCHANGED outer
  /\ UNCHANGED <<code, asio, me, target, todo, seen, rest>>

CheckPingEnd(t) ==
  /\ pc[t] = "cp_end"
  /\ Unlock(t, me[t])
  /\ Finish(t)
  /\ UNCHANGED <<clients, clients_cs, flags, asio, rest>>

-----------------------------------------------------------------------------
\* A handler that is running makes its next step.
Run(t) ==
  \/ LockCs(t) \/ LockClients(t)
  \/ StartPush(t) \/ StartReading(t) \/ StartDbFails(t)
  \/ OnReadCommand(t) \/ OnReadUnknown(t) \/ DoWrite(t)
  \/ OnEventStopped(t) \/ Reread(t)
  \/ OnLogin(t) \/ OnPing(t) \/ OnPingClear(t)
  \/ OnClientsCopy(t) \/ OnClientsName(t)
  \/ StopCheck(t) \/ StopThrows(t) \/ ExitThrows(t) \/ StopErase(t)
  \/ UpdateCopy(t) \/ UpdateNext(t) \/ UpdateSet(t) \/ UpdateDone(t)
  \/ CheckPing(t) \/ CheckPingEnd(t)

\* io_context::run() gives an idle thread a handler that is ready.
Dispatch(t, s) ==
  Accept(t, s) \/ OnRead(t, s) \/ WriteDone(t, s) \/ OnCheckPing(t, s)

\* The process ended, or every session of the model is used up and none has a
\* handler left to run.
Exhausted ==
  /\ \/ crashed
     \/ /\ fresh = {}
        /\ \A t \in Threads : pc[t] = "idle"
        /\ \A s \in Sessions : ~reading[s] /\ ~writing[s] /\ timers[s] = 0
  /\ UNCHANGED vars

Next ==
  \/ /\ ~crashed
     /\ \E t \in Threads : \/ Run(t)
                           \/ \E s \in Sessions : Dispatch(t, s)
  \/ Exhausted

Spec == Init /\ [][Next]_vars

\* A thread whose handler can go on infinitely often does go on (a mutex is
\* not withheld from one waiter for ever).  A handler that is ready infinitely
\* often when a thread is idle is run (io_context is a queue): those of timers
\* and writes always become ready, that of a read at the latest when stop() has
\* cancelled it or, where shutdown() failed, because the connection is gone;
\* nothing says that a client ever sends.
Ready(t, s) ==
  \/ WriteDone(t, s)
  \/ OnCheckPing(t, s)
  \/ ~started_[s] /\ OnRead(t, s)

Fairness ==
  /\ \A t \in Threads : SF_vars(~crashed /\ Run(t))
  /\ \A s \in Sessions : SF_vars(~crashed /\ \E t \in Threads : Ready(t, s))

FairSpec == Spec /\ Fairness

-----------------------------------------------------------------------------
(* Properties.                                                             *)

\* Types of the variables of the code, of asio's queues and of the threads.
TypeOK ==
  /\ clients \subseteq Sessions
  /\ clients_cs \in Threads \union {None}
  /\ cs_ \in [Sessions -> Threads \union {None}]
  /\ started_ \in [Sessions -> BOOLEAN]
  /\ clients_changed_ \in [Sessions -> BOOLEAN]
  /\ fresh \subseteq Sessions
  /\ acceptor_ \in BOOLEAN
  /\ reading \in [Sessions -> BOOLEAN]
  /\ writing \in [Sessions -> BOOLEAN]
  /\ timers \in [Sessions -> Nat]
  /\ pc \in [Threads -> PCs]
  /\ me \in [Threads -> Sessions \union {None}]
  /\ \A t \in Threads : pc[t] # "idle" => me[t] \in Sessions
  /\ target \in [Threads -> Sessions \union {None}]
  /\ \A t \in Threads : pc[t] # "idle" => target[t] \in Sessions
  /\ todo \in [Threads -> SUBSET Sessions]
  /\ seen \in [Threads -> BOOLEAN]
  /\ outer \in [Threads -> BOOLEAN]
  /\ departures \in Nat
  /\ leftAt \in [Sessions -> Nat]
  /\ crashed \in BOOLEAN
  /\ caught \subseteq Sessions

\* Thread t is blocked on a mutex that thread u owns.
WaitsFor(t, u) ==
  /\ t # u
  /\ \/ pc[t] \in CsWait /\ cs_[target[t]] = u
     \/ pc[t] \in RegWait /\ clients_cs = u

\* No group of handlers waits for each other's mutexes, although a session
\* whose ping check expired locks the other sessions while it is locked itself.
NoWaitCycle ==
  \A S \in (SUBSET Threads) \ {{}} : \E t \in S : \A u \in S : ~WaitsFor(t, u)

\* The next step of thread t needs a mutex that is not free for it, be it for a
\* section or for a moment (started(), do_read, do_write, username(), ...).
Blocked(t) ==
  \/ \E u \in Threads : WaitsFor(t, u)
  \/ /\ pc[t] \in {"start_db", "read", "reread", "login", "ping"}
                  \union DOMAIN WriteNext
     /\ cs_[me[t]] # None
  \/ /\ pc[t] = "who_next" /\ todo[t] # {}
     /\ \A s \in todo[t] : cs_[s] # None

\* While handlers run, one of them is not blocked.
SomeoneGoes ==
  (\E t \in Threads : pc[t] # "idle") =>
    \E t \in Threads : pc[t] # "idle" /\ ~Blocked(t)

\* A session is listed exactly while it is started, except inside start(),
\* inside the one stop() that is about to erase it, and for ever after an exit
\* whose shutdown() failed.
ListedIffStarted ==
  \A s \in Sessions :
    /\ s \in clients /\ ~started_[s] =>
         \/ s \in caught
         \/ \E t \in Threads : me[t] = s /\ pc[t] \in {"stop_reg", "stop_erase"}
    /\ s \in caught => s \in clients /\ ~started_[s]
    /\ started_[s] /\ s \notin clients =>
         \E t \in Threads : me[t] = s /\ pc[t] \in {"start_reg", "start_push"}

\* The inductive invariant behind NoWaitCycle and ListedIffStarted.

\* Who owns a mutex is a matter of where the threads are.
Holds(t, s) ==
  \/ outer[t] /\ me[t] = s
  \/ pc[t] \in CsHeld /\ target[t] = s

LockInv ==
  /\ \A t \in Threads, s \in Sessions : cs_[s] = t <=> Holds(t, s)
  /\ \A t \in Threads : clients_cs = t <=> pc[t] \in RegHeld

\* A thread leaves its own session's mutex only for those of its clients_copy.
CallInv ==
  \A t \in Threads :
    /\ outer[t] => pc[t] \in StopPCs
    /\ pc[t] \notin {"upd_next", "upd_cs", "upd_set"} => target[t] = me[t]
    /\ pc[t] \in {"upd_cs", "upd_set"} => target[t] \in todo[t]

\* The session was pushed on the list once.
Pushed(s) == s \in clients \/ leftAt[s] > 0

\* One session is in start() at a time, and no handler runs for a session that
\* start() has not listed yet.
StartInv ==
  /\ \A s \in fresh : ~Pushed(s) /\ ~started_[s] /\ \A t \in Threads : me[t] # s
  /\ \A s \in Sessions : reading[s] \/ writing[s] \/ timers[s] > 0 => Pushed(s)
  /\ \A t \in Threads :
       /\ pc[t] \in {"start_reg", "start_push"} =>
            /\ ~Pushed(me[t]) /\ started_[me[t]]
            /\ \A u \in Threads : me[u] = me[t] => u = t
       /\ pc[t] \notin {"idle", "start_reg", "start_push"} => Pushed(me[t])
       /\ pc[t] \in {"stop_reg", "stop_erase"} => ~started_[me[t]]

\* A thread that notifies the others while it keeps the mutex of its own
\* session has erased that session first, and the sessions it still has to lock
\* are listed or were erased after it.
LeaveInv ==
  /\ \A s \in Sessions : leftAt[s] <= departures
  /\ \A s \in clients : leftAt[s] = 0
  /\ \A t \in Threads :
       outer[t] /\ pc[t] \in StopErased =>
         /\ leftAt[me[t]] > 0
         /\ pc[t] \in {"upd_next", "upd_cs", "upd_set"} =>
              \A s \in todo[t] : leftAt[s] = 0 \/ leftAt[s] > leftAt[me[t]]

\* One thread at a time takes a session off the list, and finds it there.
StopInv ==
  \A t \in Threads :
    pc[t] \in {"stop_reg", "stop_erase"} =>
      /\ me[t] \in clients \ caught
      /\ \A u \in Threads :
           pc[u] \in {"stop_reg", "stop_erase"} /\ me[u] = me[t] => u = t

\* The lock order the code relies on and never states: on_check_ping may lock
\* the other sessions inside its own lock because stop() leaves the list first.
IInv ==
  /\ TypeOK /\ LockInv /\ CallInv /\ StartInv /\ LeaveInv
  /\ ListedIffStarted /\ StopInv

-----------------------------------------------------------------------------
(* What the handlers promise together (ClientList).                        *)

\* Where a session is between its acceptance and its removal.
Life(s) ==
  IF s \in fresh THEN "new"
  ELSE IF s \in caught THEN "stuck"
  ELSE IF s \in clients THEN IF started_[s] THEN "listed" ELSE "leaving"
  ELSE IF started_[s] THEN "arriving" ELSE "gone"

Leaves == {"stop_reg", "stop_erase"}
Owes == {"login", "login_write", "upd_reg", "upd_copy"}
Tells == {"upd_next", "upd_cs", "upd_set"}

\* What a thread has still to do about the list.
Duty(t) ==
  IF pc[t] \in Leaves THEN "leaves"
  ELSE IF pc[t] \in Owes THEN "owes"
  ELSE IF pc[t] \in Tells THEN "tells" ELSE "nothing"

Whom(t) == IF pc[t] \in Leaves THEN me[t] ELSE None
Telling(t) == IF pc[t] \in Tells THEN todo[t] ELSE {}

List ==
  INSTANCE ClientList WITH
    life <- [s \in Sessions |-> Life(s)],
    changed <- clients_changed_,
    duty <- [t \in Threads |-> Duty(t)],
    whom <- [t \in Threads |-> Whom(t)],
    telling <- [t \in Threads |-> Telling(t)]

\* The handlers of all threads together are ClientList: of the stops of one
\* session one removes it, or is an exit that leaves it stuck on the list, and
\* every login and departure is told to everyone who is on the list after it.
ImplementsClientList == List!Spec

\* Every handler returns, while the process lives: no thread of the pool is
\* lost to a lock.
HandlersFinish ==
  \A t \in Threads : pc[t] # "idle" ~> pc[t] = "idle" \/ crashed

\* No handler keeps the session object alive, and neither the list nor a copy
\* of it does, unless exit has left the session on the list.
Released(s) ==
  /\ ~reading[s] /\ ~writing[s] /\ timers[s] = 0
  /\ \A t \in Threads : me[t] # s
  /\ s \in clients \/ (\E t \in Threads : s \in todo[t]) => s \in caught

\* A stopped session is eventually destroyed: the read, the write and the
\* timers that hold a shared_ptr to it all come to an end, and the list gives it
\* up unless it was stopped by an exit whose shutdown() failed.
StoppedIsReleased ==
  \A s \in Sessions :
    (~started_[s] /\ s \notin fresh) ~> Released(s) \/ crashed

\* on_ping clears the flag of a client only after it told that client of the
\* change (the comment before the assignment says "we have notified client").
ClearedOnlyIfTold ==
  [][\A t \in Threads :
       pc[t] = "ping_clear" /\ pc'[t] = "idle" /\ clients_changed_[me[t]] => seen[t]]_vars

=============================================================================
