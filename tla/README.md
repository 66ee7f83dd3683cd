# TLA+ verification of CS_IpCameraServer

CS_IpCameraServer is a TCP server on boost::asio. Cameras send it events as
JSON, clients send it commands (`login`, `ping`, `who`, `get_last_event`,
`fibo`, `exit`); it remembers the last event of each camera, saves every event
of an active camera in an SQLite file, and drops clients that stay silent. A
pool of threads runs the handlers of all sessions. This directory holds TLA+
modules of the parts with state, the TLC configurations that check them, and
TLAPS proofs about each of them.

    cd tla
    tlc -config MCClientRegistry_locks.cfg MCClientRegistry.tla
    tlapm ClientRegistryProofs.tla

`PROJECT.json` lists the runs, the lines of the source that each definition
stands for, a mutant of the code for every checked property, the theorems and
the hazards of the code.

## 1. Inventory

| Component | Source | State | Operations | Module |
|---|---|---|---|---|
| Session: list and locks | `CClientSession.*` | global `clients` (mutex `clients_cs`); per session `cs_`, `started_`, `clients_changed_`, `username_` | `start`, `stop`, `on_read` and its commands, `set_clients_changed`, `update_clients_changed`, `on_check_ping` | `ClientRegistry`, `ClientList` |
| Session: reads, answers, timeout | `CClientSession.*` | `sock_`, `read_buffer_`, `write_buffer_`, `timer_`, `last_ping_` | `do_read`, `do_write`, `post_check_ping`, `on_check_ping`, `on_fibo`, `do_get_fibo` | `SessionIO` (time), `Requests` (bytes, fibo), `Conversation` |
| Server | `CServer.*` | acceptor, thread pool, the shared `CBusinessLogic` | constructors, `Start`, `do_accept`, `start_listen` | `ClientRegistry` (accept chain, pool), `Startup` (constructor, number of threads, a failing accept) |
| Business logic | `CBusinessLogic.*` | `lastIpCamEvents_` (shared_mutex), `knownIpCameraList_` (no lock) | `setLastIpCamEvent`, `getLastIpCamEvent`, `CreateOrUseDb` | `EventStore`, `EventLog`; `Startup` (`CreateOrUseDb`) |
| Known cameras | `DAO/CKnownIpCameraList.*` | `activeCameras_` | `setActive`, `isActive` | `EventStore` |
| Event path | `CClientSession.*` | `db_mtx_`, posted tasks | `on_ipcam_event`, `do_process_ipcam_event` | `EventStore` |
| SQLite wrapper | `CSQLiteDB.*` | connection, statement handle, open transaction | `OpenConnection`, `Execute`, `ExecuteSelect`, `Next`, `ReleaseStatement`, `IntegrityCheck`, `BackupDb` | `SqliteConn`, `DbCalls` |
| JSON | `CJsonParser.*`, `DAO/SIpCameraEvent.hpp` | none | parsing, building of answers | `Requests` (what is accepted and refused) |
| Configuration | `CConfig.*` | key bindings, status | load, check, rewrite the settings file | `Startup` |
| Start-up, service | `main.*`, `Service.*` | globals, service status | `main` in two passes, `TestSqlite3Settings`, control handler | `Startup` |
| Vendored | `include/`, `libs/` | | boost, glog, sqlite3, INI reader | external |

How they interact. `CServer` creates a session, accepts a client into it, calls
`start()` and accepts the next. From then on a session lives from one
asynchronous operation to the next: `async_read` calls `on_read`, which answers
with `async_write` (whose completion calls `do_read`) or calls `do_read` itself.
Every `do_read` re-arms the timer. `shared_from_this()` in each handler keeps
the session alive; the list `clients` is the other owner. Sessions meet in four
places: the list, the `clients_changed_` flags they set in each other, the
shared `CBusinessLogic`, and the database file.

What is hard about it:

* There are no strands. Handlers of one session run at the same time on several
  threads (a read, a write, one or more timer handlers, posted tasks); mutexes
  protect parts of the state only.
* `on_check_ping` calls `stop()` while it holds the session's mutex; `stop()`
  takes the mutex of the list and those of the other sessions.
* A handler of a cancelled timer wait cannot be told from one that expired.
* Camera events are posted one by one, and run on any thread in any order.
* Every session has its own database mutex, but they share the business logic.
* SQLite calls find the database busy and are retried; every step of a
  transaction may fail.
* TCP cuts and joins what clients send; `on_read` takes each read for a message.
* A Fibonacci request takes a thread of the pool for as long as its loop runs.
* A Windows service runs `main` twice on two threads; settings file and database
  outlive the process, which may end anywhere.

What makes each component correct:

* **List and locks**: no deadlock; a session is listed exactly while it is
  started; it is stopped once; a stopped session is released; a change of the
  list reaches every client; no failure of one client ends the server. (An exit
  whose `shutdown()` fails breaks the second and the fourth for its session.)
* **Session I/O**: one read at a time and one write at a time; no message
  leaves the session deaf; a silent client is dropped, an active one is not.
* **Events**: only events of cameras that a query found active are kept, and all of
  those; the event in memory is the last in the table; what clients are told is saved;
  every event is handled, unless BEGIN fails for ever.
* **Requests**: no command runs twice, out of order or from pieces of two reads;
  a read is executed or answered; a Fibonacci answer is right, and computations
  leave the pool to the others as long as a thread is free.
* **SQLite wrapper**: handles, locks and transactions are released on every
  path; what is reported is what is durable; calls return.
* **Configuration and start-up**: a server that accepts clients has its tables,
  a thread and settings that were checked; every start decides; refused
  settings are replaced by accepted ones, good ones are kept.

## 2. Modules

### ClientRegistry

A program counter per pool thread. The values are named
`<function>_<point>`: `stop_cs` is "inside `stop()`, about to take `cs_`",
`upd_set` is "inside `set_clients_changed` with the other session's `cs_`". A
lock that is taken while another one is held, or that protects `clients`, is
taken in one step (`LockCs`, `LockClients`); the section and the release are the
next. A section under `cs_` alone is one step that needs the lock to be free.
`outer` says that `on_check_ping` is the caller of `stop()`, which is what makes
the mutex recursive here: the inner unlock keeps it (`Unlock`), and the return
goes back to `on_check_ping` (`ReturnFromStop`).

| Code | Actions |
|---|---|
| `CServer::do_accept`, `start` | `Accept`, `StartPush`, `StartReading`, `StartDbFails` |
| `on_read` | `OnRead`, `OnReadCommand`, `OnReadUnknown` |
| `on_fibo`, `on_ipcam_event`, empty message | `Reread`, `OnEventStopped` |
| `do_write` and its completion | `DoWrite`, `WriteDone` |
| `on_login`, `on_ping`, `on_clients` | `OnLogin`, `OnPing`, `OnPingClear`, `OnClientsCopy`, `OnClientsName` |
| `stop` | `StopCheck`, `StopThrows`, `ExitThrows`, `StopErase` |
| `update_clients_changed` | `UpdateCopy`, `UpdateNext`, `UpdateSet`, `UpdateDone` |
| `on_check_ping` | `OnCheckPing`, `CheckPing`, `CheckPingEnd` |

Abstractions: the vector is a set (a session is pushed once), so the loop over a
copy visits the sessions in any order, which includes the order of the vector;
the timer may find the session expired whenever it runs; a read may fail at any
time; user names and texts are left out. Where nothing catches a fault the process
is gone (`crashed`) and nothing moves. `shutdown()` in `stop()` is such a fault when
a read error or the timer stops the session (`StopThrows`). When the command `exit`
does, `stop()` runs inside the `try` of `on_read`: the exception is caught, the error
is not written because the session is no longer started, and the process goes on
with a session that is on the list for ever (`ExitThrows`), since every later
`stop()` of it returns at once. `caught` is the history of these. Two more history
variables number the departures from the list; the code has nothing like them, the
invariant needs them.

`ClientList` is the promise of the list, without mutexes, program counters, reads
and timers: a session arrives, joins and leaves once; a thread that made it leave,
or let it log in, owes the news, looks at the list after the change, and is done
when everyone it found there was told. One way of leaving ends differently: a session
may be stuck on the list, with nobody told (`Stick`). `ClientRegistry!ImplementsClientList` maps the
program counters to it: a session is "leaving" from `started_ = false` to the
`erase` (`Life`), a thread "tells" while it is in the loop over its copy (`Duty`,
`Telling`). That several `stop()`s of one session remove it once, and that a copy is
never older than the change it reports, are what the refinement adds to
`ListedIffStarted`.

### SessionIO

One session over time, in milliseconds. The state holds the operations that are
outstanding (reads, answers, fibo tasks and their writes), the time left until
`timer_` expires, the timer handlers that are ready (by how long they wait), and
the age of `last_ping_`. All are ages or rests, so the clock has no bound. A
handler is one step. `OnMessage` has one disjunct per kind of message: answered,
fibo, read on at once, unknown, exit. `readAges` (when `do_read` was called) and
`lastRead` (its last call) are history.

`Latency` is how long a ready timer handler may wait for a thread. The code
never bounds it; what it tolerates is one millisecond, the `- 1` of
`maxTimeout_ - 1`. Expiry times are compared at the resolution of the code
(`total_milliseconds`).

### EventStore and EventLog

One task per event, from `on_ipcam_event` to the end of
`do_process_ipcam_event`: queue of the pool (`Dispatch`), `db_mtx_` (`Lock`),
`setActive` (`Select` prepares the query and clears the list, `First` reads the table,
`Fill` and `FillEnd` are the loop), `isActive`, `setLastIpCamEvent`, `INSERT`; and
`on_get_last_event` of any session. Each access to the unlocked list is a step of
its own. A race on a `std::list` may do worse than interleave; the corrupted list
is left out, so what is refuted here is refuted already by interleaving alone, and
what holds here holds for executions in which the list stays intact.

The table of active cameras changes while the server runs (`Administer`; nothing in
the code writes it). A query that fails at once leaves the list as it was, which may
name a camera that was deactivated since. `read` is history: what each event's query
saw; `unread`: whose query failed at once. `OnlyActiveStored` says by which of them an
event was admitted (`Admitted`).

`Insert` is `Execute`, of which `SqliteConn` has the detail. It waits while BEGIN fails
(`blocker`): another process has the database, the file cannot be written
(`FileRefuses`), or a failed COMMIT left a transaction open, on this connection or on
another one. The task then keeps `db_mtx_` and its thread. `Unblock` is the end of it,
which need not come; an open transaction ends only with its session, and not while a
task of it is waiting. A COMMIT that fails is reported as success, and the row is not
there (`unsaved`).

`EventLog` is the promise without sessions, mutexes, threads, queries and list: an
event is skipped, or shown as the last one of its camera, if a query ever found that
one active, and then saved or lost, and in between no other event of that camera is shown, if the camera is serial. Serial
are the cameras that one session delivers (`EventStore!Serial`): `db_mtx_` is a
mutex of the session, so two tasks of a camera that came over two connections may be
between memory and table at once, and nothing in the code prevents a camera from
connecting twice. `EventStore!ImplementsLog` is the refinement: an event is "shown"
while its task is between `SetLast` and `Insert`. Skipping is unrestricted in
`EventLog`, since `ActiveNotSkipped` does not hold of the code (run `race`).

### SqliteConn

Several connections on one file. `open` is `isConnected()`, `stage` the statement
a call is at (BEGIN, the statement, COMMIT, or a query), `op` whether it is
prepared or stepped, `n` the attempts. SQLite is external: one exclusive writer
or any number of readers, BUSY for the others, failures named in `Faults`, and
the automatic rollback it documents for some of them. `PrepareSql` and `StepSql`
share `Retry`; `GiveUp` is what each caller does with a failure.

`handles` counts what SQLite has not finalized. `PrepareOk` makes one more and
overwrites `pStmt`; no preparation releases anything. `ReleaseStmt` is a part of each
path on which the code calls it: `Begin`, `BeginAgain`, `Statement`, `EndAfterFailure`,
`Commit`, `NoCommit`, `NextFails`, and the caller's `ReleaseStatement` after the last
row (`NextEnd` alone releases nothing). `LeaveStatement` is the return of `setActive` for
a result that has not one column: it leaves the handle behind (`left`). The SELECT of
today has one column, so the fault "columns" is that of a changed query.

`lost` is history: the
calls whose COMMIT failed, which `Execute` does not report. `Held` are the connections
that were left with their transaction by such a failure.

`DbCalls` is the promise: a call takes effect at once with its report, or reports a
failure and leaves nothing, or is lost with its COMMIT; and as long as a connection is
held, no call is done. `SqliteConn!ImplementsDbCalls` is the refinement: BEGIN, retries,
statement handles and locks are hidden, the effect is the COMMIT.

### Startup

One installation over any number of starts. What lasts: the settings file, the
database file and its tables. A start goes through `main` (`Main`), `CConfig::Load`
(`Load`, `Save`, `Write`, `InitGlog`), `service_register` (`Register`), `CreateOrUseDb`
(`OpenDatabase`, `CreateTables`), `TestSqlite3Settings` (`Check`) and the constructor
of `CServer` (`Listen`). A start by Windows' service control manager continues in
`ServiceMain`, which runs `main` again on a thread of its own, while the dispatcher
of the first pass waits (`DispatcherReturns`) for `ControlStop`. `running_from_service`
is the variable of `main.cpp` that tells the passes apart.

Settings are what the check tells apart (all keys there and positive, or not)
with the number of threads, which `Threads` cuts to a `short` the way the casts in
`main.cpp:79` and the member `thread_num_` do. A missing file reads like an empty
one: both are refused and replaced. From outside come faults (`Fault`), kills, edits
of the settings at any time, and databases replaced, damaged or protected between
starts, `MaxTroubles` of them in all.

A table is made by an `Execute` of its own (`CreateTable`). The statement may fail,
which is reported and ends the start after the second table; COMMIT may fail
(`CommitFails`), which is not: the start goes on and the server serves without that
table (`lost`, history). When the failed COMMIT of the first table leaves the
transaction open (`inTx`), the second `Execute` begins for ever; after the second table
the transaction ends with `tmpDb`. A file that is no database or may not be
written is opened and then fails at the first BEGIN in the same way (`CannotBegin`,
`BeginFails`).

`pc = "serve"` is the server at work, which the other modules describe.

### Requests

The client sends commands; `stream` is their bytes on the way, each command two
tokens (so that a read can end inside it), with a line feed or a NUL behind it or
nothing. `Receive` moves any number of them into `read_buffer_`. `OnRead` is the whole
handler: `Kept` is `strlen` and the filter of line feeds, `IsCommand` the parse,
`Refused` what `CJsonParser` throws for, `Dispatch` the chain of commands. `queue` is the
queue of `io_context`; a thread that computes (`running`) takes nothing from it.
`do_get_fibo` is a step per iteration, in arithmetic modulo `W` with `i` included: for
`n = W - 1`, which the text `-1` is converted to, `i <= n` never fails. (Other huge
`n` end after centuries; the model has the one that does not.) `Parsed` is `in >> n`: an
empty text leaves `n` uninitialised, hence any value. `got` is history: what the
read brought, so that it can be compared with what the buffer holds.

The reference is the constant `Fib`, which `FibAssumption` characterises by the
recurrence. The code's numbers are 1, 1, 2, 3, ...; the commented line before the loop
(`CClientSession.cpp:288`) would give 1, 2, 3, 5, ....

`Conversation` is the promise to the client, without bytes, buffer, queue and threads.
Client and session take turns: the client's turn lasts until a read ends; the session
executes one command, later than all before it, or none, and then answers, gives the
turn back, or says no more (`exit`, an unknown command, an error). A Fibonacci request
gives the turn back and is owed a number, which is told once, at any time while the
session lasts, and never if it is the largest `n`. `Requests!ImplementsConversation` reads the
turn off the outstanding operations and the queue (`turn`), and what is owed off the
posted and running computations (`owed`). That a computation posted once cannot answer
twice, nor for another command, is what it adds to `FiboCorrect`; that after
every handler it is exactly one side's turn is what it adds to `ExecutedOnce`.

### Proof modules

`<module>Proofs` for each of `ClientRegistry`, `SessionIO`, `EventStore`, `SqliteConn`,
`Startup` and `Requests`, and `ClientListProofs` and `ConversationProofs` for the
refinements of `ClientList` and `Conversation` (section 5). The `MC` modules hold
symmetry sets and the values that a `.cfg` cannot express.

## 3. Runs

| Run | Checks | What it shows |
|---|---|---|
| `locks` | `NoWaitCycle`, `TypeOK`, `ListedIffStarted`, `ImplementsClientList` | no deadlock, list and flags agree, every change reaches who is listed; 2 sessions, 3 threads, all commands, a failing `shutdown()` and database |
| `live` | `HandlersFinish`, `StoppedIsReleased` | no thread is lost; stopped sessions are destroyed, but those that a failed exit leaves on the list |
| `timer` | `TypeOK`, `OneReadChain`, `DroppedInTime`, `DeafOnlyIfUnknown`, `DroppedOnlyIfSilent`, `IdleIsDropped` | reads and timeout of one session, all messages |
| `feeds` | `TypeOK`, `OnlyActiveStored`, `MemoryMatchesTable`, `ToldIsSaved`, `EventsHandled`, `ImplementsLog` | events of 3 cameras over 2 sessions, one camera over both, 2 threads, an edit of the active cameras, every failure; the store implements the log |
| `calls` | `TypeOK`, `StatementsReleased`, `TransactionClosed`, `ReportedIsDurable`, `FailedIsAbsent`, `CallsReturnUnlessHeld`, `ImplementsDbCalls` | contention, failing BEGINs, statements, COMMITs and queries; the connections implement calls that take effect at once |
| `starts` | `TypeOK`, `ServesReady`, `SilentOnlyIfTooMany`, `UsableKept`, `Heals`, `StartDecides` | any starts of one installation, both builds, up to four faults, edits and kills |
| `bytes` | `TypeOK`, `ExecutedOnce`, `AloneExecuted`, `FiboCorrect`, `ImplementsConversation`, `ReadAnswered`, `Served`, `FiboAnswered` | two commands in any pieces; Fibonacci requests on two threads with numbers of 3 bits; the whole implements the conversation |
| `told` | `ClearedOnlyIfTold` violated | a lost notification |
| `zombie` | `IdleIsDropped` violated | a silent client that stays |
| `writes` | `WritesExclusive` violated | two writes on one socket |
| `race` | `ActiveNotSkipped` violated | an event lost to the shared list |
| `stuck` | `CallsReturn` violated | BEGIN repeated for ever |

What the violated ones are:

* `told` (`CClientSession.cpp:240`): `on_ping` reads the flag under the lock,
  writes, and clears the flag without the lock. A change in between is never
  reported to that client, though the comment says it was notified.
* `zombie` (`CClientSession.cpp:276`): message, re-arming; the cancelled wait's
  handler runs 2 ms late and renews `last_ping_`; the client goes silent; at
  expiry the delay is `maxTimeout_ - 2`, so the handler renews `last_ping_`
  again and nobody arms the timer. With handlers at most 1 ms late this
  cannot happen (run `timer`, and a proof for every timeout).
* `writes` (`CClientSession.cpp:414`): a fibo task writes while another answer of
  the session is being written, over the same buffer; asio forbids it.
* `race` (`CBusinessLogic.cpp:14`): one session empties the list between the
  `setActive` and the `isActive` of another.
* `stuck` (`CSQLiteDB.cpp:108`): COMMIT fails, its result is ignored, the
  transaction stays open, and the next BEGIN fails for ever.

A sixth defect has no run, since what it breaks is named as an exception in the
properties of `locks` and `live`: after an `exit` whose `shutdown()` fails
(`CClientSession.cpp:67`, caught at 198; the peer has reset the connection) the session
stays in `clients` for ever, is named to whoever asks `who`, and nobody is told that it
left (`ExitThrows`; `s \in caught` in `ListedIffStarted`).

Three ends of the process have no run of their own, since nothing moves after
them: `shutdown` throws for a session that a read error or the timer stops, and
neither `on_read` (line 110 is outside its `try`) nor the thread function of the pool
catches it (`StopThrows`); a database that does not open when a client is accepted is
logged and then used through a null result (`CClientSession.cpp:40`, `StartDbFails`); an
accept that fails ends the server by `CHECK` (`Startup!AcceptFails`). All three are
steps of passing runs.

Cases that properties name as exceptions are worth knowing, too:

* A file that is no database or may not be written holds the start for ever, and so
  does a sound one after the COMMIT of the first table failed with its transaction
  open (`StartDecides`).
* The server serves without a table whose COMMIT failed (`ServesReady`).
* 65536 threads are none, and the server leaves in silence (`SilentOnlyIfTooMany`). A
  service whose control handler cannot be registered ends as quietly (a `VLOG(1)`), and
  before the manager was told that it runs; that end the property leaves out.
* Settings that the user saves while a start runs may be overwritten (`UsableKept`).
* A command behind a NUL in the same read is dropped without an answer
  (`ReadAnswered`).
* As many endless Fibonacci requests as there are threads stop the server for
  everybody (`Served`).
* A task whose BEGIN fails for ever keeps its thread and its session's `db_mtx_`, and
  the later events of that camera wait for it (`EventsHandled`).
* An event may be admitted by the list of another session's query, or, when its own
  query failed at once, by an old list (`OnlyActiveStored`).
* A message that is read while the expired timer's handler waits for its thread does
  not save its client (`DroppedOnlyIfSilent`, within `Latency`).

## 4. Bounds and fairness

**Bounds.** `MaxTimers` limits the timer handlers of a session that are pending at
once: one is enough for a handler of a cancelled wait to run beside a read and a
write, and three threads give the longest chain of waiting the proof speaks of
(waiter, the session that leaves, one that left later). Two sessions are enough for
two that expire together; the deadlock result is proved for all numbers. `live` uses
two commands, `login` (notifies everybody without stopping) and `exit`: with the
timer they make every path through `update_clients_changed`. A timeout of 4 ms
leaves room for a read after half of it; the proofs are for every timeout.
`MaxReady` limits handlers that become ready within one millisecond, `MaxFibo` the
fibo tasks. Two events are
enough in `feeds`: each property relates an event to one other (the query that filled
the list it is checked by, the row before its own, the task it waits for), and the
four feeds let the two be of one session or of two, of one camera or of two. One edit
of the table deactivates or activates a camera between the two queries. `MaxCalls` ends the contention: without it one connection could find
the database busy for ever, since no lock of SQLite is fair. `Attempts` is 2 (200 in
the settings): one retry and giving up. COMMIT may fail in `calls`: the properties
name the calls that it loses as their exception, `CallsReturn` is left to `stuck`,
and one call after a failing one is enough to meet what it left, a transaction, a
handle or a lock (three calls of each connection are too many for TLC). Four troubles in
`starts` are enough to edit the settings, to fail their replacement twice and to
damage the database, or to fail both COMMITs of two starts; the numbers of threads include one, none and those a `short`
cuts to a negative one and to 0. Two commands in `bytes` give every way to cut and
join a command with the rest of another; two requests take both threads, and the
handler of another session (`MaxOthers`) has to wait for them. `W = 8` makes a
Fibonacci number overflow (the 6th is 0). `BufferSize` exceeds what was sent: a read
that fills the buffer leaves `strlen` without an end and is left out. The text that
leaves `n` uninitialised is not in the instance, only in the proof.

**Fairness.** A thread whose handler can go on infinitely often does go on
(strong: a mutex does not starve one waiter). A handler that is ready is run
(`io_context` is a queue). Nothing is assumed of the client: no read has to
complete unless the session is stopped, which cancels it. The clock runs. For
SQLite, a call goes on, a query comes to its last row, and a statement that may be
prepared and a BEGIN that may succeed do not fail for ever; contention ends by
`MaxCalls`. In `EventStore` nothing is assumed of `Unblock`: `EventsHandled` asks for it in
its premise. In `Startup` the
process goes on, the dispatcher returns when it may, and whoever starts the
server starts it again (a user, or the manager's restart); nothing is assumed of
users, faults or kills, whose number is bounded. In `Requests` free threads
handle the queue in its order, as `io_context` does, and each computation goes on
(its thread is scheduled); nothing is assumed of the client, TCP or other
sessions.

**Deadlock checking** is on in every run but `bytes`: there the session may end
and the client stop sending, and nothing is left to do. `Exhausted` and `Finished`
are the states in which the other models are used up (all sessions served, all
events handled) or the process is gone.

## 5. Proofs

Every theorem is about `Spec`, without fairness, and for all values of the
constants. The proofs assume the named `ASSUME`s of the modules (types of the
constants, `None` outside the sets, the recurrence of `Fib`) and nothing else, but
for the three theorems on the timer, which assume `Latency <= 1` by name: with a
larger latency `zombie` refutes what they say, so that is the condition under which
the code is right, and the run `timer` satisfies it.

`ClientRegistryProofs`, for any finite or infinite sets of sessions and threads:

* `Invariance`: `Spec => []IInv`. `IInv` joins `TypeOK`; `LockInv` (who owns a
  mutex is exactly a matter of program counters); `CallInv` (a thread inside
  `stop()` leaves its own session only for those of its copy); `StartInv` (one
  `start()` per session, nothing runs for a session before it is listed);
  `StopInv` (at most one of the `stop()`s of a session is between `started_ = false`
  and the `erase`, and none after an exit that failed); `LeaveInv` (departures are numbered, and a thread that notifies
  from inside `on_check_ping` has erased its session and holds a copy of sessions
  that are listed or left later); `ListedIffStarted`.
* `TypeCorrect`, `ListedCorrect`: parts of it.
* `NoDeadlock`: `Spec => []NoWaitCycle`. In a group of threads that wait for
  each other every owner is a thread that keeps its own session locked from
  `on_check_ping` while it notifies; what it waits for is a session that left
  later than its own (`OwnerIsLeaving`). The one whose session left last
  (`NatMax`) can wait for nobody. This is the order of locks that the code
  relies on and states nowhere: `stop()` must leave the list before it copies
  it (the mutant of `NoWaitCycle` leaves the session on the list).
* `PoolGoesOn`: `Spec => []SomeoneGoes`. `NoWaitCycle` speaks of mutexes taken for a
  section; handlers also take one for a moment (`started()`, `do_read`,
  `username()`). A handler that is blocked in any way is blocked by one that runs
  (`BlockedOwnerWaits`), so if all were blocked, the blockers would wait for each
  other.

`ClientListProofs`: `Refinement`, `Spec => ImplementsClientList`, with a lemma per
action that names its step in `ClientList` or shows that it stutters. It needs
`StopInv` (a second `stop()` of a session is not a second departure), `LeaveInv` (what a
copy may hold) and `ListedIffStarted`.

`SessionIOProofs`, for every timeout and every set of message kinds:

* `TypeCorrect`, `ReadChainCorrect` (`OneReadChain`) and `DeafCorrect`
  (`DeafOnlyIfUnknown`), for every latency.
* `TimerCoversCorrect`, `DroppedCorrect`, from `TimerInv`: `last_ping_` is at most a
  millisecond younger than the armed wait, all ready handlers belong to waits from
  before it, and every read renews `last_ping_` through one of them.
* `InTimeCorrect` (`DroppedInTime`), from `TimerInv` and `ReadInv`: the armed wait is that
  of the last `do_read`, and once it is over the handler that saw it end is ready.
  It is the bounded, provable form of the liveness property `IdleIsDropped`.

`EventStoreProofs`, for any sessions, cameras, threads, events and faults:

* `Invariance`: `IInv` joins `LockInv` (a task past `Lock` owns its session's
  mutex), `QueryInv` (what a query still has to return it saw), `ListInv` (every camera
  on the shared list was seen active by a query; since a task cleared the list, by its
  own query or by one of another session), `FateInv` (an event that was remembered is
  saved, lost or about to be one of both) and `OrderInv` (of a serial camera, an event
  on its way to the table is the last one; else the last one is the last row).
* `TypeCorrect`, `OnlyActiveCorrect`, `ToldCorrect`, `MemoryCorrect`: parts and
  consequences of it.
* `Refinement`: `Spec => ImplementsLog`, step by step. Nothing is assumed of which
  sessions deliver which cameras; what needs `db_mtx_` is stated, in `EventLog` as in
  `MemoryMatchesTable`, for the cameras that one session delivers.

`SqliteConnProofs`, for any connections, attempts, calls and faults, a failing
COMMIT included:

* `Invariance`: `StatementInv` (a statement that is stepped, or at the end of its rows,
  is the one handle besides those that `setActive` left), `LockInv` (an open
  transaction is the exclusive lock; a shared lock belongs to a query), `CallInv` (the statement of the current call has
  not run before its stage, and never runs once it failed) and `TxInv` (what an open
  transaction holds is the current call's, or is that of a lost call; a connection
  that is idle in a transaction lost its last call).
* `TypeCorrect`, `StatementsCorrect`, `FailedCorrect`, `TransactionCorrect`,
  `DurableCorrect`: parts and consequences of it.
* `Refinement`: `Spec => ImplementsDbCalls`.

`StartupProofs`, for any settings of users, faults, builds and any amount of
trouble: `Invariance`, from `PassInv` (the dispatcher exists exactly in the second
pass, and its service is marked), `SettingsInv` (the settings in use are those
that were checked) and `MadeInv` (which tables a start has made so far, but for those
whose COMMIT failed), and from
it `TypeCorrect`, `SecondPassCorrect` (the second pass of a service neither loads the
settings nor registers; proved only, no run lists it), `ReadyCorrect`, `SilentCorrect` and
`UsableCorrect`. `ThreadsFit` is the lemma about the width.

`RequestsProofs`, for any commands, terminators, threads, bounds and any `W > 3`:

* `Invariance`: `ChainInv` (one read or one write at a time, so the read buffer has
  one user), `StreamInv` (what is on its way is in order and after what was
  executed), `BufferInv` (a read that waits for its handler left its bytes and
  zeroes behind them), `FiboInv` (a computation has the two numbers before its
  `i`-th, or no end).
* `TypeCorrect`, `OnceCorrect`, `AloneCorrect`, `FiboNumbersCorrect`, `AnsweredCorrect`.

`ConversationProofs`: `Refinement`, `Spec => ImplementsConversation`, a lemma per action. It
uses `ChainInv` (that it is somebody's turn, and only one's) and adds `OwedInv`: a
Fibonacci request that is posted, computed or told was executed, and is only once in
the queue, on the threads and among the answers together. An answer therefore ends
what was owed, and no second one is to come.

TLC can evaluate the inductive invariants as well: `IInv` and `SomeoneGoes` of
`ClientRegistry`, `TimerInv` and `ReadInv` of `SessionIO` are definitions of the modules
and need only be named in a `.cfg`; those of the other modules stand at the head of
their `Proofs` module. None is a property of a run: what they imply is.

Only model-checked: liveness (`HandlersFinish`, `StoppedIsReleased`,
`IdleIsDropped`, `EventsHandled`, `CallsReturnUnlessHeld`, `Heals`, `StartDecides`,
`Served`, `FiboAnswered`): fairness and ENABLED are beyond the prover. That
`Fib` exists is the recursive function of `MCRequests`, used by TLC, since induction
over data is beyond it, too.

## 6. Not modelled

* The texts: answers (`buildAnswer`), the fields of an event, SQL, user names, log
  lines, the options of logging.
* A read of `MAX_READ_BUFFER` bytes, which leaves the buffer without a terminator.
* The state of a `std::list` or a `bool` that a race corrupts: races are
  interleavings here.
* `BackupDb`, which nothing calls; the columns of a row; the handle that a failed
  `sqlite3_open_v2` leaks (`CSQLiteDB.cpp:70`).
* The port's width (cut like the number of threads, but any port is one).
* Order of arrival: with more than one thread two events of a session may be
  processed in either order, so the last event in memory is the last one
  processed, not the newest.
* What SQLite recovers after a crash; boost, glog and the INI reader. The vendored
  libraries are all but about 2400 of the 2.6 million lines of the repository; a
  share of covered lines that counts them says nothing about the server.

## 7. What could follow

1. The installation as its user sees it (refused, serving, stopped, healed), with
   `Startup` shown to implement it.
2. `SessionIO` and `Requests` describe one session from two sides (its clock, its
   bytes); that the chain of reads and writes of the one is that of the other is read
   off the two modules and not proved.
