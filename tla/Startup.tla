------------------------------- MODULE Startup -------------------------------
(***************************************************************************)
(* One installation of the server over its starts: the settings file that  *)
(* CConfig loads, checks and replaces, main's two passes (console or       *)
(* Windows service), the preparation of the database, the pool of threads  *)
(* and the end of the process.                                             *)
(*                                                                         *)
(* A Windows service runs main twice.  The first pass loads the settings   *)
(* and becomes the dispatcher of the service; the second one, on the       *)
(* service's thread, serves with those settings.  A start that is refused  *)
(* ends after it has written the default settings.                         *)
(*                                                                         *)
(* Trouble is what may happen from outside at any time: the user edits the *)
(* settings, the process is killed, a call of the system fails.            *)
(***************************************************************************)
EXTENDS Integers

CONSTANTS UserSettings,  \* settings a user may write
          Builds,        \* "linux", "windows"
          Faults,        \* the failing calls considered (AllFaults)
          MaxTroubles    \* bound: faults, edits and kills

\* "open": the settings file cannot be opened for writing, "full": nor filled;
\* "logdir", "register", "database", "table", "listen", "accept": the calls that
\* end the start or the server; "commit": that of a table's transaction.
AllFaults == {"open", "full", "logdir", "register", "database", "table", "commit",
              "listen", "accept"}

\* Settings by what the check tells apart: whether all keys it asks for are there
\* with positive numbers (but the number of threads, which is given).
Settings == [complete : BOOLEAN, threads : Int]
Emptied == [complete |-> FALSE, threads |-> -1]  \* a missing file is read like it
Defaults == [complete |-> TRUE, threads |-> 4]
Written == UserSettings \union {Emptied, Defaults}

ASSUME StartupAssumption ==
  /\ UserSettings \subseteq Settings
  /\ Builds \subseteq {"linux", "windows"}
  /\ Faults \subseteq AllFaults
  /\ MaxTroubles \in Nat

Tables == {"ip_camera_events", "known_ip_cameras"}

\* The database file, if there is one: no database, or the system lets only read it.
Databases == {"absent", "ok", "unreadable", "readonly"}

VARIABLES
  build,                 \* the build that is installed
  file,                  \* what the settings file holds
  database,              \* the database file, see Databases
  tables,                \* the tables of the database
  pc,                    \* where the process is, the second pass if there is one
  starter,               \* who started it: "user" or "scm", the service control manager
  passes,                \* passes of main: 2 while the first is the service's dispatcher
  running_from_service,
  status,                \* CConfig::status
  keyBindings,
  seen,                  \* what Load read from the file
  failed,                \* the tables whose Execute returned -1 in this start
  inTx,                  \* the transaction of the first table is left open
  lost,                  \* history: the tables whose COMMIT failed in this start
  pool,                  \* threads that run io_context
  service,               \* what the manager was told: "none", "running", "stopped"
  troubles               \* bound: how much trouble there was

disk == <<build, file, database, tables>>
config == <<status, keyBindings, seen>>
scm == <<starter, passes, running_from_service, service>>
made == <<failed, inTx, lost>>
server == <<made, pool>>
vars == <<disk, pc, scm, config, server, troubles>>

PCs == {"down", "main", "load", "save", "write", "glog", "register", "service",
        "database", "ip_camera_events", "known_ip_cameras", "check", "listen",
        "serve", "left", "gone"}
Starting == PCs \ {"down", "serve"}
Before == {"main", "load", "save", "write", "glog", "register"}  \* first pass

Init ==
  /\ build \in Builds
  /\ file = Emptied
  /\ database = "absent"
  /\ tables = {}
  /\ pc = "down"
  /\ starter = "user" /\ passes = 1 /\ running_from_service = 0
  /\ service = "none"
  /\ status = "ERROR" /\ keyBindings = Defaults /\ seen = Emptied
  /\ failed = {} /\ inTx = FALSE /\ lost = {}
  /\ pool = 0
  /\ troubles = 0

-----------------------------------------------------------------------------
Goto(p) == pc' = p

Trouble == troubles < MaxTroubles /\ troubles' = troubles + 1
Fault(f) == f \in Faults /\ Trouble
NoFault == UNCHANGED troubles

\* The process is no more; a service that did not report its end is one, too.
End ==
  /\ Goto("down")
  /\ passes' = 1 /\ service' = "none" /\ pool' = 0
  /\ UNCHANGED <<disk, starter, running_from_service, config, made>>

\* LOG(FATAL), CHECK.
Fatal == End

\* A user, or the manager of a Windows machine, starts the program.
Start(who) ==
  /\ pc = "down"
  /\ who = "scm" => build = "windows"
  /\ Goto("main")
  /\ starter' = who
  /\ running_from_service' = 0
  /\ status' = "ERROR" /\ keyBindings' = Defaults /\ seen' = Emptied
  /\ failed' = {} /\ inTx' = FALSE /\ lost' = {}
  /\ UNCHANGED <<disk, passes, service, pool, troubles>>

\* main, in both passes.
Main ==
  /\ pc = "main"
  /\ Goto(IF running_from_service = 1 THEN "database" ELSE "load")
  /\ UNCHANGED <<disk, scm, config, server, troubles>>

-----------------------------------------------------------------------------
\* Mutant: 0 passes for a number of threads.
Accepted_Zero(s) == s.complete /\ s.threads >= 0

\* Mutant: one thread is not enough.
Accepted_OffByOne(s) == s.complete /\ s.threads > 1

Accepted(s) == s.complete /\ s.threads > 0

\* updateKeyBindings reads the file.  Lines that cannot be parsed are skipped.
Load ==
  /\ pc = "load"
  /\ seen' = file
  /\ keyBindings' = file
  /\ IF Accepted(file) THEN status' = "LOADED_OK" /\ Goto("glog")
     ELSE status' = "ERROR" /\ Goto("save")
  /\ UNCHANGED <<disk, scm, server, troubles>>

\* saveKeyBindings truncates the file.  bad() of a stream that could not be opened
\* is false: the call goes on, writes nowhere and logs that the defaults are saved.
Save ==
  /\ pc = "save"
  /\ \/ file' = Emptied /\ Goto("write") /\ NoFault
     \/ Fault("open") /\ Goto("glog") /\ UNCHANGED file
  /\ UNCHANGED <<build, database, tables, scm, config, server>>

\* Mutant: the values that were refused are saved.
Saved_Refused == keyBindings

Saved == Defaults

\* The file is filled, or remains empty.
Write ==
  /\ pc = "write"
  /\ \/ file' = Saved /\ NoFault
     \/ Fault("full") /\ UNCHANGED file
  /\ Goto("glog")
  /\ UNCHANGED <<build, database, tables, scm, config, server>>

\* initGlog takes the defaults after an error and makes the directories of the log
\* (the Windows build does not look at the result); main refuses a start with
\* status ERROR: "Check settings file and RESTART".
InitGlog ==
  /\ pc = "glog"
  /\ \/ build = "linux" /\ Fault("logdir") /\ Fatal
     \/ status = "ERROR" /\ Fatal /\ NoFault
     \/ /\ status = "LOADED_OK" /\ Goto("register") /\ NoFault
        /\ UNCHANGED <<disk, scm, config, server>>

-----------------------------------------------------------------------------
\* Mutant: the second pass is not marked.
Marked_Not == 0

Marked == 1

\* service_register: the dispatcher of a program that the manager did not start
\* returns at once, and the Linux build has none: a console application.
Register ==
  /\ pc = "register"
  /\ \/ /\ starter = "scm" /\ Goto("service")
        /\ passes' = 2 /\ running_from_service' = Marked
     \/ /\ starter = "user" /\ Goto("database")
        /\ running_from_service' = 0 /\ UNCHANGED passes
  /\ UNCHANGED <<disk, starter, service, config, server, troubles>>

\* service_main registers the control handler, reports SERVICE_RUNNING and calls
\* main again, or returns.
ServiceMain ==
  /\ pc = "service"
  /\ \/ service' = "running" /\ Goto("main") /\ NoFault
     \/ Fault("register") /\ Goto("gone") /\ UNCHANGED service
  /\ UNCHANGED <<disk, starter, passes, running_from_service, config, server>>

\* service_controlhandler, on the dispatcher's thread, for STOP and SHUTDOWN:
\* SERVICE_STOPPED is reported whatever the service's thread and the pool do.
ControlStop ==
  /\ service = "running"
  /\ service' = "stopped"
  /\ UNCHANGED <<disk, pc, starter, passes, running_from_service, config, server,
                 troubles>>

Returns == service = "stopped" \/ pc = "gone"

\* StartServiceCtrlDispatcher returns once the service is stopped or its thread
\* gone; the first pass returns 0 and the process exits in the middle of the other.
DispatcherReturns ==
  /\ passes = 2
  /\ Returns
  /\ End
  /\ NoFault

-----------------------------------------------------------------------------
\* CreateOrUseDb opens the database, or creates it: a file that is there is opened
\* whatever it holds.
OpenDatabase ==
  /\ pc = "database"
  /\ \/ /\ database' = IF database = "absent" THEN "ok" ELSE database
        /\ Goto("ip_camera_events") /\ NoFault
        /\ UNCHANGED <<build, file, tables, scm, config, server>>
     \/ Fault("database") /\ Fatal

\* Mutant: only the result of the second statement counts.
Failed_Last(T) == T

Failed(T) == failed \union T

\* BEGIN fails, whatever is tried: no database, not to be written, or tmpDb's own
\* transaction is still open.
CannotBegin == database \in {"unreadable", "readonly"} \/ inTx

\* What a failed COMMIT makes of the transaction: it stays open or is undone.  That
\* of the second table ends with tmpDb.
LeftOpen(t) == IF t = "ip_camera_events" THEN BOOLEAN ELSE {FALSE}

\* COMMIT fails: Execute looks at the result of the statement only.
CommitFails(t) ==
  /\ Fault("commit")
  /\ UNCHANGED tables
  /\ \/ failed' = Failed({})
     \/ "table" \in Faults /\ failed' = Failed({t})
  /\ inTx' \in LeftOpen(t)
  /\ lost' = lost \union {t}

\* CREATE TABLE IF NOT EXISTS: both are executed before a result is looked at.
CreateTable(t, next) ==
  /\ pc = t
  /\ ~CannotBegin
  /\ \/ /\ tables' = tables \union {t} /\ failed' = Failed({})
        /\ UNCHANGED <<inTx, lost>> /\ NoFault
     \/ Fault("table") /\ failed' = Failed({t}) /\ UNCHANGED <<tables, inTx, lost>>
     \/ CommitFails(t)
  /\ Goto(next)
  /\ UNCHANGED <<build, file, database, scm, config, pool>>

\* Execute begins its transaction again and again while that fails, whatever the
\* reason: the start is held here.
BeginFails ==
  /\ pc \in Tables
  /\ CannotBegin
  /\ UNCHANGED vars

CreateTables == \/ CreateTable("ip_camera_events", "known_ip_cameras")
                \/ CreateTable("known_ip_cameras", "check")

\* A table that failed throws BusinessLogicError.  Then the second connection of
\* TestSqlite3Settings; its integrity check is only logged.
Check ==
  /\ pc = "check"
  /\ \/ failed # {} /\ Fatal /\ NoFault
     \/ failed = {} /\ Fault("database") /\ Fatal
     \/ /\ failed = {} /\ Goto("listen") /\ NoFault
        /\ UNCHANGED <<disk, scm, config, server>>

\* Mutant: thread_num_ has the width of the setting.
Threads_Wide(n) == n

\* The number of threads as thread_num_, a short, keeps it.
Threads(n) == LET u == n % 65536 IN IF u < 32768 THEN u ELSE u - 65536

\* CServer's constructor listens (an error is thrown), starts the pool and joins
\* it: without a thread there is nothing to wait for.
Listen ==
  /\ pc = "listen"
  /\ \/ /\ LET n == Threads(keyBindings.threads)
           IN  IF n > 0 THEN pool' = n /\ Goto("serve")
               ELSE pool' = 0 /\ Goto("left")
        /\ NoFault
        /\ UNCHANGED <<disk, scm, config, made>>
     \/ Fault("listen") /\ Fatal

\* The pool runs (ClientRegistry has what it does).
Serve == pc = "serve" /\ UNCHANGED vars

\* do_accept: CHECK ends the process at the first accept that fails.
AcceptFails ==
  /\ pc = "serve"
  /\ Fault("accept")
  /\ Fatal

\* main returns 0: the process of a console application exits, service_main reports
\* SERVICE_STOPPED.
Leave ==
  /\ pc = "left"
  /\ \/ /\ passes = 2
        /\ service' = "stopped" /\ Goto("gone")
        /\ UNCHANGED <<disk, starter, passes, running_from_service, config, server>>
     \/ passes = 1 /\ End
  /\ NoFault

-----------------------------------------------------------------------------
\* The process is killed: Ctrl-C, a power failure, an exception of a handler.
Kill == pc # "down" /\ Trouble /\ End

\* The user writes or removes the settings at any time.
Edit(s) ==
  /\ Trouble
  /\ file' = s
  /\ UNCHANGED <<build, database, tables, pc, scm, config, server>>

\* The database is damaged, protected, replaced or removed between two starts.
Replace(d, t) ==
  /\ pc = "down"
  /\ Trouble
  /\ d \in {"absent", "unreadable"} => t = {}
  /\ database' = d /\ tables' = t
  /\ UNCHANGED <<build, file, pc, scm, config, server>>

Step == \/ Main \/ Load \/ Save \/ Write \/ InitGlog \/ Register \/ ServiceMain
        \/ OpenDatabase \/ CreateTables \/ Check \/ Listen \/ Leave

Next ==
  \/ \E who \in {"user", "scm"} : Start(who)
  \/ Step \/ BeginFails \/ Serve
  \/ ControlStop \/ DispatcherReturns \/ AcceptFails
  \/ Kill
  \/ \E s \in UserSettings \union {Emptied} : Edit(s)
  \/ \E d \in Databases, t \in SUBSET Tables : Replace(d, t)

Spec == Init /\ [][Next]_vars

\* The process goes on, and whoever starts the server starts it again.
FairSpec ==
  /\ Spec
  /\ WF_vars(Step)
  /\ WF_vars(DispatcherReturns)
  /\ WF_vars(\E who \in {"user", "scm"} : Start(who))

-----------------------------------------------------------------------------
\* Types of the variables.
TypeOK ==
  /\ build \in Builds
  /\ file \in Written
  /\ database \in Databases
  /\ tables \subseteq Tables
  /\ pc \in PCs
  /\ starter \in {"user", "scm"} /\ passes \in 1 .. 2 /\ running_from_service \in 0 .. 1
  /\ status \in {"ERROR", "LOADED_OK"}
  /\ keyBindings \in Written
  /\ seen \in Written
  /\ failed \subseteq Tables /\ inTx \in BOOLEAN /\ lost \subseteq Tables
  /\ pool \in Nat /\ pool <= 32767
  /\ service \in {"none", "running", "stopped"}
  /\ troubles \in 0 .. MaxTroubles

\* The second pass of a service neither loads the settings nor registers again:
\* running_from_service lasts from the first pass to the second (main.cpp:44-53).
SecondPassServes == passes = 2 => pc \notin Before \ {"main"}

\* Settings that a server can run with.
Usable(s) == s.complete /\ s.threads > 0

\* A server that accepts clients has a thread, usable settings and every table but
\* those whose COMMIT failed while it started (which nobody is told), whatever ended
\* the starts before it half-way.
ServesReady ==
  pc = "serve" => Tables \ lost \subseteq tables /\ pool > 0 /\ Usable(keyBindings)

\* A server that leaves main, or a service that leaves it after it was said to run,
\* has more threads in its settings than a short counts.  (Another end that nobody
\* reads of is that of a service whose control handler cannot be registered.)
SilentOnlyIfTooMany ==
  /\ pc = "left" => keyBindings.threads > 32767
  /\ pc = "gone" /\ service # "none" => keyBindings.threads > 32767

\* A start overwrites usable settings only if they were written while it ran:
\* nothing locks the file between the check and the truncation.
UsableKept == [][pc = "save" /\ Usable(file) /\ file' = Emptied => file # seen]_vars

\* Once trouble is over the settings are not refused any more: the defaults of a
\* refused start, or of one that follows a half-written file, are accepted.
Heals == <>[](pc # "save")

\* Every start serves or ends, or is held by a database that cannot be begun on: a
\* file that is none or may not be written, or a sound one after the COMMIT of the
\* first table failed.
StartDecides ==
  pc \in Starting ~>
    \/ pc \in {"down", "serve"}
    \/ pc = "ip_camera_events" /\ database \in {"unreadable", "readonly"}
    \/ pc = "known_ip_cameras" /\ "ip_camera_events" \in lost
=============================================================================
