----------------------------- MODULE EventStore -----------------------------
(***************************************************************************)
(* From a camera's event to the last event in memory, its row in the       *)
(* database and the answer to get_last_event: on_ipcam_event,              *)
(* do_process_ipcam_event, on_get_last_event, CBusinessLogic and           *)
(* CKnownIpCameraList.                                                     *)
(*                                                                         *)
(* on_ipcam_event posts the event and reads on, so the tasks of one session *)
(* wait in the queue of io_context together and start in the order of      *)
(* arrival, but on several threads.  db_mtx_ is a mutex of the session: it *)
(* serialises the tasks of one session (in no particular order) and says   *)
(* nothing about two sessions, which share the CBusinessLogic: the list of *)
(* active cameras, emptied and filled again for every event without a      *)
(* lock, and the last event of every camera, under business_logic_mtx_.    *)
(*                                                                         *)
(* The list is a std::list; of what a race on it can do, the model has the *)
(* interleavings of its calls (a corrupted list is left out).  The table of *)
(* active cameras is edited by somebody else while the server runs.  The   *)
(* events' table is a sequence of rows; of the transactions (SqliteConn has *)
(* them) what a task can notice is left: BEGIN is repeated for as long as it *)
(* fails, and a COMMIT that fails may leave its transaction open, so that  *)
(* every later BEGIN of any session fails.  (A reader that delays a BEGIN  *)
(* for a while is part of the time the INSERT takes.)  A session that reads *)
(* has its database open: start() calls through the result of its first    *)
(* query.                                                                  *)
(***************************************************************************)
EXTENDS Naturals, Sequences, FiniteSets

CONSTANTS Sessions,
          Cameras,    \* values of sensorProviderID
          Known,      \* the active cameras of table known_ip_cameras at first
          Feeds,      \* which session delivers events of which camera
          Checking,   \* allowCheckingSensProviderID
          NThreads,   \* how many threads run io_context
          Faults,     \* the failing calls considered, see AllFaults
          None,       \* no task, no session
          MaxEvents,  \* bound: events that arrive
          MaxChanges  \* bound: edits of the table of active cameras

\* The query of the active cameras (at once, or at a row), BEGIN (because of
\* another process, or of the file), the INSERT, its COMMIT.
AllFaults == {"select", "next", "begin", "insert", "commit"}

ASSUME StoreAssumption ==
  /\ Known \subseteq Cameras
  /\ Feeds \subseteq Sessions \X Cameras
  /\ Checking \in BOOLEAN
  /\ NThreads \in Nat \ {0}
  /\ Faults \subseteq AllFaults
  /\ MaxEvents \in Nat
  /\ MaxChanges \in Nat
  /\ None \notin Feeds /\ None \notin 1 .. MaxEvents
  /\ None \notin Sessions /\ "outside" \notin Sessions \union {None}

Events == 1 .. MaxEvents  \* in the order of their arrival

VARIABLES
  arrived,           \* how many events arrived
  feed,              \* the session and the camera of an event
  pc,                \* where the event's task is
  db_mtx_,           \* the task that owns each session's mutex
  rows,              \* the rows the task's query has still to return
  activeCameras_,    \* CKnownIpCameraList::activeCameras_
  lastIpCamEvents_,  \* the event remembered for each camera
  table,             \* the rows of ip_camera_events
  active,            \* the active cameras of table known_ip_cameras
  changes,           \* how often that table was edited
  blocker,           \* what makes every BEGIN fail: a session, or "outside"
  skipped,           \* history: events refused by the check
  unsaved,           \* history: events whose INSERT or COMMIT failed
  told,              \* history: events that get_last_event answered with
  read,              \* history: the cameras that an event's query saw active
  unread             \* history: events whose query failed before it began

arrivals == <<arrived, feed>>
memory == <<activeCameras_, lastIpCamEvents_>>
database == <<table, active, changes, blocker>>
refused == <<skipped, read, unread>>
vars == <<arrivals, pc, db_mtx_, rows, memory, database, refused, unsaved, told>>

session(e) == feed[e][1]
camera(e) == feed[e][2]
PCs == {"none", "posted", "lock", "select", "first", "fill", "find", "set",
        "insert", "done"}
Running == {"lock", "select", "first", "fill", "find", "set", "insert"}
Locked == Running \ {"lock"}

Init ==
  /\ arrived = 0
  /\ feed = [e \in Events |-> None]
  /\ pc = [e \in Events |-> "none"]
  /\ db_mtx_ = [s \in Sessions |-> None]
  /\ rows = [e \in Events |-> {}]
  /\ activeCameras_ = {}
  /\ lastIpCamEvents_ = [c \in Cameras |-> None]
  /\ table = <<>>
  /\ active = Known
  /\ changes = 0
  /\ blocker = None
  /\ skipped = {}
  /\ unsaved = {}
  /\ told = {}
  /\ read = [e \in Events |-> {}]
  /\ unread = {}

-----------------------------------------------------------------------------
Goto(e, p) == pc' = [pc EXCEPT ![e] = p]

\* Mutant: the task ends and keeps db_mtx_.
Return_KeepsLock(e) ==
  /\ Goto(e, "done")
  /\ UNCHANGED db_mtx_

\* The task ends and leaves db_mtx_.
Return(e) ==
  /\ Goto(e, "done")
  /\ db_mtx_' = [db_mtx_ EXCEPT ![session(e)] = None]

\* Mutant: the event is not posted.
Post_Not(e) == UNCHANGED pc

Post(e) == Goto(e, "posted")

\* on_ipcam_event of a started session: the task is posted.
OnIpcamEvent(f) ==
  /\ arrived < MaxEvents
  /\ arrived' = arrived + 1
  /\ feed' = [feed EXCEPT ![arrived + 1] = f]
  /\ Post(arrived + 1)
  /\ UNCHANGED <<db_mtx_, rows, memory, database, refused, unsaved, told>>

\* A free thread takes the oldest task of the queue.
Dispatch(e) ==
  /\ pc[e] = "posted"
  /\ \A d \in Events : pc[d] = "posted" => e <= d
  /\ Cardinality({d \in Events : pc[d] \in Running}) < NThreads
  /\ Goto(e, "lock")
  /\ UNCHANGED <<arrivals, db_mtx_, rows, memory, database, refused, unsaved,
                 told>>

\* Mutant: the mutex keeps nobody out.
Free_Always(e) == TRUE

Free(e) == db_mtx_[session(e)] = None

Lock(e) ==
  /\ pc[e] = "lock"
  /\ Free(e)
  /\ db_mtx_' = [db_mtx_ EXCEPT ![session(e)] = e]
  /\ Goto(e, IF Checking THEN "select" ELSE "set")
  /\ UNCHANGED <<arrivals, rows, memory, database, refused, unsaved, told>>

\* A query fails on its own, or because somebody else holds the database.
QueryFails(e, f) == f \in Faults \/ blocker \notin {None, session(e)}

\* Mutant: the list keeps what it had.
Cleared_Not == activeCameras_

Cleared == {}

\* setActive: ExecuteSelect prepares the query and no more, then the list is
\* cleared.  When that fails the list stays as it was.
Select(e) ==
  /\ pc[e] = "select"
  /\ \/ /\ activeCameras_' = Cleared
        /\ Goto(e, "first")
        /\ UNCHANGED unread
     \/ /\ QueryFails(e, "select")
        /\ unread' = unread \union {e}
        /\ Goto(e, "find")
        /\ UNCHANGED activeCameras_
  /\ UNCHANGED <<arrivals, db_mtx_, rows, lastIpCamEvents_, database, skipped,
                 read, unsaved, told>>

\* The first Next() begins to read the table, as it is then, or fails.
First(e) ==
  /\ pc[e] = "first"
  /\ \/ /\ rows' = [rows EXCEPT ![e] = active]
        /\ read' = [read EXCEPT ![e] = active]
        /\ Goto(e, "fill")
     \/ /\ QueryFails(e, "next")
        /\ Goto(e, "find")
        /\ UNCHANGED <<rows, read>>
  /\ UNCHANGED <<arrivals, db_mtx_, memory, database, skipped, unread, unsaved,
                 told>>

Fill(e) ==
  /\ pc[e] = "fill"
  /\ \E c \in rows[e] :
       /\ activeCameras_' = activeCameras_ \union {c}
       /\ rows' = [rows EXCEPT ![e] = @ \ {c}]
  /\ UNCHANGED <<arrivals, pc, db_mtx_, lastIpCamEvents_, database, refused,
                 unsaved, told>>

\* Next() returns false after the last row, and for a row it cannot read.
FillEnd(e) ==
  /\ pc[e] = "fill"
  /\ rows[e] = {} \/ "next" \in Faults
  /\ rows' = [rows EXCEPT ![e] = {}]
  /\ Goto(e, "find")
  /\ UNCHANGED <<arrivals, db_mtx_, memory, database, refused, unsaved, told>>

isActive(e) == camera(e) \in activeCameras_

IsActive(e) ==
  /\ pc[e] = "find"
  /\ \/ /\ isActive(e)
        /\ Goto(e, "set")
        /\ UNCHANGED <<db_mtx_, skipped>>
     \/ /\ ~isActive(e)
        /\ skipped' = skipped \union {e}
        /\ Return(e)
  /\ UNCHANGED <<arrivals, rows, memory, database, read, unread, unsaved, told>>

\* setLastIpCamEvent under business_logic_mtx_: replaces or adds the event.
SetLast(e) ==
  /\ pc[e] = "set"
  /\ lastIpCamEvents_' = [lastIpCamEvents_ EXCEPT ![camera(e)] = e]
  /\ Goto(e, "insert")
  /\ UNCHANGED <<arrivals, db_mtx_, rows, activeCameras_, database, refused,
                 unsaved, told>>

\* Mutant: the row is not written.
Save_Not(e) == UNCHANGED table

Save(e) == table' = Append(table, e)

\* Execute gets past BEGIN only when nothing makes it fail.  The row is saved,
\* or the INSERT or its COMMIT fails (the latter is reported as a success); the
\* COMMIT may leave the transaction open.  What is in memory stays.
Insert(e) ==
  /\ pc[e] = "insert" /\ blocker = None
  /\ \/ /\ Save(e)
        /\ UNCHANGED <<unsaved, blocker>>
     \/ /\ {"insert", "commit"} \intersect Faults # {}
        /\ unsaved' = unsaved \union {e}
        /\ \/ UNCHANGED blocker
           \/ "commit" \in Faults /\ blocker' = session(e)
        /\ UNCHANGED table
  /\ Return(e)
  /\ UNCHANGED <<arrivals, rows, memory, active, changes, refused, told>>

Task(e) == \/ Lock(e) \/ Select(e) \/ First(e) \/ Fill(e) \/ FillEnd(e)
           \/ IsActive(e) \/ SetLast(e) \/ Insert(e)

\* on_get_last_event of any session, under business_logic_mtx_ but no db_mtx_: the
\* last event of camera c.  (Without one the answer is an error.)
OnGetLastEvent(c) ==
  /\ lastIpCamEvents_[c] # None
  /\ told' = told \union {lastIpCamEvents_[c]}
  /\ UNCHANGED <<arrivals, pc, db_mtx_, rows, memory, database, refused, unsaved>>

\* Somebody activates or deactivates a camera in the database.
Administer(c) ==
  /\ changes < MaxChanges /\ blocker = None
  /\ changes' = changes + 1
  /\ active' = IF c \in active THEN active \ {c} ELSE active \union {c}
  /\ UNCHANGED <<arrivals, pc, db_mtx_, rows, memory, table, blocker, refused,
                 unsaved, told>>

\* Another process keeps the database locked, or the file cannot be written.
FileRefuses ==
  /\ blocker = None /\ "begin" \in Faults
  /\ blocker' = "outside"
  /\ UNCHANGED <<arrivals, pc, db_mtx_, rows, memory, table, active, changes,
                 refused, unsaved, told>>

\* That ends; an open transaction ends with its session, which no task of the
\* session outlives (a later session may take its name).
Unblock ==
  /\ blocker # None
  /\ \A e \in Events :
       pc[e] \notin {"none", "done"} => session(e) # blocker
  /\ blocker' = None
  /\ UNCHANGED <<arrivals, pc, db_mtx_, rows, memory, table, active, changes,
                 refused, unsaved, told>>

\* All events of the model arrived and were handled.
Finished == /\ \A e \in Events : pc[e] = "done"
            /\ UNCHANGED vars

Next ==
  \/ \E f \in Feeds : OnIpcamEvent(f)
  \/ \E e \in Events : Dispatch(e) \/ Task(e)
  \/ \E c \in Cameras : OnGetLastEvent(c) \/ Administer(c)
  \/ FileRefuses \/ Unblock
  \/ Finished

Spec == Init /\ [][Next]_vars

\* Threads take tasks and go on with them; a mutex that is free infinitely
\* often is not withheld from a task for ever.
FairSpec ==
  /\ Spec
  /\ WF_vars(\E e \in Events : Dispatch(e))
  /\ \A e \in Events : WF_vars(Task(e)) /\ SF_vars(Lock(e))

-----------------------------------------------------------------------------
\* Types of the variables.
TypeOK ==
  /\ arrived \in 0 .. MaxEvents
  /\ feed \in [Events -> Feeds \union {None}]
  /\ pc \in [Events -> PCs]
  /\ \A e \in Events : feed[e] = None <=> pc[e] = "none"
  /\ db_mtx_ \in [Sessions -> Events \union {None}]
  /\ rows \in [Events -> SUBSET Cameras]
  /\ activeCameras_ \subseteq Cameras
  /\ lastIpCamEvents_ \in [Cameras -> Events \union {None}]
  /\ table \in Seq(Events)
  /\ active \subseteq Cameras
  /\ changes \in 0 .. MaxChanges
  /\ blocker \in Sessions \union {None, "outside"}
  /\ skipped \subseteq Events
  /\ unsaved \subseteq Events
  /\ told \subseteq Events
  /\ read \in [Events -> SUBSET Cameras]
  /\ unread \subseteq Events

\* An event is skipped only if its own query did not see its camera active (the
\* settings file: "If in db doesn't exist sensor provider -> skip").
ActiveNotSkipped == \A e \in skipped : camera(e) \notin read[e]

\* A query saw the event's camera active: its own one, or that of a task of
\* another session, which shares the list; only if its own query failed at once,
\* so that the old list was used, an earlier one of the same session will do.
Admitted(e) ==
  \/ camera(e) \in read[e]
  \/ \E d \in Events : /\ camera(e) \in read[d]
                       /\ e \in unread \/ session(d) # session(e)

\* Every event that is remembered or saved was admitted, whichever queries fail,
\* however the table is edited meanwhile, and whatever the other sessions do to
\* the list.
OnlyActiveStored ==
  Checking =>
    /\ \A c \in Cameras : lastIpCamEvents_[c] # None => Admitted(lastIpCamEvents_[c])
    /\ \A i \in DOMAIN table : Admitted(table[i])

\* The cameras that one session delivers: their events share one db_mtx_.
Serial == {c \in Cameras : \A f, g \in Feeds : f[2] = c /\ g[2] = c => f[1] = g[1]}

\* What get_last_event returns for a camera of one session is the last of its rows,
\* unless an INSERT or a COMMIT failed or one of the camera's events is still being
\* processed.  (Tasks of two sessions change memory and table in different orders.)
MemoryMatchesTable ==
  \A c \in Serial :
    LET Of == {e \in 1 .. arrived : camera(e) = c}
        Rows == {i \in DOMAIN table : table[i] \in Of}
    IN  Of \intersect unsaved = {} /\ (\A e \in Of : pc[e] \in {"posted", "done"}) =>
          IF Rows = {} THEN lastIpCamEvents_[c] = None
          ELSE \E i \in Rows : /\ lastIpCamEvents_[c] = table[i]
                               /\ \A j \in Rows : j <= i

\* What a client was told is saved, or its INSERT or COMMIT failed: get_last_event
\* reads between the change in memory and the INSERT, so it may run ahead of the
\* table, but never shows an event that the table is not going to have.
ToldIsSaved ==
  \A e \in told : pc[e] = "done" => e \in unsaved \/ \E i \in DOMAIN table : table[i] = e

\* Unless something makes BEGIN fail for ever, every event that arrived is
\* processed to the end: no task is lost to db_mtx_, whoever waited with it.
EventsHandled ==
  <>[](blocker = None) => \A e \in Events : pc[e] = "posted" ~> pc[e] = "done"

-----------------------------------------------------------------------------
\* EventLog's view of an event: where it is between its arrival and its fate.
Fate(e) ==
  IF pc[e] = "none" THEN "absent"
  ELSE IF pc[e] = "insert" THEN "shown"
  ELSE IF pc[e] # "done" THEN "waiting"
  ELSE IF e \in skipped THEN "skipped"
  ELSE IF e \in unsaved THEN "lost"
  ELSE "saved"

fates == [e \in Events |-> Fate(e)]
cameras == [e \in Events |-> IF feed[e] = None THEN None ELSE camera(e)]
found == IF Checking THEN UNION {read[e] : e \in Events} ELSE Cameras

Log == INSTANCE EventLog WITH
  at <- cameras, fate <- fates, last <- lastIpCamEvents_

\* Sessions, mutexes, threads, failing queries and the shared list hide behind a
\* log that shows and saves one event of a serial camera at a time.
ImplementsLog == Log!Spec
=============================================================================
