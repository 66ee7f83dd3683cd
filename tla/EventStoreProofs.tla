---------------------------- MODULE EventStoreProofs ----------------------------
(***************************************************************************)
(* Theorems about EventStore, for any sessions, cameras, threads and       *)
(* failing calls, however the table of active cameras is edited, and        *)
(* whichever session delivers events of which camera.                      *)
(* The order of rows and last events is an invariant of the serial cameras  *)
(* only: two sessions do not share a db_mtx_.                               *)
(***************************************************************************)
EXTENDS EventStore, TLAPS

ArrivedInv == \A e \in Events : pc[e] = "none" <=> e > arrived

\* A task past the mutex owns it.
LockInv == \A e \in Events : pc[e] \in Locked => db_mtx_[session(e)] = e

\* The rows of a task are of its own query, which it begins once.
QueryInv ==
  \A e \in Events :
    /\ rows[e] \subseteq read[e]
    /\ pc[e] \in {"none", "posted", "lock", "select", "first"} => read[e] = {}
    /\ pc[e] \in {"select", "first", "fill", "find"} => Checking

\* What Admitted says, for any camera: a query saw it active that may have put it
\* into the list that the task of event e uses.
Seen(e, c) ==
  \/ c \in read[e]
  \/ \E d \in Events : /\ c \in read[d]
                       /\ e \in unread \/ session(d) # session(e)

\* The list holds what queries saw; since a task cleared it, what its own query
\* saw and those of other sessions.  Only a camera of the list passes the check.
ListInv ==
  /\ \A c \in activeCameras_ : \E d \in Events : c \in read[d]
  /\ \A e \in Events :
       /\ pc[e] \in {"first", "fill", "find"} => \A c \in activeCameras_ : Seen(e, c)
       /\ Checking /\ pc[e] \in {"set", "insert"} => Seen(e, camera(e))

\* An event that was remembered is saved, lost, or about to be one of both.
Kept(e) ==
  \/ pc[e] = "insert"
  \/ pc[e] = "done" /\ (e \in unsaved \/ \E i \in DOMAIN table : table[i] = e)

FateInv ==
  /\ \A e \in skipped \union unsaved : pc[e] = "done"
  /\ \A i \in DOMAIN table : pc[table[i]] = "done"
  /\ \A c \in Cameras : lastIpCamEvents_[c] # None =>
       Kept(lastIpCamEvents_[c]) /\ camera(lastIpCamEvents_[c]) = c
  /\ \A e \in told : Kept(e)

\* The last event of camera c is its last row.
LastRow(c) ==
  IF lastIpCamEvents_[c] = None
  THEN \A j \in DOMAIN table : camera(table[j]) # c
  ELSE \E i \in DOMAIN table :
         /\ table[i] = lastIpCamEvents_[c]
         /\ \A j \in DOMAIN table : camera(table[j]) = c => j <= i

\* An event on its way to the table is the last one of its serial camera, and the
\* last event of a serial camera is on its way, lost, or the last row.
OrderInv ==
  /\ \A e \in Events : pc[e] = "insert" /\ camera(e) \in Serial =>
       lastIpCamEvents_[camera(e)] = e
  /\ \A c \in Serial :
       \/ lastIpCamEvents_[c] \in unsaved
       \/ lastIpCamEvents_[c] # None /\ pc[lastIpCamEvents_[c]] = "insert"
       \/ LastRow(c)

IInv ==
  /\ TypeOK
  /\ ArrivedInv
  /\ LockInv
  /\ QueryInv
  /\ ListInv
  /\ FateInv
  /\ OnlyActiveStored
  /\ OrderInv

-----------------------------------------------------------------------------
\* The rows of a table after an INSERT.
LEMMA AppendRows ==
  ASSUME NEW S, NEW s \in Seq(S), NEW x \in S
  PROVE  /\ Append(s, x) \in Seq(S)
         /\ DOMAIN Append(s, x) = DOMAIN s \union {Len(s) + 1}
         /\ Append(s, x)[Len(s) + 1] = x
         /\ \A i \in DOMAIN s : i \in Nat /\ i <= Len(s) /\ Append(s, x)[i] = s[i]
PROOF
  OBVIOUS

\* What others do to the database.
Environment == (\E c \in Cameras : Administer(c)) \/ FileRefuses \/ Unblock

\* It changes no task, no list and no row.
LEMMA EnvironmentQuiet ==
  ASSUME TypeOK, Environment
  PROVE  /\ UNCHANGED <<arrived, feed, pc, db_mtx_, rows, activeCameras_,
                       lastIpCamEvents_, table, skipped, unsaved, told, read, unread>>
         /\ active' \subseteq Cameras
         /\ changes' \in 0 .. MaxChanges
         /\ blocker' \in Sessions \union {None, "outside"}
PROOF
<1> USE StoreAssumption DEF TypeOK, arrivals, memory, refused
<1>1. ASSUME NEW c \in Cameras, Administer(c)
      PROVE  active' \subseteq Cameras /\ changes' \in 0 .. MaxChanges
  BY <1>1 DEF Administer
<1> QED
  BY <1>1 DEF Environment, Administer, FileRefuses, Unblock

\* The two outcomes of the INSERT of event e.
RowAdded(e) ==
  /\ UNCHANGED unsaved
  /\ table' \in Seq(Events)
  /\ DOMAIN table' = DOMAIN table \union {Len(table) + 1}
  /\ table'[Len(table) + 1] = e
  /\ \A i \in DOMAIN table : i \in Nat /\ i <= Len(table) /\ table'[i] = table[i]
  /\ Len(table) \in Nat

RowLost(e) == unsaved' = unsaved \union {e} /\ UNCHANGED table

Inserted(e) ==
  /\ pc[e] = "insert" /\ pc' = [pc EXCEPT ![e] = "done"]
  /\ db_mtx_' = [db_mtx_ EXCEPT ![session(e)] = None]
  /\ UNCHANGED <<arrived, feed, rows, activeCameras_, lastIpCamEvents_, skipped, told,
               active, changes, read, unread>>
  /\ blocker' \in {blocker, session(e)}
  /\ RowAdded(e) \/ RowLost(e)

\* Insert writes the row or loses it.
LEMMA InsertCases ==
  ASSUME TypeOK, NEW e \in Events, Insert(e)
  PROVE  Inserted(e)
PROOF
<1>1. /\ pc[e] = "insert" /\ pc' = [pc EXCEPT ![e] = "done"]
      /\ db_mtx_' = [db_mtx_ EXCEPT ![session(e)] = None]
      /\ UNCHANGED <<arrived, feed, rows, activeCameras_, lastIpCamEvents_,
                    skipped, told, active, changes, read, unread>>
      /\ blocker' \in {blocker, session(e)}
  BY DEF Insert, Return, Goto, arrivals, memory, refused
<1>2. CASE Save(e) /\ UNCHANGED unsaved
  <2>1. table \in Seq(Events) /\ table' = Append(table, e)
    BY <1>2 DEF Save, TypeOK
  <2> QED
    BY <1>1, <1>2, <2>1, AppendRows DEF Inserted, RowAdded
<1>3. CASE unsaved' = unsaved \union {e} /\ UNCHANGED table
  BY <1>1, <1>3 DEF Inserted, RowLost
<1> QED
  BY <1>2, <1>3 DEF Insert

\* A task that neither shows nor saves an event leaves the fate of the others.
LEMMA QuietFate ==
  ASSUME TypeOK, FateInv, NEW e \in Events, NEW p, pc[e] \notin {"insert", "done"},
         pc' = [pc EXCEPT ![e] = p],
         UNCHANGED <<feed, table, unsaved, lastIpCamEvents_, told>>,
         skipped' = skipped \/ (skipped' = skipped \union {e} /\ p = "done")
  PROVE  FateInv'
PROOF
<1>1. \A d \in Events : pc[d] \in {"insert", "done"} => pc'[d] = pc[d]
  BY DEF TypeOK
<1>2. \A d \in Events : Kept(d) => Kept(d)'
  BY <1>1 DEF Kept
<1>3. \A i \in DOMAIN table : table[i] \in Events
  BY DEF TypeOK
<1>4. \A d \in skipped' \union unsaved' : pc'[d] = "done"
  BY <1>1 DEF FateInv, TypeOK
<1>5. \A i \in DOMAIN table' : pc'[table'[i]] = "done"
  BY <1>1, <1>3 DEF FateInv
<1>6. \A c \in Cameras : lastIpCamEvents_[c] # None => lastIpCamEvents_[c] \in Events
  BY DEF TypeOK
<1> QED
  BY <1>2, <1>4, <1>5, <1>6 DEF FateInv, TypeOK, camera

\* It leaves the order of rows and last events, too.
LEMMA QuietOrder ==
  ASSUME TypeOK, FateInv, OrderInv, NEW e \in Events, NEW p,
         pc[e] \notin {"insert", "done"}, p # "insert",
         pc' = [pc EXCEPT ![e] = p],
         UNCHANGED <<feed, table, unsaved, lastIpCamEvents_>>
  PROVE  OrderInv'
PROOF
<1>1. \A d \in Events : pc'[d] = "insert" <=> pc[d] = "insert"
  BY DEF TypeOK
<1>2. \A c \in Cameras : lastIpCamEvents_[c] # None => lastIpCamEvents_[c] \in Events
  BY DEF TypeOK
<1>3. \A c \in Cameras : LastRow(c) => LastRow(c)'
  BY DEF LastRow, camera
<1>4. \A d \in Events : camera(d)' = camera(d)
  BY DEF camera
<1> QED
  BY <1>1, <1>2, <1>3, <1>4 DEF OrderInv, Serial

\* The INSERT settles the fate of its event.
LEMMA InsertFate ==
  ASSUME TypeOK, FateInv, NEW e \in Events, Insert(e)
  PROVE  FateInv'
PROOF
<1>1. Inserted(e)
  BY InsertCases
<1>2. \A d \in Events : pc'[d] = IF d = e THEN "done" ELSE pc[d]
  BY <1>1 DEF Inserted, RowAdded, RowLost, TypeOK
<1>3. \A i \in DOMAIN table : table[i] \in Events
  BY DEF TypeOK
<1>4. /\ \A d \in Events : d \in unsaved => d \in unsaved'
      /\ \A i \in DOMAIN table : i \in DOMAIN table' /\ table'[i] = table[i]
      /\ e \in unsaved' \/ \E i \in DOMAIN table' : table'[i] = e
  BY <1>1 DEF Inserted, RowAdded, RowLost
<1>5. \A d \in Events : Kept(d) => Kept(d)'
  BY <1>2, <1>4 DEF Kept
<1>6. \A d \in skipped' \union unsaved' : d \in Events /\ (d = e \/ d \in skipped \union unsaved)
  BY <1>1 DEF Inserted, RowAdded, RowLost, TypeOK
<1>7. \A d \in skipped' \union unsaved' : pc'[d] = "done"
  BY <1>2, <1>6 DEF FateInv
<1>8. \A i \in DOMAIN table' : table'[i] = e \/ (i \in DOMAIN table /\ table'[i] = table[i])
  BY <1>1 DEF Inserted, RowAdded, RowLost
<1>9. \A i \in DOMAIN table' : pc'[table'[i]] = "done"
  BY <1>2, <1>3, <1>8 DEF FateInv
<1>10. /\ told \subseteq Events
       /\ \A c \in Cameras : lastIpCamEvents_[c] # None => lastIpCamEvents_[c] \in Events
  BY DEF TypeOK
<1>11. UNCHANGED <<feed, lastIpCamEvents_, told>>
  BY <1>1 DEF Inserted, RowAdded, RowLost
<1> QED
  BY <1>5, <1>7, <1>9, <1>10, <1>11 DEF FateInv, camera

\* The INSERT keeps the order: the event it saves is the last one of its camera.
LEMMA InsertOrder ==
  ASSUME TypeOK, FateInv, OrderInv, NEW e \in Events, Insert(e)
  PROVE  OrderInv'
PROOF
<1>1. Inserted(e)
  BY InsertCases
<1>2. \A d \in Events : pc'[d] = IF d = e THEN "done" ELSE pc[d]
  BY <1>1 DEF Inserted, TypeOK
<1>3. feed[e] \in Feeds /\ camera(e) \in Cameras /\ e # None
  BY <1>1, StoreAssumption DEF Inserted, TypeOK, camera, Events
<1>4. camera(e) \in Serial => lastIpCamEvents_[camera(e)] = e
  BY <1>1 DEF OrderInv, Inserted
<1> Serial \subseteq Cameras
  BY DEF Serial
<1>5. UNCHANGED <<feed, lastIpCamEvents_>>
  BY <1>1 DEF Inserted
<1>6. \A i \in DOMAIN table : table[i] \in Events
  BY DEF TypeOK
<1>7. ASSUME NEW c \in Cameras, c # camera(e), LastRow(c) PROVE LastRow(c)'
  <2>1. CASE UNCHANGED table
    BY <1>5, <1>7, <2>1 DEF LastRow, camera
  <2>2. CASE RowAdded(e)
    <3>1. \A j \in DOMAIN table' : camera(table[j])' = c =>
            j \in DOMAIN table /\ table'[j] = table[j] /\ camera(table[j]) = c
      BY <1>5, <1>7, <2>2 DEF RowAdded, camera
    <3>2. \A j \in DOMAIN table : j \in DOMAIN table' /\ table'[j] = table[j]
      BY <2>2 DEF RowAdded
    <3> QED
      BY <1>5, <1>7, <3>1, <3>2 DEF LastRow
  <2> QED
    BY <1>1, <2>1, <2>2 DEF Inserted, RowLost
<1>8. CASE RowAdded(e)
  <2>1. /\ Len(table) + 1 \in DOMAIN table' /\ table'[Len(table) + 1] = e
        /\ \A j \in DOMAIN table' : j <= Len(table) + 1
    BY <1>8 DEF RowAdded
  <2>2. ASSUME NEW c \in Serial, c = camera(e) PROVE LastRow(c)'
    BY <1>3, <1>4, <1>5, <2>1, <2>2 DEF LastRow
  <2>3. ASSUME NEW d \in Events, pc'[d] = "insert", camera(d)' \in Serial
        PROVE  lastIpCamEvents_'[camera(d)'] = d
    BY <1>2, <1>5, <2>3 DEF OrderInv, camera
  <2>4. ASSUME NEW c \in Serial, c # camera(e)
        PROVE  \/ lastIpCamEvents_'[c] \in unsaved'
               \/ lastIpCamEvents_'[c] # None /\ pc'[lastIpCamEvents_'[c]] = "insert"
               \/ LastRow(c)'
    <3>1. lastIpCamEvents_[c] # None =>
            lastIpCamEvents_[c] \in Events /\ camera(lastIpCamEvents_[c]) = c
      BY DEF TypeOK, FateInv
    <3> QED
      BY <1>2, <1>5, <1>7, <1>8, <2>4, <3>1 DEF OrderInv, RowAdded
  <2> QED
    BY <2>2, <2>3, <2>4 DEF OrderInv
<1>9. CASE RowLost(e)
  BY <1>2, <1>3, <1>4, <1>5, <1>7, <1>9 DEF OrderInv, RowLost, TypeOK, camera
<1> QED
  BY <1>1, <1>8, <1>9 DEF Inserted

\* The arrival of an event says nothing of those before it.
LEMMA ArrivalOrder ==
  ASSUME TypeOK, ArrivedInv, FateInv, OrderInv, NEW f \in Feeds, OnIpcamEvent(f)
  PROVE  OrderInv'
PROOF
<1>1. /\ arrived + 1 \in Events /\ pc[arrived + 1] = "none"
      /\ feed' = [feed EXCEPT ![arrived + 1] = f]
      /\ pc' = [pc EXCEPT ![arrived + 1] = "posted"]
      /\ UNCHANGED <<lastIpCamEvents_, table, unsaved>>
  BY StoreAssumption
     DEF OnIpcamEvent, Post, Goto, TypeOK, ArrivedInv, Events, memory, database, refused
<1>2. \A d \in Events : d # arrived + 1 => pc'[d] = pc[d] /\ camera(d)' = camera(d)
  BY <1>1 DEF TypeOK, camera
<1>3. \A i \in DOMAIN table : table[i] \in Events \ {arrived + 1}
  BY <1>1 DEF TypeOK, FateInv
<1>4. \A c \in Cameras : lastIpCamEvents_[c] # None =>
        lastIpCamEvents_[c] \in Events \ {arrived + 1}
  BY <1>1 DEF TypeOK, FateInv, Kept
<1>5. \A c \in Cameras : LastRow(c) => LastRow(c)'
  BY <1>1, <1>2, <1>3 DEF LastRow
<1>6. \A d \in Events : pc'[d] = "insert" => d # arrived + 1 /\ pc[d] = "insert"
  BY <1>1, <1>2 DEF TypeOK
<1> QED
  BY <1>1, <1>2, <1>4, <1>5, <1>6 DEF OrderInv, Serial

\* Every step keeps the types.
LEMMA TypeStep ==
  ASSUME TypeOK, ArrivedInv, [Next]_vars
  PROVE  TypeOK'
PROOF
<1> USE StoreAssumption DEF TypeOK, ArrivedInv, PCs, Events, session, camera,
     arrivals, memory, database, refused
<1>1. ASSUME NEW f \in Feeds, OnIpcamEvent(f) PROVE TypeOK'
  BY <1>1 DEF OnIpcamEvent, Post, Goto
<1>2. ASSUME NEW e \in Events, Dispatch(e) PROVE TypeOK'
  BY <1>2 DEF Dispatch, Goto
<1>3. ASSUME NEW e \in Events, Lock(e) PROVE TypeOK'
  BY <1>3 DEF Lock, Free, Goto
<1>4. ASSUME NEW e \in Events, Select(e) PROVE TypeOK'
  <2>1. PICK p \in {"first", "find"} : pc' = [pc EXCEPT ![e] = p]
    BY <1>4 DEF Select, Goto
  <2>2. /\ activeCameras_' \subseteq Cameras
        /\ unread' \subseteq Events
        /\ pc[e] = "select"
        /\ UNCHANGED <<arrivals, db_mtx_, rows, lastIpCamEvents_, database,
                      skipped, read, unsaved, told>>
    BY <1>4 DEF Select, Cleared
  <2>3. pc' \in [Events -> PCs] /\ \A d \in Events : feed[d] = None <=> pc'[d] = "none"
    BY <2>1, <2>2
  <2> QED
    BY <2>2, <2>3
<1>5. ASSUME NEW e \in Events, First(e) PROVE TypeOK'
  <2>1. PICK p \in {"fill", "find"} : pc' = [pc EXCEPT ![e] = p]
    BY <1>5 DEF First, Goto
  <2>2. /\ pc[e] = "first"
        /\ UNCHANGED <<arrivals, db_mtx_, memory, database, skipped, unread, unsaved,
                      told>>
        /\ \/ UNCHANGED <<rows, read>>
           \/ /\ rows' = [rows EXCEPT ![e] = active]
              /\ read' = [read EXCEPT ![e] = active]
    BY <1>5 DEF First
  <2>4. rows' \in [Events -> SUBSET Cameras] /\ read' \in [Events -> SUBSET Cameras]
    <3>1. /\ active \in SUBSET Cameras
          /\ rows \in [Events -> SUBSET Cameras] /\ read \in [Events -> SUBSET Cameras]
      OBVIOUS
    <3> HIDE DEF TypeOK, ArrivedInv
    <3> QED
      BY <2>2, <3>1
  <2>3. pc' \in [Events -> PCs] /\ \A d \in Events : feed[d] = None <=> pc'[d] = "none"
    BY <2>1, <2>2
  <2> QED
    BY <2>2, <2>3, <2>4
<1>6. ASSUME NEW e \in Events, Fill(e) PROVE TypeOK'
  BY <1>6 DEF Fill
<1>7. ASSUME NEW e \in Events, FillEnd(e) PROVE TypeOK'
  BY <1>7 DEF FillEnd, Goto
<1>8. ASSUME NEW e \in Events, IsActive(e) PROVE TypeOK'
  <2>1. CASE Goto(e, "set") /\ UNCHANGED db_mtx_
    BY <1>8, <2>1 DEF IsActive, Goto
  <2>2. CASE Return(e)
    BY <1>8, <2>2 DEF IsActive, Return, Goto
  <2> QED
    BY <1>8, <2>1, <2>2 DEF IsActive
<1>9. ASSUME NEW e \in Events, SetLast(e) PROVE TypeOK'
  BY <1>9 DEF SetLast, Goto
<1>10. ASSUME NEW e \in Events, Insert(e) PROVE TypeOK'
  <2>1. Inserted(e)
    BY <1>10, InsertCases
  <2>2. session(e) \in Sessions
    BY <2>1 DEF Inserted
  <2>3. /\ pc' \in [Events -> PCs] /\ \A d \in Events : feed[d] = None <=> pc'[d] = "none"
        /\ db_mtx_' \in [Sessions -> Events \union {None}]
        /\ blocker' \in Sessions \union {None, "outside"}
    BY <2>1, <2>2 DEF Inserted
  <2>4. table' \in Seq(Events) /\ unsaved' \subseteq Events
    BY <2>1 DEF Inserted, RowAdded, RowLost
  <2> QED
    BY <2>1, <2>3, <2>4 DEF Inserted
<1>11. ASSUME NEW c \in Cameras, OnGetLastEvent(c) PROVE TypeOK'
  BY <1>11 DEF OnGetLastEvent
<1>12. CASE UNCHANGED vars
  BY <1>12 DEF vars
<1>13. ASSUME Environment PROVE TypeOK'
  BY <1>13, EnvironmentQuiet
<1> QED
  BY <1>1, <1>2, <1>3, <1>4, <1>5, <1>6, <1>7, <1>8, <1>9, <1>10, <1>11,
       <1>12, <1>13 DEF Next, Task, Finished, Environment

\* Exactly the events that arrived have a task.
LEMMA ArrivedStep ==
  ASSUME TypeOK, ArrivedInv, [Next]_vars
  PROVE  ArrivedInv'
PROOF
<1> USE StoreAssumption DEF TypeOK, ArrivedInv, PCs, Events, session, camera,
     arrivals, memory, database, refused
<1>1. ASSUME NEW f \in Feeds, OnIpcamEvent(f) PROVE ArrivedInv'
  BY <1>1 DEF OnIpcamEvent, Post, Goto
<1>2. ASSUME NEW e \in Events, Dispatch(e) PROVE ArrivedInv'
  BY <1>2 DEF Dispatch, Goto
<1>3. ASSUME NEW e \in Events, Lock(e) PROVE ArrivedInv'
  BY <1>3 DEF Lock, Free, Goto
<1>4. ASSUME NEW e \in Events, Select(e) PROVE ArrivedInv'
  BY <1>4 DEF Select, Goto
<1>5. ASSUME NEW e \in Events, First(e) PROVE ArrivedInv'
  BY <1>5 DEF First, Goto
<1>6. ASSUME NEW e \in Events, Fill(e) PROVE ArrivedInv'
  BY <1>6 DEF Fill
<1>7. ASSUME NEW e \in Events, FillEnd(e) PROVE ArrivedInv'
  BY <1>7 DEF FillEnd, Goto
<1>8. ASSUME NEW e \in Events, IsActive(e) PROVE ArrivedInv'
  BY <1>8 DEF IsActive, isActive, Return, Goto
<1>9. ASSUME NEW e \in Events, SetLast(e) PROVE ArrivedInv'
  BY <1>9 DEF SetLast, Goto
<1>10. ASSUME NEW e \in Events, Insert(e) PROVE ArrivedInv'
  BY <1>10 DEF Insert, Save, Return, Goto
<1>11. ASSUME NEW c \in Cameras, OnGetLastEvent(c) PROVE ArrivedInv'
  BY <1>11 DEF OnGetLastEvent
<1>12. CASE UNCHANGED vars
  BY <1>12 DEF vars
<1>13. ASSUME Environment PROVE ArrivedInv'
  BY <1>13, EnvironmentQuiet
<1> QED
  BY <1>1, <1>2, <1>3, <1>4, <1>5, <1>6, <1>7, <1>8, <1>9, <1>10, <1>11,
       <1>12, <1>13 DEF Next, Task, Finished, Environment

\* Every step keeps the mutexes with their owners.
LEMMA LockStep ==
  ASSUME TypeOK, ArrivedInv, LockInv, [Next]_vars
  PROVE  LockInv'
PROOF
<1> USE StoreAssumption DEF TypeOK, ArrivedInv, LockInv, Locked, Running,
     Events, session, camera, arrivals, memory, database, refused
<1>1. ASSUME NEW f \in Feeds, OnIpcamEvent(f) PROVE LockInv'
  BY <1>1 DEF OnIpcamEvent, Post, Goto
<1>2. ASSUME NEW e \in Events, Dispatch(e) PROVE LockInv'
  BY <1>2 DEF Dispatch, Goto
<1>3. ASSUME NEW e \in Events, Lock(e) PROVE LockInv'
  BY <1>3 DEF Lock, Free, Goto
<1>4. ASSUME NEW e \in Events, Select(e) PROVE LockInv'
  BY <1>4 DEF Select, Goto
<1>5. ASSUME NEW e \in Events, First(e) PROVE LockInv'
  BY <1>5 DEF First, Goto
<1>6. ASSUME NEW e \in Events, Fill(e) PROVE LockInv'
  BY <1>6 DEF Fill
<1>7. ASSUME NEW e \in Events, FillEnd(e) PROVE LockInv'
  BY <1>7 DEF FillEnd, Goto
<1>8. ASSUME NEW e \in Events, IsActive(e) PROVE LockInv'
  <2>1. CASE Goto(e, "set") /\ UNCHANGED db_mtx_
    BY <1>8, <2>1 DEF IsActive, Goto
  <2>2. CASE Return(e)
    <3>1. /\ pc[e] = "find" /\ pc' = [pc EXCEPT ![e] = "done"] /\ UNCHANGED feed
          /\ db_mtx_' = [db_mtx_ EXCEPT ![session(e)] = None]
      BY <1>8, <2>2 DEF IsActive, Return, Goto
    <3>2. ASSUME NEW d \in Events, pc'[d] \in Locked PROVE db_mtx_'[session(d)] = d
      <4>1. d # e /\ pc[d] \in Locked
        BY <3>1, <3>2
      <4>2. db_mtx_[session(d)] = d /\ session(d) \in Sessions
        BY <4>1
      <4>3. db_mtx_[session(e)] = e
        BY <3>1
      <4>4. session(d) # session(e)
        BY <4>1, <4>2, <4>3
      <4> HIDE DEF TypeOK, ArrivedInv, LockInv, session
      <4> QED
        BY <3>1, <4>2, <4>4
    <3> QED
      BY <3>1, <3>2
  <2> QED
    BY <1>8, <2>1, <2>2 DEF IsActive
<1>9. ASSUME NEW e \in Events, SetLast(e) PROVE LockInv'
  BY <1>9 DEF SetLast, Goto
<1>10. ASSUME NEW e \in Events, Insert(e) PROVE LockInv'
  BY <1>10 DEF Insert, Save, Return, Goto
<1>11. ASSUME NEW c \in Cameras, OnGetLastEvent(c) PROVE LockInv'
  BY <1>11 DEF OnGetLastEvent
<1>12. CASE UNCHANGED vars
  BY <1>12 DEF vars
<1>13. ASSUME Environment PROVE LockInv'
  BY <1>13, EnvironmentQuiet
<1> QED
  BY <1>1, <1>2, <1>3, <1>4, <1>5, <1>6, <1>7, <1>8, <1>9, <1>10, <1>11,
       <1>12, <1>13 DEF Next, Task, Finished, Environment

\* Every step keeps a task's rows those of its own query.
LEMMA QueryStep ==
  ASSUME TypeOK, ArrivedInv, QueryInv, [Next]_vars
  PROVE  QueryInv'
PROOF
<1> USE StoreAssumption DEF TypeOK, ArrivedInv, QueryInv, Events, session,
     camera, arrivals, memory, database, refused
<1>1. ASSUME NEW f \in Feeds, OnIpcamEvent(f) PROVE QueryInv'
  BY <1>1 DEF OnIpcamEvent, Post, Goto
<1>2. ASSUME NEW e \in Events, Dispatch(e) PROVE QueryInv'
  BY <1>2 DEF Dispatch, Goto
<1>3. ASSUME NEW e \in Events, Lock(e) PROVE QueryInv'
  BY <1>3 DEF Lock, Free, Goto
<1>4. ASSUME NEW e \in Events, Select(e) PROVE QueryInv'
  <2>1. PICK p \in {"first", "find"} : pc' = [pc EXCEPT ![e] = p]
    BY <1>4 DEF Select, Goto
  <2>2. pc[e] = "select" /\ UNCHANGED <<rows, read>>
    BY <1>4 DEF Select
  <2> QED
    BY <2>1, <2>2
<1>5. ASSUME NEW e \in Events, First(e) PROVE QueryInv'
  <2>1. PICK p \in {"fill", "find"} : pc' = [pc EXCEPT ![e] = p]
    BY <1>5 DEF First, Goto
  <2>2. \/ UNCHANGED <<rows, read>>
        \/ /\ rows' = [rows EXCEPT ![e] = active]
           /\ read' = [read EXCEPT ![e] = active]
    BY <1>5 DEF First
  <2>3. pc[e] = "first"
    BY <1>5 DEF First
  <2> QED
    BY <2>1, <2>2, <2>3
<1>6. ASSUME NEW e \in Events, Fill(e) PROVE QueryInv'
  BY <1>6 DEF Fill
<1>7. ASSUME NEW e \in Events, FillEnd(e) PROVE QueryInv'
  BY <1>7 DEF FillEnd, Goto
<1>8. ASSUME NEW e \in Events, IsActive(e) PROVE QueryInv'
  BY <1>8 DEF IsActive, isActive, Return, Goto
<1>9. ASSUME NEW e \in Events, SetLast(e) PROVE QueryInv'
  BY <1>9 DEF SetLast, Goto
<1>10. ASSUME NEW e \in Events, Insert(e) PROVE QueryInv'
  BY <1>10 DEF Insert, Save, Return, Goto
<1>11. ASSUME NEW c \in Cameras, OnGetLastEvent(c) PROVE QueryInv'
  BY <1>11 DEF OnGetLastEvent
<1>12. CASE UNCHANGED vars
  BY <1>12 DEF vars
<1>13. ASSUME Environment PROVE QueryInv'
  BY <1>13, EnvironmentQuiet
<1> QED
  BY <1>1, <1>2, <1>3, <1>4, <1>5, <1>6, <1>7, <1>8, <1>9, <1>10, <1>11,
       <1>12, <1>13 DEF Next, Task, Finished, Environment

\* What the queries read is never forgotten, and no event changes its session.
LEMMA HistoryGrows ==
  ASSUME TypeOK, ArrivedInv, QueryInv, [Next]_vars
  PROVE  /\ \A d \in Events : read[d] \subseteq read'[d]
         /\ unread \subseteq unread'
         /\ \A d \in Events : pc[d] # "none" => feed'[d] = feed[d]
PROOF
<1> DEFINE Grows == /\ \A d \in Events : read[d] \subseteq read'[d]
                    /\ unread \subseteq unread'
                    /\ \A d \in Events : pc[d] # "none" => feed'[d] = feed[d]
<1> USE StoreAssumption DEF Events, refused, arrivals
<1>1. ASSUME NEW f \in Events, First(f) PROVE Grows
  <2>1. read[f] = {} /\ (read' = read \/ read' = [read EXCEPT ![f] = active])
    BY <1>1 DEF First, QueryInv
  <2>2. \A d \in Events : read[d] \subseteq read'[d]
    BY <2>1 DEF TypeOK
  <2> QED
    BY <1>1, <2>2 DEF First
<1>2. ASSUME NEW f \in Events, Lock(f) \/ Fill(f) \/ FillEnd(f) \/ IsActive(f) \/ SetLast(f)
      PROVE  Grows
  BY <1>2 DEF Lock, Fill, FillEnd, IsActive, SetLast
<1>3. ASSUME NEW f \in Events, Insert(f) PROVE Grows
  BY <1>3 DEF Insert
<1>4. ASSUME NEW f \in Events, Select(f) PROVE Grows
  <2>1. unread \subseteq unread' /\ UNCHANGED <<read, feed>>
    BY <1>4 DEF Select
  <2> QED
    BY <2>1
<1>5. ASSUME NEW f \in Feeds, OnIpcamEvent(f) PROVE Grows
  BY <1>5 DEF OnIpcamEvent, TypeOK, ArrivedInv
<1>6. ASSUME NEW f \in Events, Dispatch(f) PROVE Grows
  BY <1>6 DEF Dispatch
<1>7. ASSUME NEW d \in Cameras, OnGetLastEvent(d) PROVE Grows
  BY <1>7 DEF OnGetLastEvent
<1>8. CASE Environment
  BY <1>8, EnvironmentQuiet
<1>9. CASE UNCHANGED vars
  BY <1>9 DEF vars
<1> QED
  BY <1>1, <1>2, <1>3, <1>4, <1>5, <1>6, <1>7, <1>8, <1>9
     DEF Next, Task, Finished, Environment

\* A camera that may be in the list of a task may be in it from then on.
LEMMA SeenStep ==
  ASSUME TypeOK, ArrivedInv, QueryInv, [Next]_vars,
         NEW e \in Events, NEW c, pc[e] # "none", Seen(e, c)
  PROVE  Seen(e, c)'
PROOF
<1>1. CASE c \in read[e]
  BY <1>1, HistoryGrows DEF Seen
<1>2. ASSUME NEW d \in Events, c \in read[d], e \in unread \/ session(d) # session(e)
      PROVE  Seen(e, c)'
  <2>1. pc[d] # "none"
    BY <1>2 DEF QueryInv
  <2>2. c \in read'[d] /\ feed'[d] = feed[d] /\ feed'[e] = feed[e]
    BY <1>2, <2>1, HistoryGrows
  <2> QED
    BY <1>2, <2>2, HistoryGrows DEF Seen, session
<1> QED
  BY <1>1, <1>2 DEF Seen

\* A step that adds nothing to the list, where no task comes to setActive or past the
\* check but those that find their camera in the list.
LEMMA ListKept ==
  ASSUME TypeOK, ArrivedInv, QueryInv, ListInv, [Next]_vars,
         activeCameras_' \subseteq activeCameras_,
         \A d \in Events : pc'[d] \in {"first", "fill", "find"} =>
                             pc[d] \in {"first", "fill", "find"},
         \A d \in Events : Checking /\ pc'[d] \in {"set", "insert"} =>
                             \/ pc[d] \in {"set", "insert"}
                             \/ pc[d] = "find" /\ isActive(d)
  PROVE  ListInv'
PROOF
<1>1. \A c \in activeCameras_' : \E d \in Events : c \in read'[d]
  BY HistoryGrows DEF ListInv
<1>2. ASSUME NEW d \in Events, pc'[d] \in {"first", "fill", "find"}, NEW c \in activeCameras_'
      PROVE  Seen(d, c)'
  BY <1>2, SeenStep DEF ListInv
<1>3. ASSUME NEW d \in Events, Checking, pc'[d] \in {"set", "insert"}
      PROVE  Seen(d, camera(d))'
  <2>1. PICK c : c = camera(d)
    OBVIOUS
  <2>2. pc[d] \in {"set", "insert", "find"} /\ Seen(d, c)
    BY <1>3, <2>1 DEF ListInv, isActive
  <2>3. Seen(d, c)' /\ feed'[d] = feed[d]
    BY <2>2, SeenStep, HistoryGrows
  <2> QED
    BY <2>1, <2>3 DEF camera
<1> QED
  BY <1>1, <1>2, <1>3 DEF ListInv

\* A task of another session, or of none, sees what the owner of the mutex adds.
LEMMA FillList ==
  ASSUME TypeOK, ArrivedInv, LockInv, QueryInv, ListInv, NEW e \in Events, Fill(e)
  PROVE  ListInv'
PROOF
<1>1. PICK c \in rows[e] : activeCameras_' = activeCameras_ \union {c}
  BY DEF Fill
<1>2. /\ pc[e] = "fill" /\ c \in read[e]
      /\ UNCHANGED <<pc, feed, read, unread>>
  BY DEF Fill, QueryInv, arrivals, refused
<1>3. ASSUME NEW d \in Events, pc[d] \in {"first", "fill", "find"} PROVE Seen(d, c)
  <2>1. d # e => session(d) # session(e)
    BY <1>2, <1>3 DEF LockInv, Locked, Running
  <2> QED
    BY <1>2, <2>1 DEF Seen
<1>4. \A d \in Events : \A k : Seen(d, k) => Seen(d, k)'
  BY <1>2 DEF Seen, session
<1>5. \A k \in activeCameras_' : \E d \in Events : k \in read'[d]
  BY <1>1, <1>2 DEF ListInv
<1>6. ASSUME NEW d \in Events, pc'[d] \in {"first", "fill", "find"}, NEW k \in activeCameras_'
      PROVE  Seen(d, k)'
  BY <1>1, <1>2, <1>3, <1>4, <1>6 DEF ListInv
<1>7. \A d \in Events : Checking /\ pc'[d] \in {"set", "insert"} => Seen(d, camera(d))'
  BY <1>2, <1>4 DEF ListInv, Seen, session, camera
<1> QED
  BY <1>5, <1>6, <1>7 DEF ListInv

\* A query clears the list, or fails and leaves it to the task.
LEMMA SelectList ==
  ASSUME TypeOK, ArrivedInv, QueryInv, ListInv, NEW e \in Events, Select(e), [Next]_vars
  PROVE  ListInv'
PROOF
<1>1. pc[e] = "select" /\ UNCHANGED <<feed, read>>
  BY DEF Select, arrivals
<1>2. \A d \in Events : pc'[d] \in {"set", "insert"} => pc'[d] = pc[d]
  BY DEF Select, Goto, TypeOK
<1>3. \A d \in Events : Checking /\ pc'[d] \in {"set", "insert"} => Seen(d, camera(d))'
  <2>1. ASSUME NEW d \in Events, Checking, pc'[d] \in {"set", "insert"}
        PROVE  Seen(d, camera(d))'
    <3>1. PICK c : c = camera(d)
      OBVIOUS
    <3>2. Seen(d, c)'
      BY <1>2, <2>1, <3>1, SeenStep DEF ListInv
    <3> QED
      BY <1>1, <3>1, <3>2 DEF camera
  <2> QED
    BY <2>1
<1>4. CASE activeCameras_' = {}
  BY <1>3, <1>4 DEF ListInv
<1>5. CASE unread' = unread \union {e} /\ pc' = [pc EXCEPT ![e] = "find"] /\ UNCHANGED activeCameras_
  <2>1. \A c \in activeCameras_' : \E d \in Events : c \in read'[d]
    BY <1>1, <1>5 DEF ListInv
  <2>2. \A c \in activeCameras_' : Seen(e, c)'
    BY <1>5, <2>1 DEF Seen
  <2>3. ASSUME NEW d \in Events, d # e, pc'[d] \in {"first", "fill", "find"},
               NEW c \in activeCameras_'
        PROVE  Seen(d, c)'
    <3>1. pc[d] = pc'[d]
      BY <1>5, <2>3 DEF TypeOK
    <3> QED
      BY <1>5, <2>3, <3>1, SeenStep DEF ListInv
  <2> QED
    BY <1>3, <2>1, <2>2, <2>3 DEF ListInv
<1> QED
  BY <1>4, <1>5 DEF Select, Cleared, Goto

\* Every step keeps the list to what queries saw.
LEMMA ListStep ==
  ASSUME TypeOK, ArrivedInv, LockInv, QueryInv, ListInv, [Next]_vars
  PROVE  ListInv'
PROOF
<1> USE StoreAssumption DEF Events, memory
<1>1. ASSUME NEW f \in Feeds, OnIpcamEvent(f) PROVE ListInv'
  <2>1. /\ \A d \in Events : pc'[d] = pc[d] \/ pc'[d] = "posted"
        /\ UNCHANGED activeCameras_
    BY <1>1 DEF OnIpcamEvent, Post, Goto, TypeOK
  <2> QED
    BY <2>1, ListKept
<1>2. ASSUME NEW e \in Events, Dispatch(e) PROVE ListInv'
  <2>1. /\ \A d \in Events : pc'[d] = pc[d] \/ pc'[d] = "lock"
        /\ UNCHANGED activeCameras_
    BY <1>2 DEF Dispatch, Goto, TypeOK
  <2> QED
    BY <2>1, ListKept
<1>3. ASSUME NEW e \in Events, Lock(e) PROVE ListInv'
  <2>1. /\ \A d \in Events : pc'[d] = pc[d] \/ pc'[d] = "select" \/ (pc'[d] = "set" /\ ~Checking)
        /\ UNCHANGED activeCameras_
    BY <1>3 DEF Lock, Goto, TypeOK
  <2> QED
    BY <2>1, ListKept
<1>4. ASSUME NEW e \in Events, Select(e) PROVE ListInv'
  BY <1>4, SelectList
<1>5. ASSUME NEW e \in Events, First(e) PROVE ListInv'
  <2>1. /\ pc[e] = "first" /\ \E p \in {"fill", "find"} : pc' = [pc EXCEPT ![e] = p]
        /\ UNCHANGED activeCameras_
    BY <1>5 DEF First, Goto
  <2>2. \A d \in Events : pc'[d] = pc[d] \/ (d = e /\ pc'[d] \in {"fill", "find"})
    BY <2>1 DEF TypeOK
  <2> QED
    BY <2>1, <2>2, ListKept
<1>6. ASSUME NEW e \in Events, Fill(e) PROVE ListInv'
  BY <1>6, FillList
<1>7. ASSUME NEW e \in Events, FillEnd(e) PROVE ListInv'
  <2>1. /\ pc[e] = "fill" /\ \A d \in Events : pc'[d] = pc[d] \/ (d = e /\ pc'[d] = "find")
        /\ UNCHANGED activeCameras_
    BY <1>7 DEF FillEnd, Goto, TypeOK
  <2> QED
    BY <2>1, ListKept
<1>8. ASSUME NEW e \in Events, IsActive(e) PROVE ListInv'
  <2>1. /\ pc[e] = "find"
        /\ \A d \in Events : \/ pc'[d] = pc[d]
                             \/ d = e /\ pc'[d] = "set" /\ isActive(d)
                             \/ pc'[d] = "done"
        /\ UNCHANGED activeCameras_
    BY <1>8 DEF IsActive, Return, Goto, TypeOK
  <2> QED
    BY <2>1, ListKept
<1>9. ASSUME NEW e \in Events, SetLast(e) PROVE ListInv'
  <2>1. /\ pc[e] = "set" /\ \A d \in Events : pc'[d] = pc[d] \/ (d = e /\ pc'[d] = "insert")
        /\ UNCHANGED activeCameras_
    BY <1>9 DEF SetLast, Goto, TypeOK
  <2> QED
    BY <2>1, ListKept
<1>10. ASSUME NEW e \in Events, Insert(e) PROVE ListInv'
  <2>1. /\ \A d \in Events : pc'[d] = pc[d] \/ pc'[d] = "done"
        /\ UNCHANGED activeCameras_
    BY <1>10 DEF Insert, Return, Goto, TypeOK
  <2> QED
    BY <2>1, ListKept
<1>11. ASSUME NEW c \in Cameras, OnGetLastEvent(c) PROVE ListInv'
  BY <1>11, ListKept DEF OnGetLastEvent
<1>12. CASE UNCHANGED vars
  BY <1>12, ListKept DEF vars
<1>13. ASSUME Environment PROVE ListInv'
  BY <1>13, EnvironmentQuiet, ListKept
<1> QED
  BY <1>1, <1>2, <1>3, <1>4, <1>5, <1>6, <1>7, <1>8, <1>9, <1>10, <1>11,
       <1>12, <1>13 DEF Next, Task, Finished, Environment

\* No step stores an event that was not admitted.
LEMMA StoredStep ==
  ASSUME TypeOK, ArrivedInv, QueryInv, ListInv, FateInv, OnlyActiveStored, [Next]_vars
  PROVE  OnlyActiveStored'
PROOF
<1>1. ASSUME NEW e \in Events, pc[e] # "none", Admitted(e) PROVE Admitted(e)'
  <2>1. PICK c : c = camera(e)
    OBVIOUS
  <2>2. Seen(e, c)
    BY <1>1, <2>1 DEF Admitted, Seen
  <2>3. Seen(e, c)' /\ camera(e)' = c
    BY <1>1, <2>1, <2>2, SeenStep, HistoryGrows DEF camera
  <2> QED
    BY <2>3 DEF Admitted, Seen
<1>2. \A i \in DOMAIN table : table[i] \in Events /\ pc[table[i]] # "none"
  BY DEF TypeOK, FateInv
<1>3. \A c \in Cameras : lastIpCamEvents_[c] # None =>
        lastIpCamEvents_[c] \in Events /\ pc[lastIpCamEvents_[c]] # "none"
  BY DEF TypeOK, FateInv, Kept
<1>4. CASE UNCHANGED <<lastIpCamEvents_, table>>
  BY <1>1, <1>2, <1>3, <1>4 DEF OnlyActiveStored
<1>5. ASSUME NEW e \in Events, Checking, pc[e] \in {"set", "insert"} PROVE Admitted(e)'
  BY <1>1, <1>5 DEF ListInv, Seen, Admitted
<1>6. ASSUME NEW e \in Events, SetLast(e) PROVE OnlyActiveStored'
  <2>1. /\ pc[e] = "set" /\ UNCHANGED table
        /\ \A c \in Cameras : lastIpCamEvents_'[c] \in {e, lastIpCamEvents_[c]}
    BY <1>6 DEF SetLast, database, TypeOK
  <2> QED
    BY <1>1, <1>2, <1>3, <1>5, <2>1 DEF OnlyActiveStored
<1>7. ASSUME NEW e \in Events, Insert(e) PROVE OnlyActiveStored'
  <2>1. pc[e] = "insert" /\ UNCHANGED lastIpCamEvents_
    BY <1>7 DEF Insert, memory
  <2>2. \A i \in DOMAIN table' : table'[i] = e \/ (i \in DOMAIN table /\ table'[i] = table[i])
    BY <1>7, InsertCases DEF Inserted, RowAdded, RowLost
  <2> QED
    BY <1>1, <1>2, <1>3, <1>5, <2>1, <2>2 DEF OnlyActiveStored
<1>8. ASSUME NEW e \in Events, \/ Lock(e) \/ Select(e) \/ First(e) \/ Fill(e)
                               \/ FillEnd(e) \/ IsActive(e) \/ Dispatch(e)
      PROVE  UNCHANGED <<lastIpCamEvents_, table>>
  BY <1>8 DEF Lock, Select, First, Fill, FillEnd, IsActive, Dispatch, memory, database
<1>9. ASSUME NEW f \in Feeds, OnIpcamEvent(f) PROVE UNCHANGED <<lastIpCamEvents_, table>>
  BY <1>9 DEF OnIpcamEvent, memory, database
<1>10. ASSUME NEW c \in Cameras, OnGetLastEvent(c) PROVE UNCHANGED <<lastIpCamEvents_, table>>
  BY <1>10 DEF OnGetLastEvent, memory, database
<1>11. CASE UNCHANGED vars
  BY <1>4, <1>11 DEF vars, memory, database
<1>12. CASE Environment
  BY <1>4, <1>12, EnvironmentQuiet
<1> QED
  BY <1>4, <1>6, <1>7, <1>8, <1>9, <1>10, <1>11, <1>12
     DEF Next, Task, Finished, Environment

\* What was shown stays on its way to its fate.
LEMMA FateStep ==
  ASSUME TypeOK, ArrivedInv, FateInv, [Next]_vars
  PROVE  FateInv'
PROOF
<1> USE StoreAssumption DEF TypeOK, ArrivedInv, FateInv, Kept, Events,
     session, camera, arrivals, memory, database, refused
<1>1. ASSUME NEW f \in Feeds, OnIpcamEvent(f) PROVE FateInv'
  BY <1>1 DEF OnIpcamEvent, Post, Goto
<1>2. ASSUME NEW e \in Events, Dispatch(e) PROVE FateInv'
  BY <1>2 DEF Dispatch, Goto
<1>3. ASSUME NEW e \in Events, Lock(e) PROVE FateInv'
  BY <1>3 DEF Lock, Free, Goto
<1>4. ASSUME NEW e \in Events, Select(e) PROVE FateInv'
  <2>1. \E p : pc' = [pc EXCEPT ![e] = p] /\ p # "done"
    BY <1>4 DEF Select, Goto
  <2> QED
    BY <1>4, <2>1, QuietFate DEF Select
<1>5. ASSUME NEW e \in Events, First(e) PROVE FateInv'
  <2>1. \E p : pc' = [pc EXCEPT ![e] = p] /\ p # "done"
    BY <1>5 DEF First, Goto
  <2>2. pc[e] = "first" /\ UNCHANGED <<feed, table, unsaved, lastIpCamEvents_, told, skipped>>
    BY <1>5 DEF First
  <2> HIDE DEF TypeOK, FateInv
  <2> QED
    BY <2>1, <2>2, QuietFate
<1>6. ASSUME NEW e \in Events, Fill(e) PROVE FateInv'
  BY <1>6 DEF Fill
<1>7. ASSUME NEW e \in Events, FillEnd(e) PROVE FateInv'
  BY <1>7 DEF FillEnd, Goto
<1>8. ASSUME NEW e \in Events, IsActive(e) PROVE FateInv'
  <2> HIDE DEF TypeOK, FateInv
  <2>1. CASE pc' = [pc EXCEPT ![e] = "set"] /\ UNCHANGED skipped
    BY <1>8, <2>1, QuietFate DEF IsActive
  <2>2. CASE pc' = [pc EXCEPT ![e] = "done"] /\ skipped' = skipped \union {e}
    BY <1>8, <2>2, QuietFate DEF IsActive
  <2> QED
    BY <1>8, <2>1, <2>2 DEF IsActive, Return, Goto
<1>9. ASSUME NEW e \in Events, SetLast(e) PROVE FateInv'
  <2>1. /\ pc[e] = "set" /\ pc' = [pc EXCEPT ![e] = "insert"]
        /\ lastIpCamEvents_' = [lastIpCamEvents_ EXCEPT ![camera(e)] = e]
        /\ UNCHANGED <<feed, table, skipped, unsaved, told>>
    BY <1>9 DEF SetLast, Goto
  <2>2. \A d \in Events : pc[d] = "done" => pc'[d] = "done"
    BY <2>1
  <2>3. \A d \in Events : Kept(d) => Kept(d)'
    BY <2>1
  <2>4. Kept(e)'
    BY <2>1
  <2>5. \A c \in Cameras : \/ lastIpCamEvents_'[c] = lastIpCamEvents_[c]
                           \/ lastIpCamEvents_'[c] = e /\ c = camera(e)
    BY <2>1
  <2> HIDE DEF Kept
  <2> QED
    BY <2>1, <2>2, <2>3, <2>4, <2>5
<1>10. ASSUME NEW e \in Events, Insert(e) PROVE FateInv'
  BY <1>10, InsertFate
<1>11. ASSUME NEW c \in Cameras, OnGetLastEvent(c) PROVE FateInv'
  <2>1. /\ told' = told \union {lastIpCamEvents_[c]}
        /\ UNCHANGED <<pc, feed, table, skipped, unsaved, lastIpCamEvents_>>
        /\ Kept(lastIpCamEvents_[c])
    BY <1>11 DEF OnGetLastEvent
  <2> HIDE DEF TypeOK
  <2> QED
    BY <2>1
<1>12. CASE UNCHANGED vars
  <2> HIDE DEF TypeOK
  <2> QED
    BY <1>12 DEF vars
<1>13. ASSUME Environment PROVE FateInv'
  <2>1. UNCHANGED <<feed, pc, table, skipped, unsaved, lastIpCamEvents_, told>>
    BY <1>13, EnvironmentQuiet
  <2> HIDE DEF TypeOK
  <2> QED
    BY <2>1
<1> QED
  BY <1>1, <1>2, <1>3, <1>4, <1>5, <1>6, <1>7, <1>8, <1>9, <1>10, <1>11,
       <1>12, <1>13 DEF Next, Task, Finished, Environment

\* Rows and last events of a camera follow one order.
LEMMA OrderStep ==
  ASSUME TypeOK, ArrivedInv, LockInv, FateInv, OrderInv, [Next]_vars
  PROVE  OrderInv'
PROOF
<1> USE StoreAssumption DEF TypeOK, ArrivedInv, LockInv, FateInv, Kept,
     OrderInv, LastRow, Locked, Running, Events, session, camera, arrivals,
     memory, database, refused
<1>1. ASSUME NEW f \in Feeds, OnIpcamEvent(f) PROVE OrderInv'
  BY <1>1, ArrivalOrder
<1>2. ASSUME NEW e \in Events, Dispatch(e) PROVE OrderInv'
  <2>1. /\ pc[e] = "posted" /\ pc' = [pc EXCEPT ![e] = "lock"]
        /\ UNCHANGED <<feed, table, unsaved, lastIpCamEvents_>>
    BY <1>2 DEF Dispatch, Goto
  <2> HIDE DEF TypeOK, FateInv, OrderInv
  <2> QED
    BY <2>1, QuietOrder
<1>3. ASSUME NEW e \in Events, Lock(e) PROVE OrderInv'
  BY <1>3 DEF Lock, Free, Goto
<1>4. ASSUME NEW e \in Events, Select(e) PROVE OrderInv'
  <2>1. \E p : pc' = [pc EXCEPT ![e] = p] /\ p # "insert"
    BY <1>4 DEF Select, Goto
  <2>2. pc[e] = "select" /\ UNCHANGED <<feed, table, unsaved, lastIpCamEvents_>>
    BY <1>4 DEF Select
  <2> HIDE DEF TypeOK, FateInv, OrderInv
  <2> QED
    BY <2>1, <2>2, QuietOrder
<1>5. ASSUME NEW e \in Events, First(e) PROVE OrderInv'
  <2>1. \E p : pc' = [pc EXCEPT ![e] = p] /\ p # "insert"
    BY <1>5 DEF First, Goto
  <2>2. pc[e] = "first" /\ UNCHANGED <<feed, table, unsaved, lastIpCamEvents_>>
    BY <1>5 DEF First
  <2> HIDE DEF TypeOK, FateInv, OrderInv
  <2> QED
    BY <2>1, <2>2, QuietOrder
<1>6. ASSUME NEW e \in Events, Fill(e) PROVE OrderInv'
  BY <1>6 DEF Fill
<1>7. ASSUME NEW e \in Events, FillEnd(e) PROVE OrderInv'
  BY <1>7 DEF FillEnd, Goto
<1>8. ASSUME NEW e \in Events, IsActive(e) PROVE OrderInv'
  <2>1. \E p : pc' = [pc EXCEPT ![e] = p] /\ p # "insert"
    BY <1>8 DEF IsActive, Return, Goto
  <2>2. pc[e] = "find" /\ UNCHANGED <<feed, table, unsaved, lastIpCamEvents_>>
    BY <1>8 DEF IsActive
  <2> HIDE DEF TypeOK, FateInv, OrderInv
  <2> QED
    BY <2>1, <2>2, QuietOrder
<1>9. ASSUME NEW e \in Events, SetLast(e) PROVE OrderInv'
  <2>1. ASSUME NEW d \in Events, pc[d] = "insert", camera(d) \in Serial
        PROVE  camera(d) # camera(e)
    <3>1. camera(d) = camera(e) => session(d) = session(e)
      <4>1. pc[e] = "set" /\ feed[d] \in Feeds /\ feed[e] \in Feeds
        BY <1>9, <2>1 DEF SetLast
      <4> QED
        BY <2>1, <4>1 DEF Serial
    <3>2. db_mtx_[session(d)] = d /\ db_mtx_[session(e)] = e
      BY <1>9, <2>1 DEF SetLast
    <3>3. d # e
      BY <1>9, <2>1 DEF SetLast
    <3> QED
      BY <3>1, <3>2, <3>3
  <2>2. camera(e) \in Cameras /\ e # None
    BY <1>9 DEF SetLast
  <2>3. \A c \in Cameras : lastIpCamEvents_'[c] =
          IF c = camera(e) THEN e ELSE lastIpCamEvents_[c]
    BY <1>9 DEF SetLast
  <2>4. \A d \in Events : pc'[d] = IF d = e THEN "insert" ELSE pc[d]
    BY <1>9 DEF SetLast, Goto
  <2>5. \A d \in Events : camera(d)' = camera(d)
    BY <1>9 DEF SetLast
  <2>6. Serial \subseteq Cameras /\ Serial' = Serial
    BY DEF Serial
  <2>8. \A c \in Serial : c # camera(e) /\ LastRow(c) => LastRow(c)'
    BY <1>9, <2>3, <2>5, <2>6 DEF SetLast
  <2>7. ASSUME NEW d \in Events, pc'[d] = "insert", camera(d) \in Serial
        PROVE  lastIpCamEvents_'[camera(d)] = d
    <3>1. CASE d = e
      BY <2>2, <2>3, <3>1
    <3>2. CASE d # e
      <4>1. pc[d] = "insert"
        BY <2>4, <2>7, <3>2
      <4>2. lastIpCamEvents_[camera(d)] = d /\ camera(d) # camera(e)
        BY <2>1, <2>7, <4>1
      <4> QED
        BY <2>3, <2>6, <2>7, <4>2
    <3> QED
      BY <3>1, <3>2
  <2>9. UNCHANGED <<table, unsaved>>
    BY <1>9 DEF SetLast
  <2>10. ASSUME NEW c \in Serial
         PROVE  \/ lastIpCamEvents_'[c] \in unsaved'
                \/ lastIpCamEvents_'[c] # None /\ pc'[lastIpCamEvents_'[c]] = "insert"
                \/ LastRow(c)'
    <3>1. CASE c = camera(e)
      BY <2>2, <2>3, <2>4, <3>1
    <3>2. CASE c # camera(e)
      <4>1. lastIpCamEvents_'[c] = lastIpCamEvents_[c]
        BY <2>3, <2>6, <3>2
      <4>2. lastIpCamEvents_[c] # None => lastIpCamEvents_[c] \in Events
        BY <2>6
      <4> HIDE DEF LastRow
      <4> QED
        BY <1>9, <2>4, <2>6, <2>8, <2>9, <3>2, <4>1, <4>2 DEF SetLast
    <3> QED
      BY <3>1, <3>2
  <2> QED
    BY <2>5, <2>6, <2>7, <2>10
<1>10. ASSUME NEW e \in Events, Insert(e) PROVE OrderInv'
  BY <1>10, InsertOrder
<1>11. ASSUME NEW c \in Cameras, OnGetLastEvent(c) PROVE OrderInv'
  BY <1>11 DEF OnGetLastEvent
<1>12. CASE UNCHANGED vars
  BY <1>12 DEF vars
<1>13. ASSUME Environment PROVE OrderInv'
  <2>1. UNCHANGED <<feed, pc, table, skipped, unsaved, lastIpCamEvents_, told>>
    BY <1>13, EnvironmentQuiet
  <2> HIDE DEF TypeOK
  <2> QED
    BY <2>1 DEF Serial
<1> QED
  BY <1>1, <1>2, <1>3, <1>4, <1>5, <1>6, <1>7, <1>8, <1>9, <1>10, <1>11,
       <1>12, <1>13 DEF Next, Task, Finished, Environment

-----------------------------------------------------------------------------
\* The inductive invariant holds for every set of sessions, cameras and threads,
\* whatever queries, BEGINs, INSERTs and COMMITs fail.
THEOREM Invariance == Spec => []IInv
PROOF
<1>1. Init => IInv
  <2> USE StoreAssumption DEF Init
  <2>1. Init => TypeOK /\ ArrivedInv
    BY DEF TypeOK, ArrivedInv, PCs, Events
  <2>2. Init => LockInv /\ QueryInv /\ ListInv /\ OnlyActiveStored
    BY DEF LockInv, QueryInv, ListInv, OnlyActiveStored, Locked, Running
  <2>3. Init => FateInv /\ OrderInv
    BY DEF FateInv, OrderInv, LastRow, Serial
  <2> QED
    BY <2>1, <2>2, <2>3 DEF IInv
<1>2. IInv /\ [Next]_vars => IInv'
  BY TypeStep, ArrivedStep, LockStep, QueryStep, ListStep, StoredStep, FateStep, OrderStep
     DEF IInv
<1> QED
  BY <1>1, <1>2, PTL DEF Spec

\* The variables keep their types.
THEOREM TypeCorrect == Spec => []TypeOK
PROOF
<1>1. IInv => TypeOK
  BY DEF IInv
<1> QED
  BY <1>1, Invariance, PTL

\* Every event remembered or saved was admitted by a query, its own or one that may
\* have filled its list, however the sessions race on the list, the table of active
\* cameras is edited, and whichever queries fail.
THEOREM OnlyActiveCorrect == Spec => []OnlyActiveStored
PROOF
<1>1. IInv => OnlyActiveStored
  BY DEF IInv
<1> QED
  BY <1>1, Invariance, PTL

\* What get_last_event answered with is saved, unless its INSERT or COMMIT failed.
THEOREM ToldCorrect == Spec => []ToldIsSaved
PROOF
<1>1. IInv => ToldIsSaved
  BY DEF IInv, FateInv, Kept, ToldIsSaved
<1> QED
  BY <1>1, Invariance, PTL

\* The last event of a serial camera whose tasks are done is its last row, whatever
\* the sessions of the other cameras do.
THEOREM MemoryCorrect == Spec => []MemoryMatchesTable
PROOF
<1>1. IInv => MemoryMatchesTable
  <2> SUFFICES ASSUME IInv, NEW c \in Serial,
                      {e \in 1 .. arrived : camera(e) = c} \intersect unsaved = {},
                      \A e \in {d \in 1 .. arrived : camera(d) = c} : pc[e] \in {"posted", "done"}
               PROVE  LET Of == {e \in 1 .. arrived : camera(e) = c}
                          Rows == {i \in DOMAIN table : table[i] \in Of}
                      IN  IF Rows = {} THEN lastIpCamEvents_[c] = None
                          ELSE \E i \in Rows : /\ lastIpCamEvents_[c] = table[i]
                                               /\ \A j \in Rows : j <= i
    BY DEF MemoryMatchesTable
  <2>1. \A e \in Events : pc[e] # "none" => e \in 1 .. arrived
    BY StoreAssumption DEF IInv, TypeOK, ArrivedInv, Events
  <2>2. /\ c \in Cameras
        /\ lastIpCamEvents_[c] # None =>
             /\ lastIpCamEvents_[c] \in 1 .. arrived
             /\ camera(lastIpCamEvents_[c]) = c
    BY <2>1 DEF IInv, TypeOK, FateInv, Kept, Serial
  <2>3. \A i \in DOMAIN table : table[i] \in 1 .. arrived
    BY <2>1 DEF IInv, TypeOK, FateInv
  <2>4. None \notin unsaved
    BY StoreAssumption DEF IInv, TypeOK, Events
  <2>5. LastRow(c)
    BY <2>2, <2>4 DEF IInv, OrderInv
  <2> QED
    BY <2>2, <2>3, <2>5 DEF LastRow
<1> QED
  BY <1>1, Invariance, PTL

-----------------------------------------------------------------------------
\* What the log knows of an event besides its arrival and its task.
outcomes == <<skipped, unsaved, told, read>>

\* A task that goes on changes the fate of its own event only.
LEMMA FateChange ==
  ASSUME TypeOK, NEW e \in Events, NEW p \in PCs, pc' = [pc EXCEPT ![e] = p],
         \A d \in Events \ {e} : /\ d \in skipped' <=> d \in skipped
                                 /\ d \in unsaved' <=> d \in unsaved
  PROVE  fates' = [fates EXCEPT ![e] = Fate(e)']
PROOF
<1>1. \A d \in Events : d # e => pc'[d] = pc[d]
  BY DEF TypeOK
<1>2. ASSUME NEW d \in Events, d # e PROVE Fate(d)' = Fate(d)
  <2>1. /\ pc'[d] = pc[d]
        /\ d \in skipped' <=> d \in skipped
        /\ d \in unsaved' <=> d \in unsaved
    BY <1>1, <1>2
  <2> QED
    BY <2>1 DEF Fate
<1> QED
  BY <1>2 DEF fates

\* A task that waits before and after its step leaves the log as it is.
LEMMA WaitingStep ==
  ASSUME TypeOK, NEW e \in Events, NEW p \in PCs \ {"none", "insert", "done"},
         pc[e] \notin {"none", "insert", "done"}, pc' = [pc EXCEPT ![e] = p],
         UNCHANGED <<arrivals, table, outcomes, lastIpCamEvents_>>
  PROVE  UNCHANGED Log!vars
PROOF
<1>1. pc'[e] = p
  BY DEF TypeOK
<1>2. Fate(e) = "waiting" /\ Fate(e)' = "waiting"
  BY <1>1 DEF Fate
<1>3. fates' = [fates EXCEPT ![e] = Fate(e)']
  BY FateChange DEF outcomes
<1>4. UNCHANGED fates
  BY <1>2, <1>3 DEF fates
<1> QED
  BY <1>4 DEF Log!vars, cameras, camera, found, arrivals, outcomes

\* Every step of the store is a step of the log or leaves it as it is.
LEMMA LogStep ==
  ASSUME IInv, IInv', [Next]_vars
  PROVE  [Log!Next]_(Log!vars)
PROOF
<1> USE StoreAssumption DEF Events
<1>1. ASSUME NEW f \in Feeds, OnIpcamEvent(f) PROVE Log!Next
  <2>1. PICK e \in Events :
          /\ pc[e] = "none" /\ feed[e] = None
          /\ feed' = [feed EXCEPT ![e] = f] /\ pc' = [pc EXCEPT ![e] = "posted"]
          /\ UNCHANGED <<memory, table, outcomes>>
    <3>1. /\ arrived + 1 \in Events
          /\ pc[arrived + 1] = "none" /\ feed[arrived + 1] = None
      BY <1>1 DEF OnIpcamEvent, IInv, TypeOK, ArrivedInv
    <3> QED
      BY <1>1, <3>1 DEF OnIpcamEvent, Post, Goto, database, refused, outcomes
  <2>2. f[2] \in Cameras /\ f # None
    OBVIOUS
  <2>3. fates' = [fates EXCEPT ![e] = Fate(e)']
    BY <2>1, FateChange DEF IInv, PCs, outcomes
  <2>4. Fate(e) = "absent" /\ Fate(e)' = "waiting"
    BY <2>1 DEF Fate, IInv, TypeOK
  <2>5. cameras' = [cameras EXCEPT ![e] = f[2]]
    BY <2>1, <2>2 DEF cameras, camera, IInv, TypeOK
  <2>6. Log!Arrive(e, f[2])
    BY <2>1, <2>3, <2>4, <2>5
       DEF Log!Arrive, Log!Becomes, fates, found, memory, outcomes
  <2> QED
    BY <2>1, <2>2, <2>6 DEF Log!Next
<1>2. ASSUME NEW e \in Events,
             \/ Dispatch(e) \/ Lock(e) \/ Select(e) \/ FillEnd(e)
      PROVE  UNCHANGED Log!vars
  <2>1. PICK p \in PCs \ {"none", "insert", "done"} :
          /\ pc' = [pc EXCEPT ![e] = p]
          /\ pc[e] \notin {"none", "insert", "done"}
          /\ UNCHANGED <<arrivals, table, outcomes, lastIpCamEvents_>>
    BY <1>2 DEF Dispatch, Lock, Select, FillEnd, Goto, PCs, memory, database, refused,
                outcomes
  <2> QED
    BY <2>1, WaitingStep DEF IInv
<1>3. ASSUME NEW e \in Events, Fill(e) PROVE UNCHANGED Log!vars
  BY <1>3 DEF Fill, Log!vars, fates, Fate, cameras, camera, found, arrivals,
              database, refused
<1>4. ASSUME NEW e \in Events, First(e) PROVE [Log!Next]_(Log!vars)
  <2>1. PICK p \in {"fill", "find"} : pc[e] = "first" /\ pc' = [pc EXCEPT ![e] = p]
    BY <1>4 DEF First, Goto
  <2>2. UNCHANGED <<arrivals, lastIpCamEvents_, table, skipped, unsaved, told>>
    BY <1>4 DEF First, memory, database
  <2>3. CASE UNCHANGED read
    BY <2>1, <2>2, <2>3, WaitingStep DEF IInv, PCs, outcomes
  <2>4. CASE read' = [read EXCEPT ![e] = active]
    <3>1. fates' = [fates EXCEPT ![e] = Fate(e)'] /\ Fate(e) = "waiting" /\ Fate(e)' = "waiting"
      BY <2>1, <2>2, FateChange DEF IInv, PCs, Fate, TypeOK
    <3>2. UNCHANGED <<fates, cameras>>
      BY <2>2, <3>1 DEF fates, cameras, camera, arrivals
    <3>3. Checking /\ read[e] = {} /\ active \in SUBSET Cameras
      BY <2>1 DEF IInv, QueryInv, TypeOK
    <3>4. found' = found \union active
      BY <2>4, <3>3 DEF IInv, TypeOK, found
    <3>5. Log!Find(active)
      BY <2>2, <3>2, <3>3, <3>4 DEF Log!Find
    <3> QED
      BY <3>3, <3>5 DEF Log!Next
  <2> QED
    BY <1>4, <2>3, <2>4 DEF First
<1>5. ASSUME NEW e \in Events, IsActive(e) PROVE [Log!Next]_(Log!vars)
  <2>1. CASE isActive(e) /\ Goto(e, "set") /\ UNCHANGED skipped
    <3>1. UNCHANGED <<arrivals, table, outcomes, lastIpCamEvents_>>
      BY <1>5, <2>1 DEF IsActive, memory, database, outcomes
    <3> QED
      BY <1>5, <2>1, <3>1, WaitingStep DEF IsActive, Goto, PCs, IInv
  <2>2. CASE Return(e) /\ skipped' = skipped \union {e}
    <3>1. /\ pc[e] = "find" /\ pc' = [pc EXCEPT ![e] = "done"]
          /\ UNCHANGED <<arrivals, lastIpCamEvents_, table, unsaved, told, read>>
      BY <1>5, <2>2 DEF IsActive, Return, Goto, memory, database
    <3>2. fates' = [fates EXCEPT ![e] = Fate(e)']
      BY <2>2, <3>1, FateChange DEF IInv, PCs
    <3>3. Fate(e) = "waiting" /\ Fate(e)' = "skipped"
      BY <2>2, <3>1 DEF Fate, IInv, TypeOK
    <3>4. Log!Skip(e)
      BY <3>1, <3>2, <3>3
         DEF Log!Skip, Log!Becomes, fates, cameras, camera, found, arrivals
    <3> QED
      BY <3>4 DEF Log!Next
  <2> QED
    BY <1>5, <2>1, <2>2 DEF IsActive
<1>6. ASSUME NEW e \in Events, SetLast(e) PROVE Log!Next
  <2>1. /\ pc[e] = "set" /\ pc' = [pc EXCEPT ![e] = "insert"]
        /\ lastIpCamEvents_' = [lastIpCamEvents_ EXCEPT ![camera(e)] = e]
        /\ UNCHANGED <<arrivals, table, outcomes>>
    BY <1>6 DEF SetLast, Goto, database, refused, outcomes
  <2>2. fates' = [fates EXCEPT ![e] = Fate(e)']
    BY <2>1, FateChange DEF IInv, PCs, outcomes
  <2>3. Fate(e) = "waiting" /\ Fate(e)' = "shown"
    BY <2>1 DEF Fate, IInv, TypeOK
  <2>4. feed[e] \in Feeds /\ cameras[e] = camera(e) /\ cameras[e] \in found
    BY <2>1 DEF IInv, TypeOK, ListInv, Seen, cameras, found, camera
  <2>5. ASSUME cameras[e] \in Serial, NEW d \in Events, cameras[d] = cameras[e]
        PROVE  fates[d] # "shown"
    <3>1. CASE pc[d] = "insert"
      <4>1. feed[d] \in Feeds /\ camera(d) = camera(e)
        BY <2>4, <2>5, <3>1 DEF IInv, TypeOK, cameras
      <4>2. session(d) = session(e)
        BY <2>4, <2>5, <4>1 DEF Serial, session, camera
      <4>3. db_mtx_[session(d)] = d /\ db_mtx_[session(e)] = e
        BY <2>1, <3>1 DEF IInv, LockInv, Locked, Running
      <4> QED
        BY <2>1, <3>1, <4>2, <4>3
    <3>2. CASE pc[d] # "insert"
      BY <3>2 DEF fates, Fate
    <3> QED
      BY <3>1, <3>2
  <2>6. UNCHANGED <<cameras, table, told, found>>
    BY <2>1 DEF cameras, camera, found, arrivals, outcomes
  <2>7. fates[e] = "waiting" /\ fates' = [fates EXCEPT ![e] = "shown"]
    BY <2>2, <2>3 DEF fates
  <2>8. lastIpCamEvents_' = [lastIpCamEvents_ EXCEPT ![cameras[e]] = e]
    BY <2>1, <2>4
  <2>9. Log!Show(e)
    BY <2>4, <2>5, <2>6, <2>7, <2>8 DEF Log!Show, Log!Becomes
  <2> QED
    BY <2>9 DEF Log!Next
<1>7. ASSUME NEW e \in Events, Insert(e) PROVE Log!Next
  <2>1. Inserted(e) /\ ((Save(e) /\ UNCHANGED unsaved) \/ RowLost(e))
    BY <1>7, InsertCases DEF Insert, RowLost, IInv
  <2>2. fates' = [fates EXCEPT ![e] = Fate(e)']
    BY <2>1, FateChange DEF IInv, PCs, Inserted, RowLost
  <2>3. pc'[e] = "done" /\ e \notin skipped \union unsaved
    BY <2>1 DEF Inserted, IInv, TypeOK, FateInv
  <2>4. Fate(e) = "shown" /\ UNCHANGED <<cameras, lastIpCamEvents_, told, found>>
    BY <2>1 DEF Fate, Inserted, cameras, camera, found
  <2>5. CASE Save(e) /\ UNCHANGED unsaved
    <3>1. Fate(e)' = "saved"
      BY <2>1, <2>3, <2>5 DEF Fate, Inserted
    <3>2. Log!Save(e)
      BY <2>2, <2>4, <2>5, <3>1 DEF Log!Save, Log!Becomes, Save, fates
    <3> QED
      BY <3>2 DEF Log!Next
  <2>6. CASE RowLost(e)
    <3>1. Fate(e)' = "lost"
      BY <2>1, <2>3, <2>6 DEF Fate, Inserted, RowLost
    <3>2. Log!Lose(e)
      BY <2>2, <2>4, <2>6, <3>1 DEF Log!Lose, Log!Becomes, RowLost, fates
    <3> QED
      BY <3>2 DEF Log!Next
  <2> QED
    BY <2>1, <2>5, <2>6
<1>8. ASSUME NEW c \in Cameras, OnGetLastEvent(c) PROVE Log!Next
  <2>1. Log!Tell(c)
    BY <1>8 DEF OnGetLastEvent, Log!Tell, fates, Fate, cameras, camera, found, arrivals,
                memory, database, refused
  <2> QED
    BY <2>1 DEF Log!Next
<1>9. CASE UNCHANGED vars
  BY <1>9 DEF vars, Log!vars, fates, Fate, cameras, camera, found, arrivals, memory,
              database, refused
<1>10. CASE Environment
  BY <1>10, EnvironmentQuiet DEF IInv, Log!vars, fates, Fate, cameras, camera, found
<1> QED
  BY <1>1, <1>2, <1>3, <1>4, <1>5, <1>6, <1>7, <1>8, <1>9, <1>10
     DEF Next, Task, Finished, Environment

\* The store implements the log: what clients and the table see of a serial camera
\* is one event after the other, and of any camera no event that is not saved or
\* lost in the end.
THEOREM Refinement == Spec => ImplementsLog
PROOF
<1>1. Init => Log!Init
  <2>1. Init => /\ cameras = [e \in Events |-> None]
                /\ fates = [e \in Events |-> "absent"]
    BY DEF Init, fates, Fate, cameras
  <2>2. Init => found = IF Checking THEN {} ELSE Cameras
    BY DEF Init, found
  <2> QED
    BY <2>1, <2>2 DEF Init, Log!Init
<1>2. IInv /\ IInv' /\ [Next]_vars => [Log!Next]_(Log!vars)
  BY LogStep
<1> QED
  BY <1>1, <1>2, Invariance, PTL DEF Spec, ImplementsLog, Log!Spec
=============================================================================
