----------------------------- MODULE StartupProofs -----------------------------
(***************************************************************************)
(* Theorems about Startup, for any settings a user writes, any faults and   *)
(* any amount of trouble.                                                  *)
(***************************************************************************)
EXTENDS Startup, TLAPS

\* The dispatcher exists from the registration to the end, and its service is
\* marked; before it there is neither.
PassInv ==
  /\ passes = 1 => service = "none" /\ pc \notin {"service", "gone"}
  /\ passes = 1 /\ pc \in Before => running_from_service = 0
  /\ passes = 2 => running_from_service = 1 /\ pc # "down"
  /\ passes = 2 /\ pc \in Before => pc = "main"
  /\ pc = "service" => service = "none"

\* The settings in use are those that were checked.
SettingsInv ==
  /\ pc = "save" => keyBindings = seen /\ ~Accepted(seen)
  /\ pc \in {"save", "write"} => status = "ERROR"
  /\ pc = "glog" /\ status = "LOADED_OK" => Accepted(keyBindings)
  /\ passes = 2 => Accepted(keyBindings)
  /\ pc \notin Before \union {"down"} => Accepted(keyBindings)
  /\ pc = "register" => Accepted(keyBindings)

\* What the start has made so far.
MadeInv ==
  /\ pc = "known_ip_cameras" => failed # {} \/ {"ip_camera_events"} \ lost \subseteq tables
  /\ pc = "check" => failed # {} \/ Tables \ lost \subseteq tables
  /\ pc \in {"listen", "serve"} => Tables \ lost \subseteq tables
  /\ pc = "serve" => pool > 0
  /\ pc = "left" => keyBindings.threads > 32767
  /\ pc = "gone" /\ service # "none" => keyBindings.threads > 32767

IInv ==
  /\ TypeOK
  /\ PassInv
  /\ SettingsInv
  /\ MadeInv

-----------------------------------------------------------------------------
\* A positive number that fits into a short is kept, and no number of threads is
\* beyond one.
LEMMA ThreadsFit ==
  ASSUME NEW n \in Int
  PROVE  /\ Threads(n) \in Int /\ -32768 <= Threads(n) /\ Threads(n) <= 32767
         /\ 0 < n /\ n <= 32767 => Threads(n) = n
PROOF
<1> DEFINE u == n % 65536
<1>1. u \in Int /\ 0 <= u /\ u <= 65535
  OBVIOUS
<1>2. 0 < n /\ n <= 32767 => u = n
  OBVIOUS
<1>3. Threads(n) = IF u < 32768 THEN u ELSE u - 65536
  BY DEF Threads
<1> HIDE DEF u
<1> QED
  BY <1>1, <1>2, <1>3

\* The settings are what the definitions say.
LEMMA SettingsTypes ==
  /\ Written \subseteq Settings
  /\ ~Accepted(Emptied)
  /\ \A s \in Settings : s.complete \in BOOLEAN /\ s.threads \in Int
PROOF
<1>1. Emptied \in Settings /\ ~Accepted(Emptied)
  BY DEF Settings, Emptied, Accepted
<1>2. Defaults \in Settings
  BY DEF Settings, Defaults
<1>3. UserSettings \subseteq Settings
  BY StartupAssumption
<1>4. \A s \in Settings : s.complete \in BOOLEAN /\ s.threads \in Int
  BY DEF Settings
<1> QED
  BY <1>1, <1>2, <1>3, <1>4 DEF Written

\* The places a process goes to, and what may be in the files.
LEMMA Places ==
  /\ {"main", "load", "save", "write", "glog", "register", "service"} \subseteq PCs
  /\ {"database", "ip_camera_events", "known_ip_cameras", "check"} \subseteq PCs
  /\ {"listen", "serve", "left", "gone", "down"} \subseteq PCs
  /\ Emptied \in Written /\ Defaults \in Written /\ UserSettings \subseteq Written
  /\ {"absent", "ok"} \subseteq Databases
PROOF
  BY DEF PCs, Written, Databases

\* The amount of trouble has its bound.
LEMMA TroubleBound ==
  ASSUME troubles \in 0 .. MaxTroubles, Trouble
  PROVE  troubles' \in 0 .. MaxTroubles
PROOF
  BY StartupAssumption DEF Trouble

\* The transaction of the first table is left open, or it is not.
LEMMA LeftOpenTypes ==
  ASSUME inTx \in BOOLEAN
  PROVE  /\ inTx' = FALSE => inTx' \in BOOLEAN
         /\ \A t : inTx' = inTx \/ inTx' \in LeftOpen(t) => inTx' \in BOOLEAN
PROOF
<1>1. \A t : LeftOpen(t) \subseteq BOOLEAN
  <2> TAKE t
  <2>1. CASE t = "ip_camera_events"
    BY <2>1 DEF LeftOpen
  <2>2. CASE t # "ip_camera_events"
    <3>1. LeftOpen(t) = {FALSE}
      BY <2>2 DEF LeftOpen
    <3> QED
      BY <3>1
  <2> QED
    BY <2>1, <2>2
<1> QED
  BY <1>1

\* Every step keeps the types.
LEMMA TypeStep ==
  ASSUME TypeOK
  PROVE  [Next]_vars => TypeOK'
PROOF
<1> USE Places, TroubleBound DEF TypeOK, Goto, Fault, NoFault, End, Fatal,
     disk, config, scm, made, server
<1>1. ASSUME NEW who \in {"user", "scm"}, Start(who) PROVE TypeOK'
  <2>1. failed' \subseteq Tables /\ inTx' \in BOOLEAN /\ lost' \subseteq Tables
    <3>1. failed' = {} /\ lost' = {} /\ inTx' = FALSE
      BY <1>1 DEF Start
    <3>2. inTx \in BOOLEAN
      BY DEF TypeOK
    <3> HIDE DEF TypeOK
    <3> QED
      BY <3>1, <3>2, LeftOpenTypes
  <2>2. status' \in {"ERROR", "LOADED_OK"} /\ pc' \in PCs
    BY <1>1 DEF Start
  <2>3. UNCHANGED <<build, file, database, tables, passes, service, pool, troubles>>
    BY <1>1 DEF Start
  <2>4. starter' \in {"user", "scm"} /\ running_from_service' \in 0 .. 1
    BY <1>1 DEF Start
  <2>5. keyBindings' \in Written /\ seen' \in Written
    BY <1>1 DEF Start
  <2> QED
    BY <2>1, <2>2, <2>3, <2>4, <2>5
<1>2. ASSUME Main PROVE TypeOK'
  BY <1>2 DEF Main
<1>3. ASSUME Load PROVE TypeOK'
  BY <1>3 DEF Load
<1>4. ASSUME Save PROVE TypeOK'
  BY <1>4 DEF Save
<1>5. ASSUME Write PROVE TypeOK'
  BY <1>5 DEF Write, Saved
<1>6. ASSUME InitGlog PROVE TypeOK'
  BY <1>6 DEF InitGlog
<1>7. ASSUME Register PROVE TypeOK'
  BY <1>7 DEF Register, Marked
<1>8. ASSUME ServiceMain PROVE TypeOK'
  BY <1>8 DEF ServiceMain
<1>9. ASSUME ControlStop PROVE TypeOK'
  BY <1>9 DEF ControlStop
<1>10. ASSUME DispatcherReturns PROVE TypeOK'
  BY <1>10 DEF DispatcherReturns
<1>11. ASSUME OpenDatabase PROVE TypeOK'
  BY <1>11 DEF OpenDatabase
<1>12. ASSUME CreateTables PROVE TypeOK'
  <2>1. PICK t \in Tables, next \in {"known_ip_cameras", "check"} : CreateTable(t, next)
    BY <1>12 DEF CreateTables, Tables
  <2>2. tables' \subseteq Tables /\ failed' \subseteq Tables /\ lost' \subseteq Tables
    BY <2>1 DEF CreateTable, CommitFails, Failed
  <2>3. inTx' \in BOOLEAN
    <3>1. inTx' = inTx \/ inTx' \in LeftOpen(t)
      <4> HIDE DEF TypeOK
      <4> QED
        BY <2>1 DEF CreateTable, CommitFails
    <3>2. inTx \in BOOLEAN
      BY DEF TypeOK
    <3> HIDE DEF TypeOK
    <3> QED
      BY <3>1, <3>2, LeftOpenTypes
  <2>4. troubles' \in 0 .. MaxTroubles
    BY <2>1 DEF CreateTable, CommitFails
  <2> QED
    BY <2>1, <2>2, <2>3, <2>4 DEF CreateTable
<1>13. ASSUME Check PROVE TypeOK'
  BY <1>13 DEF Check
<1>14. ASSUME Listen PROVE TypeOK'
  <2>1. keyBindings.threads \in Int
    BY SettingsTypes DEF TypeOK
  <2>2. Threads(keyBindings.threads) \in Int /\ Threads(keyBindings.threads) <= 32767
    BY <2>1, ThreadsFit
  <2> QED
    BY <1>14, <2>2 DEF Listen
<1>15. ASSUME AcceptFails PROVE TypeOK'
  BY <1>15 DEF AcceptFails
<1>16. ASSUME Leave PROVE TypeOK'
  BY <1>16 DEF Leave
<1>17. ASSUME Kill PROVE TypeOK'
  BY <1>17 DEF Kill
<1>18. ASSUME NEW s \in UserSettings \union {Emptied}, Edit(s) PROVE TypeOK'
  BY <1>18 DEF Edit
<1>19. ASSUME NEW d \in Databases, NEW t \in SUBSET Tables,
             Replace(d, t)
      PROVE TypeOK'
  BY <1>19 DEF Replace
<1>20. ASSUME BeginFails \/ Serve \/ UNCHANGED vars PROVE TypeOK'
  BY <1>20 DEF BeginFails, Serve, vars
<1> QED
  BY <1>1, <1>2, <1>3, <1>4, <1>5, <1>6, <1>7, <1>8, <1>9, <1>10, <1>11,
     <1>12, <1>13, <1>14, <1>15, <1>16, <1>17, <1>18, <1>19, <1>20
     DEF Next, Step

\* A process has one dispatcher at most, from the registration to its end.
LEMMA PassStep ==
  ASSUME TypeOK, PassInv
  PROVE  [Next]_vars => PassInv'
PROOF
<1> USE DEF PassInv, Before, Goto, Fault, NoFault, End, Fatal,
     disk, config, scm, made, server
<1>1. ASSUME NEW who \in {"user", "scm"}, Start(who) PROVE PassInv'
  BY <1>1 DEF Start
<1>2. ASSUME Main PROVE PassInv'
  BY <1>2 DEF Main
<1>3. ASSUME Load PROVE PassInv'
  BY <1>3 DEF Load
<1>4. ASSUME Save PROVE PassInv'
  BY <1>4 DEF Save
<1>5. ASSUME Write PROVE PassInv'
  BY <1>5 DEF Write, Saved
<1>6. ASSUME InitGlog PROVE PassInv'
  BY <1>6 DEF InitGlog
<1>7. ASSUME Register PROVE PassInv'
  <2>1. pc = "register" /\ passes \in 1 .. 2
    BY <1>7 DEF Register, TypeOK
  <2>2. passes = 1 /\ service = "none"
    BY <2>1
  <2> QED
    BY <1>7, <2>2 DEF Register, Marked
<1>8. ASSUME ServiceMain PROVE PassInv'
  BY <1>8 DEF ServiceMain
<1>9. ASSUME ControlStop PROVE PassInv'
  BY <1>9 DEF ControlStop
<1>10. ASSUME DispatcherReturns PROVE PassInv'
  BY <1>10 DEF DispatcherReturns
<1>11. ASSUME OpenDatabase PROVE PassInv'
  BY <1>11 DEF OpenDatabase
<1>12. ASSUME CreateTables PROVE PassInv'
  BY <1>12 DEF CreateTables, CreateTable
<1>13. ASSUME Check PROVE PassInv'
  BY <1>13 DEF Check
<1>14. ASSUME Listen PROVE PassInv'
  BY <1>14 DEF Listen
<1>15. ASSUME AcceptFails PROVE PassInv'
  BY <1>15 DEF AcceptFails
<1>16. ASSUME Leave PROVE PassInv'
  BY <1>16 DEF Leave
<1>17. ASSUME Kill PROVE PassInv'
  BY <1>17 DEF Kill
<1>18. ASSUME NEW s \in UserSettings \union {Emptied}, Edit(s) PROVE PassInv'
  BY <1>18 DEF Edit
<1>19. ASSUME NEW d \in Databases, NEW t \in SUBSET Tables,
             Replace(d, t)
      PROVE PassInv'
  BY <1>19 DEF Replace
<1>20. ASSUME BeginFails \/ Serve \/ UNCHANGED vars PROVE PassInv'
  BY <1>20 DEF BeginFails, Serve, vars
<1> QED
  BY <1>1, <1>2, <1>3, <1>4, <1>5, <1>6, <1>7, <1>8, <1>9, <1>10, <1>11,
     <1>12, <1>13, <1>14, <1>15, <1>16, <1>17, <1>18, <1>19, <1>20
     DEF Next, Step

\* Settings that were not checked are not used.
LEMMA SettingsStep ==
  ASSUME TypeOK, PassInv, SettingsInv
  PROVE  [Next]_vars => SettingsInv'
PROOF
<1> USE DEF SettingsInv, Before, Goto, Fault, NoFault, End, Fatal,
     disk, config, scm, made, server
<1>1. ASSUME NEW who \in {"user", "scm"}, Start(who) PROVE SettingsInv'
  BY <1>1 DEF Start, PassInv, TypeOK
<1>2. ASSUME Main PROVE SettingsInv'
  BY <1>2 DEF Main, PassInv, TypeOK
<1>3. ASSUME Load PROVE SettingsInv'
  BY <1>3 DEF Load, PassInv, TypeOK
<1>4. ASSUME Save PROVE SettingsInv'
  BY <1>4 DEF Save, PassInv, TypeOK
<1>5. ASSUME Write PROVE SettingsInv'
  BY <1>5 DEF Write, Saved, PassInv, TypeOK
<1>6. ASSUME InitGlog PROVE SettingsInv'
  BY <1>6 DEF InitGlog
<1>7. ASSUME Register PROVE SettingsInv'
  BY <1>7 DEF Register, Marked
<1>8. ASSUME ServiceMain PROVE SettingsInv'
  BY <1>8 DEF ServiceMain
<1>9. ASSUME ControlStop PROVE SettingsInv'
  BY <1>9 DEF ControlStop
<1>10. ASSUME DispatcherReturns PROVE SettingsInv'
  BY <1>10 DEF DispatcherReturns
<1>11. ASSUME OpenDatabase PROVE SettingsInv'
  BY <1>11 DEF OpenDatabase
<1>12. ASSUME CreateTables PROVE SettingsInv'
  BY <1>12 DEF CreateTables, CreateTable
<1>13. ASSUME Check PROVE SettingsInv'
  BY <1>13 DEF Check
<1>14. ASSUME Listen PROVE SettingsInv'
  <2> HIDE DEF SettingsInv
  <2>1. Accepted(keyBindings)
    BY <1>14 DEF Listen, SettingsInv
  <2>2. pc' \in {"serve", "left", "down"} /\ UNCHANGED config
    BY <1>14 DEF Listen
  <2> QED
    BY <2>1, <2>2 DEF SettingsInv
<1>15. ASSUME AcceptFails PROVE SettingsInv'
  BY <1>15 DEF AcceptFails
<1>16. ASSUME Leave PROVE SettingsInv'
  BY <1>16 DEF Leave
<1>17. ASSUME Kill PROVE SettingsInv'
  BY <1>17 DEF Kill
<1>18. ASSUME NEW s \in UserSettings \union {Emptied}, Edit(s) PROVE SettingsInv'
  BY <1>18 DEF Edit
<1>19. ASSUME NEW d \in Databases, NEW t \in SUBSET Tables,
             Replace(d, t)
      PROVE SettingsInv'
  BY <1>19 DEF Replace
<1>20. ASSUME BeginFails \/ Serve \/ UNCHANGED vars PROVE SettingsInv'
  BY <1>20 DEF BeginFails, Serve, vars
<1> QED
  BY <1>1, <1>2, <1>3, <1>4, <1>5, <1>6, <1>7, <1>8, <1>9, <1>10, <1>11,
     <1>12, <1>13, <1>14, <1>15, <1>16, <1>17, <1>18, <1>19, <1>20
     DEF Next, Step

\* A table that is made, and whose Execute does not return -1, is there or its
\* COMMIT failed; the others are left as they were.
LEMMA TableMade ==
  ASSUME NEW t, NEW next, CreateTable(t, next)
  PROVE  /\ failed' # {} \/ {t} \ lost' \subseteq tables'
         /\ failed # {} => failed' # {}
         /\ lost \subseteq lost' /\ tables \subseteq tables'
PROOF
  BY DEF CreateTable, CommitFails, Failed, Fault, NoFault

\* Nothing of a start is lost before it serves.
LEMMA MadeStep ==
  ASSUME TypeOK, PassInv, SettingsInv, MadeInv
  PROVE  [Next]_vars => MadeInv'
PROOF
<1> USE DEF MadeInv, Before, Goto, Fault, NoFault, End, Fatal,
     disk, config, scm, made, server
<1>1. ASSUME NEW who \in {"user", "scm"}, Start(who) PROVE MadeInv'
  BY <1>1 DEF Start
<1>2. ASSUME Main PROVE MadeInv'
  BY <1>2 DEF Main
<1>3. ASSUME Load PROVE MadeInv'
  BY <1>3 DEF Load
<1>4. ASSUME Save PROVE MadeInv'
  BY <1>4 DEF Save
<1>5. ASSUME Write PROVE MadeInv'
  BY <1>5 DEF Write, Saved
<1>6. ASSUME InitGlog PROVE MadeInv'
  BY <1>6 DEF InitGlog
<1>7. ASSUME Register PROVE MadeInv'
  BY <1>7 DEF Register, Marked
<1>8. ASSUME ServiceMain PROVE MadeInv'
  <2>1. service = "none"
    BY <1>8 DEF ServiceMain, PassInv
  <2> QED
    BY <1>8, <2>1 DEF ServiceMain
<1>9. ASSUME ControlStop PROVE MadeInv'
  BY <1>9 DEF ControlStop
<1>10. ASSUME DispatcherReturns PROVE MadeInv'
  BY <1>10 DEF DispatcherReturns
<1>11. ASSUME OpenDatabase PROVE MadeInv'
  BY <1>11 DEF OpenDatabase
<1>12. ASSUME CreateTables PROVE MadeInv'
  <2>1. CASE CreateTable("ip_camera_events", "known_ip_cameras")
    <3>1. failed' # {} \/ {"ip_camera_events"} \ lost' \subseteq tables'
      BY <2>1, TableMade
    <3> QED
      BY <2>1, <3>1 DEF CreateTable
  <2>2. CASE CreateTable("known_ip_cameras", "check")
    <3>1. failed # {} \/ {"ip_camera_events"} \ lost \subseteq tables
      BY <2>2 DEF CreateTable
    <3>2. failed' # {} \/ Tables \ lost' \subseteq tables'
      BY <2>2, <3>1, TableMade DEF Tables
    <3> QED
      BY <2>2, <3>2 DEF CreateTable
  <2> QED
    BY <1>12, <2>1, <2>2 DEF CreateTables
<1>13. ASSUME Check PROVE MadeInv'
  BY <1>13 DEF Check
<1>14. ASSUME Listen PROVE MadeInv'
  <2>1. Accepted(keyBindings) /\ keyBindings.threads \in Int
    BY <1>14, SettingsTypes DEF Listen, SettingsInv, TypeOK
  <2>2. keyBindings.threads > 0
    BY <2>1, SettingsTypes DEF Accepted, TypeOK
  <2>3. Threads(keyBindings.threads) \in Int
    BY <2>1, ThreadsFit
  <2>4. Threads(keyBindings.threads) <= 0 => keyBindings.threads > 32767
    BY <2>1, <2>2, ThreadsFit
  <2> QED
    BY <1>14, <2>3, <2>4 DEF Listen
<1>15. ASSUME AcceptFails PROVE MadeInv'
  BY <1>15 DEF AcceptFails
<1>16. ASSUME Leave PROVE MadeInv'
  BY <1>16 DEF Leave
<1>17. ASSUME Kill PROVE MadeInv'
  BY <1>17 DEF Kill
<1>18. ASSUME NEW s \in UserSettings \union {Emptied}, Edit(s) PROVE MadeInv'
  BY <1>18 DEF Edit
<1>19. ASSUME NEW d \in Databases, NEW t \in SUBSET Tables,
             Replace(d, t)
      PROVE MadeInv'
  BY <1>19 DEF Replace
<1>20. ASSUME BeginFails \/ Serve \/ UNCHANGED vars PROVE MadeInv'
  BY <1>20 DEF BeginFails, Serve, vars
<1> QED
  BY <1>1, <1>2, <1>3, <1>4, <1>5, <1>6, <1>7, <1>8, <1>9, <1>10, <1>11,
     <1>12, <1>13, <1>14, <1>15, <1>16, <1>17, <1>18, <1>19, <1>20
     DEF Next, Step

-----------------------------------------------------------------------------
\* The inductive invariant holds for any settings, faults and amount of trouble.
THEOREM Invariance == Spec => []IInv
PROOF
<1>1. Init => IInv
  <2>1. Init => TypeOK
    <3> SUFFICES ASSUME Init PROVE TypeOK
      OBVIOUS
    <3>1. build \in Builds /\ file \in Written /\ database \in Databases /\ tables \subseteq Tables
      BY Places DEF Init
    <3>2. pc \in PCs /\ keyBindings \in Written /\ seen \in Written
      BY Places DEF Init
    <3>3. failed \subseteq Tables /\ inTx \in BOOLEAN /\ lost \subseteq Tables
      BY DEF Init
    <3>4. pool \in Nat /\ pool <= 32767 /\ troubles \in 0 .. MaxTroubles
      BY StartupAssumption DEF Init
    <3>5. /\ starter \in {"user", "scm"} /\ passes \in 1 .. 2 /\ running_from_service \in 0 .. 1
          /\ status \in {"ERROR", "LOADED_OK"} /\ service \in {"none", "running", "stopped"}
      BY DEF Init
    <3> QED
      BY <3>1, <3>2, <3>3, <3>4, <3>5 DEF TypeOK
  <2>2. Init => PassInv /\ SettingsInv /\ MadeInv
    BY DEF Init, PassInv, SettingsInv, MadeInv, Before
  <2> QED
    BY <2>1, <2>2 DEF IInv
<1>2. IInv /\ [Next]_vars => IInv'
  BY TypeStep, PassStep, SettingsStep, MadeStep DEF IInv
<1> QED
  BY <1>1, <1>2, PTL DEF Spec

\* The variables keep their types; the pool never has more threads than a short
\* counts.
THEOREM TypeCorrect == Spec => []TypeOK
PROOF
<1>1. IInv => TypeOK
  BY DEF IInv
<1> QED
  BY <1>1, Invariance, PTL

\* The second pass of a service does not load settings or register.
THEOREM SecondPassCorrect == Spec => []SecondPassServes
PROOF
<1>1. IInv => SecondPassServes
  BY DEF IInv, PassInv, SecondPassServes
<1> QED
  BY <1>1, Invariance, PTL

\* A server that accepts clients has a thread, usable settings and every table but
\* those whose COMMIT failed, whatever went wrong before.
THEOREM ReadyCorrect == Spec => []ServesReady
PROOF
<1>1. IInv => ServesReady
  BY DEF IInv, SettingsInv, MadeInv, ServesReady, Accepted, Usable, Before
<1> QED
  BY <1>1, Invariance, PTL

\* A server that leaves, or a service that was said to run and whose thread is gone,
\* has more threads in its settings than a short can count.
THEOREM SilentCorrect == Spec => []SilentOnlyIfTooMany
PROOF
<1>1. IInv => SilentOnlyIfTooMany
  BY DEF IInv, MadeInv, SilentOnlyIfTooMany
<1> QED
  BY <1>1, Invariance, PTL

\* Usable settings are overwritten only if they were written after the start had
\* read the file.
THEOREM UsableCorrect == Spec => UsableKept
PROOF
<1>1. IInv => (pc = "save" /\ Usable(file) /\ file' = Emptied => file # seen)
  BY DEF IInv, SettingsInv, Accepted, Usable
<1>2. IInv /\ [Next]_vars =>
        [pc = "save" /\ Usable(file) /\ file' = Emptied => file # seen]_vars
  BY <1>1
<1> QED
  BY <1>2, Invariance, PTL DEF Spec, UsableKept

=============================================================================
