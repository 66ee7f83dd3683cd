------------------------------- MODULE EventLog -------------------------------
(***************************************************************************)
(* What the server promises about camera events, without its sessions,     *)
(* mutexes, threads and queries: an event that arrived is skipped, or it   *)
(* is shown as the last one of its camera and then saved, unless the INSERT *)
(* fails.  Of a serial camera no other event is shown between showing an   *)
(* event and its fate, so its rows and answers follow one order, which need *)
(* not be the order of arrival.                                            *)
(***************************************************************************)
EXTENDS Naturals, Sequences

CONSTANTS Cameras,
          Checking,  \* only the events of cameras found active are shown
          Serial,    \* the cameras whose events are shown one at a time
          Events,
          None       \* no event, no camera

VARIABLES
  at,     \* the camera of an event that arrived
  fate,   \* what became of an event
  last,   \* the event shown for each camera
  table,  \* the saved events
  told,   \* the events that clients were told
  found   \* the cameras whose events may be shown

vars == <<at, fate, last, table, told, found>>

Init ==
  /\ at = [e \in Events |-> None]
  /\ fate = [e \in Events |-> "absent"]
  /\ last = [c \in Cameras |-> None]
  /\ table = <<>>
  /\ told = {}
  /\ found = IF Checking THEN {} ELSE Cameras

Becomes(e, f) == fate' = [fate EXCEPT ![e] = f]

Arrive(e, c) ==
  /\ fate[e] = "absent"
  /\ at' = [at EXCEPT ![e] = c]
  /\ Becomes(e, "waiting")
  /\ UNCHANGED <<last, table, told, found>>

\* A query finds cameras active; what was found once may be shown from then on
\* (a list that is shared and may be old forgets nothing for certain).
Find(S) ==
  /\ Checking
  /\ found' = found \union S
  /\ UNCHANGED <<at, fate, last, table, told>>

\* An event may be skipped for any camera: the check promises nothing about the
\* active ones (ActiveNotSkipped of EventStore does not hold).
Skip(e) ==
  /\ fate[e] = "waiting"
  /\ Becomes(e, "skipped")
  /\ UNCHANGED <<at, last, table, told, found>>

Show(e) ==
  /\ fate[e] = "waiting" /\ at[e] \in found
  /\ at[e] \in Serial => \A d \in Events : at[d] = at[e] => fate[d] # "shown"
  /\ last' = [last EXCEPT ![at[e]] = e]
  /\ Becomes(e, "shown")
  /\ UNCHANGED <<at, table, told, found>>

Save(e) ==
  /\ fate[e] = "shown"
  /\ table' = Append(table, e)
  /\ Becomes(e, "saved")
  /\ UNCHANGED <<at, last, told, found>>

Lose(e) ==
  /\ fate[e] = "shown"
  /\ Becomes(e, "lost")
  /\ UNCHANGED <<at, last, table, told, found>>

Tell(c) ==
  /\ last[c] # None
  /\ told' = told \union {last[c]}
  /\ UNCHANGED <<at, fate, last, table, found>>

Next ==
  \/ \E e \in Events : \/ \E c \in Cameras : Arrive(e, c)
                     \/ Skip(e) \/ Show(e) \/ Save(e) \/ Lose(e)
  \/ \E c \in Cameras : Tell(c)
  \/ \E S \in SUBSET Cameras : Find(S)

Spec == Init /\ [][Next]_vars
=============================================================================
