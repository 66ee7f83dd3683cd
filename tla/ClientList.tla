----------------------------- MODULE ClientList -----------------------------
(***************************************************************************)
(* What the list of clients promises, without its mutexes, the handlers'    *)
(* program counters, and reads, writes and timers: a session joins the list *)
(* once and leaves it once, or stays stuck on it; whoever makes it leave, or *)
(* lets it log in, owes the others the news, looks at the list after the   *)
(* change, and has done with it only when everyone it found there was told. *)
(***************************************************************************)
CONSTANTS Sessions, Threads, None

VARIABLES
  life,     \* of a session: "new", "arriving", "listed", "leaving", "gone",
            \* or "stuck" on the list for ever
  changed,  \* the session was told since its flag was cleared
  duty,     \* of a thread: "nothing", "leaves", "owes" the news, "tells" it
  whom,     \* the session the thread takes off the list
  telling   \* the sessions the thread has still to tell

vars == <<life, changed, duty, whom, telling>>

Init ==
  /\ life = [s \in Sessions |-> "new"]
  /\ changed = [s \in Sessions |-> FALSE]
  /\ duty = [t \in Threads |-> "nothing"]
  /\ whom = [t \in Threads |-> None]
  /\ telling = [t \in Threads |-> {}]

Becomes(s, from, to) ==
  /\ life[s] = from
  /\ life' = [life EXCEPT ![s] = to]

Goes(t, from, to) ==
  /\ duty[t] = from
  /\ duty' = [duty EXCEPT ![t] = to]

Arrive(s) ==
  /\ Becomes(s, "new", "arriving")
  /\ UNCHANGED <<changed, duty, whom, telling>>

Join(s) ==
  /\ Becomes(s, "arriving", "listed")
  /\ UNCHANGED <<changed, duty, whom, telling>>

\* Of several threads that stop one session, one takes it off the list.
Leave(t, s) ==
  /\ Becomes(s, "listed", "leaving")
  /\ Goes(t, "nothing", "leaves")
  /\ whom' = [whom EXCEPT ![t] = s]
  /\ UNCHANGED <<changed, telling>>

\* The one exit that fails half-way: nobody will take the session off the list
\* and nobody is told.
Stick(s) ==
  /\ Becomes(s, "listed", "stuck")
  /\ UNCHANGED <<changed, duty, whom, telling>>

Left(t, s) ==
  /\ whom[t] = s
  /\ Becomes(s, "leaving", "gone")
  /\ Goes(t, "leaves", "owes")
  /\ whom' = [whom EXCEPT ![t] = None]
  /\ UNCHANGED <<changed, telling>>

\* Only a listed session logs in.
Login(t, s) ==
  /\ life[s] = "listed"
  /\ Goes(t, "nothing", "owes")
  /\ UNCHANGED <<life, changed, whom, telling>>

OnList == {s \in Sessions : life[s] \in {"listed", "leaving", "stuck"}}

Announce(t) ==
  /\ Goes(t, "owes", "tells")
  /\ telling' = [telling EXCEPT ![t] = OnList]
  /\ UNCHANGED <<life, changed, whom>>

Tell(t, s) ==
  /\ duty[t] = "tells" /\ s \in telling[t]
  /\ telling' = [telling EXCEPT ![t] = @ \ {s}]
  /\ changed' = [changed EXCEPT ![s] = TRUE]
  /\ UNCHANGED <<life, duty, whom>>

Over(t) ==
  /\ telling[t] = {}
  /\ Goes(t, "tells", "nothing")
  /\ UNCHANGED <<life, changed, whom, telling>>

\* The session's ping is answered.
Clear(s) ==
  /\ life[s] \notin {"new", "arriving"}
  /\ changed' = [changed EXCEPT ![s] = FALSE]
  /\ UNCHANGED <<life, duty, whom, telling>>

Next ==
  \/ \E s \in Sessions : Arrive(s) \/ Join(s) \/ Stick(s) \/ Clear(s)
  \/ \E t \in Threads :
       \/ Announce(t) \/ Over(t)
       \/ \E s \in Sessions :
            Leave(t, s) \/ Left(t, s) \/ Login(t, s) \/ Tell(t, s)

Spec == Init /\ [][Next]_vars
=============================================================================
