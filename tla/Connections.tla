---- MODULE Connections ----
(***************************************************************************)
(* The SSH connections the server keeps in memory: how connect adds one,   *)
(* and how the guard of each, a request to disconnect, a logout, and a     *)
(* change or deletion of the host take it away.                            *)
(*                                                                         *)
(* connect reads the host, counts, dials for seconds, and counts again     *)
(* under the lock; in between, anything may happen to the host and to the  *)
(* session.  hostSave, hostDelete and trust write the host first and then  *)
(* close its connections.  Every user has one host here: limits and        *)
(* closing are by user and by user and host.                               *)
(***************************************************************************)
EXTENDS Naturals, FiniteSets

CONSTANTS
  Users,
  Sessions,    \* login sessions
  Attempts,    \* requests to connect, and the connections they make
  NoUser,
  PerUser,     \* 12: connections of one user
  Capacity,    \* 256: connections of the process
  MaxChanges   \* bound of the model: changes of hosts

Assumptions ==
  /\ NoUser \notin Users
  /\ PerUser \in Nat \ {0} /\ Capacity \in Nat /\ PerUser <= Capacity
  /\ MaxChanges \in Nat

VARIABLES
  (* the database *)
  session,      \* whose each row of sessions is, NoUser before the login
  ended,        \* sessions that have expired or were deleted
  record,       \* which version of a user's host the row holds, 0 when it is deleted
  (* the server process *)
  connections,  \* the map of the connections
  live,         \* SSH clients that are not closed
  attempt,      \* the handler of connect, then the connection's fields
  sweeps,       \* users whose changed host has its connections closed next
  logouts,      \* sessions whose row is deleted and whose connections are closed next
  changes

vars == <<session, ended, record, connections, live, attempt, sweeps, logouts, changes>>
rows == <<session, ended, record>>

Attempt == [stage : {"new", "loaded", "dialling", "dialled", "over"},
            session : Sessions \cup {NoUser}, user : Users \cup {NoUser},
            record : 0..(MaxChanges + 1)]

TypeOK ==
  /\ session \in [Sessions -> Users \cup {NoUser}] /\ ended \subseteq Sessions
  /\ record \in [Users -> 0..(MaxChanges + 1)]
  /\ connections \subseteq Attempts /\ live \subseteq Attempts
  /\ attempt \in [Attempts -> Attempt]
  /\ sweeps \subseteq Users /\ logouts \subseteq Sessions /\ changes \in 0..MaxChanges

Init ==
  /\ session = [s \in Sessions |-> NoUser] /\ ended = {}
  /\ record = [u \in Users |-> 1]
  /\ connections = {} /\ live = {}
  /\ attempt = [a \in Attempts |-> [stage |-> "new", session |-> NoUser, user |-> NoUser,
                                    record |-> 0]]
  /\ sweeps = {} /\ logouts = {} /\ changes = 0

Of(u) == {a \in connections : attempt[a].user = u}
Valid(s) == session[s] # NoUser /\ s \notin ended

-----------------------------------------------------------------------------
Login(s, u) ==
  /\ session[s] = NoUser
  /\ session' = [session EXCEPT ![s] = u]
  /\ UNCHANGED <<ended, record, connections, live, attempt, sweeps, logouts, changes>>

Expire(s) ==
  /\ Valid(s)
  /\ ended' = ended \cup {s}
  /\ UNCHANGED <<session, record, connections, live, attempt, sweeps, logouts, changes>>

\* logout deletes the row first.
Logout(s) ==
  /\ Valid(s)
  /\ ended' = ended \cup {s} /\ logouts' = logouts \cup {s}
  /\ UNCHANGED <<session, record, connections, live, attempt, sweeps, changes>>

\* Under the lock: what is in the map is closed and taken out.
CloseAll(gone) == connections' = connections \ gone /\ live' = live \ gone

LogoutSweep(s) ==
  /\ s \in logouts
  /\ logouts' = logouts \ {s}
  /\ CloseAll({a \in connections : attempt[a].session = s})
  /\ UNCHANGED <<rows, attempt, sweeps, changes>>

-----------------------------------------------------------------------------
(* connect *)

\* The session is authenticated and the host is read.
LoadHost(a, s) ==
  /\ attempt[a].stage = "new" /\ Valid(s) /\ record[session[s]] # 0
  /\ attempt' = [attempt EXCEPT ![a] = [stage |-> "loaded", session |-> s, user |-> session[s],
                                        record |-> record[session[s]]]]
  /\ UNCHANGED <<rows, connections, live, sweeps, logouts, changes>>

CountFirst(a) ==
  /\ attempt[a].stage = "loaded"
  /\ attempt' = [attempt EXCEPT ![a].stage =
                   IF Cardinality(Of(attempt[a].user)) >= PerUser THEN "over" ELSE "dialling"]
  /\ UNCHANGED <<rows, connections, live, sweeps, logouts, changes>>

Dial(a) ==
  /\ attempt[a].stage = "dialling"
  /\ \/ live' = live \cup {a} /\ attempt' = [attempt EXCEPT ![a].stage = "dialled"]
     \/ live' = live /\ attempt' = [attempt EXCEPT ![a].stage = "over"]
  /\ UNCHANGED <<rows, connections, sweeps, logouts, changes>>

\* Mutant: nothing is counted again after the dial.
InsertUncounted(a) ==
  /\ attempt[a].stage = "dialled"
  /\ attempt' = [attempt EXCEPT ![a].stage = "over"]
  /\ connections' = connections \cup {a}
  /\ UNCHANGED <<rows, live, sweeps, logouts, changes>>

\* Counted again under the lock, with the limit of the process.
Insert(a) ==
  /\ attempt[a].stage = "dialled"
  /\ attempt' = [attempt EXCEPT ![a].stage = "over"]
  /\ IF Cardinality(Of(attempt[a].user)) < PerUser /\ Cardinality(connections) < Capacity
     THEN connections' = connections \cup {a} /\ live' = live
     ELSE connections' = connections /\ live' = live \ {a}
  /\ UNCHANGED <<rows, sweeps, logouts, changes>>

-----------------------------------------------------------------------------
\* The user disconnects, or a setup timer closes the client: the guard will take
\* the connection out of the map.
Close(a) ==
  /\ a \in connections \cap live
  /\ live' = live \ {a}
  /\ UNCHANGED <<rows, connections, attempt, sweeps, logouts, changes>>

\* Mutant: the guard asks the SSH server only.
GuardKeepaliveOnly(a) ==
  /\ a \in connections /\ a \notin live
  /\ CloseAll({a})
  /\ UNCHANGED <<rows, attempt, sweeps, logouts, changes>>

\* The guard finds the connection closed or its session gone.
Guard(a) ==
  /\ a \in connections
  /\ a \notin live \/ ~Valid(attempt[a].session)
  /\ CloseAll({a})
  /\ UNCHANGED <<rows, attempt, sweeps, logouts, changes>>

\* The session cannot be asked for, or the SSH server does not answer.
GuardFails(a) ==
  /\ a \in connections
  /\ CloseAll({a})
  /\ UNCHANGED <<rows, attempt, sweeps, logouts, changes>>

-----------------------------------------------------------------------------
\* hostSave, hostDelete, or trust of another fingerprint: the statement.
Change(u) ==
  /\ record[u] # 0 /\ changes < MaxChanges
  /\ changes' = changes + 1
  /\ \E next \in {0, changes + 2} : record' = [record EXCEPT ![u] = next]
  /\ sweeps' = sweeps \cup {u}
  /\ UNCHANGED <<session, ended, connections, live, attempt, logouts>>

\* closeHostConnections.
Sweep(u) ==
  /\ u \in sweeps
  /\ sweeps' = sweeps \ {u}
  /\ CloseAll(Of(u))
  /\ UNCHANGED <<rows, attempt, logouts, changes>>

-----------------------------------------------------------------------------
Connect(a) ==
  \/ \E s \in Sessions : LoadHost(a, s)
  \/ CountFirst(a) \/ Dial(a) \/ Insert(a)

Next ==
  \/ \E s \in Sessions : \/ Expire(s) \/ Logout(s) \/ LogoutSweep(s)
                         \/ \E u \in Users : Login(s, u)
  \/ \E a \in Attempts : Connect(a) \/ Close(a) \/ Guard(a) \/ GuardFails(a)
  \/ \E u \in Users : Change(u) \/ Sweep(u)

Spec == Init /\ [][Next]_vars

\* The guard of a connection looks every fifteen seconds; a handler of connect goes
\* on, with timeouts, once it has read the host.
Fairness ==
  /\ \A a \in Attempts : WF_vars(Guard(a))
  /\ \A a \in Attempts : WF_vars(CountFirst(a) \/ Dial(a) \/ Insert(a))

-----------------------------------------------------------------------------
(* Correctness *)

\* However many requests to connect are dialling at the same time, no user gets
\* more than his connections and the process no more than it can hold.
WithinLimits ==
  /\ \A u \in Users : Cardinality(Of(u)) <= PerUser
  /\ Cardinality(connections) <= Capacity

\* An open SSH client is in the map, where its guard, a logout or a change of its
\* host will find it, or still in the hands of connect: none is lost.
NoneLost == \A a \in live : a \in connections \/ attempt[a].stage = "dialled"

\* A connection ends with its session, also one that connect adds only after the
\* logout has closed the others.
SessionEnds ==
  \A a \in Attempts, s \in Sessions :
    s \in ended /\ attempt[a].session = s ~> a \notin live

\* "PUT / DELETE: update / delete, close the old connections": once that is done, no
\* connection to the host as it was before is left.
OldConnectionsClosed ==
  \A a \in connections :
    attempt[a].record = record[attempt[a].user] \/ attempt[a].user \in sweeps
====
