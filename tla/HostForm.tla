---- MODULE HostForm ----
(***************************************************************************)
(* The form of a host (App.tsx: HostEditor).  One click saves the host and *)
(* then switches its monitoring on or off, in two requests: the second may *)
(* fail after the first has been carried out, either answer may be lost,   *)
(* and the user may retry, change the form meanwhile, or close it.         *)
(***************************************************************************)
EXTENDS Naturals

CONSTANTS
  MaxSaves,    \* clicks on save
  MaxLost      \* answers that get lost

VARIABLES
  known,       \* the host was there when the form opened (host # "new")
  enabled,     \* its agentEnabled, as the form was given it
  id,          \* value.id is set
  monitoring,  \* the checkbox
  loaded,      \* monitorLoaded
  form,        \* "open", "closing", "closed"
  step,        \* "idle", "host" or "agent": the request that is under way
  wish,        \* monitoring when save was clicked
  done,        \* the request under way has been carried out
  created,     \* of the server: hosts made from this form
  binding,     \* of the server: the host has an agent binding
  deleting,    \* DELETE of the host is under way
  gone,        \* of the server: the host is deleted
  listed,      \* saved() told the shell to load the list
  saves, lost

vars == <<known, enabled, id, monitoring, loaded, form, step, wish, done, created, binding,
          deleting, gone, listed, saves, lost>>
server == <<created, binding, deleting, gone>>

Assumptions == MaxSaves \in Nat /\ MaxLost \in Nat

Init ==
  /\ known \in BOOLEAN /\ enabled \in BOOLEAN /\ (enabled => known)
  /\ id = known /\ monitoring = enabled /\ loaded = ~enabled
  /\ form = "open" /\ step = "idle" /\ wish = FALSE /\ done = FALSE
  /\ created = 0 /\ binding = enabled /\ deleting = FALSE /\ gone = FALSE
  /\ listed = FALSE
  /\ saves = 0 /\ lost = 0

\* The settings of an enabled agent arrive; without them save stays disabled.
SettingsLoaded ==
  /\ ~loaded /\ form = "open" /\ loaded' = TRUE
  /\ UNCHANGED <<known, enabled, id, monitoring, form, step, wish, done, server, listed, saves,
                 lost>>

Toggle ==
  /\ form = "open" /\ monitoring' = ~monitoring
  /\ UNCHANGED <<known, enabled, id, loaded, form, step, wish, done, server, listed, saves, lost>>

Save ==
  /\ form = "open" /\ step = "idle" /\ loaded /\ saves < MaxSaves
  /\ step' = "host" /\ wish' = monitoring /\ done' = FALSE /\ saves' = saves + 1
  /\ UNCHANGED <<known, enabled, id, monitoring, loaded, form, server, listed, lost>>

\* The server carries a request out: POST or PUT of the host, POST or DELETE of the agent.
SaveHost ==
  /\ step = "host" /\ ~done /\ ~gone /\ done' = TRUE
  /\ created' = IF id THEN created ELSE created + 1
  /\ UNCHANGED <<known, enabled, id, monitoring, loaded, form, step, wish, binding, deleting, gone,
                 listed, saves, lost>>

SwitchAgent ==
  /\ step = "agent" /\ ~done /\ ~gone /\ done' = TRUE
  /\ binding' = wish
  /\ UNCHANGED <<known, enabled, id, monitoring, loaded, form, step, wish, created, deleting, gone,
                 listed, saves, lost>>

\* requestClose: a form that is closed already, or closing, goes no further.
Closes == form' = IF form = "open" THEN "closing" ELSE form

\* Mutant: the form forgets the host it has saved.
HostSavedForgotten ==
  /\ step = "host" /\ done
  /\ IF wish \/ enabled
       THEN step' = "agent" /\ done' = FALSE /\ UNCHANGED form
       ELSE step' = "idle" /\ Closes /\ UNCHANGED done
  /\ listed' = (~wish /\ ~enabled /\ form = "open")
  /\ UNCHANGED <<known, enabled, id, monitoring, loaded, wish, server, saves, lost>>

HostSaved ==
  /\ step = "host" /\ done
  /\ id' = TRUE
  /\ IF wish \/ enabled
       THEN step' = "agent" /\ done' = FALSE /\ UNCHANGED form
       ELSE step' = "idle" /\ Closes /\ UNCHANGED done
  /\ listed' = (~wish /\ ~enabled /\ form = "open")
  /\ UNCHANGED <<known, enabled, monitoring, loaded, wish, server, saves, lost>>

AgentSwitched ==
  /\ step = "agent" /\ done
  /\ step' = "idle" /\ Closes
  /\ listed' = (form = "open")
  /\ UNCHANGED <<known, enabled, id, monitoring, loaded, wish, done, server, saves, lost>>

\* A request fails, or it was carried out and its answer is lost: the form says so and
\* stays, after the second request with the host it has saved.
Fails ==
  /\ step # "idle" /\ (done => lost < MaxLost)
  /\ lost' = IF done THEN lost + 1 ELSE lost
  /\ step' = "idle"
  /\ UNCHANGED <<known, enabled, id, monitoring, loaded, form, wish, done, server, listed, saves>>

\* The delete button, once its question is answered, is there while a save goes on.
Delete ==
  /\ known /\ form = "open" /\ ~deleting /\ ~gone
  /\ deleting' = TRUE
  /\ UNCHANGED <<known, enabled, id, monitoring, loaded, form, step, wish, done, created, binding,
                 gone, listed, saves, lost>>

Deleted ==
  /\ deleting /\ deleting' = FALSE
  /\ \/ gone' = TRUE /\ binding' = FALSE /\ Closes
        /\ listed' = (listed \/ form = "open")
     \/ UNCHANGED <<gone, binding, form, listed>>
  /\ UNCHANGED <<known, enabled, id, monitoring, loaded, step, wish, done, created, saves, lost>>

Cancel ==
  /\ form = "open" /\ form' = "closing" /\ listed' = FALSE
  /\ UNCHANGED <<known, enabled, id, monitoring, loaded, step, wish, done, server, saves, lost>>

Gone ==
  /\ form = "closing" /\ form' = "closed"
  /\ UNCHANGED <<known, enabled, id, monitoring, loaded, step, wish, done, server, listed, saves,
                 lost>>

Next ==
  \/ SettingsLoaded \/ Toggle \/ Save \/ SaveHost \/ SwitchAgent \/ HostSaved \/ AgentSwitched
  \/ Fails \/ Delete \/ Deleted \/ Cancel \/ Gone

Spec == Init /\ [][Next]_vars

-----------------------------------------------------------------------------
TypeOK ==
  /\ {known, enabled, id, monitoring, loaded, wish, done, binding, deleting, gone,
      listed} \subseteq BOOLEAN
  /\ form \in {"open", "closing", "closed"} /\ step \in {"idle", "host", "agent"}
  /\ created \in 0..MaxSaves /\ saves \in 0..MaxSaves /\ lost \in 0..MaxLost

\* Retrying a save that failed half way makes no second host, and a form that reports
\* success leaves the agent as the user asked, unless an answer was lost (HostEditor).
SavedOnce ==
  /\ created <= 1 + lost
  /\ listed /\ ~gone /\ lost = 0 => binding = wish /\ created = IF known THEN 0 ELSE 1
====
