---- MODULE MonitorForms ----
(***************************************************************************)
(* The monitoring page of a host (MonitorPage.tsx): its reads every three  *)
(* seconds, the forms of the agent's settings and of the alert rules, and  *)
(* the writes it makes one at a time.  Reads overlap each other and the    *)
(* writes, and are answered in any order.                                  *)
(***************************************************************************)
EXTENDS Naturals

CONSTANTS
  Values,      \* of the settings besides paused, and of the alert rules
  Default,     \* defaultAgentSettings, defaultAlerts
  Reads,       \* requests of refresh() at the same time
  None,
  MaxEdits, MaxWrites

VARIABLES
  stored,      \* agent of the server: its settings, and whether it is enabled
  rules,       \* alert rules of the server
  form,        \* settings, the state of the page
  alerts,      \* alerts, the state of the page
  info,        \* the agent as last read, None before the first answer
  ready,
  first,       \* "reads", "alerts" or "over": the load of the forms
  reads,       \* what the server has read for each refresh(), None if none is under way
  write,       \* the request of the action that runs
  edits, writes

vars == <<stored, rules, form, alerts, info, ready, first, reads, write, edits, writes>>

Settings == [value : Values, paused : BOOLEAN]
Agents   == [settings : Settings, enabled : BOOLEAN]
Kinds    == {"save", "pause", "enable", "revoke", "alerts", "order"}
NoWrite  == [kind |-> "none", step |-> "none", settings |-> [value |-> Default, paused |-> FALSE]]

Assumptions ==
  /\ Default \in Values /\ None \notin Agents
  /\ MaxEdits \in Nat /\ MaxWrites \in Nat

-----------------------------------------------------------------------------
Init ==
  /\ stored \in [settings : [value : Values, paused : {FALSE}], enabled : BOOLEAN]
  /\ rules \in Values
  /\ form = NoWrite.settings /\ alerts = Default /\ info = None
  /\ ready = FALSE /\ first = "reads"
  /\ reads = [r \in Reads |-> None]
  /\ write = NoWrite
  /\ edits = 0 /\ writes = 0

\* refresh() of the interval: the server reads, its answer comes later.
Refresh(r) ==
  /\ reads[r] = None /\ reads' = [reads EXCEPT ![r] = stored]
  /\ UNCHANGED <<stored, rules, form, alerts, info, ready, first, write, edits, writes>>

\* Mutant: every refresh fills the form.
RefreshedAll(r) ==
  /\ reads[r] # None
  /\ info' = reads[r] /\ reads' = [reads EXCEPT ![r] = None] /\ form' = reads[r].settings
  /\ UNCHANGED <<stored, rules, alerts, ready, first, write, edits, writes>>

Refreshed(r) ==
  /\ reads[r] # None
  /\ info' = reads[r] /\ reads' = [reads EXCEPT ![r] = None]
  /\ UNCHANGED <<stored, rules, form, alerts, ready, first, write, edits, writes>>

RefreshFails(r) ==
  /\ reads[r] # None /\ reads' = [reads EXCEPT ![r] = None]
  /\ UNCHANGED <<stored, rules, form, alerts, info, ready, first, write, edits, writes>>

\* The first refresh fills the form, then reads the alert rules; it is not repeated.
Loaded ==
  /\ first = "reads" /\ first' = "alerts"
  /\ info' = stored /\ form' = stored.settings
  /\ UNCHANGED <<stored, rules, alerts, ready, reads, write, edits, writes>>

Ready ==
  /\ first = "alerts" /\ first' = "over" /\ ready' = TRUE
  /\ alerts' = rules
  /\ UNCHANGED <<stored, rules, form, info, reads, write, edits, writes>>

FirstFails ==
  /\ first \in {"reads", "alerts"} /\ first' = "over"
  /\ UNCHANGED <<stored, rules, form, alerts, info, ready, reads, write, edits, writes>>

-----------------------------------------------------------------------------
Edit(v) ==
  /\ v # form.value /\ edits < MaxEdits
  /\ form' = [form EXCEPT !.value = v] /\ edits' = edits + 1
  /\ UNCHANGED <<stored, rules, alerts, info, ready, first, reads, write, writes>>

EditAlerts(v) ==
  /\ v # alerts /\ edits < MaxEdits
  /\ alerts' = v /\ edits' = edits + 1
  /\ UNCHANGED <<stored, rules, form, info, ready, first, reads, write, writes>>

\* action(): not while another one runs.
Starts(kind, settings) ==
  /\ write = NoWrite /\ writes < MaxWrites
  /\ write' = [kind |-> kind, step |-> "sent", settings |-> settings] /\ writes' = writes + 1
  /\ UNCHANGED <<stored, rules, form, alerts, info, ready, first, reads, edits>>

\* Save; pause or resume; the agent for a manual installation; revoking the agent; and
\* the orders that leave the settings alone (install, upgrade, uninstall, rotate).
SaveConfig == Starts("save", form)
Pause      == Starts("pause",
                IF info = None THEN [form EXCEPT !.paused = TRUE]
                ELSE [info.settings EXCEPT !.paused = ~@])
Enable     == (IF info = None THEN TRUE ELSE ~info.enabled) /\ Starts("enable", form)
Revoke     == Starts("revoke", form)
SaveAlerts == Starts("alerts", [value |-> alerts, paused |-> FALSE])
Order      == Starts("order", form)

\* The server: PUT and POST of the agent, which are the same to it and enable the agent
\* (agentEnable), and DELETE.
Write ==
  /\ write.step = "sent"
  /\ stored' = CASE write.kind \in {"save", "pause", "enable"} ->
                        [settings |-> write.settings, enabled |-> TRUE]
                 [] write.kind = "revoke" -> [stored EXCEPT !.enabled = FALSE]
                 [] OTHER -> stored
  /\ rules' = IF write.kind = "alerts" THEN write.settings.value ELSE rules
  /\ write' = [write EXCEPT !.step = "written"]
  /\ UNCHANGED <<form, alerts, info, ready, first, reads, edits, writes>>

\* The answer; a pause puts what it sent into the form, the alert rules are read again.
\* Then refresh() reads.
Written ==
  /\ write.step = "written"
  /\ form' = IF write.kind = "pause" THEN write.settings ELSE form
  /\ alerts' = IF write.kind = "alerts" THEN rules ELSE alerts
  /\ write' = [write EXCEPT !.step = "reading"]
  /\ UNCHANGED <<stored, rules, info, ready, first, reads, edits, writes>>

RefreshedAfter ==
  /\ write.step = "reading"
  /\ info' = stored /\ write' = NoWrite
  /\ UNCHANGED <<stored, rules, form, alerts, ready, first, reads, edits, writes>>

WriteFails ==
  /\ write # NoWrite /\ write' = NoWrite
  /\ UNCHANGED <<stored, rules, form, alerts, info, ready, first, reads, edits, writes>>

Next ==
  \/ \E r \in Reads : Refresh(r) \/ Refreshed(r) \/ RefreshFails(r)
  \/ Loaded \/ Ready \/ FirstFails \/ \E v \in Values : Edit(v) \/ EditAlerts(v)
  \/ SaveConfig \/ Pause \/ Enable \/ Revoke \/ SaveAlerts \/ Order
  \/ Write \/ Written \/ RefreshedAfter \/ WriteFails

Spec == Init /\ [][Next]_vars

-----------------------------------------------------------------------------
TypeOK ==
  /\ stored \in Agents /\ form \in Settings /\ info \in Agents \cup {None}
  /\ rules \in Values /\ alerts \in Values
  /\ ready \in BOOLEAN /\ first \in {"reads", "alerts", "over"}
  /\ reads \in [Reads -> Agents \cup {None}]
  /\ write \in [kind : Kinds \cup {"none"}, step : {"none", "sent", "written", "reading"},
                settings : Settings]
  /\ edits \in 0..MaxEdits /\ writes \in 0..MaxWrites

\* Once the page has loaded, no read takes away what the user types: a form changes by an
\* edit, the one of the settings also by the pause the user has asked for and the one of the
\* alerts by its own save (MonitorPage: refresh, action).
KeepsEdits ==
  [][ready /\ edits' = edits =>
       /\ form' = form \/ write.kind = "pause"
       /\ alerts' = alerts \/ write.kind = "alerts"]_vars

\* What the user has not edited stays as it is stored (MonitorPage: saveConfig, pause, the
\* private configuration, the alert rules).
UneditedIsKept ==
  [][stored'.settings.value # stored.settings.value \/ rules' # rules => edits > 0]_vars
====
