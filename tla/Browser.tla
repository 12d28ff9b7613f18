---- MODULE Browser ----
(***************************************************************************)
(* Parts of the page in the browser that share no state with each other:   *)
(* the shell and its accounts, the forms of a host and of the AI service,  *)
(* the page of monitoring, the trust in the key of a host, the text        *)
(* editors, the files, the plans, the terminals and the network rates of   *)
(* the workspaces.  Their interleavings would add states and no behaviours *)
(* of any of them: a behaviour runs one part and leaves the others as they *)
(* began.  AccountShell is extended, the other parts are instances.        *)
(***************************************************************************)
EXTENDS AccountShell

CONSTANTS
  Parts,                                                          \* that may run
  MaxClicks, MaxLost,                                             \* HostForm
  Keys, Slots, MaxSubmits, MaxChanges,                            \* SettingsForm
  Values, Default, Reads, MaxEdits, MaxWrites,                    \* MonitorForms
  Addrs, HostKeys, MaxMoves,                                      \* HostTrust
  Files, Contents, Editors, MaxSaves,                             \* TextFiles, HostTrust
  Dirs, Names, Ops, Transfers, MaxCalls,                          \* FilePane
  Tasks, Risky, MaxLooks,                                         \* PlanPage
  Panes, Texts, Breaking, Control, Nothing, MaxTexts,             \* TerminalPane
  Physical, Virtual, Lo, Skew, Gap, MaxTime, MaxBoots,            \* NetworkRates
  MaxOutside                                                      \* TextFiles, FilePane

VARIABLES
  part,    \* the part that runs
  known, enabled, id, monitoring, loaded, hostForm, step, wish, done, created, binding,
  deleting, gone, listed, clicks, lost,
  data, key, panel, load, puts, submits, changes, due, overtaken, untold,
  stored, rules, form, alerts, info, ready, first, reads, write, edits, writes,
  machine, row, agent, hostSave, flow, link, job, hostSaves, moves, confirmed, reached, installed,
  disk, lock, opening, file, content, version, original, save, reload, seen, slipped, written,
  saves,
  remote, path, entries, selected, listings, ops, transfers, outside, calls, named, allowed,
  taken,
  status, tasks, loading, plan, creating, running, run, removal, looks, asked, agreed, unasked,
  pane, socket, active, questions, assistant, count, given, unconfirmed,
  now, boot, counters, total, cached, offered, previous, iface, chosen, sample, charted

Form      == INSTANCE HostForm WITH form <- hostForm, saves <- clicks, MaxSaves <- MaxClicks
Settings  == INSTANCE SettingsForm WITH saves <- submits, edits <- changes, NoKey <- None,
               MaxSaves <- MaxSubmits, MaxEdits <- MaxChanges
Monitor   == INSTANCE MonitorForms
Trust     == INSTANCE HostTrust WITH Keys <- HostKeys, binding <- agent, save <- hostSave,
               saves <- hostSaves
Text      == INSTANCE TextFiles WITH path <- file, outside <- written
Pane      == INSTANCE FilePane WITH loads <- listings, asked <- named, agreed <- allowed
Plans     == INSTANCE PlanPage WITH list <- tasks, shown <- plan
Terminals == INSTANCE TerminalPane WITH unasked <- unconfirmed
Rates     == INSTANCE NetworkRates WITH shown <- offered

PartNames ==
  {"shell", "form", "settings", "monitor", "trust", "text", "files", "plans", "terminals",
   "rates"}

ASSUME BrowserAssumption ==
  /\ Assumptions /\ Form!Assumptions /\ Settings!Assumptions
  /\ Monitor!Assumptions /\ Trust!Assumptions /\ Text!Assumptions
  /\ Pane!Assumptions /\ Plans!Assumptions /\ Terminals!Assumptions /\ Rates!Assumptions
  /\ Parts \subseteq PartNames

formVars == <<known, enabled, id, monitoring, loaded, hostForm, step, wish, done, created,
              binding, deleting, gone, listed, clicks, lost>>
settingsVars == <<data, key, panel, load, puts, submits, changes, due, overtaken, untold>>
monitorVars == <<stored, rules, form, alerts, info, ready, first, reads, write, edits, writes>>
trustVars == <<machine, row, agent, hostSave, flow, link, job, hostSaves, moves, confirmed,
               reached, installed>>
textVars == <<disk, lock, opening, file, content, version, original, save, reload, seen, slipped,
              written, saves>>
paneVars == <<remote, path, entries, selected, listings, ops, transfers, outside, calls, named,
              allowed, taken>>
plansVars == <<status, tasks, loading, plan, creating, running, run, removal, looks, asked,
               agreed, unasked>>
terminalsVars == <<pane, socket, active, questions, assistant, count, given, unconfirmed>>
ratesVars == <<now, boot, counters, total, cached, offered, previous, iface, chosen, sample,
               charted>>
pageVars == <<part, vars, formVars, settingsVars, monitorVars, trustVars, textVars, paneVars,
          plansVars, terminalsVars, ratesVars>>

\* The parts that do not run are as they may begin: the page without a session, the form of
\* a new host, and so on.
PageInit ==
  /\ part \in Parts
  /\ Init /\ (part # "shell" => cookie = None)
  /\ Form!Init /\ (part # "form" => ~known)
  /\ Settings!Init /\ (part # "settings" => key = None /\ data.source = "byok")
  /\ Monitor!Init /\ (part # "monitor" => stored.settings.value = Default /\ stored.enabled
                                                  /\ rules = Default)
  /\ Trust!Init /\ (part # "trust" => /\ machine = [a \in Addrs |-> CHOOSE k \in HostKeys : TRUE]
                                      /\ row.addr = CHOOSE a \in Addrs : TRUE)
  /\ Text!Init /\ (part # "text" => \A f \in Files : disk[f] = CHOOSE c \in Contents : TRUE)
  /\ Pane!Init /\ (part # "files" => \A d \in Dirs : remote[d] = {})
  /\ Plans!Init /\ (part # "plans" => \A t \in Tasks : status[t] = "absent")
  /\ Terminals!Init /\ Rates!Init

PageNext ==
  /\ UNCHANGED part
  /\ IF part = "shell"     THEN Next           ELSE UNCHANGED vars
  /\ IF part = "form"      THEN Form!Next      ELSE UNCHANGED formVars
  /\ IF part = "settings"  THEN Settings!Next  ELSE UNCHANGED settingsVars
  /\ IF part = "monitor"   THEN Monitor!Next   ELSE UNCHANGED monitorVars
  /\ IF part = "trust"     THEN Trust!Next     ELSE UNCHANGED trustVars
  /\ IF part = "text"      THEN Text!Next      ELSE UNCHANGED textVars
  /\ IF part = "files"     THEN Pane!Next      ELSE UNCHANGED paneVars
  /\ IF part = "plans"     THEN Plans!Next     ELSE UNCHANGED plansVars
  /\ IF part = "terminals" THEN Terminals!Next ELSE UNCHANGED terminalsVars
  /\ IF part = "rates"     THEN Rates!Next     ELSE UNCHANGED ratesVars

PageSpec == PageInit /\ [][PageNext]_pageVars

-----------------------------------------------------------------------------
\* The types of all parts.
TypesOK ==
  /\ TypeOK /\ Form!TypeOK /\ Settings!TypeOK /\ Monitor!TypeOK /\ Trust!TypeOK
  /\ Text!TypeOK /\ Pane!TypeOK /\ Plans!TypeOK /\ Terminals!TypeOK /\ Rates!TypeOK

\* The form of a host makes one host, however its requests end (HostEditor: submit); the
\* server keeps the key of the AI service that was saved last, and the form says that there
\* is one (SettingsPanel, aiSettingsSave).
FormsSave == Form!SavedOnce /\ Settings!KeyKept

\* No read of the monitoring page takes away what the user types (MonitorPage: refresh).
KeepsEdits == Monitor!KeepsEdits

\* A text is saved over a content its editor has seen (TextEditor, writeText).
SavesOverSeen == Text!SavesOverSeen

\* What is deleted, moved, replaced, executed or typed into a shell is what the user was asked
\* about, wherever the page has gone in the meantime (Files: op, upload; AIPage: execute,
\* Workspace: paste, insert); and a credential or an agent goes to the machine whose key was
\* confirmed, whatever changes its record meanwhile (trust, connect, runAgentJob).
OnlyWhatWasConfirmed ==
  /\ Trust!KeysConfirmed /\ Trust!InstalledWhereAsked
  /\ Pane!TargetsConfirmed /\ Plans!RunsWhatWasConfirmed /\ Terminals!LinesConfirmed

\* A rate is what really went over the selected interface (Workspace: readings).
RatesAreReal == Rates!RatesAreReal
====
