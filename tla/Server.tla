---- MODULE Server ----
(***************************************************************************)
(* Parts of the system that share no state with each other: of the server  *)
(* the execution of AI tasks, the SSH connections, the collectors of       *)
(* resource readings, the evaluation of alerts and their deliveries, the   *)
(* credits, the checkout, the samples of an agent and its credential; and  *)
(* two of the browser that must come to an end, the download and the       *)
(* dialogs.  Their interleavings would add states and no behaviours of any *)
(* of them: a behaviour runs one part and leaves the others as they began. *)
(* TaskExecution is extended, the other parts are instances.               *)
(***************************************************************************)
EXTENDS TaskExecution

CONSTANTS
  Parts,                                                         \* that may run
  Users, Sessions, Attempts, NoUser, PerUser, Capacity,          \* Connections
  Windows, MaxHubs, MaxReadings,                                 \* MetricsHub
  MaxDeliveries, BatchSize, MaxRetries, MaxAborts,               \* AlertDeliveries
  Metrics, Mounts, Never, Gap, Online, Grace, Duration, Recovery,\* AlertEngine
  Cooldown, MaxTime, Remembered,
  MaxChanges,                                                    \* of hosts, receivers, rules
  Payers, Calls, Events, Amounts, Reserves,                      \* CreditLedger
  Requests, Payments, MaxInvoices, MaxExpiries,                  \* Checkout
  Buffered, Fresh, Keep, Window, Retention, MaxSamples, MaxAge,  \* ReportPipeline
  MaxBytes, MaxResets, MaxStarts, MaxToggles,
  Agents, Secrets, MaxAbandoned,                                 \* AgentEnrollment
  Chunks,                                                        \* DownloadStream
  Questions, Editors, MaxEdits,                                  \* Dialogs
  None

VARIABLES
  part,    \* the part that runs
  session, ended, record, connections, live, attempt, sweeps, logouts, changes,
  monitor, hubs, subscribers, cancelled, collector, reading, mutex, todo, full, channel, at, got,
  rows, wanted, batch, settings, outcome, saves, aborts, accepted, unsure,
  clock, lastCurrent, values, muted, state, evaluated, edits, seen, raised,
  balance, source, grants, usage, calls, recoveries,
  customer, cached, credited, periods, request, expiries, payment, subscribed, invoices, events,
  ticks, counter, identity, resets, moved, samples, up, starts, paused, buffered, buffer,
  sending, answer, late, setting, toggles, stored, latest, current, traffic, first, recorded,
  excused,
  enabled, digest, pending, boundAgent, reporter, regToken, issued, handedOut, pc, disk, memory,
  requests, reply,
  page, fetching, sent, toWorker, toPage, port, offered, timer, stream, queue, pulling,
  terminated, frame, saved,
  questions, answers, stack, phase, after, dirty, overflow, savedOverflow, typed, logoffs

Conns      == INSTANCE Connections
Hub        == INSTANCE MetricsHub
Deliveries == INSTANCE AlertDeliveries WITH changes <- saves
Alerts     == INSTANCE AlertEngine WITH changes <- edits, Hold <- Duration
Ledger     == INSTANCE CreditLedger WITH Users <- Payers, events <- grants,
                                         restarts <- recoveries
Paying     == INSTANCE Checkout WITH Sessions <- Payments, session <- payment
Pipeline   == INSTANCE ReportPipeline WITH Capacity <- Buffered, MaxTime <- MaxAge,
                                           clock <- ticks, queue <- buffered, rows <- stored
Enrollment == INSTANCE AgentEnrollment WITH lastCurrent <- reporter
Download   == INSTANCE DownloadStream WITH reading <- fetching
Asking     == INSTANCE Dialogs WITH Windows <- Editors, queue <- questions, edits <- typed,
                                    expiries <- logoffs

PartNames == {"tasks", "connections", "hub", "deliveries", "alerts", "ledger", "paying",
              "pipeline", "enrollment", "download", "dialogs"}

ASSUME ServerAssumption ==
  /\ Assumptions /\ Conns!Assumptions /\ Hub!Assumptions /\ Deliveries!Assumptions
  /\ Alerts!Assumptions /\ Ledger!Assumptions /\ Paying!Assumptions /\ Pipeline!Assumptions
  /\ Download!Assumptions /\ Asking!Assumptions
  /\ Parts \subseteq PartNames

connsVars == <<session, ended, record, connections, live, attempt, sweeps, logouts, changes>>
hubVars   == <<monitor, hubs, subscribers, cancelled, collector, reading, mutex, todo, full,
               channel, at, got>>
deliveriesVars == <<rows, wanted, batch, settings, outcome, saves, aborts, accepted, unsure>>
alertsVars == <<clock, lastCurrent, values, muted, state, evaluated, edits, seen, raised>>
ledgerVars == <<balance, source, grants, usage, calls, recoveries>>
payingVars == <<customer, cached, credited, periods, request, expiries, payment, subscribed,
                invoices, events>>
pipelineVars == <<ticks, counter, identity, resets, moved, samples, up, starts, paused, buffered,
                  buffer, sending, answer, late, setting, toggles, stored, latest, current,
                  traffic, first, recorded, excused>>
enrollmentVars == <<enabled, digest, pending, boundAgent, reporter, regToken, issued, handedOut,
                    pc, disk, memory, requests, reply>>
downloadVars == <<page, fetching, sent, toWorker, toPage, port, offered, timer, stream, queue,
                  pulling, terminated, frame, saved>>
askingVars == <<questions, answers, stack, phase, after, dirty, overflow, savedOverflow, typed,
                logoffs>>
serverVars == <<part, vars, connsVars, hubVars, deliveriesVars, alertsVars, ledgerVars,
                payingVars, pipelineVars, enrollmentVars, downloadVars, askingVars>>

ServerInit ==
  /\ part \in Parts
  /\ Init /\ Conns!Init /\ Hub!Init /\ Deliveries!Init /\ Alerts!Init /\ Ledger!Init
  /\ Paying!Init /\ Pipeline!Init /\ Enrollment!Init /\ Download!Init /\ Asking!Init

ServerNext ==
  /\ UNCHANGED part
  /\ IF part = "tasks"       THEN Next            ELSE UNCHANGED vars
  /\ IF part = "connections" THEN Conns!Next      ELSE UNCHANGED connsVars
  /\ IF part = "hub"         THEN Hub!Next        ELSE UNCHANGED hubVars
  /\ IF part = "deliveries"  THEN Deliveries!Next ELSE UNCHANGED deliveriesVars
  /\ IF part = "alerts"      THEN Alerts!Next     ELSE UNCHANGED alertsVars
  /\ IF part = "ledger"      THEN Ledger!Next     ELSE UNCHANGED ledgerVars
  /\ IF part = "paying"      THEN Paying!Next     ELSE UNCHANGED payingVars
  /\ IF part = "pipeline"    THEN Pipeline!Next   ELSE UNCHANGED pipelineVars
  /\ IF part = "enrollment"  THEN Enrollment!Next ELSE UNCHANGED enrollmentVars
  /\ IF part = "download"    THEN Download!Next   ELSE UNCHANGED downloadVars
  /\ IF part = "dialogs"     THEN Asking!Next     ELSE UNCHANGED askingVars

ServerSpec == ServerInit /\ [][ServerNext]_serverVars

\* The executions, the collectors, the workers of deliveries and the agents go on.  No
\* action that is assumed fair is possible before its part has run, so the assumption asks
\* nothing of the parts that do not run.
WorkFairSpec ==
  ServerSpec /\ Fairness /\ Hub!Fairness /\ Deliveries!Fairness /\ Pipeline!Fairness

\* So do the requests and the guards of connections, the events of payments, the rotation,
\* the streams of a download and the animations of the dialogs.
AnswersFairSpec ==
  ServerSpec /\ Conns!Fairness /\ Paying!Fairness /\ Enrollment!Fairness /\ Download!Fairness
       /\ Asking!Fairness

-----------------------------------------------------------------------------
\* The types of all parts.
TypesOK ==
  /\ TypeOK /\ Conns!TypeOK /\ Hub!TypeOK /\ Deliveries!TypeOK /\ Alerts!TypeOK
  /\ Ledger!TypeOK /\ Paying!TypeOK /\ Pipeline!TypeOK /\ Enrollment!TypeOK
  /\ Download!TypeOK /\ Asking!TypeOK

\* A task that has ended stays as it ended, and so does the account of a model call
\* (taskCancel, settle, recoverInterrupted).
EndsStay == EndStays /\ Ledger!AccountedOnce

\* Requests that dial at the same time keep to the limits, and no open SSH client is out
\* of reach (connect, guard, logout).
PlacesKept == Conns!WithinLimits /\ Conns!NoneLost

\* A connection ends with its session (guard).
SessionEnds == Conns!SessionEnds

\* A window that watches is served by the collector in the map, every other collector is
\* cancelled, and the last reading reaches every window (subscribeMetrics, collectMetrics).
WindowsServed == Hub!WindowsServed

\* A collector without a window ends (subscribeMetrics, collectMetrics).
CollectorEnds == Hub!CollectorEnds

\* A receiver gets an alert again only if the server could not know that it had it
\* (deliverPendingAlerts).
AgainOnlyIfUnsure == Deliveries!AgainOnlyIfUnsure

\* Every delivery comes to an end (deliverPendingAlerts).
DeliveriesEnd == Deliveries!DeliveriesEnd

\* An alert and its end rest on uninterrupted observation (transitionAlert).
Sustained == Alerts!Sustained

\* Messages alternate and keep the cooldown, and an alert lasts until its recovery
\* (transitionAlert, evaluateHostAlerts).
AlertsTell == Alerts!Paced /\ Alerts!ActiveUntilRecovered

\* No credit appears or disappears between grants, reservations and charges, and an
\* invoice adds credits once, if it is paid (credit, modelCall, settle, billingWebhook).
CreditsAdd == Ledger!Conserved /\ Paying!CreditedOnce

\* Each paid invoice of the user's customer is credited in the end (billingWebhook).
PaidIsCredited == Paying!PaidIsCredited

\* What monitor_traffic counts is what went over the interface between the samples that
\* were used (ingestSample).
TrafficCounted == Pipeline!TrafficCounted

\* Each sample is recorded once, and none is given up without a reason (ingestSample, Run).
SamplesCounted == Pipeline!CountedOnce /\ Pipeline!SampleKept

\* The queue of an agent runs empty (Run).
QueueDrains == Pipeline!QueueDrains

\* A rotation that the agent has saved completes (agentReport, Run).
RotationCompletes == Enrollment!RotationCompletes

\* A download that is done is whole (downloadStream, transfer-worker.js).
DoneIsWhole == Download!DoneIsWhole

\* A download ends on both sides (downloadStream, transfer-worker.js).
DownloadEnds == Download!DownloadEnds

\* One question is shown, the one asked first, and the page scrolls again when nothing
\* lies over it (Dialogs, Modal).
FirstIsShown == Asking!FirstIsShown

\* Every question gets an answer, unless a window has come to lie over it (Dialogs, Modal).
EveryoneIsAnswered == Asking!EveryoneIsAnswered
====
