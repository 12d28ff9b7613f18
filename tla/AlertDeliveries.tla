---- MODULE AlertDeliveries ----
(***************************************************************************)
(* What becomes of an alert that AlertEngine has raised: the rows of       *)
(* alert_deliveries, the one worker that sends them to the user's webhook, *)
(* and the receiver, which may be out of reach, or take an event and fail  *)
(* to say so.                                                              *)
(*                                                                         *)
(* The worker reads a batch of rows together with the alert settings and   *)
(* works it off with what it has read; sending and writing the result are  *)
(* two steps, between which the process may end.  The waiting times grow   *)
(* with the attempts; here a row is due again at some later time.          *)
(***************************************************************************)
EXTENDS Naturals, Sequences, FiniteSets, SequencesExt, FiniteSetsExt

CONSTANTS
  MaxDeliveries,   \* bound of the model; deliveries are numbered as they are created
  BatchSize,       \* 8: rows read at once
  MaxRetries,      \* 7: the attempts after which a failure is the last
  MaxChanges,      \* bound of the model: changes of the alert settings
  MaxAborts        \* bound of the model: ends of the process or of a round in the middle

Assumptions ==
  /\ BatchSize \in Nat \ {0} /\ MaxRetries \in Nat
  /\ MaxDeliveries \in Nat /\ MaxChanges \in Nat /\ MaxAborts \in Nat

VARIABLES
  rows,       \* alert_deliveries
  wanted,     \* whether the settings have a webhook that is enabled and not muted
  batch,      \* what the worker still has to work off, the head being sent
  settings,   \* wanted, as the worker has read it
  outcome,    \* what came of sending the head
  changes, aborts,
  accepted,   \* history: how often the receiver took each event
  unsure      \* history: how often the worker did not learn, or not note, that it did

vars == <<rows, wanted, batch, settings, outcome, changes, aborts, accepted, unsure>>

Deliveries == 1..MaxDeliveries
Ends     == {"delivered", "failed", "discarded"}
Row      == [status : {"none", "pending"} \cup Ends, attempts : 0..(MaxRetries + 1), due : BOOLEAN]
NoRow    == [status |-> "none", attempts |-> 0, due |-> FALSE]
Outcomes == {"unsent", "ok", "error"}

TypeOK ==
  /\ rows \in [Deliveries -> Row]
  /\ wanted \in BOOLEAN /\ settings \in BOOLEAN
  /\ batch \in Seq(Deliveries) /\ Len(batch) <= BatchSize
  /\ outcome \in Outcomes
  /\ changes \in 0..MaxChanges /\ aborts \in 0..MaxAborts
  /\ accepted \in [Deliveries -> Nat] /\ unsure \in [Deliveries -> Nat]

Init ==
  /\ rows = [d \in Deliveries |-> NoRow]
  /\ wanted = TRUE /\ settings = TRUE
  /\ batch = <<>> /\ outcome = "unsent"
  /\ changes = 0 /\ aborts = 0
  /\ accepted = [d \in Deliveries |-> 0] /\ unsure = [d \in Deliveries |-> 0]

Pending == {d \in Deliveries : rows[d].status = "pending"}
Due     == {d \in Pending : rows[d].due}

-----------------------------------------------------------------------------
\* evaluateHostAlerts, in the transaction that records the event.
Raise(d) ==
  /\ wanted
  /\ rows[d].status = "none" /\ \A e \in 1..(d - 1) : rows[e].status # "none"
  /\ rows' = [rows EXCEPT ![d] = [status |-> "pending", attempts |-> 0, due |-> TRUE]]
  /\ UNCHANGED <<wanted, batch, settings, outcome, changes, aborts, accepted, unsure>>

\* alertsSave, or the end of a mute.
ChangeSettings ==
  /\ changes < MaxChanges /\ changes' = changes + 1
  /\ wanted' = ~wanted
  /\ UNCHANGED <<rows, batch, settings, outcome, aborts, accepted, unsure>>

\* next_attempt passes.
Elapse(d) ==
  /\ d \in Pending \ Due
  /\ rows' = [rows EXCEPT ![d].due = TRUE]
  /\ UNCHANGED <<wanted, batch, settings, outcome, changes, aborts, accepted, unsure>>

-----------------------------------------------------------------------------
(* deliverPendingAlerts *)

\* The first rows that are due, as many as a batch takes.
ReadBatch ==
  \E first \in [1..Min({BatchSize, Cardinality(Due)}) -> Due] :
    /\ batch = <<>> /\ Due # {}
    /\ \A i, j \in DOMAIN first : i < j => first[i] < first[j]
    /\ \A i \in DOMAIN first, d \in Due \ Range(first) : first[i] < d
    /\ batch' = first
    /\ settings' = wanted
    /\ UNCHANGED <<rows, wanted, outcome, changes, aborts, accepted, unsure>>

Update(d, status, attempts) ==
  /\ rows' = [rows EXCEPT ![d] = [status |-> status, attempts |-> attempts, due |-> FALSE]]
  /\ batch' = Tail(batch) /\ outcome' = "unsent"

\* Mutant: the row stays pending until alerts are wanted again.
DiscardLater ==
  /\ batch # <<>> /\ outcome = "unsent" /\ ~settings
  /\ batch' = Tail(batch)
  /\ UNCHANGED <<rows, outcome, wanted, settings, changes, aborts, accepted, unsure>>

Discard ==
  /\ batch # <<>> /\ outcome = "unsent" /\ ~settings
  /\ Update(Head(batch), "discarded", rows[Head(batch)].attempts)
  /\ UNCHANGED <<wanted, settings, changes, aborts, accepted, unsure>>

\* sendMonitorWebhook.  An error may also mean that the answer was lost.
Send ==
  /\ batch # <<>> /\ outcome = "unsent" /\ settings
  /\ \/ /\ outcome' = "ok"
        /\ accepted' = [accepted EXCEPT ![Head(batch)] = @ + 1] /\ UNCHANGED unsure
     \/ /\ outcome' = "error"
        /\ accepted' = [accepted EXCEPT ![Head(batch)] = @ + 1]
        /\ unsure' = [unsure EXCEPT ![Head(batch)] = @ + 1]
     \/ outcome' = "error" /\ UNCHANGED <<accepted, unsure>>
  /\ UNCHANGED <<rows, wanted, batch, settings, changes, aborts>>

\* Mutant: the result of a delivery that was taken is not written.
NoteNothing ==
  /\ outcome # "unsent"
  /\ LET d == Head(batch) IN
       Update(d, IF rows[d].attempts >= MaxRetries /\ outcome = "error" THEN "failed"
                 ELSE "pending",
              rows[d].attempts + 1)
  /\ UNCHANGED <<wanted, settings, changes, aborts, accepted, unsure>>

\* The status, the attempt and the time of the next one.
Note ==
  /\ outcome # "unsent"
  /\ LET d == Head(batch) IN
       Update(d, IF outcome = "ok" THEN "delivered"
                 ELSE IF rows[d].attempts >= MaxRetries THEN "failed" ELSE "pending",
              rows[d].attempts + 1)
  /\ UNCHANGED <<wanted, settings, changes, aborts, accepted, unsure>>

\* The process ends, or a statement fails and with it the whole round.
Abort ==
  /\ batch # <<>> /\ aborts < MaxAborts /\ aborts' = aborts + 1
  /\ batch' = <<>> /\ outcome' = "unsent"
  /\ unsure' = IF outcome = "ok" THEN [unsure EXCEPT ![Head(batch)] = @ + 1] ELSE unsure
  /\ UNCHANGED <<rows, wanted, settings, changes, accepted>>

Worker == ReadBatch \/ Discard \/ Send \/ Note

Next ==
  \/ \E d \in Deliveries : Raise(d) \/ Elapse(d)
  \/ ChangeSettings \/ Worker \/ Abort

Spec == Init /\ [][Next]_vars

\* The worker's loop, every step of which has a timeout; and time.
Fairness == WF_vars(Worker) /\ \A d \in Deliveries : WF_vars(Elapse(d))

-----------------------------------------------------------------------------
(* Correctness *)

\* The receiver gets an event again only when the worker could not know that it
\* had it, because an answer or the note of it was lost; it tells the copies by
\* the Idempotency-Key.
AgainOnlyIfUnsure == \A d \in Deliveries : accepted[d] <= 1 + unsure[d]

\* Every delivery comes to an end, however often the receiver refuses it and
\* whatever is cut off in the middle.
DeliveriesEnd == \A d \in Deliveries : rows[d].status = "pending" ~> rows[d].status \in Ends
====
