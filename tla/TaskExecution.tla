---- MODULE TaskExecution ----
(***************************************************************************)
(* One AI task from its plan to its end: the requests that execute it, of  *)
(* which several may be made at once, those that cancel it, its deletion,  *)
(* and the restart that interrupts it.                                     *)
(*                                                                         *)
(* The status is a column of the task's row; who executes is an entry of   *)
(* taskControls, which a process loses.  An execution runs the steps one   *)
(* by one on its own copy of the task and saves that copy at the end.  The *)
(* checks of connection, plan hash and confirmed target come before        *)
(* anything is changed and are one refusal; the analysis of the results is *)
(* a call of CreditLedger's and here the time an execution takes to save.  *)
(***************************************************************************)
EXTENDS Naturals, Sequences, FiniteSets

CONSTANTS
  Executions,   \* requests to execute the task
  Cancels,      \* requests to cancel it
  Steps,        \* how many commands the plan has
  Nobody,
  MaxRestarts   \* bound of the model

Assumptions == Steps \in Nat \ {0} /\ Nobody \notin Executions /\ MaxRestarts \in Nat

VARIABLES
  (* the database *)
  status,     \* ai_tasks.status, "none" before the row exists and after it is deleted
  deleted,    \* how the row was deleted, "not" while it has not been
  (* the server process *)
  control,    \* the execution whose cancel function taskControls holds, or Nobody
  exec,       \* where each execution is
  cancel,     \* where each request to cancel is, with the status it has read
  restarts,
  (* history *)
  commands,   \* the commands that were started, by whom, and what came of them
  withdrawn   \* whether a request to cancel has found the task still planned

vars == <<status, deleted, control, exec, cancel, restarts, commands, withdrawn>>

Ends     == {"complete", "failed", "cancelled", "interrupted"}
Stages   == {"new", "loaded", "holding", "stepping", "commanding", "saving", "leaving", "over"}
Exec     == [stage : Stages, stopped : BOOLEAN, next : 1..(Steps + 1), verdict : Ends]
NoExec   == [stage |-> "new", stopped |-> FALSE, next |-> 1, verdict |-> "complete"]
Cancel   == [stage : {"new", "loaded", "signalled", "over"},
             read : {"none", "planned", "running"} \cup Ends]
NoCancel == [stage |-> "new", read |-> "none"]
Command  == [step : 1..Steps, by : Executions, outcome : {"started", "ok", "failed"}]

TypeOK ==
  /\ status \in {"none", "planned", "running"} \cup Ends
  /\ deleted \in {"not", "alone", "with_host"} /\ withdrawn \in BOOLEAN
  /\ control \in Executions \cup {Nobody}
  /\ exec \in [Executions -> Exec] /\ cancel \in [Cancels -> Cancel]
  /\ restarts \in 0..MaxRestarts
  /\ commands \in Seq(Command)

Init ==
  /\ status = "none" /\ deleted = "not"
  /\ control = Nobody
  /\ exec = [x \in Executions |-> NoExec] /\ cancel = [k \in Cancels |-> NoCancel]
  /\ restarts = 0
  /\ commands = <<>> /\ withdrawn = FALSE

Moved(x, stage) == [exec EXCEPT ![x].stage = stage]

-----------------------------------------------------------------------------
TaskCreate ==
  /\ status = "none" /\ deleted = "not"
  /\ status' = "planned"
  /\ UNCHANGED <<deleted, control, exec, cancel, restarts, commands, withdrawn>>

(* taskExecute *)

LoadTask(x) ==
  /\ exec[x].stage = "new" /\ status # "none"
  /\ exec' = Moved(x, "loaded")
  /\ UNCHANGED <<status, deleted, control, cancel, restarts, commands, withdrawn>>

\* LoadOrStore: one execution at a time, in this process.
HoldTask(x) ==
  /\ exec[x].stage = "loaded" /\ control = Nobody
  /\ control' = x
  /\ exec' = Moved(x, "holding")
  /\ UNCHANGED <<status, deleted, cancel, restarts, commands, withdrawn>>

\* A check before that fails, or another execution holds the task.
Refuse(x) ==
  /\ exec[x].stage = "loaded"
  /\ exec' = Moved(x, "over")
  /\ UNCHANGED <<status, deleted, control, cancel, restarts, commands, withdrawn>>

\* Mutant: an execution that cannot have the task does not give it free.
ClaimKeepsControl(x) ==
  /\ exec[x].stage = "holding"
  /\ IF status = "planned"
     THEN status' = "running" /\ exec' = Moved(x, "stepping")
     ELSE UNCHANGED status /\ exec' = Moved(x, "over")
  /\ UNCHANGED <<deleted, control, cancel, restarts, commands, withdrawn>>

\* The statement that makes a planned task a running one.
Claim(x) ==
  /\ exec[x].stage = "holding"
  /\ IF status = "planned"
     THEN status' = "running" /\ exec' = Moved(x, "stepping")
     ELSE UNCHANGED status /\ exec' = Moved(x, "leaving")
  /\ UNCHANGED <<deleted, control, cancel, restarts, commands, withdrawn>>

\* The statement fails, or it is carried out and its answer is lost.
ClaimFails(x) ==
  /\ exec[x].stage = "holding"
  /\ status' \in {status} \cup (IF status = "planned" THEN {"running"} ELSE {})
  /\ exec' = Moved(x, "leaving")
  /\ UNCHANGED <<deleted, control, cancel, restarts, commands, withdrawn>>

\* The head of the loop: a command is sent unless the context is done.
StartStep(x) ==
  /\ exec[x].stage = "stepping" /\ ~exec[x].stopped /\ exec[x].next <= Steps
  /\ commands' = Append(commands, [step |-> exec[x].next, by |-> x, outcome |-> "started"])
  /\ exec' = Moved(x, "commanding")
  /\ UNCHANGED <<status, deleted, control, cancel, restarts, withdrawn>>

\* The last command of the sequence is the one x is waiting for.
Ended(outcome) == [commands EXCEPT ![Len(commands)].outcome = outcome]

\* A command succeeds, even when the context is done meanwhile; or it fails, is
\* too long, or is interrupted.
FinishStep(x) ==
  /\ exec[x].stage = "commanding"
  /\ \/ commands' = Ended("ok") /\ exec' = [exec EXCEPT ![x].stage = "stepping", ![x].next = @ + 1]
     \/ /\ commands' = Ended("failed")
        /\ exec' = [exec EXCEPT ![x].stage = "saving",
                                ![x].verdict = IF exec[x].stopped THEN "cancelled" ELSE "failed"]
  /\ UNCHANGED <<status, deleted, control, cancel, restarts, withdrawn>>

\* All steps are done, or the context is before the next one.
EndSteps(x) ==
  /\ exec[x].stage = "stepping"
  /\ exec[x].stopped \/ exec[x].next > Steps
  /\ exec' = [exec EXCEPT ![x].stage = "saving",
                          ![x].verdict = IF exec[x].next > Steps THEN @ ELSE "cancelled"]
  /\ UNCHANGED <<status, deleted, control, cancel, restarts, commands, withdrawn>>

\* The copy is saved whatever the row says now; without a row nothing happens.
Save(x) ==
  /\ exec[x].stage = "saving"
  /\ status' = IF status = "none" THEN "none" ELSE exec[x].verdict
  /\ exec' = Moved(x, "leaving")
  /\ UNCHANGED <<deleted, control, cancel, restarts, commands, withdrawn>>

SaveFails(x) ==
  /\ exec[x].stage = "saving"
  /\ exec' = Moved(x, "leaving")
  /\ UNCHANGED <<status, deleted, control, cancel, restarts, commands, withdrawn>>

\* The deferred Delete, by the task's ID.
Leave(x) ==
  /\ exec[x].stage = "leaving"
  /\ control' = Nobody
  /\ exec' = Moved(x, "over")
  /\ UNCHANGED <<status, deleted, cancel, restarts, commands, withdrawn>>

\* The connection is closed, the request's client is gone, or five minutes are
\* over.
Stop(x) ==
  /\ exec[x].stage \in {"holding", "stepping", "commanding", "saving"} /\ ~exec[x].stopped
  /\ exec' = [exec EXCEPT ![x].stopped = TRUE]
  /\ UNCHANGED <<status, deleted, control, cancel, restarts, commands, withdrawn>>

-----------------------------------------------------------------------------
(* taskCancel: three steps, between which an execution may begin or end *)

LoadCancel(k) ==
  /\ cancel[k].stage = "new" /\ status # "none"
  /\ cancel' = [cancel EXCEPT ![k] = [stage |-> "loaded", read |-> status]]
  /\ UNCHANGED <<status, deleted, control, exec, restarts, commands, withdrawn>>

Signal(k) ==
  /\ cancel[k].stage = "loaded"
  /\ exec' = IF control = Nobody THEN exec ELSE [exec EXCEPT ![control].stopped = TRUE]
  /\ cancel' = [cancel EXCEPT ![k].stage = "signalled"]
  /\ UNCHANGED <<status, deleted, control, restarts, commands, withdrawn>>

\* Mutant: the status read before decides alone.
WithdrawByCopy(k) ==
  /\ cancel[k].stage = "signalled"
  /\ IF cancel[k].read = "planned" /\ status # "none"
     THEN status' = "cancelled" /\ withdrawn' = TRUE
     ELSE UNCHANGED <<status, withdrawn>>
  /\ cancel' = [cancel EXCEPT ![k].stage = "over"]
  /\ UNCHANGED <<deleted, control, exec, restarts, commands>>

\* A task that was planned is cancelled if it still is.
Withdraw(k) ==
  /\ cancel[k].stage = "signalled"
  /\ IF cancel[k].read = "planned" /\ status = "planned"
     THEN status' = "cancelled" /\ withdrawn' = TRUE
     ELSE UNCHANGED <<status, withdrawn>>
  /\ cancel' = [cancel EXCEPT ![k].stage = "over"]
  /\ UNCHANGED <<deleted, control, exec, restarts, commands>>

-----------------------------------------------------------------------------
\* taskDelete, and the maintenance that deletes old tasks.
TaskDelete ==
  /\ status \notin {"none", "running"}
  /\ status' = "none" /\ deleted' = "alone"
  /\ UNCHANGED <<control, exec, cancel, restarts, commands, withdrawn>>

\* The tasks of a host go with it, and its connections are closed after that.
HostDelete ==
  /\ status # "none"
  /\ status' = "none" /\ deleted' = "with_host"
  /\ UNCHANGED <<control, exec, cancel, restarts, commands, withdrawn>>

\* Mutant: what was interrupted is planned again.
RestartRetries ==
  /\ restarts < MaxRestarts /\ restarts' = restarts + 1
  /\ status' = IF status = "running" THEN "planned" ELSE status
  /\ control' = Nobody
  /\ exec' = [x \in Executions |-> IF exec[x].stage = "new" THEN exec[x]
                                   ELSE [exec[x] EXCEPT !.stage = "over"]]
  /\ cancel' = [k \in Cancels |-> IF cancel[k].stage = "new" THEN cancel[k]
                                  ELSE [cancel[k] EXCEPT !.stage = "over"]]
  /\ UNCHANGED <<deleted, commands, withdrawn>>

\* The process ends at any point, and recoverInterrupted runs before the next one
\* serves anything.
Restart ==
  /\ restarts < MaxRestarts /\ restarts' = restarts + 1
  /\ status' = IF status = "running" THEN "interrupted" ELSE status
  /\ control' = Nobody
  /\ exec' = [x \in Executions |-> IF exec[x].stage = "new" THEN exec[x]
                                   ELSE [exec[x] EXCEPT !.stage = "over"]]
  /\ cancel' = [k \in Cancels |-> IF cancel[k].stage = "new" THEN cancel[k]
                                  ELSE [cancel[k] EXCEPT !.stage = "over"]]
  /\ UNCHANGED <<deleted, commands, withdrawn>>

-----------------------------------------------------------------------------
Execute(x) ==
  \/ LoadTask(x) \/ HoldTask(x) \/ Refuse(x) \/ Claim(x) \/ ClaimFails(x)
  \/ StartStep(x) \/ FinishStep(x) \/ EndSteps(x) \/ Save(x) \/ SaveFails(x) \/ Leave(x)

TaskCancel(k) == LoadCancel(k) \/ Signal(k) \/ Withdraw(k)

Next ==
  \/ TaskCreate \/ TaskDelete \/ HostDelete \/ Restart
  \/ \E x \in Executions : Execute(x) \/ Stop(x)
  \/ \E k \in Cancels : TaskCancel(k)

Spec == Init /\ [][Next]_vars

\* A handler goes on once it has begun: a command is limited to a minute, the
\* analysis and the statements by timeouts of their own.
Fairness == \A x \in Executions : WF_vars(exec[x].stage # "new" /\ Execute(x))

-----------------------------------------------------------------------------
(* Correctness *)

\* "Never rerun interrupted SSH commands": of all the requests to execute the
\* task, in this process and the next ones, one at most starts commands, each
\* step once, in order, and none after one that has not succeeded.
CommandsOnce ==
  \A i \in 1..Len(commands) :
    /\ commands[i].step = i
    /\ commands[i].by = commands[1].by
    /\ i < Len(commands) => commands[i].outcome = "ok"

\* What the row tells is what happened on the host: a planned task has run
\* nothing, a complete one everything, a failed one has stopped at a failure;
\* and a task cancelled while it was planned never runs.
StatusTells ==
  /\ status = "planned" => commands = <<>>
  /\ status = "complete" => /\ Len(commands) = Steps
                            /\ \A i \in 1..Steps : commands[i].outcome = "ok"
  /\ status = "failed" => /\ commands # <<>>
                          /\ commands[Len(commands)].outcome = "failed"
  /\ withdrawn => commands = <<>>

\* The final save asks for no status and a request to cancel writes one it has
\* read before: what the user was told of the end of a task stays so.
EndStays == [][(status \in Ends) => status' \in {status, "none"}]_vars

\* A task is not deleted, cancelled or ended by another request while commands of
\* it run: what runs on the host belongs to a task the user sees running, unless
\* the host is deleted.
ExecutedIsRunning ==
  \A x \in Executions : exec[x].stage \in {"stepping", "commanding", "saving"} =>
    /\ control = x
    /\ status = "running" \/ deleted = "with_host"

\* One execution at most runs the commands of a task, each once, while the task is running;
\* and the status of a task is what happened on the host.
RunsOnce == CommandsOnce /\ StatusTells /\ ExecutedIsRunning

\* An execution gives the task free in the end, even when it is never cancelled
\* and its result cannot be saved.
ExecutionEnds == \A x \in Executions : control = x ~> control # x
====
