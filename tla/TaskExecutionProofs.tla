---- MODULE TaskExecutionProofs ----
(***************************************************************************)
(* Proofs about TaskExecution for any number of requests to execute and to *)
(* cancel the task, of commands and of restarts.                           *)
(***************************************************************************)
EXTENDS TaskExecution, SequenceTheorems, TLAPS

-----------------------------------------------------------------------------
(* The inductive invariant *)

Working(x) == exec[x].stage \in {"stepping", "commanding", "saving"}

\* The first n commands have succeeded, and the first m are x's, in the order of the plan.
Done(n)      == \A i \in 1..n : commands[i].outcome = "ok"
OfPlan(x, m) == \A i \in 1..m : commands[i].step = i /\ commands[i].by = x

\* Who is inside taskExecute, after LoadOrStore and before the deferred Delete, is in the map.
Holders ==
  \A x \in Executions :
    exec[x].stage \in {"holding", "stepping", "commanding", "saving", "leaving"} <=> control = x

\* A row that is deleted is not made again, and before it is made nothing has run.
RowOnce ==
  /\ deleted # "not" => status = "none"
  /\ status = "none" /\ deleted = "not" => commands = <<>> /\ ~withdrawn

\* A task that was cancelled while it was planned is not picked up by anyone.
WithdrawnIsOver ==
  withdrawn => status \notin {"planned", "running"} /\ \A x \in Executions : ~Working(x)

\* What an execution knows of its progress is what it has done.
Progress ==
  \A x \in Executions :
    /\ exec[x].stage \in {"new", "loaded", "holding", "stepping", "commanding"} =>
         exec[x].verdict = "complete"
    /\ exec[x].stage \in {"new", "loaded", "holding"} => exec[x].next = 1
    /\ exec[x].stage = "stepping" =>
         Len(commands) = exec[x].next - 1 /\ OfPlan(x, Len(commands)) /\ Done(Len(commands))
    /\ exec[x].stage = "commanding" =>
         /\ exec[x].next <= Steps /\ Len(commands) = exec[x].next
         /\ OfPlan(x, Len(commands)) /\ Done(Len(commands) - 1)
    /\ exec[x].stage = "saving" =>
         /\ exec[x].verdict \in {"complete", "failed", "cancelled"}
         /\ exec[x].verdict = "complete" => Len(commands) = Steps /\ Done(Steps)
         /\ exec[x].verdict = "failed" =>
              commands # <<>> /\ commands[Len(commands)].outcome = "failed"

IInv ==
  /\ TypeOK /\ Holders /\ RowOnce /\ WithdrawnIsOver /\ Progress
  /\ CommandsOnce /\ StatusTells /\ ExecutedIsRunning

-----------------------------------------------------------------------------
LEMMA InitHolds == ASSUME Assumptions, Init PROVE IInv
<1> USE DEF Assumptions, Init
<1>1. NoExec \in Exec /\ NoCancel \in Cancel
  BY DEF NoExec, Exec, Stages, Ends, NoCancel, Cancel
<1>2. TypeOK
  <2>1. commands \in Seq(Command)
    BY EmptySeq
  <2>2. exec \in [Executions -> Exec] /\ cancel \in [Cancels -> Cancel]
    BY <1>1
  <2>3. restarts \in 0..MaxRestarts
    OBVIOUS
  <2> QED BY <2>1, <2>2, <2>3 DEF TypeOK
<1>3. \A x \in Executions :
        exec[x].stage = "new" /\ exec[x].next = 1 /\ exec[x].verdict = "complete"
  BY DEF NoExec
<1>4. Len(commands) = 0
  OBVIOUS
<1>5. Holders /\ Progress /\ ExecutedIsRunning
  BY <1>3 DEF Holders, Progress, ExecutedIsRunning
<1>6. CommandsOnce
  BY <1>4 DEF CommandsOnce
<1>7. RowOnce /\ WithdrawnIsOver /\ StatusTells
  BY DEF RowOnce, WithdrawnIsOver, StatusTells, Ends
<1> QED BY <1>2, <1>5, <1>6, <1>7 DEF IInv

-----------------------------------------------------------------------------
(* Requests to execute the task *)

\* One execution has control, so no other one works.
LEMMA Alone ==
  ASSUME Holders, NEW x \in Executions, NEW y \in Executions, control = x, y # x
  PROVE  ~Working(y) /\ exec[y].stage \notin {"holding", "leaving"}
BY DEF Holders, Working

LEMMA Moves ==
  ASSUME TypeOK, NEW x \in Executions, NEW stage \in Stages, exec' = Moved(x, stage)
  PROVE  /\ exec' \in [Executions -> Exec]
         /\ exec'[x].stage = stage /\ exec'[x].next = exec[x].next
         /\ exec'[x].verdict = exec[x].verdict /\ exec'[x].stopped = exec[x].stopped
         /\ \A y \in Executions : y # x => exec'[y] = exec[y]
BY DEF TypeOK, Moved, Exec

LEMMA BeginsKeep ==
  ASSUME Assumptions, IInv, NEW x \in Executions, LoadTask(x) \/ HoldTask(x) \/ Refuse(x)
  PROVE  IInv'
<1>1. PICK stage \in {"loaded", "holding", "over"} :
        /\ exec' = Moved(x, stage)
        /\ stage = "loaded" => exec[x].stage = "new" /\ control' = control
        /\ stage = "holding" => exec[x].stage = "loaded" /\ control = Nobody /\ control' = x
        /\ stage = "over" => exec[x].stage = "loaded" /\ control' = control
        /\ UNCHANGED <<status, deleted, cancel, restarts, commands, withdrawn>>
  BY DEF LoadTask, HoldTask, Refuse
<1>2. /\ exec' \in [Executions -> Exec]
      /\ exec'[x].stage = stage /\ exec'[x].next = exec[x].next
      /\ exec'[x].verdict = exec[x].verdict
      /\ \A y \in Executions : y # x => exec'[y] = exec[y]
  BY <1>1, Moves DEF IInv, Stages
<1>3. TypeOK'
  BY <1>1, <1>2 DEF IInv, TypeOK
<1>4. Holders'
  BY <1>1, <1>2 DEF IInv, Holders, Assumptions
<1>5. RowOnce' /\ WithdrawnIsOver' /\ CommandsOnce' /\ StatusTells'
  BY <1>1, <1>2 DEF IInv, RowOnce, WithdrawnIsOver, CommandsOnce, StatusTells, Working
<1>6. Progress'
  BY <1>1, <1>2 DEF IInv, Progress, Done, OfPlan
<1>7. ExecutedIsRunning'
  BY <1>1, <1>2 DEF IInv, ExecutedIsRunning, Assumptions
<1> QED BY <1>3, <1>4, <1>5, <1>6, <1>7 DEF IInv

LEMMA ClaimsKeep ==
  ASSUME Assumptions, IInv, NEW x \in Executions, Claim(x) \/ ClaimFails(x)
  PROVE  IInv'
<1>1. PICK stage \in {"stepping", "leaving"} :
        /\ exec' = Moved(x, stage) /\ exec[x].stage = "holding"
        /\ stage = "stepping" => status = "planned" /\ status' = "running"
        /\ status' = status \/ (status = "planned" /\ status' = "running")
        /\ UNCHANGED <<deleted, control, cancel, restarts, commands, withdrawn>>
  <2>1. CASE Claim(x)
    <3>1. CASE status = "planned"
      BY <2>1, <3>1 DEF Claim
    <3>2. CASE status # "planned"
      BY <2>1, <3>2 DEF Claim
    <3> QED BY <3>1, <3>2
  <2>2. CASE ClaimFails(x)
    BY <2>2 DEF ClaimFails
  <2> QED BY <2>1, <2>2
<1>2. /\ exec' \in [Executions -> Exec]
      /\ exec'[x].stage = stage /\ exec'[x].next = exec[x].next
      /\ exec'[x].verdict = exec[x].verdict
      /\ \A y \in Executions : y # x => exec'[y] = exec[y]
  BY <1>1, Moves DEF IInv, Stages
<1>3. control = x /\ exec[x].next = 1 /\ exec[x].verdict = "complete"
  BY <1>1 DEF IInv, Holders, Progress
<1>4. \A y \in Executions : ~Working(y) /\ (y # x => exec[y].stage \notin {"holding", "leaving"})
  BY <1>1, <1>3, Alone DEF IInv, Working
<1>5. status = "planned" => commands = <<>> /\ Len(commands) = 0 /\ ~withdrawn /\ deleted = "not"
  BY DEF IInv, StatusTells, WithdrawnIsOver, RowOnce
<1>6. TypeOK'
  BY <1>1, <1>2 DEF IInv, TypeOK
<1>7. Holders'
  BY <1>1, <1>2, <1>3 DEF IInv, Holders
<1>8. RowOnce' /\ CommandsOnce' /\ StatusTells'
  BY <1>1, <1>5 DEF IInv, RowOnce, CommandsOnce, StatusTells
<1>9. WithdrawnIsOver'
  BY <1>1, <1>2, <1>4, <1>5 DEF IInv, WithdrawnIsOver, Working
<1>10. Progress'
  BY <1>1, <1>2, <1>3, <1>5 DEF IInv, Progress, Done, OfPlan
<1>11. ExecutedIsRunning'
  BY <1>1, <1>2, <1>3, <1>4 DEF IInv, ExecutedIsRunning, Working
<1> QED BY <1>6, <1>7, <1>8, <1>9, <1>10, <1>11 DEF IInv

LEMMA StartsKeep == ASSUME Assumptions, IInv, NEW x \in Executions, StartStep(x) PROVE IInv'
<1> DEFINE n == exec[x].next
           command == [step |-> n, by |-> x, outcome |-> "started"]
<1>1. /\ exec[x].stage = "stepping" /\ n <= Steps /\ exec' = Moved(x, "commanding")
      /\ commands' = Append(commands, command)
      /\ UNCHANGED <<status, deleted, control, cancel, restarts, withdrawn>>
  BY DEF StartStep
<1>2. /\ exec' \in [Executions -> Exec]
      /\ exec'[x].stage = "commanding" /\ exec'[x].next = n
      /\ exec'[x].verdict = exec[x].verdict
      /\ \A y \in Executions : y # x => exec'[y] = exec[y]
  BY <1>1, Moves DEF IInv, Stages
<1>3. /\ control = x /\ exec[x].verdict = "complete" /\ Len(commands) = n - 1
      /\ OfPlan(x, n - 1) /\ Done(n - 1) /\ n \in 1..Steps /\ Steps \in Nat
  BY <1>1 DEF IInv, TypeOK, Exec, Holders, Progress, Assumptions
<1>4. \A y \in Executions : y # x => ~Working(y)
  BY <1>3, Alone DEF IInv
<1>5. /\ commands' \in Seq(Command) /\ Len(commands') = n /\ commands'[n] = command
      /\ \A i \in 1..(n - 1) : commands'[i] = commands[i]
  BY <1>1, <1>3 DEF IInv, TypeOK, Command
<1>6. status = "running" \/ deleted = "with_host"
  BY <1>1 DEF IInv, ExecutedIsRunning
<1> HIDE DEF n
<1>7. TypeOK'
  BY <1>1, <1>2, <1>5 DEF IInv, TypeOK
<1>8. Holders'
  BY <1>1, <1>2, <1>3 DEF IInv, Holders
<1>9. (\A i \in 1..n : commands'[i].step = i /\ commands'[i].by = x)
      /\ (\A i \in 1..(n - 1) : commands'[i].outcome = "ok")
  BY <1>3, <1>5 DEF OfPlan, Done
<1>10. CommandsOnce'
  BY <1>3, <1>5, <1>9 DEF CommandsOnce
<1>11. /\ status \in {"none", "running"} /\ ~withdrawn
       /\ status = "none" => deleted # "not"
  BY <1>1, <1>6 DEF IInv, RowOnce, WithdrawnIsOver, Working
<1>12. StatusTells' /\ RowOnce' /\ WithdrawnIsOver'
  BY <1>1, <1>11 DEF IInv, StatusTells, RowOnce, WithdrawnIsOver
<1>13. Progress'
  BY <1>1, <1>2, <1>3, <1>4, <1>5, <1>9 DEF IInv, Progress, Done, OfPlan, Working
<1>14. ExecutedIsRunning'
  BY <1>1, <1>2, <1>3, <1>6 DEF IInv, ExecutedIsRunning
<1> QED BY <1>7, <1>8, <1>10, <1>12, <1>13, <1>14 DEF IInv

LEMMA FinishKeeps == ASSUME Assumptions, IInv, NEW x \in Executions, FinishStep(x) PROVE IInv'
<1> DEFINE n == exec[x].next
<1>1. /\ control = x /\ exec[x].verdict = "complete" /\ Len(commands) = n /\ n \in 1..Steps
      /\ OfPlan(x, n) /\ Done(n - 1) /\ exec[x].stage = "commanding" /\ Steps \in Nat
      /\ exec[x] \in Exec /\ commands \in Seq(Command)
  BY DEF FinishStep, IInv, TypeOK, Exec, Holders, Progress, Assumptions
<1>2. \A y \in Executions : y # x => ~Working(y)
  BY <1>1, Alone DEF IInv
<1>3. PICK outcome \in {"ok", "failed"} :
        /\ commands' = [commands EXCEPT ![n] = [commands[n] EXCEPT !.outcome = outcome]]
        /\ outcome = "ok" =>
             exec' = [exec EXCEPT ![x].stage = "stepping", ![x].next = @ + 1]
        /\ outcome = "failed" =>
             exec' = [exec EXCEPT ![x].stage = "saving",
                                  ![x].verdict = IF exec[x].stopped THEN "cancelled" ELSE "failed"]
  BY <1>1 DEF FinishStep, Ended
<1>4. UNCHANGED <<status, deleted, control, cancel, restarts, withdrawn>>
  BY DEF FinishStep
<1>5. commands[n] \in Command
  BY <1>1, ElementOfSeq
<1>6. [commands[n] EXCEPT !.outcome = outcome] \in Command
  BY <1>3, <1>5 DEF Command
<1>7. /\ commands' \in Seq(Command) /\ Len(commands') = n
      /\ \A i \in 1..n : commands'[i] = IF i = n THEN [commands[n] EXCEPT !.outcome = outcome]
                                                ELSE commands[i]
  BY <1>1, <1>3, <1>6, ExceptSeq
<1>8. /\ \A i \in 1..n : commands'[i].step = i /\ commands'[i].by = x
      /\ \A i \in 1..(n - 1) : commands'[i].outcome = "ok"
      /\ commands'[n].outcome = outcome /\ commands' # <<>>
  <2>1. ASSUME NEW i \in 1..n PROVE commands'[i].step = i /\ commands'[i].by = x
    <3>1. commands[i].step = i /\ commands[i].by = x
      BY <1>1 DEF OfPlan
    <3>2. CASE i = n
      BY <1>5, <1>7, <3>1, <3>2 DEF Command
    <3>3. CASE i # n
      BY <1>7, <3>1, <3>3
    <3> QED BY <3>2, <3>3
  <2>2. ASSUME NEW i \in 1..(n - 1) PROVE commands'[i].outcome = "ok"
    BY <1>1, <1>7 DEF Done
  <2>3. commands'[n].outcome = outcome /\ commands' # <<>>
    BY <1>1, <1>5, <1>7 DEF Command
  <2> QED BY <2>1, <2>2, <2>3
<1>9. /\ exec' \in [Executions -> Exec]
      /\ \A y \in Executions : y # x => exec'[y] = exec[y]
      /\ outcome = "ok" => /\ exec'[x].stage = "stepping" /\ exec'[x].next = n + 1
                           /\ exec'[x].verdict = "complete"
      /\ outcome = "failed" => /\ exec'[x].stage = "saving"
                               /\ exec'[x].verdict \in {"cancelled", "failed"}
  <2>1. CASE outcome = "ok"
    BY <1>1, <1>3, <2>1 DEF IInv, TypeOK, Exec, Stages
  <2>2. CASE outcome = "failed"
    BY <1>1, <1>3, <2>2 DEF IInv, TypeOK, Exec, Stages, Ends
  <2> QED BY <1>3, <2>1, <2>2
<1>10. /\ status = "running" \/ deleted = "with_host"
       /\ status \in {"none", "running"} /\ ~withdrawn /\ (status = "none" => deleted # "not")
  BY <1>1 DEF IInv, ExecutedIsRunning, RowOnce, WithdrawnIsOver, Working
<1> HIDE DEF n
<1>11. TypeOK'
  BY <1>4, <1>7, <1>9 DEF IInv, TypeOK
<1>12. Holders'
  BY <1>1, <1>3, <1>4, <1>9 DEF IInv, Holders
<1>13. CommandsOnce'
  BY <1>1, <1>7, <1>8 DEF CommandsOnce
<1>14. StatusTells' /\ RowOnce' /\ WithdrawnIsOver'
  BY <1>4, <1>10 DEF IInv, StatusTells, RowOnce, WithdrawnIsOver
<1>15. Progress'
  <2>1. CASE outcome = "ok"
    BY <1>1, <1>2, <1>7, <1>8, <1>9, <2>1 DEF IInv, Progress, Done, OfPlan, Working
  <2>2. CASE outcome = "failed"
    BY <1>1, <1>2, <1>7, <1>8, <1>9, <2>2 DEF IInv, Progress, Done, OfPlan, Working
  <2> QED BY <1>3, <2>1, <2>2
<1>16. ExecutedIsRunning'
  BY <1>1, <1>2, <1>4, <1>9, <1>10 DEF ExecutedIsRunning, Working
<1> QED BY <1>11, <1>12, <1>13, <1>14, <1>15, <1>16 DEF IInv

LEMMA EndsKeep == ASSUME Assumptions, IInv, NEW x \in Executions, EndSteps(x) PROVE IInv'
<1>1. /\ control = x /\ exec[x].verdict = "complete" /\ exec[x].stage = "stepping"
      /\ Len(commands) = exec[x].next - 1 /\ Done(exec[x].next - 1)
      /\ exec[x] \in Exec /\ Steps \in Nat
      /\ UNCHANGED <<status, deleted, control, cancel, restarts, commands, withdrawn>>
  BY DEF EndSteps, IInv, TypeOK, Holders, Progress, Assumptions
<1>2. /\ exec' \in [Executions -> Exec]
      /\ exec'[x].stage = "saving"
      /\ exec'[x].verdict = IF exec[x].next > Steps THEN "complete" ELSE "cancelled"
      /\ \A y \in Executions : y # x => exec'[y] = exec[y]
  BY <1>1 DEF EndSteps, IInv, TypeOK, Exec, Stages, Ends
<1>3. exec[x].next > Steps => exec[x].next - 1 = Steps
  BY <1>1 DEF Exec
<1>4. TypeOK'
  BY <1>1, <1>2 DEF IInv, TypeOK
<1>5. Holders'
  BY <1>1, <1>2 DEF IInv, Holders
<1>6. RowOnce' /\ CommandsOnce' /\ StatusTells'
  BY <1>1 DEF IInv, RowOnce, CommandsOnce, StatusTells
<1>7. WithdrawnIsOver' /\ ExecutedIsRunning'
  BY <1>1, <1>2 DEF IInv, WithdrawnIsOver, ExecutedIsRunning, Working
<1>8. Progress'
  <2>1. CASE exec[x].next > Steps
    BY <1>1, <1>2, <1>3, <2>1 DEF IInv, Progress, Done, OfPlan
  <2>2. CASE ~(exec[x].next > Steps)
    BY <1>1, <1>2, <2>2 DEF IInv, Progress, Done, OfPlan
  <2> QED BY <2>1, <2>2
<1> QED BY <1>4, <1>5, <1>6, <1>7, <1>8 DEF IInv

\* The last step of an execution under control; Save writes the verdict.
LEMMA SavesKeep ==
  ASSUME Assumptions, IInv, NEW x \in Executions, Save(x) \/ SaveFails(x)
  PROVE  IInv'
<1>1. /\ exec[x].stage = "saving" /\ control = x /\ exec' = Moved(x, "leaving")
      /\ UNCHANGED <<deleted, control, cancel, restarts, commands, withdrawn>>
      /\ status' = status \/ status' = (IF status = "none" THEN "none" ELSE exec[x].verdict)
  BY DEF Save, SaveFails, IInv, Holders
<1>2. /\ exec' \in [Executions -> Exec] /\ exec'[x].stage = "leaving"
      /\ \A y \in Executions : y # x => exec'[y] = exec[y]
  BY <1>1, Moves DEF IInv, Stages
<1>3. \A y \in Executions : y # x => ~Working(y)
  BY <1>1, Alone DEF IInv
<1>4. /\ status \in {"none", "running"} /\ ~withdrawn
      /\ exec[x].verdict \in {"complete", "failed", "cancelled"}
      /\ exec[x].verdict = "complete" => Len(commands) = Steps /\ Done(Steps)
      /\ exec[x].verdict = "failed" =>
           commands # <<>> /\ commands[Len(commands)].outcome = "failed"
  BY <1>1 DEF IInv, ExecutedIsRunning, RowOnce, WithdrawnIsOver, Working, Progress
<1>5. TypeOK'
  BY <1>1, <1>2, <1>4 DEF IInv, TypeOK, Ends
<1>6. Holders'
  BY <1>1, <1>2 DEF IInv, Holders
<1>7. RowOnce' /\ CommandsOnce'
  BY <1>1, <1>4 DEF IInv, RowOnce, CommandsOnce
<1>8. StatusTells'
  BY <1>1, <1>4 DEF IInv, StatusTells, Done
<1>9. WithdrawnIsOver' /\ ExecutedIsRunning'
  BY <1>1, <1>2, <1>3, <1>4 DEF WithdrawnIsOver, ExecutedIsRunning, Working
<1>10. Progress'
  BY <1>1, <1>2 DEF IInv, Progress, Done, OfPlan
<1> QED BY <1>5, <1>6, <1>7, <1>8, <1>9, <1>10 DEF IInv

LEMMA LeavesKeep == ASSUME Assumptions, IInv, NEW x \in Executions, Leave(x) PROVE IInv'
<1>1. /\ exec[x].stage = "leaving" /\ control = x /\ control' = Nobody
      /\ exec' = Moved(x, "over")
      /\ UNCHANGED <<status, deleted, cancel, restarts, commands, withdrawn>>
  BY DEF Leave, IInv, Holders
<1>2. /\ exec' \in [Executions -> Exec] /\ exec'[x].stage = "over"
      /\ \A y \in Executions : y # x => exec'[y] = exec[y]
  BY <1>1, Moves DEF IInv, Stages
<1>3. \A y \in Executions : y # x => ~Working(y) /\ exec[y].stage \notin {"holding", "leaving"}
  BY <1>1, Alone DEF IInv
<1>4. TypeOK'
  BY <1>1, <1>2 DEF IInv, TypeOK
<1>5. Holders'
  BY <1>1, <1>2, <1>3 DEF Holders, Working, Assumptions
<1>6. RowOnce' /\ CommandsOnce' /\ StatusTells' /\ WithdrawnIsOver' /\ ExecutedIsRunning'
  BY <1>1, <1>2, <1>3
  DEF IInv, RowOnce, CommandsOnce, StatusTells, WithdrawnIsOver, ExecutedIsRunning, Working
<1>7. Progress'
  BY <1>1, <1>2 DEF IInv, Progress, Done, OfPlan
<1> QED BY <1>4, <1>5, <1>6, <1>7 DEF IInv

-----------------------------------------------------------------------------
(* Everyone else *)

\* Nothing but whether its context is done changes for an execution.
LEMMA StoppedKeep ==
  ASSUME IInv, exec' \in [Executions -> Exec],
         \A x \in Executions : /\ exec'[x].stage = exec[x].stage
                               /\ exec'[x].next = exec[x].next
                               /\ exec'[x].verdict = exec[x].verdict,
         UNCHANGED <<status, deleted, control, restarts, commands, withdrawn>>,
         cancel' \in [Cancels -> Cancel]
  PROVE  IInv'
<1>1. TypeOK'
  BY DEF IInv, TypeOK
<1>2. Holders' /\ ExecutedIsRunning' /\ WithdrawnIsOver'
  BY DEF IInv, Holders, ExecutedIsRunning, WithdrawnIsOver, Working
<1>3. RowOnce' /\ CommandsOnce' /\ StatusTells'
  BY DEF IInv, RowOnce, CommandsOnce, StatusTells
<1>4. Progress'
  BY DEF IInv, Progress, Done, OfPlan
<1> QED BY <1>1, <1>2, <1>3, <1>4 DEF IInv

LEMMA StopKeeps == ASSUME Assumptions, IInv, NEW x \in Executions, Stop(x) PROVE IInv'
<1>1. exec \in [Executions -> Exec] /\ exec' = [exec EXCEPT ![x].stopped = TRUE]
  BY DEF Stop, IInv, TypeOK
<1>2. exec' \in [Executions -> Exec]
  BY <1>1 DEF Exec
<1>3. \A y \in Executions : /\ exec'[y].stage = exec[y].stage /\ exec'[y].next = exec[y].next
                            /\ exec'[y].verdict = exec[y].verdict
  BY <1>1 DEF Exec
<1> QED BY <1>2, <1>3, StoppedKeep DEF Stop, IInv, TypeOK

LEMMA CancelsKeep == ASSUME Assumptions, IInv, NEW k \in Cancels, TaskCancel(k) PROVE IInv'
<1>1. exec \in [Executions -> Exec] /\ cancel \in [Cancels -> Cancel]
  BY DEF IInv, TypeOK
<1>2. CASE LoadCancel(k)
  <2>1. cancel' \in [Cancels -> Cancel]
    BY <1>1, <1>2 DEF LoadCancel, Cancel, IInv, TypeOK
  <2> QED BY <1>1, <1>2, <2>1, StoppedKeep DEF LoadCancel
<1>3. CASE Signal(k)
  <2>1. cancel' \in [Cancels -> Cancel]
    BY <1>1, <1>3 DEF Signal, Cancel
  <2>2. CASE control = Nobody
    BY <1>1, <1>3, <2>1, <2>2, StoppedKeep DEF Signal
  <2>3. CASE control # Nobody
    <3>1. control \in Executions /\ exec' = [exec EXCEPT ![control].stopped = TRUE]
      BY <1>3, <2>3 DEF Signal, IInv, TypeOK
    <3>2. exec' \in [Executions -> Exec]
      BY <1>1, <3>1 DEF Exec
    <3>3. \A y \in Executions : /\ exec'[y].stage = exec[y].stage
                                /\ exec'[y].next = exec[y].next
                                /\ exec'[y].verdict = exec[y].verdict
      BY <1>1, <3>1 DEF Exec
    <3> QED BY <1>3, <2>1, <3>2, <3>3, StoppedKeep DEF Signal
  <2> QED BY <2>2, <2>3
<1>4. CASE Withdraw(k)
  <2>1. cancel' \in [Cancels -> Cancel]
    BY <1>1, <1>4 DEF Withdraw, Cancel
  <2>2. CASE UNCHANGED <<status, withdrawn>>
    BY <1>1, <1>4, <2>1, <2>2, StoppedKeep DEF Withdraw
  <2>3. CASE status = "planned" /\ status' = "cancelled" /\ withdrawn' = TRUE
    <3>1. UNCHANGED <<deleted, control, exec, restarts, commands>>
      BY <1>4 DEF Withdraw
    <3>2. commands = <<>> /\ deleted = "not" /\ \A x \in Executions : ~Working(x)
      BY <2>3 DEF IInv, StatusTells, RowOnce, ExecutedIsRunning, Working
    <3>3. TypeOK' /\ Holders' /\ RowOnce'
      BY <2>1, <2>3, <3>1, <3>2 DEF IInv, TypeOK, Ends, Holders, RowOnce
    <3>4. WithdrawnIsOver' /\ CommandsOnce' /\ StatusTells' /\ ExecutedIsRunning'
      BY <2>3, <3>1, <3>2
      DEF IInv, WithdrawnIsOver, CommandsOnce, StatusTells, ExecutedIsRunning, Working
    <3>5. Progress'
      BY <3>1 DEF IInv, Progress, Done, OfPlan
    <3> QED BY <3>3, <3>4, <3>5 DEF IInv
  <2> QED BY <1>4, <2>2, <2>3 DEF Withdraw
<1> QED BY <1>2, <1>3, <1>4 DEF TaskCancel

LEMMA RowsKeep == ASSUME Assumptions, IInv, TaskCreate \/ TaskDelete \/ HostDelete PROVE IInv'
<1>1. UNCHANGED <<control, exec, cancel, restarts, commands, withdrawn>>
  BY DEF TaskCreate, TaskDelete, HostDelete
<1>2. Holders' /\ CommandsOnce' /\ Progress'
  BY <1>1 DEF IInv, Holders, CommandsOnce, Progress, Done, OfPlan
<1>3. CASE TaskCreate
  <2>1. /\ status = "none" /\ deleted = "not" /\ status' = "planned" /\ deleted' = deleted
        /\ commands = <<>> /\ ~withdrawn
    BY <1>3 DEF TaskCreate, IInv, RowOnce
  <2>2. \A x \in Executions : ~Working(x)
    BY <2>1 DEF IInv, ExecutedIsRunning, Working
  <2>3. TypeOK' /\ RowOnce' /\ WithdrawnIsOver'
    BY <1>1, <2>1 DEF IInv, TypeOK, RowOnce, WithdrawnIsOver
  <2>4. StatusTells' /\ ExecutedIsRunning'
    BY <1>1, <2>1, <2>2 DEF StatusTells, ExecutedIsRunning, Working
  <2> QED BY <1>2, <2>3, <2>4 DEF IInv
<1>4. CASE TaskDelete \/ HostDelete
  <2>1. /\ status # "none" /\ status' = "none" /\ deleted' \in {"alone", "with_host"}
        /\ deleted' = "alone" => status # "running"
    BY <1>4 DEF TaskDelete, HostDelete
  <2>2. deleted = "not"
    BY <2>1 DEF IInv, TypeOK, RowOnce
  <2>3. TypeOK' /\ RowOnce' /\ WithdrawnIsOver' /\ StatusTells'
    BY <1>1, <2>1 DEF IInv, TypeOK, RowOnce, WithdrawnIsOver, StatusTells, Working
  <2>4. ExecutedIsRunning'
    BY <1>1, <2>1, <2>2 DEF IInv, ExecutedIsRunning
  <2> QED BY <1>2, <2>3, <2>4 DEF IInv
<1> QED BY <1>3, <1>4

LEMMA RestartKeeps == ASSUME Assumptions, IInv, Restart PROVE IInv'
<1>1. /\ restarts' = restarts + 1 /\ restarts < MaxRestarts /\ control' = Nobody
      /\ status' = (IF status = "running" THEN "interrupted" ELSE status)
      /\ UNCHANGED <<deleted, commands, withdrawn>>
  BY DEF Restart
<1>2. /\ exec' \in [Executions -> Exec]
      /\ \A x \in Executions : \/ exec'[x].stage = "over"
                               \/ exec[x].stage = "new" /\ exec'[x] = exec[x]
  BY DEF Restart, IInv, TypeOK, Exec, Stages
<1>3. cancel' \in [Cancels -> Cancel]
  BY DEF Restart, IInv, TypeOK, Cancel
<1>4. TypeOK'
  BY <1>1, <1>2, <1>3 DEF IInv, TypeOK, Ends, Assumptions
<1>5. Holders' /\ ExecutedIsRunning'
  BY <1>1, <1>2 DEF Holders, ExecutedIsRunning, Assumptions
<1>6. RowOnce' /\ CommandsOnce' /\ StatusTells'
  BY <1>1 DEF IInv, RowOnce, CommandsOnce, StatusTells
<1>7. WithdrawnIsOver'
  BY <1>1, <1>2 DEF IInv, WithdrawnIsOver, Working
<1>8. Progress'
  BY <1>1, <1>2 DEF IInv, Progress, Done, OfPlan
<1> QED BY <1>4, <1>5, <1>6, <1>7, <1>8 DEF IInv

LEMMA NextKeeps == ASSUME Assumptions, IInv, [Next]_vars PROVE IInv'
<1>1. CASE TaskCreate \/ TaskDelete \/ HostDelete
  BY <1>1, RowsKeep
<1>2. CASE Restart
  BY <1>2, RestartKeeps
<1>3. ASSUME NEW x \in Executions, Execute(x) PROVE IInv'
  BY <1>3, BeginsKeep, ClaimsKeep, StartsKeep, FinishKeeps, EndsKeep, SavesKeep, LeavesKeep
  DEF Execute
<1>4. ASSUME NEW x \in Executions, Stop(x) PROVE IInv'
  BY <1>4, StopKeeps
<1>5. ASSUME NEW k \in Cancels, TaskCancel(k) PROVE IInv'
  BY <1>5, CancelsKeep
<1>6. CASE UNCHANGED vars
  BY <1>6 DEF vars, IInv, TypeOK, Holders, RowOnce, WithdrawnIsOver, Progress, CommandsOnce,
              StatusTells, ExecutedIsRunning, Working, Done, OfPlan
<1> QED BY <1>1, <1>2, <1>3, <1>4, <1>5, <1>6 DEF Next

-----------------------------------------------------------------------------
(* The theorems *)

\* Who executes is in the map, and the verdict an execution is about to save is true of the
\* commands it has run (taskExecute).
THEOREM Invariant == ASSUME Assumptions PROVE Spec => []IInv
<1>1. Init => IInv
  BY InitHolds
<1>2. IInv /\ [Next]_vars => IInv'
  BY NextKeeps
<1> QED BY <1>1, <1>2, PTL DEF Spec

\* Row, control and requests keep their types (ai_tasks, taskControls).
THEOREM TypeCorrect == ASSUME Assumptions PROVE Spec => []TypeOK
<1>1. IInv => TypeOK
  BY DEF IInv
<1> QED BY <1>1, Invariant, PTL

\* However many windows execute, cancel and delete a task and wherever the server restarts,
\* each command runs at most once and the row says what has happened (taskExecute,
\* taskCancel, taskDelete, recoverInterrupted).
THEOREM RanOnce == ASSUME Assumptions PROVE Spec => []RunsOnce
<1>1. IInv => RunsOnce
  BY DEF IInv, RunsOnce
<1> QED BY <1>1, Invariant, PTL

LEMMA EndStep == ASSUME IInv, [Next]_vars, status \in Ends PROVE status' \in {status, "none"}
<1>1. \A x \in Executions : exec[x].stage # "saving"
  BY DEF IInv, ExecutedIsRunning, RowOnce, Ends
<1>2. status \notin {"none", "planned", "running"}
  BY DEF Ends
<1> QED BY <1>1, <1>2
  DEF Next, vars, TaskCreate, TaskDelete, HostDelete, Restart, Execute, Stop, TaskCancel,
      LoadTask, HoldTask, Refuse, Claim, ClaimFails, StartStep, FinishStep, EndSteps, Save,
      SaveFails, Leave, LoadCancel, Signal, Withdraw

\* The end of a task is final: late saves, cancellations and restarts leave it (taskCancel,
\* saveTask).
THEOREM EndsForGood == ASSUME Assumptions PROVE Spec => EndStays
<1>1. IInv /\ [Next]_vars => [(status \in Ends) => status' \in {status, "none"}]_vars
  BY EndStep
<1>2. Spec => [][(status \in Ends) => status' \in {status, "none"}]_vars
  BY <1>1, Invariant, PTL DEF Spec
<1> QED BY <1>2 DEF EndStays
====
