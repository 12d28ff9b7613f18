---- MODULE InstallJobsProofs ----
(***************************************************************************)
(* Proofs about InstallJobs for any set of hosts and any number of jobs,   *)
(* sessions and restarts: types, and the safety of the worker's long job   *)
(* between the short transactions of everybody else.                       *)
(***************************************************************************)
EXTENDS InstallJobs, TLAPS

-----------------------------------------------------------------------------
(* The inductive invariant *)

\* A worker without a job has nothing; one with a job has a job that was created.
WorkerAgrees ==
  /\ worker.job = 0 <=> worker.step = "idle"
  /\ worker.job = 0 => worker.upload # "token"
  /\ worker.step = "write" => worker.verdict \in {"complete", "waiting"}

\* Until its last statement the worker's job is running, unless it was deleted; if
\* it ended well it is only left to withdraw the cancel function.
JobAgrees ==
  worker.job # 0 =>
    IF worker.step = "leave" /\ worker.verdict # "failed"
    THEN jobs[worker.job].status \notin {"none", "pending", "running"}
    ELSE jobs[worker.job].status \in {"running", "deleted"}

\* Jobs are jobs of hosts, and are deleted with them, as is the binding.
HostsAgree ==
  /\ \A j \in JobIds : jobs[j].status # "none" => jobs[j].host \in Hosts
  /\ \A j \in JobIds : jobs[j].status = "deleted" => jobs[j].host \in deleted
  /\ \A h \in deleted : ~enabled[h]

\* What the worker would take for the first report has been ingested.
HeardBefore ==
  LET j == worker.job
      h == jobs[j].host
  IN /\ worker.step \in {"script", "ran"} /\ h \notin deleted
        /\ latest[h].after /\ latest[h].session # jobs[j].previous => j \in heard
     /\ worker.step = "write" /\ worker.verdict = "complete" /\ jobs[j].kind # "uninstall"
          => j \in heard

Agreement == WorkerAgrees /\ JobAgrees /\ HostsAgree /\ HeardBefore
Safety    == CompletedByReport /\ RunningIsWorkers /\ SecretsEnd /\ RevokedIsClosed
IInv      == TypeOK /\ Agreement /\ Safety

-----------------------------------------------------------------------------
(* What the helpers of several operations return *)

LEMMA FinishTyped ==
  ASSUME TypeOK, NEW j \in JobIds, NEW status \in Finished \cup {"deleted"}
  PROVE  /\ Finish(j, status) \in Job
         /\ Finish(j, status).status = status /\ ~Finish(j, status).secret
         /\ Finish(j, status).host = jobs[j].host /\ Finish(j, status).kind = jobs[j].kind
         /\ Finish(j, status).previous = jobs[j].previous
BY DEF TypeOK, Finish, Job, Finished

\* Deleting the token of a host leaves the worker where it is, and without a token
\* for that host.
LEMMA UploadKeeps ==
  ASSUME TypeOK, NEW h \in Hosts
  PROVE  LET w == Upload(h, "dead") IN
         /\ w \in Worker
         /\ w.job = worker.job /\ w.step = worker.step /\ w.verdict = worker.verdict
         /\ w.stopped = worker.stopped /\ w.upload \in {worker.upload, "dead"}
         /\ w.job # 0 /\ w.upload = "token" => jobs[w.job].host # h
BY DEF TypeOK, Upload, Worker

LEMMA CancelledKeeps ==
  ASSUME NEW h \in Hosts, NEW w \in Worker
  PROVE  LET v == Cancelled(h, w) IN
         /\ v \in Worker
         /\ v.job = w.job /\ v.step = w.step /\ v.verdict = w.verdict /\ v.upload = w.upload
BY DEF Cancelled, Worker

LEMMA RevokeTyped ==
  ASSUME TypeOK, NEW h \in Hosts, Revoke(h)
  PROVE  /\ enabled' \in [Hosts -> BOOLEAN] /\ registered' \in [Hosts -> BOOLEAN]
         /\ current' \in [Hosts -> {"null", "before", "after"}]
         /\ config' \in [Hosts -> {"none", "token", "report", "dead"}]
         /\ flight' \in [Hosts -> SUBSET Sample]
BY DEF TypeOK, Revoke

LEMMA UpdateJobTyped ==
  ASSUME TypeOK, NEW j \in JobIds, NEW status \in {"complete", "waiting", "failed"},
         UpdateJob(j, status)
  PROVE  /\ jobs' \in [JobIds -> Job]
         /\ \A k \in JobIds \ {j} : jobs'[k] = jobs[k]
         /\ jobs'[j].host = jobs[j].host /\ jobs'[j].kind = jobs[j].kind
         /\ jobs'[j].previous = jobs[j].previous
         /\ jobs'[j].status = IF jobs[j].status = "deleted" THEN "deleted" ELSE status
         /\ jobs'[j].secret => jobs[j].secret /\ jobs'[j].status \notin Finished
<1>1. CASE jobs[j].status = "deleted"
  <2>1. jobs' = jobs
    BY <1>1 DEF UpdateJob
  <2>2. jobs' \in [JobIds -> Job]
    BY <2>1 DEF TypeOK
  <2> QED BY <1>1, <2>1, <2>2 DEF Finished
<1>2. CASE jobs[j].status # "deleted" /\ status \in Finished
  <2>1. jobs' = [jobs EXCEPT ![j] = Finish(j, status)]
    BY <1>2 DEF UpdateJob
  <2> QED BY <1>2, <2>1, FinishTyped DEF TypeOK
<1>3. CASE jobs[j].status # "deleted" /\ status \notin Finished
  <2>1. jobs' = [jobs EXCEPT ![j] = [jobs[j] EXCEPT !.status = status]]
    BY <1>3 DEF UpdateJob
  <2>2. [jobs[j] EXCEPT !.status = status] \in Job
    BY DEF TypeOK, Job, Active, Finished
  <2> QED BY <1>3, <2>1, <2>2 DEF TypeOK, Job
<1> QED BY <1>1, <1>2, <1>3

-----------------------------------------------------------------------------
(* Types *)

LEMMA JobOfWorker ==
  ASSUME TypeOK, WorkerAgrees, JobAgrees, HostsAgree, worker.step # "idle"
  PROVE  worker.job \in JobIds /\ jobs[worker.job] \in Job /\ jobs[worker.job].host \in Hosts
<1>1. worker.job # 0
  BY DEF WorkerAgrees
<1>2. worker.job \in JobIds
  <2>1. worker.job \in 0..MaxJobs
    BY DEF TypeOK, Worker
  <2> QED BY <1>1, <2>1, BoundAssumption DEF JobIds
<1>3. jobs[worker.job].status # "none"
  BY <1>1 DEF JobAgrees
<1> QED BY <1>2, <1>3 DEF TypeOK, HostsAgree

\* Every step keeps the types.
LEMMA TypeStep ==
  ASSUME TypeOK, WorkerAgrees, JobAgrees, HostsAgree, [Next]_vars
  PROVE  TypeOK'
<1> USE BoundAssumption DEF bindingVars, hostVars, serverVars
<1>1. ASSUME NEW h \in Hosts, OwnerStep(h) PROVE TypeOK'
  <2>1. CASE AgentEnable(h)
    BY <2>1 DEF TypeOK, AgentEnable
  <2>2. CASE AgentDisable(h)
    <3>1. worker' \in Worker
      BY <2>2, UploadKeeps, CancelledKeeps DEF AgentDisable
    <3> QED BY <2>2, <3>1, RevokeTyped DEF TypeOK, AgentDisable
  <2>3. CASE HostDelete(h)
    <3>1. worker' \in Worker
      BY <2>3, UploadKeeps, CancelledKeeps DEF HostDelete
    <3>2. jobs' \in [JobIds -> Job]
      <4>1. \A j \in JobIds : [jobs[j] EXCEPT !.status = "deleted", !.secret = FALSE] \in Job
        BY DEF TypeOK, Job
      <4> QED BY <2>3, <4>1 DEF TypeOK, HostDelete
    <3> QED BY <2>3, <3>1, <3>2, RevokeTyped DEF TypeOK, HostDelete
  <2>4. CASE ExpireRegistration(h)
    BY <2>4, UploadKeeps DEF TypeOK, ExpireRegistration
  <2>5. ASSUME NEW installed \in BOOLEAN, AgentRegistration(h, installed) PROVE TypeOK'
    <3>1. worker' \in Worker
      BY <2>5, UploadKeeps DEF AgentRegistration
    <3>2. CASE installed
      BY <2>5, <3>1, <3>2 DEF TypeOK, AgentRegistration, Sessions
    <3>3. CASE ~installed
      BY <2>5, <3>1, <3>3 DEF TypeOK, AgentRegistration
    <3> QED BY <3>2, <3>3
  <2>6. ASSUME NEW kind \in Kinds, AgentJobCreate(h, kind) PROVE TypeOK'
    <3>1. jobs' \in [JobIds -> Job]
      BY <2>6 DEF TypeOK, AgentJobCreate, Job, Sessions, Active
    <3>2. CASE kind = "uninstall"
      <4>1. worker' \in Worker
        BY <2>6, <3>2, UploadKeeps DEF AgentJobCreate
      <4> QED BY <2>6, <3>1, <3>2, <4>1, RevokeTyped DEF TypeOK, AgentJobCreate
    <3>3. CASE kind # "uninstall"
      BY <2>6, <3>1, <3>3 DEF TypeOK, AgentJobCreate
    <3> QED BY <3>2, <3>3
  <2> QED BY <1>1, <2>1, <2>2, <2>3, <2>4, <2>5, <2>6 DEF OwnerStep
<1>2. ASSUME NEW h \in Hosts, HostStep(h) PROVE TypeOK'
  <2>1. CASE AgentRegister(h)
    BY <2>1 DEF TypeOK, AgentRegister
  <2>2. CASE AgentRestart(h)
    BY <2>2 DEF TypeOK, AgentRestart, Sessions
  <2>3. CASE AgentSample(h)
    <3>1. [session |-> session[h], after |-> TRUE] \in Sample
      BY DEF TypeOK, Sample
    <3> QED BY <2>3, <3>1 DEF TypeOK, AgentSample
  <2>4. CASE LoseSample(h)
    BY <2>4 DEF TypeOK, LoseSample
  <2>5. ASSUME NEW m \in flight[h], NEW fresh \in BOOLEAN, IngestAgent(h, m, fresh) PROVE TypeOK'
    <3>1. m \in Sample
      BY DEF TypeOK
    <3>2. jobs' \in [JobIds -> Job]
      <4>1. \A j \in JobIds : Finish(j, "complete") \in Job
        BY FinishTyped DEF Finished
      <4> QED BY <2>5, <4>1 DEF TypeOK, IngestAgent
    <3>3. latest' \in [Hosts -> Sample] /\ current' \in [Hosts -> {"null", "before", "after"}]
      BY <2>5, <3>1 DEF TypeOK, IngestAgent
    <3> QED BY <2>5, <3>2, <3>3 DEF TypeOK, IngestAgent, ActiveOn
  <2> QED BY <1>2, <2>1, <2>2, <2>3, <2>4, <2>5 DEF HostStep
<1>3. CASE TimeoutWaiting
  <2>1. \A j \in JobIds : Finish(j, "failed") \in Job
    BY FinishTyped DEF Finished
  <2>2. jobs' \in [JobIds -> Job]
    BY <1>3, <2>1 DEF TypeOK, TimeoutWaiting
  <2> QED BY <1>3, <2>2 DEF TypeOK, TimeoutWaiting
<1>4. CASE Claim
  <2>1. PICK j \in JobIds : /\ jobs' = [jobs EXCEPT ![j].status = "running"]
                           /\ worker' = [Idle EXCEPT !.job = j, !.step = "claimed"]
    BY <1>4 DEF Claim
  <2>2. jobs' \in [JobIds -> Job]
    BY <2>1 DEF TypeOK, Job, Active
  <2>3. worker' \in Worker
    <3>1. j \in 0..MaxJobs
      BY DEF JobIds
    <3> QED BY <2>1, <3>1 DEF Idle, Worker, Steps
  <2> QED BY <1>4, <2>2, <2>3 DEF TypeOK, Claim
<1>5. CASE WorkerStep
  <2>1. worker.step # "idle"
    BY <1>5 DEF WorkerStep, PublishCancel, Prepare, IssueToken, Baseline, RunScript,
                ScriptBreaks, CheckReport, WriteVerdict, JobError, WithdrawCancel, FailJob
  <2>2. worker.job \in JobIds /\ jobs[worker.job] \in Job /\ jobs[worker.job].host \in Hosts
    BY <2>1, JobOfWorker
  <2>3. CASE PublishCancel \/ Prepare \/ JobError
    BY <2>2, <2>3 DEF TypeOK, PublishCancel, Prepare, JobError, Worker, Steps, JobIds
  <2>4. CASE IssueToken \/ ScriptBreaks
    <3>1. worker' \in Worker
      BY <2>4 DEF TypeOK, IssueToken, ScriptBreaks, Worker, Steps
    <3>2. config' \in [Hosts -> {"none", "token", "report", "dead"}]
      BY <2>2, <2>4 DEF TypeOK, IssueToken, ScriptBreaks, Worker
    <3>3. session' \in [Hosts -> Sessions]
      BY <2>2, <2>4 DEF TypeOK, IssueToken, ScriptBreaks, Sessions
    <3> QED BY <2>4, <3>1, <3>2, <3>3 DEF TypeOK, IssueToken, ScriptBreaks
  <2>5. CASE Baseline
    <3> DEFINE h == jobs[worker.job].host
    <3>1. jobs' \in [JobIds -> Job]
      BY <2>2, <2>5 DEF TypeOK, Baseline, Job, Sample
    <3>2. latest' \in [Hosts -> Sample] /\ current' \in [Hosts -> {"null", "before", "after"}]
      BY <2>2, <2>5 DEF TypeOK, Baseline, Sample
    <3>3. flight' \in [Hosts -> SUBSET Sample]
      <4>1. \A m \in Sample : [m EXCEPT !.after = FALSE] \in Sample
        BY DEF Sample
      <4> QED BY <2>2, <2>5, <4>1 DEF TypeOK, Baseline
    <3> QED BY <2>5, <3>1, <3>2, <3>3 DEF TypeOK, Baseline, Worker, Steps
  <2>6. CASE RunScript
    <3>1. config' \in [Hosts -> {"none", "token", "report", "dead"}]
      BY <2>2, <2>6 DEF TypeOK, RunScript, Worker
    <3>2. session' \in [Hosts -> Sessions] /\ starts' \in [Hosts -> Sessions]
      BY <2>2, <2>6 DEF TypeOK, RunScript, Sessions
    <3> QED BY <2>6, <3>1, <3>2 DEF TypeOK, RunScript, Worker, Steps
  <2>7. CASE CheckReport
    BY <2>2, <2>7 DEF TypeOK, CheckReport, Worker, Steps
  <2>8. CASE WriteVerdict
    <3>1. jobs' \in [JobIds -> Job]
      BY <2>2, <2>8, UpdateJobTyped DEF WriteVerdict, WorkerAgrees
    <3> QED BY <2>8, <3>1 DEF TypeOK, WriteVerdict, Worker, Steps
  <2>9. CASE WithdrawCancel
    BY <2>2, <2>9 DEF TypeOK, WithdrawCancel, Worker, Steps, Idle
  <2>10. CASE FailJob
    <3>1. jobs' \in [JobIds -> Job]
      BY <2>2, <2>10, UpdateJobTyped DEF FailJob
    <3> QED BY <2>10, <3>1 DEF TypeOK, FailJob, Worker, Steps, Idle
  <2> QED BY <1>5, <2>3, <2>4, <2>5, <2>6, <2>7, <2>8, <2>9, <2>10 DEF WorkerStep
<1>6. CASE JobTimeout
  BY <1>6 DEF TypeOK, JobTimeout, Worker
<1>7. CASE Restart
  <2>1. \A j \in JobIds : Finish(j, "failed") \in Job
    BY FinishTyped DEF Finished
  <2>2. jobs' \in [JobIds -> Job]
    BY <1>7, <2>1 DEF TypeOK, Restart
  <2> QED BY <1>7, <2>2 DEF TypeOK, Restart, Worker, Steps, Idle
<1>8. CASE UNCHANGED vars
  BY <1>8 DEF TypeOK, vars
<1> QED BY <1>1, <1>2, <1>3, <1>4, <1>5, <1>6, <1>7, <1>8 DEF Next
-----------------------------------------------------------------------------
(* Safety, an actor at a time *)

\* What the deletion of a token and a cancellation leave of the worker.
SameJob(h) ==
  /\ worker'.job = worker.job /\ worker'.step = worker.step /\ worker'.verdict = worker.verdict
  /\ worker'.upload \in {worker.upload, "dead"}
  /\ worker'.job # 0 /\ worker'.upload = "token" => jobs[worker.job].host # h

LEMMA SameJobKeeps ==
  ASSUME IInv, NEW h \in Hosts, SameJob(h),
         UNCHANGED <<jobs, latest, heard>>, deleted \subseteq deleted',
         \A k \in deleted' : ~enabled'[k]
  PROVE  Agreement' /\ CompletedByReport' /\ RunningIsWorkers' /\ SecretsEnd'
<1>1. WorkerAgrees'
  BY DEF IInv, Agreement, WorkerAgrees, SameJob
<1>2. JobAgrees'
  BY DEF IInv, Agreement, JobAgrees, SameJob
<1>3. HostsAgree'
  BY DEF IInv, Agreement, HostsAgree
<1>4. HeardBefore'
  BY DEF IInv, Agreement, HeardBefore, SameJob
<1>5. CompletedByReport' /\ SecretsEnd'
  BY DEF IInv, Safety, CompletedByReport, SecretsEnd
<1>6. RunningIsWorkers'
  BY DEF IInv, Safety, RunningIsWorkers, SameJob
<1> QED BY <1>1, <1>2, <1>3, <1>4, <1>5, <1>6 DEF Agreement

\* A revocation closes the binding whose token the worker no longer has.
LEMMA RevokeCloses ==
  ASSUME IInv, NEW h \in Hosts, SameJob(h), Revoke(h),
         \A j \in JobIds : jobs[j].status # "none" => jobs'[j].host = jobs[j].host
  PROVE  RevokedIsClosed'
<1>1. RevokedIsClosed /\ TypeOK /\ WorkerAgrees
  BY DEF IInv, Safety, Agreement
<1>2. ASSUME NEW k \in Hosts, ~enabled'[k]
      PROVE  ~registered'[k] /\ config'[k] \in {"none", "dead"}
  BY <1>1, <1>2 DEF RevokedIsClosed, TypeOK, Revoke
<1>3. ASSUME NEW k \in Hosts, ~enabled'[k], worker'.upload = "token"
      PROVE  jobs'[worker'.job].host # k
  <2>1. worker.upload = "token" /\ worker.job # 0
    BY <1>1, <1>3 DEF SameJob, WorkerAgrees
  <2>2. worker.job \in JobIds /\ jobs[worker.job].status # "none"
    BY <2>1, JobOfWorker DEF IInv, Agreement, WorkerAgrees, JobAgrees
  <2>3. jobs'[worker'.job].host = jobs[worker.job].host /\ jobs[worker.job].host # h
    BY <1>3, <2>1, <2>2 DEF SameJob
  <2>4. CASE k = h
    BY <2>3, <2>4
  <2>5. CASE k # h
    <3>1. ~enabled[k]
      BY <1>1, <1>3, <2>5 DEF TypeOK, Revoke
    <3> QED BY <1>1, <2>1, <2>3, <3>1 DEF RevokedIsClosed
  <2> QED BY <2>4, <2>5
<1> QED BY <1>2, <1>3 DEF RevokedIsClosed

\* The owner's requests find any step of the worker.
LEMMA OwnerKeeps ==
  ASSUME IInv, NEW h \in Hosts, OwnerStep(h)
  PROVE  (Agreement /\ Safety)'
<1> USE DEF bindingVars, hostVars, serverVars
<1>0. TypeOK /\ WorkerAgrees /\ JobAgrees /\ HostsAgree /\ HeardBefore
  BY DEF IInv, Agreement
<1>00. CompletedByReport /\ RunningIsWorkers /\ SecretsEnd /\ RevokedIsClosed
  BY DEF IInv, Safety
<1>1. CASE AgentEnable(h)
  <2>1. Agreement'
    BY <1>0, <1>1 DEF TypeOK, AgentEnable, Agreement, WorkerAgrees, JobAgrees, HostsAgree,
                      HeardBefore
  <2>2. Safety'
    BY <1>0, <1>00, <1>1 DEF TypeOK, AgentEnable, Safety, CompletedByReport, RunningIsWorkers,
                             SecretsEnd, RevokedIsClosed
  <2> QED BY <2>1, <2>2
<1>2. CASE AgentDisable(h)
  <2>1. SameJob(h)
    BY <1>0, <1>2, UploadKeeps, CancelledKeeps DEF AgentDisable, SameJob
  <2>2. \A k \in deleted' : ~enabled'[k]
    BY <1>0, <1>2 DEF TypeOK, HostsAgree, AgentDisable, Revoke
  <2> QED BY <1>2, <2>1, <2>2, SameJobKeeps, RevokeCloses DEF AgentDisable, Safety
<1>3. CASE HostDelete(h)
  <2>1. SameJob(h)
    <3>1. worker' = Cancelled(h, Upload(h, "dead"))
      BY <1>3 DEF HostDelete
    <3> QED BY <1>0, <3>1, UploadKeeps, CancelledKeeps DEF SameJob
  <2>2. \A j \in JobIds :
          /\ jobs[j].host # h => jobs'[j] = jobs[j]
          /\ jobs[j].host = h => jobs'[j].status = "deleted" /\ ~jobs'[j].secret
          /\ jobs'[j].host = jobs[j].host /\ jobs'[j].kind = jobs[j].kind
          /\ jobs'[j].previous = jobs[j].previous
    BY <1>0, <1>3 DEF TypeOK, HostDelete, Job
  <2>3. worker.job # 0 => worker.job \in JobIds
    BY <1>0, JobOfWorker DEF WorkerAgrees
  <2>4. WorkerAgrees' /\ JobAgrees'
    BY <1>0, <2>1, <2>2, <2>3 DEF WorkerAgrees, JobAgrees, SameJob
  <2>5. HostsAgree'
    <3>1. deleted' = deleted \cup {h} /\ \A k \in deleted' : ~enabled'[k]
      BY <1>0, <1>3 DEF TypeOK, HostsAgree, HostDelete, Revoke
    <3> QED BY <1>0, <2>2, <3>1 DEF HostsAgree
  <2>6. HeardBefore'
    <3>1. latest' = latest /\ heard' = heard /\ deleted' = deleted \cup {h}
      BY <1>3 DEF HostDelete
    <3>2. CASE worker.job = 0
      BY <1>0, <2>1, <3>2 DEF WorkerAgrees, HeardBefore, SameJob
    <3>3. CASE worker.job # 0 /\ jobs[worker.job].host = h
      BY <1>0, <2>1, <2>2, <2>3, <3>1, <3>3 DEF HeardBefore, SameJob
    <3>4. CASE worker.job # 0 /\ jobs[worker.job].host # h
      BY <1>0, <2>1, <2>2, <2>3, <3>1, <3>4 DEF HeardBefore, SameJob
    <3> QED BY <3>2, <3>3, <3>4
  <2>7. RevokedIsClosed'
    BY <1>3, <2>1, <2>2, RevokeCloses DEF HostDelete
  <2>8. CompletedByReport' /\ SecretsEnd'
    BY <1>00, <1>3, <2>2 DEF CompletedByReport, SecretsEnd, HostDelete
  <2>9. RunningIsWorkers'
    BY <1>00, <2>1, <2>2 DEF RunningIsWorkers, SameJob
  <2> QED BY <2>4, <2>5, <2>6, <2>7, <2>8, <2>9 DEF Agreement, Safety
<1>4. CASE ExpireRegistration(h)
  <2>1. SameJob(h)
    BY <1>0, <1>4, UploadKeeps DEF ExpireRegistration, SameJob
  <2>2. Agreement' /\ CompletedByReport' /\ RunningIsWorkers' /\ SecretsEnd'
    BY <1>0, <1>4, <2>1, SameJobKeeps DEF ExpireRegistration, HostsAgree
  <2>3. RevokedIsClosed'
    BY <1>0, <1>00, <1>4, <2>1 DEF TypeOK, RevokedIsClosed, ExpireRegistration, SameJob
  <2> QED BY <2>2, <2>3 DEF Safety
<1>5. ASSUME NEW installed \in BOOLEAN, AgentRegistration(h, installed)
      PROVE  (Agreement /\ Safety)'
  <2>1. SameJob(h)
    BY <1>0, <1>5, UploadKeeps DEF AgentRegistration, SameJob
  <2>2. Agreement' /\ CompletedByReport' /\ RunningIsWorkers' /\ SecretsEnd'
    BY <1>0, <1>5, <2>1, SameJobKeeps DEF AgentRegistration, HostsAgree
  <2>3. \A k \in Hosts \ {h} : config'[k] = config[k]
    BY <1>0, <1>5 DEF TypeOK, AgentRegistration
  <2>4. RevokedIsClosed'
    BY <1>0, <1>00, <1>5, <2>1, <2>3 DEF RevokedIsClosed, AgentRegistration, SameJob
  <2> QED BY <2>2, <2>4 DEF Safety
<1>6. ASSUME NEW kind \in Kinds, AgentJobCreate(h, kind) PROVE (Agreement /\ Safety)'
  <2>1. PICK i \in JobIds :
          /\ jobs[i].status = "none"
          /\ jobs' = [jobs EXCEPT ![i] = [host |-> h, kind |-> kind, secret |-> TRUE,
                                         previous |-> 0, status |-> "pending"]]
    BY <1>6 DEF AgentJobCreate
  <2>2. /\ jobs'[i].host = h /\ jobs'[i].kind = kind /\ jobs'[i].status = "pending"
        /\ \A j \in JobIds \ {i} : jobs'[j] = jobs[j]
    BY <1>0, <2>1 DEF TypeOK
  <2>3. worker.job # 0 => worker.job \in JobIds /\ jobs'[worker.job] = jobs[worker.job]
    BY <1>0, <2>1, <2>2, JobOfWorker DEF WorkerAgrees, JobAgrees
  <2>4. /\ worker'.job = worker.job /\ worker'.step = worker.step
        /\ worker'.verdict = worker.verdict /\ worker'.upload \in {worker.upload, "dead"}
    BY <1>0, <1>6, UploadKeeps DEF AgentJobCreate
  <2>5. WorkerAgrees' /\ JobAgrees'
    BY <1>0, <2>3, <2>4 DEF WorkerAgrees, JobAgrees
  <2>6. \A k \in deleted' : ~enabled'[k]
    BY <1>0, <1>6 DEF TypeOK, HostsAgree, AgentJobCreate, Revoke
  <2>7. HostsAgree'
    BY <1>0, <1>6, <2>2, <2>6 DEF HostsAgree, AgentJobCreate
  <2>8. HeardBefore'
    BY <1>0, <1>6, <2>3, <2>4 DEF WorkerAgrees, HeardBefore, AgentJobCreate
  <2>9. CompletedByReport' /\ SecretsEnd'
    BY <1>00, <1>6, <2>2 DEF CompletedByReport, SecretsEnd, AgentJobCreate, Active
  <2>10. RunningIsWorkers'
    BY <1>00, <2>2, <2>4 DEF RunningIsWorkers
  <2>11. RevokedIsClosed'
    <3>1. CASE kind = "uninstall"
      <4>1. SameJob(h)
        BY <1>0, <1>6, <3>1, UploadKeeps DEF AgentJobCreate, SameJob
      <4> QED BY <1>6, <2>1, <2>2, <3>1, <4>1, RevokeCloses DEF AgentJobCreate
    <3>2. CASE kind # "uninstall"
      BY <1>0, <1>00, <1>6, <2>3, <3>2 DEF RevokedIsClosed, AgentJobCreate, WorkerAgrees
    <3> QED BY <3>1, <3>2
  <2> QED BY <2>5, <2>7, <2>8, <2>9, <2>10, <2>11 DEF Agreement, Safety
<1> QED BY <1>1, <1>2, <1>3, <1>4, <1>5, <1>6 DEF OwnerStep

LEMMA HostKeeps ==
  ASSUME IInv, NEW h \in Hosts, HostStep(h)
  PROVE  (Agreement /\ Safety)'
<1> USE DEF IInv, bindingVars, hostVars, serverVars
<1> USE DEF Agreement, WorkerAgrees, JobAgrees, HostsAgree, HeardBefore
<1> USE DEF Safety, CompletedByReport, RunningIsWorkers, SecretsEnd, RevokedIsClosed
<1>0. worker.job # 0 => /\ worker.job \in JobIds /\ jobs[worker.job] \in Job
                        /\ jobs[worker.job].host \in Hosts
  BY JobOfWorker
<1>1. CASE AgentRegister(h)
  BY <1>0, <1>1 DEF TypeOK, AgentRegister
<1>2. CASE AgentRestart(h) \/ AgentSample(h) \/ LoseSample(h)
  BY <1>0, <1>2 DEF TypeOK, AgentRestart, AgentSample, LoseSample
<1>3. ASSUME NEW m \in flight[h], NEW fresh \in BOOLEAN, IngestAgent(h, m, fresh)
      PROVE  (Agreement /\ Safety)'
  BY <1>0, <1>3, FinishTyped DEF TypeOK, IngestAgent, ActiveOn, Awaited, Active, Finished
<1> QED BY <1>1, <1>2, <1>3 DEF HostStep

LEMMA LoopKeeps ==
  ASSUME IInv, TimeoutWaiting \/ Claim \/ JobTimeout \/ Restart
  PROVE  (Agreement /\ Safety)'
<1> USE DEF IInv, bindingVars, hostVars, serverVars
<1> USE DEF Agreement, WorkerAgrees, JobAgrees, HostsAgree, HeardBefore
<1> USE DEF Safety, CompletedByReport, RunningIsWorkers, SecretsEnd, RevokedIsClosed
<1>0. worker.job # 0 => /\ worker.job \in JobIds /\ jobs[worker.job] \in Job
                        /\ jobs[worker.job].host \in Hosts
  BY JobOfWorker
<1>1. CASE TimeoutWaiting
  BY <1>0, <1>1, FinishTyped DEF TypeOK, TimeoutWaiting, Active, Finished
<1>2. CASE Claim
  <2>1. PICK j \in JobIds : /\ jobs[j].status = "pending"
                           /\ jobs' = [jobs EXCEPT ![j].status = "running"]
                           /\ worker' = [Idle EXCEPT !.job = j, !.step = "claimed"]
    BY <1>2 DEF Claim
  <2>2. /\ worker'.job = j /\ j # 0 /\ worker'.step = "claimed" /\ worker'.upload = "none"
        /\ worker'.verdict = "none"
    BY <2>1, BoundAssumption DEF Idle, JobIds
  <2>3. /\ jobs'[j].status = "running" /\ jobs'[j].host = jobs[j].host
        /\ \A k \in JobIds \ {j} : jobs'[k] = jobs[k]
    BY <2>1 DEF TypeOK, Job
  <2>4. UNCHANGED <<enabled, registered, latest, current, deleted, config, heard>>
    BY <1>2 DEF Claim
  <2>5. WorkerAgrees' /\ JobAgrees' /\ HeardBefore'
    BY <2>2, <2>3
  <2>6. HostsAgree'
    <3>1. HostsAgree
      OBVIOUS
    <3> QED BY <2>1, <2>3, <2>4, <3>1
  <2>7. CompletedByReport' /\ SecretsEnd'
    <3>1. jobs'[j].kind = jobs[j].kind /\ jobs'[j].secret = jobs[j].secret
      BY <2>1 DEF TypeOK, Job
    <3> QED BY <2>1, <2>3, <2>4, <3>1 DEF Active
  <2>8. RunningIsWorkers'
    <3>1. worker.job = 0
      BY <1>2 DEF Claim
    <3> QED BY <2>2, <2>3, <3>1 DEF JobIds
  <2>9. RevokedIsClosed'
    BY <2>2, <2>4
  <2> QED BY <2>5, <2>6, <2>7, <2>8, <2>9
<1>3. CASE JobTimeout
  BY <1>0, <1>3 DEF TypeOK, JobTimeout, Worker
<1>4. CASE Restart
  BY <1>0, <1>4, FinishTyped DEF TypeOK, Restart, Idle, Active, Finished
<1> QED BY <1>1, <1>2, <1>3, <1>4

LEMMA WorkerKeeps ==
  ASSUME IInv, WorkerStep
  PROVE  (Agreement /\ Safety)'
<1> USE DEF IInv, bindingVars, hostVars, serverVars
<1> USE DEF Agreement, WorkerAgrees, JobAgrees, HostsAgree, HeardBefore
<1> USE DEF Safety, CompletedByReport, RunningIsWorkers, SecretsEnd, RevokedIsClosed
<1>0. /\ worker.step # "idle"
      /\ worker.job \in JobIds /\ jobs[worker.job] \in Job /\ jobs[worker.job].host \in Hosts
  <2>1. worker.step # "idle"
    BY DEF WorkerStep, PublishCancel, Prepare, IssueToken, Baseline, RunScript,
           ScriptBreaks, CheckReport, WriteVerdict, JobError, WithdrawCancel, FailJob
  <2> QED BY <2>1, JobOfWorker
<1>1. CASE PublishCancel
  BY <1>0, <1>1 DEF TypeOK, Worker, PublishCancel
<1>2. CASE Prepare
  BY <1>0, <1>2 DEF TypeOK, Worker, Prepare
<1>3. CASE IssueToken
  BY <1>0, <1>3 DEF TypeOK, Worker, IssueToken
<1>4. CASE Baseline
  BY <1>0, <1>4 DEF TypeOK, Worker, Baseline, Job, Active, Finished
<1>5. CASE RunScript
  BY <1>0, <1>5 DEF TypeOK, Worker, RunScript
<1>6. CASE ScriptBreaks
  BY <1>0, <1>6 DEF TypeOK, Worker, ScriptBreaks
<1>7. CASE CheckReport
  BY <1>0, <1>7 DEF TypeOK, Worker, CheckReport
<1>8. CASE WriteVerdict
  BY <1>0, <1>8, UpdateJobTyped DEF TypeOK, Worker, WriteVerdict, Active, Finished
<1>9. CASE JobError
  BY <1>0, <1>9 DEF TypeOK, Worker, JobError
<1>10. CASE WithdrawCancel
  BY <1>0, <1>10 DEF TypeOK, Worker, WithdrawCancel, Idle
<1>11. CASE FailJob
  BY <1>0, <1>11, UpdateJobTyped DEF TypeOK, Worker, FailJob, Idle, Active, Finished
<1> QED BY <1>1, <1>2, <1>3, <1>4, <1>5, <1>6, <1>7, <1>8, <1>9, <1>10, <1>11 DEF WorkerStep

LEMMA InitInvariant == Init => IInv
<1> SUFFICES ASSUME Init PROVE IInv
  OBVIOUS
<1>1. Idle \in Worker /\ NoJob \in Job /\ NoSample \in Sample
  BY BoundAssumption DEF Idle, Worker, Steps, NoJob, Job, Kinds, NoSample, Sample, Sessions
<1>2. TypeOK
  BY <1>1, BoundAssumption DEF Init, TypeOK, Sessions
<1>3. Agreement
  BY DEF Init, Agreement, WorkerAgrees, JobAgrees, HostsAgree, HeardBefore, Idle, NoJob
<1>4. Safety
  BY DEF Init, Safety, CompletedByReport, RunningIsWorkers, SecretsEnd, RevokedIsClosed, Idle,
         NoJob
<1> QED BY <1>2, <1>3, <1>4 DEF IInv

LEMMA NextInvariant == IInv /\ [Next]_vars => IInv'
<1> SUFFICES ASSUME IInv, [Next]_vars PROVE IInv'
  OBVIOUS
<1>1. TypeOK'
  BY TypeStep DEF IInv, Agreement
<1>2. CASE Next
  BY <1>1, <1>2, OwnerKeeps, HostKeeps, LoopKeeps, WorkerKeeps DEF Next, IInv
<1>3. CASE UNCHANGED vars
  <2>1. UNCHANGED <<enabled, registered, latest, deleted, jobs, worker, config, heard>>
    BY <1>3 DEF vars, bindingVars, serverVars, hostVars
  <2>2. Agreement'
    BY <2>1 DEF IInv, Agreement, WorkerAgrees, JobAgrees, HostsAgree, HeardBefore
  <2>3. Safety'
    BY <2>1 DEF IInv, Safety, CompletedByReport, RunningIsWorkers, SecretsEnd, RevokedIsClosed
  <2> QED BY <1>1, <2>2, <2>3 DEF IInv
<1> QED BY <1>2, <1>3

\* What nobody but the worker writes over: a finished job keeps its status.
LEMMA FinishedStep ==
  ASSUME IInv, [Next]_vars, NEW j \in JobIds, jobs[j].status \in Finished
  PROVE  jobs'[j].status \in {jobs[j].status, "deleted"}
<1>0. TypeOK /\ Agreement
  BY DEF IInv
<1>1. CASE jobs' = jobs
  BY <1>1
<1>2. ASSUME NEW h \in Hosts, OwnerStep(h) PROVE jobs'[j].status \in {jobs[j].status, "deleted"}
  <2>1. CASE HostDelete(h)
    BY <1>0, <2>1 DEF TypeOK, HostDelete, Job
  <2>2. ASSUME NEW kind \in Kinds, AgentJobCreate(h, kind)
        PROVE  jobs'[j].status \in {jobs[j].status, "deleted"}
    BY <1>0, <2>2 DEF TypeOK, AgentJobCreate, Finished
  <2>3. CASE jobs' = jobs
    BY <2>3
  <2> QED BY <1>2, <2>1, <2>2, <2>3
          DEF OwnerStep, AgentEnable, AgentDisable, ExpireRegistration, AgentRegistration
<1>3. ASSUME NEW h \in Hosts, HostStep(h) PROVE jobs'[j].status \in {jobs[j].status, "deleted"}
  <2>1. ASSUME NEW m \in flight[h], NEW fresh \in BOOLEAN, IngestAgent(h, m, fresh)
        PROVE  jobs'[j].status \in {jobs[j].status, "deleted"}
    <3>1. j \notin Awaited(h, m)
      BY DEF Awaited, Finished
    <3> QED BY <2>1, <3>1 DEF IngestAgent
  <2> QED BY <1>3, <2>1 DEF HostStep, AgentRegister, AgentRestart, AgentSample, LoseSample
<1>4. CASE TimeoutWaiting
  BY <1>4 DEF TimeoutWaiting, Finished
<1>5. CASE Claim
  BY <1>0, <1>5 DEF TypeOK, Claim, Finished
<1>6. CASE Restart
  BY <1>6 DEF Restart, Finished
<1>7. CASE Baseline
  BY <1>0, <1>7 DEF TypeOK, Baseline, Job
<1>8. CASE WriteVerdict \/ FailJob
  <2>1. worker.job \in JobIds
    BY <1>0, <1>8, JobOfWorker DEF Agreement, WriteVerdict, FailJob
  <2>2. worker.job # j
    BY <1>0, <1>8 DEF Agreement, WorkerAgrees, JobAgrees, WriteVerdict, FailJob, Finished
  <2>3. worker.step = "write" => worker.verdict \in {"complete", "waiting", "failed"}
    BY <1>0 DEF Agreement, WorkerAgrees
  <2> QED BY <1>0, <1>8, <2>1, <2>2, <2>3, UpdateJobTyped DEF WriteVerdict, FailJob
<1>9. CASE JobTimeout \/ UNCHANGED vars
  BY <1>1, <1>9 DEF JobTimeout, vars
<1> QED BY <1>1, <1>2, <1>3, <1>4, <1>5, <1>6, <1>7, <1>8, <1>9
        DEF Next, WorkerStep, PublishCancel, Prepare, IssueToken, RunScript, ScriptBreaks,
            CheckReport, JobError, WithdrawCancel

-----------------------------------------------------------------------------
(* The theorems *)

\* The inductive invariant: what the worker holds in memory agrees with the rows that
\* everybody else changes (runAgentJob, updateJob, ingestAgent, agentDisable).
THEOREM Invariant == Spec => []IInv
BY InitInvariant, NextInvariant, PTL DEF Spec

\* Rows, worker and hosts keep their types.
THEOREM TypeCorrect == Spec => []TypeOK
<1>1. IInv => TypeOK
  BY DEF IInv
<1> QED BY <1>1, Invariant, PTL

\* A complete job has had its report, whoever completed it (runAgentJob, ingestAgent).
THEOREM CompleteIsReported == Spec => []CompletedByReport
<1>1. IInv => CompletedByReport
  BY DEF IInv, Safety
<1> QED BY <1>1, Invariant, PTL

\* A running job is in the worker's hands (agentJobWorker, recoverInterrupted).
THEOREM NobodyElseRuns == Spec => []RunningIsWorkers
<1>1. IInv => RunningIsWorkers
  BY DEF IInv, Safety
<1> QED BY <1>1, Invariant, PTL

\* No credential outlives its job (updateJob, ingestAgent, agentJobWorker).
THEOREM SecretsCleared == Spec => []SecretsEnd
<1>1. IInv => SecretsEnd
  BY DEF IInv, Safety
<1> QED BY <1>1, Invariant, PTL

\* A job under way does not undo a revocation (agentDisable, issueAgentRegistration).
THEOREM RevocationHolds == Spec => []RevokedIsClosed
<1>1. IInv => RevokedIsClosed
  BY DEF IInv, Safety
<1> QED BY <1>1, Invariant, PTL

\* A finished job stays finished (updateJob, ingestAgent, agentJobWorker).
THEOREM FinishedForGood == Spec => FinishedStays
<1>1. IInv /\ [Next]_vars =>
        [\A j \in JobIds : jobs[j].status \in Finished
           => jobs'[j].status \in {jobs[j].status, "deleted"}]_vars
  BY FinishedStep
<1> QED BY <1>1, Invariant, PTL DEF Spec, FinishedStays
====
