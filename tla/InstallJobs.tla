---- MODULE InstallJobs ----
(***************************************************************************)
(* Installing, upgrading and uninstalling the agent over SSH: the job rows *)
(* of agent_install_jobs, the one worker that runs them, the cancel        *)
(* functions it publishes in jobCancels, the scripts it runs on the hosts, *)
(* and the agents those scripts start, whose first report ends a job.      *)
(*                                                                         *)
(* What happens to credentials is AgentEnrollment's subject.  Here a       *)
(* configuration file only says whether the server would still take it:    *)
(* "token" and "report" are live, "dead" is one the server has revoked.    *)
(* The clock is reduced to what runAgentJob asks of it: whether a sample   *)
(* was taken after the last remote operation on its host began.            *)
(***************************************************************************)
EXTENDS Naturals

CONSTANTS
  Hosts,
  NoHost,        \* the host of a job row that does not exist
  MaxJobs,       \* bound of the model: jobs ever created
  MaxSessions,   \* bound of the model: starts of the agent of a host
  MaxRestarts    \* bound of the model: restarts of the server

ASSUME HostAssumption == NoHost \notin Hosts
ASSUME BoundAssumption == MaxJobs \in Nat /\ MaxSessions \in Nat /\ MaxRestarts \in Nat

VARIABLES
  (* the database: the bindings' rows *)
  enabled,      \* agent_bindings.enabled
  registered,   \* report_digest <> ''
  latest,       \* the sample in agent_bindings.latest
  current,      \* "null", or whether last_current is before or after the last operation began
  deleted,      \* hosts that were deleted, with their rows
  (* the database: the jobs' rows, in the order of created_at *)
  jobs,
  (* the server process *)
  worker,       \* agentJobWorker's loop
  jobCancels,   \* the job whose context each host's cancel function ends, or 0
  restarts,
  (* the hosts *)
  config,       \* /var/lib/hoshi-agent/config.json
  session,      \* the running agent's session, 0 if the service does not run
  starts,       \* sessions of the host so far
  flight,       \* samples on their way under the live credential
  (* history *)
  heard         \* jobs for which a new session's sample has been ingested

bindingVars == <<enabled, registered, latest, current, deleted>>
hostVars    == <<config, session, starts>>
serverVars  == <<worker, jobCancels, restarts>>
vars == <<bindingVars, jobs, serverVars, hostVars, flight, heard>>

JobIds   == 1..MaxJobs
Sessions == 0..MaxSessions
Active   == {"pending", "running", "waiting"}
Finished == {"complete", "failed"}
Kinds    == {"install", "upgrade", "uninstall"}
Job      == [host : Hosts \cup {NoHost}, kind : Kinds, secret : BOOLEAN, previous : Sessions,
             status : Active \cup Finished \cup {"none", "deleted"}]
NoJob    == [host |-> NoHost, kind |-> "install", secret |-> FALSE, previous |-> 0,
             status |-> "none"]
Sample   == [session : Sessions, after : BOOLEAN]
NoSample == [session |-> 0, after |-> FALSE]
Steps    == {"idle", "claimed", "prepare", "issue", "baseline", "script", "ran", "write",
             "leave", "fail"}
Worker   == [job : 0..MaxJobs, step : Steps, stopped : BOOLEAN,
             upload : {"none", "token", "dead"},
             verdict : {"none", "complete", "waiting", "failed"}]
Idle     == [job |-> 0, step |-> "idle", stopped |-> FALSE, upload |-> "none",
             verdict |-> "none"]

TypeOK ==
  /\ enabled \in [Hosts -> BOOLEAN] /\ registered \in [Hosts -> BOOLEAN]
  /\ latest \in [Hosts -> Sample] /\ current \in [Hosts -> {"null", "before", "after"}]
  /\ deleted \subseteq Hosts
  /\ jobs \in [JobIds -> Job]
  /\ worker \in Worker /\ jobCancels \in [Hosts -> 0..MaxJobs] /\ restarts \in 0..MaxRestarts
  /\ config \in [Hosts -> {"none", "token", "report", "dead"}]
  /\ session \in [Hosts -> Sessions] /\ starts \in [Hosts -> Sessions]
  /\ flight \in [Hosts -> SUBSET Sample]
  /\ heard \subseteq JobIds

Init ==
  /\ enabled = [h \in Hosts |-> FALSE] /\ registered = [h \in Hosts |-> FALSE]
  /\ latest = [h \in Hosts |-> NoSample] /\ current = [h \in Hosts |-> "null"]
  /\ deleted = {}
  /\ jobs = [j \in JobIds |-> NoJob]
  /\ worker = Idle /\ jobCancels = [h \in Hosts |-> 0] /\ restarts = 0
  /\ config = [h \in Hosts |-> "none"]
  /\ session = [h \in Hosts |-> 0] /\ starts = [h \in Hosts |-> 0]
  /\ flight = [h \in Hosts |-> {}]
  /\ heard = {}

-----------------------------------------------------------------------------
(* What the statements of several operations have in common *)

ActiveOn(h) == {j \in JobIds : jobs[j].host = h /\ jobs[j].status \in Active}

\* Mutant: only the status is written.
FinishKeepsSecret(j, status) == [jobs[j] EXCEPT !.status = status]

\* updateJob clears the credential with the final statuses; so do the others.
Finish(j, status) == [jobs[j] EXCEPT !.status = status, !.secret = FALSE]

\* The registration token is deleted: whoever has it has nothing.
Upload(h, value) ==
  IF worker.job # 0 /\ jobs[worker.job].host = h /\ worker.upload = "token"
  THEN [worker EXCEPT !.upload = value] ELSE worker

\* agentDisable and the uninstall job's transaction.
Revoke(h) ==
  /\ enabled' = [enabled EXCEPT ![h] = FALSE]
  /\ registered' = [registered EXCEPT ![h] = FALSE]
  /\ current' = [current EXCEPT ![h] = "null"]
  /\ config' = [config EXCEPT ![h] = IF @ = "none" THEN "none" ELSE "dead"]
  /\ flight' = [flight EXCEPT ![h] = {}]

\* jobCancels[id](), if there is one.
Cancelled(h, w) ==
  IF jobCancels[h] # 0 /\ jobCancels[h] = w.job THEN [w EXCEPT !.stopped = TRUE] ELSE w

-----------------------------------------------------------------------------
(* The owner's requests *)

AgentEnable(h) ==
  /\ h \notin deleted /\ ~enabled[h]
  /\ enabled' = [enabled EXCEPT ![h] = TRUE]
  /\ UNCHANGED <<registered, latest, current, deleted, jobs, serverVars, hostVars, flight, heard>>

\* The cancel function is called after the commit, under the same mutex the
\* worker publishes it under.
AgentDisable(h) ==
  /\ h \notin deleted
  /\ Revoke(h)
  /\ worker' = Cancelled(h, Upload(h, "dead"))
  /\ UNCHANGED <<latest, deleted, jobs, jobCancels, restarts, session, starts, heard>>

AgentJobCreate(h, kind) ==
  /\ h \notin deleted
  /\ kind = "install" => enabled[h] /\ ~registered[h]
  /\ kind = "upgrade" => enabled[h] /\ registered[h]
  /\ ActiveOn(h) = {}
  /\ \E j \in JobIds :
       /\ jobs[j].status = "none" /\ \A k \in 1..(j - 1) : jobs[k].status # "none"
       /\ jobs' = [jobs EXCEPT ![j] = [host |-> h, kind |-> kind, secret |-> TRUE,
                                       previous |-> 0, status |-> "pending"]]
  /\ IF kind = "uninstall"
     THEN Revoke(h) /\ worker' = Upload(h, "dead")
     ELSE UNCHANGED <<enabled, registered, current, config, flight, worker>>
  /\ UNCHANGED <<latest, deleted, jobCancels, restarts, session, starts, heard>>

\* agentRegistration replaces the token, and the owner may run install.sh by hand.
AgentRegistration(h, installed) ==
  /\ h \notin deleted /\ enabled[h] /\ ~registered[h]
  /\ worker' = Upload(h, "dead")
  /\ IF installed
     THEN /\ config[h] = "none" /\ starts[h] < MaxSessions
          /\ config' = [config EXCEPT ![h] = "token"]
          /\ session' = [session EXCEPT ![h] = starts[h] + 1]
          /\ starts' = [starts EXCEPT ![h] = @ + 1]
     ELSE /\ config' = [config EXCEPT ![h] = IF @ = "token" THEN "dead" ELSE @]
          /\ UNCHANGED <<session, starts>>
  /\ UNCHANGED <<bindingVars, jobs, jobCancels, restarts, flight, heard>>

\* Ten minutes pass.
ExpireRegistration(h) ==
  /\ worker' = Upload(h, "dead")
  /\ config' = [config EXCEPT ![h] = IF @ = "token" THEN "dead" ELSE @]
  /\ <<worker, config>>' # <<worker, config>>
  /\ UNCHANGED <<bindingVars, jobs, jobCancels, restarts, session, starts, flight, heard>>

\* The binding and the jobs go with the host; the job in progress is cancelled.
HostDelete(h) ==
  /\ h \notin deleted
  /\ deleted' = deleted \cup {h}
  /\ Revoke(h)
  /\ jobs' = [j \in JobIds |-> IF jobs[j].host = h
                               THEN [jobs[j] EXCEPT !.status = "deleted", !.secret = FALSE]
                               ELSE jobs[j]]
  /\ worker' = Cancelled(h, Upload(h, "dead"))
  /\ UNCHANGED <<latest, jobCancels, restarts, session, starts, heard>>

-----------------------------------------------------------------------------
(* The worker: agentJobWorker and runAgentJob *)

\* The statement at the head of the loop, which a long job holds up.
TimeoutWaiting ==
  /\ worker.step = "idle"
  /\ \E expired \in SUBSET {j \in JobIds : jobs[j].status = "waiting"} :
       /\ expired # {}
       /\ jobs' = [j \in JobIds |-> IF j \in expired THEN Finish(j, "failed") ELSE jobs[j]]
  /\ UNCHANGED <<bindingVars, serverVars, hostVars, flight, heard>>

Claim ==
  /\ worker.step = "idle"
  /\ \E j \in JobIds :
       /\ jobs[j].status = "pending" /\ \A k \in 1..(j - 1) : jobs[k].status # "pending"
       /\ jobs' = [jobs EXCEPT ![j].status = "running"]
       /\ worker' = [Idle EXCEPT !.job = j, !.step = "claimed"]
  /\ UNCHANGED <<bindingVars, jobCancels, restarts, hostVars, flight, heard>>

\* From here on a revocation can stop the job; one that came before cannot.
PublishCancel ==
  /\ worker.step = "claimed"
  /\ jobCancels' = [jobCancels EXCEPT ![jobs[worker.job].host] = worker.job]
  /\ worker' = [worker EXCEPT !.step = "prepare"]
  /\ UNCHANGED <<bindingVars, jobs, restarts, hostVars, flight, heard>>

\* loadHost, the fingerprint, the connection, the preflight, the upload.
Prepare ==
  /\ worker.step = "prepare" /\ ~worker.stopped
  /\ jobs[worker.job].host \notin deleted
  /\ worker' = [worker EXCEPT !.step = IF jobs[worker.job].kind = "install" THEN "issue"
                                        ELSE "baseline"]
  /\ UNCHANGED <<bindingVars, jobs, jobCancels, restarts, hostVars, flight, heard>>

\* Mutant: the binding checked when the job was created is not checked again.
IssueUnchecked ==
  /\ worker.step = "issue" /\ ~worker.stopped
  /\ LET h == jobs[worker.job].host IN
       config' = [config EXCEPT ![h] = IF @ = "token" THEN "dead" ELSE @]
  /\ worker' = [worker EXCEPT !.step = "baseline", !.upload = "token"]
  /\ UNCHANGED <<bindingVars, jobs, jobCancels, restarts, session, starts, flight, heard>>

\* The registration token of an install job, under the binding's row lock; the
\* token it replaces is deleted.
IssueToken ==
  /\ worker.step = "issue" /\ ~worker.stopped
  /\ LET h == jobs[worker.job].host IN
       /\ h \notin deleted /\ enabled[h] /\ ~registered[h]
       /\ config' = [config EXCEPT ![h] = IF @ = "token" THEN "dead" ELSE @]
  /\ worker' = [worker EXCEPT !.step = "baseline", !.upload = "token"]
  /\ UNCHANGED <<bindingVars, jobs, jobCancels, restarts, session, starts, flight, heard>>

\* expected_version, previous_session and report_after; "started" begins here.
Baseline ==
  /\ worker.step = "baseline" /\ ~worker.stopped
  /\ LET h == jobs[worker.job].host
         Before(m) == [m EXCEPT !.after = FALSE]
     IN /\ h \notin deleted
        /\ jobs' = [jobs EXCEPT ![worker.job].previous = latest[h].session]
        /\ latest' = [latest EXCEPT ![h] = Before(@)]
        /\ current' = [current EXCEPT ![h] = IF @ = "null" THEN "null" ELSE "before"]
        /\ flight' = [flight EXCEPT ![h] = {Before(m) : m \in @}]
  /\ worker' = [worker EXCEPT !.step = "script"]
  /\ heard' = heard \ {worker.job}
  /\ UNCHANGED <<enabled, registered, deleted, jobCancels, restarts, hostVars>>

\* agent-install.sh on the host.  A revoked installation is no reason to refuse.
RunScript ==
  /\ worker.step = "script" /\ ~worker.stopped
  /\ LET h == jobs[worker.job].host
         kind == jobs[worker.job].kind
     IN /\ kind = "install" => config[h] = "none"
        /\ kind = "upgrade" => config[h] # "none"
        /\ config' = [config EXCEPT ![h] = IF kind = "install" THEN worker.upload
                                           ELSE IF kind = "upgrade" THEN @ ELSE "none"]
        /\ IF kind = "uninstall"
           THEN session' = [session EXCEPT ![h] = 0] /\ UNCHANGED starts
           ELSE /\ starts[h] < MaxSessions
                /\ session' = [session EXCEPT ![h] = starts[h] + 1]
                /\ starts' = [starts EXCEPT ![h] = @ + 1]
  /\ worker' = [worker EXCEPT !.step = "ran", !.upload = "none"]
  /\ UNCHANGED <<bindingVars, jobs, jobCancels, restarts, flight, heard>>

\* The script breaks off after stopping the service or writing the configuration.
ScriptBreaks ==
  /\ worker.step = "script" /\ ~worker.stopped
  /\ LET h == jobs[worker.job].host IN
       /\ session' = [session EXCEPT ![h] = 0]
       /\ config' = [config EXCEPT ![h] = IF jobs[worker.job].kind = "install" /\ @ = "none"
                                           THEN worker.upload ELSE @]
  /\ worker' = [worker EXCEPT !.step = "leave", !.verdict = "failed", !.upload = "none"]
  /\ UNCHANGED <<bindingVars, jobs, jobCancels, restarts, starts, flight, heard>>

\* Mutant: any current reading is taken for the new agent's first report.
CheckAnyReading ==
  /\ worker.step = "ran" /\ ~worker.stopped
  /\ LET h == jobs[worker.job].host IN
       /\ h \notin deleted
       /\ \E recent \in BOOLEAN :
            worker' = [worker EXCEPT
              !.step = "write",
              !.verdict = IF \/ jobs[worker.job].kind = "uninstall"
                             \/ current[h] = "after" /\ recent
                          THEN "complete" ELSE "waiting"]
  /\ UNCHANGED <<bindingVars, jobs, jobCancels, restarts, hostVars, flight, heard>>

\* The first report may be there already: last_current and latest are read now,
\* and what they say is written in a statement of its own.
CheckReport ==
  /\ worker.step = "ran" /\ ~worker.stopped
  /\ LET h == jobs[worker.job].host IN
       /\ jobs[worker.job].kind = "uninstall" \/ h \notin deleted
       /\ \E recent \in BOOLEAN :
            worker' = [worker EXCEPT
              !.step = "write",
              !.verdict = IF \/ jobs[worker.job].kind = "uninstall"
                             \/ /\ current[h] = "after" /\ recent
                                /\ latest[h].after
                                /\ latest[h].session # jobs[worker.job].previous
                          THEN "complete" ELSE "waiting"]
  /\ UNCHANGED <<bindingVars, jobs, jobCancels, restarts, hostVars, flight, heard>>

\* updateJob looks at the row's ID only.
UpdateJob(j, status) ==
  jobs' = IF jobs[j].status = "deleted" THEN jobs
          ELSE [jobs EXCEPT ![j] = IF status \in Finished THEN Finish(j, status)
                                   ELSE [@ EXCEPT !.status = status]]

WriteVerdict ==
  /\ worker.step = "write" /\ ~worker.stopped
  /\ UpdateJob(worker.job, worker.verdict)
  /\ worker' = [worker EXCEPT !.step = "leave"]
  /\ UNCHANGED <<bindingVars, jobCancels, restarts, hostVars, flight, heard>>

\* The connection, a command, the database or the context fails.
JobError ==
  /\ worker.step \in {"prepare", "issue", "baseline", "script", "ran", "write"}
  /\ worker' = [worker EXCEPT !.step = "leave", !.verdict = "failed", !.upload = "none"]
  /\ UNCHANGED <<bindingVars, jobs, jobCancels, restarts, hostVars, flight, heard>>

\* Three minutes are over.
JobTimeout ==
  /\ worker.step \notin {"idle", "claimed", "leave", "fail"} /\ ~worker.stopped
  /\ worker' = [worker EXCEPT !.stopped = TRUE]
  /\ UNCHANGED <<bindingVars, jobs, jobCancels, restarts, hostVars, flight, heard>>

WithdrawCancel ==
  /\ worker.step = "leave"
  /\ jobCancels' = [jobCancels EXCEPT ![jobs[worker.job].host] = 0]
  /\ worker' = IF worker.verdict = "failed" THEN [worker EXCEPT !.step = "fail"] ELSE Idle
  /\ UNCHANGED <<bindingVars, jobs, restarts, hostVars, flight, heard>>

FailJob ==
  /\ worker.step = "fail"
  /\ UpdateJob(worker.job, "failed")
  /\ worker' = Idle
  /\ UNCHANGED <<bindingVars, jobCancels, restarts, hostVars, flight, heard>>

\* Mutant: jobs the last process was running are left as they are.
RestartForgets ==
  /\ restarts < MaxRestarts
  /\ restarts' = restarts + 1
  /\ worker' = Idle /\ jobCancels' = [h \in Hosts |-> 0]
  /\ UNCHANGED <<bindingVars, jobs, hostVars, flight, heard>>

\* The process ends at any step; recoverInterrupted runs before the next worker.
Restart ==
  /\ restarts < MaxRestarts
  /\ restarts' = restarts + 1
  /\ worker' = Idle /\ jobCancels' = [h \in Hosts |-> 0]
  /\ jobs' = [j \in JobIds |-> IF jobs[j].status = "running" THEN Finish(j, "failed")
                               ELSE jobs[j]]
  /\ UNCHANGED <<bindingVars, hostVars, flight, heard>>

-----------------------------------------------------------------------------
(* The agents *)

\* agentRegister; when its answer is lost, the agent is left with a used token.
AgentRegister(h) ==
  /\ session[h] # 0 /\ config[h] = "token"
  /\ enabled[h] /\ ~registered[h]
  /\ registered' = [registered EXCEPT ![h] = TRUE]
  /\ current' = [current EXCEPT ![h] = "null"]
  /\ \E answer \in {"report", "dead"} : config' = [config EXCEPT ![h] = answer]
  /\ UNCHANGED <<enabled, latest, deleted, jobs, serverVars, session, starts, flight, heard>>

\* The service manager restarts the agent: a new session.
AgentRestart(h) ==
  /\ session[h] # 0 /\ starts[h] < MaxSessions
  /\ session' = [session EXCEPT ![h] = starts[h] + 1]
  /\ starts' = [starts EXCEPT ![h] = @ + 1]
  /\ UNCHANGED <<bindingVars, jobs, serverVars, config, flight, heard>>

AgentSample(h) ==
  /\ session[h] # 0 /\ config[h] = "report"
  /\ flight' = [flight EXCEPT ![h] = @ \cup {[session |-> session[h], after |-> TRUE]}]
  /\ UNCHANGED <<bindingVars, jobs, serverVars, hostVars, heard>>

\* Whether m was sampled later than what the row holds.
Ordered(h, m) ==
  /\ m.session >= latest[h].session
  /\ latest[h].after => m.after

\* Mutant: a job is completed while the worker still runs it.
AwaitedOrRunning(h, m) ==
  {j \in JobIds : /\ jobs[j].host = h /\ jobs[j].status \in {"running", "waiting"}
                  /\ jobs[j].kind \in {"install", "upgrade"}
                  /\ m.after /\ m.session # jobs[j].previous}

\* The waiting install or upgrade job of h whose report m is.
Awaited(h, m) ==
  {j \in JobIds : /\ jobs[j].host = h /\ jobs[j].status = "waiting"
                  /\ jobs[j].kind \in {"install", "upgrade"}
                  /\ m.after /\ m.session # jobs[j].previous}

\* ingestAgent: an ordered sample replaces the last one; a fresh one makes the
\* host current and completes the job that waits for it.
IngestAgent(h, m, fresh) ==
  /\ m \in flight[h] /\ registered[h]
  /\ flight' = [flight EXCEPT ![h] = @ \ {m}]
  /\ IF Ordered(h, m)
     THEN /\ latest' = [latest EXCEPT ![h] = m]
          /\ IF fresh
             THEN /\ current' = [current EXCEPT ![h] = "after"]
                  /\ jobs' = [j \in JobIds |-> IF j \in Awaited(h, m) THEN Finish(j, "complete")
                                               ELSE jobs[j]]
             ELSE UNCHANGED <<current, jobs>>
     ELSE UNCHANGED <<latest, current, jobs>>
  /\ heard' = heard \cup {j \in ActiveOn(h) : m.after /\ m.session # jobs[j].previous}
  /\ UNCHANGED <<enabled, registered, deleted, serverVars, hostVars>>

LoseSample(h) ==
  /\ \E m \in flight[h] : flight' = [flight EXCEPT ![h] = @ \ {m}]
  /\ UNCHANGED <<bindingVars, jobs, serverVars, hostVars, heard>>

-----------------------------------------------------------------------------
OwnerStep(h) ==
  \/ AgentEnable(h) \/ AgentDisable(h) \/ HostDelete(h) \/ ExpireRegistration(h)
  \/ \E installed \in BOOLEAN : AgentRegistration(h, installed)
  \/ \E kind \in Kinds : AgentJobCreate(h, kind)

WorkerStep ==
  \/ PublishCancel \/ Prepare \/ IssueToken \/ Baseline \/ RunScript \/ ScriptBreaks
  \/ CheckReport \/ WriteVerdict \/ JobError \/ WithdrawCancel \/ FailJob

HostStep(h) ==
  \/ AgentRegister(h) \/ AgentRestart(h) \/ AgentSample(h) \/ LoseSample(h)
  \/ \E m \in flight[h], fresh \in BOOLEAN : IngestAgent(h, m, fresh)

Next ==
  \/ \E h \in Hosts : OwnerStep(h) \/ HostStep(h)
  \/ TimeoutWaiting \/ Claim \/ WorkerStep \/ JobTimeout \/ Restart

Spec == Init /\ [][Next]_vars

\* The worker's loop goes on, whatever the steps of its job come to.
FairSpec == Spec /\ WF_vars(WorkerStep) /\ WF_vars(Claim) /\ WF_vars(TimeoutWaiting)

-----------------------------------------------------------------------------
(* Correctness *)

\* Installing is done when the agent has reported: a complete install or upgrade
\* job has had an authenticated sample from a session it did not start from, taken
\* after its operation began - whether ingestAgent completed it or the worker's
\* own look at the binding, which is out of date when it is written.
CompletedByReport ==
  \A j \in JobIds :
    jobs[j].status = "complete" /\ jobs[j].kind # "uninstall" => j \in heard

\* No job is left running by nobody, which would block every other operation on
\* its host: not by a cancelled context, a failing step or a restart between any
\* two steps.
RunningIsWorkers ==
  \A j \in JobIds : jobs[j].status = "running" => worker.job = j

\* updateJob never asks what the row says, and a report, the five-minute limit and
\* a restart end jobs beside it: what one of them has finished stays finished.
FinishedStays ==
  [][\A j \in JobIds : jobs[j].status \in Finished
       => jobs'[j].status \in {jobs[j].status, "deleted"}]_vars

\* The SSH credential given for a job does not outlive it, on any of the ways a
\* job ends.
SecretsEnd ==
  \A j \in JobIds : jobs[j].secret => jobs[j].status \in Active

\* After a revocation neither an installed agent nor one that a job is about to
\* install can report or register, whatever the job's worker has done already.
RevokedIsClosed ==
  \A h \in Hosts : ~enabled[h] =>
    /\ ~registered[h] /\ config[h] \in {"none", "dead"}
    /\ worker.upload = "token" => jobs[worker.job].host # h

\* Every job ends, in spite of lost reports, failures, timeouts and restarts.
JobsEnd ==
  \A j \in JobIds : jobs[j].status = "pending" ~> jobs[j].status \in Finished \cup {"deleted"}
====
