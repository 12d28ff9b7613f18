---- MODULE AgentEnrollment ----
(***************************************************************************)
(* The credentials of the monitoring agent of one host: the row of         *)
(* agent_bindings and the registration token the server keeps, the         *)
(* configuration file every agent installation keeps, and the HTTP or      *)
(* stream calls between them, which may be lost, answered too late, or     *)
(* still be processed after the agent gave up on them.                     *)
(*                                                                         *)
(* Server actions are single statements or transactions under the row lock *)
(* of the binding; a report is checked twice (agentIdentity, then          *)
(* ingestAgent), which are two actions here.  An absent binding row and a  *)
(* disabled one answer every request alike and are one state.  The stream  *)
(* and its POST fallback carry the same credential and end in the same     *)
(* ingestAgent: a report sent over both is a call given up and a new call. *)
(***************************************************************************)
EXTENDS Naturals, FiniteSets

CONSTANTS
  Agents,        \* agent installations: one configuration file and agent ID each
  Secrets,       \* the values token() may return
  None,          \* the empty string of the code
  MaxAbandoned   \* bound of the model: calls given up but still in flight

ASSUME NoneAssumption == None \notin Agents \cup Secrets
ASSUME BoundAssumption == MaxAbandoned \in Nat

VARIABLES
  (* the server's database *)
  enabled,       \* agent_bindings.enabled
  digest,        \* the secret whose hash is report_digest, or None
  pending,       \* the secret behind pending_digest and pending_secret, or None
  boundAgent,    \* agent_bindings.agent_id, kept when the credential is revoked
  lastCurrent,   \* None for last_current NULL, else whose sample set it
  regToken,      \* the unused, unexpired registration token, or None
  (* what has been given away *)
  issued,        \* secrets generated so far
  handedOut,     \* registration tokens the owner or an install job received
  (* the agents *)
  pc,            \* where each installation is in its life
  disk,          \* its saved configuration file
  memory,        \* the configuration of the running process
  (* the calls between them *)
  requests,      \* calls the server has not answered yet
  reply          \* the answer on its way to each agent

serverVars == <<enabled, digest, pending, boundAgent, lastCurrent, regToken>>
tokenVars  == <<issued, handedOut>>
agentVars  == <<pc, disk, memory>>
callVars   == <<requests, reply>>
vars == <<serverVars, tokenVars, agentVars, callVars>>

Maybe(S) == S \cup {None}
Config   == [reg : Maybe(Secrets), report : Maybe(Secrets)]
Blank    == [reg |-> None, report |-> None]
Stages   == {"fresh", "down", "idle", "waiting", "saving", "removed"}
Request  == [agent : Agents, kind : {"register", "report"}, secret : Secrets,
             identified : BOOLEAN, wanted : BOOLEAN]
Reply    == [status : {"none", "ok", "unauthorized"}, token : Maybe(Secrets)]
NoReply  == [status |-> "none", token |-> None]

TypeOK ==
  /\ enabled \in BOOLEAN
  /\ digest \in Maybe(Secrets) /\ pending \in Maybe(Secrets)
  /\ boundAgent \in Maybe(Agents) /\ lastCurrent \in Maybe(Agents)
  /\ regToken \in Maybe(Secrets)
  /\ issued \subseteq Secrets /\ handedOut \subseteq Secrets
  /\ pc \in [Agents -> Stages]
  /\ disk \in [Agents -> Config] /\ memory \in [Agents -> Config]
  /\ requests \subseteq Request
  /\ reply \in [Agents -> Reply]

Init ==
  /\ enabled = FALSE
  /\ digest = None /\ pending = None /\ boundAgent = None
  /\ lastCurrent = None /\ regToken = None
  /\ issued = {} /\ handedOut = {}
  /\ pc = [a \in Agents |-> "fresh"]
  /\ disk = [a \in Agents |-> Blank] /\ memory = [a \in Agents |-> Blank]
  /\ requests = {}
  /\ reply = [a \in Agents |-> NoReply]

-----------------------------------------------------------------------------
(* The owner's requests: agent_monitoring.go, agent_install.go *)

\* Enabling an enabled binding only changes its settings.
AgentEnable ==
  /\ ~enabled
  /\ enabled' = TRUE
  /\ UNCHANGED <<digest, pending, boundAgent, lastCurrent, regToken,
                 tokenVars, agentVars, callVars>>

\* The same transaction runs for the owner and in an install job.
AgentRegistration ==
  /\ enabled /\ digest = None
  /\ \E t \in Secrets \ issued :
       /\ regToken' = t
       /\ issued' = issued \cup {t}
       /\ handedOut' = handedOut \cup {t}
  /\ UNCHANGED <<enabled, digest, pending, boundAgent, lastCurrent, agentVars, callVars>>

\* Mutant: a rotation that is pending survives the revocation.
DisableKeepsPending ==
  /\ enabled' = FALSE
  /\ digest' = None /\ lastCurrent' = None /\ regToken' = None
  /\ UNCHANGED <<pending, boundAgent, tokenVars, agentVars, callVars>>

\* An uninstall job revokes the binding with the same statements.
AgentDisable ==
  /\ enabled' = FALSE
  /\ digest' = None /\ pending' = None /\ lastCurrent' = None /\ regToken' = None
  /\ UNCHANGED <<boundAgent, tokenVars, agentVars, callVars>>

AgentRotate ==
  /\ enabled /\ digest # None /\ pending = None
  /\ \E s \in Secrets \ issued : pending' = s /\ issued' = issued \cup {s}
  /\ UNCHANGED <<enabled, digest, boundAgent, lastCurrent, regToken, handedOut,
                 agentVars, callVars>>

\* Ten minutes pass.
ExpireRegistration ==
  /\ regToken # None
  /\ regToken' = None
  /\ UNCHANGED <<enabled, digest, pending, boundAgent, lastCurrent,
                 tokenVars, agentVars, callVars>>

-----------------------------------------------------------------------------
(* The server's handlers of the agents' calls *)

\* A call leaves the set when it is answered.  Several calls that were given up
\* and are alike in everything are one element, which may stay for the others.
Taken(m) ==
  \/ requests' = requests \ {m}
  \/ ~m.wanted /\ requests' = requests

\* Nobody reads the answer to a call that was given up.
Answer(m, status, token) ==
  reply' = IF m.wanted
           THEN [reply EXCEPT ![m.agent] = [status |-> status, token |-> token]]
           ELSE reply

\* The token, the binding's state and the new credential are one transaction, so
\* a refusal leaves the token unused.
AgentRegister(m) ==
  /\ m.kind = "register"
  /\ m.secret = regToken /\ enabled /\ digest = None
  /\ \E s \in Secrets \ issued :
       /\ digest' = s
       /\ issued' = issued \cup {s}
       /\ Answer(m, "ok", s)
  /\ boundAgent' = m.agent /\ lastCurrent' = None /\ regToken' = None
  /\ Taken(m)
  /\ UNCHANGED <<enabled, pending, handedOut, agentVars>>

Accepted == {digest, pending} \ {None}

\* agentIdentity finds the binding by the credential, before the body is read.
AgentIdentity(m) ==
  /\ m.kind = "report" /\ ~m.identified
  /\ enabled /\ m.secret \in Accepted
  /\ requests' = (requests \ {m}) \cup {[m EXCEPT !.identified = TRUE]}
  /\ UNCHANGED <<serverVars, tokenVars, agentVars, reply>>

\* Mutant: the check of agentIdentity is trusted and not repeated under the lock.
IngestUnchecked(m, sample, fresh) ==
  /\ m.kind = "report" /\ m.identified
  /\ digest' = IF m.secret = pending THEN pending ELSE digest
  /\ pending' = IF m.secret = pending THEN None ELSE pending
  /\ Answer(m, "ok", IF m.secret = pending THEN None ELSE pending)
  /\ lastCurrent' = IF sample /\ fresh THEN m.agent ELSE lastCurrent
  /\ Taken(m)
  /\ UNCHANGED <<enabled, boundAgent, regToken, tokenVars, agentVars>>

\* Mutant: offering the new credential already retires the old one.
IngestPromotesOffer(m, sample, fresh) ==
  /\ m.kind = "report" /\ m.identified
  /\ enabled /\ m.secret \in Accepted
  /\ digest' = IF pending # None THEN pending ELSE digest
  /\ pending' = None
  /\ Answer(m, "ok", IF m.secret = pending THEN None ELSE pending)
  /\ lastCurrent' = IF sample /\ fresh THEN m.agent ELSE lastCurrent
  /\ Taken(m)
  /\ UNCHANGED <<enabled, boundAgent, regToken, tokenVars, agentVars>>

\* Mutant: the old credential stays valid beside the new one for good.
IngestNeverPromotes(m, sample, fresh) ==
  /\ m.kind = "report" /\ m.identified
  /\ enabled /\ m.secret \in Accepted
  /\ Answer(m, "ok", IF m.secret = pending THEN None ELSE pending)
  /\ lastCurrent' = IF sample /\ fresh THEN m.agent ELSE lastCurrent
  /\ Taken(m)
  /\ UNCHANGED <<enabled, digest, pending, boundAgent, regToken, tokenVars, agentVars>>

\* The first use of the pending credential promotes it; a report under the old
\* one is told the pending one.  Only a sample that is ordered and fresh makes
\* the host current.
IngestAgent(m, sample, fresh) ==
  /\ m.kind = "report" /\ m.identified
  /\ enabled /\ m.secret \in Accepted
  /\ sample => m.agent = boundAgent
  /\ digest' = IF m.secret = pending THEN pending ELSE digest
  /\ pending' = IF m.secret = pending THEN None ELSE pending
  /\ Answer(m, "ok", IF m.secret = pending THEN None ELSE pending)
  /\ lastCurrent' = IF sample /\ fresh THEN m.agent ELSE lastCurrent
  /\ Taken(m)
  /\ UNCHANGED <<enabled, boundAgent, regToken, tokenVars, agentVars>>

\* Everything that is not accepted is answered 401 and rolled back.  A failing
\* lookup is answered 401 as well, so this may hit a good credential.
Refuse(m) ==
  /\ Answer(m, "unauthorized", None)
  /\ Taken(m)
  /\ UNCHANGED <<serverVars, tokenVars, agentVars>>

\* The call is lost on the way, or ends in a rate limit or a server error.
LoseRequest(m) ==
  /\ requests' = requests \ {m}
  /\ UNCHANGED <<serverVars, tokenVars, agentVars, reply>>

-----------------------------------------------------------------------------
(* The agents: agent/client.go, agent-install.sh *)

Abandoned == {m \in requests : ~m.wanted}

\* The agent stops waiting for its call; the server may still have it.
Abandon(a) ==
  /\ (\E m \in requests : m.agent = a /\ m.wanted)
       => Cardinality(Abandoned) < MaxAbandoned
  /\ requests' = {IF m.agent = a THEN [m EXCEPT !.wanted = FALSE] ELSE m : m \in requests}
  /\ reply' = [reply EXCEPT ![a] = NoReply]

\* install.sh refuses to overwrite a configuration file.
Install(a, t) ==
  /\ pc[a] = "fresh" /\ t \in handedOut
  /\ pc' = [pc EXCEPT ![a] = "down"]
  /\ disk' = [disk EXCEPT ![a] = [reg |-> t, report |-> None]]
  /\ UNCHANGED <<serverVars, tokenVars, memory, callVars>>

\* systemd starts the service, again and again after a failure.
Start(a) ==
  /\ pc[a] = "down"
  /\ pc' = [pc EXCEPT ![a] = "idle"]
  /\ memory' = [memory EXCEPT ![a] = disk[a]]
  /\ UNCHANGED <<serverVars, tokenVars, disk, callVars>>

Call(a, kind, secret) ==
  /\ pc[a] = "idle"
  /\ pc' = [pc EXCEPT ![a] = "waiting"]
  /\ requests' = requests \cup {[agent |-> a, kind |-> kind, secret |-> secret,
                                 identified |-> FALSE, wanted |-> TRUE]}
  /\ UNCHANGED <<serverVars, tokenVars, disk, memory, reply>>

SendRegister(a) ==
  /\ memory[a].report = None /\ memory[a].reg # None
  /\ Call(a, "register", memory[a].reg)

SendReport(a) ==
  /\ memory[a].report # None
  /\ Call(a, "report", memory[a].report)

Exit(a) ==
  /\ pc' = [pc EXCEPT ![a] = "down"]
  /\ memory' = [memory EXCEPT ![a] = Blank]

\* register: the credential replaces the registration token, still unsaved.
ReceiveRegistered(a) ==
  /\ pc[a] = "waiting" /\ reply[a].status = "ok" /\ memory[a].report = None
  /\ memory' = [memory EXCEPT ![a] = [reg |-> None, report |-> reply[a].token]]
  /\ pc' = [pc EXCEPT ![a] = "saving"]
  /\ reply' = [reply EXCEPT ![a] = NoReply]
  /\ UNCHANGED <<serverVars, tokenVars, disk, requests>>

\* apply: a new credential must be saved before anything else is sent.
Apply(a) ==
  /\ pc[a] = "waiting" /\ reply[a].status = "ok" /\ memory[a].report # None
  /\ \/ /\ reply[a].token \in {None, memory[a].report}
        /\ pc' = [pc EXCEPT ![a] = "idle"]
        /\ UNCHANGED memory
     \/ /\ reply[a].token \notin {None, memory[a].report}
        /\ pc' = [pc EXCEPT ![a] = "saving"]
        /\ memory' = [memory EXCEPT ![a].report = reply[a].token]
  /\ reply' = [reply EXCEPT ![a] = NoReply]
  /\ UNCHANGED <<serverVars, tokenVars, disk, requests>>

SaveConfig(a) ==
  /\ pc[a] = "saving"
  /\ disk' = [disk EXCEPT ![a] = memory[a]]
  /\ pc' = [pc EXCEPT ![a] = "idle"]
  /\ UNCHANGED <<serverVars, tokenVars, memory, callVars>>

\* errRevoked ends the process whatever call it answers.
ReceiveUnauthorized(a) ==
  /\ pc[a] = "waiting" /\ reply[a].status = "unauthorized"
  /\ Exit(a)
  /\ reply' = [reply EXCEPT ![a] = NoReply]
  /\ UNCHANGED <<serverVars, tokenVars, disk, requests>>

\* Fifteen seconds without an answer, or an answer that is an error: a report is
\* retried by the running process, a registration ends it.
GiveUp(a) ==
  /\ pc[a] = "waiting"
  /\ IF memory[a].report = None
     THEN Exit(a)
     ELSE pc' = [pc EXCEPT ![a] = "idle"] /\ UNCHANGED memory
  /\ Abandon(a)
  /\ UNCHANGED <<serverVars, tokenVars, disk>>

\* The process is killed, or exits because the configuration cannot be saved.
Crash(a) ==
  /\ pc[a] \in {"idle", "waiting", "saving"}
  /\ Exit(a)
  /\ Abandon(a)
  /\ UNCHANGED <<serverVars, tokenVars, disk>>

\* The uninstall script stops the service and deletes the configuration.
Remove(a) ==
  /\ pc[a] \notin {"fresh", "removed"}
  /\ pc' = [pc EXCEPT ![a] = "removed"]
  /\ disk' = [disk EXCEPT ![a] = Blank]
  /\ memory' = [memory EXCEPT ![a] = Blank]
  /\ Abandon(a)
  /\ UNCHANGED <<serverVars, tokenVars>>

-----------------------------------------------------------------------------
Owner == AgentEnable \/ AgentRegistration \/ AgentDisable \/ AgentRotate \/ ExpireRegistration

Handle(m) ==
  \/ AgentRegister(m) \/ AgentIdentity(m) \/ Refuse(m) \/ LoseRequest(m)
  \/ \E sample, fresh \in BOOLEAN : IngestAgent(m, sample, fresh)

AgentStep(a) ==
  \/ \E t \in handedOut : Install(a, t)
  \/ Start(a) \/ SendRegister(a) \/ SendReport(a)
  \/ ReceiveRegistered(a) \/ Apply(a) \/ SaveConfig(a) \/ ReceiveUnauthorized(a)
  \/ GiveUp(a) \/ Crash(a) \/ Remove(a)

Next ==
  \/ Owner
  \/ \E m \in requests : Handle(m)
  \/ \E a \in Agents : AgentStep(a)

Spec == Init /\ [][Next]_vars

\* The report of a that the agent is waiting for reaches each of its two checks
\* and passes it.
Identify(a) == \E m \in requests : m.agent = a /\ m.wanted /\ AgentIdentity(m)
Ingest(a) == \E m \in requests : /\ m.agent = a /\ m.wanted
                                 /\ \E sample, fresh \in BOOLEAN : IngestAgent(m, sample, fresh)

\* The service manager restarts the agent and the agent keeps calling (weak);
\* calls, answers and saves that are tried again and again succeed in the end
\* (strong): the network, the database and the disk do not fail for ever.
Fairness ==
  \A a \in Agents :
    /\ WF_vars(Start(a)) /\ WF_vars(GiveUp(a)) /\ SF_vars(SendReport(a))
    /\ SF_vars(Identify(a)) /\ SF_vars(Ingest(a))
    /\ SF_vars(Apply(a)) /\ SF_vars(SaveConfig(a))

FairSpec == Spec /\ Fairness

-----------------------------------------------------------------------------
(* Correctness *)

\* A report credential an installation has: on its disk, in its process, in one
\* of its calls or in an answer on its way to it.
Holds(a, s) ==
  \/ s \in {disk[a].report, memory[a].report, reply[a].token}
  \/ \E m \in requests : m.agent = a /\ m.kind = "report" /\ m.secret = s

\* At most one installation ever has a credential the server would accept, and it
\* is the one the binding names, whatever token was installed twice, whichever
\* call was answered late and however rotations and revocations interleave with
\* the exchange of the token (agentRegister's one use of a token, agentDisable
\* clearing both digests).
OneHolder ==
  \A a \in Agents, s \in Accepted : Holds(a, s) => a = boundAgent

\* What the host list shows as the host's current reading was reported under the
\* credential that is live now: nothing survives a revocation or a new binding,
\* not even a report that was identified before the revocation and ingested after
\* it (ingestAgent's second check, agentDisable's last_current=NULL).
CurrentIsHolders ==
  lastCurrent # None => digest # None /\ lastCurrent = boundAgent

SavedAccepted(a) == disk[a].report \in Accepted

\* Rotation never locks an agent out: once the credential in an installation's
\* file is accepted, it stays so in spite of lost answers, crashes between
\* receiving, saving and using a new credential, and late calls, until the owner
\* revokes the binding or the installation is removed (apply's order of saving
\* and using, promotion on first use in ingestAgent).
KeepsAccess ==
  [][\A a \in Agents : SavedAccepted(a)
       => SavedAccepted(a)' \/ digest' = None \/ pc'[a] = "removed"]_vars

\* A rotation of a live agent's credential completes: the agent gets, saves and
\* uses the new credential, however often it crashes or loses calls on the way.
RotationCompletes ==
  \A a \in Agents : (pending # None /\ SavedAccepted(a))
                      ~> (pending = None \/ pc[a] = "removed")

\* Enrollment is an implementation of what HostBinding promises the owner.
Binding == INSTANCE HostBinding WITH
  open    <- enabled,
  holder  <- IF digest = None THEN None ELSE boundAgent,
  current <- lastCurrent

ImplementsBinding == Binding!Spec

-----------------------------------------------------------------------------
(* The inductive invariant behind the theorems of AgentEnrollmentProofs *)

\* A secret nobody has generated is known to nobody.
Generated ==
  \A s \in Secrets : (s \in Accepted \/ \E a \in Agents : Holds(a, s)) => s \in issued

BindingConsistent ==
  /\ pending # None => digest # None /\ pending # digest
  /\ digest # None => enabled /\ boundAgent \in Agents

\* The agent waits for one call at a time, made with the configuration it runs.
OneCall ==
  /\ \A m \in requests : m.wanted =>
       /\ pc[m.agent] = "waiting" /\ reply[m.agent] = NoReply
       /\ m.kind = "register" => memory[m.agent].report = None
       /\ m.kind = "report" => memory[m.agent].report = m.secret
  /\ \A m, n \in requests : m.wanted /\ n.wanted /\ m.agent = n.agent => m = n
  /\ \A a \in Agents :
       /\ reply[a] # NoReply => pc[a] = "waiting"
       /\ reply[a].status = "ok" /\ memory[a].report = None => reply[a].token # None

SavedBeforeUse ==
  \A a \in Agents :
    /\ pc[a] \in {"idle", "waiting"} => memory[a] = disk[a]
    /\ pc[a] \in {"fresh", "down", "removed"} => memory[a] = Blank
    /\ pc[a] \in {"fresh", "removed"} => disk[a] = Blank
    /\ pc[a] = "saving" => memory[a].report # None

\* A credential that has reached the agent and not its disk.
Unsaved(a, t) ==
  t = reply[a].token \/ (pc[a] = "saving" /\ t = memory[a].report)

\* Only a pending credential is ever on its way to an agent with an accepted one.
NewIsPending ==
  \A a \in Agents, t \in Secrets : Unsaved(a, t) =>
    /\ t # disk[a].report
    /\ disk[a].report # None /\ t \in Accepted => t = pending
    /\ SavedAccepted(a) => t = pending

\* A credential in a call was on the agent's disk, and a pending one still is.
UsedIsSaved ==
  \A m \in requests : m.kind = "report" /\ pc[m.agent] # "removed" =>
    /\ disk[m.agent].report # None
    /\ m.secret = pending => disk[m.agent].report = pending

IInv ==
  /\ TypeOK
  /\ Generated /\ BindingConsistent /\ OneHolder /\ CurrentIsHolders
  /\ OneCall /\ SavedBeforeUse /\ NewIsPending /\ UsedIsSaved
====
