---- MODULE HostTrust ----
(***************************************************************************)
(* The record of a host and the key it is trusted with (hosts.go, ssh.go,  *)
(* agent_install.go), and the page's flow that asks the user about a key   *)
(* (App.tsx: connect).  A save reads the record, its binding and its       *)
(* credential in three statements and writes the record in a fourth; a     *)
(* trust, a connection and an installation dial for seconds with what they *)
(* have read.  What a save does with the credential is left out.           *)
(***************************************************************************)
EXTENDS Naturals

CONSTANTS
  Addrs, Keys,   \* addresses, and host keys of machines
  None,
  MaxSaves,
  MaxMoves       \* how often another key answers at an address

VARIABLES
  machine,       \* the key that answers at each address
  row,           \* of hosts: address and fingerprint, None when it is deleted
  binding,       \* of agent_bindings: "none", "enabled" or "disabled"
  save,          \* hostSave
  flow,          \* the page's probe, question and request to trust
  link,          \* connect
  job,           \* an agent operation, from its request to the end of its SSH connection
  saves, moves,
  confirmed,     \* keys the user has confirmed
  reached,       \* keys of the machines that were given a credential
  installed      \* <<key trusted when the job was made, key of the machine>>

vars == <<machine, row, binding, save, flow, link, job, saves, moves, confirmed, reached,
          installed>>
history == <<confirmed, reached, installed>>
spent == <<saves, moves>>

Fingerprints == Keys \cup {None}
Rows   == [addr : Addrs, fp : Fingerprints]
NoSave == [step |-> "none", addr |-> None, old |-> None]
NoFlow == [step |-> "idle", row |-> None, fp |-> None, previous |-> None]
NoLink == [step |-> "none", row |-> None]
NoJob  == [step |-> "none", fp |-> None, row |-> None]

Assumptions == None \notin Addrs \cup Keys \cup Rows /\ MaxSaves \in Nat /\ MaxMoves \in Nat

Init ==
  /\ machine \in [Addrs -> Keys]
  /\ row \in [addr : Addrs, fp : {None}] /\ binding = "none"
  /\ save = NoSave /\ flow = NoFlow /\ link = NoLink /\ job = NoJob
  /\ saves = 0 /\ moves = 0
  /\ confirmed = {} /\ reached = {} /\ installed = {}

\* External: a machine gets a new key, or another machine answers at its address.
Move(a) ==
  /\ moves < MaxMoves /\ moves' = moves + 1
  /\ \E k \in Keys \ {machine[a]} : machine' = [machine EXCEPT ![a] = k]
  /\ UNCHANGED <<row, binding, save, flow, link, job, saves, history>>

-----------------------------------------------------------------------------
(* hostSave, hostDelete, agentEnable, agentDisable *)

SaveLoads(a) ==
  /\ save = NoSave /\ row # None /\ saves < MaxSaves /\ saves' = saves + 1
  /\ save' = [step |-> "loaded", addr |-> a, old |-> row]
  /\ UNCHANGED <<machine, row, binding, flow, link, job, moves, history>>

\* A host with monitoring keeps its address.
SaveChecks ==
  /\ save.step = "loaded"
  /\ save' = IF save.addr # save.old.addr /\ binding = "enabled" THEN NoSave
             ELSE [save EXCEPT !.step = "checked"]
  /\ UNCHANGED <<machine, row, binding, flow, link, job, spent, history>>

\* The credential is read, from a record that may have been deleted meanwhile.
SaveReads ==
  /\ save.step = "checked"
  /\ save' = IF row = None THEN NoSave ELSE [save EXCEPT !.step = "ready"]
  /\ UNCHANGED <<machine, row, binding, flow, link, job, spent, history>>

Kept == IF save.addr # save.old.addr THEN None ELSE save.old.fp

\* INSERT ... ON CONFLICT DO UPDATE: it makes the record again if it was deleted.
SaveWrites ==
  /\ save.step = "ready" /\ save' = NoSave
  /\ row' = [addr |-> save.addr, fp |-> Kept]
  /\ UNCHANGED <<machine, binding, flow, link, job, spent, history>>

SaveFails ==
  /\ save # NoSave /\ save' = NoSave
  /\ UNCHANGED <<machine, row, binding, flow, link, job, spent, history>>

\* A job that runs is cancelled, unless its dial is over before.
Cancelled == job' \in {job, NoJob} /\ (job.step # "dialing" => job' = job)

\* The binding and a job that has not begun go with the host.
HostDelete ==
  /\ row # None /\ row' = None /\ binding' = "none"
  /\ IF job.step = "pending" THEN job' = NoJob ELSE Cancelled
  /\ UNCHANGED <<machine, save, flow, link, spent, history>>

AgentEnable ==
  /\ row # None /\ binding' = "enabled"
  /\ UNCHANGED <<machine, row, save, flow, link, job, spent, history>>

AgentDisable ==
  /\ binding = "enabled" /\ binding' = "disabled" /\ Cancelled
  /\ UNCHANGED <<machine, row, save, flow, link, spent, history>>

-----------------------------------------------------------------------------
(* probe and trust *)

FlowLoads(step) == row # None /\ flow' = [flow EXCEPT !.step = step, !.row = row]

Probe ==
  /\ flow = NoFlow /\ FlowLoads("probing")
  /\ UNCHANGED <<machine, row, binding, save, link, job, spent, history>>

\* The page asks only about a key that is not the one of the record.
Probed ==
  /\ flow.step = "probing"
  /\ flow' = IF machine[flow.row.addr] = flow.row.fp THEN NoFlow
             ELSE [step |-> "asking", row |-> None, fp |-> machine[flow.row.addr],
                   previous |-> flow.row.fp]
  /\ UNCHANGED <<machine, row, binding, save, link, job, spent, history>>

Confirm ==
  /\ flow.step = "asking" /\ flow' = [flow EXCEPT !.step = "posting"]
  /\ confirmed' = confirmed \cup {flow.fp}
  /\ UNCHANGED <<machine, row, binding, save, link, job, spent, reached, installed>>

TrustLoads ==
  /\ flow.step = "posting" /\ FlowLoads("dialing")
  /\ UNCHANGED <<machine, row, binding, save, link, job, spent, history>>

\* The machine must still have the key, and the record still the one before it.
TrustDials ==
  /\ flow.step = "dialing"
  /\ flow' = IF machine[flow.row.addr] = flow.fp /\ flow.previous = flow.row.fp
             THEN [flow EXCEPT !.step = "dialed", !.row = None] ELSE NoFlow
  /\ UNCHANGED <<machine, row, binding, save, link, job, spent, history>>

TrustWrites ==
  /\ flow.step = "dialed" /\ flow' = NoFlow
  /\ row' = IF row # None /\ row.fp = flow.previous THEN [row EXCEPT !.fp = flow.fp] ELSE row
  /\ UNCHANGED <<machine, binding, save, link, job, spent, history>>

\* The user refuses or leaves, or the network or a statement fails.
FlowEnds ==
  /\ flow # NoFlow /\ flow' = NoFlow
  /\ UNCHANGED <<machine, row, binding, save, link, job, spent, history>>

-----------------------------------------------------------------------------
(* connect, agentJobCreate, runAgentJob *)

ConnectLoads ==
  /\ link = NoLink /\ row # None /\ row.fp # None
  /\ link' = [step |-> "dialing", row |-> row]
  /\ UNCHANGED <<machine, row, binding, save, flow, job, spent, history>>

\* dial: the credential goes to a machine only when its key is the one that was read.
Dial(r) == reached' = IF machine[r.addr] = r.fp THEN reached \cup {machine[r.addr]} ELSE reached

ConnectDials ==
  /\ link.step = "dialing" /\ link' = NoLink /\ Dial(link.row)
  /\ UNCHANGED <<machine, row, binding, save, flow, job, spent, confirmed, installed>>

JobLoads ==
  /\ job = NoJob /\ row # None /\ row.fp # None
  /\ job' = [step |-> "creating", fp |-> row.fp, row |-> None]
  /\ UNCHANGED <<machine, row, binding, save, flow, link, spent, history>>

\* An installation needs an enabled binding, a removal disables it.
JobCreated ==
  /\ job.step = "creating"
  /\ \/ binding = "enabled" /\ job' = [job EXCEPT !.step = "pending"] /\ UNCHANGED binding
     \/ binding # "none" /\ binding' = "disabled" /\ job' = [job EXCEPT !.step = "pending"]
     \/ job' = NoJob /\ UNCHANGED binding
  /\ UNCHANGED <<machine, row, save, flow, link, spent, history>>

\* The job is for the machine that was trusted when it was made.
JobRuns ==
  /\ job.step = "pending" /\ row # None
  /\ job' = IF row.fp = job.fp THEN [job EXCEPT !.step = "dialing", !.row = row] ELSE NoJob
  /\ UNCHANGED <<machine, row, binding, save, flow, link, spent, history>>

JobDials ==
  /\ job.step = "dialing" /\ job' = NoJob /\ Dial(job.row)
  /\ installed' = IF machine[job.row.addr] = job.row.fp
                  THEN installed \cup {<<job.fp, machine[job.row.addr]>>} ELSE installed
  /\ UNCHANGED <<machine, row, binding, save, flow, link, spent, confirmed>>

-----------------------------------------------------------------------------
Next ==
  \/ \E a \in Addrs : Move(a) \/ SaveLoads(a)
  \/ Probe \/ Probed \/ Confirm \/ FlowEnds \/ TrustLoads \/ TrustDials \/ TrustWrites
  \/ SaveChecks \/ SaveReads \/ SaveWrites \/ SaveFails \/ HostDelete \/ AgentEnable \/ AgentDisable
  \/ ConnectLoads \/ ConnectDials \/ JobLoads \/ JobCreated \/ JobRuns \/ JobDials

Spec == Init /\ [][Next]_vars

-----------------------------------------------------------------------------
TypeOK ==
  /\ machine \in [Addrs -> Keys] /\ row \in Rows \cup {None}
  /\ binding \in {"none", "enabled", "disabled"}
  /\ save.step \in {"none", "loaded", "checked", "ready"} /\ save.old \in Rows \cup {None}
  /\ flow \in [step : {"idle", "probing", "asking", "posting", "dialing", "dialed"},
               row : Rows \cup {None}, fp : Fingerprints, previous : Fingerprints]
  /\ link \in [step : {"none", "dialing"}, row : Rows \cup {None}]
  /\ job \in [step : {"none", "creating", "pending", "dialing"}, fp : Fingerprints,
              row : Rows \cup {None}]
  /\ saves \in 0..MaxSaves /\ moves \in 0..MaxMoves

\* A credential is only given to a machine whose key the user has confirmed, though machines,
\* record and address change between the probe, the answer, the trust and the dial.
KeysConfirmed == reached \subseteq confirmed

\* The agent is installed on the machine that was trusted when the user asked for it, with the
\* password for sudo he gave for that machine (agentJobCreate, runAgentJob).
InstalledWhereAsked == \A i \in installed : i[1] = i[2]
====
